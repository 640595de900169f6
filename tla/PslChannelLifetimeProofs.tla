----------------------- MODULE PslChannelLifetimeProofs -----------------------
(***************************************************************************)
(* Who keeps a channel alive (PslChannelLifetime), for any finite set of   *)
(* watches: nothing is used after it is freed, and each piece lives as     *)
(* long as it is needed.                                                   *)
(*                                                                         *)
(* The operators of the model take the world to the next, so the lemmas    *)
(* say what each makes of a world whose counts are right.                  *)
(***************************************************************************)
EXTENDS PslChannelLifetime, FiniteSetTheorems, TLAPS

One(b) == IF b THEN 1 ELSE 0

(* The watches that exist, each with its reference to the header.          *)
Held(ws) == {w \in Watches : ws[w].refs > 0}

(* The references to the machine of its callback that is being run.        *)
CallbackRefs(who) == CASE who = "fd" -> 2 [] who = "lookup" -> 1 [] OTHER -> 0

Chans    == [mem : BOOLEAN, user : BOOLEAN, headerRef : Nat]
Fsms     == [mem : BOOLEAN, refCount : Nat, fsmClosed : BOOLEAN, fsmFinalized : BOOLEAN]
FdWatches == [refs : Nat, attached : BOOLEAN]
Contexts == [refs : Nat, user : BOOLEAN]

(* The header is owned by the user and the watches,                        *)
HeaderOK(ch, ws) ==
    /\ ch.headerRef = Cardinality(Held(ws)) + One(ch.user)
    /\ ch.mem <=> ch.headerRef > 0

(* the machine by the header and its callbacks, and finalized as soon as   *)
(* the user is gone;                                                       *)
FsmOK(f, ch, who) ==
    /\ f.refCount = One(ch.mem) + CallbackRefs(who)
    /\ f.mem <=> f.refCount > 0
    /\ f.mem => (f.fsmFinalized <=> ~ch.user)

(* the machine's source by its context and the machine, and by GLib while  *)
(* it is dispatched; the thread context by the machine and the user;       *)
FdWatchOK(fd, ch, who) ==
    /\ fd.refs = 2 * One(ch.user) + One(who = "fd")
    /\ fd.attached <=> ch.user

ContextOK(c, ch) == c.refs = One(ch.user) + One(c.user)

(* and a watch by its context and by GLib, and perhaps by the user.        *)
WatchOK(ws, w, who) ==
    /\ ws[w].refs >= One(ws[w].attached) + One(who = w)
    /\ ws[w].refs <= One(ws[w].attached) + One(who = w) + 1

Worlds == [chan : Chans, fsm : Fsms, fd : FdWatches, ctx : Contexts,
           watches : [Watches -> ChannelWatches], fault : {""}]

(* The world, while who is being called back.                              *)
WorldOK(x, who) ==
    /\ HeaderOK(x.chan, x.watches)
    /\ FsmOK(x.fsm, x.chan, who)
    /\ FdWatchOK(x.fd, x.chan, who)
    /\ ContextOK(x.ctx, x.chan)
    /\ \A w \in Watches : WatchOK(x.watches, w, who)

Callers == Watches \cup {"nobody", "fd", "lookup"}

LoopOK ==
    /\ io \in Answers
    /\ ready \subseteq Watches \cup {"fd", "lookup"}
    /\ running \in [who : Callers, cond : SUBSET GIOCondition]

LifeInv == World \in Worlds /\ WorldOK(World, running.who) /\ LoopOK

-----------------------------------------------------------------------------
(* Worlds.                                                                 *)

(* The world after a step is the one it becomes.                           *)
LEMMA WorldBecomes ==
    ASSUME NEW x \in Worlds, Becomes(x)
    PROVE  World' = x
<1>1. /\ chan' = x.chan /\ fsm' = x.fsm /\ fdWatch' = x.fd /\ ctx' = x.ctx
      /\ watches' = x.watches /\ fault' = x.fault
  BY DEF Becomes
<1>2. x = [chan |-> x.chan, fsm |-> x.fsm, fd |-> x.fd, ctx |-> x.ctx,
           watches |-> x.watches, fault |-> x.fault]
  BY DEF Worlds
<1> QED
  BY <1>1, <1>2 DEF World

(* So a step that becomes a world whose counts are right keeps the         *)
(* invariant.                                                              *)
LEMMA BecomesOK ==
    ASSUME NEW x \in Worlds, Becomes(x), WorldOK(x, running'.who), LoopOK'
    PROVE  LifeInv'
<1>1. World' = x
  BY WorldBecomes
<1>2. WorldOK(World, running.who)'
  BY <1>1 DEF WorldOK, HeaderOK, FsmOK, FdWatchOK, ContextOK, WatchOK, One, Held, CallbackRefs
<1> QED
  BY <1>1, <1>2 DEF LifeInv, Worlds, Chans, Fsms, FdWatches, Contexts

(* The watches are finitely many, and those that exist.                    *)
LEMMA HeldCounts ==
    ASSUME NEW ws \in [Watches -> ChannelWatches]
    PROVE  /\ IsFiniteSet(Held(ws)) /\ Cardinality(Held(ws)) \in Nat
           /\ Cardinality(Held(ws)) <= Cardinality(Watches)
           /\ Cardinality(Held(ws)) = 0 <=> Held(ws) = {}
<1>1. Held(ws) \in SUBSET Watches
  BY DEF Held
<1>2. IsFiniteSet(Held(ws)) /\ Cardinality(Held(ws)) <= Cardinality(Watches)
  BY <1>1, FS_Subset, WatchesAssumption
<1> QED
  BY <1>2, FS_CardinalityType, FS_EmptySet

-----------------------------------------------------------------------------
(* References.                                                             *)

(* One reference to the machine less, with the last of which it is freed.  *)
OneLess(f, g) ==
    /\ g.refCount = f.refCount - 1
    /\ g.mem <=> g.refCount > 0
    /\ g.mem => g.fsmFinalized = f.fsmFinalized /\ g.fsmClosed = f.fsmClosed

(* psl_chan_fsm_unref: the last reference may go only once the machine is  *)
(* finalized.                                                              *)
LEMMA FsmUnrefs ==
    ASSUME NEW x \in Worlds, NEW locked, x.fsm.mem, x.fsm.refCount > 0,
           x.fsm.refCount = 1 => x.fsm.fsmFinalized
    PROVE  /\ FsmUnref(x, locked) \in Worlds
           /\ OneLess(x.fsm, FsmUnref(x, locked).fsm)
           /\ FsmUnref(x, locked) = [x EXCEPT !.fsm = FsmUnref(x, locked).fsm]
<1> DEFINE r == FsmUnref(x, locked)
<1>1. x.fsm \in Fsms
  BY DEF Worlds
<1> DEFINE y == FaultIf(~x.fsm.mem, x, "machine unreferenced after free")
<1>2. y = x
  BY DEF FaultIf
<1>3. r = IF y.fsm.refCount <= 1 THEN FsmFree(y, locked)
          ELSE [y EXCEPT !.fsm.refCount = y.fsm.refCount - 1]
  BY DEF FsmUnref
<1> HIDE DEF y, r
<1>4. CASE x.fsm.refCount = 1
  <2>1. r = FsmFree(x, locked)
    BY <1>1, <1>4, <1>2, <1>3
  <2>2. FaultIf(~x.fsm.fsmFinalized, x, "freed, not finalized") = x
    BY <1>4 DEF FaultIf
  <2>3. r = [x EXCEPT !.fsm = NoFsm]
    BY <2>1, <2>2 DEF FsmFree
  <2>4. NoFsm \in Fsms
    BY DEF NoFsm, Fsms
  <2>5. r \in Worlds /\ r.fsm = NoFsm
    BY <2>3, <2>4 DEF Worlds
  <2>6. OneLess(x.fsm, NoFsm)
    BY <1>1, <1>4 DEF OneLess, NoFsm, Fsms
  <2> QED
    BY <2>3, <2>5, <2>6 DEF r
<1>5. CASE x.fsm.refCount # 1
  <2> DEFINE g == [x.fsm EXCEPT !.refCount = x.fsm.refCount - 1]
  <2>1. r = [x EXCEPT !.fsm = g]
    BY <1>1, <1>5, <1>2, <1>3 DEF Fsms
  <2>2. g \in Fsms /\ OneLess(x.fsm, g)
    BY <1>1, <1>5 DEF Fsms, OneLess
  <2>3. r \in Worlds /\ r.fsm = g
    BY <2>1, <2>2 DEF Worlds
  <2> QED
    BY <2>1, <2>2, <2>3 DEF r
<1> QED
  BY <1>4, <1>5

(* The header loses the reference that is one too many, and with the last  *)
(* of them the machine loses the header's: the user is gone then, so that  *)
(* it is finalized.                                                        *)
LEMMA HeaderUnrefs ==
    ASSUME NEW x \in Worlds, NEW locked, NEW who, x.chan.mem,
           x.chan.headerRef = Cardinality(Held(x.watches)) + One(x.chan.user) + 1,
           FsmOK(x.fsm, x.chan, who)
    PROVE  /\ HeaderUnref(x, locked) \in Worlds
           /\ HeaderOK(HeaderUnref(x, locked).chan, x.watches)
           /\ FsmOK(HeaderUnref(x, locked).fsm, HeaderUnref(x, locked).chan, who)
           /\ HeaderUnref(x, locked).chan.user = x.chan.user
           /\ HeaderUnref(x, locked).fd = x.fd /\ HeaderUnref(x, locked).ctx = x.ctx
           /\ HeaderUnref(x, locked).watches = x.watches
<1> DEFINE r == HeaderUnref(x, locked)
           y == FaultIf(~x.chan.mem, x, "channel unreferenced after free")
<1>1. y = x
  BY DEF FaultIf
<1>2. r = IF y.chan.headerRef <= 1
            THEN [FsmUnref(y, locked) EXCEPT !.chan.mem = FALSE, !.chan.headerRef = 0]
            ELSE [y EXCEPT !.chan.headerRef = y.chan.headerRef - 1]
  BY DEF HeaderUnref
<1>3. PICK n \in Nat : n = Cardinality(Held(x.watches))
  BY HeldCounts DEF Worlds
<1>4. x.chan \in Chans /\ x.fsm \in Fsms
  BY DEF Worlds
<1>5. CallbackRefs(who) \in Nat
  BY DEF CallbackRefs
<1> HIDE DEF y, r
<1>6. CASE x.chan.headerRef <= 1
  <2> DEFINE z == FsmUnref(x, locked)
             c == [x.chan EXCEPT !.mem = FALSE, !.headerRef = 0]
  <2>1. n = 0 /\ ~x.chan.user
    BY <1>3, <1>4, <1>6 DEF One, Chans
  <2>2. x.fsm.mem /\ x.fsm.refCount = CallbackRefs(who) + 1 /\ x.fsm.fsmFinalized
    BY <1>4, <1>5, <2>1 DEF FsmOK, One, Chans, Fsms
  <2>3. z \in Worlds /\ OneLess(x.fsm, z.fsm) /\ z = [x EXCEPT !.fsm = z.fsm]
    BY <1>5, <2>2, FsmUnrefs
  <2> HIDE DEF z
  <2>4. z.chan = x.chan /\ z.fd = x.fd /\ z.ctx = x.ctx /\ z.watches = x.watches
    BY <2>3 DEF Worlds
  <2>5. r = [z EXCEPT !.chan = c]
    BY <1>1, <1>2, <1>4, <1>6, <2>3, <2>4 DEF z, Worlds, Chans
  <2>6. c \in Chans /\ c.user = x.chan.user /\ ~c.mem /\ c.headerRef = 0
    BY <1>4 DEF Chans
  <2> HIDE DEF c
  <2>7. r \in Worlds /\ r.chan = c /\ r.fsm = z.fsm /\ r.fd = z.fd /\ r.ctx = z.ctx
        /\ r.watches = z.watches
    BY <2>3, <2>5, <2>6 DEF Worlds
  <2>8. HeaderOK(c, x.watches)
    BY <1>3, <2>1, <2>6 DEF HeaderOK, One
  <2>9. z.fsm \in Fsms
    BY <2>3 DEF Worlds
  <2>10. FsmOK(z.fsm, c, who)
    <3>1. z.fsm.refCount = One(c.mem) + CallbackRefs(who)
      BY <1>5, <2>2, <2>3, <2>6 DEF OneLess, One
    <3>2. z.fsm.mem <=> z.fsm.refCount > 0
      BY <2>3 DEF OneLess
    <3>3. z.fsm.mem => z.fsm.fsmFinalized
      BY <2>2, <2>3 DEF OneLess
    <3>4. ~c.user
      BY <2>1, <2>6
    <3> QED
      BY <3>1, <3>2, <3>3, <3>4, Zenon DEF FsmOK
  <2> QED
    BY <2>4, <2>6, <2>7, <2>8, <2>10 DEF r
<1>7. CASE x.chan.headerRef > 1
  <2> DEFINE c == [x.chan EXCEPT !.headerRef = x.chan.headerRef - 1]
  <2>1. r = [x EXCEPT !.chan = c]
    BY <1>1, <1>2, <1>4, <1>7 DEF Chans
  <2>2. c \in Chans /\ c.user = x.chan.user /\ c.mem /\ c.headerRef = x.chan.headerRef - 1
    BY <1>4, <1>7 DEF Chans
  <2> HIDE DEF c
  <2>3. r \in Worlds /\ r.chan = c /\ r.fsm = x.fsm /\ r.fd = x.fd /\ r.ctx = x.ctx
        /\ r.watches = x.watches
    BY <2>1, <2>2 DEF Worlds
  <2>4. HeaderOK(c, x.watches)
    BY <1>3, <1>4, <1>7, <2>2 DEF HeaderOK, One, Chans
  <2>5. FsmOK(x.fsm, c, who)
    BY <2>2 DEF FsmOK
  <2> QED
    BY <2>2, <2>3, <2>4, <2>5 DEF r
<1> QED
  BY <1>4, <1>6, <1>7 DEF Chans

(* A watch that goes, or one that comes.                                   *)
LEMMA HeldWithout ==
    ASSUME NEW ws \in [Watches -> ChannelWatches], NEW w \in Watches,
           NEW v \in ChannelWatches
    PROVE  LET after == [ws EXCEPT ![w] = v]
               c == Cardinality(Held(ws))
           IN  /\ ws[w].refs > 0 /\ v.refs > 0 => Cardinality(Held(after)) = c
               /\ ws[w].refs > 0 /\ v.refs = 0 => c = Cardinality(Held(after)) + 1
               /\ ws[w].refs = 0 /\ v.refs > 0 => Cardinality(Held(after)) = c + 1
<1> DEFINE after == [ws EXCEPT ![w] = v]
           S == Held(ws)
<1>1. after[w] = v /\ \A u \in Watches \ {w} : after[u] = ws[u]
  OBVIOUS
<1>2. IsFiniteSet(S) /\ Cardinality(S) \in Nat
  BY HeldCounts
<1>3. ws[w].refs > 0 /\ v.refs > 0 => Held(after) = S
  BY <1>1 DEF Held
<1>4. ws[w].refs > 0 /\ v.refs = 0 => w \in S /\ Held(after) = S \ {w}
  BY <1>1 DEF Held
<1>5. ws[w].refs = 0 /\ v.refs > 0 => w \notin S /\ Held(after) = S \cup {w}
  BY <1>1 DEF Held
<1> HIDE DEF S, after
<1>6. /\ w \in S => Cardinality(S \ {w}) = Cardinality(S) - 1
      /\ w \notin S => Cardinality(S \cup {w}) = Cardinality(S) + 1
  BY <1>2, FS_AddElement, FS_RemoveElement
<1> DEFINE m == Cardinality(S)
           n == Cardinality(Held(after))
<1>7. ws[w].refs > 0 /\ v.refs > 0 => n = m
  BY <1>3
<1>8. ws[w].refs > 0 /\ v.refs = 0 => m = n + 1
  <2>1. w \in S /\ Held(after) = S \ {w} => n = m - 1
    BY <1>6
  <2> QED
    BY <1>2, <1>4, <2>1
<1>9. ws[w].refs = 0 /\ v.refs > 0 => n = m + 1
  BY <1>5, <1>6
<1> QED
  BY <1>7, <1>8, <1>9, Zenon DEF S, after

-----------------------------------------------------------------------------
(* Watches.                                                                *)

(* What x becomes when something happens to w: the references are right,   *)
(* and nothing else has changed.                                           *)
OnlyWatch(x, r, w, who) ==
    /\ r \in Worlds
    /\ HeaderOK(r.chan, r.watches) /\ FsmOK(r.fsm, r.chan, who)
    /\ r.chan.user = x.chan.user /\ r.fd = x.fd /\ r.ctx = x.ctx
    /\ \A v \in Watches : v # w => r.watches[v] = x.watches[v]

(* A watch replaced by another that exists like it.                        *)
LEMMA WatchChanges ==
    ASSUME NEW x \in Worlds, NEW who, HeaderOK(x.chan, x.watches), FsmOK(x.fsm, x.chan, who),
           NEW w \in Watches, NEW v \in ChannelWatches, x.watches[w].refs > 0, v.refs > 0
    PROVE  /\ OnlyWatch(x, [x EXCEPT !.watches[w] = v], w, who)
           /\ [x EXCEPT !.watches[w] = v].watches[w] = v
<1> DEFINE after == [x.watches EXCEPT ![w] = v]
           r == [x EXCEPT !.watches[w] = v]
<1>1. x.watches \in [Watches -> ChannelWatches]
  BY DEF Worlds
<1>2. Cardinality(Held(after)) = Cardinality(Held(x.watches))
  BY <1>1, HeldWithout
<1>3. /\ after \in [Watches -> ChannelWatches] /\ after[w] = v
      /\ \A u \in Watches : u # w => after[u] = x.watches[u]
  BY <1>1
<1> HIDE DEF after
<1>4. /\ r \in Worlds /\ r.watches = after /\ r.chan = x.chan /\ r.fsm = x.fsm
      /\ r.fd = x.fd /\ r.ctx = x.ctx
  BY <1>3 DEF Worlds, after
<1> HIDE DEF r
<1>5. HeaderOK(r.chan, r.watches) /\ FsmOK(r.fsm, r.chan, who)
  BY <1>2, <1>4 DEF HeaderOK
<1> QED
  BY <1>3, <1>4, <1>5 DEF OnlyWatch, r

(* g_source_unref: with the last reference the watch goes, and its to the  *)
(* header.                                                                 *)
LEMMA SourceUnrefs ==
    ASSUME NEW x \in Worlds, NEW who, HeaderOK(x.chan, x.watches), FsmOK(x.fsm, x.chan, who),
           NEW w \in Watches, x.watches[w].refs > 0
    PROVE  /\ OnlyWatch(x, SourceUnref(x, w), w, who)
           /\ SourceUnref(x, w).watches[w].refs = x.watches[w].refs - 1
           /\ SourceUnref(x, w).watches[w].attached
                <=> x.watches[w].attached /\ x.watches[w].refs > 1
<1> DEFINE ws == x.watches
           r == SourceUnref(x, w)
<1>1. ws \in [Watches -> ChannelWatches]
  BY DEF Worlds
<1>2. ws[w] \in ChannelWatches
  BY <1>1
<1>3. CASE ws[w].refs = 1
  <2> DEFINE after == [ws EXCEPT ![w] = NoChannelWatch]
             y == [x EXCEPT !.watches[w] = NoChannelWatch]
  <2>1. r = HeaderUnref(y, TRUE)
    BY <1>3 DEF SourceUnref, WatchFinalized, FaultIf
  <2>2. NoChannelWatch \in ChannelWatches /\ NoChannelWatch.refs = 0
    BY DEF NoChannelWatch, ChannelWatches
  <2>3. Cardinality(Held(ws)) = Cardinality(Held(after)) + 1
    BY <1>1, <1>3, <2>2, HeldWithout
  <2>4. /\ after \in [Watches -> ChannelWatches] /\ after[w] = NoChannelWatch
        /\ \A u \in Watches : u # w => after[u] = ws[u]
    BY <1>1, <2>2
  <2> HIDE DEF after
  <2>5. /\ y \in Worlds /\ y.watches = after /\ y.chan = x.chan /\ y.fsm = x.fsm
        /\ y.fd = x.fd /\ y.ctx = x.ctx
    BY <2>4 DEF Worlds, after
  <2>6. PICK n \in Nat : n = Cardinality(Held(after))
    BY <2>4, HeldCounts
  <2> HIDE DEF y, r
  <2>7. y.chan.mem /\ y.chan.headerRef = Cardinality(Held(y.watches)) + One(y.chan.user) + 1
    BY <2>3, <2>5, <2>6 DEF HeaderOK, One
  <2>8. FsmOK(y.fsm, y.chan, who)
    BY <2>5
  <2>9. /\ r \in Worlds /\ HeaderOK(r.chan, y.watches) /\ FsmOK(r.fsm, r.chan, who)
        /\ r.chan.user = y.chan.user /\ r.fd = y.fd /\ r.ctx = y.ctx
        /\ r.watches = y.watches
    BY <2>1, <2>5, <2>7, <2>8, HeaderUnrefs
  <2>10. OnlyWatch(x, r, w, who)
    BY <2>4, <2>5, <2>9 DEF OnlyWatch
  <2> QED
    BY <1>3, <2>4, <2>5, <2>9, <2>10 DEF r, NoChannelWatch
<1>4. CASE ws[w].refs > 1
  <2> DEFINE v == [ws[w] EXCEPT !.refs = ws[w].refs - 1]
  <2>1. ~(ws[w].refs <= 1)
    BY <1>2, <1>4 DEF ChannelWatches
  <2>2. r = [x EXCEPT !.watches[w] = v]
    BY <2>1 DEF SourceUnref
  <2>3. /\ v \in ChannelWatches /\ v.refs = ws[w].refs - 1 /\ v.attached = ws[w].attached
    BY <1>2, <1>4 DEF ChannelWatches
  <2>4. v.refs > 0
    BY <1>2, <1>4, <2>3 DEF ChannelWatches
  <2> HIDE DEF v, r
  <2>5. OnlyWatch(x, r, w, who) /\ r.watches[w] = v
    BY <1>4, <2>2, <2>3, <2>4, WatchChanges
  <2> QED
    BY <1>4, <2>3, <2>5 DEF r
<1>5. ws[w].refs = 1 \/ ws[w].refs > 1
  BY <1>2 DEF ChannelWatches
<1> QED
  BY <1>3, <1>4, <1>5

(* g_source_destroy: the watch leaves its context, and loses that one's    *)
(* reference.                                                              *)
LEMMA SourceDestroys ==
    ASSUME NEW x \in Worlds, NEW who, HeaderOK(x.chan, x.watches), FsmOK(x.fsm, x.chan, who),
           NEW w \in Watches, x.watches[w].attached => x.watches[w].refs > 0
    PROVE  /\ OnlyWatch(x, SourceDestroy(x, w), w, who)
           /\ SourceDestroy(x, w).watches[w].refs
                = x.watches[w].refs - One(x.watches[w].attached)
           /\ ~SourceDestroy(x, w).watches[w].attached
<1> DEFINE ws == x.watches
           r == SourceDestroy(x, w)
<1>1. ws[w] \in ChannelWatches
  BY DEF Worlds
<1>2. CASE ~ws[w].attached
  <2>1. r = x
    BY <1>2 DEF SourceDestroy
  <2> QED
    BY <1>1, <1>2, <2>1 DEF OnlyWatch, One, ChannelWatches
<1>3. CASE ws[w].attached
  <2> DEFINE v == [NoChannelWatch EXCEPT !.refs = ws[w].refs]
             y == [x EXCEPT !.watches[w] = v]
  <2>1. r = SourceUnref(y, w)
    BY <1>3 DEF SourceDestroy
  <2>2. v \in ChannelWatches /\ v.refs = ws[w].refs /\ ~v.attached
    BY <1>1 DEF ChannelWatches, NoChannelWatch
  <2> HIDE DEF v
  <2>3. OnlyWatch(x, y, w, who) /\ y.watches[w] = v
    BY <1>3, <2>2, WatchChanges
  <2> HIDE DEF y, r
  <2>4. /\ OnlyWatch(y, r, w, who) /\ r.watches[w].refs = v.refs - 1
        /\ ~r.watches[w].attached
    <3>1. /\ y \in Worlds /\ HeaderOK(y.chan, y.watches) /\ FsmOK(y.fsm, y.chan, who)
          /\ y.watches[w].refs > 0
      BY <1>3, <2>2, <2>3 DEF OnlyWatch
    <3>2. /\ OnlyWatch(y, SourceUnref(y, w), w, who)
          /\ SourceUnref(y, w).watches[w].refs = y.watches[w].refs - 1
          /\ SourceUnref(y, w).watches[w].attached
               <=> y.watches[w].attached /\ y.watches[w].refs > 1
      BY <3>1, SourceUnrefs
    <3> QED
      BY <2>1, <2>2, <2>3, <3>2
  <2>5. OnlyWatch(x, r, w, who)
    BY <2>3, <2>4 DEF OnlyWatch
  <2> QED
    BY <1>3, <2>2, <2>4, <2>5 DEF r, One
<1> QED
  BY <1>2, <1>3

-----------------------------------------------------------------------------
(* Steps of the watches.                                                   *)

(* Whether a watch is called back or nobody is, the machine and its source *)
(* have no references of it.                                               *)
LEMMA OnlyWatchOK ==
    ASSUME NEW x \in Worlds, NEW who, WorldOK(x, who), NEW w \in Watches, NEW then,
           then = who \/ {who, then} \subseteq {w, "nobody"},
           NEW r, OnlyWatch(x, r, w, then), WatchOK(r.watches, w, then)
    PROVE  WorldOK(r, then)
<1>1. w \notin {"nobody", "fd", "lookup"}
  BY WatchesAssumption
<1>2. \A v \in Watches : v # "nobody"
  BY WatchesAssumption
<1>3. FdWatchOK(r.fd, r.chan, then)
  <2>1. One(then = "fd") = One(who = "fd")
    BY <1>1 DEF One
  <2> QED
    BY <2>1 DEF WorldOK, OnlyWatch, FdWatchOK
<1>4. ContextOK(r.ctx, r.chan)
  BY DEF WorldOK, OnlyWatch, ContextOK
<1>5. ASSUME NEW v \in Watches PROVE WatchOK(r.watches, v, then)
  <2>1. v # w => r.watches[v] = x.watches[v] /\ (then = v <=> who = v)
    BY <1>2 DEF OnlyWatch
  <2>2. WatchOK(x.watches, v, who)
    BY DEF WorldOK
  <2> QED
    BY <2>1, <2>2 DEF WatchOK, One
<1> QED
  BY <1>3, <1>4, <1>5 DEF WorldOK, OnlyWatch

(* Calling back a watch is nothing to the machine.                         *)
LEMMA WatchRefs ==
    ASSUME NEW w \in Watches
    PROVE  CallbackRefs(w) = 0 /\ CallbackRefs("nobody") = 0 /\ w # "nobody" /\ w # "fd"
<1>1. w \notin {"nobody", "fd", "lookup"}
  BY WatchesAssumption
<1> QED
  BY <1>1 DEF CallbackRefs

(* What the invariant says of a watch.                                     *)
LEMMA WatchIs ==
    ASSUME LifeInv, NEW w \in Watches
    PROVE  /\ World \in Worlds /\ WorldOK(World, running.who)
           /\ HeaderOK(World.chan, World.watches)
           /\ FsmOK(World.fsm, World.chan, running.who)
           /\ World.watches = watches /\ watches[w] \in ChannelWatches
           /\ WatchOK(watches, w, running.who)
           /\ watches[w].attached => watches[w].refs > 0
<1>1. World \in Worlds /\ WorldOK(World, running.who)
  BY DEF LifeInv
<1>2. World.watches = watches /\ watches \in [Watches -> ChannelWatches]
  BY <1>1 DEF World, Worlds
<1>3. WatchOK(watches, w, running.who) /\ watches[w] \in ChannelWatches
  BY <1>1, <1>2 DEF WorldOK
<1>4. watches[w].attached => watches[w].refs > 0
  BY <1>3 DEF WatchOK, One, ChannelWatches
<1> QED
  BY <1>1, <1>2, <1>3, <1>4 DEF WorldOK

(* g_source_destroy by the user or by the main loop.                       *)
LEMMA DestroysStep ==
    ASSUME LifeInv, NEW w \in Watches, Becomes(SourceDestroy(World, w)),
           watches[w].attached, LoopOK', running' = running
    PROVE  LifeInv'
<1> DEFINE r == SourceDestroy(World, w)
<1>1. /\ World \in Worlds /\ WorldOK(World, running.who)
      /\ HeaderOK(World.chan, World.watches) /\ FsmOK(World.fsm, World.chan, running.who)
      /\ World.watches = watches /\ watches[w] \in ChannelWatches
      /\ WatchOK(watches, w, running.who) /\ watches[w].refs > 0
  BY WatchIs
<1>2. /\ OnlyWatch(World, r, w, running.who)
      /\ r.watches[w].refs = watches[w].refs - One(watches[w].attached)
      /\ ~r.watches[w].attached
  BY <1>1, SourceDestroys
<1> HIDE DEF r
<1>3. WatchOK(r.watches, w, running.who)
  BY <1>1, <1>2 DEF WatchOK, One, ChannelWatches
<1>4. r \in Worlds /\ WorldOK(r, running.who)
  BY <1>1, <1>2, <1>3, OnlyWatchOK DEF OnlyWatch
<1> QED
  BY <1>4, BecomesOK DEF r

(* The user gives up its reference to a watch.                             *)
LEMMA UserUnrefsWatchStep ==
    ASSUME LifeInv, NEW w \in Watches, UserUnrefsWatch(w)
    PROVE  LifeInv'
<1> DEFINE r == SourceUnref(World, w)
<1>1. /\ World \in Worlds /\ WorldOK(World, running.who)
      /\ HeaderOK(World.chan, World.watches) /\ FsmOK(World.fsm, World.chan, running.who)
      /\ World.watches = watches /\ watches[w] \in ChannelWatches
      /\ WatchOK(watches, w, running.who)
  BY WatchIs
<1>2. watches[w].refs > One(watches[w].attached) + One(running.who = w)
  BY DEF UserUnrefsWatch, UserHolds, One
<1>3. watches[w].refs > 0 /\ (watches[w].attached => watches[w].refs > 1)
  BY <1>1, <1>2 DEF One, ChannelWatches
<1>4. /\ OnlyWatch(World, r, w, running.who)
      /\ r.watches[w].refs = watches[w].refs - 1
      /\ r.watches[w].attached <=> watches[w].attached /\ watches[w].refs > 1
  BY <1>1, <1>3, SourceUnrefs
<1> HIDE DEF r
<1>5. One(r.watches[w].attached) = One(watches[w].attached)
  BY <1>3, <1>4 DEF One
<1>6. WatchOK(r.watches, w, running.who)
  BY <1>1, <1>2, <1>4, <1>5 DEF WatchOK, One, ChannelWatches
<1>7. r \in Worlds /\ WorldOK(r, running.who)
  BY <1>1, <1>4, <1>6, OnlyWatchOK DEF OnlyWatch
<1>8. Becomes(r) /\ running' = running /\ LoopOK'
  BY DEF UserUnrefsWatch, OfUser, LifeInv, LoopOK, r
<1> QED
  BY <1>7, <1>8, BecomesOK

(* The callback of a watch returns: it stays, or is destroyed, and loses   *)
(* the reference GLib had while it dispatched it.                          *)
LEMMA WatchCbReturnsStep ==
    ASSUME LifeInv, NEW w \in Watches, NEW stayAttached \in BOOLEAN,
           WatchCbReturns(w, stayAttached)
    PROVE  LifeInv'
<1> DEFINE left == IF stayAttached THEN World ELSE SourceDestroy(World, w)
           r == SourceUnref(left, w)
<1>1. /\ World \in Worlds /\ WorldOK(World, running.who)
      /\ HeaderOK(World.chan, World.watches) /\ FsmOK(World.fsm, World.chan, running.who)
      /\ World.watches = watches /\ watches[w] \in ChannelWatches
      /\ WatchOK(watches, w, running.who) /\ watches[w].refs > 0
  <2>1. running.who = w
    BY DEF WatchCbReturns
  <2>2. WatchOK(watches, w, running.who) /\ watches[w] \in ChannelWatches
    BY WatchIs
  <2>3. watches[w].refs > 0
    BY <2>1, <2>2 DEF WatchOK, One, ChannelWatches
  <2> QED
    BY <2>3, WatchIs
<1>2. running.who = w /\ running' = NoCall /\ Becomes(r) /\ LoopOK'
  BY DEF WatchCbReturns, LifeInv, LoopOK, NoCall, NoAnswer, Answers, Callers, r, left
<1>3. /\ OnlyWatch(World, left, w, running.who)
      /\ left.watches[w].refs = watches[w].refs - One(watches[w].attached /\ ~stayAttached)
      /\ left.watches[w].attached <=> watches[w].attached /\ stayAttached
      /\ left.watches[w] \in ChannelWatches
  <2>1. CASE stayAttached
    BY <1>1, <2>1 DEF OnlyWatch, One, ChannelWatches
  <2>2. CASE ~stayAttached
    <3>1. /\ OnlyWatch(World, SourceDestroy(World, w), w, running.who)
          /\ SourceDestroy(World, w).watches[w].refs
               = watches[w].refs - One(watches[w].attached)
          /\ ~SourceDestroy(World, w).watches[w].attached
      BY <1>1, SourceDestroys
    <3> QED
      BY <2>2, <3>1 DEF OnlyWatch, One, Worlds
  <2> QED
    BY <2>1, <2>2
<1> HIDE DEF left
<1>4. left.watches[w].refs > One(left.watches[w].attached)
  BY <1>1, <1>2, <1>3 DEF WatchOK, One, ChannelWatches
<1>5. left.watches[w].refs <= One(left.watches[w].attached) + 2
  BY <1>1, <1>2, <1>3 DEF WatchOK, One, ChannelWatches
<1>6. /\ OnlyWatch(left, r, w, running.who)
      /\ r.watches[w].refs = left.watches[w].refs - 1
      /\ r.watches[w].attached <=> left.watches[w].attached /\ left.watches[w].refs > 1
  <2>1. left.watches[w].refs > 0
    BY <1>3, <1>4 DEF One, ChannelWatches
  <2> QED
    BY <1>3, <2>1, SourceUnrefs DEF OnlyWatch
<1> HIDE DEF r
<1>7. OnlyWatch(World, r, w, "nobody")
  BY <1>2, <1>3, <1>6, WatchRefs DEF OnlyWatch, FsmOK
<1>8. WatchOK(r.watches, w, "nobody")
  <2>1. One(r.watches[w].attached) = One(left.watches[w].attached)
    BY <1>3, <1>4, <1>6 DEF One
  <2>2. One("nobody" = w) = 0
    BY WatchRefs DEF One
  <2> QED
    BY <1>3, <1>4, <1>5, <1>6, <2>1, <2>2 DEF WatchOK, ChannelWatches, One
<1>9. r \in Worlds /\ WorldOK(r, "nobody")
  BY <1>1, <1>2, <1>7, <1>8, OnlyWatchOK DEF OnlyWatch
<1> QED
  BY <1>2, <1>9, BecomesOK DEF NoCall

(* A watch that exists has the header to read, and that has the machine.   *)
LEMMA HeaderIsThere ==
    ASSUME LifeInv, NEW w \in Watches, watches[w].refs > 0
    PROVE  chan.mem /\ fsm.mem /\ Reads(World) = World
<1>1. watches \in [Watches -> ChannelWatches]
  BY DEF LifeInv, World, Worlds
<1>2. HeaderOK(chan, watches) /\ FsmOK(fsm, chan, running.who)
  BY DEF LifeInv, WorldOK, World
<1>3. chan \in Chans /\ fsm \in Fsms
  BY DEF LifeInv, World, Worlds
<1>4. w \in Held(watches)
  BY DEF Held
<1>5. Cardinality(Held(watches)) \in Nat /\ Cardinality(Held(watches)) # 0
  BY <1>1, <1>4, HeldCounts
<1>6. chan.mem
  BY <1>2, <1>5 DEF HeaderOK, One
<1>7. CallbackRefs(running.who) \in Nat
  BY DEF CallbackRefs
<1>8. fsm.mem
  BY <1>2, <1>3, <1>6, <1>7 DEF FsmOK, One, Fsms
<1>9. World.chan.mem /\ World.fsm.mem
  BY <1>6, <1>8 DEF World
<1> QED
  BY <1>6, <1>8, <1>9 DEF Reads, FaultIf

(* A watch is replaced by another with as many references as its place in  *)
(* its context and its callback then need.                                 *)
LEMMA ReplacesStep ==
    ASSUME LifeInv, NEW w \in Watches, NEW v \in ChannelWatches,
           Becomes([World EXCEPT !.watches[w] = v]), LoopOK',
           \/ running'.who = running.who
           \/ {running.who, running'.who} \subseteq {w, "nobody"},
           watches[w].refs > 0, v.refs > 0,
           v.refs >= One(v.attached) + One(running'.who = w),
           v.refs <= One(v.attached) + One(running'.who = w) + 1
    PROVE  LifeInv'
<1> DEFINE r == [World EXCEPT !.watches[w] = v]
           then == running'.who
<1>1. /\ World \in Worlds /\ WorldOK(World, running.who)
      /\ HeaderOK(World.chan, World.watches) /\ FsmOK(World.fsm, World.chan, running.who)
      /\ World.watches = watches
  BY WatchIs
<1>2. OnlyWatch(World, r, w, running.who) /\ r.watches[w] = v
  BY <1>1, WatchChanges
<1> HIDE DEF r
<1>3. CallbackRefs(then) = CallbackRefs(running.who)
  BY WatchRefs
<1>4. OnlyWatch(World, r, w, then)
  BY <1>2, <1>3 DEF OnlyWatch, FsmOK
<1>5. WatchOK(r.watches, w, then)
  BY <1>2 DEF WatchOK
<1> HIDE DEF then
<1>6. then = running.who \/ {running.who, then} \subseteq {w, "nobody"}
  BY DEF then
<1>7. r \in Worlds /\ WorldOK(r, then)
  BY <1>1, <1>4, <1>5, <1>6, OnlyWatchOK DEF OnlyWatch
<1> QED
  BY <1>7, BecomesOK DEF r, then

(* PmSockWatchUpdate                                                       *)
LEMMA UserUpdatesWatchStep ==
    ASSUME LifeInv, NEW w \in Watches, NEW conds \in Conditions, UserUpdatesWatch(w, conds)
    PROVE  LifeInv'
<1> DEFINE v == UpdateConditions(watches[w], conds)
<1>1. /\ watches[w] \in ChannelWatches /\ WatchOK(watches, w, running.who)
      /\ World \in Worlds /\ World.watches = watches
  BY WatchIs
<1>2. conds \subseteq {"IN", "OUT"}
  BY ConditionsAssumption
<1>3. v \in ChannelWatches /\ v.refs = watches[w].refs /\ v.attached = watches[w].attached
  BY <1>1, <1>2 DEF UpdateConditions, ChannelWatches
<1>4. v.refs > 0
  BY <1>1, <1>3 DEF UserUpdatesWatch, UserHolds, ChannelWatches
<1> HIDE DEF v
<1>5. running' = running /\ LoopOK'
  BY DEF UserUpdatesWatch, OfUser, LifeInv, LoopOK
<1>6. Becomes([World EXCEPT !.watches[w] = v])
  BY DEF UserUpdatesWatch, Becomes, World, v
<1> QED
  BY <1>1, <1>3, <1>4, <1>5, <1>6, ReplacesStep DEF WatchOK

(* palmsock_io_create_watch: the user's reference and that of the context, *)
(* and one to the header.                                                  *)
LEMMA UserWatchesStep ==
    ASSUME LifeInv, NEW w \in Watches, NEW conds \in Conditions, UserWatches(w, conds)
    PROVE  LifeInv'
<1> DEFINE v == [NewChannelWatch(conds) EXCEPT !.refs = 2, !.attached = TRUE]
           after == [watches EXCEPT ![w] = v]
           c == [chan EXCEPT !.headerRef = chan.headerRef + 1]
           r == [World EXCEPT !.chan = c, !.watches = after]
<1>1. /\ World \in Worlds /\ WorldOK(World, running.who)
      /\ World.watches = watches /\ watches[w] \in ChannelWatches
      /\ WatchOK(watches, w, running.who)
  BY WatchIs
<1>2. /\ chan \in Chans /\ fsm \in Fsms /\ watches \in [Watches -> ChannelWatches]
      /\ World.chan = chan /\ World.fsm = fsm
  BY <1>1 DEF World, Worlds
<1>3. chan.user /\ watches[w].refs = 0
  BY DEF UserWatches
<1>4. running.who # w
  BY <1>1, <1>3 DEF WatchOK, One
<1>5. PICK n \in Nat : n = Cardinality(Held(watches))
  BY <1>2, HeldCounts
<1>6. chan.mem /\ chan.headerRef = n + 1
  BY <1>1, <1>2, <1>3, <1>5 DEF WorldOK, HeaderOK, One
<1>7. conds \subseteq {"IN", "OUT"}
  BY ConditionsAssumption
<1>8. v \in ChannelWatches /\ v.refs = 2 /\ v.attached
  <2>1. NoChannelWatch \in ChannelWatches
    BY DEF NoChannelWatch, ChannelWatches
  <2>2. /\ [NoChannelWatch EXCEPT !.refs = 1] \in ChannelWatches
    BY <2>1 DEF ChannelWatches
  <2>3. NewChannelWatch(conds) \in ChannelWatches
    BY <1>7, <2>2 DEF NewChannelWatch, ChannelWatches
  <2>4. [NewChannelWatch(conds) EXCEPT !.refs = 2] \in ChannelWatches
    BY <2>3 DEF ChannelWatches
  <2> QED
    BY <2>3, <2>4 DEF ChannelWatches
<1>9. HeaderRef(World) = [World EXCEPT !.chan = c]
  BY <1>2, <1>6 DEF HeaderRef, FaultIf
<1>10. [NewChannelWatch(conds) EXCEPT !.refs = @ + 1, !.attached = TRUE] = v
  BY DEF NewChannelWatch, NoChannelWatch
<1>11. Becomes([HeaderRef(World) EXCEPT !.watches[w] = v])
  BY <1>10 DEF UserWatches
<1> HIDE DEF v
<1>12. Cardinality(Held(after)) = n + 1
  <2>1. v.refs > 0
    BY <1>8
  <2>2. Cardinality(Held(after)) = Cardinality(Held(watches)) + 1
    BY <1>2, <1>3, <1>8, <2>1, HeldWithout
  <2> QED
    BY <1>5, <2>2
<1>13. /\ after \in [Watches -> ChannelWatches] /\ after[w] = v
       /\ \A u \in Watches : u # w => after[u] = watches[u]
  BY <1>2, <1>8
<1>14. /\ c \in Chans /\ c.mem = chan.mem /\ c.user = chan.user
       /\ c.headerRef = chan.headerRef + 1
  BY <1>2 DEF Chans
<1>15. [HeaderRef(World) EXCEPT !.watches[w] = v] = r
  BY <1>9 DEF World
<1> HIDE DEF c, after
<1>16. /\ r \in Worlds /\ r.chan = c /\ r.watches = after /\ r.fsm = World.fsm
       /\ r.fd = World.fd /\ r.ctx = World.ctx
  BY <1>1, <1>13, <1>14 DEF Worlds
<1> HIDE DEF r
<1>17. HeaderOK(r.chan, r.watches)
  <2>1. Cardinality(Held(r.watches)) = n + 1
    BY <1>12, <1>16
  <2>2. r.chan.user /\ r.chan.mem
    BY <1>3, <1>6, <1>14, <1>16, Zenon
  <2>3. One(r.chan.user) = 1
    BY <2>2 DEF One
  <2>4. r.chan.headerRef = n + 2
    BY <1>6, <1>14, <1>16
  <2> QED
    <3>1. /\ r.chan.headerRef > 0
          /\ r.chan.headerRef = Cardinality(Held(r.watches)) + One(r.chan.user)
      BY <2>1, <2>3, <2>4
    <3> QED
      BY <2>2, <3>1, Zenon DEF HeaderOK
<1>18. FsmOK(r.fsm, r.chan, running.who)
  BY <1>1, <1>2, <1>14, <1>16 DEF WorldOK, FsmOK
<1>19. FdWatchOK(r.fd, r.chan, running.who) /\ ContextOK(r.ctx, r.chan)
  BY <1>1, <1>2, <1>14, <1>16 DEF WorldOK, FdWatchOK, ContextOK
<1>20. ASSUME NEW u \in Watches PROVE WatchOK(r.watches, u, running.who)
  <2>1. WatchOK(watches, u, running.who)
    BY <1>1 DEF WorldOK
  <2> QED
    BY <1>4, <1>8, <1>13, <1>16, <2>1 DEF WatchOK, One
<1>21. WorldOK(r, running.who)
  BY <1>17, <1>18, <1>19, <1>20 DEF WorldOK
<1>22. running' = running /\ LoopOK'
  BY DEF UserWatches, OfUser, LifeInv, LoopOK
<1> QED
  BY <1>11, <1>15, <1>16, <1>21, <1>22, BecomesOK

(* What a watch may tell: what it is asked for or a failure, nothing but   *)
(* NVAL of a closed channel, and a direction only if CHECK_IO says so or   *)
(* leaves it to what poll() has reported.                                  *)
LEMMA WatchTells ==
    ASSUME NEW closed \in BOOLEAN, NEW a \in Answers, NEW v \in ChannelWatches
    PROVE  LET res  == Preflight(closed, a, v.conditions)
               told == WhatIsReady(v, res)
           IN  /\ told \subseteq v.conditions \cup Failures
               /\ told \subseteq GIOCondition /\ res.poll \subseteq GIOCondition
               /\ closed /\ told # {} => told = {"NVAL"}
               /\ \A dir \in told \ Failures :
                     LET hint == IF dir = "IN" THEN a.readable ELSE a.writeable
                     IN \/ hint \in {"ready", "readyhup"}
                        \/ hint # "notReady" /\ a.fd /\ dir \in v.revents
<1> DEFINE mon     == v.conditions
           allowed == mon \cup Failures
           sure    == (Told(a.readable, "IN") \cup Told(a.writeable, "OUT")) \cap allowed
           unasked == Suppressed(a.readable, "IN") \cup Suppressed(a.writeable, "OUT")
           res     == Preflight(closed, a, mon)
           told    == WhatIsReady(v, res)
<1>1. mon \subseteq {"IN", "OUT"} /\ v.revents \subseteq GIOCondition
  BY DEF ChannelWatches
<1>2. allowed \subseteq GIOCondition
  BY <1>1 DEF GIOCondition
<1>3. told = res.ready \cup (v.revents \cap res.poll)
  BY DEF WhatIsReady
<1>4. CASE mon = {}
  <2>1. res = [ready |-> {}, poll |-> {}]
    BY <1>4 DEF Preflight
  <2>2. told = {} /\ res.poll = {}
    BY <1>3, <2>1
  <2> QED
    BY <2>2
<1>5. CASE mon # {} /\ closed
  <2>1. res = [ready |-> {"NVAL"}, poll |-> {}]
    BY <1>5 DEF Preflight
  <2>2. told = {"NVAL"} /\ res.poll = {}
    BY <1>3, <2>1
  <2> QED
    BY <2>2 DEF Failures, GIOCondition
<1>6. CASE mon # {} /\ ~closed
  <2>1. res = [ready |-> sure,
               poll  |-> IF a.fd THEN allowed \ (sure \cup unasked) ELSE {}]
    BY <1>6 DEF Preflight
  <2>2. /\ told \subseteq sure \cup (v.revents \cap allowed)
        /\ res.poll \subseteq allowed /\ sure \subseteq allowed
    BY <1>3, <2>1
  <2>3. ASSUME NEW dir \in told, dir \notin Failures
        PROVE  LET hint == IF dir = "IN" THEN a.readable ELSE a.writeable
               IN \/ hint \in {"ready", "readyhup"}
                  \/ hint # "notReady" /\ a.fd /\ dir \in v.revents
    <3>1. dir \in {"IN", "OUT"}
      BY <1>1, <2>2, <2>3
    <3>2. CASE dir \in sure
      BY <2>3, <3>1, <3>2 DEF Told, Failures
    <3>3. CASE dir \notin sure
      <4>1. dir \in v.revents /\ dir \in res.poll
        BY <1>3, <2>1, <3>3
      <4>2. a.fd /\ dir \notin unasked
        BY <2>1, <4>1
      <4> QED
        BY <3>1, <4>1, <4>2 DEF Suppressed
    <3> QED
      BY <3>2, <3>3
  <2> HIDE DEF told, res, sure, unasked
  <2> QED
    BY <1>2, <1>6, <2>2, <2>3 DEF told, res
<1> QED
  BY <1>4, <1>5, <1>6

(* chan_watch_dispatch: GLib has one reference more while it calls back.   *)
LEMMA DispatchWatchStep ==
    ASSUME LifeInv, NEW w \in Watches, NEW answer \in Answers, DispatchWatch(w, answer)
    PROVE  LifeInv'
<1> DEFINE told == WhatIsReady(watches[w], Result(w, answer))
           v == [watches[w] EXCEPT !.refs = watches[w].refs + 1]
<1>1. /\ watches[w] \in ChannelWatches /\ WatchOK(watches, w, running.who)
      /\ World.watches = watches /\ watches[w].attached /\ watches[w].refs > 0
      /\ running = NoCall /\ running.who = "nobody"
  BY WatchIs DEF DispatchWatch, NoCall
<1>2. Reads(World) = World
  BY <1>1, HeaderIsThere
<1>3. ready' \subseteq Watches \cup {"fd", "lookup"}
  BY DEF DispatchWatch, LeavesReady, LifeInv, LoopOK
<1>4. CASE told = {}
  <2>1. Becomes(World) /\ UNCHANGED <<running, io>>
    BY <1>2, <1>4 DEF DispatchWatch
  <2>2. LoopOK'
    BY <1>3, <2>1 DEF LifeInv, LoopOK
  <2> QED
    BY <2>1, <2>2, BecomesOK DEF LifeInv
<1>5. CASE told # {}
  <2>1. /\ Becomes([World EXCEPT !.watches[w] = v])
        /\ running' = [who |-> w, cond |-> told] /\ io' = answer
    BY <1>1, <1>2, <1>5 DEF DispatchWatch
  <2>2. told \subseteq GIOCondition
    <3>1. fsm.fsmClosed \in BOOLEAN
      BY DEF LifeInv, World, Worlds, Fsms
    <3> QED
      BY <1>1, <3>1, WatchTells DEF Result
  <2> HIDE DEF told
  <2>3. LoopOK'
    BY <1>3, <2>1, <2>2 DEF LoopOK, Callers
  <2>4. watches[w].refs \in 1 .. 2
    BY <1>1, WatchRefs DEF WatchOK, One, ChannelWatches
  <2>5. v \in ChannelWatches /\ v.refs = watches[w].refs + 1 /\ v.attached
    BY <1>1, <2>4 DEF ChannelWatches
  <2> HIDE DEF v
  <2>6. running'.who = w
    BY <2>1
  <2>7. One(v.attached) = 1 /\ One(running'.who = w) = 1
    BY <2>5, <2>6 DEF One
  <2>8. /\ v.refs > 0 /\ v.refs >= One(v.attached) + One(running'.who = w)
        /\ v.refs <= One(v.attached) + One(running'.who = w) + 1
    <3>1. v.refs \in 2 .. 3
      BY <2>4, <2>5
    <3> QED
      BY <2>7, <3>1
  <2>9. {running.who, running'.who} \subseteq {w, "nobody"}
    BY <1>1, <2>6
  <2> QED
    BY <1>1, <2>1, <2>3, <2>5, <2>8, <2>9, ReplacesStep
<1> QED
  BY <1>4, <1>5

(* A turn of the main loop: each watch forgets what poll() reported last   *)
(* time.                                                                   *)
LEMMA PrepareAndCheckStep ==
    ASSUME LifeInv, PrepareAndCheck
    PROVE  LifeInv'
<1>1. PICK answer \in Answers, found \in {{}, {"IN", "OUT", "HUP"}},
           own \in SUBSET {"fd", "lookup"} :
        LET polled == [w \in Watches |->
                IF w \in Attached THEN PrepareAndPoll(watches[w], Result(w, answer), found)
                ELSE watches[w]]
        IN /\ Becomes([(IF Attached = {} THEN World ELSE Reads(World)) EXCEPT
                         !.watches = polled])
           /\ ready' = own \cup {w \in Attached :
                                   WhatIsReady(polled[w], Result(w, answer)) # {}}
  BY DEF PrepareAndCheck
<1> DEFINE polled == [w \in Watches |->
                IF w \in Attached THEN PrepareAndPoll(watches[w], Result(w, answer), found)
                ELSE watches[w]]
           r == [World EXCEPT !.watches = polled]
<1>2. /\ World \in Worlds /\ WorldOK(World, running.who) /\ World.watches = watches
      /\ watches \in [Watches -> ChannelWatches] /\ World.chan = chan /\ World.fsm = fsm
      /\ World.fd = fdWatch /\ World.ctx = ctx
  BY DEF LifeInv, World, Worlds
<1>3. (IF Attached = {} THEN World ELSE Reads(World)) = World
  <2>1. ASSUME NEW w \in Attached PROVE Reads(World) = World
    <3>1. w \in Watches /\ watches[w].attached
      BY DEF Attached
    <3>2. watches[w].refs > 0
      BY <3>1, WatchIs
    <3> QED
      BY <3>1, <3>2, HeaderIsThere
  <2> QED
    BY <2>1
<1>4. ASSUME NEW w \in Watches
      PROVE  /\ polled[w] \in ChannelWatches /\ polled[w].refs = watches[w].refs
             /\ polled[w].attached = watches[w].attached
  <2>1. watches[w] \in ChannelWatches
    BY <1>2
  <2>2. CASE w \in Attached
    <3> DEFINE now == found \cap Result(w, answer).poll
    <3>1. polled[w] = [watches[w] EXCEPT !.revents = now]
      BY <2>2 DEF PrepareAndPoll
    <3>2. now \subseteq GIOCondition
      BY DEF GIOCondition, Failures
    <3> HIDE DEF now
    <3> QED
      BY <2>1, <3>1, <3>2 DEF ChannelWatches
  <2>3. CASE w \notin Attached
    BY <2>1, <2>3
  <2> QED
    BY <2>2, <2>3
<1>5. Becomes(r)
  BY <1>1, <1>3
<1>6. ready' \subseteq Watches \cup {"fd", "lookup"}
  BY <1>1 DEF Attached
<1>7. LoopOK' /\ running' = running
  BY <1>6 DEF PrepareAndCheck, LifeInv, LoopOK
<1>8. polled \in [Watches -> ChannelWatches]
  BY <1>4
<1> HIDE DEF polled
<1>9. /\ r \in Worlds /\ r.watches = polled /\ r.chan = World.chan /\ r.fsm = World.fsm
      /\ r.fd = World.fd /\ r.ctx = World.ctx
  BY <1>2, <1>8 DEF Worlds
<1> HIDE DEF r
<1>10. Held(polled) = Held(watches)
  BY <1>4 DEF Held
<1>11. \A w \in Watches : WatchOK(r.watches, w, running.who)
  BY <1>2, <1>4, <1>9 DEF WorldOK, WatchOK
<1>12. WorldOK(r, running.who)
  BY <1>2, <1>9, <1>10, <1>11 DEF WorldOK, HeaderOK
<1> QED
  BY <1>5, <1>7, <1>9, <1>12, BecomesOK

-----------------------------------------------------------------------------
(* Steps of the channel, of its machine and of the user.                   *)

(* The parts of the world, and the counts of each.                         *)
LEMMA Parts ==
    ASSUME LifeInv
    PROVE  /\ World \in Worlds /\ WorldOK(World, running.who)
           /\ World.chan = chan /\ World.fsm = fsm /\ World.fd = fdWatch
           /\ World.ctx = ctx /\ World.watches = watches /\ World.fault = ""
           /\ chan \in Chans /\ fsm \in Fsms /\ fdWatch \in FdWatches
           /\ ctx \in Contexts /\ watches \in [Watches -> ChannelWatches]
           /\ HeaderOK(chan, watches) /\ FsmOK(fsm, chan, running.who)
           /\ FdWatchOK(fdWatch, chan, running.who) /\ ContextOK(ctx, chan)
           /\ \A w \in Watches : WatchOK(watches, w, running.who)
           /\ Cardinality(Held(watches)) \in Nat
<1>1. World \in Worlds /\ WorldOK(World, running.who)
  BY DEF LifeInv
<1>2. /\ World.chan = chan /\ World.fsm = fsm /\ World.fd = fdWatch
      /\ World.ctx = ctx /\ World.watches = watches
  BY DEF World
<1>3. /\ World.fault = "" /\ chan \in Chans /\ fsm \in Fsms /\ fdWatch \in FdWatches
      /\ ctx \in Contexts /\ watches \in [Watches -> ChannelWatches]
  BY <1>1, <1>2 DEF Worlds
<1>4. Cardinality(Held(watches)) \in Nat
  BY <1>3, HeldCounts
<1> QED
  BY <1>1, <1>2, <1>3, <1>4 DEF WorldOK

(* The same as equations.                                                  *)
LEMMA Equations ==
    ASSUME LifeInv
    PROVE  /\ chan.headerRef = Cardinality(Held(watches)) + One(chan.user)
           /\ chan.mem <=> chan.headerRef > 0
           /\ fsm.refCount = One(chan.mem) + CallbackRefs(running.who)
           /\ fsm.mem <=> fsm.refCount > 0
           /\ fsm.mem => (fsm.fsmFinalized <=> ~chan.user)
           /\ fdWatch.refs = 2 * One(chan.user) + One(running.who = "fd")
           /\ fdWatch.attached <=> chan.user
           /\ ctx.refs = One(chan.user) + One(ctx.user)
           /\ Cardinality(Held(watches)) \in Nat /\ CallbackRefs(running.who) \in Nat
<1>1. CallbackRefs(running.who) \in Nat
  BY DEF CallbackRefs
<1> QED
  BY <1>1, Parts DEF HeaderOK, FsmOK, FdWatchOK, ContextOK

(* One counts.                                                             *)
LEMMA OneIs ==
    ASSUME NEW b
    PROVE  One(b) \in 0 .. 1 /\ (b => One(b) = 1) /\ (~b => One(b) = 0)
  BY DEF One

(* While the user holds the channel, all of it is there.                   *)
LEMMA UserHasChannel ==
    ASSUME LifeInv, chan.user
    PROVE  /\ chan.mem /\ fsm.mem /\ fdWatch.attached
           /\ fdWatch.refs = 2 + One(running.who = "fd")
           /\ ctx.refs = 1 + One(ctx.user)
           /\ fsm.refCount = 1 + CallbackRefs(running.who) /\ ~fsm.fsmFinalized
           /\ chan.headerRef = Cardinality(Held(watches)) + 1
<1>1. One(chan.user) = 1
  BY OneIs
<1>2. chan.headerRef = Cardinality(Held(watches)) + 1 /\ chan.headerRef > 0
  <2>1. /\ chan.headerRef = Cardinality(Held(watches)) + One(chan.user)
        /\ Cardinality(Held(watches)) \in Nat
    BY Equations, Zenon
  <2> QED
    BY <1>1, <2>1
<1>3. chan.mem
  BY <1>2, Equations
<1>4. One(chan.mem) = 1
  BY <1>3, OneIs
<1>5. fsm.refCount = 1 + CallbackRefs(running.who) /\ fsm.refCount > 0
  BY <1>4, Equations
<1>6. fsm.mem
  BY <1>5, Equations
<1>7. ~fsm.fsmFinalized /\ fdWatch.attached
  BY <1>6, Equations
<1>8. fdWatch.refs = 2 + One(running.who = "fd") /\ ctx.refs = 1 + One(ctx.user)
  <2>1. /\ fdWatch.refs = 2 * One(chan.user) + One(running.who = "fd")
        /\ ctx.refs = One(chan.user) + One(ctx.user)
    BY Equations, Zenon
  <2>2. 2 * One(chan.user) = 2
    <3>1. 2 * 1 = 2
      OBVIOUS
    <3> QED
      BY <1>1, <3>1, Zenon
  <2> QED
    BY <1>1, <2>1, <2>2
<1> QED
  BY <1>2, <1>3, <1>5, <1>6, <1>7, <1>8

(* Whoever of the machine is called back is no watch.                      *)
LEMMA NoWatchOK ==
    ASSUME LifeInv, NEW then \in {"nobody", "fd", "lookup"},
           running.who \in {"nobody", "fd", "lookup"}
    PROVE  \A w \in Watches : WatchOK(watches, w, then)
<1> SUFFICES ASSUME NEW w \in Watches PROVE WatchOK(watches, w, then)
  OBVIOUS
<1>1. then # w /\ running.who # w
  BY WatchesAssumption
<1>2. WatchOK(watches, w, running.who)
  BY Parts
<1> QED
  BY <1>1, <1>2 DEF WatchOK

(* g_io_channel_close                                                      *)
LEMMA UserClosesStep ==
    ASSUME LifeInv, UserCloses
    PROVE  LifeInv'
<1> DEFINE f == [fsm EXCEPT !.fsmClosed = TRUE]
           r == [World EXCEPT !.fsm = f]
<1>1. fsm.mem /\ fdWatch.refs # 0
  <2>1. chan.user
    BY DEF UserCloses
  <2>2. fsm.mem /\ fdWatch.refs = 2 + One(running.who = "fd")
    BY <2>1, UserHasChannel
  <2>3. One(running.who = "fd") \in 0 .. 1
    BY OneIs
  <2> QED
    BY <2>2, <2>3
<1>2. CloseFsm(World) = r
  BY <1>1, Parts DEF CloseFsm, FaultIf
<1>3. /\ f \in Fsms /\ f.mem = fsm.mem /\ f.refCount = fsm.refCount
      /\ f.fsmFinalized = fsm.fsmFinalized
  BY Parts DEF Fsms
<1> HIDE DEF f
<1>4. /\ r \in Worlds /\ r.fsm = f /\ r.chan = chan /\ r.fd = fdWatch /\ r.ctx = ctx
      /\ r.watches = watches
  BY <1>3, Parts DEF Worlds
<1>5. Becomes(r) /\ running' = running /\ LoopOK'
  BY <1>2 DEF UserCloses, OfUser, LifeInv, LoopOK
<1> HIDE DEF r
<1>6. FsmOK(f, chan, running.who)
  BY <1>3, Parts DEF FsmOK
<1>7. WorldOK(r, running.who)
  BY <1>4, <1>6, Parts DEF WorldOK
<1> QED
  BY <1>4, <1>5, <1>7, BecomesOK

(* PmSockThreadCtxUnref by the user.                                       *)
LEMMA UserUnrefsContextStep ==
    ASSUME LifeInv, UserUnrefsContext
    PROVE  LifeInv'
<1> DEFINE c == [[ctx EXCEPT !.refs = ctx.refs - 1] EXCEPT !.user = FALSE]
           r == [World EXCEPT !.ctx = c]
<1>1. ctx.user /\ ctx.refs = One(chan.user) + 1
  BY Parts DEF UserUnrefsContext, ContextOK, One
<1>2. ctx.refs # 0 /\ ctx.refs - 1 \in Nat
  BY <1>1 DEF One
<1>3. CtxUnref(World) = [World EXCEPT !.ctx.refs = ctx.refs - 1]
  BY <1>2, Parts DEF CtxUnref
<1>4. [CtxUnref(World) EXCEPT !.ctx.user = FALSE] = r
  BY <1>3 DEF World
<1>5. c \in Contexts /\ c.refs = ctx.refs - 1 /\ ~c.user
  BY <1>2, Parts DEF Contexts
<1> HIDE DEF c
<1>6. /\ r \in Worlds /\ r.ctx = c /\ r.chan = chan /\ r.fd = fdWatch /\ r.fsm = fsm
      /\ r.watches = watches
  BY <1>5, Parts DEF Worlds
<1>7. Becomes(r) /\ running' = running /\ LoopOK'
  BY <1>4 DEF UserUnrefsContext, OfUser, LifeInv, LoopOK
<1> HIDE DEF r
<1>8. ContextOK(c, chan)
  BY <1>1, <1>5 DEF ContextOK, One
<1>9. WorldOK(r, running.who)
  BY <1>6, <1>8, Parts DEF WorldOK
<1> QED
  BY <1>6, <1>7, <1>9, BecomesOK

(* PmSockCreateChannel: nothing of the last channel is left.               *)
LEMMA CreateChannelStep ==
    ASSUME LifeInv, CreateChannel
    PROVE  LifeInv'
<1> DEFINE ch == [mem |-> TRUE, user |-> TRUE, headerRef |-> 1]
           f  == [NoFsm EXCEPT !.mem = TRUE, !.refCount = 1]
           fd == [refs |-> 2, attached |-> TRUE]
           k  == IF ctx.user THEN ctx.refs + 1 ELSE 1
           c  == [refs |-> k, user |-> ctx.user]
           made == [World EXCEPT !.chan = ch, !.fsm = f, !.fd = fd, !.ctx = c]
<1>1. /\ ~chan.mem /\ ~fsm.mem /\ fdWatch.refs = 0
      /\ Becomes(CtxUnref(CtxRef(made))) /\ running' = running
      /\ LoopOK'
  BY DEF CreateChannel, OfUser, LifeInv, LoopOK
<1>2. One(chan.user) = 0 /\ Cardinality(Held(watches)) = 0
  <2>1. ~(chan.headerRef > 0)
    BY <1>1, Equations
  <2>2. chan.headerRef = Cardinality(Held(watches)) + One(chan.user)
    BY Equations
  <2>3. Cardinality(Held(watches)) \in Nat
    BY Equations
  <2>4. One(chan.user) \in 0 .. 1
    BY OneIs
  <2> QED
    BY <2>1, <2>2, <2>3, <2>4
<1>3. k \in Nat /\ k > 0 /\ k = 1 + One(ctx.user)
  <2>1. ctx.refs = One(ctx.user) /\ One(ctx.user) \in 0 .. 1
    BY <1>2, Equations, OneIs
  <2>2. CASE ctx.user
    <3>1. One(ctx.user) = 1
      BY <2>2, OneIs
    <3>2. k = ctx.refs + 1
      BY <2>2
    <3> HIDE DEF k
    <3> QED
      BY <2>1, <3>1, <3>2
  <2>3. CASE ~ctx.user
    <3>1. One(ctx.user) = 0 /\ k = 1
      BY <2>3, OneIs
    <3> QED
      BY <3>1
  <2> QED
    BY <2>2, <2>3
<1> HIDE DEF k
<1>4. ch \in Chans /\ f \in Fsms /\ fd \in FdWatches /\ c \in Contexts
  BY <1>3, Parts DEF Chans, Fsms, NoFsm, FdWatches, Contexts
<1>5. /\ ch.mem /\ ch.user /\ ch.headerRef = 1
      /\ f.mem /\ f.refCount = 1 /\ ~f.fsmFinalized
      /\ fd.refs = 2 /\ fd.attached /\ c.refs = k /\ c.user = ctx.user
  BY DEF NoFsm
<1> HIDE DEF ch, f, fd, c
<1>6. /\ made \in Worlds /\ made.chan = ch /\ made.fsm = f /\ made.fd = fd /\ made.ctx = c
      /\ made.watches = watches
  BY <1>4, Parts DEF Worlds
<1> HIDE DEF made
<1>7. CtxUnref(CtxRef(made)) = made
  <2> DEFINE more == [c EXCEPT !.refs = k + 1]
             y == [made EXCEPT !.ctx = more]
  <2>1. made.ctx = c /\ c.refs = k /\ k # 0
    BY <1>3, <1>5, <1>6
  <2>2. FaultIf(made.ctx.refs = 0, made, "context after free") = made
    BY <2>1 DEF FaultIf
  <2>3. CtxRef(made) = y
    BY <2>1, <2>2 DEF CtxRef
  <2>4. more \in Contexts /\ more.refs = k + 1
    BY <1>3, <1>4 DEF Contexts
  <2>5. [more EXCEPT !.refs = k] = c
    BY <1>3, <1>4, <1>5 DEF Contexts
  <2> HIDE DEF more
  <2>6. y \in Worlds /\ y.ctx = more
    BY <1>6, <2>4 DEF Worlds
  <2> HIDE DEF y
  <2>7. CtxUnref(y) = [y EXCEPT !.ctx = c]
    <3>1. y.ctx = more /\ y.ctx.refs # 0 /\ y.ctx.refs - 1 = k
      BY <1>3, <2>4, <2>6
    <3> QED
      BY <2>5, <3>1 DEF CtxUnref
  <2>8. [y EXCEPT !.ctx = c] = made
    BY <1>6 DEF Worlds, y
  <2> QED
    BY <2>3, <2>7, <2>8
<1>8. HeaderOK(ch, watches)
  BY <1>2, <1>5 DEF HeaderOK, One
<1>9. CallbackRefs(running.who) = 0 /\ running.who # "fd"
  <2>1. ~(fsm.refCount > 0)
    BY <1>1, Equations
  <2>2. One(chan.mem) = 0
    BY <1>1, OneIs
  <2>3. CallbackRefs(running.who) = 0
    BY <2>1, <2>2, Equations
  <2> QED
    BY <2>3 DEF CallbackRefs
<1>10. FsmOK(f, ch, running.who) /\ FdWatchOK(fd, ch, running.who)
  BY <1>5, <1>9 DEF FsmOK, FdWatchOK, One
<1>11. ContextOK(c, ch)
  BY <1>3, <1>5 DEF ContextOK, One
<1>12. WorldOK(made, running.who)
  BY <1>6, <1>8, <1>10, <1>11, Parts DEF WorldOK
<1> QED
  BY <1>1, <1>6, <1>7, <1>12, BecomesOK

(* psl_chan_fsm_finalize: the machine closes, gives back the context and   *)
(* destroys its source, and is finalized.                                  *)
LEMMA Finalizes ==
    ASSUME NEW x \in Worlds, x.fsm.mem, x.fd.attached, x.fd.refs >= 2, x.ctx.refs > 0
    PROVE  /\ Finalize(x) \in Worlds
           /\ Finalize(x).chan = x.chan /\ Finalize(x).watches = x.watches
           /\ Finalize(x).fsm.mem /\ Finalize(x).fsm.fsmFinalized
           /\ Finalize(x).fsm.refCount = x.fsm.refCount
           /\ ~Finalize(x).fd.attached /\ Finalize(x).fd.refs = x.fd.refs - 2
           /\ Finalize(x).ctx.refs = x.ctx.refs - 1 /\ Finalize(x).ctx.user = x.ctx.user
<1> DEFINE y == IF x.fsm.fsmClosed THEN x ELSE CloseFsm(x)
           d == [attached |-> FALSE, refs |-> x.fd.refs - 1]
           e == [d EXCEPT !.refs = x.fd.refs - 2]
           z == [y EXCEPT !.fd = e]
           c == [x.ctx EXCEPT !.refs = x.ctx.refs - 1]
           u == [z EXCEPT !.ctx = c]
           r == [u EXCEPT !.fsm.fsmFinalized = TRUE]
<1>1. x.fsm \in Fsms /\ x.fd \in FdWatches /\ x.ctx \in Contexts
  BY DEF Worlds
<1>2. /\ y \in Worlds /\ y.chan = x.chan /\ y.watches = x.watches /\ y.fd = x.fd
      /\ y.ctx = x.ctx /\ y.fsm \in Fsms /\ y.fsm.mem /\ y.fsm.refCount = x.fsm.refCount
  <2>1. CASE x.fsm.fsmClosed
    BY <1>1, <2>1
  <2>2. CASE ~x.fsm.fsmClosed
    <3> DEFINE f == [x.fsm EXCEPT !.fsmClosed = TRUE]
    <3>1. x.fd.refs # 0
      BY <1>1 DEF FdWatches
    <3>2. CloseFsm(x) = [x EXCEPT !.fsm = f]
      BY <3>1 DEF CloseFsm, FaultIf
    <3>3. f \in Fsms /\ f.mem /\ f.refCount = x.fsm.refCount
      BY <1>1 DEF Fsms
    <3> HIDE DEF f
    <3> QED
      BY <2>2, <3>2, <3>3 DEF Worlds
  <2> QED
    BY <2>1, <2>2
<1> HIDE DEF y
<1>3. e \in FdWatches /\ ~e.attached /\ e.refs = x.fd.refs - 2
  <2>1. x.fd.refs - 1 \in Nat /\ x.fd.refs - 2 \in Nat
    BY <1>1 DEF FdWatches
  <2>2. d \in FdWatches /\ ~d.attached
    BY <2>1 DEF FdWatches
  <2> HIDE DEF d
  <2> QED
    BY <2>1, <2>2 DEF FdWatches
<1>4. c \in Contexts /\ c.refs = x.ctx.refs - 1 /\ c.user = x.ctx.user
  BY <1>1 DEF Contexts
<1>5. FaultIf(FALSE /\ y.fd.refs > 0, y, "deadlock in the context's lock") = y
  BY DEF FaultIf
<1>6. [(IF y.fd.attached THEN [attached |-> FALSE, refs |-> y.fd.refs - 1] ELSE y.fd)
         EXCEPT !.refs = @ - 1] = e
  <2>1. (IF y.fd.attached THEN [attached |-> FALSE, refs |-> y.fd.refs - 1] ELSE y.fd) = d
    BY <1>2
  <2>2. d.refs - 1 = x.fd.refs - 2
    BY <1>1 DEF FdWatches
  <2> HIDE DEF d
  <2> QED
    BY <2>1, <2>2
<1>7. DestroyWidgets(y, FALSE) = CtxUnref([y EXCEPT !.fd = e])
  BY <1>5, <1>6 DEF DestroyWidgets
<1> HIDE DEF c, d, e
<1>8. z \in Worlds /\ z.chan = y.chan /\ z.watches = y.watches /\ z.fsm = y.fsm
      /\ z.fd = e /\ z.ctx = x.ctx
  BY <1>2, <1>3 DEF Worlds
<1> HIDE DEF z
<1>9. CtxUnref(z) = u
  <2>1. z.ctx = x.ctx /\ z.ctx.refs # 0
    BY <1>1, <1>8 DEF Contexts
  <2> QED
    BY <2>1 DEF CtxUnref, c
<1>10. u \in Worlds /\ u.chan = y.chan /\ u.watches = y.watches /\ u.fsm = y.fsm
       /\ u.fd = e /\ u.ctx = c
  BY <1>4, <1>8 DEF Worlds
<1>11. Finalize(x) = r
  BY <1>7, <1>9 DEF Finalize, y, z
<1> HIDE DEF u
<1>12. /\ [u.fsm EXCEPT !.fsmFinalized = TRUE] \in Fsms
       /\ [u.fsm EXCEPT !.fsmFinalized = TRUE].mem
       /\ [u.fsm EXCEPT !.fsmFinalized = TRUE].fsmFinalized
       /\ [u.fsm EXCEPT !.fsmFinalized = TRUE].refCount = x.fsm.refCount
  BY <1>2, <1>10 DEF Fsms
<1>13. /\ r \in Worlds /\ r.chan = x.chan /\ r.watches = x.watches /\ r.fd = e /\ r.ctx = c
       /\ r.fsm = [u.fsm EXCEPT !.fsmFinalized = TRUE]
  BY <1>2, <1>10, <1>12 DEF Worlds
<1> QED
  BY <1>3, <1>4, <1>11, <1>12, <1>13

(* The last g_io_channel_unref.                                            *)
LEMMA UserDropsChannelStep ==
    ASSUME LifeInv, UserDropsChannel
    PROVE  LifeInv'
<1> DEFINE c == [chan EXCEPT !.user = FALSE]
           x == [World EXCEPT !.chan = c]
           z == Finalize(x)
           r == HeaderUnref(z, FALSE)
           who == running.who
<1>1. chan.user /\ running' = running /\ LoopOK'
  BY DEF UserDropsChannel, OfUser, LifeInv, LoopOK
<1>2. [World EXCEPT !.chan.user = FALSE] = x
  BY DEF World
<1>3. Becomes(r)
  BY <1>2, Zenon DEF UserDropsChannel, IoFree
<1>4. c \in Chans /\ ~c.user /\ c.mem = chan.mem /\ c.headerRef = chan.headerRef
  BY Parts DEF Chans
<1> HIDE DEF c
<1>5. /\ x \in Worlds /\ x.chan = c /\ x.fsm = fsm /\ x.fd = fdWatch /\ x.ctx = ctx
      /\ x.watches = watches
  BY <1>4, Parts DEF Worlds
<1> HIDE DEF x
<1>6. /\ chan.mem /\ fsm.mem /\ fdWatch.attached
      /\ fdWatch.refs = 2 + One(who = "fd") /\ ctx.refs = 1 + One(ctx.user)
      /\ fsm.refCount = 1 + CallbackRefs(who)
      /\ chan.headerRef = Cardinality(Held(watches)) + 1
  BY <1>1, UserHasChannel
<1>7. One(who = "fd") \in 0 .. 1 /\ One(ctx.user) \in 0 .. 1
  BY OneIs
<1>8. /\ z \in Worlds /\ z.chan = c /\ z.watches = watches
      /\ z.fsm.mem /\ z.fsm.fsmFinalized /\ z.fsm.refCount = fsm.refCount
      /\ ~z.fd.attached /\ z.fd.refs = fdWatch.refs - 2
      /\ z.ctx.refs = ctx.refs - 1 /\ z.ctx.user = ctx.user
  <2>1. x.fsm.mem /\ x.fd.attached
    BY <1>5, <1>6, Zenon
  <2>2. x.fd.refs >= 2 /\ x.ctx.refs > 0
    BY <1>5, <1>6, <1>7
  <2>3. /\ z \in Worlds /\ z.chan = x.chan /\ z.watches = x.watches
        /\ z.fsm.mem /\ z.fsm.fsmFinalized /\ z.fsm.refCount = x.fsm.refCount
        /\ ~z.fd.attached /\ z.fd.refs = x.fd.refs - 2
        /\ z.ctx.refs = x.ctx.refs - 1 /\ z.ctx.user = x.ctx.user
    BY <1>5, <2>1, <2>2, Finalizes, Zenon
  <2> QED
    BY <1>5, <2>3, Zenon
<1> HIDE DEF z
<1>9. One(c.user) = 0 /\ One(c.mem) = 1
  BY <1>4, <1>6, OneIs
<1>10. /\ z.chan.mem
       /\ z.chan.headerRef = Cardinality(Held(z.watches)) + One(z.chan.user) + 1
       /\ FsmOK(z.fsm, z.chan, who)
  <2>1. z.chan.mem
    BY <1>4, <1>6, <1>8, Zenon
  <2>2. z.chan.headerRef = Cardinality(Held(watches)) + 1
    BY <1>4, <1>6, <1>8, Zenon
  <2>3. One(z.chan.user) = 0 /\ One(z.chan.mem) = 1 /\ z.watches = watches
    BY <1>8, <1>9, Zenon
  <2>4. z.chan.headerRef = Cardinality(Held(z.watches)) + One(z.chan.user) + 1
    <3>1. \A n \in Nat : n + 1 = n + 0 + 1
      OBVIOUS
    <3>2. Cardinality(Held(watches)) \in Nat
      BY Equations
    <3> QED
      BY <2>2, <2>3, <3>1, <3>2, Zenon
  <2>5. CallbackRefs(who) \in Nat
    BY Equations
  <2>6. z.fsm.refCount = One(z.chan.mem) + CallbackRefs(who) /\ z.fsm.refCount > 0
    BY <1>6, <1>8, <2>3, <2>5
  <2>7. z.fsm.mem /\ z.fsm.fsmFinalized /\ ~z.chan.user
    BY <1>4, <1>8, Zenon
  <2>8. FsmOK(z.fsm, z.chan, who)
    BY <2>6, <2>7, Zenon DEF FsmOK
  <2> QED
    BY <2>1, <2>4, <2>8
<1>11. /\ r \in Worlds /\ HeaderOK(r.chan, z.watches) /\ FsmOK(r.fsm, r.chan, who)
       /\ r.chan.user = z.chan.user /\ r.fd = z.fd /\ r.ctx = z.ctx
       /\ r.watches = z.watches
  BY <1>8, <1>10, HeaderUnrefs, Zenon
<1> HIDE DEF r
<1>12. ~r.chan.user /\ One(r.chan.user) = 0
  BY <1>4, <1>8, <1>9, <1>11, Zenon
<1>13. FdWatchOK(r.fd, r.chan, who)
  <2>1. r.fd.refs = One(who = "fd") /\ ~r.fd.attached
    BY <1>6, <1>7, <1>8, <1>11
  <2>2. 2 * 0 + One(who = "fd") = One(who = "fd")
    BY <1>7
  <2>3. r.fd.refs = 2 * One(r.chan.user) + One(who = "fd")
    BY <1>12, <2>1, <2>2, Zenon
  <2> QED
    BY <1>12, <2>1, <2>3, Zenon DEF FdWatchOK
<1>14. ContextOK(r.ctx, r.chan)
  <2>1. r.ctx.refs = One(ctx.user) /\ r.ctx.user = ctx.user
    BY <1>6, <1>7, <1>8, <1>11
  <2>2. 0 + One(ctx.user) = One(ctx.user)
    BY <1>7
  <2>3. r.ctx.refs = One(r.chan.user) + One(r.ctx.user)
    BY <1>12, <2>1, <2>2, Zenon
  <2> QED
    BY <2>3, Zenon DEF ContextOK
<1>15. WorldOK(r, who)
  BY <1>8, <1>11, <1>13, <1>14, Parts DEF WorldOK
<1> QED
  BY <1>1, <1>3, <1>11, <1>15, BecomesOK

-----------------------------------------------------------------------------
(* Steps of the callbacks of the machine.                                  *)

(* psl_chan_fsm_ref                                                        *)
LEMMA FsmRefs ==
    ASSUME NEW x \in Worlds, x.fsm.mem
    PROVE  /\ FsmRef(x) \in Worlds
           /\ FsmRef(x).chan = x.chan /\ FsmRef(x).fd = x.fd /\ FsmRef(x).ctx = x.ctx
           /\ FsmRef(x).watches = x.watches
           /\ FsmRef(x).fsm.mem /\ FsmRef(x).fsm.fsmFinalized = x.fsm.fsmFinalized
           /\ FsmRef(x).fsm.refCount = x.fsm.refCount + 1
<1> DEFINE f == [x.fsm EXCEPT !.refCount = x.fsm.refCount + 1]
<1>1. x.fsm \in Fsms
  BY DEF Worlds
<1>2. FsmRef(x) = [x EXCEPT !.fsm = f]
  BY DEF FsmRef, FaultIf
<1>3. /\ f \in Fsms /\ f.mem /\ f.fsmFinalized = x.fsm.fsmFinalized
      /\ f.refCount = x.fsm.refCount + 1
  BY <1>1 DEF Fsms
<1> HIDE DEF f
<1> QED
  BY <1>2, <1>3 DEF Worlds

(* GLib takes a reference to the machine's source while it dispatches it,  *)
(* or gives it back.                                                       *)
LEMMA FdRefs ==
    ASSUME NEW x \in Worlds, NEW n \in Nat
    PROVE  LET r == [x EXCEPT !.fd.refs = n]
           IN  /\ r \in Worlds /\ r.chan = x.chan /\ r.fsm = x.fsm /\ r.ctx = x.ctx
               /\ r.watches = x.watches
               /\ r.fd.refs = n /\ r.fd.attached = x.fd.attached
<1> DEFINE d == [x.fd EXCEPT !.refs = n]
           r == [x EXCEPT !.fd.refs = n]
<1>1. x.fd \in FdWatches
  BY DEF Worlds
<1>2. d \in FdWatches /\ d.refs = n /\ d.attached = x.fd.attached
  BY <1>1 DEF FdWatches
<1>3. r = [x EXCEPT !.fd = d]
  OBVIOUS
<1> HIDE DEF d
<1> QED
  BY <1>2, <1>3 DEF Worlds

(* A callback of the machine begins or ends: the references it has are     *)
(* other ones, and nothing else changes.                                   *)
LEMMA CallbackStep ==
    ASSUME LifeInv, NEW r \in Worlds, Becomes(r), LoopOK',
           running.who \in {"nobody", "fd", "lookup"},
           running'.who \in {"nobody", "fd", "lookup"},
           r.chan = chan, r.ctx = ctx, r.watches = watches,
           FsmOK(r.fsm, chan, running'.who), FdWatchOK(r.fd, chan, running'.who)
    PROVE  LifeInv'
<1> DEFINE then == running'.who
<1>1. \A w \in Watches : WatchOK(watches, w, then)
  BY NoWatchOK
<1> HIDE DEF then
<1>2. FsmOK(r.fsm, r.chan, then) /\ FdWatchOK(r.fd, r.chan, then)
  BY DEF then
<1>3. WorldOK(r, then)
  BY <1>1, <1>2, Parts DEF WorldOK
<1> QED
  BY <1>3, BecomesOK DEF then

(* chan_fsm_fd_watch_cb: it completes a request, with two references to    *)
(* the machine and one of GLib's to its source, or does not.               *)
LEMMA DispatchFdWatchStep ==
    ASSUME LifeInv, NEW completes \in BOOLEAN, DispatchFdWatch(completes)
    PROVE  LifeInv'
<1>1. /\ running = NoCall /\ fdWatch.attached /\ UNCHANGED io
      /\ ready' \subseteq Watches \cup {"fd", "lookup"}
  BY DEF DispatchFdWatch, LeavesReady, LifeInv, LoopOK
<1>2. running.who = "nobody"
  BY <1>1 DEF NoCall
<1>3. chan.user
  BY <1>1, Equations
<1>4. chan.mem /\ fsm.mem /\ ~fsm.fsmFinalized
  BY <1>3, UserHasChannel, Zenon
<1>5. World.fsm.mem
  BY <1>4, Parts
<1>6. CASE ~completes
  <2>1. FaultIf(~fsm.mem, World, "machine after free") = World
    BY <1>4 DEF FaultIf
  <2>2. Becomes(World) /\ running' = running
    BY <1>6, <2>1 DEF DispatchFdWatch
  <2>3. LoopOK'
    BY <1>1, <2>2 DEF LifeInv, LoopOK
  <2> QED
    BY <2>2, <2>3, BecomesOK DEF LifeInv
<1>7. CASE completes
  <2> DEFINE y == FsmRef(World)
             z == FsmRef(y)
             r == [z EXCEPT !.fd.refs = fdWatch.refs + 1]
  <2>1. /\ y \in Worlds /\ y.chan = chan /\ y.fd = fdWatch /\ y.ctx = ctx
        /\ y.watches = watches /\ y.fsm.mem /\ y.fsm.fsmFinalized = fsm.fsmFinalized
        /\ y.fsm.refCount = fsm.refCount + 1
    BY <1>5, Parts, FsmRefs
  <2> HIDE DEF y
  <2>2. /\ z \in Worlds /\ z.chan = chan /\ z.fd = fdWatch /\ z.ctx = ctx
        /\ z.watches = watches /\ z.fsm.mem /\ z.fsm.fsmFinalized = fsm.fsmFinalized
        /\ z.fsm.refCount = y.fsm.refCount + 1
    BY <2>1, FsmRefs
  <2>3. Completes(World) = z
    BY DEF Completes, y
  <2> HIDE DEF z
  <2>4. Becomes(r) /\ running' = [who |-> "fd", cond |-> {}]
    <3>1. z.fd.refs = fdWatch.refs
      BY <2>2
    <3>2. Becomes([z EXCEPT !.fd.refs = z.fd.refs + 1]) /\ running' = [who |-> "fd", cond |-> {}]
      BY <1>7, <2>3 DEF DispatchFdWatch
    <3> QED
      BY <3>1, <3>2
  <2>5. fdWatch.refs + 1 \in Nat
    <3>1. fdWatch \in FdWatches
      BY Parts, Zenon
    <3> QED
      BY <3>1 DEF FdWatches
  <2>6. /\ r \in Worlds /\ r.chan = chan /\ r.fsm = z.fsm /\ r.ctx = ctx
        /\ r.watches = watches /\ r.fd.refs = fdWatch.refs + 1
        /\ r.fd.attached = fdWatch.attached
    BY <2>2, <2>5, FdRefs
  <2> HIDE DEF r
  <2>7. running'.who = "fd"
    BY <2>4
  <2>8. FsmOK(r.fsm, chan, "fd")
    <3>1. fsm.refCount = 1 + CallbackRefs("nobody") /\ One(chan.mem) = 1
      BY <1>2, <1>3, <1>4, UserHasChannel, OneIs
    <3>2. CallbackRefs("fd") = 2 /\ CallbackRefs("nobody") = 0
      BY DEF CallbackRefs
    <3>3. r.fsm.refCount = One(chan.mem) + CallbackRefs("fd") /\ r.fsm.refCount > 0
      BY <2>1, <2>2, <2>6, <3>1, <3>2
    <3>4. r.fsm.mem /\ ~r.fsm.fsmFinalized
      BY <1>4, <2>2, <2>6, Zenon
    <3> QED
      BY <1>3, <3>3, <3>4, Zenon DEF FsmOK
  <2>9. FdWatchOK(r.fd, chan, "fd")
    <3>1. fdWatch.refs = 2 + One("nobody" = "fd") /\ One(chan.user) = 1
      BY <1>2, <1>3, UserHasChannel, OneIs
    <3>2. One("nobody" = "fd") = 0 /\ One("fd" = "fd") = 1
      BY DEF One
    <3>3. r.fd.refs = 2 * One(chan.user) + One("fd" = "fd")
      BY <2>6, <3>1, <3>2
    <3>4. r.fd.attached
      BY <1>1, <2>6
    <3> QED
      BY <1>3, <3>3, <3>4, Zenon DEF FdWatchOK
  <2>10. LoopOK'
    BY <1>1, <2>4 DEF LifeInv, LoopOK, Callers
  <2> QED
    BY <1>2, <2>4, <2>6, <2>7, <2>8, <2>9, <2>10, CallbackStep
<1> QED
  BY <1>6, <1>7

(* The callback returns: the machine is written to, and both references    *)
(* are given back.                                                         *)
LEMMA FdWatchCbReturnsStep ==
    ASSUME LifeInv, FdWatchCbReturns
    PROVE  LifeInv'
<1> DEFINE once == FsmUnref(World, FALSE)
           both == FsmUnref(once, FALSE)
           r == [both EXCEPT !.fd.refs = fdWatch.refs - 1]
           k == One(chan.mem)
<1>1. running.who = "fd" /\ running' = NoCall /\ LoopOK'
  BY DEF FdWatchCbReturns, LifeInv, LoopOK, NoCall, Callers
<1>2. CallbackRefs("fd") = 2 /\ CallbackRefs("nobody") = 0
  BY DEF CallbackRefs
<1>3. k \in 0 .. 1
  BY OneIs
<1>4. fsm.refCount = k + 2 /\ fsm.refCount > 1
  <2>1. fsm.refCount = k + CallbackRefs("fd")
    BY <1>1, Equations, Zenon
  <2> QED
    BY <1>2, <1>3, <2>1
<1>5. fsm.mem
  <2>1. fsm.refCount > 0
    BY <1>4, <1>3
  <2> QED
    BY <2>1, Equations, Zenon
<1>6. /\ once \in Worlds /\ OneLess(fsm, once.fsm) /\ once = [World EXCEPT !.fsm = once.fsm]
  <2>1. World.fsm.mem /\ World.fsm.refCount > 0 /\ World.fsm.refCount # 1
    <3>1. World.fsm = fsm
      BY Parts, Zenon
    <3>2. fsm.refCount > 0 /\ fsm.refCount # 1
      BY <1>3, <1>4
    <3> QED
      BY <1>5, <3>1, <3>2, Zenon
  <2> QED
    BY <2>1, Parts, FsmUnrefs
<1> HIDE DEF once
<1>7. once.chan = chan /\ once.fd = fdWatch /\ once.ctx = ctx /\ once.watches = watches
  BY <1>6, Parts DEF Worlds
<1>8. once.fsm.refCount = k + 1 /\ once.fsm.refCount > 0
  BY <1>3, <1>4, <1>6 DEF OneLess
<1>9. once.fsm.mem /\ once.fsm.fsmFinalized = fsm.fsmFinalized
  BY <1>6, <1>8 DEF OneLess
<1>10. once.fsm.refCount = 1 => once.fsm.fsmFinalized
  <2> SUFFICES ASSUME once.fsm.refCount = 1 PROVE once.fsm.fsmFinalized
    OBVIOUS
  <2>1. k = 0
    BY <1>3, <1>8
  <2>2. ~chan.mem
    BY <2>1, OneIs
  <2>3. ~chan.user
    BY <2>2, UserHasChannel, Zenon
  <2> QED
    BY <1>5, <1>9, <2>3, Equations, Zenon
<1>11. /\ both \in Worlds /\ OneLess(once.fsm, both.fsm)
       /\ both = [once EXCEPT !.fsm = both.fsm]
  BY <1>6, <1>8, <1>9, <1>10, FsmUnrefs
<1>12. FaultIf(~once.fsm.mem, once, "machine written after free") = once
  BY <1>9 DEF FaultIf
<1> HIDE DEF both
<1>13. both.chan = chan /\ both.fd = fdWatch /\ both.ctx = ctx /\ both.watches = watches
  BY <1>6, <1>7, <1>11 DEF Worlds
<1>14. Becomes(r)
  <2>1. Becomes([both EXCEPT !.fd.refs = both.fd.refs - 1])
    BY <1>12 DEF FdWatchCbReturns, once, both
  <2> QED
    BY <1>13, <2>1
<1>15. One("fd" = "fd") = 1 /\ One("nobody" = "fd") = 0
  BY DEF One
<1>16. fdWatch.refs - 1 \in Nat /\ fdWatch.refs - 1 = 2 * One(chan.user)
  <2>1. fdWatch.refs = 2 * One(chan.user) + One("fd" = "fd")
    BY <1>1, Equations, Zenon
  <2>2. One(chan.user) \in 0 .. 1
    BY OneIs
  <2> QED
    BY <1>15, <2>1, <2>2
<1>17. /\ r \in Worlds /\ r.chan = chan /\ r.fsm = both.fsm /\ r.ctx = ctx
       /\ r.watches = watches /\ r.fd.refs = fdWatch.refs - 1
       /\ r.fd.attached = fdWatch.attached
  BY <1>11, <1>13, <1>16, FdRefs
<1> HIDE DEF r
<1>18. running'.who = "nobody"
  BY <1>1 DEF NoCall
<1>19. FsmOK(r.fsm, chan, "nobody")
  <2>1. r.fsm.refCount = One(chan.mem) + CallbackRefs("nobody")
    BY <1>2, <1>3, <1>8, <1>11, <1>17 DEF OneLess
  <2>2. r.fsm.mem <=> r.fsm.refCount > 0
    BY <1>11, <1>17 DEF OneLess
  <2>3. r.fsm.mem => (r.fsm.fsmFinalized <=> ~chan.user)
    <3>1. fsm.fsmFinalized <=> ~chan.user
      BY <1>5, Equations, Zenon
    <3>2. r.fsm.mem => r.fsm.fsmFinalized = fsm.fsmFinalized
      BY <1>9, <1>11, <1>17, Zenon DEF OneLess
    <3> QED
      BY <3>1, <3>2, Zenon
  <2> QED
    BY <2>1, <2>2, <2>3, Zenon DEF FsmOK
<1>20. FdWatchOK(r.fd, chan, "nobody")
  <2>1. r.fd.refs = 2 * One(chan.user) + One("nobody" = "fd")
    BY <1>15, <1>16, <1>17
  <2>2. r.fd.attached <=> chan.user
    BY <1>17, Equations, Zenon
  <2> QED
    BY <2>1, <2>2, Zenon DEF FdWatchOK
<1> QED
  BY <1>1, <1>14, <1>17, <1>18, <1>19, <1>20, CallbackStep

(* plain_host_lookup_cb: one reference to the machine, whoever else has    *)
(* let go of it.                                                           *)
LEMMA LookupFailsStep ==
    ASSUME LifeInv, LookupFails
    PROVE  LifeInv'
<1> DEFINE r == FsmRef(World)
<1>1. /\ running = NoCall /\ fsm.mem /\ Becomes(r)
      /\ running' = [who |-> "lookup", cond |-> {}]
  BY DEF LookupFails
<1>2. running.who = "nobody" /\ running'.who = "lookup"
  BY <1>1 DEF NoCall
<1>3. LoopOK'
  BY <1>1 DEF LookupFails, LeavesReady, LifeInv, LoopOK, Callers
<1>4. World.fsm.mem
  BY <1>1, Parts, Zenon
<1>5. /\ r \in Worlds /\ r.chan = World.chan /\ r.fd = World.fd /\ r.ctx = World.ctx
      /\ r.watches = World.watches /\ r.fsm.mem
      /\ r.fsm.fsmFinalized = World.fsm.fsmFinalized
      /\ r.fsm.refCount = World.fsm.refCount + 1
  BY <1>4, Parts, FsmRefs
<1> HIDE DEF r
<1>6. /\ r.chan = chan /\ r.fd = fdWatch /\ r.ctx = ctx /\ r.watches = watches
      /\ r.fsm.fsmFinalized = fsm.fsmFinalized /\ r.fsm.refCount = fsm.refCount + 1
  BY <1>5, Parts
<1>7. CallbackRefs("lookup") = 1 /\ CallbackRefs("nobody") = 0
  BY DEF CallbackRefs
<1>8. FsmOK(r.fsm, chan, "lookup")
  <2>1. fsm.refCount = One(chan.mem) + CallbackRefs("nobody")
    BY <1>2, Equations, Zenon
  <2>2. r.fsm.refCount = One(chan.mem) + CallbackRefs("lookup") /\ r.fsm.refCount > 0
    BY <1>6, <1>7, <2>1, OneIs
  <2>3. fsm.fsmFinalized <=> ~chan.user
    BY <1>1, Equations, Zenon
  <2> QED
    BY <1>5, <1>6, <2>2, <2>3, Zenon DEF FsmOK
<1>9. FdWatchOK(r.fd, chan, "lookup")
  <2>1. One("lookup" = "fd") = One("nobody" = "fd")
    BY DEF One
  <2>2. fdWatch.refs = 2 * One(chan.user) + One("nobody" = "fd")
    BY <1>2, Equations, Zenon
  <2>3. fdWatch.attached <=> chan.user
    BY Equations, Zenon
  <2> QED
    BY <1>6, <2>1, <2>2, <2>3, Zenon DEF FdWatchOK
<1> QED
  BY <1>1, <1>2, <1>3, <1>5, <1>6, <1>8, <1>9, CallbackStep

(* It returns and gives the reference back, which may be the last.         *)
LEMMA LookupCbReturnsStep ==
    ASSUME LifeInv, LookupCbReturns
    PROVE  LifeInv'
<1> DEFINE r == FsmUnref(World, FALSE)
           k == One(chan.mem)
<1>1. running.who = "lookup" /\ running' = NoCall /\ Becomes(r)
  BY DEF LookupCbReturns
<1>2. running'.who = "nobody"
  BY <1>1 DEF NoCall
<1>3. LoopOK'
  BY <1>1 DEF LookupCbReturns, LifeInv, LoopOK, Callers, NoCall
<1>4. CallbackRefs("lookup") = 1 /\ CallbackRefs("nobody") = 0
  BY DEF CallbackRefs
<1>5. k \in 0 .. 1
  BY OneIs
<1>6. fsm.refCount = k + 1 /\ fsm.refCount > 0
  <2>1. fsm.refCount = k + CallbackRefs("lookup")
    BY <1>1, Equations, Zenon
  <2> QED
    BY <1>4, <1>5, <2>1
<1>7. fsm.mem /\ (fsm.fsmFinalized <=> ~chan.user)
  BY <1>6, Equations, Zenon
<1>8. fsm.refCount = 1 => fsm.fsmFinalized
  <2> SUFFICES ASSUME fsm.refCount = 1 PROVE fsm.fsmFinalized
    OBVIOUS
  <2>1. k = 0
    BY <1>5, <1>6
  <2>2. ~chan.mem
    BY <2>1, OneIs
  <2>3. ~chan.user
    BY <2>2, UserHasChannel, Zenon
  <2> QED
    BY <1>7, <2>3, Zenon
<1>9. /\ World.fsm.mem /\ World.fsm.refCount > 0
      /\ (World.fsm.refCount = 1 => World.fsm.fsmFinalized)
  <2>1. World.fsm = fsm
    BY Parts, Zenon
  <2> QED
    BY <1>6, <1>7, <1>8, <2>1, Zenon
<1>10. /\ r \in Worlds /\ OneLess(World.fsm, r.fsm) /\ r = [World EXCEPT !.fsm = r.fsm]
  BY <1>9, Parts, FsmUnrefs
<1> HIDE DEF r
<1>11. /\ r.chan = chan /\ r.fd = fdWatch /\ r.ctx = ctx /\ r.watches = watches
       /\ OneLess(fsm, r.fsm)
  BY <1>10, Parts DEF Worlds
<1>12. FsmOK(r.fsm, chan, "nobody")
  <2>1. r.fsm.refCount = One(chan.mem) + CallbackRefs("nobody")
    BY <1>4, <1>5, <1>6, <1>11 DEF OneLess
  <2>2. r.fsm.mem <=> r.fsm.refCount > 0
    BY <1>11 DEF OneLess
  <2>3. r.fsm.mem => r.fsm.fsmFinalized = fsm.fsmFinalized
    BY <1>11 DEF OneLess
  <2> QED
    BY <1>7, <2>1, <2>2, <2>3, Zenon DEF FsmOK
<1>13. FdWatchOK(r.fd, chan, "nobody")
  <2>1. One("lookup" = "fd") = One("nobody" = "fd")
    BY DEF One
  <2>2. fdWatch.refs = 2 * One(chan.user) + One("lookup" = "fd")
    BY <1>1, Equations, Zenon
  <2>3. fdWatch.attached <=> chan.user
    BY Equations, Zenon
  <2> QED
    BY <1>11, <2>1, <2>2, <2>3, Zenon DEF FdWatchOK
<1> QED
  BY <1>1, <1>2, <1>3, <1>10, <1>11, <1>12, <1>13, CallbackStep

-----------------------------------------------------------------------------
(* The invariant.                                                          *)

(* At first there is nothing, but perhaps the user's context.              *)
LEMMA InitOK == Init => LifeInv
<1> SUFFICES ASSUME Init PROVE LifeInv
  OBVIOUS
<1>1. NoChannelWatch \in ChannelWatches /\ NoChannelWatch.refs = 0 /\ ~NoChannelWatch.attached
  BY DEF NoChannelWatch, ChannelWatches, Failures, GIOCondition
<1>2. PICK user \in BOOLEAN : ctx = [refs |-> IF user THEN 1 ELSE 0, user |-> user]
  BY DEF Init
<1>3. /\ ctx.refs \in Nat /\ ctx.user = user /\ ctx.refs = One(user) /\ ctx \in Contexts
  BY <1>2 DEF One, Contexts
<1>4. /\ chan = [mem |-> FALSE, user |-> FALSE, headerRef |-> 0] /\ fsm = NoFsm
      /\ fdWatch = [refs |-> 0, attached |-> FALSE]
      /\ watches = [w \in Watches |-> NoChannelWatch] /\ running = NoCall
  BY DEF Init
<1>5. /\ chan \in Chans /\ ~chan.mem /\ ~chan.user /\ chan.headerRef = 0
  BY <1>4 DEF Chans
<1>6. fsm \in Fsms /\ ~fsm.mem /\ fsm.refCount = 0
  BY <1>4 DEF Fsms, NoFsm
<1>7. fdWatch \in FdWatches /\ fdWatch.refs = 0 /\ ~fdWatch.attached
  BY <1>4 DEF FdWatches
<1>8. watches \in [Watches -> ChannelWatches]
  BY <1>1, <1>4
<1>9. fault \in {""}
  BY DEF Init
<1>10. World \in Worlds
  BY <1>3, <1>5, <1>6, <1>7, <1>8, <1>9 DEF World, Worlds
<1>11. Cardinality(Held(watches)) = 0
  <2>1. \A w \in Watches : watches[w].refs = 0
    BY <1>1, <1>4
  <2>2. Held(watches) = {}
    BY <2>1 DEF Held
  <2> QED
    BY <2>2, FS_EmptySet
<1>12. One(chan.user) = 0 /\ One(chan.mem) = 0
  BY <1>5, OneIs
<1>13. HeaderOK(chan, watches)
  BY <1>5, <1>11, <1>12 DEF HeaderOK
<1>14. running.who = "nobody" /\ CallbackRefs("nobody") = 0 /\ One("nobody" = "fd") = 0
  BY <1>4 DEF NoCall, CallbackRefs, One
<1>15. FsmOK(fsm, chan, running.who)
  BY <1>6, <1>12, <1>14 DEF FsmOK
<1>16. FdWatchOK(fdWatch, chan, running.who)
  <2>1. fdWatch.refs = 2 * One(chan.user) + One("nobody" = "fd")
    BY <1>7, <1>12, <1>14
  <2> QED
    BY <1>5, <1>7, <1>14, <2>1, Zenon DEF FdWatchOK
<1>17. ContextOK(ctx, chan)
  <2>1. One(user) \in 0 .. 1
    BY OneIs
  <2>2. ctx.refs = One(chan.user) + One(user)
    BY <1>3, <1>12, <2>1
  <2> QED
    BY <1>3, <2>2, Zenon DEF ContextOK
<1>18. \A w \in Watches : WatchOK(watches, w, running.who)
  <2> SUFFICES ASSUME NEW w \in Watches PROVE WatchOK(watches, w, running.who)
    OBVIOUS
  <2>1. watches[w].refs = 0 /\ One(watches[w].attached) = 0
    BY <1>1, <1>4, OneIs
  <2>2. running.who # w
    BY <1>14, WatchesAssumption
  <2>3. One(running.who = w) = 0
    BY <2>2 DEF One
  <2> QED
    BY <2>1, <2>3 DEF WatchOK
<1>19. WorldOK(World, running.who)
  <2>1. /\ World.chan = chan /\ World.fsm = fsm /\ World.fd = fdWatch
        /\ World.ctx = ctx /\ World.watches = watches
    BY DEF World
  <2> QED
    BY <1>13, <1>15, <1>16, <1>17, <1>18, <2>1, Zenon DEF WorldOK
<1>20. LoopOK
  BY DEF Init, LoopOK, Callers, NoCall, NoAnswer, Answers
<1> QED
  BY <1>20, <1>10, <1>19 DEF LifeInv

(* A step leaves every count right.                                        *)
LEMMA LifeStep == LifeInv /\ [Next]_vars => LifeInv'
<1> SUFFICES ASSUME LifeInv, [Next]_vars PROVE LifeInv'
  OBVIOUS
<1>1. CASE UNCHANGED vars
  BY <1>1 DEF vars, LifeInv, World, Worlds, WorldOK, LoopOK, HeaderOK, FsmOK, FdWatchOK,
       ContextOK, WatchOK, Held
<1>2. CASE CreateChannel
  BY <1>2, CreateChannelStep
<1>3. CASE UserDropsChannel
  BY <1>3, UserDropsChannelStep
<1>4. CASE UserCloses
  BY <1>4, UserClosesStep
<1>5. CASE UserUnrefsContext
  BY <1>5, UserUnrefsContextStep
<1>6. ASSUME NEW w \in Watches, NEW conds \in Conditions, UserWatches(w, conds)
      PROVE  LifeInv'
  BY <1>6, UserWatchesStep
<1>7. ASSUME NEW w \in Watches, NEW conds \in Conditions, UserUpdatesWatch(w, conds)
      PROVE  LifeInv'
  BY <1>7, UserUpdatesWatchStep
<1>8. ASSUME NEW w \in Watches, UserDestroysWatch(w)
      PROVE  LifeInv'
  <2>1. LoopOK'
    BY <1>8 DEF UserDestroysWatch, OfUser, LifeInv, LoopOK
  <2>2. Becomes(SourceDestroy(World, w)) /\ watches[w].attached /\ running' = running
    BY <1>8 DEF UserDestroysWatch, OfUser
  <2> QED
    BY <2>1, <2>2, DestroysStep
<1>9. ASSUME NEW w \in Watches, UserUnrefsWatch(w)
      PROVE  LifeInv'
  BY <1>9, UserUnrefsWatchStep
<1>10. ASSUME NEW completes \in BOOLEAN, DispatchFdWatch(completes)
       PROVE  LifeInv'
  BY <1>10, DispatchFdWatchStep
<1>11. CASE FdWatchCbReturns
  BY <1>11, FdWatchCbReturnsStep
<1>12. CASE LookupFails
  BY <1>12, LookupFailsStep
<1>13. CASE LookupCbReturns
  BY <1>13, LookupCbReturnsStep
<1>14. CASE PrepareAndCheck
  BY <1>14, PrepareAndCheckStep
<1>15. ASSUME NEW w \in Watches, NEW answer \in Answers, DispatchWatch(w, answer)
       PROVE  LifeInv'
  BY <1>15, DispatchWatchStep
<1>16. ASSUME NEW w \in Watches, DispatchWithoutCallback(w)
       PROVE  LifeInv'
  <2>1. LoopOK'
    BY <1>16 DEF DispatchWithoutCallback, LeavesReady, LifeInv, LoopOK
  <2>2. Becomes(SourceDestroy(World, w)) /\ watches[w].attached /\ running' = running
    BY <1>16 DEF DispatchWithoutCallback
  <2> QED
    BY <2>1, <2>2, DestroysStep
<1>17. ASSUME NEW w \in Watches, NEW stayAttached \in BOOLEAN, WatchCbReturns(w, stayAttached)
       PROVE  LifeInv'
  BY <1>17, WatchCbReturnsStep
<1> QED
  BY <1>1, <1>2, <1>3, <1>4, <1>5, <1>6, <1>7, <1>8, <1>9, <1>10, <1>11, <1>12, <1>13,
     <1>14, <1>15, <1>16, <1>17, Zenon DEF Next

(* The counts are always right.                                            *)
LEMMA LifeHolds == Spec => []LifeInv
  BY InitOK, LifeStep, PTL DEF Spec

-----------------------------------------------------------------------------
(* The counts bound what TypeOK bounds.                                    *)
LEMMA LifeInvIsTyped == LifeInv => TypeOK
<1> SUFFICES ASSUME LifeInv PROVE TypeOK
  OBVIOUS
<1>1. chan \in Chans /\ fsm \in Fsms /\ fdWatch \in FdWatches /\ ctx \in Contexts
  BY Parts, Zenon
<1>2. watches \in [Watches -> ChannelWatches] /\ fault = ""
  BY Parts DEF World
<1>3. One(chan.user) \in 0 .. 1 /\ One(chan.mem) \in 0 .. 1 /\ One(ctx.user) \in 0 .. 1
  BY OneIs
<1>4. chan.headerRef \in 0 .. Cardinality(Watches) + 1
  <2>1. chan.headerRef = Cardinality(Held(watches)) + One(chan.user)
    BY Equations, Zenon
  <2>2. Cardinality(Held(watches)) \in Nat /\ Cardinality(Held(watches)) <= Cardinality(Watches)
    BY <1>2, HeldCounts
  <2>3. Cardinality(Watches) \in Nat
    BY FS_CardinalityType, WatchesAssumption
  <2> QED
    BY <1>3, <2>1, <2>2, <2>3
<1>5. fsm.refCount \in 0 .. 3
  <2>1. fsm.refCount = One(chan.mem) + CallbackRefs(running.who)
    BY Equations, Zenon
  <2>2. CallbackRefs(running.who) \in 0 .. 2
    BY DEF CallbackRefs
  <2> QED
    BY <1>3, <2>1, <2>2
<1>6. fdWatch.refs \in 0 .. 3
  <2>1. fdWatch.refs = 2 * One(chan.user) + One(running.who = "fd")
    BY Equations, Zenon
  <2>2. One(running.who = "fd") \in 0 .. 1
    BY OneIs
  <2> QED
    BY <1>3, <2>1, <2>2
<1>7. ctx.refs \in 0 .. 2
  <2>1. ctx.refs = One(chan.user) + One(ctx.user)
    BY Equations, Zenon
  <2> QED
    BY <1>3, <2>1
<1>8. chan \in [mem : BOOLEAN, user : BOOLEAN, headerRef : 0 .. Cardinality(Watches) + 1]
  BY <1>1, <1>4 DEF Chans
<1>9. fsm \in [mem : BOOLEAN, refCount : 0 .. 3, fsmClosed : BOOLEAN, fsmFinalized : BOOLEAN]
  BY <1>1, <1>5 DEF Fsms
<1>10. fdWatch \in [refs : 0 .. 3, attached : BOOLEAN]
  BY <1>1, <1>6 DEF FdWatches
<1>11. ctx \in [refs : 0 .. 2, user : BOOLEAN]
  BY <1>1, <1>7 DEF Contexts
<1>12. LoopOK
  BY DEF LifeInv
<1>13. fault \in Faults
  BY <1>2 DEF Faults
<1> QED
  BY <1>2, <1>8, <1>9, <1>10, <1>11, <1>12, <1>13, Zenon DEF TypeOK, LoopOK, Callers

(* And what each piece lives for.                                          *)
LEMMA LifeInvLives == LifeInv => LivesAsLongAsUsed
<1> SUFFICES ASSUME LifeInv PROVE LivesAsLongAsUsed
  OBVIOUS
<1>1. One(chan.user) \in 0 .. 1 /\ One(chan.mem) \in 0 .. 1 /\ One(ctx.user) \in 0 .. 1
  BY OneIs
<1>2. One(running.who = "fd") \in 0 .. 1
  BY OneIs
<1>3. chan.mem <=> chan.user \/ \E w \in Watches : watches[w].refs > 0
  <2>1. watches \in [Watches -> ChannelWatches]
    BY Parts, Zenon
  <2>2. Held(watches) = {} <=> ~(\E w \in Watches : watches[w].refs > 0)
    BY DEF Held
  <2>3. /\ Cardinality(Held(watches)) \in Nat
        /\ Cardinality(Held(watches)) = 0 <=> Held(watches) = {}
    BY <2>1, HeldCounts
  <2>4. chan.headerRef = Cardinality(Held(watches)) + One(chan.user)
    BY Equations, Zenon
  <2>5. chan.headerRef > 0 <=> One(chan.user) = 1 \/ Cardinality(Held(watches)) # 0
    BY <1>1, <2>3, <2>4
  <2>6. One(chan.user) = 1 <=> chan.user
    BY OneIs
  <2>7. chan.mem <=> chan.headerRef > 0
    BY Equations, Zenon
  <2> QED
    BY <2>2, <2>3, <2>5, <2>6, <2>7, Zenon
<1>4. fsm.mem <=> chan.mem \/ running.who \in {"fd", "lookup"}
  <2>1. fsm.refCount = One(chan.mem) + CallbackRefs(running.who)
    BY Equations, Zenon
  <2>2. /\ CallbackRefs(running.who) \in 0 .. 2
        /\ CallbackRefs(running.who) > 0 <=> running.who \in {"fd", "lookup"}
    BY DEF CallbackRefs
  <2>3. fsm.refCount > 0 <=> One(chan.mem) = 1 \/ CallbackRefs(running.who) > 0
    BY <1>1, <2>1, <2>2
  <2>4. One(chan.mem) = 1 <=> chan.mem
    BY OneIs
  <2>5. fsm.mem <=> fsm.refCount > 0
    BY Equations, Zenon
  <2> QED
    BY <2>2, <2>3, <2>4, <2>5, Zenon
<1>5. fdWatch.refs > 0 <=> chan.user \/ running.who = "fd"
  <2>1. fdWatch.refs = 2 * One(chan.user) + One(running.who = "fd")
    BY Equations, Zenon
  <2>2. fdWatch.refs > 0 <=> One(chan.user) = 1 \/ One(running.who = "fd") = 1
    BY <1>1, <1>2, <2>1
  <2>3. One(chan.user) = 1 <=> chan.user
    BY OneIs
  <2>4. One(running.who = "fd") = 1 <=> running.who = "fd"
    BY DEF One
  <2> QED
    BY <2>2, <2>3, <2>4, Zenon
<1>6. ctx.refs > 0 <=> chan.user \/ ctx.user
  <2>1. ctx.refs = One(chan.user) + One(ctx.user)
    BY Equations, Zenon
  <2>2. ctx.refs > 0 <=> One(chan.user) = 1 \/ One(ctx.user) = 1
    BY <1>1, <2>1
  <2>3. One(chan.user) = 1 <=> chan.user
    BY OneIs
  <2>4. One(ctx.user) = 1 <=> ctx.user
    BY OneIs
  <2> QED
    BY <2>2, <2>3, <2>4, Zenon
<1> QED
  BY <1>3, <1>4, <1>5, <1>6, Zenon DEF LivesAsLongAsUsed

(* Only its own dispatch calls a watch's user, and tells what was ready    *)
(* then.                                                                   *)
LEMMA TellsStep ==
    ASSUME LifeInv, [Next]_vars, NEW v \in Watches, running.who # v, running'.who = v
    PROVE  LET cond == running'.cond
           IN  /\ cond # {} /\ cond \subseteq watches[v].conditions \cup Failures
               /\ fsm.fsmClosed => cond = {"NVAL"}
               /\ \A dir \in cond \ Failures :
                    LET hint == IF dir = "IN" THEN io'.readable ELSE io'.writeable
                    IN \/ hint \in {"ready", "readyhup"}
                       \/ hint # "notReady" /\ io'.fd /\ dir \in watches[v].revents
<1> DEFINE Tells == /\ running'.cond # {}
                    /\ running'.cond \subseteq watches[v].conditions \cup Failures
                    /\ fsm.fsmClosed => running'.cond = {"NVAL"}
                    /\ \A dir \in running'.cond \ Failures :
                         LET hint == IF dir = "IN" THEN io'.readable ELSE io'.writeable
                         IN \/ hint \in {"ready", "readyhup"}
                            \/ hint # "notReady" /\ io'.fd /\ dir \in watches[v].revents
<1>1. running' # running
  OBVIOUS
<1>2. v \notin {"nobody", "fd", "lookup"}
  BY WatchesAssumption
<1>3. running' # NoCall
  BY <1>2 DEF NoCall
<1>4. ASSUME NEW w \in Watches, NEW answer \in Answers, DispatchWatch(w, answer)
      PROVE  Tells
  <2> DEFINE res  == Preflight(fsm.fsmClosed, answer, watches[w].conditions)
             told == WhatIsReady(watches[w], res)
  <2>1. told # {} /\ running' = [who |-> w, cond |-> told] /\ io' = answer
    BY <1>1, <1>4 DEF DispatchWatch, Result
  <2>2. w = v /\ running'.cond = told
    BY <2>1
  <2>3. fsm.fsmClosed \in BOOLEAN
    <3>1. fsm \in Fsms
      BY Parts, Zenon
    <3> QED
      BY <3>1 DEF Fsms
  <2>4. watches[w] \in ChannelWatches
    <3>1. watches \in [Watches -> ChannelWatches]
      BY Parts, Zenon
    <3> QED
      BY <3>1
  <2>5. /\ told \subseteq watches[w].conditions \cup Failures
        /\ fsm.fsmClosed /\ told # {} => told = {"NVAL"}
        /\ \A dir \in told \ Failures :
              LET hint == IF dir = "IN" THEN answer.readable ELSE answer.writeable
              IN \/ hint \in {"ready", "readyhup"}
                 \/ hint # "notReady" /\ answer.fd /\ dir \in watches[w].revents
    BY <2>3, <2>4, WatchTells
  <2> HIDE DEF told
  <2> QED
    BY <2>1, <2>2, <2>5
<1>5. ASSUME NEW completes \in BOOLEAN, DispatchFdWatch(completes)
      PROVE  FALSE
  <2>1. running' = running \/ running' = [who |-> "fd", cond |-> {}]
    BY <1>5 DEF DispatchFdWatch
  <2> QED
    BY <1>1, <1>2, <2>1
<1>6. ~LookupFails
  BY <1>2 DEF LookupFails
<1>7. ~FdWatchCbReturns /\ ~LookupCbReturns
  BY <1>3 DEF FdWatchCbReturns, LookupCbReturns
<1>8. ASSUME NEW w \in Watches, NEW stayAttached \in BOOLEAN, WatchCbReturns(w, stayAttached)
      PROVE  FALSE
  BY <1>3, <1>8 DEF WatchCbReturns
<1>9. ~CreateChannel /\ ~UserDropsChannel /\ ~UserCloses /\ ~UserUnrefsContext
  BY <1>1 DEF CreateChannel, UserDropsChannel, UserCloses, UserUnrefsContext, OfUser
<1>10. ASSUME NEW w \in Watches, NEW conds,
              UserWatches(w, conds) \/ UserUpdatesWatch(w, conds) \/ UserDestroysWatch(w)
                \/ UserUnrefsWatch(w)
       PROVE  FALSE
  BY <1>1, <1>10 DEF UserWatches, UserUpdatesWatch, UserDestroysWatch, UserUnrefsWatch, OfUser
<1>11. ~PrepareAndCheck
  BY <1>1 DEF PrepareAndCheck
<1>12. ASSUME NEW w \in Watches, DispatchWithoutCallback(w)
       PROVE  FALSE
  BY <1>1, <1>12 DEF DispatchWithoutCallback
<1>13. ~UNCHANGED vars
  BY <1>1 DEF vars
<1>14. Tells
  <2> HIDE DEF Tells
  <2> QED
    BY <1>4, <1>5, <1>6, <1>7, <1>8, <1>9, <1>10, <1>11, <1>12, <1>13, Zenon DEF Next
<1> QED
  BY <1>14, Zenon

-----------------------------------------------------------------------------
(* The theorems.                                                           *)

(* Every variable has its type: no count of references exceeds what the    *)
(* user, the watches, the machine and GLib can own.                        *)
THEOREM TypeAlwaysOK == Spec => []TypeOK
  BY LifeHolds, LifeInvIsTyped, PTL

(* Nothing freed is used or freed again, the machine is finalized before   *)
(* it is freed, and no source is destroyed under the lock of its context,  *)
(* for any number of watches (psl_channel.c:74-114,                        *)
(* psl_channel_fsm_main.c:269-281, 446-472, 695).                          *)
THEOREM NothingEverUsedAfterFree == Spec => []NothingUsedAfterFree
<1>1. LifeInv => NothingUsedAfterFree
  BY Parts DEF World, NothingUsedAfterFree
<1> QED
  BY <1>1, LifeHolds, PTL

(* The header, the machine, its fd watch and the thread context live as    *)
(* long as somebody needs them, and no longer.                             *)
THEOREM LivesAlwaysAsLongAsUsed == Spec => []LivesAsLongAsUsed
  BY LifeHolds, LifeInvLives, PTL

(* A watch tells its user what it was asked for and what is so when it is  *)
(* dispatched, or a failure (psl_channel_watch.c:335-340).                 *)
THEOREM WatchesTellWhatIsReady == Spec => TellsWhatIsReady
<1>1. LifeInv /\ [Next]_vars =>
        [\A w \in Watches : running.who # w /\ running'.who = w =>
           LET cond == running'.cond
           IN /\ cond # {} /\ cond \subseteq watches[w].conditions \cup Failures
              /\ fsm.fsmClosed => cond = {"NVAL"}
              /\ \A dir \in cond \ Failures :
                   LET hint == IF dir = "IN" THEN io'.readable ELSE io'.writeable
                   IN \/ hint \in {"ready", "readyhup"}
                      \/ hint # "notReady" /\ io'.fd /\ dir \in watches[w].revents]_vars
  BY TellsStep
<1> QED
  BY <1>1, LifeHolds, PTL DEF Spec, TellsWhatIsReady
=============================================================================
