-------------------------- MODULE PslHostLookupProofs --------------------------
(***************************************************************************)
(* The host lookup session (PslHostLookup) for any descriptors, clock and  *)
(* c-ares: nothing is used after it is freed, the watch follows c-ares,    *)
(* and the loop wakes the session up.                                      *)
(*                                                                         *)
(* Between callbacks the session is Quiet.  The operators of the model     *)
(* give sets of outcomes, so the lemmas say what every outcome is.         *)
(***************************************************************************)
EXTENDS PslHostLookup, FiniteSetTheorems, WellFoundedInduction, TLAPS

Sessions ==
    [mem : BOOLEAN, lookupState : LookupStates, chan : BOOLEAN,
     watch : BOOLEAN, queryStarter : BOOLEAN, inCb : Nat,
     needDestroy : BOOLEAN, aresHostCbWasCalled : BOOLEAN]

Starters == [attached : BOOLEAN, refs : 0 .. 2]

AresChannels ==
    [query : {"none", "pending", "done"}, socks : Sockets,
     tries : 0 .. AresTries, due : 0 .. AresTimeout]

Timeouts == {INFINITE_MSEC} \cup Nat

(* A watch whose timeout is one, and of which GLib polls what it was given.*)
SoundWatches ==
    {w \in Watches : /\ w.timeoutMillisec \in Timeouts
                     /\ w.polled = {f \in Known(w) : w.descTable[f].pollAdded}}

(* The watch asks for what the sockets of c-ares wait for.                 *)
Asks(w, socks) ==
    /\ Known(w) = DOMAIN socks
    /\ \A f \in Known(w) : w.descTable[f].events = socks[f]

(* The worlds in which nothing has gone wrong.                             *)
Records ==
    [ses : Sessions, w : SoundWatches, starter : Starters, ares : AresChannels,
     told : Nat, asked : BOOLEAN, fault : {""}]

Worlds == {x \in Records : Asks(x.w, x.ares.socks)}

IdleSource == [attached |-> TRUE, refs |-> 2]

(* The session between callbacks: none;                                    *)
NoneOK(x) == ~x.ses.mem => x.ses = NoSession

(* one that has its channel and watch until it has answered, and that      *)
(* times out if, and not before, c-ares does;                              *)
ChannelOK(x) ==
    /\ x.ses.watch = x.ses.chan /\ x.w.attached = x.ses.chan
    /\ x.ares.query = "pending" => x.ses.chan
    /\ x.ares.query # "pending" => x.ares = NoAres
    /\ x.ares.query = "pending" <=> x.w.timeoutMillisec # INFINITE_MSEC

TimerOK(x) ==
    x.ares.query = "pending" =>
        x.ares.due <= IF x.w.restartTimer THEN x.w.timeoutMillisec * TicksPerMilli
                      ELSE x.w.when

(* and one that has not started, waits for its idle source, waits for      *)
(* c-ares, or has answered.                                                *)
StateOK(x) ==
    /\ x.ses.mem => x.ses.lookupState \in {"initialized", "running", "finished"}
    /\ x.ses.mem => (x.ses.chan <=> x.ses.lookupState # "finished")
    /\ x.ses.aresHostCbWasCalled <=> x.ses.lookupState = "finished"
    /\ x.ses.queryStarter => x.ses.lookupState = "running"
    /\ x.ares.query = "pending" <=> x.ses.lookupState = "running" /\ ~x.ses.queryStarter

Quiet(x) ==
    /\ x.ses.inCb = 0 /\ ~x.ses.needDestroy
    /\ x.asked => ~x.ses.mem
    /\ NoneOK(x) /\ ChannelOK(x) /\ TimerOK(x) /\ StateOK(x)

StarterOK(x) == x.starter = IF x.ses.queryStarter THEN IdleSource ELSE NoStarter

(* While it polls, the loop has started the timer, and sleeps no longer    *)
(* than a rounding after it;                                               *)
PollOK ==
    loop.phase = "poll" =>
        /\ watch.attached => ~watch.restartTimer
        /\ ares.query = "pending" =>
              loop.sleep # INFINITE_MSEC /\ loop.sleep < watch.when + TicksPerMilli

(* and the watch is ready because c-ares is due or has something to read.  *)
ReadyOK ==
    "watch" \in loop.ready =>
        \/ asked \/ ses.lookupState = "finished"
        \/ /\ ares.query = "pending"
           /\ ares.due = 0 \/ (loop.phase = "dispatch" /\ PollRecs(watch) # {})

LoopOK ==
    /\ loop \in [phase : {"poll", "dispatch"}, ready : SUBSET {"watch", "starter"},
                 sleep : Timeouts]
    /\ PollOK /\ ReadyOK

LookupInv == World \in Worlds /\ Quiet(World) /\ StarterOK(World) /\ LoopOK

-----------------------------------------------------------------------------
(* Tables of descriptors and of sockets.                                   *)

(* A table on some descriptors, and what is known of one.                  *)
LEMMA IsTable ==
    ASSUME NEW V, NEW S \in SUBSET Fds, NEW g \in [S -> V]
    PROVE  g \in UNION {[T -> V] : T \in SUBSET Fds}
  OBVIOUS

LEMMA TableIs ==
    ASSUME NEW V, NEW g \in UNION {[T -> V] : T \in SUBSET Fds}
    PROVE  DOMAIN g \in SUBSET Fds /\ g \in [DOMAIN g -> V]
<1>1. PICK T \in SUBSET Fds : g \in [T -> V]
  OBVIOUS
<1> QED
  BY <1>1

(* What a sound watch is made of.                                          *)
LEMMA WatchIs ==
    ASSUME NEW w \in SoundWatches
    PROVE  /\ w \in Watches /\ w.attached \in BOOLEAN /\ w.restartTimer \in BOOLEAN
           /\ w.timeoutMillisec \in Timeouts /\ w.when \in Nat
           /\ Known(w) \in SUBSET Fds /\ w.descTable \in [Known(w) -> Descriptors]
           /\ \A f \in Known(w) : /\ w.descTable[f].events \in Requests
                                  /\ w.descTable[f].revents \in Indications
                                  /\ w.descTable[f].pollAdded \in BOOLEAN
           /\ w.polled = {f \in Known(w) : w.descTable[f].pollAdded}
<1>1. w \in Watches
  BY DEF SoundWatches
<1>2. w.descTable \in UNION {[T -> Descriptors] : T \in SUBSET Fds}
  BY <1>1 DEF Watches
<1>3. Known(w) \in SUBSET Fds /\ w.descTable \in [Known(w) -> Descriptors]
  BY <1>2, TableIs DEF Known
<1>4. \A f \in Known(w) : w.descTable[f] \in Descriptors
  BY <1>3
<1> QED
  BY <1>1, <1>3, <1>4 DEF SoundWatches, Watches, Descriptors

(* What two watches have in common that differ in their tables.            *)
SameTimer(v, w) ==
    /\ v.attached = w.attached /\ v.restartTimer = w.restartTimer
    /\ v.timeoutMillisec = w.timeoutMillisec /\ v.when = w.when

(* A watch with another table is sound if GLib polls what it was given.    *)
Retabled(r, w, S, t) ==
    /\ w \in SoundWatches /\ S \in SUBSET Fds /\ t \in [S -> Descriptors]
    /\ r = [w EXCEPT !.descTable = t, !.polled = {f \in S : t[f].pollAdded}]

LEMMA TableChanges ==
    ASSUME NEW w, NEW S, NEW t, NEW r, Retabled(r, w, S, t)
    PROVE  r \in SoundWatches /\ Known(r) = S /\ r.descTable = t /\ SameTimer(r, w)
<1> DEFINE p == {f \in S : t[f].pollAdded}
<1>1. w \in SoundWatches /\ S \in SUBSET Fds /\ t \in [S -> Descriptors]
  BY DEF Retabled
<1>2. t \in UNION {[T -> Descriptors] : T \in SUBSET Fds}
  BY <1>1, IsTable
<1>3. p \in SUBSET Fds
  BY <1>1
<1>4. w \in Watches /\ w.timeoutMillisec \in Timeouts
  BY <1>1, WatchIs
<1>5. r = [w EXCEPT !.descTable = t, !.polled = p]
  BY DEF Retabled
<1> HIDE DEF p
<1>6. r \in Watches /\ r.descTable = t /\ r.polled = p /\ SameTimer(r, w)
  BY <1>2, <1>3, <1>4, <1>5 DEF Watches, SameTimer
<1>7. Known(r) = S
  BY <1>1, <1>6 DEF Known
<1>8. r.polled = {f \in Known(r) : r.descTable[f].pollAdded}
  BY <1>6, <1>7 DEF p
<1>9. r \in SoundWatches
  BY <1>4, <1>6, <1>8 DEF SoundWatches, SameTimer
<1> QED
  BY <1>6, <1>7, <1>9

(* psl_multi_fd_watch_add_or_update_fd                                     *)
LEMMA AddsFd ==
    ASSUME NEW w \in SoundWatches, NEW f \in Fds, NEW conds \in Requests
    PROVE  LET r == AddOrUpdateFd(w, f, conds)
           IN  /\ r \in SoundWatches /\ Known(r) = Known(w) \cup {f} /\ SameTimer(r, w)
               /\ \A g \in Known(r) :
                     r.descTable[g].events = IF g = f THEN conds ELSE w.descTable[g].events
<1> DEFINE known == f \in Known(w)
           desc  == [events    |-> conds,
                     revents   |-> IF known THEN w.descTable[f].revents ELSE {},
                     pollAdded |-> known /\ w.descTable[f].pollAdded]
           S == Known(w) \cup {f}
           t == [g \in S |-> IF g = f THEN desc ELSE w.descTable[g]]
<1>1. /\ Known(w) \in SUBSET Fds /\ w.descTable \in [Known(w) -> Descriptors]
      /\ w.polled = {g \in Known(w) : w.descTable[g].pollAdded}
      /\ known => /\ w.descTable[f].revents \in Indications
                  /\ w.descTable[f].pollAdded \in BOOLEAN
  BY WatchIs
<1>2. desc \in Descriptors /\ desc.events = conds
      /\ desc.pollAdded = (known /\ w.descTable[f].pollAdded)
  BY <1>1 DEF Descriptors, Indications
<1> HIDE DEF desc
<1>3. S \in SUBSET Fds /\ t \in [S -> Descriptors]
  BY <1>1, <1>2
<1>4. w.polled = {g \in S : t[g].pollAdded}
  <2>1. \A g \in S : t[g].pollAdded <=> g \in Known(w) /\ w.descTable[g].pollAdded
    BY <1>2
  <2> QED
    BY <1>1, <2>1
<1> DEFINE r == [w EXCEPT !.descTable = t, !.polled = w.polled]
<1>5. r \in SoundWatches /\ Known(r) = S /\ r.descTable = t /\ SameTimer(r, w)
  <2>1. Retabled(r, w, S, t)
    BY <1>3, <1>4 DEF Retabled
  <2> HIDE DEF S, t, r
  <2> QED
    BY <2>1, TableChanges
<1>6. AddOrUpdateFd(w, f, conds) = r
  <2>1. AddOrUpdateFd(w, f, conds) = [w EXCEPT !.descTable = t]
    BY DEF AddOrUpdateFd, desc
  <2>2. w \in Watches
    BY WatchIs
  <2> QED
    BY <2>1, <2>2 DEF Watches
<1>7. \A g \in S : t[g].events = IF g = f THEN conds ELSE w.descTable[g].events
  BY <1>2
<1> HIDE DEF t, r
<1> QED
  BY <1>5, <1>6, <1>7

(* psl_multi_fd_watch_remove_fd                                            *)
LEMMA RemovesFds ==
    ASSUME NEW w \in SoundWatches, NEW F
    PROVE  LET r == RemoveFds(w, F)
           IN  /\ r \in SoundWatches /\ Known(r) = Known(w) \ F /\ SameTimer(r, w)
               /\ \A g \in Known(r) : r.descTable[g].events = w.descTable[g].events
<1> DEFINE S == Known(w) \ F
           t == [g \in S |-> w.descTable[g]]
           p == w.polled \ {f \in F \cap Known(w) : w.descTable[f].pollAdded}
           r == [w EXCEPT !.descTable = t, !.polled = p]
<1>1. /\ Known(w) \in SUBSET Fds /\ w.descTable \in [Known(w) -> Descriptors]
      /\ w.polled = {g \in Known(w) : w.descTable[g].pollAdded} /\ w \in Watches
  BY WatchIs
<1>2. S \in SUBSET Fds /\ t \in [S -> Descriptors] /\ p = {g \in S : t[g].pollAdded}
  BY <1>1
<1>3. \A g \in S : t[g].events = w.descTable[g].events
  OBVIOUS
<1>4. RemoveFds(w, F) = r
  BY <1>1 DEF RemoveFds, Watches
<1>5. r \in SoundWatches /\ Known(r) = S /\ r.descTable = t /\ SameTimer(r, w)
  <2>1. Retabled(r, w, S, t)
    BY <1>2 DEF Retabled
  <2> HIDE DEF S, t, p, r
  <2> QED
    BY <2>1, TableChanges
<1> HIDE DEF t, r
<1> QED
  BY <1>3, <1>4, <1>5

(* psl_multi_fd_watch_reset                                                *)
LEMMA Resets ==
    ASSUME NEW w \in SoundWatches
    PROVE  LET r == [ResetWatch(w) EXCEPT !.attached = FALSE]
           IN  /\ r \in SoundWatches /\ Known(r) = {} /\ ~r.attached
               /\ r.timeoutMillisec = INFINITE_MSEC
<1> DEFINE r == [ResetWatch(w) EXCEPT !.attached = FALSE]
           p == w.polled \ {f \in Known(w) : w.descTable[f].pollAdded}
<1>1. w \in Watches /\ w.polled = {g \in Known(w) : w.descTable[g].pollAdded}
  BY WatchIs
<1>2. p = {}
  BY <1>1
<1> HIDE DEF p
<1>3. ResetWatch(w) = [w EXCEPT !.restartTimer = TRUE, !.timeoutMillisec = INFINITE_MSEC,
                                !.polled = p, !.descTable = NoDescriptors]
  BY DEF ResetWatch, p
<1>4. NoDescriptors \in [{} -> Descriptors] /\ DOMAIN NoDescriptors = {}
  BY DEF NoDescriptors
<1>5. NoDescriptors \in UNION {[T -> Descriptors] : T \in SUBSET Fds}
  BY <1>4, IsTable
<1>6. INFINITE_MSEC \in Int /\ INFINITE_MSEC \in Timeouts
  BY DEF INFINITE_MSEC, Timeouts
<1>7. /\ r \in Watches /\ r.descTable = NoDescriptors /\ r.polled = {} /\ ~r.attached
      /\ r.timeoutMillisec = INFINITE_MSEC
  BY <1>1, <1>2, <1>3, <1>5, <1>6 DEF Watches
<1> HIDE DEF r
<1>8. Known(r) = {}
  BY <1>4, <1>7 DEF Known
<1>9. r \in SoundWatches
  BY <1>6, <1>7, <1>8 DEF SoundWatches
<1> QED
  BY <1>7, <1>8, <1>9 DEF r

(* psl_multi_fd_watch_set_poll_timeout, and what a dispatch begins with.   *)
LEMMA SetsTimer ==
    ASSUME NEW w \in SoundWatches, NEW millis \in Timeouts
    PROVE  /\ LET r == SetPollTimeout(w, millis)
              IN  /\ r \in SoundWatches /\ Known(r) = Known(w) /\ r.descTable = w.descTable
                  /\ r.attached = w.attached
                  /\ r.restartTimer /\ r.timeoutMillisec = millis
           /\ LET r == Dispatched(w)
              IN  /\ r \in SoundWatches /\ Known(r) = Known(w) /\ r.descTable = w.descTable
                  /\ r.attached = w.attached /\ r.timeoutMillisec = w.timeoutMillisec
<1>1. w \in Watches /\ w.timeoutMillisec \in Timeouts
      /\ w.polled = {g \in Known(w) : w.descTable[g].pollAdded}
  BY WatchIs
<1>2. millis \in Int /\ ~(millis < -1)
  BY DEF Timeouts, INFINITE_MSEC
<1> DEFINE s == [w EXCEPT !.restartTimer = TRUE, !.timeoutMillisec = millis]
           d == [w EXCEPT !.restartTimer = TRUE]
<1>3. /\ s \in Watches /\ s.descTable = w.descTable /\ s.polled = w.polled
      /\ s.attached = w.attached /\ s.restartTimer /\ s.timeoutMillisec = millis
  BY <1>1, <1>2 DEF Watches
<1>4. /\ d \in Watches /\ d.descTable = w.descTable /\ d.polled = w.polled
      /\ d.attached = w.attached /\ d.timeoutMillisec = w.timeoutMillisec
  BY <1>1 DEF Watches
<1>5. SetPollTimeout(w, millis) = s /\ Dispatched(w) = d
  BY <1>2 DEF SetPollTimeout, Dispatched
<1> HIDE DEF s, d
<1>6. Known(s) = Known(w) /\ Known(d) = Known(w)
  BY <1>3, <1>4 DEF Known
<1>7. s \in SoundWatches /\ d \in SoundWatches
  BY <1>1, <1>3, <1>4, <1>6 DEF SoundWatches
<1> QED
  BY <1>3, <1>4, <1>5, <1>6, <1>7

-----------------------------------------------------------------------------
(* c-ares and its sockets.                                                 *)

(* What a world is made of.                                                *)
LEMMA WorldIs ==
    ASSUME NEW x \in Worlds
    PROVE  /\ x = [ses |-> x.ses, w |-> x.w, starter |-> x.starter, ares |-> x.ares,
                   told |-> x.told, asked |-> x.asked, fault |-> x.fault]
           /\ x.ses \in Sessions /\ x.w \in SoundWatches /\ x.starter \in Starters
           /\ x.ares \in AresChannels /\ x.told \in Nat /\ x.asked \in BOOLEAN /\ x.fault = ""
           /\ Asks(x.w, x.ares.socks)
<1>1. x \in Records /\ Asks(x.w, x.ares.socks)
  BY DEF Worlds
<1> QED
  BY <1>1 DEF Records

(* And what makes one.                                                     *)
LEMMA IsWorld ==
    ASSUME NEW ses0 \in Sessions, NEW w0 \in SoundWatches, NEW s0 \in Starters,
           NEW a0 \in AresChannels, NEW told0 \in Nat, NEW asked0 \in BOOLEAN,
           Asks(w0, a0.socks)
    PROVE  [ses |-> ses0, w |-> w0, starter |-> s0, ares |-> a0,
            told |-> told0, asked |-> asked0, fault |-> ""] \in Worlds
<1> DEFINE r == [ses |-> ses0, w |-> w0, starter |-> s0, ares |-> a0,
                 told |-> told0, asked |-> asked0, fault |-> ""]
<1>1. r \in Records
  BY DEF Records
<1>2. r.w = w0 /\ r.ares = a0
  OBVIOUS
<1> HIDE DEF r
<1>3. Asks(r.w, r.ares.socks)
  BY <1>2
<1>4. r \in Worlds
  BY <1>1, <1>3 DEF Worlds
<1> QED
  BY <1>4 DEF r

(* What a call back about sockets leaves alone.                            *)
OnlySocks(x, r) ==
    /\ r \in Worlds /\ r.ses = x.ses /\ r.starter = x.starter
    /\ r.told = x.told /\ r.asked = x.asked
    /\ r.ares.query = x.ares.query /\ r.ares.tries = x.ares.tries /\ r.ares.due = x.ares.due
    /\ SameTimer(r.w, x.w)

(* c-ares has other sockets, and a watch that asks for what they wait for. *)
Resocketed(r, x, w, socks) ==
    /\ x \in Worlds /\ w \in SoundWatches /\ SameTimer(w, x.w)
    /\ socks \in Sockets /\ Asks(w, socks)
    /\ r = [x EXCEPT !.ares = [x.ares EXCEPT !.socks = socks], !.w = w]

(* Nothing else has changed then.                                          *)
LEMMA SocksChange ==
    ASSUME NEW r, NEW x, NEW w, NEW socks, Resocketed(r, x, w, socks)
    PROVE  OnlySocks(x, r) /\ r.ares.socks = socks
<1> DEFINE a == [x.ares EXCEPT !.socks = socks]
<1>1. /\ x \in Worlds /\ w \in SoundWatches /\ socks \in Sockets /\ Asks(w, socks)
      /\ r = [x EXCEPT !.ares = a, !.w = w] /\ SameTimer(w, x.w)
  BY DEF Resocketed
<1>2. /\ a \in AresChannels /\ a.socks = socks /\ a.query = x.ares.query
      /\ a.tries = x.ares.tries /\ a.due = x.ares.due
  BY <1>1, WorldIs DEF AresChannels
<1> HIDE DEF a
<1>3. /\ r \in Records /\ r.ses = x.ses /\ r.w = w /\ r.starter = x.starter
      /\ r.ares = a /\ r.told = x.told /\ r.asked = x.asked
  <2>1. x \in Records
    BY <1>1 DEF Worlds
  <2> QED
    BY <1>1, <1>2, <2>1 DEF Records
<1>4. r \in Worlds
  <2>1. Asks(r.w, r.ares.socks)
    BY <1>1, <1>2, <1>3
  <2> QED
    BY <1>3, <2>1 DEF Worlds
<1> QED
  BY <1>1, <1>2, <1>3, <1>4 DEF OnlySocks

(* c-ares opens, updates or closes one socket.                             *)
LEMMA SockKeeps ==
    ASSUME NEW x \in Worlds, x.ses.mem, x.ses.watch, NEW f \in Fds,
           NEW conds \in AresRequests \cup {{}}
    PROVE  OnlySocks(x, Sock(x, f, conds))
<1> DEFINE socks0 == x.ares.socks
           others == DOMAIN socks0 \ {f}
           S      == others \cup IF conds = {} THEN {} ELSE {f}
           socks  == [g \in S |-> IF g = f THEN conds ELSE socks0[g]]
           y      == [x EXCEPT !.ares = [x.ares EXCEPT !.socks = socks]]
           w      == IF conds # {} THEN AddOrUpdateFd(x.w, f, conds) ELSE RemoveFd(x.w, f)
           r      == [x EXCEPT !.ares = [x.ares EXCEPT !.socks = socks], !.w = w]
<1>1. /\ x.w \in SoundWatches /\ socks0 \in Sockets /\ Known(x.w) = DOMAIN socks0
      /\ \A g \in Known(x.w) : x.w.descTable[g].events = socks0[g]
  BY WorldIs DEF Asks, AresChannels
<1>2. DOMAIN socks0 \in SUBSET Fds /\ socks0 \in [DOMAIN socks0 -> AresRequests]
  BY <1>1, TableIs DEF Sockets
<1>3. socks \in Sockets /\ DOMAIN socks = S
  <2>1. S \in SUBSET Fds /\ socks \in [S -> AresRequests] /\ DOMAIN socks = S
    BY <1>2
  <2> HIDE DEF socks, S
  <2>2. socks \in UNION {[T -> AresRequests] : T \in SUBSET Fds}
    BY <2>1, IsTable
  <2> QED
    BY <2>1, <2>2 DEF Sockets
<1>4. conds \in Requests
  BY DEF AresRequests, Requests
<1>5. \A g \in S : socks[g] = IF g = f THEN conds ELSE socks0[g]
  OBVIOUS
<1>6. w \in SoundWatches /\ SameTimer(w, x.w) /\ Asks(w, socks)
  <2> HIDE DEF socks, socks0
  <2>1. CASE conds # {}
    <3>1. w = AddOrUpdateFd(x.w, f, conds) /\ S = DOMAIN socks0 \cup {f}
      BY <2>1
    <3> HIDE DEF w
    <3>2. /\ w \in SoundWatches /\ Known(w) = Known(x.w) \cup {f} /\ SameTimer(w, x.w)
          /\ \A g \in Known(w) :
                w.descTable[g].events = IF g = f THEN conds ELSE x.w.descTable[g].events
      BY <1>1, <1>4, <3>1, AddsFd
    <3> QED
      BY <1>1, <1>3, <1>5, <3>1, <3>2 DEF Asks
  <2>2. CASE conds = {}
    <3>1. w = RemoveFds(x.w, {f}) /\ S = DOMAIN socks0 \ {f}
      BY <2>2 DEF RemoveFd
    <3> HIDE DEF w
    <3>2. /\ w \in SoundWatches /\ Known(w) = Known(x.w) \ {f} /\ SameTimer(w, x.w)
          /\ \A g \in Known(w) : w.descTable[g].events = x.w.descTable[g].events
      BY <1>1, <3>1, RemovesFds
    <3> QED
      BY <1>1, <1>3, <1>5, <3>1, <3>2 DEF Asks
  <2> QED
    BY <2>1, <2>2
<1>7. Sock(x, f, conds) = r
  <2>1. Sock(x, f, conds) = SockState(y, f, conds)
    BY DEF Sock
  <2> HIDE DEF socks
  <2>2. y.ses = x.ses /\ y.w = x.w
    <3>1. x = [ses |-> x.ses, w |-> x.w, starter |-> x.starter, ares |-> x.ares,
               told |-> x.told, asked |-> x.asked, fault |-> x.fault]
      BY WorldIs
    <3> QED
      BY <3>1
  <2>3. FaultIf(~y.ses.mem \/ ~y.ses.watch, y, "socket callback after free") = y
    BY <2>2 DEF FaultIf
  <2>4. SockState(y, f, conds) =
          [y EXCEPT !.w = IF conds # {} THEN AddOrUpdateFd(y.w, f, conds) ELSE RemoveFd(y.w, f)]
    BY <2>3 DEF SockState
  <2> QED
    BY <2>1, <2>2, <2>4
<1>8. Resocketed(r, x, w, socks)
  BY <1>3, <1>6 DEF Resocketed
<1> HIDE DEF r, w, socks
<1> QED
  BY <1>7, <1>8, SocksChange

(* c-ares closes all of its sockets.                                       *)
LEMMA CloseKeeps ==
    ASSUME NEW x \in Worlds, DOMAIN x.ares.socks # {} => x.ses.mem /\ x.ses.watch
    PROVE  OnlySocks(x, CloseSocks(x)) /\ CloseSocks(x).ares.socks = NoDescriptors
<1> DEFINE socks0 == DOMAIN x.ares.socks
           w      == RemoveFds(x.w, socks0)
           r      == [x EXCEPT !.ares = [x.ares EXCEPT !.socks = NoDescriptors], !.w = w]
<1>1. x.w \in SoundWatches /\ Known(x.w) = socks0
  BY WorldIs DEF Asks
<1>2. NoDescriptors \in Sockets /\ DOMAIN NoDescriptors = {}
  <2>1. NoDescriptors \in [{} -> AresRequests] /\ DOMAIN NoDescriptors = {}
    BY DEF NoDescriptors
  <2> QED
    BY <2>1, IsTable DEF Sockets
<1>3. w \in SoundWatches /\ Known(w) = {} /\ SameTimer(w, x.w)
  BY <1>1, RemovesFds
<1>4. FaultIf(socks0 # {} /\ (~x.ses.mem \/ ~x.ses.watch), x, "socket callback after free") = x
  BY DEF FaultIf
<1>5. CloseSocks(x) = r
  BY <1>4 DEF CloseSocks
<1> HIDE DEF w
<1>6. Resocketed(r, x, w, NoDescriptors)
  BY <1>2, <1>3 DEF Resocketed, Asks
<1> HIDE DEF r
<1> QED
  BY <1>5, <1>6, SocksChange

-----------------------------------------------------------------------------
(* Inside a call of c-ares.                                                *)

(* Nobody has destroyed the session, or freed its channel.                 *)
Live(x) ==
    /\ x \in Worlds /\ x.ses.mem /\ x.ses.chan /\ x.ses.watch /\ x.w.attached
    /\ ~x.ses.queryStarter /\ x.ses.inCb = 0

(* It has not answered, or it has, and the user may have destroyed it.     *)
Asking(x) ==
    /\ Live(x) /\ x.ses.lookupState = "running" /\ x.ares.query # "done"
    /\ ~x.ses.needDestroy /\ ~x.ses.aresHostCbWasCalled /\ ~x.asked

Over(x) ==
    /\ Live(x) /\ x.ses.lookupState = "finished" /\ x.ares.query = "done"
    /\ x.ses.aresHostCbWasCalled /\ x.ses.needDestroy = x.asked

Waiting(x) == Asking(x) /\ x.ares.query = "pending"

(* One answer more than n.                                                 *)
OneMore(n) == n + 1

(* Sockets come and go without it.                                         *)
LEMMA SocksAside ==
    ASSUME NEW x, NEW r, OnlySocks(x, r)
    PROVE  /\ Asking(x) => Asking(r) /\ r.starter = x.starter /\ r.told = x.told
           /\ Over(x) => Over(r) /\ r.starter = x.starter /\ r.told = x.told
  BY DEF OnlySocks, SameTimer, Live, Asking, Over

(* psl_ares_host_callback, before the user is called.                      *)
LEMMA HostCallbackIs ==
    ASSUME NEW x, Asking(x)
    PROVE  LET s == [x.ses EXCEPT !.aresHostCbWasCalled = TRUE, !.inCb = 1,
                                  !.lookupState = "finished"]
               a == [x.ares EXCEPT !.query = "done"]
           IN HostCallback(x) = [x EXCEPT !.ses = s, !.ares = a, !.told = x.told + 1]
<1>1. /\ x.ses.mem /\ ~x.ses.aresHostCbWasCalled /\ x.ses.lookupState = "running"
      /\ ~x.ses.needDestroy /\ x.ses.inCb = 0
  BY DEF Asking, Live
<1>2. x \in Records /\ x.ses \in Sessions
  BY WorldIs DEF Asking, Live, Worlds
<1>3. /\ FaultIf(~x.ses.mem, x, "host callback after free") = x
      /\ FaultIf(x.ses.aresHostCbWasCalled, x, "host callback called twice") = x
  BY <1>1 DEF FaultIf
<1>4. HostCallback(x) = TakeAnswer(x)
  BY <1>3 DEF HostCallback
<1>5. CallbackAllowed(x)
  BY <1>1 DEF CallbackAllowed
<1> DEFINE s1 == [x.ses EXCEPT !.aresHostCbWasCalled = TRUE]
           s2 == [s1 EXCEPT !.inCb = s1.inCb + 1, !.lookupState = "finished"]
           s3 == [x.ses EXCEPT !.aresHostCbWasCalled = TRUE, !.inCb = 1,
                               !.lookupState = "finished"]
<1>6. s2 = s3
  <2>1. s1.inCb = x.ses.inCb
    BY <1>2 DEF Sessions
  <2>2. s1.inCb + 1 = 1
    BY <1>1, <2>1
  <2> HIDE DEF s1
  <2>3. s2 = [s1 EXCEPT !.inCb = 1, !.lookupState = "finished"]
    BY <2>2
  <2> QED
    BY <2>3 DEF s1
<1>7. TakeAnswer(x) = [x EXCEPT !.ses = s2, !.ares = [x.ares EXCEPT !.query = "done"],
                                !.told = x.told + 1]
  BY <1>2, <1>5 DEF TakeAnswer, Records
<1> HIDE DEF s2, s3
<1>8. TakeAnswer(x) = [x EXCEPT !.ses = s3, !.ares = [x.ares EXCEPT !.query = "done"],
                                !.told = x.told + 1]
  BY <1>6, <1>7
<1> QED
  BY <1>4, <1>8 DEF s3

(* The rest of it: a live session in the callback leaves it answered.      *)
LEMMA Answers ==
    ASSUME NEW x, Asking(x), NEW r \in Answered(x)
    PROVE  Over(r) /\ r.starter = x.starter /\ r.told = OneMore(x.told)
<1> DEFINE inside   == HostCallback(x)
           s        == [x.ses EXCEPT !.aresHostCbWasCalled = TRUE, !.inCb = 1,
                                     !.lookupState = "finished"]
           a        == [x.ares EXCEPT !.query = "done"]
           after(y) == [y EXCEPT !.ses.inCb = IF @ > 0 THEN @ - 1 ELSE 0]
           n        == OneMore(x.told)
           Told(y)  == /\ y \in Records /\ y.ares = a /\ y.w = x.w /\ y.starter = x.starter
                       /\ y.told = n /\ y.ses.mem /\ y.ses.chan /\ y.ses.watch /\ ~y.ses.queryStarter
                       /\ y.ses.lookupState = "finished" /\ y.ses.aresHostCbWasCalled
                       /\ y.ses.needDestroy = y.asked
<1>1. x \in Records /\ x.ses \in Sessions /\ x.ares \in AresChannels /\ x.told \in Nat
      /\ x.w.attached /\ Asks(x.w, x.ares.socks)
  BY WorldIs DEF Asking, Live, Worlds
<1>2. /\ x.ses.mem /\ x.ses.chan /\ x.ses.watch /\ ~x.ses.queryStarter
      /\ x.ses.needDestroy = FALSE /\ x.asked = FALSE
  <2>1. ~x.ses.needDestroy /\ ~x.asked
    BY DEF Asking
  <2> QED
    BY <1>1, <2>1 DEF Asking, Live, Records, Sessions
<1>3. a \in AresChannels /\ a.query = "done" /\ a.socks = x.ares.socks
  BY <1>1 DEF AresChannels
<1>4. s \in Sessions /\ s.inCb = 1
  BY <1>1 DEF Sessions, LookupStates
<1>5. /\ s.mem /\ s.chan /\ s.watch /\ ~s.queryStarter /\ s.needDestroy = FALSE
      /\ s.lookupState = "finished" /\ s.aresHostCbWasCalled
  BY <1>1, <1>2 DEF Sessions
<1>6. inside = [x EXCEPT !.ses = s, !.ares = a, !.told = n] /\ n \in Nat /\ n # x.told
  <2>1. n = x.told + 1 /\ n \in Nat /\ n # x.told
    BY <1>1 DEF OneMore
  <2>2. inside = [x EXCEPT !.ses = s, !.ares = a, !.told = n]
    BY HostCallbackIs DEF OneMore
  <2> QED
    BY <2>1, <2>2
<1> HIDE DEF s, a, n, inside
<1>7. /\ inside \in Records /\ inside.ses = s /\ inside.ares = a /\ inside.told = n
      /\ inside.w = x.w /\ inside.starter = x.starter /\ inside.asked = x.asked
  BY <1>1, <1>3, <1>4, <1>6 DEF Records
<1>8. Told(inside) /\ inside.ses.inCb = 1
  BY <1>2, <1>4, <1>5, <1>7
<1>9. inside.told # x.told
  BY <1>6, <1>7
<1>10. r = after(inside) \/ r = after(UserDestroys(inside))
  BY <1>9 DEF Answered, inside
<1>11. Told(UserDestroys(inside)) /\ UserDestroys(inside).ses.inCb = 1
  <2> DEFINE i == [inside EXCEPT !.asked = TRUE]
             d == [i EXCEPT !.ses.needDestroy = TRUE]
  <2>1. /\ i \in Records /\ i.ses = inside.ses /\ i.ares = a /\ i.w = x.w
        /\ i.starter = x.starter /\ i.told = inside.told /\ i.asked = TRUE
    BY <1>7 DEF Records
  <2>2. i.ses.mem /\ i.ses.inCb = 1
    BY <1>8, <2>1
  <2> HIDE DEF i
  <2>3. UserDestroys(inside) = Destroy(i)
    BY DEF UserDestroys, i
  <2>4. FaultIf(~i.ses.mem, i, "session destroyed after free") = i
    BY <2>2 DEF FaultIf
  <2>5. i.ses.inCb > 0
    BY <2>2
  <2>6. Destroy(i) = d
    BY <2>4, <2>5 DEF Destroy
  <2>7. i.ses \in Sessions
    BY <2>1 DEF Records
  <2>8. /\ d \in Records /\ d.ses = [i.ses EXCEPT !.needDestroy = TRUE] /\ d.ares = i.ares
        /\ d.w = i.w /\ d.starter = i.starter /\ d.told = i.told /\ d.asked = i.asked
    BY <2>1, <2>7 DEF Records, Sessions
  <2> HIDE DEF d
  <2>9. /\ d.ses.inCb = i.ses.inCb /\ d.ses.mem = i.ses.mem /\ d.ses.chan = i.ses.chan
        /\ d.ses.watch = i.ses.watch /\ d.ses.queryStarter = i.ses.queryStarter
        /\ d.ses.lookupState = i.ses.lookupState
        /\ d.ses.aresHostCbWasCalled = i.ses.aresHostCbWasCalled /\ d.ses.needDestroy = TRUE
    BY <2>7, <2>8 DEF Sessions
  <2>10. Told(d) /\ d.ses.inCb = 1
    BY <1>8, <2>1, <2>2, <2>8, <2>9
  <2> QED
    BY <2>3, <2>6, <2>10
<1>12. ASSUME NEW y, Told(y), y.ses.inCb = 1
       PROVE  Over(after(y)) /\ after(y).starter = x.starter /\ after(y).told = n
  <2> DEFINE b == after(y)
             t == [y.ses EXCEPT !.inCb = 0]
  <2>1. y \in Records /\ y.ses \in Sessions
    BY <1>12 DEF Records
  <2>2. (IF y.ses.inCb > 0 THEN y.ses.inCb - 1 ELSE 0) = 0
    BY <1>12
  <2>3. b = [y EXCEPT !.ses = t]
    BY <2>2
  <2>4. /\ t \in Sessions /\ t.inCb = 0 /\ t.mem = y.ses.mem /\ t.chan = y.ses.chan
        /\ t.watch = y.ses.watch /\ t.queryStarter = y.ses.queryStarter
        /\ t.lookupState = y.ses.lookupState /\ t.needDestroy = y.ses.needDestroy
        /\ t.aresHostCbWasCalled = y.ses.aresHostCbWasCalled
    BY <2>1 DEF Sessions
  <2> HIDE DEF b, t
  <2>5. /\ b \in Records /\ b.ses = t /\ b.ares = y.ares /\ b.w = y.w
        /\ b.starter = y.starter /\ b.told = y.told /\ b.asked = y.asked
    BY <2>1, <2>3, <2>4 DEF Records
  <2>6. Asks(b.w, b.ares.socks)
    BY <1>1, <1>3, <1>12, <2>5
  <2>7. b \in Worlds
    BY <2>5, <2>6 DEF Worlds
  <2>8. Over(b) /\ b.starter = x.starter /\ b.told = n
    BY <1>1, <1>3, <1>12, <2>4, <2>5, <2>7 DEF Over, Live
  <2> QED
    BY <2>8 DEF b
<1> HIDE DEF after, Told
<1> QED
  BY <1>8, <1>10, <1>11, <1>12 DEF n

(* The query ends, and with it the lookup.                                 *)
LEMMA Completes ==
    ASSUME NEW x, Asking(x), NEW r \in AresCompletes(x)
    PROVE  Over(r) /\ r.starter = x.starter /\ r.told = OneMore(x.told)
<1>1. ASSUME NEW y, Asking(y) \/ Over(y)
      PROVE  OnlySocks(y, CloseSocks(y))
  <2>1. y \in Worlds /\ y.ses.mem /\ y.ses.watch
    BY <1>1 DEF Asking, Over, Live
  <2> QED
    BY <2>1, CloseKeeps
<1>2. \/ r \in Answered(x) \/ r \in Answered(CloseSocks(x))
      \/ \E y \in Answered(x) : r = CloseSocks(y)
  BY DEF AresCompletes
<1>3. CASE r \in Answered(x)
  BY <1>3, Answers
<1>4. CASE r \in Answered(CloseSocks(x))
  <2>1. Asking(CloseSocks(x)) /\ CloseSocks(x).starter = x.starter
        /\ CloseSocks(x).told = x.told
    BY <1>1, SocksAside
  <2> QED
    BY <1>4, <2>1, Answers
<1>5. CASE \E y \in Answered(x) : r = CloseSocks(y)
  <2>1. PICK y \in Answered(x) : r = CloseSocks(y)
    BY <1>5
  <2>2. Over(y) /\ y.starter = x.starter /\ y.told = OneMore(x.told)
    BY <2>1, Answers
  <2>3. OnlySocks(y, r)
    BY <1>1, <2>1, <2>2
  <2> QED
    BY <2>2, <2>3, SocksAside
<1> QED
  BY <1>2, <1>3, <1>4, <1>5

(* The query waits, for c-ares' timeout at the most.                       *)
LEMMA Waits ==
    ASSUME NEW x, Asking(x), NEW n \in 0 .. AresTries, NEW r \in AresWaits(x, n)
    PROVE  Waiting(r) /\ r.starter = x.starter /\ r.told = x.told
<1>1. ASSUME NEW y, Asking(y), NEW f \in Fds, NEW conds \in AresRequests \cup {{}}
      PROVE  Asking(Sock(y, f, conds)) /\ Sock(y, f, conds).starter = y.starter
             /\ Sock(y, f, conds).told = y.told
  <2>1. y \in Worlds /\ y.ses.mem /\ y.ses.watch
    BY <1>1 DEF Asking, Live
  <2>2. OnlySocks(y, Sock(y, f, conds))
    BY <2>1, SockKeeps
  <2> QED
    BY <1>1, <2>2, SocksAside
<1>2. PICK y \in {x} \cup {Sock(x, g, {}) : g \in DOMAIN x.ares.socks},
           f \in Fds, conds \in AresRequests : r = Sent(Sock(y, f, conds), n)
  BY DEF AresWaits
<1>3. Asking(y) /\ y.starter = x.starter /\ y.told = x.told
  <2>1. DOMAIN x.ares.socks \subseteq Fds
    <3>1. x.ares.socks \in Sockets
      BY WorldIs DEF Asking, Live, AresChannels
    <3> QED
      BY <3>1, TableIs DEF Sockets
  <2> QED
    BY <1>1, <1>2, <2>1
<1> DEFINE z == Sock(y, f, conds)
           a == [z.ares EXCEPT !.query = "pending", !.tries = n, !.due = AresTimeout]
<1>4. Asking(z) /\ z.starter = x.starter /\ z.told = x.told
  BY <1>1, <1>3
<1>5. r = [z EXCEPT !.ares = a]
  BY <1>2 DEF Sent
<1> HIDE DEF z
<1>6. z \in Records /\ z.ares \in AresChannels /\ Asks(z.w, z.ares.socks)
  BY <1>4, WorldIs DEF Asking, Live, Worlds
<1>7. a \in AresChannels /\ a.query = "pending" /\ a.socks = z.ares.socks
  <2>1. AresTimeout \in 0 .. AresTimeout
    BY AresAssumption
  <2> QED
    BY <1>6, <2>1 DEF AresChannels
<1> HIDE DEF a
<1>8. /\ r \in Records /\ r.ses = z.ses /\ r.w = z.w /\ r.ares = a
      /\ r.starter = z.starter /\ r.told = z.told /\ r.asked = z.asked
  BY <1>5, <1>6, <1>7 DEF Records
<1>9. r \in Worlds
  <2>1. Asks(r.w, r.ares.socks)
    BY <1>6, <1>7, <1>8
  <2> QED
    BY <1>8, <2>1 DEF Worlds
<1>10. Waiting(r)
  BY <1>4, <1>7, <1>8, <1>9 DEF Waiting, Asking, Live
<1> QED
  BY <1>4, <1>8, <1>10

(* ares_gethostbyname, and ares_process_fd on a query that is out: the user*)
(* has had n answers, and now perhaps one more.                            *)
Going(x, n) ==
    \/ Waiting(x) /\ x.told = n
    \/ Over(x) /\ x.told = OneMore(n)

LEMMA Gethostbyname ==
    ASSUME NEW x, Asking(x), NEW r \in AresGethostbyname(x)
    PROVE  Going(r, x.told) /\ r.starter = x.starter
<1>1. AresTries \in 0 .. AresTries
  BY AresAssumption
<1> QED
  BY <1>1, Completes, Waits DEF AresGethostbyname, Going

LEMMA ProcessesFd ==
    ASSUME NEW x, Waiting(x), NEW fed, NEW r \in AresProcessFd(x, fed)
    PROVE  Going(r, x.told) /\ r.starter = x.starter
<1>1. Asking(x) /\ x.ses.chan /\ x.ares.query = "pending" /\ x.ares.tries \in 0 .. AresTries
  BY WorldIs DEF Waiting, Asking, Live, AresChannels
<1>2. \/ r = x
      \/ x.ares.tries > 0 /\ r \in AresWaits(x, x.ares.tries - 1)
      \/ r \in AresCompletes(x)
  BY <1>1 DEF AresProcessFd
<1>3. CASE r = x
  BY <1>3 DEF Going
<1>4. CASE x.ares.tries > 0 /\ r \in AresWaits(x, x.ares.tries - 1)
  <2>1. x.ares.tries - 1 \in 0 .. AresTries
    BY <1>1, <1>4, AresAssumption
  <2> QED
    BY <1>1, <1>4, <2>1, Waits DEF Going
<1>5. CASE r \in AresCompletes(x)
  BY <1>1, <1>5, Completes DEF Going
<1> QED
  BY <1>2, <1>3, <1>4, <1>5

(* Feeding one descriptor goes on with it.                                 *)
LEMMA FeedsOne ==
    ASSUME NEW x, NEW m, Going(x, m), NEW r \in FeedOne({x})
    PROVE  Going(r, m) /\ r.starter = x.starter
<1>1. CASE Over(x) /\ x.told = OneMore(m)
  <2>1. x.ses.aresHostCbWasCalled
    BY <1>1 DEF Over
  <2>2. FeedOne({x}) = {x}
    BY <2>1 DEF FeedOne
  <2> QED
    BY <2>2
<1>2. CASE Waiting(x) /\ x.told = m
  <2>1. ~x.ses.aresHostCbWasCalled /\ ~x.ses.needDestroy
    BY <1>2 DEF Waiting, Asking
  <2>2. r \in AresProcessFd(x, TRUE)
    BY <2>1 DEF FeedOne
  <2> QED
    BY <1>2, <2>2, ProcessesFd
<1> QED
  BY <1>1, <1>2 DEF Going

(* The least element of a set of naturals: induction, for what follows.    *)
LEMMA Least ==
    ASSUME NEW S, S \subseteq Nat, S # {}
    PROVE  \E n \in S : \A m \in S : n <= m
<1>1. PICK n \in S : \A m \in S : ~(<<m, n>> \in OpToRel(<, Nat))
  BY NatLessThanWellFounded, WFMin, Zenon
<1>2. \A m \in S : ~(m < n)
  BY <1>1 DEF OpToRel
<1> QED
  BY <1>2

(* The outcomes after each descriptor exist.                               *)
FedBy(x, n, fed) ==
    fed = [i \in 0 .. n |-> IF i = 0 THEN {x} ELSE FeedOne(fed[i - 1])]

LEMMA FedByExists ==
    ASSUME NEW x, NEW n \in Nat
    PROVE  \E fed : FedBy(x, n, fed)
<1> DEFINE S == {m \in Nat : ~\E fed : FedBy(x, m, fed)}
<1> SUFFICES ASSUME S # {} PROVE FALSE
  OBVIOUS
<1>1. PICK m \in S : \A k \in S : m <= k
  BY Least
<1>2. m # 0
  <2>1. FedBy(x, 0, [i \in 0 .. 0 |-> {x}])
    BY DEF FedBy
  <2> QED
    BY <2>1
<1>3. m - 1 \in Nat /\ m - 1 \notin S
  BY <1>1, <1>2
<1>4. PICK fed : FedBy(x, m - 1, fed)
  BY <1>3
<1> DEFINE more == [i \in 0 .. m |-> IF i < m THEN fed[i] ELSE FeedOne(fed[m - 1])]
<1>5. ASSUME NEW i \in 0 .. m
      PROVE  more[i] = IF i = 0 THEN {x} ELSE FeedOne(more[i - 1])
  <2>1. i < m => fed[i] = IF i = 0 THEN {x} ELSE FeedOne(fed[i - 1])
    <3>1. \A k \in 0 .. m - 1 : fed[k] = IF k = 0 THEN {x} ELSE FeedOne(fed[k - 1])
      BY <1>4 DEF FedBy
    <3>2. m \in Nat
      OBVIOUS
    <3> HIDE DEF S
    <3>3. i < m => i \in 0 .. m - 1
      BY <1>3, <3>2
    <3> QED
      BY <3>1, <3>3
  <2>2. i # 0 => more[i - 1] = fed[i - 1]
    BY <1>3
  <2>3. i < m => more[i] = fed[i]
    BY <1>3
  <2>4. ~(i < m) => i = m /\ i # 0 /\ more[i] = FeedOne(fed[m - 1])
    BY <1>2, <1>3
  <2> HIDE DEF more
  <2> QED
    BY <2>1, <2>2, <2>3, <2>4
<1>6. FedBy(x, m, more)
  <2>1. more = [i \in 0 .. m |-> more[i]]
    OBVIOUS
  <2> HIDE DEF more
  <2> QED
    BY <1>5, <2>1 DEF FedBy
<1> QED
  BY <1>6

(* Feeding them all goes on with it.                                       *)
LEMMA FeedsAll ==
    ASSUME NEW x, NEW m, Going(x, m), NEW n \in Nat, NEW r \in Feed(x, n)
    PROVE  Going(r, m) /\ r.starter = x.starter
<1> DEFINE fed == CHOOSE f : FedBy(x, n, f)
<1>1. Feed(x, n) = fed[n]
  BY DEF Feed, FedBy
<1>2. FedBy(x, n, fed)
  BY FedByExists
<1> HIDE DEF fed
<1>3. \A i \in 0 .. n : fed[i] = IF i = 0 THEN {x} ELSE FeedOne(fed[i - 1])
  BY <1>2 DEF FedBy
<1> DEFINE Fine(X) == \A y \in X : Going(y, m) /\ y.starter = x.starter
           S == {i \in 0 .. n : ~Fine(fed[i])}
<1>4. S = {}
  <2> SUFFICES ASSUME S # {} PROVE FALSE
    OBVIOUS
  <2>1. PICK i \in S : \A k \in S : i <= k
    <3>1. S \subseteq Nat
      OBVIOUS
    <3> HIDE DEF S
    <3> QED
      BY <3>1, Least
  <2>2. i # 0
    BY <1>3
  <2>3. Fine(fed[i - 1])
    BY <2>1, <2>2
  <2>4. fed[i] = FeedOne(fed[i - 1])
    BY <1>3, <2>2
  <2>5. ASSUME NEW z \in fed[i] PROVE Going(z, m) /\ z.starter = x.starter
    <3>1. PICK y \in fed[i - 1] : z \in FeedOne({y})
      BY <2>4 DEF FeedOne
    <3> QED
      BY <2>3, <3>1, FeedsOne
  <2> QED
    BY <2>5
<1>5. Fine(fed[n])
  BY <1>4
<1> QED
  BY <1>1, <1>5

-----------------------------------------------------------------------------
(* Freeing the channel and the watch, and destroying the session.          *)

(* A session that may be freed: nobody is told any more, and what it does  *)
(* not have leaves nothing behind.                                         *)
Freeable(x) ==
    /\ x \in Worlds /\ x.ses.mem
    /\ x.ses.chan => x.ses.watch
    /\ ~x.ses.chan => x.ares = NoAres
    /\ ~x.ses.watch => ~x.w.attached /\ x.w.timeoutMillisec = INFINITE_MSEC
    /\ x.ares.query = "pending" => ~CallbackAllowed(x) /\ ~x.ses.aresHostCbWasCalled

(* What it leaves alone.                                                   *)
KeepsSession(x, r) ==
    /\ r \in Worlds /\ r.starter = x.starter /\ r.told = x.told /\ r.asked = x.asked
    /\ r.ses.mem = x.ses.mem /\ r.ses.lookupState = x.ses.lookupState
    /\ r.ses.queryStarter = x.ses.queryStarter /\ r.ses.inCb = x.ses.inCb
    /\ r.ses.needDestroy = x.ses.needDestroy
    /\ x.ares.query # "pending" => r.ses.aresHostCbWasCalled = x.ses.aresHostCbWasCalled

(* A host callback that may not call the user.                             *)
LEMMA Unheard ==
    ASSUME NEW x, Freeable(x), x.ares.query = "pending"
    PROVE  LET r == HostCallback(x)
           IN  /\ KeepsSession(x, r) /\ r.w = x.w /\ r.ares.socks = x.ares.socks
               /\ r.ses.chan = x.ses.chan /\ r.ses.watch = x.ses.watch
<1> DEFINE r == HostCallback(x)
           s == [x.ses EXCEPT !.aresHostCbWasCalled = TRUE]
           a == [x.ares EXCEPT !.query = "done"]
<1>1. x \in Records /\ x.ses \in Sessions /\ x.ares \in AresChannels /\ Asks(x.w, x.ares.socks)
  BY WorldIs DEF Freeable, Worlds
<1>2. /\ FaultIf(~x.ses.mem, x, "host callback after free") = x
      /\ FaultIf(x.ses.aresHostCbWasCalled, x, "host callback called twice") = x
  BY DEF Freeable, FaultIf
<1>3. r = TakeAnswer(x)
  BY <1>2 DEF HostCallback
<1>4. r = [x EXCEPT !.ses = s, !.ares = a]
  BY <1>3 DEF Freeable, TakeAnswer
<1>5. /\ s \in Sessions /\ s.mem = x.ses.mem /\ s.lookupState = x.ses.lookupState
      /\ s.queryStarter = x.ses.queryStarter /\ s.inCb = x.ses.inCb
      /\ s.needDestroy = x.ses.needDestroy /\ s.chan = x.ses.chan /\ s.watch = x.ses.watch
  BY <1>1 DEF Sessions
<1>6. a \in AresChannels /\ a.socks = x.ares.socks
  BY <1>1 DEF AresChannels
<1> HIDE DEF r, s, a
<1>7. /\ r \in Records /\ r.ses = s /\ r.ares = a /\ r.w = x.w /\ r.starter = x.starter
      /\ r.told = x.told /\ r.asked = x.asked
  BY <1>1, <1>4, <1>5, <1>6 DEF Records
<1>8. r \in Worlds
  <2>1. Asks(r.w, r.ares.socks)
    BY <1>1, <1>6, <1>7
  <2> QED
    BY <1>7, <2>1 DEF Worlds
<1>9. KeepsSession(x, r)
  BY <1>5, <1>7, <1>8 DEF KeepsSession
<1>10. /\ KeepsSession(x, r) /\ r.w = x.w /\ r.ares.socks = x.ares.socks
       /\ r.ses.chan = x.ses.chan /\ r.ses.watch = x.ses.watch
  BY <1>5, <1>6, <1>7, <1>9
<1> QED
  BY <1>10 DEF r

(* ares_destroy                                                            *)
LEMMA DestroysAres ==
    ASSUME NEW x, Freeable(x), x.ses.chan
    PROVE  LET r == AresDestroy(x)
           IN  /\ KeepsSession(x, r) /\ r.ares = NoAres /\ SameTimer(r.w, x.w)
               /\ r.ses.chan = x.ses.chan /\ r.ses.watch = x.ses.watch
<1> DEFINE r == AresDestroy(x)
           y == IF x.ares.query = "pending" THEN HostCallback(x) ELSE x
           z == CloseSocks(y)
<1>1. /\ KeepsSession(x, y) /\ y.w = x.w /\ y.ares.socks = x.ares.socks
      /\ y.ses.chan = x.ses.chan /\ y.ses.watch = x.ses.watch
  <2>1. CASE x.ares.query = "pending"
    BY <2>1, Unheard
  <2>2. CASE x.ares.query # "pending"
    BY <2>2 DEF Freeable, KeepsSession
  <2> QED
    BY <2>1, <2>2
<1>2. r = [z EXCEPT !.ares = NoAres]
  BY DEF AresDestroy
<1>3. x.ses.mem /\ x.ses.watch
  BY DEF Freeable
<1> HIDE DEF r, y, z
<1>4. OnlySocks(y, z) /\ z.ares.socks = NoDescriptors
  BY <1>1, <1>3, CloseKeeps DEF KeepsSession, z
<1>5. z \in Records /\ Asks(z.w, NoDescriptors)
  BY <1>4, WorldIs DEF OnlySocks, Worlds
<1>6. NoAres \in AresChannels /\ NoAres.socks = NoDescriptors
  <2>1. NoDescriptors \in Sockets
    <3>1. z.ares \in AresChannels
      BY <1>5 DEF Records
    <3> QED
      BY <1>4, <3>1 DEF AresChannels
  <2>2. 0 \in 0 .. AresTries /\ 0 \in 0 .. AresTimeout
    BY AresAssumption
  <2> QED
    BY <2>1, <2>2 DEF NoAres, AresChannels
<1>7. /\ r \in Records /\ r.ses = z.ses /\ r.w = z.w /\ r.ares = NoAres
      /\ r.starter = z.starter /\ r.told = z.told /\ r.asked = z.asked
  BY <1>2, <1>5, <1>6 DEF Records
<1>8. r \in Worlds
  <2>1. Asks(r.w, r.ares.socks)
    BY <1>5, <1>6, <1>7
  <2> QED
    BY <1>7, <2>1 DEF Worlds
<1>9. z.ses = y.ses /\ z.starter = y.starter /\ z.told = y.told /\ z.asked = y.asked
      /\ SameTimer(z.w, y.w)
  BY <1>4 DEF OnlySocks
<1>10. KeepsSession(x, r)
  BY <1>1, <1>7, <1>8, <1>9 DEF KeepsSession
<1>11. /\ KeepsSession(x, r) /\ r.ares = NoAres /\ SameTimer(r.w, x.w)
       /\ r.ses.chan = x.ses.chan /\ r.ses.watch = x.ses.watch
  BY <1>1, <1>7, <1>9, <1>10
<1> QED
  BY <1>11 DEF r

(* psl_host_lookup_free_ares_and_multi_fd_watch                            *)
Freed(x, r) ==
    /\ KeepsSession(x, r) /\ ~r.ses.chan /\ ~r.ses.watch
    /\ r.ares = NoAres /\ ~r.w.attached /\ r.w.timeoutMillisec = INFINITE_MSEC

LEMMA FreesChannel ==
    ASSUME NEW x, Freeable(x)
    PROVE  LET r == IF x.ses.chan THEN [AresDestroy(x) EXCEPT !.ses.chan = FALSE] ELSE x
           IN  /\ KeepsSession(x, r) /\ ~r.ses.chan /\ r.ses.watch = x.ses.watch
               /\ r.ares = NoAres /\ SameTimer(r.w, x.w)
<1>1. CASE ~x.ses.chan
  <2>1. x.ares = NoAres /\ x \in Worlds
    BY <1>1 DEF Freeable
  <2> QED
    BY <1>1, <2>1 DEF KeepsSession, SameTimer
<1>2. CASE x.ses.chan
  <2> DEFINE d == AresDestroy(x)
             s == [d.ses EXCEPT !.chan = FALSE]
             r == [d EXCEPT !.ses = s]
  <2>1. /\ KeepsSession(x, d) /\ d.ares = NoAres /\ SameTimer(d.w, x.w)
        /\ d.ses.watch = x.ses.watch
    BY <1>2, DestroysAres
  <2>2. d \in Records /\ d.ses \in Sessions /\ Asks(d.w, d.ares.socks)
    BY <2>1, WorldIs DEF KeepsSession, Worlds
  <2> HIDE DEF d
  <2>3. /\ s \in Sessions /\ ~s.chan /\ s.mem = d.ses.mem
        /\ s.lookupState = d.ses.lookupState /\ s.queryStarter = d.ses.queryStarter
        /\ s.inCb = d.ses.inCb /\ s.needDestroy = d.ses.needDestroy
        /\ s.watch = d.ses.watch /\ s.aresHostCbWasCalled = d.ses.aresHostCbWasCalled
    BY <2>2 DEF Sessions
  <2> HIDE DEF s
  <2>4. /\ r \in Records /\ r.ses = s /\ r.w = d.w /\ r.ares = d.ares
        /\ r.starter = d.starter /\ r.told = d.told /\ r.asked = d.asked
    BY <2>2, <2>3 DEF Records
  <2> HIDE DEF r
  <2>5. r \in Worlds
    <3>1. Asks(r.w, r.ares.socks)
      BY <2>2, <2>4
    <3> QED
      BY <2>4, <3>1 DEF Worlds
  <2>6. KeepsSession(x, r)
    BY <2>1, <2>3, <2>4, <2>5 DEF KeepsSession
  <2>7. /\ KeepsSession(x, r) /\ ~r.ses.chan /\ r.ses.watch = x.ses.watch
        /\ r.ares = NoAres /\ SameTimer(r.w, x.w)
    BY <2>1, <2>3, <2>4, <2>6
  <2>8. r = IF x.ses.chan THEN [AresDestroy(x) EXCEPT !.ses.chan = FALSE] ELSE x
    BY <1>2 DEF r, s, d
  <2> QED
    BY <2>7, <2>8
<1> QED
  BY <1>1, <1>2

LEMMA Frees ==
    ASSUME NEW x, Freeable(x)
    PROVE  Freed(x, FreeAresAndMultiFdWatch(x))
<1> DEFINE c == IF x.ses.chan THEN [AresDestroy(x) EXCEPT !.ses.chan = FALSE] ELSE x
<1>1. /\ KeepsSession(x, c) /\ ~c.ses.chan /\ c.ses.watch = x.ses.watch
      /\ c.ares = NoAres /\ SameTimer(c.w, x.w)
  BY FreesChannel
<1>2. FreeAresAndMultiFdWatch(x) = FreeWatch(c)
  BY DEF FreeAresAndMultiFdWatch
<1> HIDE DEF c
<1>3. CASE ~x.ses.watch
  <2>1. FreeWatch(c) = c
    BY <1>1, <1>3 DEF FreeWatch
  <2>2. ~x.w.attached /\ x.w.timeoutMillisec = INFINITE_MSEC
    BY <1>3 DEF Freeable
  <2> QED
    BY <1>1, <1>2, <1>3, <2>1, <2>2 DEF Freed, SameTimer
<1>4. CASE x.ses.watch
  <2> DEFINE w == [ResetWatch(c.w) EXCEPT !.attached = FALSE]
             s == [c.ses EXCEPT !.watch = FALSE]
             r == [c EXCEPT !.w = w, !.ses = s]
  <2>1. c \in Records /\ c.ses \in Sessions /\ c.w \in SoundWatches
    BY <1>1, WorldIs DEF KeepsSession, Worlds
  <2>2. w \in SoundWatches /\ Known(w) = {} /\ ~w.attached /\ w.timeoutMillisec = INFINITE_MSEC
    BY <2>1, Resets
  <2>3. FreeWatch(c) = r
    <3>1. [c EXCEPT !.w = w].ses = c.ses
      BY <2>1 DEF Records
    <3> HIDE DEF w
    <3>2. FreeWatch(c) = [[c EXCEPT !.w = w] EXCEPT !.ses.watch = FALSE]
      BY <1>1, <1>4 DEF FreeWatch, w
    <3> QED
      BY <3>1, <3>2
  <2> HIDE DEF w
  <2>4. /\ s \in Sessions /\ ~s.watch /\ s.mem = c.ses.mem
        /\ s.lookupState = c.ses.lookupState /\ s.queryStarter = c.ses.queryStarter
        /\ s.inCb = c.ses.inCb /\ s.needDestroy = c.ses.needDestroy
        /\ s.chan = c.ses.chan /\ s.aresHostCbWasCalled = c.ses.aresHostCbWasCalled
    BY <2>1 DEF Sessions
  <2> HIDE DEF s
  <2>5. /\ r \in Records /\ r.ses = s /\ r.w = w /\ r.ares = c.ares
        /\ r.starter = c.starter /\ r.told = c.told /\ r.asked = c.asked
    BY <2>1, <2>2, <2>4 DEF Records
  <2> HIDE DEF r
  <2>6. r \in Worlds
    <3>1. Asks(r.w, r.ares.socks)
      BY <1>1, <2>2, <2>5 DEF Asks, NoAres, NoDescriptors
    <3> QED
      BY <2>5, <3>1 DEF Worlds
  <2>7. KeepsSession(x, r)
    BY <1>1, <2>4, <2>5, <2>6 DEF KeepsSession
  <2> QED
    BY <1>1, <1>2, <2>2, <2>3, <2>4, <2>5, <2>7 DEF Freed
<1> QED
  BY <1>3, <1>4

(* psl_host_lookup_destroy_internal, whatever the session had by then.     *)
Destructible(x) ==
    /\ x \in Worlds /\ x.ses.mem
    /\ x.ses.chan => x.ses.watch
    /\ ~x.ses.chan => x.ares = NoAres
    /\ ~x.ses.watch => ~x.w.attached /\ x.w.timeoutMillisec = INFINITE_MSEC
    /\ x.ares.query = "pending" => ~x.ses.aresHostCbWasCalled
    /\ x.ses.queryStarter => x.starter = IdleSource

Destroyed(x, r) ==
    /\ r \in Worlds /\ r.ses = NoSession /\ r.told = x.told /\ r.asked = x.asked
    /\ r.starter = IF x.ses.queryStarter THEN NoStarter ELSE x.starter
    /\ r.ares = NoAres /\ ~r.w.attached /\ r.w.timeoutMillisec = INFINITE_MSEC

(* The idle source, step by step.                                          *)
Source(b, n) == [attached |-> b, refs |-> n]
Attached(n)  == Source(TRUE, n)
Detached(n)  == Source(FALSE, n)

LEMMA SourceRefs ==
    ASSUME NEW st, NEW b \in BOOLEAN, NEW n \in Nat, st = Source(b, n), NEW m \in Nat
    PROVE  st.refs = n /\ [st EXCEPT !.refs = m] = Source(b, m)
<1>1. st \in [attached : BOOLEAN, refs : Nat] /\ st.attached = b
  BY DEF Source
<1> QED
  BY <1>1 DEF Source

LEMMA SourceAttached ==
    ASSUME NEW st, NEW b \in BOOLEAN, NEW n \in Nat, st = Source(b, n), NEW c \in BOOLEAN
    PROVE  st.attached = b /\ [st EXCEPT !.attached = c] = Source(c, n)
<1>1. st \in [attached : BOOLEAN, refs : Nat] /\ st.refs = n
  BY DEF Source
<1> QED
  BY <1>1 DEF Source

(* The references of an attached one, and of a detached one;               *)
LEMMA RefsOf ==
    ASSUME NEW st, NEW n \in Nat, NEW m \in Nat
    PROVE  /\ st = Attached(n) => st.refs = n /\ [st EXCEPT !.refs = m] = Attached(m)
           /\ st = Detached(n) => st.refs = n /\ [st EXCEPT !.refs = m] = Detached(m)
<1>1. TRUE \in BOOLEAN /\ FALSE \in BOOLEAN
  OBVIOUS
<1> QED
  BY <1>1, SourceRefs, Zenon DEF Attached, Detached

(* and an attached one that is detached.                                   *)
LEMMA Detaches ==
    ASSUME NEW st, NEW n \in Nat, st = Attached(n)
    PROVE  st.attached /\ [st EXCEPT !.attached = FALSE] = Detached(n)
<1>1. TRUE \in BOOLEAN /\ FALSE \in BOOLEAN
  OBVIOUS
<1> QED
  BY <1>1, SourceAttached, Zenon DEF Attached, Detached

(* A world with another idle source.                                       *)
WithStarter(x, st) == [x EXCEPT !.starter = st]

LEMMA WithStarterIs ==
    ASSUME NEW x \in Records, NEW st
    PROVE  /\ WithStarter(x, st).starter = st
           /\ \A su : WithStarter(WithStarter(x, st), su) = WithStarter(x, su)
  BY DEF WithStarter, Records

(* One reference less.                                                     *)
LEMMA UnrefIs ==
    ASSUME NEW x, NEW n \in Nat, n > 0, NEW m \in Nat, m = n - 1
    PROVE  /\ x.starter = Attached(n) => UnrefStarter(x) = WithStarter(x, Attached(m))
           /\ x.starter = Detached(n) => UnrefStarter(x) = WithStarter(x, Detached(m))
<1>1. ASSUME NEW after, x.starter.refs = n, [x.starter EXCEPT !.refs = m] = after
      PROVE  UnrefStarter(x) = WithStarter(x, after)
  <2>1. x.starter.refs # 0 /\ x.starter.refs - 1 = m
    BY <1>1
  <2>2. UnrefStarter(x) = [x EXCEPT !.starter = [x.starter EXCEPT !.refs = m]]
    BY <2>1 DEF UnrefStarter
  <2> QED
    BY <1>1, <2>2 DEF WithStarter
<1> QED
  BY <1>1, RefsOf

(* An attached source that is destroyed is detached, and loses a reference.*)
LEMMA DestroyStarterIs ==
    ASSUME NEW x \in Records, NEW n \in Nat, n > 0, NEW m \in Nat, m = n - 1,
           x.starter = Attached(n)
    PROVE  DestroyStarter(x) = WithStarter(x, Detached(m))
<1>1. /\ x.starter.refs = n /\ x.starter.attached
      /\ [x.starter EXCEPT !.attached = FALSE] = Detached(n)
  BY RefsOf, Detaches
<1>2. x.starter.refs # 0
  BY <1>1
<1>3. FaultIf(x.starter.refs = 0, x, "starter used after free") = x
  BY <1>2 DEF FaultIf
<1> DEFINE y == WithStarter(x, Detached(n))
<1>4. DestroyStarter(x) = UnrefStarter(y)
  BY <1>1, <1>3 DEF DestroyStarter, WithStarter
<1>5. y.starter = Detached(n) /\ WithStarter(y, Detached(m)) = WithStarter(x, Detached(m))
  BY WithStarterIs
<1> HIDE DEF y
<1>6. UnrefStarter(y) = WithStarter(y, Detached(m))
  BY <1>5, UnrefIs
<1> QED
  BY <1>4, <1>5, <1>6

(* Destroying it and letting it go leaves nothing of it.                   *)
LEMMA DropsStarter ==
    ASSUME NEW x \in Records, x.starter = IdleSource
    PROVE  UnrefStarter(DestroyStarter(x)) = WithStarter(x, NoStarter)
<1> DEFINE z == WithStarter(x, Detached(1))
<1>1. x.starter = Attached(2) /\ NoStarter = Detached(0)
  BY DEF IdleSource, Source, NoStarter, Attached, Detached
<1>2. DestroyStarter(x) = z
  BY <1>1, DestroyStarterIs
<1>3. z.starter = Detached(1) /\ WithStarter(z, Detached(0)) = WithStarter(x, Detached(0))
  BY WithStarterIs
<1> HIDE DEF z
<1>4. UnrefStarter(z) = WithStarter(z, Detached(0))
  BY <1>3, UnrefIs
<1> QED
  BY <1>1, <1>2, <1>3, <1>4

LEMMA Destroys ==
    ASSUME NEW x, Destructible(x)
    PROVE  Destroyed(x, DestroyInternal(x))
<1> DEFINE s == [x.ses EXCEPT !.lookupState = "destroying"]
           d == [x EXCEPT !.ses = s]
           y == FreeAresAndMultiFdWatch(d)
           z == IF y.ses.queryStarter THEN UnrefStarter(DestroyStarter(y)) ELSE y
           r == [z EXCEPT !.ses = NoSession]
<1>1. x \in Records /\ x.ses \in Sessions /\ Asks(x.w, x.ares.socks)
  BY WorldIs DEF Destructible, Worlds
<1>2. /\ s \in Sessions /\ s.lookupState = "destroying" /\ s.mem = x.ses.mem
      /\ s.queryStarter = x.ses.queryStarter /\ s.chan = x.ses.chan /\ s.watch = x.ses.watch
      /\ s.aresHostCbWasCalled = x.ses.aresHostCbWasCalled
  BY <1>1 DEF Sessions, LookupStates
<1>3. DestroyInternal(x) = r
  BY DEF DestroyInternal
<1> HIDE DEF s
<1>4. /\ d \in Records /\ d.ses = s /\ d.w = x.w /\ d.ares = x.ares /\ d.starter = x.starter
      /\ d.told = x.told /\ d.asked = x.asked
  BY <1>1, <1>2 DEF Records
<1> HIDE DEF d
<1>5. d \in Worlds
  <2>1. Asks(d.w, d.ares.socks)
    BY <1>1, <1>4
  <2> QED
    BY <1>4, <2>1 DEF Worlds
<1>6. Freeable(d)
  BY <1>2, <1>4, <1>5 DEF Destructible, Freeable, CallbackAllowed
<1>7. Freed(d, y)
  BY <1>6, Frees
<1> HIDE DEF y
<1>8. /\ y \in Worlds /\ y.starter = x.starter /\ y.told = x.told /\ y.asked = x.asked
      /\ y.ses.queryStarter = x.ses.queryStarter
      /\ y.ares = NoAres /\ ~y.w.attached /\ y.w.timeoutMillisec = INFINITE_MSEC
  BY <1>2, <1>4, <1>7 DEF Freed, KeepsSession
<1>9. y \in Records /\ Asks(y.w, y.ares.socks) /\ y.starter \in Starters
  BY <1>8, WorldIs DEF Worlds
<1> DEFINE st == IF x.ses.queryStarter THEN NoStarter ELSE x.starter
<1>10. z = WithStarter(y, st)
  <2>1. CASE x.ses.queryStarter
    <3>1. x.starter = IdleSource
      BY <2>1 DEF Destructible
    <3>2. z = WithStarter(y, NoStarter)
      BY <1>8, <1>9, <2>1, <3>1, DropsStarter
    <3> QED
      BY <2>1, <3>2
  <2>2. CASE ~x.ses.queryStarter
    <3>1. z = y
      BY <1>8, <2>2
    <3>2. y = WithStarter(y, y.starter)
      BY <1>9 DEF WithStarter, Records
    <3> QED
      BY <1>8, <2>2, <3>1, <3>2
  <2> QED
    BY <2>1, <2>2
<1>11. st \in Starters
  <2>1. NoStarter \in Starters
    BY DEF NoStarter, Starters
  <2> QED
    BY <1>8, <1>9, <2>1
<1>12. NoSession \in Sessions
  BY DEF NoSession, Sessions, LookupStates
<1> HIDE DEF z, st
<1>13. /\ z \in Records /\ z.w = y.w /\ z.ares = y.ares /\ z.starter = st
       /\ z.told = y.told /\ z.asked = y.asked
  BY <1>9, <1>10, <1>11 DEF WithStarter, Records
<1>14. /\ r \in Records /\ r.ses = NoSession /\ r.w = y.w /\ r.ares = y.ares /\ r.starter = st
       /\ r.told = y.told /\ r.asked = y.asked
  BY <1>12, <1>13 DEF Records
<1> HIDE DEF r
<1>15. r \in Worlds
  <2>1. Asks(r.w, r.ares.socks)
    BY <1>9, <1>14
  <2> QED
    BY <1>14, <2>1 DEF Worlds
<1>16. Destroyed(x, r)
  BY <1>8, <1>14, <1>15 DEF Destroyed, st
<1> QED
  BY <1>3, <1>16

(* A session that is gone is quiet.                                        *)
LEMMA GoneIsQuiet ==
    ASSUME NEW x, NEW r, Destroyed(x, r)
    PROVE  Quiet(r)
<1>1. r.ses = NoSession /\ r.ares = NoAres /\ ~r.w.attached
      /\ r.w.timeoutMillisec = INFINITE_MSEC
  BY DEF Destroyed
<1>2. /\ ~r.ses.mem /\ r.ses.lookupState = "none" /\ ~r.ses.chan /\ ~r.ses.watch
      /\ ~r.ses.queryStarter /\ r.ses.inCb = 0 /\ ~r.ses.needDestroy
      /\ ~r.ses.aresHostCbWasCalled /\ r.ses.watch = r.ses.chan /\ r.ares.query = "none"
  BY <1>1 DEF NoSession, NoAres
<1>3. r.w.attached = r.ses.chan
  <2>1. r.w \in SoundWatches
    BY WorldIs DEF Destroyed
  <2>2. r.w.attached = FALSE /\ r.ses.chan = FALSE
    BY <1>1, <2>1, WatchIs DEF NoSession
  <2> QED
    BY <2>2
<1> QED
  BY <1>1, <1>2, <1>3 DEF Quiet, NoneOK, ChannelOK, TimerOK, StateOK

-----------------------------------------------------------------------------
(* What follows a call of c-ares.                                          *)

(* psl_time_convert_timespec_to_millisec                                   *)
LEMMA Rounds ==
    ASSUME NEW ticks \in Nat
    PROVE  /\ Millis(ticks) \in Nat /\ ticks <= Millis(ticks) * TicksPerMilli
           /\ Millis(ticks) * TicksPerMilli < ticks + TicksPerMilli
<1> DEFINE n == ticks + TicksPerMilli - 1
           q == n \div TicksPerMilli
<1>1. TicksPerMilli \in Nat /\ TicksPerMilli > 0
  BY TicksPerMilliAssumption
<1>2. n \in Nat
  BY <1>1
<1>3. q \in Nat /\ q * TicksPerMilli <= n /\ n < q * TicksPerMilli + TicksPerMilli
  <2> HIDE DEF n
  <2> QED
    BY <1>1, <1>2
<1>4. Millis(ticks) = q
  BY DEF Millis
<1> HIDE DEF q
<1>5. q * TicksPerMilli \in Int
  BY <1>1, <1>3
<1> DEFINE p == q * TicksPerMilli
<1>6. p <= n /\ n < p + TicksPerMilli /\ p \in Int
  BY <1>3, <1>5
<1> HIDE DEF p
<1>7. ticks <= p /\ p < ticks + TicksPerMilli
  BY <1>1, <1>6
<1> QED
  BY <1>3, <1>4, <1>7 DEF p

(* psl_host_lookup_update_fd_watch_timeout, of a query that is out.        *)
LEMMA UpdatesTimeout ==
    ASSUME NEW x, Waiting(x)
    PROVE  LET r == UpdateFdWatchTimeout(x)
           IN  /\ r \in Worlds /\ Quiet(r) /\ r.starter = x.starter /\ ~r.ses.queryStarter
               /\ r.ses.lookupState = "running" /\ ~r.asked /\ r.told = x.told
<1> DEFINE n == Millis(x.ares.due)
           w == SetPollTimeout(x.w, n)
           r == UpdateFdWatchTimeout(x)
<1>1. /\ x \in Records /\ x.ses \in Sessions /\ x.ares \in AresChannels
      /\ x.w \in SoundWatches /\ Asks(x.w, x.ares.socks) /\ x.ares.query = "pending"
  BY WorldIs DEF Waiting, Asking, Live, Worlds
<1>2. x.ares.due \in Nat
  BY <1>1, AresAssumption DEF AresChannels
<1>3. n \in Nat /\ x.ares.due <= n * TicksPerMilli
  BY <1>2, Rounds
<1>4. n \in Timeouts /\ n # INFINITE_MSEC
  BY <1>3 DEF Timeouts, INFINITE_MSEC
<1>5. r = [x EXCEPT !.w = w]
  BY <1>1 DEF UpdateFdWatchTimeout, TvToMillisec
<1> HIDE DEF n
<1>6. /\ w \in SoundWatches /\ Known(w) = Known(x.w) /\ w.descTable = x.w.descTable
      /\ w.attached = x.w.attached /\ w.restartTimer /\ w.timeoutMillisec = n
  BY <1>1, <1>4, SetsTimer
<1> HIDE DEF w, r
<1>7. /\ r \in Records /\ r.ses = x.ses /\ r.w = w /\ r.ares = x.ares
      /\ r.starter = x.starter /\ r.told = x.told /\ r.asked = x.asked
  BY <1>1, <1>5, <1>6 DEF Records
<1>8. r \in Worlds
  <2>1. Asks(r.w, r.ares.socks)
    BY <1>1, <1>6, <1>7 DEF Asks
  <2> QED
    BY <1>7, <2>1 DEF Worlds
<1>9. /\ x.ses.mem /\ x.ses.chan /\ x.ses.watch /\ x.w.attached /\ ~x.ses.queryStarter
      /\ x.ses.inCb = 0 /\ x.ses.lookupState = "running" /\ ~x.ses.needDestroy
      /\ ~x.ses.aresHostCbWasCalled /\ ~x.asked
  BY DEF Waiting, Asking, Live
<1>10. x.ses.watch = x.ses.chan /\ x.w.attached = x.ses.chan
  <2>1. x.ses.chan = TRUE /\ x.ses.watch = TRUE /\ x.w.attached = TRUE
    BY <1>1, <1>9, WatchIs DEF Sessions
  <2> QED
    BY <2>1
<1>11. ChannelOK(r)
  BY <1>1, <1>4, <1>6, <1>7, <1>9, <1>10 DEF ChannelOK
<1>12. TimerOK(r)
  BY <1>3, <1>6, <1>7 DEF TimerOK
<1>13. NoneOK(r) /\ StateOK(r)
  BY <1>1, <1>7, <1>9 DEF NoneOK, StateOK
<1>14. Quiet(r)
  BY <1>7, <1>9, <1>11, <1>12, <1>13 DEF Quiet
<1> QED
  BY <1>7, <1>8, <1>9, <1>14 DEF r

(* What the user sees after a call, who had n answers before it.           *)
Seen(state, gone, n, now) ==
    \/ state = "running" /\ ~gone /\ now = n
    \/ (gone \/ state = "finished") /\ now = OneMore(n)

LEMMA Settles ==
    ASSUME NEW x, NEW n, Going(x, n)
    PROVE  LET r == AfterAres(x)
           IN  /\ r \in Worlds /\ Quiet(r) /\ r.starter = x.starter /\ ~r.ses.queryStarter
               /\ Seen(r.ses.lookupState, r.asked, n, r.told)
<1>1. CASE Waiting(x) /\ x.told = n
  <2>1. AfterAres(x) = UpdateFdWatchTimeout(x)
    BY <1>1 DEF Waiting, Asking, AfterAres
  <2> QED
    BY <1>1, <2>1, UpdatesTimeout DEF Seen
<1>2. CASE Over(x) /\ x.told = OneMore(n)
  <2>1. /\ x \in Worlds /\ x.ses.mem /\ x.ses.chan /\ x.ses.watch /\ x.w.attached
        /\ ~x.ses.queryStarter /\ x.ses.inCb = 0 /\ x.ses.lookupState = "finished"
        /\ x.ares.query = "done" /\ x.ses.aresHostCbWasCalled
        /\ x.ses.needDestroy = x.asked
    BY <1>2 DEF Over, Live
  <2>2. CASE x.ses.needDestroy
    <3>1. FaultIf(~x.ses.mem, x, "session destroyed after free") = x
      BY <2>1 DEF FaultIf
    <3>2. ~(x.ses.inCb > 0)
      BY <2>1
    <3>3. AfterAres(x) = DestroyInternal(x)
      BY <2>2, <3>1, <3>2 DEF AfterAres, Destroy
    <3>4. Destructible(x)
      BY <2>1 DEF Destructible
    <3>5. Destroyed(x, DestroyInternal(x))
      BY <3>4, Destroys
    <3> QED
      <4> DEFINE r == DestroyInternal(x)
      <4>1. /\ r \in Worlds /\ r.starter = x.starter /\ r.ses = NoSession
            /\ r.told = x.told /\ r.asked = x.asked /\ Quiet(r)
        BY <2>1, <3>5, GoneIsQuiet DEF Destroyed
      <4> HIDE DEF r
      <4>2. ~r.ses.queryStarter
        BY <4>1 DEF NoSession
      <4>3. Seen(r.ses.lookupState, r.asked, n, r.told)
        BY <1>2, <2>1, <2>2, <4>1 DEF Seen
      <4> QED
        BY <3>3, <4>1, <4>2, <4>3 DEF r
  <2>3. CASE ~x.ses.needDestroy
    <3> DEFINE r == FreeAresAndMultiFdWatch(x)
    <3>1. AfterAres(x) = r
      BY <2>1, <2>3 DEF AfterAres
    <3>2. Freeable(x)
      BY <2>1 DEF Freeable
    <3>3. Freed(x, r)
      BY <3>2, Frees
    <3> HIDE DEF r
    <3>4. /\ r \in Worlds /\ r.starter = x.starter /\ r.told = x.told /\ r.asked = x.asked
          /\ r.ses.mem /\ r.ses.lookupState = "finished" /\ ~r.ses.queryStarter
          /\ r.ses.inCb = 0 /\ ~r.ses.needDestroy /\ r.ses.aresHostCbWasCalled
          /\ ~r.ses.chan /\ ~r.ses.watch
          /\ r.ares = NoAres /\ ~r.w.attached /\ r.w.timeoutMillisec = INFINITE_MSEC
      BY <2>1, <2>3, <3>3 DEF Freed, KeepsSession
    <3>5. ~r.asked
      BY <2>1, <2>3, <3>4
    <3>6. r.ares.query = "none"
      BY <3>4 DEF NoAres
    <3>7. r.ses.watch = r.ses.chan /\ r.w.attached = r.ses.chan
      <4>1. r.ses \in Sessions /\ r.w \in SoundWatches
        BY <3>4, WorldIs
      <4>2. r.ses.watch = FALSE /\ r.ses.chan = FALSE /\ r.w.attached = FALSE
        BY <3>4, <4>1, WatchIs DEF Sessions
      <4> QED
        BY <4>2
    <3>8. ChannelOK(r) /\ TimerOK(r)
      BY <3>4, <3>6, <3>7 DEF ChannelOK, TimerOK
    <3>9. NoneOK(r) /\ StateOK(r)
      BY <3>4, <3>6 DEF NoneOK, StateOK
    <3>10. Quiet(r)
      BY <3>4, <3>5, <3>8, <3>9 DEF Quiet
    <3> QED
      BY <1>2, <3>1, <3>4, <3>10 DEF Seen
  <2> QED
    BY <2>2, <2>3
<1> QED
  BY <1>1, <1>2 DEF Going

-----------------------------------------------------------------------------
(* The steps.                                                              *)

(* What the state is, of which World is the record.                        *)
LEMMA StateIs ==
    ASSUME LookupInv
    PROVE  /\ World \in Worlds /\ Quiet(World) /\ StarterOK(World) /\ LoopOK
           /\ World.ses = ses /\ World.w = watch /\ World.starter = starter
           /\ World.ares = ares /\ World.told = told /\ World.asked = asked
           /\ World.fault = fault
           /\ ses \in Sessions /\ watch \in SoundWatches /\ starter \in Starters
           /\ ares \in AresChannels /\ told \in Nat /\ asked \in BOOLEAN /\ fault = ""
           /\ Asks(watch, ares.socks)
<1>1. /\ World.ses = ses /\ World.w = watch /\ World.starter = starter
      /\ World.ares = ares /\ World.told = told /\ World.asked = asked
      /\ World.fault = fault
  BY DEF World
<1>2. World \in Worlds /\ Quiet(World) /\ StarterOK(World) /\ LoopOK
  BY DEF LookupInv
<1> QED
  BY <1>1, <1>2, WorldIs

(* A step that leads to a quiet world.                                     *)
LEMMA BecomesQuiet ==
    ASSUME NEW x, x \in Worlds, Quiet(x), StarterOK(x), Becomes(x), LoopOK'
    PROVE  LookupInv'
<1>1. x = [ses |-> x.ses, w |-> x.w, starter |-> x.starter, ares |-> x.ares,
           told |-> x.told, asked |-> x.asked, fault |-> x.fault]
  BY WorldIs
<1>2. World' = x
  BY <1>1 DEF World, Becomes
<1> QED
  BY <1>2 DEF LookupInv

(* A dispatch that leaves the watch not ready, or a session that does not  *)
(* have one, has nothing to say of the loop.                               *)
LEMMA NotReady ==
    ASSUME loop' \in [phase : {"poll", "dispatch"}, ready : SUBSET {"watch", "starter"},
                      sleep : Timeouts],
           loop'.phase = "dispatch",
           "watch" \in loop'.ready => asked' \/ ses'.lookupState = "finished"
    PROVE  LoopOK'
  BY DEF LoopOK, PollOK, ReadyOK

(* The session of a state is what its lookup state tells.                  *)
LEMMA SessionIs ==
    ASSUME LookupInv
    PROVE  /\ ses.lookupState = "none" <=> ~ses.mem
           /\ ses.mem => ~asked /\ ~ses.needDestroy
           /\ ~ses.mem => ses = NoSession
           /\ ses.inCb = 0
           /\ ses.watch = ses.chan /\ watch.attached = ses.chan
           /\ ses.chan <=> ses.lookupState \in {"initialized", "running"}
           /\ ses.queryStarter => ses.lookupState = "running"
           /\ ares.query = "pending" <=> ses.lookupState = "running" /\ ~ses.queryStarter
           /\ ares.query # "pending" => ares = NoAres
           /\ ares.query = "pending" <=> watch.timeoutMillisec # INFINITE_MSEC
           /\ ses.aresHostCbWasCalled <=> ses.lookupState = "finished"
           /\ starter = IF ses.queryStarter THEN IdleSource ELSE NoStarter
           /\ "watch" \in loop.ready =>
                \/ asked \/ ses.lookupState = "finished" \/ ares.query = "pending"
<1>1. /\ NoneOK(World) /\ ChannelOK(World) /\ StateOK(World) /\ StarterOK(World) /\ ReadyOK
      /\ World.ses.inCb = 0 /\ ~World.ses.needDestroy /\ (World.asked => ~World.ses.mem)
  BY StateIs DEF Quiet, LoopOK
<1>2. World.ses = ses /\ World.w = watch /\ World.starter = starter /\ World.ares = ares
      /\ World.asked = asked
  BY StateIs
<1>3. /\ ~ses.mem => ses = NoSession
      /\ ses.watch = ses.chan /\ watch.attached = ses.chan
      /\ ares.query # "pending" => ares = NoAres
      /\ ares.query = "pending" <=> watch.timeoutMillisec # INFINITE_MSEC
      /\ ses.mem => ses.lookupState \in {"initialized", "running", "finished"}
      /\ ses.mem => (ses.chan <=> ses.lookupState # "finished")
      /\ ses.aresHostCbWasCalled <=> ses.lookupState = "finished"
      /\ ses.queryStarter => ses.lookupState = "running"
      /\ ares.query = "pending" <=> ses.lookupState = "running" /\ ~ses.queryStarter
      /\ starter = IF ses.queryStarter THEN IdleSource ELSE NoStarter
      /\ ses.inCb = 0 /\ ~ses.needDestroy /\ (asked => ~ses.mem)
  BY <1>1, <1>2 DEF NoneOK, ChannelOK, StateOK, StarterOK
<1>4. ~ses.mem => ses.lookupState = "none" /\ ~ses.chan
  BY <1>3 DEF NoSession
<1>5. ses.chan <=> ses.lookupState \in {"initialized", "running"}
  BY <1>3, <1>4
<1>6. "watch" \in loop.ready =>
        \/ asked \/ ses.lookupState = "finished" \/ ares.query = "pending"
  BY <1>1 DEF ReadyOK
<1> QED
  BY <1>3, <1>4, <1>5, <1>6

(* PmSockHostLookupNew, step by step.                                      *)
LEMMA MakesSession ==
    ASSUME NEW x \in Worlds
    PROVE  LET y == MakeSession(x)
           IN  /\ y \in Worlds /\ y.w = x.w /\ y.ares = x.ares
               /\ y.starter = x.starter /\ y.told = x.told /\ y.asked = x.asked
               /\ y.ses.mem /\ y.ses.lookupState = "initializing"
               /\ y.ses.chan = x.ses.chan /\ y.ses.watch = x.ses.watch
               /\ y.ses.queryStarter = x.ses.queryStarter /\ y.ses.inCb = x.ses.inCb
               /\ y.ses.needDestroy = x.ses.needDestroy
               /\ y.ses.aresHostCbWasCalled = x.ses.aresHostCbWasCalled
<1> DEFINE s == [x.ses EXCEPT !.mem = TRUE, !.lookupState = "initializing"]
           y == MakeSession(x)
<1>1. x \in Records /\ x.ses \in Sessions /\ Asks(x.w, x.ares.socks)
  BY WorldIs DEF Worlds
<1>2. /\ s \in Sessions /\ s.mem /\ s.lookupState = "initializing"
      /\ s.chan = x.ses.chan /\ s.watch = x.ses.watch
      /\ s.queryStarter = x.ses.queryStarter /\ s.inCb = x.ses.inCb
      /\ s.needDestroy = x.ses.needDestroy
      /\ s.aresHostCbWasCalled = x.ses.aresHostCbWasCalled
  BY <1>1 DEF Sessions, LookupStates
<1>3. y = [x EXCEPT !.ses = s]
  BY DEF MakeSession
<1> HIDE DEF s, y
<1>4. /\ y \in Records /\ y.ses = s /\ y.w = x.w /\ y.ares = x.ares
      /\ y.starter = x.starter /\ y.told = x.told /\ y.asked = x.asked
  BY <1>1, <1>2, <1>3 DEF Records
<1>5. y \in Worlds
  <2>1. Asks(y.w, y.ares.socks)
    BY <1>1, <1>4
  <2> QED
    BY <1>4, <2>1 DEF Worlds
<1> QED
  BY <1>2, <1>4, <1>5 DEF y

LEMMA MakesWatch ==
    ASSUME NEW x \in Worlds, x.ares = NoAres
    PROVE  LET y == MakeWatch(x)
           IN  /\ y \in Worlds /\ y.w.attached /\ y.w.timeoutMillisec = INFINITE_MSEC
               /\ y.ares = x.ares
               /\ y.starter = x.starter /\ y.told = x.told /\ y.asked = x.asked
               /\ y.ses.mem = x.ses.mem /\ y.ses.lookupState = x.ses.lookupState
               /\ y.ses.chan = x.ses.chan /\ y.ses.watch
               /\ y.ses.queryStarter = x.ses.queryStarter /\ y.ses.inCb = x.ses.inCb
               /\ y.ses.needDestroy = x.ses.needDestroy
               /\ y.ses.aresHostCbWasCalled = x.ses.aresHostCbWasCalled
<1> DEFINE s == [x.ses EXCEPT !.watch = TRUE]
           w == [NewWatch EXCEPT !.attached = TRUE]
           y == MakeWatch(x)
<1>1. x \in Records /\ x.ses \in Sessions
  BY WorldIs DEF Worlds
<1>2. /\ s \in Sessions /\ s.mem = x.ses.mem /\ s.lookupState = x.ses.lookupState
      /\ s.chan = x.ses.chan /\ s.watch
      /\ s.queryStarter = x.ses.queryStarter /\ s.inCb = x.ses.inCb
      /\ s.needDestroy = x.ses.needDestroy
      /\ s.aresHostCbWasCalled = x.ses.aresHostCbWasCalled
  BY <1>1 DEF Sessions
<1>3. /\ w \in SoundWatches /\ w.attached /\ w.timeoutMillisec = INFINITE_MSEC
      /\ Known(w) = {}
  <2> DEFINE n == NewWatch
  <2>1. NoDescriptors \in [{} -> Descriptors] /\ DOMAIN NoDescriptors = {}
    BY DEF NoDescriptors
  <2>2. NoDescriptors \in UNION {[T -> Descriptors] : T \in SUBSET Fds}
    BY <2>1, IsTable
  <2>3. INFINITE_MSEC \in Int /\ INFINITE_MSEC \in Timeouts
    BY DEF INFINITE_MSEC, Timeouts
  <2>4. /\ n \in Watches /\ n.descTable = NoDescriptors /\ n.polled = {}
        /\ n.timeoutMillisec = INFINITE_MSEC
    BY <2>2, <2>3 DEF NewWatch, Watches
  <2>5. w = [n EXCEPT !.attached = TRUE]
    OBVIOUS
  <2> HIDE DEF n, w
  <2>6. /\ w \in Watches /\ w.descTable = NoDescriptors /\ w.polled = {} /\ w.attached
        /\ w.timeoutMillisec = INFINITE_MSEC
    BY <2>4, <2>5 DEF Watches
  <2>7. Known(w) = {}
    BY <2>1, <2>6 DEF Known
  <2> QED
    BY <2>3, <2>6, <2>7 DEF SoundWatches
<1>4. y = [x EXCEPT !.ses = s, !.w = w]
  BY DEF MakeWatch
<1> HIDE DEF s, w, y
<1>5. /\ y \in Records /\ y.ses = s /\ y.w = w /\ y.ares = x.ares
      /\ y.starter = x.starter /\ y.told = x.told /\ y.asked = x.asked
  BY <1>1, <1>2, <1>3, <1>4 DEF Records
<1>6. y \in Worlds
  <2>1. Asks(y.w, y.ares.socks)
    BY <1>3, <1>5 DEF Asks, NoAres, NoDescriptors
  <2> QED
    BY <1>5, <2>1 DEF Worlds
<1> QED
  BY <1>2, <1>3, <1>5, <1>6 DEF y

LEMMA MakesAres ==
    ASSUME NEW x \in Worlds
    PROVE  LET y == MakeAres(x)
           IN  /\ y \in Worlds /\ y.w = x.w /\ y.ares = x.ares
               /\ y.starter = x.starter /\ y.told = x.told /\ y.asked = x.asked
               /\ y.ses.mem = x.ses.mem /\ y.ses.lookupState = "initialized"
               /\ y.ses.chan /\ y.ses.watch = x.ses.watch
               /\ y.ses.queryStarter = x.ses.queryStarter /\ y.ses.inCb = x.ses.inCb
               /\ y.ses.needDestroy = x.ses.needDestroy
               /\ y.ses.aresHostCbWasCalled = x.ses.aresHostCbWasCalled
<1> DEFINE s == [x.ses EXCEPT !.chan = TRUE, !.lookupState = "initialized"]
           y == MakeAres(x)
<1>1. x \in Records /\ x.ses \in Sessions /\ Asks(x.w, x.ares.socks)
  BY WorldIs DEF Worlds
<1>2. /\ s \in Sessions /\ s.mem = x.ses.mem /\ s.lookupState = "initialized"
      /\ s.chan /\ s.watch = x.ses.watch
      /\ s.queryStarter = x.ses.queryStarter /\ s.inCb = x.ses.inCb
      /\ s.needDestroy = x.ses.needDestroy
      /\ s.aresHostCbWasCalled = x.ses.aresHostCbWasCalled
  BY <1>1 DEF Sessions, LookupStates
<1>3. y = [x EXCEPT !.ses = s]
  BY DEF MakeAres
<1> HIDE DEF s, y
<1>4. /\ y \in Records /\ y.ses = s /\ y.w = x.w /\ y.ares = x.ares
      /\ y.starter = x.starter /\ y.told = x.told /\ y.asked = x.asked
  BY <1>1, <1>2, <1>3 DEF Records
<1>5. y \in Worlds
  <2>1. Asks(y.w, y.ares.socks)
    BY <1>1, <1>4
  <2> QED
    BY <1>4, <2>1 DEF Worlds
<1> QED
  BY <1>2, <1>4, <1>5 DEF y

LEMMA NewKeeps ==
    ASSUME LookupInv, NEW outcome \in {"ok", "noWatch", "noAres"}, New(outcome)
    PROVE  /\ LookupInv' /\ told' = told /\ asked' = asked
           /\ ses'.lookupState \in {"none", "initialized"}
<1> DEFINE made  == MakeSession(World)
           withW == MakeWatch(made)
           full  == MakeAres(withW)
<1>1. /\ loop.phase = "dispatch" /\ ses.lookupState = "none" /\ ~asked /\ loop' = loop
      /\ \/ Becomes(DestroyInternal(made)) \/ Becomes(DestroyInternal(withW))
         \/ Becomes(full)
  BY DEF New, UserMayCall
<1>2. /\ ses = NoSession /\ ares = NoAres /\ ~watch.attached
      /\ watch.timeoutMillisec = INFINITE_MSEC /\ starter = NoStarter
      /\ "watch" \notin loop.ready
  <2>1. ~ses.mem /\ ses = NoSession
    BY <1>1, SessionIs
  <2>2. ~ses.queryStarter /\ ares.query # "pending" /\ ~ses.chan
    BY <1>1, <2>1, SessionIs DEF NoSession
  <2> QED
    BY <1>1, <2>1, <2>2, SessionIs
<1>3. /\ World \in Worlds /\ World.ses = NoSession /\ World.w = watch /\ World.ares = NoAres
      /\ World.starter = NoStarter /\ World.told = told /\ World.asked = asked
  BY <1>2, StateIs
<1>4. /\ ~NoSession.chan /\ ~NoSession.watch /\ ~NoSession.queryStarter
      /\ NoSession.inCb = 0 /\ ~NoSession.needDestroy /\ ~NoSession.aresHostCbWasCalled
      /\ NoAres.query = "none"
  BY DEF NoSession, NoAres
<1>5. LoopOK'
  <2>1. loop \in [phase : {"poll", "dispatch"}, ready : SUBSET {"watch", "starter"},
                  sleep : Timeouts]
    BY StateIs DEF LoopOK
  <2> QED
    BY <1>1, <1>2, <2>1, NotReady
<1>6. /\ made \in Worlds /\ made.w = watch /\ made.ares = NoAres /\ made.starter = NoStarter
      /\ made.told = told /\ made.asked = asked
      /\ made.ses.mem /\ ~made.ses.chan /\ ~made.ses.watch /\ ~made.ses.queryStarter
      /\ made.ses.inCb = 0 /\ ~made.ses.needDestroy /\ ~made.ses.aresHostCbWasCalled
  BY <1>3, <1>4, MakesSession
<1> HIDE DEF made
<1>7. /\ withW \in Worlds /\ withW.w.attached /\ withW.w.timeoutMillisec = INFINITE_MSEC
      /\ withW.ares = NoAres /\ withW.starter = NoStarter
      /\ withW.told = told /\ withW.asked = asked
      /\ withW.ses.mem /\ ~withW.ses.chan /\ withW.ses.watch /\ ~withW.ses.queryStarter
      /\ withW.ses.inCb = 0 /\ ~withW.ses.needDestroy /\ ~withW.ses.aresHostCbWasCalled
  BY <1>6, MakesWatch
<1> HIDE DEF withW
<1>8. /\ full \in Worlds /\ full.w.attached /\ full.w.timeoutMillisec = INFINITE_MSEC
      /\ full.ares = NoAres /\ full.starter = NoStarter
      /\ full.told = told /\ full.asked = asked
      /\ full.ses.mem /\ full.ses.chan /\ full.ses.watch /\ ~full.ses.queryStarter
      /\ full.ses.lookupState = "initialized"
      /\ full.ses.inCb = 0 /\ ~full.ses.needDestroy /\ ~full.ses.aresHostCbWasCalled
  BY <1>7, MakesAres
<1> HIDE DEF full
<1>9. ASSUME NEW x, Destructible(x), x.starter = NoStarter, x.told = told, x.asked = asked,
             Becomes(DestroyInternal(x))
      PROVE  /\ LookupInv' /\ told' = told /\ asked' = asked
             /\ ses'.lookupState \in {"none", "initialized"}
  <2> DEFINE r == DestroyInternal(x)
  <2>1. Destroyed(x, r)
    BY <1>9, Destroys
  <2> HIDE DEF r
  <2>2. r \in Worlds /\ Quiet(r)
    BY <2>1, GoneIsQuiet DEF Destroyed
  <2>3. r.starter = NoStarter /\ ~r.ses.queryStarter
    BY <1>4, <1>9, <2>1 DEF Destroyed
  <2>4. StarterOK(r) /\ Becomes(r)
    BY <1>9, <2>3 DEF StarterOK, r
  <2>5. told' = told /\ asked' = asked /\ ses'.lookupState = "none"
    BY <1>9, <2>1, <2>4 DEF Destroyed, Becomes, NoSession
  <2> QED
    BY <1>5, <2>2, <2>4, <2>5, BecomesQuiet
<1>10. CASE Becomes(DestroyInternal(made))
  <2>1. Destructible(made)
    BY <1>2, <1>4, <1>6 DEF Destructible
  <2> QED
    BY <1>6, <1>9, <1>10, <2>1
<1>11. CASE Becomes(DestroyInternal(withW))
  <2>1. Destructible(withW)
    BY <1>4, <1>7 DEF Destructible
  <2> QED
    BY <1>7, <1>9, <1>11, <2>1
<1>12. CASE Becomes(full)
  <2>1. full.ses.watch = full.ses.chan /\ full.w.attached = full.ses.chan
    <3>1. full.ses \in Sessions /\ full.w \in SoundWatches
      BY <1>8, WorldIs
    <3>2. full.ses.watch = TRUE /\ full.ses.chan = TRUE /\ full.w.attached = TRUE
      BY <1>8, <3>1, WatchIs DEF Sessions
    <3> QED
      BY <3>2
  <2>2. ChannelOK(full) /\ TimerOK(full) /\ NoneOK(full) /\ StateOK(full)
    BY <1>4, <1>8, <2>1 DEF ChannelOK, TimerOK, NoneOK, StateOK
  <2>3. Quiet(full)
    BY <1>1, <1>8, <2>2 DEF Quiet
  <2>4. StarterOK(full)
    BY <1>8 DEF StarterOK
  <2> QED
    BY <1>5, <1>8, <1>12, <2>3, <2>4, BecomesQuiet DEF Becomes
<1> QED
  BY <1>1, <1>10, <1>11, <1>12

(* PmSockHostLookupStart                                                   *)
LEMMA StartKeeps ==
    ASSUME LookupInv, Start
    PROVE  LookupInv'
<1> DEFINE s == [ses EXCEPT !.lookupState = "running", !.queryStarter = TRUE]
           x == [ses |-> s, w |-> watch, starter |-> IdleSource, ares |-> ares,
                 told |-> told, asked |-> asked, fault |-> ""]
<1>1. /\ loop.phase = "dispatch" /\ ses.lookupState = "initialized"
      /\ ses' = s /\ starter' = IdleSource
      /\ UNCHANGED <<watch, ares, loop, told, asked, fault>>
  BY DEF Start, UserMayCall, IdleSource
<1>2. /\ ses \in Sessions /\ watch \in SoundWatches /\ ares \in AresChannels /\ told \in Nat
      /\ asked \in BOOLEAN /\ fault = "" /\ Asks(watch, ares.socks)
  BY StateIs
<1>3. /\ s \in Sessions /\ s.lookupState = "running" /\ s.queryStarter
      /\ s.mem = ses.mem /\ s.chan = ses.chan /\ s.watch = ses.watch /\ s.inCb = ses.inCb
      /\ s.needDestroy = ses.needDestroy
      /\ s.aresHostCbWasCalled = ses.aresHostCbWasCalled
  BY <1>2 DEF Sessions, LookupStates
<1>4. IdleSource \in Starters
  BY DEF IdleSource, Starters
<1> HIDE DEF s
<1>5. x \in Worlds
  BY <1>2, <1>3, <1>4, IsWorld
<1>6. /\ x.ses = s /\ x.w = watch /\ x.starter = IdleSource /\ x.ares = ares
      /\ x.asked = asked
  OBVIOUS
<1>7. Becomes(x)
  BY <1>1, <1>2 DEF Becomes
<1> HIDE DEF x
<1>8. /\ ses.mem /\ ~asked /\ ~ses.needDestroy /\ ses.inCb = 0 /\ ses.chan
      /\ ses.watch = ses.chan /\ watch.attached = ses.chan
      /\ ares.query # "pending" /\ ares = NoAres
      /\ watch.timeoutMillisec = INFINITE_MSEC /\ ~ses.aresHostCbWasCalled
      /\ "watch" \notin loop.ready
  BY <1>1, SessionIs
<1>9. ChannelOK(x) /\ TimerOK(x) /\ NoneOK(x) /\ StateOK(x)
  BY <1>3, <1>6, <1>8 DEF ChannelOK, TimerOK, NoneOK, StateOK
<1>10. Quiet(x) /\ StarterOK(x)
  BY <1>3, <1>6, <1>8, <1>9 DEF Quiet, StarterOK
<1>11. LoopOK'
  <2>1. loop \in [phase : {"poll", "dispatch"}, ready : SUBSET {"watch", "starter"},
                  sleep : Timeouts]
    BY StateIs DEF LoopOK
  <2> QED
    BY <1>1, <1>8, <2>1, NotReady
<1> QED
  BY <1>5, <1>7, <1>10, <1>11, BecomesQuiet

(* PmSockHostLookupDestroy, between callbacks.                             *)
LEMMA UserDestroyKeeps ==
    ASSUME LookupInv, UserDestroy
    PROVE  LookupInv' /\ told' = told /\ asked'
<1> DEFINE x == [World EXCEPT !.asked = TRUE]
           r == DestroyInternal(x)
<1>1. /\ loop.phase = "dispatch" /\ ses.mem /\ Becomes(Destroy(x)) /\ loop' = loop
  BY DEF UserDestroy, UserMayCall, UserDestroys
<1>2. /\ World \in Records /\ Asks(World.w, World.ares.socks)
      /\ World.ses = ses /\ World.w = watch /\ World.starter = starter /\ World.ares = ares
      /\ World.told = told
  BY StateIs DEF Worlds
<1>3. /\ x \in Records /\ x.ses = ses /\ x.w = watch /\ x.starter = starter /\ x.ares = ares
      /\ x.told = told /\ x.asked = TRUE
  BY <1>2 DEF Records
<1> HIDE DEF x
<1>4. x \in Worlds
  BY <1>2, <1>3 DEF Worlds
<1>5. Destroy(x) = r
  <2>1. FaultIf(~x.ses.mem, x, "session destroyed after free") = x
    BY <1>1, <1>3 DEF FaultIf
  <2>2. ~(x.ses.inCb > 0)
    BY <1>3, SessionIs
  <2> QED
    BY <2>1, <2>2 DEF Destroy
<1>6. Destructible(x)
  <2>1. /\ ses.watch = ses.chan /\ watch.attached = ses.chan
        /\ ares.query = "pending" => ses.chan
        /\ ares.query # "pending" => ares = NoAres /\ watch.timeoutMillisec = INFINITE_MSEC
        /\ ares.query = "pending" => ~ses.aresHostCbWasCalled
        /\ ses.queryStarter => starter = IdleSource
    BY SessionIs
  <2> QED
    BY <1>1, <1>3, <1>4, <2>1 DEF Destructible
<1>7. Destroyed(x, r)
  BY <1>6, Destroys
<1> HIDE DEF r
<1>8. Quiet(r) /\ r \in Worlds /\ r.ses = NoSession /\ r.told = told /\ r.asked = TRUE
      /\ r.starter = IF ses.queryStarter THEN NoStarter ELSE starter
  BY <1>3, <1>7, GoneIsQuiet DEF Destroyed
<1>9. StarterOK(r)
  <2>1. ~r.ses.queryStarter
    BY <1>8 DEF NoSession
  <2>2. r.starter = NoStarter
    BY <1>8, SessionIs
  <2> QED
    BY <2>1, <2>2 DEF StarterOK
<1>10. LoopOK'
  <2>1. loop \in [phase : {"poll", "dispatch"}, ready : SUBSET {"watch", "starter"},
                  sleep : Timeouts]
    BY StateIs DEF LoopOK
  <2>2. asked' = TRUE
    BY <1>1, <1>5, <1>8 DEF Becomes
  <2> QED
    BY <1>1, <2>1, <2>2, NotReady
<1> QED
  BY <1>1, <1>5, <1>8, <1>9, <1>10, BecomesQuiet DEF Becomes

(* psl_kick_start_ares_idle_cb                                             *)
LEMMA Forgets ==
    ASSUME NEW x \in Worlds, x.starter = IdleSource
    PROVE  LET y == ForgetStarter(x)
           IN  /\ y \in Worlds /\ y.w = x.w /\ y.ares = x.ares /\ y.starter = Attached(1)
               /\ y.told = x.told /\ y.asked = x.asked
               /\ y.ses.mem = x.ses.mem /\ y.ses.lookupState = x.ses.lookupState
               /\ y.ses.chan = x.ses.chan /\ y.ses.watch = x.ses.watch
               /\ ~y.ses.queryStarter /\ y.ses.inCb = x.ses.inCb
               /\ y.ses.needDestroy = x.ses.needDestroy
               /\ y.ses.aresHostCbWasCalled = x.ses.aresHostCbWasCalled
<1> DEFINE s == [x.ses EXCEPT !.queryStarter = FALSE]
           v == WithStarter(x, Attached(1))
           y == ForgetStarter(x)
<1>1. x \in Records /\ x.ses \in Sessions /\ Asks(x.w, x.ares.socks)
  BY WorldIs DEF Worlds
<1>2. /\ s \in Sessions /\ s.mem = x.ses.mem /\ s.lookupState = x.ses.lookupState
      /\ s.chan = x.ses.chan /\ s.watch = x.ses.watch
      /\ ~s.queryStarter /\ s.inCb = x.ses.inCb
      /\ s.needDestroy = x.ses.needDestroy
      /\ s.aresHostCbWasCalled = x.ses.aresHostCbWasCalled
  BY <1>1 DEF Sessions
<1>3. UnrefStarter(x) = v
  <2>1. x.starter = Attached(2)
    BY DEF IdleSource, Attached, Source
  <2> QED
    BY <2>1, UnrefIs
<1>4. Attached(1) \in Starters
  BY DEF Attached, Source, Starters
<1>5. /\ v \in Records /\ v.ses = x.ses /\ v.w = x.w /\ v.ares = x.ares
      /\ v.starter = Attached(1) /\ v.told = x.told /\ v.asked = x.asked
  BY <1>1, <1>4 DEF WithStarter, Records
<1> HIDE DEF v
<1>6. y = [v EXCEPT !.ses = s]
  BY <1>3, <1>5 DEF ForgetStarter
<1> HIDE DEF s, y
<1>7. /\ y \in Records /\ y.ses = s /\ y.w = v.w /\ y.ares = v.ares
      /\ y.starter = v.starter /\ y.told = v.told /\ y.asked = v.asked
  BY <1>2, <1>5, <1>6 DEF Records
<1>8. y \in Worlds
  <2>1. Asks(y.w, y.ares.socks)
    BY <1>1, <1>5, <1>7
  <2> QED
    BY <1>7, <2>1 DEF Worlds
<1> QED
  BY <1>2, <1>5, <1>7, <1>8 DEF y

LEMMA KickStartKeeps ==
    ASSUME LookupInv, KickStart
    PROVE  /\ LookupInv' /\ ses.lookupState = "running" /\ ~asked
           /\ Seen(ses'.lookupState, asked', told, told')
<1> DEFINE detached(x) == IF x.starter.attached THEN DestroyStarter(x) ELSE x
           y == ForgetStarter(World)
<1>1. /\ loop.phase = "dispatch" /\ starter.attached /\ LeavesReady("starter")
      /\ \E x \in AresGethostbyname(y) : Becomes(detached(AfterAres(x)))
  BY DEF KickStart
<1>2. PICK x \in AresGethostbyname(y) : Becomes(detached(AfterAres(x)))
  BY <1>1
<1>3. /\ World \in Worlds /\ World.ses = ses /\ World.w = watch /\ World.starter = starter
      /\ World.ares = ares /\ World.told = told /\ World.asked = asked
  BY StateIs
<1>4. ses.queryStarter /\ starter = IdleSource
  <2>1. ~NoStarter.attached
    BY DEF NoStarter
  <2> QED
    BY <1>1, <2>1, SessionIs
<1>5. /\ ses.mem /\ ses.chan /\ ses.watch /\ watch.attached /\ ses.inCb = 0
      /\ ses.lookupState = "running" /\ ares.query = "none" /\ ~ses.needDestroy
      /\ ~ses.aresHostCbWasCalled /\ ~asked /\ "watch" \notin loop.ready
  <2>1. ses.lookupState = "running" /\ ares.query # "pending" /\ ares = NoAres
    BY <1>4, SessionIs
  <2> QED
    BY <2>1, SessionIs DEF NoAres
<1>6. Asking(y) /\ y.starter = Attached(1) /\ y.told = told
  BY <1>3, <1>4, <1>5, Forgets DEF Asking, Live
<1> HIDE DEF y
<1>7. Going(x, told) /\ x.starter = Attached(1)
  BY <1>2, <1>6, Gethostbyname
<1> DEFINE z == AfterAres(x)
<1>8. /\ z \in Worlds /\ Quiet(z) /\ z.starter = Attached(1) /\ ~z.ses.queryStarter
      /\ Seen(z.ses.lookupState, z.asked, told, z.told)
  BY <1>7, Settles
<1> HIDE DEF z
<1> DEFINE r == WithStarter(z, NoStarter)
<1>9. detached(z) = r
  <2>1. z.starter.attached
    BY <1>8, Detaches
  <2>2. NoStarter = Detached(0)
    BY DEF NoStarter, Detached, Source
  <2>3. z \in Records
    BY <1>8 DEF Worlds
  <2>4. DestroyStarter(z) = WithStarter(z, Detached(0))
    BY <1>8, <2>3, DestroyStarterIs
  <2> QED
    BY <2>1, <2>2, <2>4
<1>10. z \in Records /\ Asks(z.w, z.ares.socks) /\ NoStarter \in Starters
  <2>1. NoStarter \in Starters
    BY DEF NoStarter, Starters
  <2> QED
    BY <1>8, <2>1 DEF Worlds
<1>11. /\ r \in Records /\ r.ses = z.ses /\ r.w = z.w /\ r.ares = z.ares
       /\ r.starter = NoStarter /\ r.told = z.told /\ r.asked = z.asked
  BY <1>10 DEF WithStarter, Records
<1>12. Becomes(r)
  BY <1>2, <1>9 DEF z
<1> HIDE DEF r, detached
<1>13. r \in Worlds
  BY <1>10, <1>11 DEF Worlds
<1>14. Quiet(r)
  BY <1>8, <1>11 DEF Quiet, NoneOK, ChannelOK, TimerOK, StateOK
<1>15. StarterOK(r)
  BY <1>8, <1>11 DEF StarterOK
<1>16. LoopOK'
  <2>1. loop \in [phase : {"poll", "dispatch"}, ready : SUBSET {"watch", "starter"},
                  sleep : Timeouts]
    BY StateIs DEF LoopOK
  <2>2. /\ loop' \in [phase : {"poll", "dispatch"}, ready : SUBSET {"watch", "starter"},
                      sleep : Timeouts]
        /\ loop'.phase = loop.phase /\ loop'.ready \subseteq loop.ready
    BY <1>1, <2>1 DEF LeavesReady
  <2> QED
    BY <1>1, <1>5, <2>2, NotReady
<1>17. Seen(ses'.lookupState, asked', told, told')
  BY <1>8, <1>11, <1>12 DEF Becomes
<1> QED
  BY <1>5, <1>12, <1>13, <1>14, <1>15, <1>16, <1>17, BecomesQuiet

(* multi_fd_watch_dispatch                                                 *)
LEMMA ReadyWatch ==
    ASSUME LookupInv, "watch" \in loop.ready, watch.attached
    PROVE  /\ ares.query = "pending" /\ ses.lookupState = "running" /\ ~ses.queryStarter
           /\ ses.mem /\ ses.chan /\ ses.watch /\ ses.inCb = 0 /\ ~ses.needDestroy
           /\ ~ses.aresHostCbWasCalled /\ ~asked /\ starter = NoStarter
<1>1. ses.chan /\ ses.watch /\ ses.mem /\ ~asked
  BY SessionIs
<1>2. ares.query = "pending" /\ ses.lookupState = "running" /\ ~ses.queryStarter
  BY <1>1, SessionIs
<1> QED
  BY <1>1, <1>2, SessionIs

LEMMA WatchCalls ==
    ASSUME NEW x, Waiting(x), NEW recs, IsFiniteSet(recs), NEW r \in FdWatchCb(x, recs)
    PROVE  /\ r \in Worlds /\ Quiet(r) /\ r.starter = x.starter /\ ~r.ses.queryStarter
           /\ Seen(r.ses.lookupState, r.asked, x.told, r.told)
<1> DEFINE feeding == {rec \in recs : Feeds(rec) # {}}
           n == Cardinality(feeding)
           Y == IF feeding = {} THEN AresProcessFd(x, FALSE) ELSE Feed(x, n)
<1>1. FdWatchCb(x, recs) = {AfterAres(y) : y \in Y}
  BY DEF FdWatchCb
<1>2. n \in Nat
  <2>1. IsFiniteSet(feeding)
    BY FS_Subset
  <2> QED
    BY <2>1, FS_CardinalityType
<1> HIDE DEF n, feeding
<1>3. PICK y \in Y : r = AfterAres(y)
  BY <1>1
<1>4. Going(y, x.told) /\ y.starter = x.starter
  <2>1. CASE y \in AresProcessFd(x, FALSE)
    BY <2>1, ProcessesFd
  <2>2. CASE y \in Feed(x, n)
    BY <1>2, <2>2, FeedsAll DEF Going
  <2> QED
    BY <1>3, <2>1, <2>2
<1> QED
  BY <1>3, <1>4, Settles

LEMMA DispatchWatchKeeps ==
    ASSUME LookupInv, DispatchWatch
    PROVE  /\ LookupInv' /\ ses.lookupState = "running" /\ ~asked
           /\ Seen(ses'.lookupState, asked', told, told')
<1> DEFINE w == Dispatched(watch)
           x == [World EXCEPT !.w = Dispatched(@)]
<1>1. /\ loop.phase = "dispatch" /\ "watch" \in loop.ready /\ watch.attached
      /\ LeavesReady("watch")
      /\ \E r \in FdWatchCb(x, PollRecs(watch)) : Becomes(r)
  BY DEF DispatchWatch
<1>2. PICK r \in FdWatchCb(x, PollRecs(watch)) : Becomes(r)
  BY <1>1
<1>3. /\ World \in Records /\ World.ses = ses /\ World.w = watch /\ World.starter = starter
      /\ World.ares = ares /\ World.told = told /\ World.asked = asked /\ watch \in SoundWatches
      /\ Asks(watch, ares.socks)
  BY StateIs DEF Worlds
<1>4. /\ w \in SoundWatches /\ Known(w) = Known(watch) /\ w.descTable = watch.descTable
      /\ w.attached = watch.attached
  <2>1. 0 \in Timeouts
    BY DEF Timeouts
  <2> QED
    BY <1>3, <2>1, SetsTimer
<1>5. x = [World EXCEPT !.w = w]
  BY <1>3
<1> HIDE DEF w, x
<1>6. /\ x \in Records /\ x.ses = ses /\ x.w = w /\ x.starter = starter
      /\ x.ares = ares /\ x.told = told /\ x.asked = asked
  BY <1>3, <1>4, <1>5 DEF Records
<1>7. x \in Worlds
  <2>1. Asks(x.w, x.ares.socks)
    BY <1>3, <1>4, <1>6 DEF Asks
  <2> QED
    BY <1>6, <2>1 DEF Worlds
<1>8. Waiting(x) /\ x.starter = NoStarter
  BY <1>1, <1>4, <1>6, <1>7, ReadyWatch DEF Waiting, Asking, Live
<1>9. IsFiniteSet(PollRecs(watch))
  <2>1. IsFiniteSet(Known(watch))
    BY <1>3, WatchIs, FdsAssumption, FS_Subset
  <2> DEFINE S == {g \in Known(watch) : IndEvents(watch, g) # {}}
             rec(f) == [fd |-> f, req |-> watch.descTable[f].events,
                        ind |-> IndEvents(watch, f)]
  <2>2. IsFiniteSet(S)
    BY <2>1, FS_Subset
  <2>3. PollRecs(watch) = {rec(f) : f \in S}
    BY DEF PollRecs
  <2> HIDE DEF S, rec
  <2>4. IsFiniteSet({rec(f) : f \in S})
    <3> DEFINE g == [f \in S |-> rec(f)]
    <3>1. g \in Surjection(S, {rec(f) : f \in S})
      BY DEF Surjection
    <3> QED
      BY <2>2, <3>1, FS_Surjection
  <2> QED
    BY <2>3, <2>4
<1>10. /\ r \in Worlds /\ Quiet(r) /\ r.starter = NoStarter /\ ~r.ses.queryStarter
       /\ Seen(r.ses.lookupState, r.asked, told, r.told)
  BY <1>2, <1>6, <1>8, <1>9, WatchCalls
<1>11. StarterOK(r)
  BY <1>10 DEF StarterOK
<1>12. LoopOK'
  <2>1. loop \in [phase : {"poll", "dispatch"}, ready : SUBSET {"watch", "starter"},
                  sleep : Timeouts]
    BY StateIs DEF LoopOK
  <2>2. /\ loop' \in [phase : {"poll", "dispatch"}, ready : SUBSET {"watch", "starter"},
                      sleep : Timeouts]
        /\ loop'.phase = loop.phase /\ "watch" \notin loop'.ready
    BY <1>1, <2>1 DEF LeavesReady
  <2> QED
    BY <1>1, <2>2, NotReady
<1>13. Seen(ses'.lookupState, asked', told, told')
  BY <1>2, <1>10 DEF Becomes
<1>14. ses.lookupState = "running" /\ ~asked
  BY <1>1, ReadyWatch
<1> QED
  BY <1>2, <1>10, <1>11, <1>12, <1>13, <1>14, BecomesQuiet

(* What the loop does to the watch, and time to it and to c-ares.          *)
Rewatched(w, a) ==
    /\ w \in SoundWatches /\ w.attached = watch.attached /\ Known(w) = Known(watch)
    /\ \A f \in Known(w) : w.descTable[f].events = watch.descTable[f].events
    /\ w.timeoutMillisec = watch.timeoutMillisec
    /\ a \in AresChannels /\ a.query = ares.query /\ a.socks = ares.socks
    /\ ares = NoAres => a = NoAres
    /\ a.query = "pending" =>
          a.due <= IF w.restartTimer THEN w.timeoutMillisec * TicksPerMilli ELSE w.when

LEMMA RewatchedKeeps ==
    ASSUME LookupInv, NEW w, NEW a, Rewatched(w, a), watch' = w, ares' = a,
           UNCHANGED <<ses, starter, told, asked, fault>>, LoopOK'
    PROVE  LookupInv'
<1> DEFINE x == [ses |-> ses, w |-> w, starter |-> starter, ares |-> a,
                 told |-> told, asked |-> asked, fault |-> ""]
<1>1. /\ ses \in Sessions /\ starter \in Starters /\ told \in Nat /\ asked \in BOOLEAN
      /\ fault = "" /\ Asks(watch, ares.socks) /\ Quiet(World) /\ StarterOK(World)
      /\ World.ses = ses /\ World.w = watch /\ World.starter = starter /\ World.ares = ares
      /\ World.asked = asked
  BY StateIs
<1>2. w \in SoundWatches /\ a \in AresChannels /\ Asks(w, a.socks)
  BY <1>1 DEF Rewatched, Asks
<1>3. x \in Worlds
  BY <1>1, <1>2, IsWorld
<1>4. /\ x.ses = ses /\ x.w = w /\ x.starter = starter /\ x.ares = a /\ x.told = told
      /\ x.asked = asked /\ x.fault = ""
  OBVIOUS
<1> HIDE DEF x
<1>5. Becomes(x)
  BY <1>1, <1>4 DEF Becomes
<1>6. ChannelOK(x)
  BY <1>1, <1>4 DEF Quiet, ChannelOK, Rewatched
<1>7. TimerOK(x)
  BY <1>4 DEF TimerOK, Rewatched
<1>8. NoneOK(x) /\ StateOK(x) /\ StarterOK(x)
  BY <1>1, <1>4 DEF Quiet, NoneOK, StateOK, StarterOK, Rewatched
<1>9. Quiet(x)
  BY <1>1, <1>4, <1>6, <1>7, <1>8 DEF Quiet
<1> QED
  BY <1>3, <1>5, <1>8, <1>9, BecomesQuiet

(* What c-ares waits for, the timer waits for.                             *)
LEMMA TimerIs ==
    ASSUME LookupInv, ares.query = "pending"
    PROVE  /\ watch.timeoutMillisec \in Nat /\ watch.timeoutMillisec # INFINITE_MSEC
           /\ watch.attached /\ ares.due \in Nat /\ watch.when \in Nat
           /\ watch.restartTimer => ares.due <= watch.timeoutMillisec * TicksPerMilli
           /\ ~watch.restartTimer => ares.due <= watch.when
<1>1. watch.timeoutMillisec # INFINITE_MSEC /\ watch.attached
  BY SessionIs
<1>2. watch.timeoutMillisec \in Timeouts /\ watch.when \in Nat
  BY StateIs, WatchIs
<1>3. watch.timeoutMillisec \in Nat
  BY <1>1, <1>2 DEF Timeouts
<1>4. ares.due \in Nat
  <2>1. ares.due \in 0 .. AresTimeout
    BY StateIs DEF AresChannels
  <2> QED
    BY <2>1, AresAssumption
<1>5. TimerOK(World) /\ World.w = watch /\ World.ares = ares
  BY StateIs DEF Quiet
<1>6. ares.due <= IF watch.restartTimer THEN watch.timeoutMillisec * TicksPerMilli
                  ELSE watch.when
  BY <1>5 DEF TimerOK
<1> QED
  BY <1>1, <1>2, <1>3, <1>4, <1>6

(* multi_fd_watch_prepare                                                  *)
LEMMA Prepares ==
    ASSUME NEW w \in SoundWatches
    PROVE  LET r == Prepare(w)
           IN  /\ r \in SoundWatches /\ Known(r) = Known(w) /\ r.attached = w.attached
               /\ \A f \in Known(r) : r.descTable[f].events = w.descTable[f].events
               /\ r.timeoutMillisec = w.timeoutMillisec /\ ~r.restartTimer
               /\ r.when = IF w.timeoutMillisec # INFINITE_MSEC /\ w.restartTimer
                           THEN w.timeoutMillisec * TicksPerMilli ELSE w.when
<1> DEFINE S    == Known(w)
           poll == {f \in S : w.descTable[f].events # {}}
           t    == [f \in S |-> [w.descTable[f] EXCEPT !.revents = {},
                                                       !.pollAdded = f \in poll]]
           p    == (w.polled \ S) \cup poll
           u    == [w EXCEPT !.descTable = t, !.polled = p]
           r    == Prepare(w)
<1>1. /\ S \in SUBSET Fds /\ w.descTable \in [S -> Descriptors] /\ w.polled \subseteq S
      /\ w.timeoutMillisec \in Timeouts /\ w.when \in Nat /\ w.restartTimer \in BOOLEAN
      /\ w \in Watches
  BY WatchIs
<1>2. \A f \in S : /\ t[f] \in Descriptors /\ t[f].events = w.descTable[f].events
                   /\ t[f].pollAdded = (f \in poll)
  <2> SUFFICES ASSUME NEW f \in S
               PROVE  /\ t[f] \in Descriptors /\ t[f].events = w.descTable[f].events
                      /\ t[f].pollAdded = (f \in poll)
    OBVIOUS
  <2> DEFINE d == w.descTable[f]
             b == f \in poll
  <2>1. d \in Descriptors
    BY <1>1
  <2>2. t[f] = [d EXCEPT !.revents = {}, !.pollAdded = b]
    OBVIOUS
  <2>3. b \in BOOLEAN /\ {} \in Indications
    BY DEF Indications
  <2> HIDE DEF d, b, t
  <2>4. /\ t[f] \in Descriptors /\ t[f].events = d.events /\ t[f].pollAdded = b
    BY <2>1, <2>2, <2>3 DEF Descriptors
  <2> QED
    BY <2>4 DEF d, b
<1>3. r = UpdateExpiryTime(u)
  BY DEF Prepare
<1>4. t \in [S -> Descriptors]
  BY <1>2
<1>5. p = {f \in S : t[f].pollAdded}
  BY <1>1, <1>2
<1>6. Retabled(u, w, S, t)
  BY <1>1, <1>4, <1>5 DEF Retabled
<1> HIDE DEF S, t, p, u, r
<1>7. u \in SoundWatches /\ Known(u) = S /\ u.descTable = t /\ SameTimer(u, w)
  BY <1>6, TableChanges
<1> DEFINE n == IF w.timeoutMillisec # INFINITE_MSEC /\ w.restartTimer
                THEN w.timeoutMillisec * TicksPerMilli ELSE w.when
<1>8. n \in Nat
  <2>1. CASE w.timeoutMillisec # INFINITE_MSEC
    <3>1. w.timeoutMillisec \in Nat
      BY <1>1, <2>1 DEF Timeouts
    <3>2. w.timeoutMillisec * TicksPerMilli \in Nat
      BY <3>1, TicksPerMilliAssumption
    <3> QED
      BY <1>1, <3>2
  <2>2. CASE w.timeoutMillisec = INFINITE_MSEC
    BY <1>1, <2>2
  <2> QED
    BY <2>1, <2>2
<1>9. /\ u.timeoutMillisec = w.timeoutMillisec /\ u.restartTimer = w.restartTimer
      /\ u.when = w.when /\ u.attached = w.attached
  BY <1>7 DEF SameTimer
<1>10. u \in Watches /\ u.polled = {f \in S : t[f].pollAdded}
  BY <1>7, WatchIs
<1>11. r = [u EXCEPT !.restartTimer = FALSE, !.when = n]
  <2>1. CASE w.timeoutMillisec # INFINITE_MSEC /\ w.restartTimer
    BY <1>3, <1>9, <2>1 DEF UpdateExpiryTime
  <2>2. CASE ~(w.timeoutMillisec # INFINITE_MSEC /\ w.restartTimer)
    <3>1. r = [u EXCEPT !.restartTimer = FALSE] /\ n = u.when
      BY <1>3, <1>9, <2>2 DEF UpdateExpiryTime
    <3> QED
      BY <1>10, <3>1 DEF Watches
  <2> QED
    BY <2>1, <2>2
<1> HIDE DEF n
<1>12. /\ r \in Watches /\ r.descTable = t /\ r.polled = u.polled /\ r.attached = u.attached
       /\ r.timeoutMillisec = u.timeoutMillisec /\ ~r.restartTimer /\ r.when = n
  BY <1>7, <1>8, <1>10, <1>11 DEF Watches
<1>13. Known(r) = S
  BY <1>4, <1>12 DEF Known
<1>14. r \in SoundWatches
  BY <1>1, <1>9, <1>10, <1>12, <1>13 DEF SoundWatches
<1>15. \A f \in Known(r) : r.descTable[f].events = w.descTable[f].events
  BY <1>2, <1>12, <1>13
<1> QED
  BY <1>9, <1>12, <1>13, <1>14, <1>15 DEF r, S, n

(* Preparing starts the timer, and the loop sleeps until it expires.       *)
LEMMA PrepareSourcesKeeps ==
    ASSUME LookupInv, PrepareSources
    PROVE  LookupInv'
<1> DEFINE w     == IF watch.attached THEN Prepare(watch) ELSE watch
           now   == (IF watch.attached /\ Remaining(w) = 0 THEN {"watch"} ELSE {})
                    \cup (IF starter.attached THEN {"starter"} ELSE {})
           sleep == IF now # {} THEN 0
                    ELSE IF watch.attached /\ Remaining(w) # INFINITE_MSEC
                      THEN Remaining(w) * TicksPerMilli
                    ELSE INFINITE_MSEC
<1>1. /\ watch' = w /\ loop' = [phase |-> "poll", ready |-> now, sleep |-> sleep]
      /\ UNCHANGED <<ses, starter, ares, told, asked, fault>>
  BY DEF PrepareSources
<1>2. watch \in SoundWatches /\ ares \in AresChannels /\ watch.attached \in BOOLEAN
  BY StateIs, WatchIs
<1>3. /\ w \in SoundWatches /\ Known(w) = Known(watch) /\ w.attached = watch.attached
      /\ \A f \in Known(w) : w.descTable[f].events = watch.descTable[f].events
      /\ w.timeoutMillisec = watch.timeoutMillisec
      /\ watch.attached => /\ ~w.restartTimer
                           /\ w.when = IF watch.timeoutMillisec # INFINITE_MSEC
                                          /\ watch.restartTimer
                                       THEN watch.timeoutMillisec * TicksPerMilli
                                       ELSE watch.when
  <2>1. CASE watch.attached
    BY <1>2, <2>1, Prepares
  <2>2. CASE ~watch.attached
    BY <1>2, <2>2
  <2> QED
    BY <2>1, <2>2
<1>4. w.when \in Nat /\ w.timeoutMillisec \in Timeouts
  BY <1>3, WatchIs
<1> HIDE DEF w
<1>5. ares.query = "pending" => /\ watch.attached /\ ares.due \in Nat /\ ares.due <= w.when
                                /\ w.timeoutMillisec # INFINITE_MSEC
  BY <1>3, TimerIs
<1>6. Rewatched(w, ares)
  BY <1>2, <1>3, <1>5 DEF Rewatched
<1>7. w.timeoutMillisec # INFINITE_MSEC =>
        /\ Remaining(w) = Millis(w.when) /\ Remaining(w) \in Nat
        /\ w.when <= Remaining(w) * TicksPerMilli
        /\ Remaining(w) * TicksPerMilli < w.when + TicksPerMilli
        /\ Remaining(w) * TicksPerMilli \in Nat /\ Remaining(w) # INFINITE_MSEC
  <2> DEFINE m == Millis(w.when)
  <2>1. /\ m \in Nat /\ w.when <= m * TicksPerMilli
        /\ m * TicksPerMilli < w.when + TicksPerMilli
    BY <1>4, Rounds
  <2>2. m * TicksPerMilli \in Nat /\ m # INFINITE_MSEC
    BY <2>1, TicksPerMilliAssumption DEF INFINITE_MSEC
  <2> HIDE DEF m
  <2>3. w.timeoutMillisec # INFINITE_MSEC => Remaining(w) = m
    BY DEF Remaining, m
  <2> QED
    BY <2>1, <2>2, <2>3 DEF m
<1>8. w.timeoutMillisec = INFINITE_MSEC => Remaining(w) = INFINITE_MSEC
  BY DEF Remaining
<1>9. now \in SUBSET {"watch", "starter"} /\ ("watch" \in now => watch.attached /\ Remaining(w) = 0)
  OBVIOUS
<1>10. /\ now # {} => sleep = 0
       /\ now = {} /\ watch.attached /\ Remaining(w) # INFINITE_MSEC =>
             sleep = Remaining(w) * TicksPerMilli
       /\ now = {} /\ ~(watch.attached /\ Remaining(w) # INFINITE_MSEC) =>
             sleep = INFINITE_MSEC
  <2> HIDE DEF now
  <2> QED
    OBVIOUS
<1> HIDE DEF now, sleep
<1>11. /\ sleep \in Timeouts
       /\ ares.query = "pending" => sleep # INFINITE_MSEC /\ sleep < w.when + TicksPerMilli
  <2>1. 0 \in Timeouts /\ INFINITE_MSEC \in Timeouts /\ 0 # INFINITE_MSEC
    BY DEF Timeouts, INFINITE_MSEC
  <2>2. CASE now # {}
    <3>1. 0 < w.when + TicksPerMilli
      BY <1>4, TicksPerMilliAssumption
    <3> QED
      BY <1>10, <2>1, <2>2, <3>1
  <2>3. CASE now = {} /\ watch.attached /\ Remaining(w) # INFINITE_MSEC
    <3>1. w.timeoutMillisec # INFINITE_MSEC
      BY <1>8, <2>3
    <3>2. sleep = Remaining(w) * TicksPerMilli /\ sleep \in Nat
      BY <1>7, <1>10, <2>3, <3>1
    <3>3. sleep < w.when + TicksPerMilli
      BY <1>7, <3>1, <3>2
    <3>4. sleep \in Timeouts /\ sleep # INFINITE_MSEC
      BY <3>2 DEF Timeouts, INFINITE_MSEC
    <3> QED
      BY <3>3, <3>4
  <2>4. CASE now = {} /\ ~(watch.attached /\ Remaining(w) # INFINITE_MSEC)
    <3>1. ares.query # "pending"
      BY <1>5, <1>7, <2>4
    <3> QED
      BY <1>10, <2>1, <2>4, <3>1
  <2> QED
    BY <2>2, <2>3, <2>4
<1>12. "watch" \in now => ares.query = "pending" /\ ares.due = 0
  <2> SUFFICES ASSUME "watch" \in now PROVE ares.query = "pending" /\ ares.due = 0
    OBVIOUS
  <2>1. watch.attached /\ Remaining(w) = 0
    BY <1>9
  <2>2. w.timeoutMillisec # INFINITE_MSEC
    BY <1>8, <2>1 DEF INFINITE_MSEC
  <2>3. ares.query = "pending"
    BY <1>3, <2>2, SessionIs
  <2>4. w.when <= 0 * TicksPerMilli
    BY <1>7, <2>1, <2>2
  <2>5. 0 * TicksPerMilli = 0
    BY TicksPerMilliAssumption
  <2>6. w.when <= 0 /\ ares.due <= w.when /\ ares.due \in Nat
    BY <1>5, <2>3, <2>4, <2>5
  <2> QED
    BY <1>4, <2>3, <2>6
<1>13. LoopOK'
  <2>1. loop'.phase = "poll" /\ loop'.ready = now /\ loop'.sleep = sleep
    BY <1>1
  <2>2. loop' \in [phase : {"poll", "dispatch"}, ready : SUBSET {"watch", "starter"},
                   sleep : Timeouts]
    BY <1>1, <1>9, <1>11
  <2>3. PollOK'
    BY <1>1, <1>3, <1>11, <2>1 DEF PollOK
  <2>4. ReadyOK'
    BY <1>1, <1>12, <2>1 DEF ReadyOK
  <2> QED
    BY <2>2, <2>3, <2>4 DEF LoopOK
<1> QED
  BY <1>1, <1>6, <1>13, RewatchedKeeps

(* What poll() writes into the table.                                      *)
LEMMA Polls ==
    ASSUME NEW w \in SoundWatches, NEW rev \in [w.polled -> Indications]
    PROVE  LET r == Polled(w, rev)
           IN  /\ r \in SoundWatches /\ Known(r) = Known(w) /\ SameTimer(r, w)
               /\ \A f \in Known(r) : r.descTable[f].events = w.descTable[f].events
<1> DEFINE S == Known(w)
           t == [f \in S |-> IF f \in w.polled THEN [w.descTable[f] EXCEPT !.revents = rev[f]]
                             ELSE w.descTable[f]]
           r == Polled(w, rev)
<1>1. /\ S \in SUBSET Fds /\ w.descTable \in [S -> Descriptors] /\ w \in Watches
      /\ w.polled = {f \in S : w.descTable[f].pollAdded}
  BY WatchIs
<1>2. \A f \in S : /\ t[f] \in Descriptors /\ t[f].events = w.descTable[f].events
                   /\ t[f].pollAdded = w.descTable[f].pollAdded
  <2> SUFFICES ASSUME NEW f \in S
               PROVE  /\ t[f] \in Descriptors /\ t[f].events = w.descTable[f].events
                      /\ t[f].pollAdded = w.descTable[f].pollAdded
    OBVIOUS
  <2> DEFINE d == w.descTable[f]
             i == rev[f]
  <2>1. d \in Descriptors
    BY <1>1
  <2>2. CASE f \in w.polled
    <3>1. i \in Indications /\ t[f] = [d EXCEPT !.revents = i]
      BY <2>2
    <3> HIDE DEF d, i, t
    <3>2. t[f] \in Descriptors /\ t[f].events = d.events /\ t[f].pollAdded = d.pollAdded
      BY <2>1, <3>1 DEF Descriptors
    <3> QED
      BY <3>2 DEF d
  <2>3. CASE f \notin w.polled
    BY <2>1, <2>3
  <2> QED
    BY <2>2, <2>3
<1>3. t \in [S -> Descriptors]
  BY <1>2
<1>4. w.polled = {f \in S : t[f].pollAdded}
  BY <1>1, <1>2
<1>5. r = [w EXCEPT !.descTable = t]
  BY DEF Polled
<1> HIDE DEF S, t, r
<1>6. r = [w EXCEPT !.descTable = t, !.polled = w.polled]
  BY <1>1, <1>5 DEF Watches
<1>7. r = [w EXCEPT !.descTable = t, !.polled = {f \in S : t[f].pollAdded}]
  BY <1>4, <1>6
<1>8. Retabled(r, w, S, t)
  BY <1>1, <1>3, <1>7 DEF Retabled
<1>9. r \in SoundWatches /\ Known(r) = S /\ r.descTable = t /\ SameTimer(r, w)
  BY <1>8, TableChanges
<1> QED
  BY <1>2, <1>9 DEF r, S

(* What poll() found makes the watch ready when c-ares is due or has       *)
(* something to read, and not otherwise.                                   *)
LEMMA ReadyRecords ==
    ASSUME NEW w, NEW f \in Known(w), IndEvents(w, f) # {}
    PROVE  PollRecs(w) # {}
<1> DEFINE S == {g \in Known(w) : IndEvents(w, g) # {}}
           rec(g) == [fd |-> g, req |-> w.descTable[g].events, ind |-> IndEvents(w, g)]
<1>1. f \in S
  OBVIOUS
<1>2. PollRecs(w) = {rec(g) : g \in S}
  BY DEF PollRecs
<1> HIDE DEF S, rec
<1>3. rec(f) \in {rec(g) : g \in S}
  BY <1>1
<1> QED
  BY <1>2, <1>3

LEMMA ChecksReady ==
    ASSUME LookupInv, loop.phase = "poll", NEW w, Rewatched(w, ares),
           w.restartTimer = watch.restartTimer, w.when = watch.when,
           watch.attached, Check(w)
    PROVE  ares.query = "pending" /\ (ares.due = 0 \/ PollRecs(w) # {})
<1>1. watch.attached => ~watch.restartTimer
  BY StateIs DEF LoopOK, PollOK
<1>2. w.timeoutMillisec = watch.timeoutMillisec /\ Known(w) = Known(watch)
  BY DEF Rewatched
<1>3. CASE TimerExpired(w)
  <2>1. w.timeoutMillisec # INFINITE_MSEC /\ watch.when = 0
    BY <1>3 DEF TimerExpired
  <2>2. ares.query = "pending"
    BY <1>2, <2>1, SessionIs
  <2>3. ares.due \in Nat /\ ares.due <= watch.when
    BY <1>1, <2>2, TimerIs
  <2>4. ares.due = 0
    BY <2>1, <2>3
  <2> QED
    BY <2>2, <2>4
<1>4. CASE \E f \in Known(w) : IndEvents(w, f) # {}
  <2>1. PICK f \in Known(w) : IndEvents(w, f) # {}
    BY <1>4
  <2>2. PollRecs(w) # {}
    BY <2>1, ReadyRecords
  <2>3. f \in DOMAIN ares.socks
    BY <1>2, <2>1, StateIs DEF Worlds, Asks
  <2>4. ares # NoAres
    BY <2>3 DEF NoAres, NoDescriptors
  <2>5. ares.query = "pending"
    <3>1. ChannelOK(World) /\ World.ares = ares
      BY StateIs DEF Quiet
    <3> QED
      BY <2>4, <3>1 DEF ChannelOK
  <2> QED
    BY <2>2, <2>5
<1> QED
  BY <1>3, <1>4 DEF Check

LEMMA PollAndCheckKeeps ==
    ASSUME LookupInv, PollAndCheck
    PROVE  LookupInv'
<1>1. PICK rev \in [watch.polled -> Indications] :
         LET w == Polled(watch, rev)
             checked == watch.attached /\ "watch" \notin loop.ready
         IN /\ watch' = w
            /\ loop' = [loop EXCEPT !.phase = "dispatch",
                            !.ready = @ \cup IF checked /\ Check(w) THEN {"watch"} ELSE {}]
            /\ fault' = IF checked /\ w.restartTimer /\ fault = ""
                          THEN "timer not started" ELSE fault
  BY DEF PollAndCheck
<1>2. loop.phase = "poll" /\ UNCHANGED <<ses, starter, ares, told, asked>>
  BY DEF PollAndCheck
<1> DEFINE w == Polled(watch, rev)
           checked == watch.attached /\ "watch" \notin loop.ready
           more == IF checked /\ Check(w) THEN {"watch"} ELSE {}
<1>3. /\ watch' = w
      /\ loop' = [loop EXCEPT !.phase = "dispatch", !.ready = @ \cup more]
      /\ fault' = IF checked /\ w.restartTimer /\ fault = "" THEN "timer not started" ELSE fault
  BY <1>1
<1>4. watch \in SoundWatches /\ ares \in AresChannels /\ LoopOK
  BY StateIs
<1>5. /\ w \in SoundWatches /\ Known(w) = Known(watch) /\ SameTimer(w, watch)
      /\ \A f \in Known(w) : w.descTable[f].events = watch.descTable[f].events
  BY <1>4, Polls
<1>6. "watch" \in more => checked /\ Check(w)
  OBVIOUS
<1>7. more \in SUBSET {"watch", "starter"}
  OBVIOUS
<1> HIDE DEF w, more
<1>8. Rewatched(w, ares)
  <2>1. ares.query = "pending" =>
          ares.due <= IF w.restartTimer THEN w.timeoutMillisec * TicksPerMilli ELSE w.when
    <3>1. ares.query = "pending" =>
            ares.due <= IF watch.restartTimer THEN watch.timeoutMillisec * TicksPerMilli
                        ELSE watch.when
      BY TimerIs, <1>4, WatchIs
    <3> QED
      BY <1>5, <3>1 DEF SameTimer
  <2> QED
    BY <1>4, <1>5, <2>1 DEF Rewatched, SameTimer
<1>9. fault' = fault
  <2>1. watch.attached => ~watch.restartTimer
    BY <1>2, <1>4 DEF LoopOK, PollOK
  <2> QED
    BY <1>3, <1>5, <2>1 DEF SameTimer
<1>10. /\ loop' \in [phase : {"poll", "dispatch"}, ready : SUBSET {"watch", "starter"},
                     sleep : Timeouts]
       /\ loop'.phase = "dispatch" /\ loop'.ready = loop.ready \cup more
  BY <1>3, <1>4, <1>7 DEF LoopOK
<1>11. PollOK'
  BY <1>10 DEF PollOK
<1>12. ReadyOK'
  <2> SUFFICES ASSUME "watch" \in loop'.ready PROVE ReadyOK'
    BY DEF ReadyOK
  <2>1. CASE "watch" \in loop.ready
    <3>1. asked \/ ses.lookupState = "finished" \/ (ares.query = "pending" /\ ares.due = 0)
      BY <1>2, <1>4, <2>1 DEF LoopOK, ReadyOK
    <3> QED
      BY <1>2, <3>1 DEF ReadyOK
  <2>2. CASE "watch" \in more
    <3>1. ares.query = "pending" /\ (ares.due = 0 \/ PollRecs(w) # {})
      BY <1>2, <1>5, <1>6, <1>8, <2>2, ChecksReady DEF SameTimer
    <3> QED
      BY <1>2, <1>3, <1>10, <3>1 DEF ReadyOK
  <2> QED
    BY <1>10, <2>1, <2>2
<1>13. LoopOK'
  BY <1>10, <1>11, <1>12 DEF LoopOK
<1> QED
  BY <1>2, <1>3, <1>8, <1>9, <1>13, RewatchedKeeps

(* Time passes for the timer and for c-ares alike.                         *)
Ticked(a) == [a EXCEPT !.due = IF @ = 0 THEN 0 ELSE @ - 1]

LEMMA Earlier ==
    ASSUME NEW n \in Nat, NEW m \in Nat
    PROVE  LET less(k) == IF k = 0 THEN 0 ELSE k - 1
           IN  /\ less(n) \in Nat /\ less(n) <= n /\ n <= less(n) + 1
               /\ n <= m => less(n) <= less(m)
  OBVIOUS

LEMMA TicksWatch ==
    ASSUME NEW w \in SoundWatches
    PROVE  LET r == TickWatch(w)
           IN  /\ r \in SoundWatches /\ Known(r) = Known(w) /\ r.descTable = w.descTable
               /\ r.attached = w.attached /\ r.restartTimer = w.restartTimer
               /\ r.timeoutMillisec = w.timeoutMillisec
               /\ r.when = IF w.when = 0 THEN 0 ELSE w.when - 1
               /\ PollRecs(r) = PollRecs(w)
<1> DEFINE n == IF w.when = 0 THEN 0 ELSE w.when - 1
           r == TickWatch(w)
<1>1. w \in Watches /\ w.when \in Nat /\ w.timeoutMillisec \in Timeouts
      /\ w.polled = {f \in Known(w) : w.descTable[f].pollAdded}
  BY WatchIs
<1>2. n \in Nat
  BY <1>1
<1>3. r = [w EXCEPT !.when = n]
  BY <1>1 DEF TickWatch
<1> HIDE DEF n, r
<1>4. /\ r \in Watches /\ r.descTable = w.descTable /\ r.polled = w.polled
      /\ r.attached = w.attached /\ r.restartTimer = w.restartTimer
      /\ r.timeoutMillisec = w.timeoutMillisec /\ r.when = n
  BY <1>1, <1>2, <1>3 DEF Watches
<1>5. Known(r) = Known(w)
  BY <1>4 DEF Known
<1>6. r \in SoundWatches
  BY <1>1, <1>4, <1>5 DEF SoundWatches
<1>7. PollRecs(r) = PollRecs(w)
  BY <1>4, <1>5 DEF PollRecs, IndEvents
<1> QED
  BY <1>4, <1>5, <1>6, <1>7 DEF n, r

LEMMA TicksAres ==
    ASSUME NEW a \in AresChannels
    PROVE  LET r == Ticked(a)
           IN  /\ r \in AresChannels /\ r.query = a.query /\ r.socks = a.socks
               /\ a.due \in Nat /\ r.due = IF a.due = 0 THEN 0 ELSE a.due - 1
               /\ a = NoAres => r = NoAres
<1> DEFINE n == IF a.due = 0 THEN 0 ELSE a.due - 1
           r == Ticked(a)
<1>1. a.due \in 0 .. AresTimeout
  BY DEF AresChannels
<1>2. n \in 0 .. AresTimeout /\ a.due \in Nat
  BY <1>1, AresAssumption
<1>3. r = [a EXCEPT !.due = n]
  BY DEF AresChannels, Ticked
<1>4. a = NoAres => r = NoAres
  BY DEF NoAres, Ticked
<1> HIDE DEF n, r
<1>5. r \in AresChannels /\ r.query = a.query /\ r.socks = a.socks /\ r.due = n
  BY <1>2, <1>3 DEF AresChannels
<1> QED
  BY <1>2, <1>4, <1>5 DEF n, r

LEMMA TickKeeps ==
    ASSUME LookupInv, Tick
    PROVE  LookupInv'
<1> DEFINE w == TickWatch(watch)
           a == Ticked(ares)
           s == IF loop.sleep > 0 THEN loop.sleep - 1 ELSE loop.sleep
<1>1. /\ watch \in SoundWatches /\ ares \in AresChannels /\ PollOK /\ ReadyOK
      /\ loop \in [phase : {"poll", "dispatch"}, ready : SUBSET {"watch", "starter"},
                   sleep : Timeouts]
  BY StateIs DEF LoopOK
<1>2. /\ loop.phase = "poll" => loop.sleep # 0
      /\ watch' = w /\ ares' = a /\ loop' = [loop EXCEPT !.sleep = s]
      /\ UNCHANGED <<ses, starter, told, asked, fault>>
  BY DEF Tick, Ticked
<1>3. /\ w \in SoundWatches /\ Known(w) = Known(watch) /\ w.descTable = watch.descTable
      /\ w.attached = watch.attached /\ w.restartTimer = watch.restartTimer
      /\ w.timeoutMillisec = watch.timeoutMillisec
      /\ w.when = (IF watch.when = 0 THEN 0 ELSE watch.when - 1)
      /\ PollRecs(w) = PollRecs(watch)
  BY <1>1, TicksWatch
<1>4. /\ a \in AresChannels /\ a.query = ares.query /\ a.socks = ares.socks
      /\ ares.due \in Nat /\ a.due = (IF ares.due = 0 THEN 0 ELSE ares.due - 1)
      /\ ares = NoAres => a = NoAres
  BY <1>1, TicksAres
<1>5. watch.when \in Nat
  BY <1>1, WatchIs
<1> HIDE DEF w, a
<1>6. a.query = "pending" =>
        a.due <= IF w.restartTimer THEN w.timeoutMillisec * TicksPerMilli ELSE w.when
  <2> SUFFICES ASSUME a.query = "pending"
               PROVE  a.due <= IF w.restartTimer THEN w.timeoutMillisec * TicksPerMilli
                               ELSE w.when
    OBVIOUS
  <2>1. /\ watch.timeoutMillisec \in Nat
        /\ watch.restartTimer => ares.due <= watch.timeoutMillisec * TicksPerMilli
        /\ ~watch.restartTimer => ares.due <= watch.when
    BY <1>4, TimerIs
  <2>2. watch.timeoutMillisec * TicksPerMilli \in Nat
    BY <2>1, TicksPerMilliAssumption
  <2>3. a.due \in Nat /\ a.due <= ares.due /\ (ares.due <= watch.when => a.due <= w.when)
    <3>1. w.when \in Nat
      BY <1>3, WatchIs
    <3> QED
      BY <1>3, <1>4, <1>5, <3>1, Earlier
  <2>4. CASE watch.restartTimer
    <3>1. ares.due <= watch.timeoutMillisec * TicksPerMilli
      BY <2>1, <2>4
    <3>2. a.due <= watch.timeoutMillisec * TicksPerMilli
      BY <1>4, <2>2, <2>3, <3>1
    <3> QED
      BY <1>3, <2>4, <3>2
  <2>5. CASE ~watch.restartTimer
    BY <1>3, <2>1, <2>3, <2>5
  <2> QED
    BY <2>4, <2>5
<1>7. Rewatched(w, a)
  <2>1. \A f \in Known(w) : w.descTable[f].events = watch.descTable[f].events
    BY <1>3
  <2> QED
    BY <1>3, <1>4, <1>6, <2>1 DEF Rewatched
<1>8. s \in Timeouts
  BY <1>1 DEF Timeouts, INFINITE_MSEC
<1> HIDE DEF s
<1>9. /\ loop' \in [phase : {"poll", "dispatch"}, ready : SUBSET {"watch", "starter"},
                    sleep : Timeouts]
      /\ loop'.phase = loop.phase /\ loop'.ready = loop.ready /\ loop'.sleep = s
  BY <1>1, <1>2, <1>8
<1>10. PollOK'
  <2> SUFFICES ASSUME loop.phase = "poll"
               PROVE  /\ w.attached => ~w.restartTimer
                      /\ a.query = "pending" =>
                            s # INFINITE_MSEC /\ s < w.when + TicksPerMilli
    BY <1>2, <1>9 DEF PollOK
  <2>1. w.attached => ~w.restartTimer
    BY <1>1, <1>3 DEF PollOK
  <2>2. ASSUME a.query = "pending"
        PROVE  s # INFINITE_MSEC /\ s < w.when + TicksPerMilli
    <3>1. loop.sleep # INFINITE_MSEC /\ loop.sleep < watch.when + TicksPerMilli
      BY <1>1, <1>4, <2>2 DEF PollOK
    <3>2. loop.sleep \in Nat /\ loop.sleep # 0
      BY <1>1, <1>2, <3>1 DEF Timeouts
    <3>3. s = loop.sleep - 1
      BY <3>2 DEF s
    <3>4. watch.when <= w.when + 1 /\ w.when \in Nat
      BY <1>3, <1>5
    <3>5. s \in Nat
      BY <3>2, <3>3
    <3>6. s < w.when + TicksPerMilli
      BY <1>5, <3>1, <3>2, <3>3, <3>4, TicksPerMilliAssumption
    <3> QED
      BY <3>5, <3>6 DEF INFINITE_MSEC
  <2> QED
    BY <2>1, <2>2
<1>11. ReadyOK'
  <2>1. ares.due = 0 => a.due = 0
    BY <1>4
  <2>2. PollRecs(watch)' = PollRecs(w)
    BY <1>2
  <2> QED
    BY <1>1, <1>2, <1>3, <1>4, <1>9, <2>1, <2>2 DEF ReadyOK
<1>12. LoopOK'
  BY <1>9, <1>10, <1>11 DEF LoopOK
<1> QED
  BY <1>2, <1>7, <1>12, RewatchedKeeps

(* The session does not exist at first.                                    *)
LEMMA InitQuiet ==
    ASSUME Init
    PROVE  LookupInv
<1>1. /\ ses = NoSession /\ watch = NewWatch /\ starter = NoStarter /\ ares = NoAres
      /\ loop = [phase |-> "dispatch", ready |-> {}, sleep |-> 0]
      /\ told = 0 /\ asked = FALSE /\ fault = ""
  BY DEF Init
<1>2. NoSession \in Sessions /\ NoStarter \in Starters
  BY DEF NoSession, Sessions, LookupStates, NoStarter, Starters
<1>3. /\ NoDescriptors \in [{} -> Descriptors] /\ NoDescriptors \in [{} -> AresRequests]
      /\ DOMAIN NoDescriptors = {}
  BY DEF NoDescriptors
<1>4. /\ NoDescriptors \in UNION {[T -> Descriptors] : T \in SUBSET Fds}
      /\ NoDescriptors \in Sockets
  BY <1>3, IsTable DEF Sockets
<1>5. NoAres \in AresChannels /\ NoAres.socks = NoDescriptors /\ NoAres.query = "none"
  <2>1. 0 \in 0 .. AresTries /\ 0 \in 0 .. AresTimeout
    BY AresAssumption
  <2> QED
    BY <1>4, <2>1 DEF NoAres, AresChannels
<1>6. NewWatch \in SoundWatches /\ Known(NewWatch) = {} /\ ~NewWatch.attached
      /\ NewWatch.timeoutMillisec = INFINITE_MSEC
  <2>1. INFINITE_MSEC \in Int /\ INFINITE_MSEC \in Timeouts
    BY DEF INFINITE_MSEC, Timeouts
  <2>2. /\ NewWatch \in Watches /\ NewWatch.timeoutMillisec = INFINITE_MSEC
        /\ NewWatch.polled = {} /\ NewWatch.descTable = NoDescriptors /\ ~NewWatch.attached
    BY <1>4, <2>1 DEF NewWatch, Watches
  <2>3. Known(NewWatch) = {}
    BY <1>3, <2>2 DEF Known
  <2> QED
    BY <2>1, <2>2, <2>3 DEF SoundWatches
<1>7. Asks(NewWatch, NoAres.socks)
  BY <1>3, <1>5, <1>6 DEF Asks
<1>8. World \in Worlds
  BY <1>1, <1>2, <1>5, <1>6, <1>7, IsWorld DEF World
<1>9. /\ World.ses = NoSession /\ World.w = NewWatch /\ World.starter = NoStarter
      /\ World.ares = NoAres /\ World.asked = FALSE
  BY <1>1 DEF World
<1>10. Quiet(World) /\ StarterOK(World)
  <2>1. /\ NoSession.mem = FALSE /\ NoSession.chan = FALSE /\ NoSession.watch = FALSE
        /\ NoSession.queryStarter = FALSE /\ NoSession.needDestroy = FALSE
        /\ NoSession.aresHostCbWasCalled = FALSE /\ NoSession.inCb = 0
        /\ NoSession.lookupState = "none"
    BY DEF NoSession
  <2>2. NewWatch.attached = FALSE
    BY DEF NewWatch
  <2>3. ChannelOK(World)
    BY <1>5, <1>6, <1>9, <2>1, <2>2 DEF ChannelOK
  <2>4. NoneOK(World) /\ TimerOK(World) /\ StateOK(World)
    BY <1>5, <1>9, <2>1 DEF NoneOK, TimerOK, StateOK
  <2> QED
    BY <1>9, <2>1, <2>3, <2>4 DEF Quiet, StarterOK
<1>11. LoopOK
  <2>1. 0 \in Timeouts
    BY DEF Timeouts
  <2> QED
    BY <1>1, <2>1 DEF LoopOK, PollOK, ReadyOK
<1> QED
  BY <1>8, <1>10, <1>11 DEF LookupInv

(* Every step of the session, its user, the loop and time keeps it quiet.  *)
LEMMA StepKeeps ==
    ASSUME LookupInv, [Next]_vars
    PROVE  LookupInv'
<1>1. CASE \E outcome \in {"ok", "noWatch", "noAres"} : New(outcome)
  BY <1>1, NewKeeps
<1>2. CASE Start
  BY <1>2, StartKeeps
<1>3. CASE UserDestroy
  BY <1>3, UserDestroyKeeps
<1>4. CASE KickStart
  BY <1>4, KickStartKeeps
<1>5. CASE DispatchWatch
  BY <1>5, DispatchWatchKeeps
<1>6. CASE PrepareSources
  BY <1>6, PrepareSourcesKeeps
<1>7. CASE PollAndCheck
  BY <1>7, PollAndCheckKeeps
<1>8. CASE Tick
  BY <1>8, TickKeeps
<1>9. CASE UNCHANGED vars
  <2>1. /\ ses' = ses /\ watch' = watch /\ starter' = starter /\ ares' = ares
        /\ loop' = loop /\ told' = told /\ asked' = asked /\ fault' = fault
    BY <1>9 DEF vars
  <2>2. World' = World /\ PollOK' = PollOK /\ ReadyOK' = ReadyOK
    BY <2>1 DEF World, PollOK, ReadyOK
  <2>3. LoopOK' = LoopOK
    BY <2>1, <2>2 DEF LoopOK
  <2> QED
    BY <2>2, <2>3 DEF LookupInv
<1> QED
  BY <1>1, <1>2, <1>3, <1>4, <1>5, <1>6, <1>7, <1>8, <1>9 DEF Next

-----------------------------------------------------------------------------
(* The theorems.                                                           *)

(* Between callbacks the session is none, waits to be started, waits for   *)
(* its idle source, waits for c-ares, or has answered, and what it holds   *)
(* of the others is what that needs.                                       *)
THEOREM SessionIsQuiet == Spec => []LookupInv
<1>1. Init => LookupInv
  BY InitQuiet
<1>2. LookupInv /\ [Next]_vars => LookupInv'
  BY StepKeeps
<1> QED
  BY <1>1, <1>2, PTL DEF Spec

(* The session, the watch, c-ares and the loop have their types.           *)
THEOREM LookupTypeCorrect == Spec => []TypeOK
<1>1. LookupInv => TypeOK
  <2> SUFFICES ASSUME LookupInv PROVE TypeOK
    OBVIOUS
  <2>1. /\ ses \in Sessions /\ watch \in SoundWatches /\ starter \in Starters
        /\ ares \in AresChannels /\ told \in Nat /\ asked \in BOOLEAN /\ LoopOK
    BY StateIs
  <2>2. watch \in Watches
    BY <2>1, WatchIs
  <2> QED
    BY <2>1, <2>2 DEF TypeOK, Sessions, Starters, AresChannels, LoopOK, Timeouts
<1> QED
  BY <1>1, SessionIsQuiet, PTL

(* Whoever destroys the session and wherever, in the callback, between two *)
(* descriptors or while c-ares is destroyed, nothing that was freed is     *)
(* used, no source is unreferenced twice and c-ares answers once.          *)
THEOREM LookupUsesNothingFreed == Spec => []NothingUsedAfterFree
<1>1. LookupInv => NothingUsedAfterFree
  BY StateIs DEF NothingUsedAfterFree
<1> QED
  BY <1>1, SessionIsQuiet, PTL

(* The watch has the sockets of c-ares, for what they wait for, and GLib   *)
(* polls the descriptors it was given and no others.                       *)
THEOREM WatchFollowsAres == Spec => []WatchMatchesAres
<1>1. LookupInv => WatchMatchesAres
  <2> SUFFICES ASSUME LookupInv PROVE WatchMatchesAres
    OBVIOUS
  <2>1. watch.attached = ses.chan
    BY SessionIs
  <2>2. watch \in SoundWatches /\ Asks(watch, ares.socks)
    BY StateIs
  <2> QED
    BY <2>1, <2>2, WatchIs DEF WatchMatchesAres, Asks
<1> QED
  BY <1>1, SessionIsQuiet, PTL

(* A session that has answered holds no channel and no watch, one that was *)
(* destroyed is gone, and no idle source outlives its query.               *)
THEOREM LookupLeaksNothing == Spec => []NothingLeaks
<1>1. LookupInv => NothingLeaks
  <2> SUFFICES ASSUME LookupInv PROVE NothingLeaks
    OBVIOUS
  <2>1. /\ ses.watch = ses.chan /\ watch.attached = ses.chan
        /\ ses.chan <=> ses.lookupState \in {"initialized", "running"}
        /\ ses.aresHostCbWasCalled <=> ses.lookupState = "finished"
        /\ ses.lookupState = "none" <=> ~ses.mem
        /\ ses.mem => ~asked
        /\ ses.queryStarter => ses.lookupState = "running"
        /\ starter = IF ses.queryStarter THEN IdleSource ELSE NoStarter
    BY SessionIs
  <2>2. starter.refs = IF ses.queryStarter THEN 2 ELSE 0
    BY <2>1 DEF IdleSource, NoStarter
  <2>3. ses.chan \in BOOLEAN /\ ses.watch \in BOOLEAN
    BY StateIs DEF Sessions
  <2> QED
    BY <2>1, <2>2, <2>3 DEF NothingLeaks
<1> QED
  BY <1>1, SessionIsQuiet, PTL

(* While it polls, the loop sleeps no longer than a rounding after what is *)
(* left of the timer of a session that waits for c-ares.                   *)
THEOREM LoopWakesUp == Spec => []WakesUp
<1>1. LookupInv => WakesUp
  BY StateIs DEF LoopOK, PollOK, WakesUp
<1> QED
  BY <1>1, SessionIsQuiet, PTL

(* A dispatch of the watch without anything to read finds c-ares due: the  *)
(* timer never drives it too early.                                        *)
THEOREM TimerIsNotEarly == Spec => TimerNotEarly
<1> DEFINE Early ==
      watch.attached /\ PollRecs(watch) = {} /\ "watch" \in loop.ready \ loop'.ready
        => ares.due = 0
<1>1. LookupInv => Early
  <2> SUFFICES ASSUME LookupInv, watch.attached, PollRecs(watch) = {}, "watch" \in loop.ready
               PROVE  ares.due = 0
    OBVIOUS
  <2>1. ~asked /\ ses.lookupState # "finished"
    BY ReadyWatch
  <2> QED
    BY <2>1, StateIs DEF LoopOK, ReadyOK
<1>2. TimerNotEarly <=> [][Early]_vars
  BY DEF TimerNotEarly
<1> HIDE DEF Early
<1> QED
  BY <1>1, <1>2, SessionIsQuiet, PTL

-----------------------------------------------------------------------------
(* The contract of a lookup.                                               *)

StatusOf(state, gone) ==
    IF gone THEN "destroyed"
    ELSE IF state = "initialized" THEN "created"
    ELSE IF state = "finished" THEN "answered" ELSE state

(* What the user of a lookup is promised of each step: it starts, answers  *)
(* once and is destroyed, or nothing the user sees happens.                *)
Promised(before, after, n, now) ==
    \/ before = "none" /\ after = "created" /\ now = n
    \/ before = "created" /\ after = "running" /\ now = n
    \/ before = "running" /\ after \in {"answered", "destroyed"} /\ now = OneMore(n)
    \/ before \in {"created", "running", "answered"} /\ after = "destroyed" /\ now = n
    \/ after = before /\ now = n

LEMMA StatusIs ==
    ASSUME TRUE
    PROVE  /\ Status = StatusOf(ses.lookupState, asked)
           /\ Status' = StatusOf(ses'.lookupState, asked')
<1>1. Status = StatusOf(ses.lookupState, asked)
  BY DEF Status, StatusOf
<1>2. Status' = StatusOf(ses'.lookupState, asked')
  BY DEF Status, StatusOf
<1> QED
  BY <1>1, <1>2

LEMMA AnswerIsPromised ==
    ASSUME ses.lookupState = "running", ~asked,
           Seen(ses'.lookupState, asked', told, told')
    PROVE  Promised(Status, Status', told, told')
  BY StatusIs DEF Seen, Promised, StatusOf

LEMMA StepIsPromised ==
    ASSUME LookupInv, [Next]_vars
    PROVE  Promised(Status, Status', told, told')
<1>1. CASE \E outcome \in {"ok", "noWatch", "noAres"} : New(outcome)
  <2>1. PICK outcome \in {"ok", "noWatch", "noAres"} : New(outcome)
    BY <1>1
  <2>2. ses.lookupState = "none" /\ ~asked
    BY <2>1 DEF New
  <2>3. told' = told /\ asked' = asked /\ ses'.lookupState \in {"none", "initialized"}
    BY <2>1, NewKeeps
  <2> QED
    BY <2>2, <2>3, StatusIs DEF Promised, StatusOf
<1>2. CASE Start
  <2>1. ses.lookupState = "initialized" /\ told' = told /\ asked' = asked
    BY <1>2 DEF Start
  <2>2. ses'.lookupState = "running"
    <3>1. ses \in Sessions
      BY StateIs
    <3> QED
      BY <1>2, <3>1 DEF Start, Sessions
  <2>3. ~asked
    BY <2>1, SessionIs
  <2> QED
    BY <2>1, <2>2, <2>3, StatusIs DEF Promised, StatusOf
<1>3. CASE UserDestroy
  <2>1. ses.mem /\ told' = told /\ asked'
    BY <1>3, UserDestroyKeeps DEF UserDestroy
  <2>2. ~asked /\ ses.lookupState \in {"initialized", "running", "finished"}
    <3>1. StateOK(World) /\ World.ses = ses
      BY StateIs DEF Quiet
    <3> QED
      BY <2>1, <3>1, SessionIs DEF StateOK
  <2> QED
    BY <2>1, <2>2, StatusIs DEF Promised, StatusOf
<1>4. CASE KickStart
  BY <1>4, KickStartKeeps, AnswerIsPromised
<1>5. CASE DispatchWatch
  BY <1>5, DispatchWatchKeeps, AnswerIsPromised
<1>6. CASE UNCHANGED <<ses, told, asked>>
  BY <1>6, StatusIs DEF Promised
<1>7. CASE PrepareSources \/ PollAndCheck \/ Tick \/ UNCHANGED vars
  BY <1>6, <1>7 DEF PrepareSources, PollAndCheck, Tick, vars
<1> QED
  BY <1>1, <1>2, <1>3, <1>4, <1>5, <1>7 DEF Next

(* The contract, but for its fairness.                                     *)
ContractSafety == Contract!Init /\ [][Contract!Next]_(Contract!vars)

(* What the lookup does is what its contract promises, for any c-ares: one *)
(* answer to a session that was started and is not destroyed before, and   *)
(* nothing that its user sees afterwards.  (That the answer comes is       *)
(* liveness.)                                                              *)
THEOREM LookupKeepsContract == Spec => ContractSafety
<1>1. Init => Contract!Init
  <2> SUFFICES ASSUME Init PROVE Contract!Init
    OBVIOUS
  <2>1. ses.lookupState = "none" /\ ~asked /\ told = 0
    BY DEF Init, NoSession
  <2>2. Status = "none"
    BY <2>1, StatusIs DEF StatusOf
  <2> QED
    BY <2>1, <2>2 DEF Contract!Init
<1>2. LookupInv /\ [Next]_vars => [Contract!Next]_(Contract!vars)
  <2> SUFFICES ASSUME LookupInv, [Next]_vars
               PROVE  [Contract!Next]_(Contract!vars)
    OBVIOUS
  <2>1. Promised(Status, Status', told, told')
    BY StepIsPromised
  <2> QED
    BY <2>1
       DEF Promised, OneMore, Contract!Next, Contract!vars, Contract!New, Contract!Start,
           Contract!Answer, Contract!Destroy
<1> QED
  BY <1>1, <1>2, SessionIsQuiet, PTL DEF Spec, ContractSafety
=============================================================================
