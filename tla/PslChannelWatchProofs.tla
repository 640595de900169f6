------------------------- MODULE PslChannelWatchProofs -------------------------
(***************************************************************************)
(* How a channel is woken up, proved for every value of the constants: its *)
(* watch asks for what the deferred I/O waits for, its timer is set only   *)
(* where it is turned off again, whatever is in progress has something     *)
(* that wakes it, and what the deferred I/O has obtained or lost stays so. *)
(***************************************************************************)
EXTENDS PslChannelProofs

(* Where the immediate timer may be set.                                   *)
TimerMeant(s, o) ==
    \/ s = "PLAIN_CONN" /\ o.err
    \/ s \in {"CRYPTO_CONN", "CRYPTO_SHUT"} /\ o.phase = "init"
    \/ s = "CRYPTO_RENEG" /\ o.phase \in {"init", "done"}

(* Phase by phase, what a renegotiation waits for,                         *)
RenegOK(o, y, w) ==
    /\ o.phase \in {"init", "flushOut", "requestHello", "handshake", "done"}
    /\ o.phase \in {"init", "done"} => w.timer
    /\ o.phase = "flushOut" => Pending(y.out)
    /\ o.phase \in {"requestHello", "handshake", "done"} => ~Pending(y.out)
    /\ o.phase = "requestHello" => w.events # {}
    /\ o.phase = "handshake" => InputReady(y) \/ w.events # {}

(* and a shutdown.                                                         *)
ShutOK(o, y, w) ==
    /\ o.phase \in {"init", "flushOut", "shut1", "shut2", "success"}
    /\ o.phase = "init" => w.timer
    /\ o.phase = "flushOut" => IF o.how = "twoWay" THEN w.events # {}
                               ELSE Pending(y.out) \/ y.in = "error"
    /\ o.phase \in {"shut1", "shut2"} => w.events # {}
    /\ o.phase \in {"shut1", "shut2", "success"} => ~Pending(y.out)
    /\ o.phase = "success" /\ o.how = "twoWay" => w.events = {}

Reads(s, o) ==
    \/ s = "CRYPTO_SSL"
    \/ s = "CRYPTO_SHUT" /\ o.how = "oneWay" /\ o.phase \in {"success", "flushOut"}

(* What is true of state s, its operation, deferred I/O and watch between  *)
(* any two events.  The condition cached for the watch is the one it asks  *)
(* for wherever the cache is consulted: a connection in progress in plain  *)
(* text sets the watch without it (psl_channel_fsm_plain.c), and its exit  *)
(* resets both.                                                            *)
WatchOK(s, o, y, w) ==
    /\ s \notin CryptoMode \ {"CRYPTO_CONN"} => y = NoIO
    /\ Shown(y)
    /\ s # "PLAIN_CONN" => w.last = w.events
    /\ w.timer => TimerMeant(s, o)
    /\ s \in {"INIT", "LOOKUP"} => w.events = {}
    /\ s = "PLAIN_CONN" => IF o.err THEN w.timer ELSE w.desc /\ w.events = {"OUT"}
    /\ s = "CRYPTO_CONN" => IF o.phase = "init" THEN w.timer ELSE w.events # {}
    /\ s = "CRYPTO_RENEG" => RenegOK(o, y, w)
    /\ s = "CRYPTO_SHUT" => ShutOK(o, y, w)
    /\ Reads(s, o) => w.events = DeferredCondition(y)

(* When GLib has found the watch ready: never before there is a watch nor  *)
(* after a two-way shutdown, and with a condition poll() reported where    *)
(* the handler insists on one.                                             *)
ReadyOK ==
    /\ state \in {"INIT", "LOOKUP"} => ~ready
    /\ state = "PLAIN_CONN" /\ ready => op.err \/ Indicated # {}
    /\ state = "CRYPTO_SHUT" /\ op.phase = "success" /\ op.how = "twoWay" => ~ready

WatchInv == WatchOK(state, op, io, watch) /\ ReadyOK

-----------------------------------------------------------------------------
(* The watch.                                                              *)

(* Arming a watch whose cache is right makes it ask for the condition.     *)
LEMMA ArmMeans ==
    ASSUME NEW w, w.last = w.events, NEW conds
    PROVE  /\ Arm(w, conds).events = conds /\ Arm(w, conds).last = conds
           /\ Arm(w, conds).timer = w.timer
  BY DEF Arm

(* The watches the handlers start from ask for nothing.                    *)
LEMMA NoWatchMeans ==
    /\ NoWatch.events = {} /\ NoWatch.last = {} /\ NoWatch.timer = FALSE
    /\ TimerWatch.events = {} /\ TimerWatch.last = {} /\ TimerWatch.timer
  BY DEF NoWatch, TimerWatch

(* Whoever waits for the socket watches it.                                *)
LEMMA PendingIsWatched ==
    /\ \A h \in Want : IOCondition(h) # {}
    /\ \A y : Pending(y.out) => DeferredCondition(y) # {}
<1>1. \A h \in Want : IOCondition(h) # {}
  BY DEF Want, IOCondition
<1> QED
  BY <1>1 DEF Pending, Want, DeferredCondition

(* What no transition within crypto mode undoes.                           *)
Stuck(y, z) ==
    /\ y.in = "error" => z.in = "error"
    /\ y.out = "error" => z.out = "error"
    /\ y.byte => z.byte

-----------------------------------------------------------------------------
(* Transitions.                                                            *)

(* The watch a state leaves behind has a right cache and no timer set.     *)
LEMMA ExitOK ==
    ASSUME TypeInv, WatchInv
    PROVE  /\ WatchAfterExit.last = WatchAfterExit.events /\ ~WatchAfterExit.timer
           /\ state \in {"INIT", "LOOKUP"} => WatchAfterExit.events = {}
  BY NoWatchMeans DEF WatchAfterExit, WatchInv, WatchOK, TimerMeant

(* Every transition, by its destination.                                   *)
LEMMA GotoWatch ==
    ASSUME TypeInv, WatchInv, NEW d \in States \ {"INIT"}, NEW o \in Ops,
           o.phase = "init" \/ d = "PLAIN_CONN",
           NEW y \in SoundIO, Shown(y), NEW t, NEW r, Goto(d, o, y, t, r),
           d = "LOOKUP" => state = "INIT",
           d = "CRYPTO_CONN" => y = NoIO
    PROVE  /\ WatchOK(state', op', io', watch')
           /\ d \in CryptoMode => Stuck(y, io')
<1>1. state' = d /\ op' = o
  BY DEF Goto
<1>2. PICK b \in Begin(d, o, y) : io' = b.io /\ watch' = b.watch
  BY DEF Goto
<1>3. NoIO \in SoundIO /\ Shown(NoIO)
  BY DEF NoIO, SoundIO, CryptoIO, DeferredOK, Pending, IOStates, Shown
<1> USE NoWatchMeans DEF WatchOK, TimerMeant, Reads
<1>4. CASE d \in {"CLOSED", "PLAIN_FAIL", "FINAL"}
  <2>1. io' = NoIO /\ watch' = NoWatch
    BY <1>2, <1>4 DEF Begin
  <2> QED
    BY <1>1, <1>3, <1>4, <2>1 DEF CryptoMode
<1>5. CASE d \in {"LOOKUP", "PLAIN_TCP", "PLAIN_SHUT"}
  <2>1. io' = NoIO /\ watch' = WatchAfterExit
    BY <1>2, <1>5 DEF Begin
  <2> QED
    BY <1>1, <1>3, <1>5, <2>1, ExitOK DEF CryptoMode
<1>6. CASE d = "PLAIN_CONN"
  <2>1. io' = NoIO /\ watch' = IF o.err THEN TimerWatch
                               ELSE [NoWatch EXCEPT !.desc = TRUE, !.events = {"OUT"}]
    BY <1>2, <1>6 DEF Begin
  <2>2. CASE o.err
    BY <1>1, <1>3, <1>6, <2>1, <2>2 DEF CryptoMode
  <2>3. CASE ~o.err
    <3>1. watch'.desc /\ watch'.events = {"OUT"} /\ ~watch'.timer
      BY <2>1, <2>3 DEF NoWatch
    <3> QED
      BY <1>1, <1>3, <1>6, <2>1, <2>3, <3>1 DEF CryptoMode
  <2> QED
    BY <2>2, <2>3
<1>7. CASE d = "CRYPTO_FAIL"
  <2>1. io' = y /\ watch' = WatchAfterExit
    BY <1>2, <1>7 DEF Begin
  <2> QED
    BY <1>1, <1>7, <2>1, ExitOK DEF CryptoMode, Stuck
<1>8. CASE d = "CRYPTO_CONN"
  <2>1. io' = NoIO /\ watch' = TimerWatch
    BY <1>2, <1>8 DEF Begin
  <2> QED
    BY <1>1, <1>3, <1>8, <2>1 DEF CryptoMode, Stuck
<1>9. CASE d = "CRYPTO_RENEG"
  <2>1. io' = DropInput(y) /\ watch' = TimerWatch
    BY <1>2, <1>9 DEF Begin
  <2>2. Shown(DropInput(y)) /\ Stuck(y, DropInput(y))
    BY DEF DropInput, Shown, Stuck, SoundIO, CryptoIO, Pending
  <2> QED
    BY <1>1, <1>9, <2>1, <2>2 DEF CryptoMode, RenegOK
<1>10. CASE d = "CRYPTO_SHUT"
  <2>1. io' = (IF o.how = "twoWay" THEN DropInputAndByte(y) ELSE y) /\ watch' = TimerWatch
    BY <1>2, <1>10 DEF Begin
  <2>2. Shown(DropInputAndByte(y)) /\ Stuck(y, DropInputAndByte(y))
    BY DEF DropInputAndByte, Shown, Stuck, SoundIO, CryptoIO, Pending, DeferredOK
  <2> QED
    BY <1>1, <1>10, <2>1, <2>2 DEF CryptoMode, ShutOK, Stuck
<1>11. CASE d = "CRYPTO_SSL"
  <2>1. PICK z \in ProcessDeferred(y, "none", {}) : io' = z /\ watch' = ArmDeferred(NoWatch, z)
    BY <1>2, <1>11 DEF Begin
  <2>2. Onward(y, z) /\ Shown(z)
    BY ProcessDeferredOnward, ProcessDeferredShown
  <2>3. /\ watch'.events = DeferredCondition(z) /\ watch'.last = DeferredCondition(z)
        /\ ~watch'.timer
    BY <2>1, ArmMeans DEF ArmDeferred
  <2> QED
    BY <1>1, <1>11, <2>1, <2>2, <2>3 DEF CryptoMode, Onward, Stuck
<1> QED
  BY <1>4, <1>5, <1>6, <1>7, <1>8, <1>9, <1>10, <1>11 DEF States, PlainMode, CryptoMode
-----------------------------------------------------------------------------
(* Renegotiation.                                                          *)

(* The locals of crypto_do_renegotiate where its paragraphs meet: the      *)
(* timer of the begin handler is off once the first has run.               *)
RenegMeets ==
    {x \in RenegLocals :
        /\ x.watch.last = x.watch.events
        /\ x.watch.timer => x.op.phase = "done"
        /\ x.op.phase \in {"flushOut", "requestHello", "handshake", "done"}
        /\ x.op.phase # "flushOut" => ~Pending(x.io.out)}

(* What a paragraph does not touch.                                        *)
SameIO(y, z) == y.in = z.in /\ y.out = z.out /\ y.byte = z.byte

(* The first paragraph turns the timer off,                                *)
LEMMA RenegInitMeets ==
    ASSUME NEW x \in RenegLocals, x.watch.last = x.watch.events,
           x.op.phase \in {"init", "flushOut", "requestHello", "handshake", "done"},
           x.watch.timer => x.op.phase \in {"init", "done"},
           x.op.phase \notin {"init", "flushOut"} => ~Pending(x.io.out)
    PROVE  RenegInit(x) \in RenegMeets /\ RenegInit(x).io = x.io
<1>1. RenegInit(x) \in RenegLocals
  BY RenegInitOK
<1>2. CASE x.op.phase = "init"
  <2>1. RenegInit(x) = [x EXCEPT !.op.phase = "flushOut", !.watch = NoWatch]
    BY <1>2 DEF RenegInit
  <2>2. /\ RenegInit(x).op.phase = "flushOut" /\ RenegInit(x).watch = NoWatch
        /\ RenegInit(x).io = x.io
    BY <2>1 DEF RenegLocals, Ops
  <2> QED
    BY <1>1, <2>2, NoWatchMeans DEF RenegMeets
<1>3. CASE x.op.phase # "init"
  BY <1>1, <1>3 DEF RenegInit, RenegMeets
<1> QED
  BY <1>2, <1>3

(* the second waits as long as a write is deferred,                        *)
LEMMA RenegFlushMeets ==
    ASSUME NEW x \in RenegMeets, NEW z \in RenegFlush(x)
    PROVE  /\ z \in RenegMeets /\ z.io = x.io
           /\ z.op.phase = "flushOut" => Pending(z.io.out)
<1>1. x \in RenegLocals /\ z \in RenegLocals
  BY RenegFlushOK DEF RenegMeets
<1>2. CASE x.op.phase # "flushOut" \/ Pending(x.io.out)
  BY <1>2 DEF RenegFlush
<1>3. CASE x.op.phase = "flushOut" /\ ~Pending(x.io.out)
  <2>1. PICK failed \in BOOLEAN, p \in {"done", "requestHello", "handshake"} :
          z = [x EXCEPT !.op.phase = p, !.op.err = failed, !.op.startErr = failed]
    BY <1>3 DEF RenegFlush
  <2>2. z.io = x.io /\ z.watch = x.watch /\ z.op.phase = p
    BY <1>1, <2>1 DEF RenegLocals, Ops
  <2> QED
    BY <1>1, <1>3, <2>2 DEF RenegMeets
<1> QED
  BY <1>2, <1>3

(* and the last two watch the socket for what OpenSSL wants of it, though  *)
(* it may have buffered data meanwhile: the parts of them that are alike.  *)
LEMMA HandshakeMeets ==
    ASSUME NEW x \in RenegMeets, NEW u \in RenegLocals, NEW z, Buffered(u, z),
           x.op.phase \in {"requestHello", "handshake"}, u.io = x.io,
           \/ u.op.phase = "handshake" /\ u.watch = Arm(x.watch, {"IN"})
           \/ u.op = x.op /\ \E h \in Want : u.watch = Arm(x.watch, IOCondition(h))
           \/ u.op.phase = "done" /\ u.watch = x.watch
    PROVE  /\ z \in RenegMeets /\ SameIO(x.io, z.io) /\ z.op.phase # "flushOut"
           /\ z.op.phase = "done" \/ z.watch.events # {}
<1>1. /\ u.watch.last = u.watch.events
      /\ u.watch.timer = x.watch.timer
      /\ u.op.phase = "done" \/ u.watch.events # {}
  <2>1. \A conds : /\ Arm(x.watch, conds).events = conds /\ Arm(x.watch, conds).last = conds
                   /\ Arm(x.watch, conds).timer = x.watch.timer
    BY ArmMeans DEF RenegMeets
  <2>2. \A h \in Want : IOCondition(h) # {}
    BY PendingIsWatched
  <2> QED
    BY <2>1, <2>2 DEF RenegMeets
<1>2. u \in RenegMeets /\ u.op.phase # "flushOut"
  BY <1>1 DEF RenegMeets
<1>3. z \in RenegLocals /\ z.op = u.op /\ z.watch = u.watch /\ SameIO(u.io, z.io)
  BY BufferedOK DEF SameIO
<1> QED
  BY <1>1, <1>2, <1>3 DEF RenegMeets, SameIO

LEMMA RenegHelloMeets ==
    ASSUME NEW x \in RenegMeets, NEW z \in RenegHello(x)
    PROVE  /\ z \in RenegMeets /\ SameIO(x.io, z.io)
           /\ z.op.phase = "flushOut" => x.op.phase = "flushOut"
           /\ z.op.phase = "requestHello" => z.watch.events # {}
<1>1. CASE x.op.phase # "requestHello"
  BY <1>1 DEF RenegHello, SameIO
<1>2. CASE x.op.phase = "requestHello"
  <2>1. PICK u \in RenegLocals :
          /\ Buffered(u, z) /\ u.io = x.io
          /\ \/ u.op.phase = "handshake" /\ u.watch = Arm(x.watch, {"IN"})
             \/ u.op = x.op /\ \E h \in Want : u.watch = Arm(x.watch, IOCondition(h))
             \/ u.op.phase = "done" /\ u.watch = x.watch
    BY <1>2, RenegHelloOutcomes DEF RenegMeets
  <2> QED
    BY <1>2, <2>1, HandshakeMeets
<1> QED
  BY <1>1, <1>2

(* A suspended handshake watches nothing: the READ of what is buffered     *)
(* resumes it.                                                             *)
LEMMA RenegHandshakeMeets ==
    ASSUME NEW x \in RenegMeets, NEW z \in RenegHandshake(x),
           x.op.phase = "requestHello" => x.watch.events # {}
    PROVE  /\ z \in RenegMeets /\ SameIO(x.io, z.io)
           /\ z.op.phase = "flushOut" => x.op.phase = "flushOut"
           /\ z.op.phase = "requestHello" => z.watch.events # {}
           /\ z.op.phase = "handshake" => InputReady(z.io) \/ z.watch.events # {}
<1>1. x \in RenegLocals /\ z \in RenegLocals
  BY RenegHandshakeOK DEF RenegMeets
<1>2. CASE x.op.phase # "handshake"
  BY <1>2 DEF RenegHandshake, SameIO
<1>3. CASE x.op.phase = "handshake" /\ InputReady(x.io)
  <2>1. z.io = x.io /\ z.watch = NoWatch /\ z.op = x.op
    BY <1>1, <1>3 DEF RenegLocals, RenegHandshake
  <2> QED
    BY <1>1, <1>3, <2>1, NoWatchMeans DEF RenegMeets, SameIO
<1>4. CASE x.op.phase = "handshake" /\ ~InputReady(x.io)
  <2>1. PICK u \in RenegLocals :
          /\ Buffered(u, z) /\ u.io = x.io
          /\ \/ u.op = x.op /\ \E h \in Want : u.watch = Arm(x.watch, IOCondition(h))
             \/ u.op.phase = "done" /\ u.watch = x.watch
    BY <1>4, RenegHandshakeOutcomes DEF RenegMeets
  <2> QED
    BY <1>4, <2>1, HandshakeMeets
<1> QED
  BY <1>2, <1>3, <1>4

(* A step of a renegotiation leaves it something to wait for, and the      *)
(* timer set only if it was over before.                                   *)
LEMMA DoRenegotiateWatch ==
    ASSUME NEW x \in RenegLocals, x.watch.last = x.watch.events,
           x.op.phase \in {"init", "flushOut", "requestHello", "handshake", "done"},
           x.watch.timer => x.op.phase \in {"init", "done"},
           x.op.phase \notin {"init", "flushOut"} => ~Pending(x.io.out),
           NEW z \in DoRenegotiate(x)
    PROVE  /\ z \in RenegMeets /\ SameIO(x.io, z.io)
           /\ z.op.phase = "flushOut" => Pending(z.io.out)
           /\ z.op.phase = "requestHello" => z.watch.events # {}
           /\ z.op.phase = "handshake" => InputReady(z.io) \/ z.watch.events # {}
<1>1. PICK u \in RenegFlush(RenegInit(x)) : \E v \in RenegHello(u) : z \in RenegHandshake(v)
  BY DEF DoRenegotiate
<1>2. PICK v \in RenegHello(u) : z \in RenegHandshake(v)
  BY <1>1
<1>3. RenegInit(x) \in RenegMeets /\ RenegInit(x).io = x.io
  BY RenegInitMeets
<1>4. u \in RenegMeets /\ u.io = x.io /\ (u.op.phase = "flushOut" => Pending(u.io.out))
  BY <1>1, <1>3, RenegFlushMeets
<1>5. /\ v \in RenegMeets /\ SameIO(x.io, v.io) /\ (v.op.phase = "flushOut" => Pending(v.io.out))
      /\ v.op.phase = "requestHello" => v.watch.events # {}
  BY <1>2, <1>4, RenegHelloMeets DEF SameIO
<1> QED
  BY <1>2, <1>5, RenegHandshakeMeets DEF SameIO
-----------------------------------------------------------------------------
(* The events.                                                             *)

(* What a step may do besides: only one assertion can fail, and within     *)
(* crypto mode an error stays and the deferred byte waits for its reader.  *)
StepOK ==
    /\ abort' \in {abort, "sslRecs"}
    /\ state' \in CryptoMode =>
           /\ io.out = "error" => io'.out = "error"
           /\ io.in = "error" => io'.in = "error"
           /\ io.byte /\ ~io'.byte => UNCHANGED <<state, ready>>

(* An event that touches neither the machine nor its watch.                *)
LEMMA WatchUntouched ==
    ASSUME WatchInv, state' = state, op' = op, io' = io, watch' = watch,
           ready' = ready \/ ready' = FALSE, abort' \in {abort, "sslRecs"}
    PROVE  WatchInv' /\ StepOK
<1>1. WatchOK(state', op', io', watch')
  BY DEF WatchInv
<1>2. ReadyOK'
  <2>1. Indicated' = Indicated
    BY DEF Indicated
  <2> QED
    BY <2>1 DEF WatchInv, ReadyOK
<1>3. StepOK
  BY DEF StepOK
<1> QED
  BY <1>1, <1>2, <1>3 DEF WatchInv

(* A transition: GLib has not found a watch ready that is only just there, *)
(* unless the watch is being dispatched.                                   *)
LEMMA GotoKeeps ==
    ASSUME TypeInv, WatchInv, NEW d \in States \ {"INIT"}, NEW o \in Ops,
           o.phase = "init" \/ d = "PLAIN_CONN",
           NEW y \in SoundIO, Shown(y), NEW t, NEW r, Goto(d, o, y, t, r),
           d = "LOOKUP" => state = "INIT",
           d = "CRYPTO_CONN" => y = NoIO,
           d \in CryptoMode => Stuck(io, y),
           \/ ready' = FALSE
           \/ ready' = ready /\ (d \in {"LOOKUP", "PLAIN_CONN"} => state \in {"INIT", "LOOKUP"}),
           abort' = abort
    PROVE  WatchInv' /\ StepOK
<1>1. WatchOK(state', op', io', watch') /\ (d \in CryptoMode => Stuck(y, io'))
  BY GotoWatch
<1>2. state' = d /\ op' = o
  BY DEF Goto
<1>3. ReadyOK'
  <2>1. CASE ready' = FALSE
    BY <2>1 DEF ReadyOK
  <2>2. CASE ready' = ready /\ (d \in {"LOOKUP", "PLAIN_CONN"} => state \in {"INIT", "LOOKUP"})
    BY <1>2, <2>2 DEF ReadyOK, WatchInv
  <2> QED
    BY <2>1, <2>2
<1>4. StepOK
  BY <1>1, <1>2 DEF StepOK, Stuck
<1> QED
  BY <1>1, <1>3, <1>4 DEF WatchInv

(* What the transitions below take for granted.                            *)
LEMMA AtRest ==
    ASSUME TypeInv, WatchInv
    PROVE  /\ io \in SoundIO /\ Shown(io) /\ Stuck(io, io) /\ op \in Ops
           /\ state \notin CryptoMode \ {"CRYPTO_CONN"} => io = NoIO
           /\ NoOp.phase = "init"
           /\ \A kind, c : ConnectOp(kind, c).phase = "init"
           /\ \A wait, c : [NoOp EXCEPT !.wait = wait, !.cb = c].phase = "init"
           /\ \A how, c : [NoOp EXCEPT !.how = how, !.cb = c].phase = "init"
<1>1. io \in SoundIO /\ op \in Ops
  BY DEF TypeInv, MachineOK
<1>2. Shown(io) /\ (state \notin CryptoMode \ {"CRYPTO_CONN"} => io = NoIO)
  BY DEF WatchInv, WatchOK
<1> QED
  BY <1>1, <1>2 DEF Stuck, NoOp, ConnectOp

(* The socket of a connection is created, or found unusable.               *)
LEMMA GotoPlainConnWatch ==
    ASSUME TypeInv, WatchInv, NEW o \in Ops, GotoPlainConn(o), state \in {"INIT", "LOOKUP"},
           ready' = ready, abort' = abort
    PROVE  WatchInv' /\ StepOK
<1>1. PICK failed \in BOOLEAN :
          Goto("PLAIN_CONN", [o EXCEPT !.err = failed], io, tls, ctxRefs)
  BY DEF GotoPlainConn
<1>2. [o EXCEPT !.err = failed] \in Ops
  BY OpProgress
<1>3. "PLAIN_CONN" \in States \ {"INIT"} /\ "PLAIN_CONN" \notin CryptoMode
  BY DEF States, PlainMode, CryptoMode
<1> QED
  BY <1>1, <1>2, <1>3, AtRest, GotoKeeps

(* The calls that take the machine elsewhere.                              *)
LEMMA RequestsWatch ==
    ASSUME TypeInv, WatchInv,
           \/ \E kind \in Kinds, c \in Cbs : Connect(kind, c)
           \/ ShutSock \/ Close \/ Finalize
           \/ \E wait \in BOOLEAN, c \in Cbs : Renegotiate(wait, c)
           \/ \E how \in {"oneWay", "twoWay"}, c \in Cbs : ShutCrypto(how, c)
           \/ ResumePlain
    PROVE  WatchInv' /\ StepOK
<1> USE AtRest, Requests, KindsAssumption, CbsAssumption
<1>1. ASSUME NEW d \in States \ {"INIT"}, NEW o \in Ops, o.phase = "init",
             Goto(d, o, io, tls, ctxRefs), ready' = ready \/ ready' = FALSE, abort' = abort,
             d = "LOOKUP" => state = "INIT", d = "CRYPTO_CONN" => io = NoIO,
             d # "PLAIN_CONN"
      PROVE  WatchInv' /\ StepOK
  BY <1>1, GotoKeeps
<1>2. /\ {"LOOKUP", "CRYPTO_CONN", "PLAIN_SHUT", "CLOSED", "FINAL", "CRYPTO_RENEG",
          "CRYPTO_SHUT", "PLAIN_TCP"} \subseteq States \ {"INIT", "PLAIN_CONN"}
      /\ "PLAIN_TCP" \notin CryptoMode
  BY DEF States, PlainMode, CryptoMode
<1>3. ASSUME NEW kind \in Kinds, NEW c \in Cbs, Connect(kind, c) PROVE WatchInv' /\ StepOK
  <2>1. ready' = ready /\ abort' = abort /\ ConnectOp(kind, c) \in Ops
    BY <1>3 DEF Connect
  <2>2. CASE state = "INIT" /\ Goto("LOOKUP", ConnectOp(kind, c), io, tls, ctxRefs)
    BY <1>1, <1>2, <2>1, <2>2
  <2>3. CASE state = "INIT" /\ GotoPlainConn(ConnectOp(kind, c))
    BY <2>1, <2>3, GotoPlainConnWatch
  <2>4. CASE state = "PLAIN_TCP" /\ Goto("CRYPTO_CONN", ConnectOp(kind, c), io, tls, ctxRefs)
    BY <1>1, <1>2, <2>1, <2>4
  <2> QED
    BY <1>3, <2>2, <2>3, <2>4 DEF Connect
<1>4. CASE ShutSock
  <2>1. ready' = ready /\ abort' = abort /\ Goto("PLAIN_SHUT", NoOp, io, tls, ctxRefs)
    BY <1>4 DEF ShutSock
  <2> QED
    BY <1>1, <1>2, <2>1
<1>5. CASE Close
  <2>1. ready' = ready /\ abort' = abort /\ Goto("CLOSED", NoOp, io, tls, ctxRefs)
    BY <1>5 DEF Close
  <2> QED
    BY <1>1, <1>2, <2>1
<1>6. CASE Finalize
  <2>1. ready' = FALSE /\ abort' = abort /\ Goto("FINAL", NoOp, io, tls, ctxRefs)
    BY <1>6 DEF Finalize
  <2> QED
    BY <1>1, <1>2, <2>1
<1>7. ASSUME NEW wait \in BOOLEAN, NEW c \in Cbs, Renegotiate(wait, c) PROVE WatchInv' /\ StepOK
  <2>1. /\ ready' = ready /\ abort' = abort
        /\ Goto("CRYPTO_RENEG", [NoOp EXCEPT !.wait = wait, !.cb = c], io, tls, ctxRefs)
    BY <1>7 DEF Renegotiate
  <2>2. [NoOp EXCEPT !.wait = wait, !.cb = c] \in Ops
    OBVIOUS
  <2> QED
    BY <1>1, <1>2, <2>1, <2>2
<1>8. ASSUME NEW how \in {"oneWay", "twoWay"}, NEW c \in Cbs, ShutCrypto(how, c)
      PROVE  WatchInv' /\ StepOK
  <2>1. /\ ready' = ready /\ abort' = abort
        /\ Goto("CRYPTO_SHUT", [NoOp EXCEPT !.how = how, !.cb = c], io, tls, ctxRefs)
    BY <1>8 DEF ShutCrypto
  <2>2. [NoOp EXCEPT !.how = how, !.cb = c] \in Ops
    OBVIOUS
  <2> QED
    BY <1>1, <1>2, <2>1, <2>2
<1>9. CASE ResumePlain
  <2>1. ready' = ready /\ abort' = abort /\ Goto("PLAIN_TCP", NoOp, io, tls, ctxRefs)
    BY <1>9 DEF ResumePlain
  <2> QED
    BY <1>1, <1>2, <2>1
<1> QED
  BY <1>3, <1>4, <1>5, <1>6, <1>7, <1>8, <1>9

(* A READ or WRITE re-arms the watch whenever it may have changed what is  *)
(* deferred.                                                               *)
LEMMA ReadWriteWatch ==
    ASSUME TypeInv, WatchInv, Write \/ \E exact \in BOOLEAN : Read(exact)
    PROVE  WatchInv' /\ StepOK
<1>1. io \in SoundIO /\ Shown(io) /\ op \in Ops
  BY AtRest
<1>2. watch.last = watch.events \/ state = "PLAIN_CONN"
  BY DEF WatchInv, WatchOK
<1>3. CASE Write
  <2>1. PICK y \in HandleWRITE(io) : Stay(op, y, ArmDeferred(watch, y))
    BY <1>3 DEF Write
  <2>2. state = "CRYPTO_SSL" /\ io.out = "idle" /\ ready' = ready /\ abort' = abort
    BY <1>3 DEF Write
  <2>3. Shown(y) /\ (io.in = "error" => y.in = "error")
    BY <1>1, <2>2, HandleWRITEKeeps
  <2>4. state' = state /\ op' = op /\ io' = y /\ watch' = ArmDeferred(watch, y)
    BY <2>1 DEF Stay
  <2>5. /\ watch'.events = DeferredCondition(y) /\ watch'.last = DeferredCondition(y)
        /\ watch'.timer = watch.timer
    BY <1>2, <2>2, <2>4, ArmMeans DEF ArmDeferred
  <2>6. ~watch.timer
    BY <2>2 DEF WatchInv, WatchOK, TimerMeant
  <2>7. WatchOK(state', op', io', watch')
    BY <2>2, <2>3, <2>4, <2>5, <2>6 DEF WatchOK, Reads, CryptoMode
  <2>8. ReadyOK'
    BY <2>2, <2>4 DEF ReadyOK
  <2>9. StepOK
    BY <2>2, <2>3, <2>4 DEF StepOK
  <2> QED
    BY <2>7, <2>8, <2>9 DEF WatchInv
<1>4. ASSUME NEW exact \in BOOLEAN, Read(exact) PROVE WatchInv' /\ StepOK
  <2>1. PICK r \in HandleREAD(io, exact) :
            Stay(op, r.io, IF r.tried THEN ArmDeferred(watch, r.io) ELSE watch)
    BY <1>4 DEF Read
  <2>2. Reads(state, op) /\ ready' = ready /\ abort' = abort
    BY <1>4 DEF Read, ReadsTheSocket, Reads
  <2>3. /\ Shown(r.io)
        /\ io.in = "error" => r.io.in = "error"
        /\ io.out = "error" => r.io.out = "error"
        /\ ~Pending(io.out) => ~Pending(r.io.out)
        /\ ~r.tried => DeferredCondition(r.io) = DeferredCondition(io)
        /\ Pending(io.out) => Pending(r.io.out) \/ r.io.in = "error"
    BY <1>1, HandleREADKeeps
  <2>4. /\ state' = state /\ op' = op /\ io' = r.io
        /\ watch' = IF r.tried THEN ArmDeferred(watch, r.io) ELSE watch
    BY <2>1 DEF Stay
  <2>5. watch.last = watch.events /\ watch.events = DeferredCondition(io)
    BY <1>2, <2>2 DEF WatchInv, WatchOK, Reads
  <2>6. /\ watch'.events = DeferredCondition(r.io) /\ watch'.last = DeferredCondition(r.io)
        /\ watch'.timer = watch.timer
    <3>1. CASE r.tried
      BY <2>4, <2>5, <3>1, ArmMeans DEF ArmDeferred
    <3>2. CASE ~r.tried
      BY <2>3, <2>4, <2>5, <3>2
    <3> QED
      BY <3>1, <3>2
  <2>7. ~watch.timer
    BY <2>2 DEF WatchInv, WatchOK, TimerMeant, Reads
  <2>8. state = "CRYPTO_SHUT" => ShutOK(op, r.io, watch')
    <3>1. ASSUME state = "CRYPTO_SHUT" PROVE ShutOK(op, r.io, watch')
      <4>1. ShutOK(op, io, watch)
        BY <3>1 DEF WatchInv, WatchOK
      <4>2. op.how = "oneWay" /\ op.phase \in {"success", "flushOut"}
        BY <2>2, <3>1 DEF Reads
      <4> QED
        BY <2>3, <4>1, <4>2 DEF ShutOK
    <3> QED
      BY <3>1
  <2>9. WatchOK(state', op', io', watch')
    BY <2>2, <2>3, <2>4, <2>6, <2>7, <2>8 DEF WatchOK, Reads, CryptoMode
  <2>10. ReadyOK'
    BY <2>2, <2>4 DEF ReadyOK, Reads
  <2>11. StepOK
    BY <2>2, <2>3, <2>4 DEF StepOK
  <2> QED
    BY <2>9, <2>10, <2>11 DEF WatchInv
<1> QED
  BY <1>3, <1>4

(* Where a step of a renegotiation starts and what it may leave behind.    *)
LEMMA RenegotiateKeeps ==
    ASSUME TypeInv, WatchInv, state = "CRYPTO_RENEG", NEW x \in RenegLocals, x.op = op,
           x.watch.last = x.watch.events, x.watch.timer => op.phase \in {"init", "done"},
           op.phase \notin {"init", "flushOut"} => ~Pending(x.io.out),
           NEW z \in DoRenegotiate(x)
    PROVE  /\ z \in RenegLocals /\ SameIO(x.io, z.io) /\ Shown(z.io)
           /\ z.op.phase # "done" => WatchOK("CRYPTO_RENEG", z.op, z.io, z.watch)
           /\ z.op.phase = "done" =>
                  WatchOK("CRYPTO_RENEG", z.op, z.io, [z.watch EXCEPT !.timer = TRUE])
<1>1. op.phase \in {"init", "flushOut", "requestHello", "handshake", "done"}
  BY DEF WatchInv, WatchOK, RenegOK
<1>2. /\ z \in RenegMeets /\ SameIO(x.io, z.io)
      /\ z.op.phase = "flushOut" => Pending(z.io.out)
      /\ z.op.phase = "requestHello" => z.watch.events # {}
      /\ z.op.phase = "handshake" => InputReady(z.io) \/ z.watch.events # {}
  BY <1>1, DoRenegotiateWatch
<1>3. z \in RenegLocals /\ Shown(z.io) /\ z.watch \in Watches
  BY <1>2 DEF RenegMeets, RenegLocals, Shown
<1>4. ~Reads("CRYPTO_RENEG", z.op)
  BY DEF Reads
<1>5. CASE z.op.phase # "done"
  <2>1. RenegOK(z.op, z.io, z.watch) /\ ~z.watch.timer /\ z.watch.last = z.watch.events
    BY <1>2, <1>5 DEF RenegOK, RenegMeets
  <2> QED
    BY <1>2, <1>3, <1>4, <1>5, <2>1 DEF WatchOK, CryptoMode
<1>6. CASE z.op.phase = "done"
  <2> DEFINE w == [z.watch EXCEPT !.timer = TRUE]
  <2>1. w.last = w.events /\ w.timer
    BY <1>2, <1>3 DEF RenegMeets, Watches
  <2>2. RenegOK(z.op, z.io, w)
    BY <1>2, <1>6, <2>1 DEF RenegOK, RenegMeets
  <2> HIDE DEF w
  <2>3. WatchOK("CRYPTO_RENEG", z.op, z.io, w)
    BY <1>3, <1>4, <1>6, <2>1, <2>2 DEF WatchOK, CryptoMode, TimerMeant
  <2> QED
    BY <1>2, <1>3, <1>6, <2>3 DEF w
<1> QED
  BY <1>2, <1>3, <1>5, <1>6

(* A READ lets a suspended renegotiation go on,                            *)
LEMMA RenegReadWatch ==
    ASSUME TypeInv, WatchInv, NEW exact \in BOOLEAN, RenegRead(exact)
    PROVE  WatchInv' /\ StepOK
<1>1. state = "CRYPTO_RENEG" /\ ready' = ready /\ abort' = abort
  BY DEF RenegRead
<1>2. PICK r \in HandleREAD(io, exact) :
         /\ ~r.tried
         /\ \E x \in DoRenegotiate([op |-> op, io |-> r.io, watch |-> watch]) :
                Stay(x.op, x.io, IF x.op.phase = "done"
                                   THEN [x.watch EXCEPT !.timer = TRUE] ELSE x.watch)
  BY DEF RenegRead
<1> DEFINE x == [op |-> op, io |-> r.io, watch |-> watch]
<1>3. PICK z \in DoRenegotiate(x) :
                Stay(z.op, z.io, IF z.op.phase = "done"
                                   THEN [z.watch EXCEPT !.timer = TRUE] ELSE z.watch)
  BY <1>2
<1>4. io \in SoundIO /\ Shown(io) /\ op \in Ops /\ watch \in Watches /\ ~Pending(io.in)
  BY <1>1, AtRest DEF TypeInv, MachineOK
<1>5. r.io \in SoundIO /\ ~Pending(r.io.in)
  BY <1>2, <1>4, HandleREADSound
<1>6. r.io.out = io.out /\ (io.in = "error" => r.io.in = "error")
  BY <1>2, <1>4, HandleREADKeeps
<1>7. /\ x \in RenegLocals /\ x.op = op /\ x.io = r.io
      /\ x.watch.last = x.watch.events
      /\ x.watch.timer => op.phase \in {"init", "done"}
      /\ op.phase \notin {"init", "flushOut"} => ~Pending(x.io.out)
  <2>1. /\ watch.last = watch.events /\ RenegOK(op, io, watch)
        /\ watch.timer => op.phase \in {"init", "done"}
    BY <1>1 DEF WatchInv, WatchOK, TimerMeant
  <2> QED
    BY <1>4, <1>5, <1>6, <2>1 DEF RenegLocals, RenegOK
<1> HIDE DEF x
<1>8. /\ SameIO(r.io, z.io)
      /\ z.op.phase # "done" => WatchOK("CRYPTO_RENEG", z.op, z.io, z.watch)
      /\ z.op.phase = "done" =>
             WatchOK("CRYPTO_RENEG", z.op, z.io, [z.watch EXCEPT !.timer = TRUE])
  BY <1>1, <1>7, RenegotiateKeeps
<1>9. /\ state' = "CRYPTO_RENEG" /\ op' = z.op /\ io' = z.io
      /\ watch' = IF z.op.phase = "done" THEN [z.watch EXCEPT !.timer = TRUE] ELSE z.watch
  BY <1>1, <1>3 DEF Stay
<1>10. WatchOK(state', op', io', watch')
  BY <1>8, <1>9
<1>11. ReadyOK'
  BY <1>9 DEF ReadyOK
<1>12. StepOK
  BY <1>1, <1>6, <1>8, <1>9 DEF StepOK, SameIO
<1> QED
  BY <1>10, <1>11, <1>12 DEF WatchInv

(* and a dispatch may first retry the deferred write.                      *)
LEMMA FdWatchRenegWatch ==
    ASSUME TypeInv, WatchInv, FdWatchReneg
    PROVE  WatchInv' /\ StepOK
<1>1. state = "CRYPTO_RENEG" /\ ready' = FALSE /\ abort' = abort
  BY DEF FdWatchReneg, Dispatch
<1>2. PICK x \in IF Indicated # {} /\ op.phase = "flushOut"
                   THEN {[op |-> op, io |-> y, watch |-> ArmDeferred(watch, y)] :
                             y \in ProcessDeferred(io, "none", Indicated)}
                   ELSE {[op |-> op, io |-> io, watch |-> watch]} :
         \E z \in DoRenegotiate(x) :
         IF z.op.phase = "done"
           THEN /\ Complete(op.cb, z.op.err)
                /\ Goto(IF z.op.err THEN "CRYPTO_FAIL" ELSE "CRYPTO_SSL",
                        NoOp, z.io, tls, ctxRefs)
           ELSE /\ Stay(z.op, z.io, z.watch)
                /\ UNCHANGED <<cb, req>>
  BY DEF FdWatchReneg
<1>3. PICK z \in DoRenegotiate(x) :
         IF z.op.phase = "done"
           THEN /\ Complete(op.cb, z.op.err)
                /\ Goto(IF z.op.err THEN "CRYPTO_FAIL" ELSE "CRYPTO_SSL",
                        NoOp, z.io, tls, ctxRefs)
           ELSE /\ Stay(z.op, z.io, z.watch)
                /\ UNCHANGED <<cb, req>>
  BY <1>2
<1>4. io \in SoundIO /\ Stuck(io, io) /\ op \in Ops /\ watch \in Watches /\ ~Pending(io.in)
  BY <1>1, AtRest DEF TypeInv, MachineOK
<1>5. /\ watch.last = watch.events /\ RenegOK(op, io, watch)
      /\ watch.timer => op.phase \in {"init", "done"}
  BY <1>1 DEF WatchInv, WatchOK, TimerMeant
<1>6. /\ x \in RenegLocals /\ x.op = op /\ Stuck(io, x.io)
      /\ x.watch.last = x.watch.events
      /\ x.watch.timer => op.phase \in {"init", "done"}
      /\ op.phase \notin {"init", "flushOut"} => ~Pending(x.io.out)
  <2>1. CASE /\ op.phase = "flushOut"
             /\ \E y \in ProcessDeferred(io, "none", Indicated) :
                    x = [op |-> op, io |-> y, watch |-> ArmDeferred(watch, y)]
    <3>1. PICK y \in ProcessDeferred(io, "none", Indicated) :
                    x = [op |-> op, io |-> y, watch |-> ArmDeferred(watch, y)]
      BY <2>1
    <3>2. y \in SoundIO /\ ~Pending(y.in) /\ Onward(io, y)
      BY <1>4, ProcessDeferredSound, ProcessDeferredKeepsInput, ProcessDeferredOnward
    <3>3. /\ ArmDeferred(watch, y) \in Watches
          /\ ArmDeferred(watch, y).last = ArmDeferred(watch, y).events
          /\ ArmDeferred(watch, y).timer = watch.timer
      BY <1>4, <1>5, ArmDeferredType, ArmMeans DEF ArmDeferred
    <3> QED
      BY <1>4, <1>5, <2>1, <3>1, <3>2, <3>3 DEF RenegLocals, Onward, Stuck
  <2>2. CASE x = [op |-> op, io |-> io, watch |-> watch]
    BY <1>4, <1>5, <2>2 DEF RenegLocals, RenegOK
  <2> QED
    BY <1>2, <2>1, <2>2
<1>7. /\ z \in RenegLocals /\ SameIO(x.io, z.io) /\ Shown(z.io)
      /\ z.op.phase # "done" => WatchOK("CRYPTO_RENEG", z.op, z.io, z.watch)
  BY <1>1, <1>6, RenegotiateKeeps
<1>8. Stuck(io, z.io) /\ z.io \in SoundIO
  BY <1>6, <1>7 DEF Stuck, SameIO, RenegLocals
<1>9. CASE z.op.phase = "done"
  <2>1. PICK d \in {"CRYPTO_FAIL", "CRYPTO_SSL"} : Goto(d, NoOp, z.io, tls, ctxRefs)
    BY <1>3, <1>9
  <2>2. d \in States \ {"INIT"} /\ d \notin {"LOOKUP", "PLAIN_CONN", "CRYPTO_CONN"}
    BY DEF States, CryptoMode
  <2> QED
    BY <1>1, <1>7, <1>8, <2>1, <2>2, AtRest, Requests, GotoKeeps
<1>10. CASE z.op.phase # "done"
  <2>1. state' = "CRYPTO_RENEG" /\ op' = z.op /\ io' = z.io /\ watch' = z.watch
    BY <1>1, <1>3, <1>10 DEF Stay
  <2>2. WatchOK(state', op', io', watch')
    BY <1>7, <1>10, <2>1
  <2>3. ReadyOK'
    BY <1>1, <2>1 DEF ReadyOK
  <2>4. StepOK
    BY <1>1, <1>8, <2>1 DEF StepOK, Stuck
  <2> QED
    BY <2>2, <2>3, <2>4 DEF WatchInv
<1> QED
  BY <1>9, <1>10

(* The other dispatches.  A connection in plain text finds a poll record,  *)
LEMMA FdWatchPlainConnWatch ==
    ASSUME TypeInv, WatchInv, FdWatchPlainConn
    PROVE  WatchInv' /\ StepOK
<1>1. state = "PLAIN_CONN" /\ ready /\ ready' = FALSE
  BY DEF FdWatchPlainConn, Dispatch
<1>2. op.err \/ Indicated # {}
  BY <1>1 DEF WatchInv, ReadyOK
<1>3. io = NoIO
  BY <1>1, AtRest DEF CryptoMode
<1>4. /\ abort' = abort
      /\ \/ Goto("PLAIN_FAIL", NoOp, io, tls, ctxRefs)
         \/ Goto("PLAIN_TCP", NoOp, io, tls, ctxRefs)
         \/ Goto("CRYPTO_CONN", ConnectOp(op.kind, op.cb), io, tls, ctxRefs)
  BY <1>2 DEF FdWatchPlainConn
<1>5. PICK d \in {"PLAIN_FAIL", "PLAIN_TCP", "CRYPTO_CONN"},
           o \in {NoOp, ConnectOp(op.kind, op.cb)} : Goto(d, o, io, tls, ctxRefs)
  BY <1>4
<1>6. d \in States \ {"INIT"} /\ d \notin {"LOOKUP", "PLAIN_CONN"}
  BY DEF States, PlainMode, CryptoMode
<1>7. ConnectOp(op.kind, op.cb) \in Ops
  BY AtRest DEF ConnectOp, NoOp, Ops, Phases
<1>8. o \in Ops /\ o.phase = "init"
  <2>1. NoOp \in Ops /\ NoOp.phase = "init" /\ ConnectOp(op.kind, op.cb).phase = "init"
    BY Requests DEF NoOp, ConnectOp
  <2> QED
    BY <1>7, <2>1
<1>9. io \in SoundIO /\ Shown(io) /\ Stuck(io, io)
  BY AtRest
<1> QED
  BY <1>1, <1>3, <1>4, <1>5, <1>6, <1>8, <1>9, GotoKeeps

(* a handshake goes on or watches for what OpenSSL wants,                  *)
LEMMA FdWatchCryptoConnWatch ==
    ASSUME TypeInv, WatchInv, FdWatchCryptoConn
    PROVE  WatchInv' /\ StepOK
<1> DEFINE w == IF op.phase = "init" THEN NoWatch ELSE watch
<1>1. state = "CRYPTO_CONN" /\ ready' = FALSE /\ abort' = abort
  BY DEF FdWatchCryptoConn, Dispatch
<1>2. \/ \E t, r : Goto("CRYPTO_FAIL", NoOp, io, t, r)
      \/ \E t, r : Goto("CRYPTO_SSL", NoOp, io, t, r)
      \/ /\ \E h \in Want : watch' = Arm(w, IOCondition(h))
         /\ op' = [op EXCEPT !.phase = "handshake"]
         /\ state' = state /\ io' = io
  BY DEF FdWatchCryptoConn
<1>3. w.last = w.events /\ ~w.timer /\ io = NoIO
  BY <1>1, NoWatchMeans, AtRest DEF WatchInv, WatchOK, TimerMeant
<1> HIDE DEF w
<1>4. CASE \/ \E t, r : Goto("CRYPTO_FAIL", NoOp, io, t, r)
           \/ \E t, r : Goto("CRYPTO_SSL", NoOp, io, t, r)
  <2>1. PICK d \in {"CRYPTO_FAIL", "CRYPTO_SSL"} : \E t, r : Goto(d, NoOp, io, t, r)
    BY <1>4
  <2>2. PICK t, r : Goto(d, NoOp, io, t, r)
    BY <2>1
  <2>3. d \in States \ {"INIT"} /\ d \notin {"LOOKUP", "PLAIN_CONN", "CRYPTO_CONN"}
    BY DEF States, CryptoMode
  <2> QED
    BY <1>1, <2>2, <2>3, AtRest, Requests, GotoKeeps
<1>5. CASE /\ \E h \in Want : watch' = Arm(w, IOCondition(h))
           /\ op' = [op EXCEPT !.phase = "handshake"]
           /\ state' = state /\ io' = io
  <2>1. PICK h \in Want : watch' = Arm(w, IOCondition(h))
    BY <1>5
  <2>2. watch'.last = watch'.events /\ watch'.events # {} /\ ~watch'.timer
    BY <1>3, <2>1, ArmMeans, PendingIsWatched
  <2>3. op'.phase = "handshake" /\ Shown(io)
    BY <1>5, AtRest DEF Ops
  <2>4. WatchOK(state', op', io', watch')
    BY <1>1, <1>3, <1>5, <2>2, <2>3 DEF WatchOK, Reads, CryptoMode
  <2>5. ReadyOK' /\ StepOK
    BY <1>1, <1>5 DEF ReadyOK, StepOK
  <2> QED
    BY <2>4, <2>5 DEF WatchInv
<1> QED
  BY <1>2, <1>4, <1>5

(* an established connection retries what is deferred,                     *)
LEMMA FdWatchSslWatch ==
    ASSUME TypeInv, WatchInv, FdWatchSsl
    PROVE  WatchInv' /\ StepOK
<1>1. state = "CRYPTO_SSL" /\ ready' = FALSE
  BY DEF FdWatchSsl, Dispatch
<1>2. CASE Assert("sslRecs")
  BY <1>1, <1>2, WatchUntouched DEF Assert
<1>3. CASE /\ \E y \in ProcessDeferred(io, "none", Indicated) :
                  Stay(op, y, ArmDeferred(watch, y))
           /\ abort' = abort
  <2>1. PICK y \in ProcessDeferred(io, "none", Indicated) : Stay(op, y, ArmDeferred(watch, y))
    BY <1>3
  <2>2. Onward(io, y) /\ Shown(y)
    BY AtRest, ProcessDeferredOnward, ProcessDeferredShown
  <2>3. state' = state /\ op' = op /\ io' = y /\ watch' = ArmDeferred(watch, y)
    BY <2>1 DEF Stay
  <2>4. watch.last = watch.events /\ ~watch.timer
    BY <1>1 DEF WatchInv, WatchOK, TimerMeant
  <2>5. /\ watch'.events = DeferredCondition(y) /\ watch'.last = DeferredCondition(y)
        /\ ~watch'.timer
    BY <2>3, <2>4, ArmMeans DEF ArmDeferred
  <2>6. WatchOK(state', op', io', watch')
    BY <1>1, <2>2, <2>3, <2>5 DEF WatchOK, CryptoMode
  <2>7. ReadyOK' /\ StepOK
    BY <1>1, <1>3, <2>2, <2>3 DEF ReadyOK, StepOK, Onward
  <2> QED
    BY <2>6, <2>7 DEF WatchInv
<1> QED
  BY <1>2, <1>3 DEF FdWatchSsl

(* and a shutdown completes, fails or waits for the peer.                  *)
LEMMA ShutdownWatch ==
    ASSUME TypeInv, WatchInv, state = "CRYPTO_SHUT", ready' = FALSE, abort' = abort,
           NEW phase \in {"shut1", "shut2"},
           NEW y \in SoundIO, Shown(y), ~Pending(y.out), Stuck(io, y),
           NEW w, w.last = w.events, ~w.timer, Shutdown(phase, y, w)
    PROVE  WatchInv' /\ StepOK
<1>1. CASE \/ Goto("CRYPTO_FAIL", NoOp, y, tls, ctxRefs)
           \/ Goto("PLAIN_TCP", NoOp, y, tls, ctxRefs)
  <2>1. PICK d \in {"CRYPTO_FAIL", "PLAIN_TCP"} : Goto(d, NoOp, y, tls, ctxRefs)
    BY <1>1
  <2>2. d \in States \ {"INIT"} /\ d \notin {"LOOKUP", "PLAIN_CONN", "CRYPTO_CONN"}
    BY DEF States, PlainMode, CryptoMode
  <2> QED
    BY <2>1, <2>2, AtRest, Requests, GotoKeeps
<1>2. ASSUME NEW o, NEW z, NEW v, Stay(o, z, v), WatchOK(state, o, z, v), Stuck(y, z)
      PROVE  WatchInv' /\ StepOK
  <2>1. state' = state /\ op' = o /\ io' = z /\ watch' = v
    BY <1>2 DEF Stay
  <2>2. WatchOK(state', op', io', watch')
    BY <1>2, <2>1
  <2>3. ReadyOK' /\ StepOK
    BY <1>2, <2>1 DEF ReadyOK, StepOK, Stuck
  <2> QED
    BY <2>2, <2>3 DEF WatchInv
<1>3. op \in Ops /\ op.how \in {"oneWay", "twoWay"}
  BY AtRest DEF Ops
<1>4. CASE \E z \in IF op.how = "oneWay" THEN ProcessDeferred(y, "none", {}) ELSE {y} :
                Stay([op EXCEPT !.phase = "success"], z,
                     IF op.how = "oneWay" THEN ArmDeferred(NoWatch, z) ELSE NoWatch)
  <2> DEFINE o == [op EXCEPT !.phase = "success"]
  <2>1. o.how = op.how /\ o.phase = "success"
    BY <1>3 DEF Ops
  <2>2. PICK z \in IF op.how = "oneWay" THEN ProcessDeferred(y, "none", {}) ELSE {y} :
                Stay(o, z, IF op.how = "oneWay" THEN ArmDeferred(NoWatch, z) ELSE NoWatch)
    BY <1>4
  <2> HIDE DEF o
  <2>3. CASE op.how = "oneWay"
    <3>1. Onward(y, z) /\ Shown(z)
      BY <2>2, <2>3, ProcessDeferredOnward, ProcessDeferredShown
    <3>2. /\ ArmDeferred(NoWatch, z).events = DeferredCondition(z)
          /\ ArmDeferred(NoWatch, z).last = DeferredCondition(z)
          /\ ~ArmDeferred(NoWatch, z).timer
      BY NoWatchMeans, ArmMeans DEF ArmDeferred
    <3>3. WatchOK(state, o, z, ArmDeferred(NoWatch, z)) /\ Stuck(y, z)
      BY <2>1, <2>3, <3>1, <3>2 DEF WatchOK, ShutOK, Onward, Stuck, CryptoMode
    <3> QED
      BY <1>2, <2>2, <2>3, <3>3
  <2>4. CASE op.how = "twoWay"
    <3>1. WatchOK(state, o, y, NoWatch) /\ Stuck(y, y)
      BY <2>1, <2>4, NoWatchMeans DEF WatchOK, ShutOK, Reads, Stuck, CryptoMode
    <3> QED
      BY <1>2, <2>2, <2>4, <3>1
  <2> QED
    BY <1>3, <2>3, <2>4
<1>5. CASE \E h \in Want, p \in {phase} \cup (IF op.how = "twoWay" THEN {"shut2"} ELSE {}) :
                Stay([op EXCEPT !.phase = p], y, Arm(w, IOCondition(h)))
  <2>1. PICK h \in Want, p \in {"shut1", "shut2"} :
                Stay([op EXCEPT !.phase = p], y, Arm(w, IOCondition(h)))
    BY <1>5
  <2>2. [op EXCEPT !.phase = p].phase = p
    BY <1>3 DEF Ops
  <2>3. /\ Arm(w, IOCondition(h)).last = Arm(w, IOCondition(h)).events
        /\ Arm(w, IOCondition(h)).events # {} /\ ~Arm(w, IOCondition(h)).timer
    BY ArmMeans, PendingIsWatched
  <2>4. WatchOK(state, [op EXCEPT !.phase = p], y, Arm(w, IOCondition(h))) /\ Stuck(y, y)
    BY <2>2, <2>3 DEF WatchOK, ShutOK, Reads, Stuck, CryptoMode
  <2> QED
    BY <1>2, <2>1, <2>4
<1> QED
  BY <1>1, <1>4, <1>5 DEF Shutdown

(* Each phase of a shutdown.                                               *)
LEMMA FdWatchShutWatch ==
    ASSUME TypeInv, WatchInv, FdWatchShut
    PROVE  WatchInv' /\ StepOK
<1>1. state = "CRYPTO_SHUT" /\ ready /\ ready' = FALSE
  BY DEF FdWatchShut, Dispatch
<1>2. /\ op \in Ops /\ io \in SoundIO /\ Shown(io) /\ Stuck(io, io)
      /\ op.how \in {"oneWay", "twoWay"}
  BY AtRest DEF Ops
<1>3. ShutOK(op, io, watch) /\ watch.last = watch.events
  BY <1>1 DEF WatchInv, WatchOK
<1>4. watch.timer => op.phase = "init"
  BY <1>1 DEF WatchInv, WatchOK, TimerMeant
<1>5. ~(op.phase = "success" /\ op.how = "twoWay")
  BY <1>1 DEF WatchInv, ReadyOK
<1>6. ASSUME NEW y \in ProcessDeferred(io, "none", Indicated)
      PROVE  y \in SoundIO /\ Shown(y) /\ Onward(io, y) /\ Stuck(io, y)
  BY <1>2, ProcessDeferredSound, ProcessDeferredOnward, ProcessDeferredShown DEF Onward, Stuck
<1>7. CASE op.phase = "success"
  <2>1. PICK y \in ProcessDeferred(io, "none", Indicated) : Stay(op, y, ArmDeferred(watch, y))
    BY <1>2, <1>5, <1>7 DEF FdWatchShut
  <2>2. abort' = abort
    BY <1>2, <1>5, <1>7 DEF FdWatchShut
  <2>3. state' = state /\ op' = op /\ io' = y /\ watch' = ArmDeferred(watch, y)
    BY <2>1 DEF Stay
  <2>4. /\ watch'.events = DeferredCondition(y) /\ watch'.last = DeferredCondition(y)
        /\ ~watch'.timer
    BY <1>3, <1>4, <1>7, <2>3, ArmMeans DEF ArmDeferred
  <2>5. ShutOK(op, y, watch')
    BY <1>3, <1>5, <1>6, <1>7 DEF ShutOK, Onward
  <2>6. WatchOK(state', op', io', watch')
    BY <1>1, <1>6, <2>3, <2>4, <2>5 DEF WatchOK, CryptoMode
  <2>7. ReadyOK' /\ StepOK
    BY <1>1, <1>6, <2>2, <2>3 DEF ReadyOK, StepOK, Stuck
  <2> QED
    BY <2>6, <2>7 DEF WatchInv
<1>8. CASE op.phase \in {"init", "flushOut"}
  <2> DEFINE w == IF op.phase = "init" THEN NoWatch ELSE watch
  <2>1. PICK y \in ProcessDeferred(io, "none", Indicated) :
              IF Pending(y.out)
                THEN /\ Stay([op EXCEPT !.phase = "flushOut"], y, ArmDeferred(w, y))
                     /\ UNCHANGED <<cb, req>>
                ELSE Shutdown("shut1", y, NoWatch)
    BY <1>8 DEF FdWatchShut
  <2>2. abort' = abort
    BY <1>8 DEF FdWatchShut
  <2>3. w.last = w.events /\ ~w.timer
    BY <1>3, <1>4, <1>8, NoWatchMeans
  <2> HIDE DEF w
  <2>4. CASE Pending(y.out)
    <3> DEFINE o == [op EXCEPT !.phase = "flushOut"]
    <3>1. state' = state /\ op' = o /\ io' = y /\ watch' = ArmDeferred(w, y)
      BY <2>1, <2>4 DEF Stay
    <3>2. o.phase = "flushOut" /\ o.how = op.how
      BY <1>2 DEF Ops
    <3> HIDE DEF o
    <3>3. /\ watch'.events = DeferredCondition(y) /\ watch'.last = DeferredCondition(y)
          /\ ~watch'.timer /\ DeferredCondition(y) # {}
      BY <2>3, <2>4, <3>1, ArmMeans, PendingIsWatched DEF ArmDeferred
    <3>4. ShutOK(o, y, watch')
      BY <2>4, <3>2, <3>3 DEF ShutOK
    <3>5. WatchOK(state', op', io', watch')
      BY <1>1, <1>6, <3>1, <3>2, <3>3, <3>4 DEF WatchOK, CryptoMode
    <3>6. ReadyOK' /\ StepOK
      BY <1>1, <1>6, <2>2, <3>1 DEF ReadyOK, StepOK, Stuck
    <3> QED
      BY <3>5, <3>6 DEF WatchInv
  <2>5. CASE ~Pending(y.out)
    <3>1. Shutdown("shut1", y, NoWatch)
      BY <2>1, <2>5
    <3> QED
      BY <1>1, <1>6, <2>2, <2>5, <3>1, NoWatchMeans, ShutdownWatch
  <2> QED
    BY <2>4, <2>5
<1>9. CASE op.phase \notin {"init", "flushOut", "success"}
  <2>1. Shutdown(op.phase, io, watch) /\ abort' = abort
    BY <1>9 DEF FdWatchShut
  <2>2. op.phase \in {"shut1", "shut2"} /\ ~Pending(io.out) /\ ~watch.timer
    BY <1>3, <1>4, <1>9 DEF ShutOK
  <2> QED
    BY <1>1, <1>2, <1>3, <2>1, <2>2, ShutdownWatch
<1> QED
  BY <1>7, <1>8, <1>9

(* poll() finds ready only a watch that asks for something or has its      *)
(* timer set.                                                              *)
LEMMA PollWatchKeeps ==
    ASSUME TypeInv, WatchInv, PollWatch
    PROVE  WatchInv' /\ StepOK
<1>1. PICK revents \in SUBSET (watch.events \cup FailConds) :
         /\ watch.events = {} => revents = {}
         /\ watch.timer \/ revents # {}
         /\ watch' = [watch EXCEPT !.revents = revents]
  BY DEF PollWatch
<1>2. state' = state /\ op' = op /\ io' = io /\ abort' = abort /\ ready' = TRUE
  BY DEF PollWatch
<1>3. /\ watch'.desc = watch.desc /\ watch'.events = watch.events
      /\ watch'.timer = watch.timer /\ watch'.last = watch.last /\ watch'.revents = revents
  BY <1>1 DEF TypeInv, MachineOK, Watches
<1>4. WatchOK(state, op, io, watch)
  BY DEF WatchInv
<1>5. WatchOK(state', op', io', watch')
  BY <1>2, <1>3, <1>4 DEF WatchOK, RenegOK, ShutOK
<1>6. ReadyOK'
  <2>1. ~(state \in {"INIT", "LOOKUP"})
    BY <1>1, <1>4 DEF WatchOK, TimerMeant
  <2>2. ~(state = "CRYPTO_SHUT" /\ op.phase = "success" /\ op.how = "twoWay")
    BY <1>1, <1>4 DEF WatchOK, TimerMeant, ShutOK
  <2>3. ASSUME state = "PLAIN_CONN", ~op.err PROVE Indicated' # {}
    <3>1. watch.desc /\ watch.events = {"OUT"} /\ ~watch.timer
      BY <1>4, <2>3 DEF WatchOK, TimerMeant
    <3>2. Indicated' = revents
      BY <1>1, <1>3, <3>1, FailCondsAssumption DEF Indicated
    <3> QED
      BY <1>1, <3>1, <3>2
  <2> QED
    BY <1>2, <2>1, <2>2, <2>3 DEF ReadyOK
<1>7. StepOK
  BY <1>2 DEF StepOK
<1> QED
  BY <1>5, <1>6, <1>7 DEF WatchInv

(* The end of a lookup.                                                    *)
LEMMA LookupDoneWatch ==
    ASSUME TypeInv, WatchInv, NEW result \in {"address", "error", "unusable"}, LookupDone(result)
    PROVE  WatchInv' /\ StepOK
<1>1. state = "LOOKUP" /\ ready' = ready /\ abort' = abort
  BY DEF LookupDone
<1>2. Goto("PLAIN_FAIL", NoOp, io, tls, ctxRefs) \/ GotoPlainConn(op)
  BY DEF LookupDone
<1>3. CASE Goto("PLAIN_FAIL", NoOp, io, tls, ctxRefs)
  <2>1. "PLAIN_FAIL" \in States \ {"INIT"} /\ "PLAIN_FAIL" \notin CryptoMode
    BY DEF States, PlainMode, CryptoMode
  <2> QED
    BY <1>1, <1>3, <2>1, AtRest, Requests, GotoKeeps
<1>4. CASE GotoPlainConn(op)
  BY <1>1, <1>4, AtRest, GotoPlainConnWatch
<1> QED
  BY <1>2, <1>3, <1>4

(* Every step keeps the invariant and does nothing else that it may not.   *)
LEMMA WatchInvStep ==
    ASSUME TypeInv, WatchInv, [Next]_vars
    PROVE  WatchInv' /\ StepOK
<1>1. CASE UNCHANGED vars
  BY <1>1, WatchUntouched DEF vars
<1>2. CASE SetConnFd \/ SetServer \/ SetSockBind
  BY <1>2, WatchUntouched DEF SetConnFd, SetServer, SetSockBind
<1>3. CASE CbReturn
  BY <1>3, WatchUntouched DEF CbReturn
<1>4. CASE FdWatchIgnored
  BY <1>4, WatchUntouched DEF FdWatchIgnored, Dispatch
<1>5. CASE FdWatch
  BY <1>4, <1>5, FdWatchPlainConnWatch, FdWatchCryptoConnWatch, FdWatchRenegWatch,
     FdWatchSslWatch, FdWatchShutWatch DEF FdWatch
<1>6. CASE User
  BY <1>2, <1>6, RequestsWatch, ReadWriteWatch, RenegReadWatch DEF User
<1>7. CASE Loop
  BY <1>3, <1>5, <1>7, PollWatchKeeps, LookupDoneWatch DEF Loop
<1> QED
  BY <1>1, <1>6, <1>7 DEF Next, Terminated

(* The initial state.                                                      *)
LEMMA WatchInvInit == Init => WatchInv
<1> SUFFICES ASSUME Init PROVE WatchInv
  OBVIOUS
<1>1. state = "INIT" /\ io = NoIO /\ watch = NoWatch /\ ready = FALSE
  BY DEF Init
<1>2. Shown(NoIO)
  BY DEF NoIO, Shown, Pending
<1>3. WatchOK(state, op, io, watch)
  BY <1>1, <1>2, NoWatchMeans DEF WatchOK, Reads
<1>4. ReadyOK
  BY <1>1 DEF ReadyOK
<1> QED
  BY <1>3, <1>4 DEF WatchInv

(* The invariant therefore always holds.                                   *)
LEMMA WatchInvAlways == Spec => []WatchInv
<1>1. TypeInv /\ WatchInv /\ [Next]_vars => WatchInv'
  BY WatchInvStep
<1> QED
  BY <1>1, WatchInvInit, TypeInvAlways, PTL DEF Spec

-----------------------------------------------------------------------------
(* What it means.                                                          *)

(* The watch of an established channel always asks for exactly what the    *)
(* deferred reads and writes wait for: none of the many places that change *)
(* them forgets to re-arm it or does so from a stale cache.                *)
THEOREM WatchAsksForDeferred == Spec => []DeferredArmed
<1>1. WatchInv => DeferredArmed
  BY DEF WatchInv, WatchOK, Reads, DeferredArmed, ReadsTheSocket
<1> QED
  BY <1>1, WatchInvAlways, PTL

(* No close-notify alert and no renegotiation request overtakes output     *)
(* that was buffered before it.                                            *)
THEOREM OutputBeforeControl == Spec => []FlushedBeforeControl
<1>1. TypeInv /\ WatchInv => FlushedBeforeControl
  <2> SUFFICES ASSUME TypeInv, WatchInv,
                      \/ state = "CRYPTO_SHUT" /\ op.phase \in {"shut1", "shut2", "success"}
                      \/ state = "CRYPTO_RENEG" /\ op.phase \in {"requestHello", "handshake", "done"},
                      io.buf
               PROVE  io.out = "error"
    BY DEF FlushedBeforeControl
  <2>1. ~Pending(io.out)
    BY DEF WatchInv, WatchOK, RenegOK, ShutOK
  <2>2. io.out \in IOStates /\ io.out # "idle"
    BY DEF TypeInv, MachineOK, SoundIO, CryptoIO, DeferredOK
  <2> QED
    BY <2>1, <2>2 DEF IOStates, Pending
<1> QED
  BY <1>1, TypeInvAlways, WatchInvAlways, PTL

(* The main loop never spins on an immediate timer that was left on.       *)
THEOREM TimerAlwaysReset == Spec => []TimerIsReset
<1>1. WatchInv => TimerIsReset
  BY DEF WatchInv, WatchOK, TimerMeant, TimerIsReset
<1> QED
  BY <1>1, WatchInvAlways, PTL

(* Whatever is in progress has something that wakes it up, but for the two *)
(* stalls the property names, and a reader of buffered input is told.      *)
THEOREM AlwaysWoken == Spec => []NoLostWakeup
<1>1. TypeInv /\ WatchInv => NoLostWakeup
  <2> SUFFICES ASSUME TypeInv, WatchInv PROVE NoLostWakeup
    OBVIOUS
  <2>1. InProgress =>
          state = "LOOKUP" \/ WillWake \/ AwaitsReader \/ FlushStall \/ ReadFlushStall
    <3>1. CASE state = "PLAIN_CONN"
      BY <3>1 DEF WatchInv, WatchOK, WillWake
    <3>2. CASE state = "CRYPTO_CONN"
      BY <3>2 DEF WatchInv, WatchOK, WillWake
    <3>3. CASE state = "CRYPTO_RENEG"
      BY <3>3 DEF WatchInv, WatchOK, RenegOK, WillWake, AwaitsReader, FlushStall
    <3>4. CASE state = "CRYPTO_SHUT" /\ op.phase # "success"
      <4>1. ShutOK(op, io, watch) /\ op.how \in {"oneWay", "twoWay"}
        BY <3>4 DEF WatchInv, WatchOK, TypeInv, MachineOK, Ops
      <4>2. CASE op.phase = "flushOut" /\ op.how = "oneWay" /\ Pending(io.out)
        <5>1. watch.events = DeferredCondition(io)
          BY <3>4, <4>2 DEF WatchInv, WatchOK, Reads
        <5> QED
          BY <4>2, <5>1, PendingIsWatched DEF WillWake
      <4>3. CASE op.phase = "flushOut" /\ op.how = "oneWay" /\ ~Pending(io.out)
        BY <3>4, <4>1, <4>3 DEF ShutOK, ReadFlushStall
      <4> QED
        BY <3>4, <4>1, <4>2, <4>3 DEF ShutOK, WillWake
    <3> QED
      BY <3>1, <3>2, <3>3, <3>4 DEF InProgress
  <2>2. CheckIO.readable \in {"ready", "readyhup", "hup"} => ReaderIsTold
    BY DEF ReaderIsTold, AppWatch!Preflight, AppWatch!Told, AppWatch!Failures
  <2>3. InputReady(io) => InputHint(io) \in {"ready", "readyhup"}
    <3>1. InputReady(io) => ~Pending(io.in)
      BY DEF InputReady, WatchInv, WatchOK, Shown, TypeInv, MachineOK, SoundIO, CryptoIO, DeferredOK
    <3> QED
      BY <3>1 DEF InputHint
  <2>4. InputReady(io) /\ (ReadsTheSocket \/ state = "CRYPTO_RENEG") => ReaderIsTold
    <3>1. CASE InputReady(io) /\ state = "CRYPTO_RENEG"
      BY <2>2, <3>1 DEF CheckIO, RenegHint, Hint
    <3>2. CASE InputReady(io) /\ ReadsTheSocket
      <4>1. CheckIO.readable = InputHint(io)
        BY <3>2 DEF ReadsTheSocket, CheckIO, ShutHint, Hint
      <4> QED
        BY <2>2, <2>3, <3>2, <4>1
    <3> QED
      BY <3>1, <3>2
  <2>5. state \in {"PLAIN_FAIL", "CRYPTO_FAIL"} => ReaderIsTold
    BY <2>2 DEF CheckIO, Hint
  <2> QED
    BY <2>1, <2>4, <2>5 DEF NoLostWakeup
<1> QED
  BY <1>1, TypeInvAlways, WatchInvAlways, PTL

(* The assertions on the poll records of a connection in progress and of a *)
(* shutdown never fail, whatever runs between check and dispatch.          *)
THEOREM OtherAssertionsHold == Spec => []OnlySslAssertFails
<1>1. Init => OnlySslAssertFails
  BY DEF Init, OnlySslAssertFails
<1>2. TypeInv /\ WatchInv /\ OnlySslAssertFails /\ [Next]_vars => OnlySslAssertFails'
  BY WatchInvStep DEF StepOK, OnlySslAssertFails
<1> QED
  BY <1>1, <1>2, TypeInvAlways, WatchInvAlways, PTL DEF Spec

(* No retry, renegotiation or shutdown revives a direction of an encrypted *)
(* connection that has failed.                                             *)
THEOREM FatalErrorsStick == Spec => ErrorsStick
<1>1. TypeInv /\ WatchInv /\ [Next]_vars =>
          [state' \in CryptoMode => /\ io.out = "error" => io'.out = "error"
                                    /\ io.in = "error" => io'.in = "error"]_vars
  BY WatchInvStep DEF StepOK
<1> QED
  BY <1>1, TypeInvAlways, WatchInvAlways, PTL DEF Spec, ErrorsStick

(* The byte that a deferred read obtained is lost to no dispatch, no       *)
(* renegotiation and no shutdown: only a READ takes it.                    *)
THEOREM DeferredByteReachesReader == Spec => DeferredByteKept
<1>1. TypeInv /\ WatchInv /\ [Next]_vars =>
          [io.byte /\ ~io'.byte /\ state' \in CryptoMode => UNCHANGED <<state, ready>>]_vars
  BY WatchInvStep DEF StepOK
<1> QED
  BY <1>1, TypeInvAlways, WatchInvAlways, PTL DEF Spec, DeferredByteKept
=============================================================================
