-------------------------- MODULE PslChannelProofs --------------------------
(***************************************************************************)
(* Theorems about the state machine of a channel (PslChannelFsm), for      *)
(* every value of its constants: its types, the soundness of its deferred  *)
(* I/O, and the references it holds.                                       *)
(*                                                                         *)
(* Transitions happen in two ways, Goto and Stay, so each invariant is     *)
(* shown once for those and then for the events that use them.             *)
(***************************************************************************)
EXTENDS PslChannelProps, PslCryptoIOProofs

(* What Goto and Stay change, well-typed and sound.                        *)
MachineOK ==
    /\ state \in States /\ op \in Ops /\ tls \in Tls /\ io \in SoundIO
    /\ ctxRefs \in Int /\ initRefs \in Int /\ watch \in Watches
    /\ state = "CRYPTO_RENEG" => ~Pending(io.in)
    /\ state = "CRYPTO_SHUT" /\ op.how = "twoWay" => ~Pending(io.in)

(* What they leave alone.                                                  *)
RestOK ==
    /\ conf \in [server : BOOLEAN, bind : BOOLEAN, userFd : BOOLEAN, keepFd : BOOLEAN]
    /\ fd \in BOOLEAN
    /\ desc \in {"none", "open", "closed", "closedTwice"}
    /\ closed \in BOOLEAN
    /\ ready \in BOOLEAN
    /\ cb \in [ctx : {"no", "watch", "lookup"}, err : BOOLEAN]
    /\ req \in {"none", "wait"}
    /\ abort \in {"", "connRecs", "sslRecs", "shutSuccess"}

(* The type invariant needs the soundness of the deferred I/O: a step of   *)
(* the loop of crypto_process_deferred_ssl_io is well-typed only then.     *)
TypeInv == MachineOK /\ RestOK

(* The invariant is the two properties the runs check, regrouped.          *)
LEMMA TypeInvMeans == TypeInv <=> TypeOK /\ DeferredSound
  BY DEF TypeInv, MachineOK, RestOK, TypeOK, DeferredSound, SoundIO

-----------------------------------------------------------------------------
(* The parts of a transition.                                              *)

(* Arming the watch keeps it well-typed.                                   *)
LEMMA ArmType ==
    ASSUME NEW w \in Watches, NEW conds \in SUBSET Events
    PROVE  Arm(w, conds) \in Watches
<1>1. w.revents \in SUBSET (Events \cup {"HUP", "ERR"}) /\ w.timer \in BOOLEAN
  BY DEF Watches
<1> QED
  BY <1>1 DEF Arm, Watches

(* The watches the handlers set are watches.                               *)
LEMMA WatchTypes ==
    /\ NoWatch \in Watches
    /\ TimerWatch \in Watches
    /\ \A s : IOCondition(s) \in SUBSET Events
  BY DEF NoWatch, TimerWatch, Watches, IOCondition, Events

(* So is one armed for the deferred I/O.                                   *)
LEMMA ArmDeferredType ==
    ASSUME NEW w \in Watches, NEW y
    PROVE  ArmDeferred(w, y) \in Watches
<1>1. DeferredCondition(y) \in SUBSET Events
  BY WatchTypes DEF DeferredCondition
<1> QED
  BY <1>1, ArmType DEF ArmDeferred

(* A begin handler leaves the I/O sound and defers no read where none may  *)
(* be deferred.                                                            *)
LEMMA BeginSound ==
    ASSUME watch \in Watches, NEW d \in States, NEW o \in Ops, NEW y \in SoundIO,
           NEW b \in Begin(d, o, y)
    PROVE  /\ b.io \in SoundIO /\ b.watch \in Watches
           /\ d = "CRYPTO_RENEG" => ~Pending(b.io.in)
           /\ d = "CRYPTO_SHUT" /\ o.how = "twoWay" => ~Pending(b.io.in)
<1> USE WatchTypes
<1>1. NoIO \in SoundIO
  BY DEF NoIO, SoundIO, CryptoIO, DeferredOK, Pending, IOStates
<1>2. WatchAfterExit \in Watches
  BY DEF WatchAfterExit
<1>3. CASE d \in {"CLOSED", "PLAIN_FAIL", "FINAL"}
  BY <1>1, <1>3 DEF Begin
<1>4. CASE d \in {"LOOKUP", "PLAIN_TCP", "PLAIN_SHUT"}
  <2>1. b = [io |-> NoIO, watch |-> WatchAfterExit]
    BY <1>4 DEF Begin
  <2> QED
    BY <1>1, <1>2, <1>4, <2>1
<1>5. CASE d = "PLAIN_CONN"
  <2>1. b = [io |-> NoIO, watch |-> IF o.err THEN TimerWatch
                                    ELSE [NoWatch EXCEPT !.desc = TRUE, !.events = {"OUT"}]]
    BY <1>5 DEF Begin
  <2>2. [NoWatch EXCEPT !.desc = TRUE, !.events = {"OUT"}] \in Watches
    BY DEF NoWatch, Watches, Events
  <2> QED
    BY <1>1, <1>5, <2>1, <2>2
<1>6. CASE d = "CRYPTO_FAIL"
  <2>1. b = [io |-> y, watch |-> WatchAfterExit]
    BY <1>6 DEF Begin
  <2> QED
    BY <1>2, <1>6, <2>1
<1>7. CASE d = "CRYPTO_CONN"
  <2>1. b = [io |-> NoIO, watch |-> TimerWatch]
    BY <1>7 DEF Begin
  <2> QED
    BY <1>1, <1>7, <2>1
<1>8. CASE d = "CRYPTO_RENEG"
  <2>1. b = [io |-> DropInput(y), watch |-> TimerWatch]
    BY <1>8 DEF Begin
  <2>2. DropInput(y) \in SoundIO /\ ~Pending(DropInput(y).in)
    BY DEF DropInput, SoundIO, CryptoIO, DeferredOK, Pending, IOStates
  <2> QED
    BY <1>8, <2>1, <2>2
<1>9. CASE d = "CRYPTO_SHUT"
  <2>1. b = [io |-> IF o.how = "twoWay" THEN DropInputAndByte(y) ELSE y,
             watch |-> TimerWatch]
    BY <1>9 DEF Begin
  <2>2. DropInputAndByte(y) \in SoundIO /\ ~Pending(DropInputAndByte(y).in)
    BY DEF DropInputAndByte, SoundIO, CryptoIO, DeferredOK, Pending, IOStates
  <2> QED
    BY <1>9, <2>1, <2>2
<1>10. CASE d \in {"CRYPTO_SSL", "INIT"}
  <2>1. PICK z \in ProcessDeferred(y, "none", {}) :
            b = [io |-> z, watch |-> ArmDeferred(NoWatch, z)]
    BY <1>10 DEF Begin
  <2>2. z \in SoundIO
    BY ProcessDeferredSound
  <2> QED
    BY <1>10, <2>1, <2>2, ArmDeferredType
<1> QED
  BY <1>3, <1>4, <1>5, <1>6, <1>7, <1>8, <1>9, <1>10 DEF States, PlainMode, CryptoMode

(* A transition keeps the machine well-typed and sound.                    *)
LEMMA GotoOK ==
    ASSUME MachineOK, NEW d \in States, NEW o \in Ops, NEW y \in SoundIO,
           NEW t \in Tls, NEW r \in Int, Goto(d, o, y, t, r)
    PROVE  MachineOK'
<1>1. state' = d /\ op' = o
  BY DEF Goto
<1>2. PICK b \in Begin(d, o, y) : io' = b.io /\ watch' = b.watch
  BY DEF Goto
<1>3. /\ io' \in SoundIO /\ watch' \in Watches
      /\ d = "CRYPTO_RENEG" => ~Pending(io'.in)
      /\ d = "CRYPTO_SHUT" /\ o.how = "twoWay" => ~Pending(io'.in)
  BY <1>2, BeginSound DEF MachineOK
<1>4. tls' \in Tls /\ initRefs' \in Int
  <2>1. NoTls \in Tls /\ \A taken \in BOOLEAN : [NoTls EXCEPT !.init = taken] \in Tls
    BY DEF Tls, NoTls
  <2>2. initRefs \in Int
    BY DEF MachineOK
  <2>3. CryptoModeScope(d, t)
    BY DEF Goto
  <2>4. CASE d \notin CryptoMode
    BY <2>1, <2>2, <2>3, <2>4 DEF CryptoModeScope
  <2>5. CASE d \in CryptoMode /\ state \in CryptoMode
    BY <2>2, <2>3, <2>5 DEF CryptoModeScope
  <2>6. CASE d \in CryptoMode /\ state \notin CryptoMode
    BY <2>1, <2>2, <2>3, <2>6 DEF CryptoModeScope
  <2> QED
    BY <2>4, <2>5, <2>6
<1>5. ctxRefs' \in Int
  <2>1. RefsTaken(d, o) \in Int /\ RefsReleased(d, t) \in Int
    BY DEF RefsTaken, RefsReleased
  <2> QED
    BY <2>1 DEF Goto
<1> QED
  BY <1>1, <1>3, <1>4, <1>5 DEF MachineOK

(* So does an event that stays in its state, if it defers no read where    *)
(* none may be deferred.                                                   *)
LEMMA StayOK ==
    ASSUME MachineOK, NEW o \in Ops, NEW y \in SoundIO, NEW w \in Watches, Stay(o, y, w),
           state = "CRYPTO_RENEG" => ~Pending(y.in),
           state = "CRYPTO_SHUT" /\ o.how = "twoWay" => ~Pending(y.in)
    PROVE  MachineOK'
  BY DEF MachineOK, Stay

-----------------------------------------------------------------------------
(* Renegotiation.                                                          *)

RenegLocals == [op : Ops, io : {y \in SoundIO : ~Pending(y.in)}, watch : Watches]

(* The fields of an operation that its progress does not touch.            *)
SameRequest(o, p) == o.kind = p.kind /\ o.cb = p.cb /\ o.how = p.how /\ o.wait = p.wait

(* An operation stays one when its progress changes.                       *)
LEMMA OpProgress ==
    ASSUME NEW o \in Ops
    PROVE  /\ \A p \in Phases : /\ [o EXCEPT !.phase = p] \in Ops
                              /\ SameRequest([o EXCEPT !.phase = p], o)
           /\ \A e \in BOOLEAN : /\ [o EXCEPT !.err = e] \in Ops
                               /\ SameRequest([o EXCEPT !.err = e], o)
           /\ \A e \in BOOLEAN : /\ [o EXCEPT !.startErr = e] \in Ops
                               /\ SameRequest([o EXCEPT !.startErr = e], o)
  BY DEF Ops, SameRequest

(* The paragraphs of crypto_do_renegotiate keep its locals well-typed and  *)
(* the request as it was: first the reset of the watch,                    *)
LEMMA RenegInitOK ==
    ASSUME NEW x \in RenegLocals
    PROVE  RenegInit(x) \in RenegLocals /\ SameRequest(RenegInit(x).op, x.op)
<1>1. [x.op EXCEPT !.phase = "flushOut"] \in Ops
  BY OpProgress DEF RenegLocals, Phases
<1> QED
  BY <1>1, WatchTypes DEF RenegInit, RenegLocals, SameRequest, Ops

(* then the wait for deferred output and SSL_renegotiate,                  *)
LEMMA RenegFlushOK ==
    ASSUME NEW x \in RenegLocals, NEW z \in RenegFlush(x)
    PROVE  z \in RenegLocals /\ SameRequest(z.op, x.op)
<1>1. CASE z = x
  BY <1>1 DEF SameRequest
<1>2. ASSUME NEW p \in Phases, NEW failed \in BOOLEAN,
             z = [x EXCEPT !.op.phase = p, !.op.err = failed, !.op.startErr = failed]
      PROVE  z \in RenegLocals /\ SameRequest(z.op, x.op)
  <2>1. x.op \in Ops
    BY DEF RenegLocals
  <2>2. z.op \in Ops /\ SameRequest(z.op, x.op)
    BY <1>2, <2>1 DEF RenegLocals, Ops, SameRequest
  <2> QED
    BY <1>2, <2>2 DEF RenegLocals
<1> QED
  BY <1>1, <1>2 DEF RenegFlush, Phases

(* The answer h moves the renegotiation to another phase or watches the    *)
(* socket: the common part of its last two paragraphs.                     *)
LEMMA RenegProgress ==
    ASSUME NEW x \in RenegLocals, NEW z,
           \/ \E p \in Phases : z = [x EXCEPT !.op.phase = p, !.watch = Arm(x.watch, {"IN"})]
           \/ \E s : z = [x EXCEPT !.watch = Arm(x.watch, IOCondition(s))]
           \/ \E e \in BOOLEAN : z = [x EXCEPT !.op.phase = "done", !.op.err = e]
           \/ z = [x EXCEPT !.watch = NoWatch]
    PROVE  z \in RenegLocals /\ SameRequest(z.op, x.op)
<1>1. x.op \in Ops /\ x.watch \in Watches
  BY DEF RenegLocals
<1>2. Arm(x.watch, {"IN"}) \in Watches /\ \A s : Arm(x.watch, IOCondition(s)) \in Watches
  BY <1>1, ArmType, WatchTypes DEF Events
<1>3. CASE \E p \in Phases : z = [x EXCEPT !.op.phase = p, !.watch = Arm(x.watch, {"IN"})]
  <2>1. PICK p \in Phases : z = [x EXCEPT !.op.phase = p, !.watch = Arm(x.watch, {"IN"})]
    BY <1>3
  <2>2. z.op = [x.op EXCEPT !.phase = p] /\ z.io = x.io /\ z.watch = Arm(x.watch, {"IN"})
    BY <2>1 DEF RenegLocals
  <2>3. z = [op |-> z.op, io |-> z.io, watch |-> z.watch]
    BY <2>1 DEF RenegLocals
  <2>4. z.op \in Ops /\ SameRequest(z.op, x.op)
    BY <1>1, <2>2, OpProgress
  <2> QED
    BY <1>2, <2>2, <2>3, <2>4 DEF RenegLocals
<1>4. CASE \E s : z = [x EXCEPT !.watch = Arm(x.watch, IOCondition(s))]
  BY <1>2, <1>4 DEF RenegLocals, SameRequest
<1>5. CASE \E e \in BOOLEAN : z = [x EXCEPT !.op.phase = "done", !.op.err = e]
  <2>1. PICK e \in BOOLEAN : z = [x EXCEPT !.op.phase = "done", !.op.err = e]
    BY <1>5
  <2>2. z.op = [x.op EXCEPT !.phase = "done", !.err = e] /\ z.io = x.io /\ z.watch = x.watch
    BY <2>1 DEF RenegLocals
  <2>3. z = [op |-> z.op, io |-> z.io, watch |-> z.watch]
    BY <2>1 DEF RenegLocals
  <2>4. z.op \in Ops /\ SameRequest(z.op, x.op)
    BY <1>1, <2>2 DEF Ops, Phases, SameRequest
  <2> QED
    BY <2>2, <2>3, <2>4 DEF RenegLocals
<1>6. CASE z = [x EXCEPT !.watch = NoWatch]
  BY <1>6, WatchTypes DEF RenegLocals, SameRequest
<1> QED
  BY <1>3, <1>4, <1>5, <1>6

(* A handshake that waits watches the socket,                              *)
LEMMA RenegWaits ==
    ASSUME NEW x \in RenegLocals, NEW h \in Want, NEW u,
           u = [x EXCEPT !.watch = Arm(x.watch, IOCondition(h))]
    PROVE  /\ u \in RenegLocals /\ SameRequest(u.op, x.op) /\ u.io = x.io
           /\ u.op = x.op /\ u.watch = Arm(x.watch, IOCondition(h))
<1>1. u \in RenegLocals /\ SameRequest(u.op, x.op)
  BY RenegProgress
<1> QED
  BY <1>1 DEF RenegLocals

(* and one that has ended watches nothing new.                             *)
LEMMA RenegEnds ==
    ASSUME NEW x \in RenegLocals, NEW e \in BOOLEAN, NEW u,
           u = [x EXCEPT !.op.phase = "done", !.op.err = e]
    PROVE  /\ u \in RenegLocals /\ SameRequest(u.op, x.op) /\ u.io = x.io
           /\ u.op.phase = "done" /\ u.watch = x.watch
<1>1. u \in RenegLocals /\ SameRequest(u.op, x.op)
  BY RenegProgress
<1>2. u.op = [x.op EXCEPT !.phase = "done", !.err = e] /\ u.io = x.io /\ u.watch = x.watch
  BY DEF RenegLocals
<1> QED
  BY <1>1, <1>2 DEF RenegLocals, Ops

(* Data that OpenSSL buffers on the way defers no read and nothing else.   *)
Buffered(u, z) == z = u \/ z = [u EXCEPT !.io.pend = TRUE]

LEMMA BufferedOK ==
    ASSUME NEW u \in RenegLocals, NEW z, Buffered(u, z)
    PROVE  /\ z \in RenegLocals /\ z.op = u.op /\ z.watch = u.watch
           /\ z.io.in = u.io.in /\ z.io.out = u.io.out /\ z.io.byte = u.io.byte
<1>1. [u.io EXCEPT !.pend = TRUE] \in {y \in SoundIO : ~Pending(y.in)}
  BY DEF RenegLocals, SoundIO, CryptoIO, DeferredOK, Pending
<1>2. CASE z = u
  BY <1>2
<1>3. CASE z = [u EXCEPT !.io.pend = TRUE]
  BY <1>1, <1>3 DEF RenegLocals, SoundIO, CryptoIO
<1> QED
  BY <1>2, <1>3 DEF Buffered

LEMMA MayBufferMeans ==
    ASSUME NEW outcomes, NEW z \in MayBuffer(outcomes)
    PROVE  \E u \in outcomes : Buffered(u, z)
  BY DEF MayBuffer, Buffered

(* the request for a new handshake,                                        *)
LEMMA RenegHelloOutcomes ==
    ASSUME NEW x \in RenegLocals, NEW z \in RenegHello(x), x.op.phase = "requestHello"
    PROVE  \E u \in RenegLocals :
              /\ Buffered(u, z) /\ SameRequest(u.op, x.op) /\ u.io = x.io
              /\ \/ u.op.phase = "handshake" /\ u.watch = Arm(x.watch, {"IN"})
                 \/ u.op = x.op /\ \E h \in Want : u.watch = Arm(x.watch, IOCondition(h))
                 \/ u.op.phase = "done" /\ u.watch = x.watch
<1> DEFINE outcome(h) ==
        CASE h = "done" /\ x.op.wait ->
                [x EXCEPT !.op.phase = "handshake", !.watch = Arm(x.watch, {"IN"})]
          [] h \in Want -> [x EXCEPT !.watch = Arm(x.watch, IOCondition(h))]
          [] OTHER -> [x EXCEPT !.op.phase = "done", !.op.err = (h = "failed")]
<1>1. RenegHello(x) = MayBuffer({outcome(h) : h \in Handshakes})
  BY DEF RenegHello
<1>2. \A h \in Handshakes :
         \/ outcome(h) = [x EXCEPT !.op.phase = "handshake", !.watch = Arm(x.watch, {"IN"})]
         \/ h \in Want /\ outcome(h) = [x EXCEPT !.watch = Arm(x.watch, IOCondition(h))]
         \/ \E e \in BOOLEAN : outcome(h) = [x EXCEPT !.op.phase = "done", !.op.err = e]
  BY DEF Handshakes, Want
<1> HIDE DEF outcome
<1>3. PICK h \in Handshakes : Buffered(outcome(h), z)
  BY <1>1, MayBufferMeans
<1>4. CASE outcome(h) = [x EXCEPT !.op.phase = "handshake", !.watch = Arm(x.watch, {"IN"})]
  <2>1. outcome(h) \in RenegLocals /\ SameRequest(outcome(h).op, x.op)
    BY <1>4, RenegProgress DEF Phases
  <2>2. /\ outcome(h).io = x.io /\ outcome(h).op.phase = "handshake"
        /\ outcome(h).watch = Arm(x.watch, {"IN"})
    BY <1>4 DEF RenegLocals, Ops
  <2> QED
    BY <1>3, <2>1, <2>2
<1>5. CASE h \in Want /\ outcome(h) = [x EXCEPT !.watch = Arm(x.watch, IOCondition(h))]
  BY <1>3, <1>5, RenegWaits
<1>6. CASE \E e \in BOOLEAN : outcome(h) = [x EXCEPT !.op.phase = "done", !.op.err = e]
  BY <1>3, <1>6, RenegEnds
<1> QED
  BY <1>2, <1>4, <1>5, <1>6

LEMMA RenegHelloOK ==
    ASSUME NEW x \in RenegLocals, NEW z \in RenegHello(x)
    PROVE  z \in RenegLocals /\ SameRequest(z.op, x.op)
<1>1. CASE x.op.phase # "requestHello"
  BY <1>1 DEF RenegHello, SameRequest
<1>2. CASE x.op.phase = "requestHello"
  BY <1>2, RenegHelloOutcomes, BufferedOK
<1> QED
  BY <1>1, <1>2

(* and the handshake itself.                                               *)
LEMMA RenegHandshakeOutcomes ==
    ASSUME NEW x \in RenegLocals, NEW z \in RenegHandshake(x),
           x.op.phase = "handshake", ~InputReady(x.io)
    PROVE  \E u \in RenegLocals :
              /\ Buffered(u, z) /\ SameRequest(u.op, x.op) /\ u.io = x.io
              /\ \/ u.op = x.op /\ \E h \in Want : u.watch = Arm(x.watch, IOCondition(h))
                 \/ u.op.phase = "done" /\ u.watch = x.watch
<1> DEFINE outcome(h) ==
        CASE h \in Want -> [x EXCEPT !.watch = Arm(x.watch, IOCondition(h))]
          [] OTHER -> [x EXCEPT !.op.phase = "done", !.op.err = (h = "failed")]
<1>1. RenegHandshake(x) = MayBuffer({outcome(h) : h \in Handshakes})
  BY DEF RenegHandshake
<1>2. \A h \in Handshakes :
         \/ h \in Want /\ outcome(h) = [x EXCEPT !.watch = Arm(x.watch, IOCondition(h))]
         \/ \E e \in BOOLEAN : outcome(h) = [x EXCEPT !.op.phase = "done", !.op.err = e]
  BY DEF Handshakes, Want
<1> HIDE DEF outcome
<1>3. PICK h \in Handshakes : Buffered(outcome(h), z)
  BY <1>1, MayBufferMeans
<1>4. CASE h \in Want /\ outcome(h) = [x EXCEPT !.watch = Arm(x.watch, IOCondition(h))]
  BY <1>3, <1>4, RenegWaits
<1>5. CASE \E e \in BOOLEAN : outcome(h) = [x EXCEPT !.op.phase = "done", !.op.err = e]
  BY <1>3, <1>5, RenegEnds
<1> QED
  BY <1>2, <1>4, <1>5

LEMMA RenegHandshakeOK ==
    ASSUME NEW x \in RenegLocals, NEW z \in RenegHandshake(x)
    PROVE  z \in RenegLocals /\ SameRequest(z.op, x.op)
<1>1. CASE x.op.phase # "handshake"
  BY <1>1 DEF RenegHandshake, SameRequest
<1>2. CASE x.op.phase = "handshake" /\ InputReady(x.io)
  <2>1. z = [x EXCEPT !.watch = NoWatch]
    BY <1>2 DEF RenegHandshake
  <2> QED
    BY <2>1, RenegProgress
<1>3. CASE x.op.phase = "handshake" /\ ~InputReady(x.io)
  BY <1>3, RenegHandshakeOutcomes, BufferedOK
<1> QED
  BY <1>1, <1>2, <1>3

(* Whatever OpenSSL answers, a step of the renegotiation is well-typed,    *)
(* defers no read and does not touch the request.                          *)
LEMMA DoRenegotiateOK ==
    ASSUME NEW x \in RenegLocals, NEW z \in DoRenegotiate(x)
    PROVE  z \in RenegLocals /\ SameRequest(z.op, x.op)
<1>1. PICK u \in RenegFlush(RenegInit(x)) : \E v \in RenegHello(u) : z \in RenegHandshake(v)
  BY DEF DoRenegotiate
<1>2. PICK v \in RenegHello(u) : z \in RenegHandshake(v)
  BY <1>1
<1>3. u \in RenegLocals /\ SameRequest(u.op, x.op)
  BY <1>1, RenegInitOK, RenegFlushOK DEF SameRequest
<1>4. v \in RenegLocals /\ SameRequest(v.op, x.op)
  BY <1>2, <1>3, RenegHelloOK DEF SameRequest
<1> QED
  BY <1>2, <1>4, RenegHandshakeOK DEF SameRequest

-----------------------------------------------------------------------------
(* Types and deferred I/O.                                                 *)

(* The operations the application can ask for are well-typed.              *)
LEMMA Requests ==
    /\ NoOp \in Ops
    /\ \A kind \in Kinds, c \in Cbs : ConnectOp(kind, c) \in Ops
    /\ \A wait \in BOOLEAN, c \in Cbs : [NoOp EXCEPT !.wait = wait, !.cb = c] \in Ops
    /\ \A how \in {"oneWay", "twoWay"}, c \in Cbs : [NoOp EXCEPT !.how = how, !.cb = c] \in Ops
<1>1. NoOp \in Ops
  BY DEF NoOp, Ops, Phases
<1>2. \A kind \in Kinds, c \in Cbs : ConnectOp(kind, c) \in Ops
  BY <1>1, KindsAssumption, CbsAssumption DEF ConnectOp, Ops
<1> QED
  BY <1>1, <1>2, CbsAssumption DEF Ops

(* A completion is well-typed.                                             *)
LEMMA CompleteOK ==
    ASSUME RestOK, NEW c, NEW err \in BOOLEAN, Complete(c, err)
    PROVE  /\ cb' \in [ctx : {"no", "watch", "lookup"}, err : BOOLEAN]
           /\ req' \in {"none", "wait"}
<1>1. CASE c = "none"
  BY <1>1 DEF RestOK, Complete
<1>2. CASE c # "none"
  BY <1>2 DEF Complete
<1> QED
  BY <1>1, <1>2

(* So are a callback and a request that are left alone.                    *)
LEMMA CallbackKept ==
    ASSUME RestOK, cb' = cb, req' = req
    PROVE  /\ cb' \in [ctx : {"no", "watch", "lookup"}, err : BOOLEAN]
           /\ req' \in {"none", "wait"}
  BY DEF RestOK

(* An event that touches none of it keeps the rest well-typed.             *)
LEMMA RestUntouched ==
    ASSUME RestOK, UNCHANGED <<conf, fd, desc, closed, ready, cb, req, abort>>
    PROVE  RestOK'
<1>1. /\ conf' = conf /\ fd' = fd /\ desc' = desc /\ closed' = closed
      /\ ready' = ready /\ cb' = cb /\ req' = req /\ abort' = abort
  OBVIOUS
<1> QED
  BY <1>1 DEF RestOK

(* An event may set anything but the settings to a value of its type.      *)
LEMMA RestChanged ==
    ASSUME RestOK, conf' = conf, fd' = fd \/ fd' \in BOOLEAN,
           desc' = desc \/ desc' \in {"none", "open", "closed", "closedTwice"},
           closed' = closed \/ closed' \in BOOLEAN, ready' = ready \/ ready' \in BOOLEAN,
           cb' = cb \/ cb' \in [ctx : {"no", "watch", "lookup"}, err : BOOLEAN],
           req' = req \/ req' \in {"none", "wait"},
           abort' = abort \/ abort' \in {"", "connRecs", "sslRecs", "shutSuccess"}
    PROVE  RestOK'
<1>1. cb' \in [ctx : {"no", "watch", "lookup"}, err : BOOLEAN]
  BY DEF RestOK
<1>2. /\ fd' \in BOOLEAN /\ closed' \in BOOLEAN /\ ready' \in BOOLEAN
      /\ desc' \in {"none", "open", "closed", "closedTwice"}
      /\ req' \in {"none", "wait"}
      /\ abort' \in {"", "connRecs", "sslRecs", "shutSuccess"}
  BY DEF RestOK
<1> QED
  BY <1>1, <1>2 DEF RestOK

(* What a request owes is well-typed,                                      *)
LEMMA RequestType == \A c : Request(c) => req' \in {"none", "wait"}
  BY DEF Request

(* and so is what closing leaves of the descriptor.                        *)
LEMMA CloseDescriptorType ==
    ASSUME RestOK, CloseDescriptor
    PROVE  /\ fd' \in BOOLEAN /\ closed' \in BOOLEAN
           /\ desc' \in {"none", "open", "closed", "closedTwice"}
  BY DEF RestOK, CloseDescriptor

(* The initial state.                                                      *)
LEMMA TypeInvInit == Init => TypeInv
<1> SUFFICES ASSUME Init PROVE TypeInv
  OBVIOUS
<1>1. NoIO \in SoundIO /\ NoTls \in Tls /\ ~Pending(NoIO.in)
  BY DEF NoIO, SoundIO, CryptoIO, DeferredOK, Pending, IOStates, NoTls, Tls
<1>2. MachineOK
  <2>1. state = "INIT" /\ op \in Ops /\ tls \in Tls /\ io \in SoundIO
    BY <1>1, Requests DEF Init
  <2>2. ctxRefs = 0 /\ initRefs = 0 /\ watch = NoWatch
    BY DEF Init
  <2> QED
    BY <2>1, <2>2, WatchTypes DEF MachineOK, States
<1>3. RestOK
  BY DEF Init, RestOK
<1> QED
  BY <1>2, <1>3 DEF TypeInv

(* The connecting transition, with a descriptor of either origin.          *)
LEMMA GotoPlainConnOK ==
    ASSUME TypeInv, NEW o \in Ops, GotoPlainConn(o)
    PROVE  MachineOK' /\ fd' \in BOOLEAN /\ desc' \in {"none", "open", "closed", "closedTwice"}
<1>1. PICK failed \in BOOLEAN, created \in BOOLEAN :
          /\ IF conf.userFd
               THEN created /\ UNCHANGED <<fd, desc>>
               ELSE fd' = created /\ desc' = IF created THEN "open" ELSE "none"
          /\ Goto("PLAIN_CONN", [o EXCEPT !.err = failed], io, tls, ctxRefs)
  BY DEF GotoPlainConn
<1>2. [o EXCEPT !.err = failed] \in Ops
  BY OpProgress
<1>3. MachineOK'
  BY <1>1, <1>2, GotoOK DEF TypeInv, MachineOK, States, PlainMode
<1> QED
  BY <1>1, <1>3 DEF TypeInv, RestOK

(* Every call of the application.                                          *)
LEMMA TypeInvUser ==
    ASSUME TypeInv, User
    PROVE  TypeInv'
<1> USE DEF TypeInv
<1>1. CASE SetConnFd
  BY <1>1 DEF SetConnFd, MachineOK, RestOK
<1>2. CASE SetServer
  BY <1>2 DEF SetServer, MachineOK, RestOK
<1>3. CASE SetSockBind
  BY <1>3 DEF SetSockBind, MachineOK, RestOK
<1>4. ASSUME NEW kind \in Kinds, NEW c \in Cbs, Connect(kind, c)
      PROVE  TypeInv'
  <2>1. ConnectOp(kind, c) \in Ops
    BY Requests
  <2>2. MachineOK' /\ fd' \in BOOLEAN /\ desc' \in {"none", "open", "closed", "closedTwice"}
    <3>1. CASE Goto("LOOKUP", ConnectOp(kind, c), io, tls, ctxRefs) /\ UNCHANGED <<fd, desc>>
      BY <2>1, <3>1, GotoOK DEF MachineOK, RestOK, States, PlainMode
    <3>2. CASE GotoPlainConn(ConnectOp(kind, c))
      BY <2>1, <3>2, GotoPlainConnOK
    <3>3. CASE Goto("CRYPTO_CONN", ConnectOp(kind, c), io, tls, ctxRefs) /\ UNCHANGED <<fd, desc>>
      BY <2>1, <3>3, GotoOK DEF MachineOK, RestOK, States, CryptoMode
    <3> QED
      BY <1>4, <3>1, <3>2, <3>3 DEF Connect
  <2>3. conf' = conf /\ closed' = closed /\ ready' = ready /\ cb' = cb /\ abort' = abort
    BY <1>4 DEF Connect
  <2>4. req' \in {"none", "wait"}
    BY <1>4, RequestType DEF Connect
  <2>5. RestOK'
    BY <2>2, <2>3, <2>4, RestChanged
  <2> QED
    BY <2>2, <2>5
<1>5. CASE ShutSock
  <2>1. MachineOK'
    BY <1>5, GotoOK, Requests DEF ShutSock, MachineOK, States, PlainMode
  <2>2. /\ conf' = conf /\ fd' = fd /\ desc' = desc /\ closed' = closed
        /\ ready' = ready /\ cb' = cb /\ req' = "none" /\ abort' = abort
    BY <1>5 DEF ShutSock, sockVars
  <2> QED
    BY <2>1, <2>2, RestChanged
<1>6. CASE Close
  <2>1. MachineOK'
    BY <1>6, GotoOK, Requests DEF Close, MachineOK, States
  <2>2. /\ conf' = conf /\ ready' = ready /\ cb' = cb /\ req' = "none" /\ abort' = abort
    BY <1>6 DEF Close
  <2>3. RestOK'
    BY <1>6, <2>2, CloseDescriptorType, RestChanged DEF Close
  <2> QED
    BY <2>1, <2>3
<1>7. CASE Finalize
  <2>1. MachineOK'
    BY <1>7, GotoOK, Requests DEF Finalize, MachineOK, States
  <2>2. conf' = conf /\ ready' = FALSE /\ cb' = cb /\ req' = "none" /\ abort' = abort
    BY <1>7 DEF Finalize
  <2>3. RestOK'
    BY <1>7, <2>2, CloseDescriptorType, RestChanged DEF Finalize
  <2> QED
    BY <2>1, <2>3
<1>8. ASSUME NEW wait \in BOOLEAN, NEW c \in Cbs, Renegotiate(wait, c)
      PROVE  TypeInv'
  <2>1. MachineOK'
    BY <1>8, GotoOK, Requests DEF Renegotiate, MachineOK, States, CryptoMode
  <2>2. /\ conf' = conf /\ fd' = fd /\ desc' = desc /\ closed' = closed
        /\ ready' = ready /\ cb' = cb /\ abort' = abort
    BY <1>8 DEF Renegotiate, sockVars
  <2>3. req' \in {"none", "wait"}
    BY <1>8, RequestType DEF Renegotiate
  <2>4. RestOK'
    BY <2>2, <2>3, RestChanged
  <2> QED
    BY <2>1, <2>4
<1>9. ASSUME NEW how \in {"oneWay", "twoWay"}, NEW c \in Cbs, ShutCrypto(how, c)
      PROVE  TypeInv'
  <2>1. MachineOK'
    BY <1>9, GotoOK, Requests DEF ShutCrypto, MachineOK, States, CryptoMode
  <2>2. /\ conf' = conf /\ fd' = fd /\ desc' = desc /\ closed' = closed
        /\ ready' = ready /\ cb' = cb /\ abort' = abort
    BY <1>9 DEF ShutCrypto, sockVars
  <2>3. req' \in {"none", "wait"}
    BY <1>9, RequestType DEF ShutCrypto
  <2>4. RestOK'
    BY <2>2, <2>3, RestChanged
  <2> QED
    BY <2>1, <2>4
<1>10. CASE ResumePlain
  <2>1. MachineOK'
    BY <1>10, GotoOK, Requests DEF ResumePlain, MachineOK, States, PlainMode
  <2>10. UNCHANGED <<conf, fd, desc, closed, ready, cb, req, abort>>
    BY <1>10 DEF ResumePlain, sockVars
  <2> QED
    BY <2>1, <2>10, RestUntouched
<1>11. CASE Write
  <2>1. PICK y \in HandleWRITE(io) : Stay(op, y, ArmDeferred(watch, y))
    BY <1>11 DEF Write
  <2>2. y \in SoundIO /\ ArmDeferred(watch, y) \in Watches
    BY HandleWRITESound, ArmDeferredType DEF MachineOK
  <2>3. MachineOK'
    BY <1>11, <2>1, <2>2, StayOK DEF Write, MachineOK
  <2>10. UNCHANGED <<conf, fd, desc, closed, ready, cb, req, abort>>
    BY <1>11 DEF Write, sockVars
  <2> QED
    BY <2>3, <2>10, RestUntouched
<1>12. ASSUME NEW exact \in BOOLEAN, Read(exact)
       PROVE  TypeInv'
  <2>1. PICK r \in HandleREAD(io, exact) :
            Stay(op, r.io, IF r.tried THEN ArmDeferred(watch, r.io) ELSE watch)
    BY <1>12 DEF Read
  <2>2. /\ r.io \in SoundIO
        /\ (IF r.tried THEN ArmDeferred(watch, r.io) ELSE watch) \in Watches
    BY HandleREADSound, ArmDeferredType DEF MachineOK
  <2>3. MachineOK'
    BY <1>12, <2>1, <2>2, StayOK DEF Read, ReadsTheSocket, MachineOK
  <2>10. UNCHANGED <<conf, fd, desc, closed, ready, cb, req, abort>>
    BY <1>12 DEF Read, sockVars
  <2> QED
    BY <2>3, <2>10, RestUntouched
<1>13. ASSUME NEW exact \in BOOLEAN, RenegRead(exact)
       PROVE  TypeInv'
  <2>1. PICK r \in HandleREAD(io, exact) :
            /\ ~r.tried
            /\ \E x \in DoRenegotiate([op |-> op, io |-> r.io, watch |-> watch]) :
                  Stay(x.op, x.io, IF x.op.phase = "done"
                                     THEN [x.watch EXCEPT !.timer = TRUE] ELSE x.watch)
    BY <1>13 DEF RenegRead
  <2>2. PICK x \in DoRenegotiate([op |-> op, io |-> r.io, watch |-> watch]) :
            Stay(x.op, x.io, IF x.op.phase = "done"
                               THEN [x.watch EXCEPT !.timer = TRUE] ELSE x.watch)
    BY <2>1
  <2>3. r.io \in SoundIO /\ ~Pending(r.io.in)
    BY <1>13, <2>1, HandleREADSound DEF RenegRead, MachineOK
  <2>4. [op |-> op, io |-> r.io, watch |-> watch] \in RenegLocals
    BY <2>3 DEF RenegLocals, MachineOK
  <2>5. x \in RenegLocals
    BY <2>4, DoRenegotiateOK
  <2>6. /\ x.op \in Ops /\ x.io \in SoundIO /\ ~Pending(x.io.in)
        /\ (IF x.op.phase = "done" THEN [x.watch EXCEPT !.timer = TRUE] ELSE x.watch) \in Watches
    BY <2>5 DEF RenegLocals, Watches
  <2>7. MachineOK'
    BY <1>13, <2>2, <2>6, StayOK DEF RenegRead, MachineOK
  <2>10. UNCHANGED <<conf, fd, desc, closed, ready, cb, req, abort>>
    BY <1>13 DEF RenegRead, sockVars
  <2> QED
    BY <2>7, <2>10, RestUntouched
<1> QED
  BY <1>1, <1>2, <1>3, <1>4, <1>5, <1>6, <1>7, <1>8, <1>9, <1>10, <1>11, <1>12, <1>13 DEF User

(* Every dispatch of the fd watch.                                         *)
LEMMA FdWatchPlainConnOK ==
    ASSUME TypeInv, FdWatchPlainConn
    PROVE  TypeInv'
<1> USE DEF TypeInv
<1>1. /\ conf' = conf /\ fd' = fd /\ desc' = desc /\ closed' = closed /\ ready' = FALSE
  BY DEF FdWatchPlainConn, Dispatch, sockVars
<1>2. CASE Assert("connRecs")
  <2>1. /\ state' = state /\ op' = op /\ tls' = tls /\ io' = io /\ ctxRefs' = ctxRefs
        /\ initRefs' = initRefs /\ watch' = watch /\ cb' = cb /\ req' = req /\ abort' = "connRecs"
    BY <1>2 DEF Assert
  <2>2. MachineOK'
    BY <2>1 DEF MachineOK
  <2> QED
    BY <1>1, <2>1, <2>2, RestChanged
<1>3. CASE \E failed \in ConnectionFailed :
             /\ IF ConnectCompletes(failed) THEN Complete(op.cb, failed)
                                           ELSE UNCHANGED <<cb, req>>
             /\ IF failed
                  THEN Goto("PLAIN_FAIL", NoOp, io, tls, ctxRefs)
                ELSE IF op.kind = "plain"
                  THEN Goto("PLAIN_TCP", NoOp, io, tls, ctxRefs)
                  ELSE Goto("CRYPTO_CONN", ConnectOp(op.kind, op.cb), io, tls, ctxRefs)
             /\ UNCHANGED abort
  <2>1. PICK failed \in ConnectionFailed :
             /\ IF ConnectCompletes(failed) THEN Complete(op.cb, failed)
                                           ELSE UNCHANGED <<cb, req>>
             /\ IF failed
                  THEN Goto("PLAIN_FAIL", NoOp, io, tls, ctxRefs)
                ELSE IF op.kind = "plain"
                  THEN Goto("PLAIN_TCP", NoOp, io, tls, ctxRefs)
                  ELSE Goto("CRYPTO_CONN", ConnectOp(op.kind, op.cb), io, tls, ctxRefs)
             /\ UNCHANGED abort
    BY <1>3
  <2>2. failed \in BOOLEAN
    BY DEF ConnectionFailed, RestOK
  <2>3. ConnectOp(op.kind, op.cb) \in Ops
    BY DEF MachineOK, ConnectOp, NoOp, Ops, Phases
  <2>4. MachineOK'
    BY <2>1, <2>3, GotoOK, Requests DEF MachineOK, States, PlainMode, CryptoMode
  <2>5. /\ cb' \in [ctx : {"no", "watch", "lookup"}, err : BOOLEAN]
        /\ req' \in {"none", "wait"}
    <3>1. CASE Complete(op.cb, failed)
      BY <2>2, <3>1, CompleteOK
    <3>2. CASE cb' = cb /\ req' = req
      BY <3>2, CallbackKept
    <3> QED
      BY <2>1, <3>1, <3>2
  <2> QED
    BY <1>1, <2>1, <2>4, <2>5, RestChanged
<1> QED
  BY <1>2, <1>3 DEF FdWatchPlainConn

(* The handshake of a connection, with an SSL object made on the way.      *)
LEMMA FdWatchCryptoConnOK ==
    ASSUME TypeInv, FdWatchCryptoConn
    PROVE  TypeInv'
<1> DEFINE begun == op.phase = "init"
           w     == IF begun THEN NoWatch ELSE watch
           t     == IF begun THEN SslCreated ELSE tls
           r     == IF begun THEN ctxRefs + 1 ELSE ctxRefs
<1> USE DEF TypeInv
<1>1. /\ conf' = conf /\ fd' = fd /\ desc' = desc /\ closed' = closed /\ ready' = FALSE
      /\ abort' = abort /\ state = "CRYPTO_CONN"
  BY DEF FdWatchCryptoConn, Dispatch, sockVars
<1>2. /\ t \in Tls /\ [tls EXCEPT !.kind = op.kind] \in Tls /\ r \in Int /\ w \in Watches
  <2>1. tls \in Tls /\ op.kind \in {"plain", "client", "server"}
    BY DEF MachineOK, Ops
  <2>2. [tls EXCEPT !.kind = op.kind] \in Tls /\ SslCreated \in Tls
    BY <2>1 DEF SslCreated, Tls
  <2>3. r \in Int /\ w \in Watches
    BY WatchTypes DEF MachineOK
  <2> QED
    BY <2>1, <2>2, <2>3
<1>3. \/ Complete(op.cb, TRUE) /\ Goto("CRYPTO_FAIL", NoOp, io, [tls EXCEPT !.kind = op.kind], ctxRefs)
      \/ Complete(op.cb, TRUE) /\ Goto("CRYPTO_FAIL", NoOp, io, t, r)
      \/ Complete(op.cb, FALSE) /\ Goto("CRYPTO_SSL", NoOp, io, t, r)
      \/ /\ \E h \in Want : watch' = Arm(w, IOCondition(h))
         /\ op' = [op EXCEPT !.phase = "handshake"]
         /\ tls' = t
         /\ ctxRefs' = r
         /\ UNCHANGED <<state, io, initRefs, cb, req>>
  BY DEF FdWatchCryptoConn
<1> HIDE DEF begun, w, t, r
<1>4. MachineOK'
  <2>1. CASE Goto("CRYPTO_FAIL", NoOp, io, [tls EXCEPT !.kind = op.kind], ctxRefs)
    BY <1>2, <2>1, GotoOK, Requests DEF MachineOK, States, CryptoMode
  <2>2. CASE Goto("CRYPTO_FAIL", NoOp, io, t, r)
    BY <1>2, <2>2, GotoOK, Requests DEF MachineOK, States, CryptoMode
  <2>3. CASE Goto("CRYPTO_SSL", NoOp, io, t, r)
    BY <1>2, <2>3, GotoOK, Requests DEF MachineOK, States, CryptoMode
  <2>4. CASE /\ \E h \in Want : watch' = Arm(w, IOCondition(h))
             /\ op' = [op EXCEPT !.phase = "handshake"]
             /\ tls' = t
             /\ ctxRefs' = r
             /\ UNCHANGED <<state, io, initRefs>>
    <3>1. watch' \in Watches
      BY <1>2, <2>4, ArmType, WatchTypes
    <3>2. op' \in Ops
      BY <2>4, OpProgress DEF MachineOK, Phases
    <3>3. state' = "CRYPTO_CONN" /\ io' = io /\ initRefs' = initRefs
      BY <1>1, <2>4
    <3> QED
      BY <1>2, <2>4, <3>1, <3>2, <3>3 DEF MachineOK, States, CryptoMode
  <2> QED
    BY <1>3, <2>1, <2>2, <2>3, <2>4
<1>5. /\ cb' \in [ctx : {"no", "watch", "lookup"}, err : BOOLEAN]
      /\ req' \in {"none", "wait"}
  <2>1. CASE Complete(op.cb, TRUE) \/ Complete(op.cb, FALSE)
    BY <2>1, CompleteOK
  <2>2. CASE cb' = cb /\ req' = req
    BY <2>2, CallbackKept
  <2> QED
    BY <1>3, <2>1, <2>2
<1> QED
  BY <1>1, <1>4, <1>5, RestChanged

(* A renegotiation, which may first retry the deferred write.              *)
LEMMA FdWatchRenegOK ==
    ASSUME TypeInv, FdWatchReneg
    PROVE  TypeInv'
<1> USE DEF TypeInv
<1>1. /\ conf' = conf /\ fd' = fd /\ desc' = desc /\ closed' = closed /\ ready' = FALSE
      /\ abort' = abort /\ state = "CRYPTO_RENEG"
  BY DEF FdWatchReneg, Dispatch, sockVars
<1>2. \E x \in RenegLocals : \E z \in DoRenegotiate(x) :
         IF z.op.phase = "done"
           THEN /\ Complete(op.cb, z.op.err)
                /\ Goto(IF z.op.err THEN "CRYPTO_FAIL" ELSE "CRYPTO_SSL",
                        NoOp, z.io, tls, ctxRefs)
           ELSE /\ Stay(z.op, z.io, z.watch)
                /\ UNCHANGED <<cb, req>>
  <2>1. PICK x \in IF Indicated # {} /\ op.phase = "flushOut"
                     THEN {[op |-> op, io |-> y, watch |-> ArmDeferred(watch, y)] :
                               y \in ProcessDeferred(io, "none", Indicated)}
                     ELSE {[op |-> op, io |-> io, watch |-> watch]} :
         \E z \in DoRenegotiate(x) :
         IF z.op.phase = "done"
           THEN /\ Complete(op.cb, z.op.err)
                /\ Goto(IF z.op.err THEN "CRYPTO_FAIL" ELSE "CRYPTO_SSL",
                        NoOp, z.io, tls, ctxRefs)
           ELSE /\ Stay(z.op, z.io, z.watch)
                /\ UNCHANGED <<cb, req>>
    BY DEF FdWatchReneg
  <2>2. x \in RenegLocals
    <3>1. CASE \E y \in ProcessDeferred(io, "none", Indicated) :
                  x = [op |-> op, io |-> y, watch |-> ArmDeferred(watch, y)]
      <4>1. PICK y \in ProcessDeferred(io, "none", Indicated) :
                  x = [op |-> op, io |-> y, watch |-> ArmDeferred(watch, y)]
        BY <3>1
      <4>2. y \in SoundIO /\ ~Pending(y.in)
        BY <1>1, ProcessDeferredSound, ProcessDeferredKeepsInput DEF MachineOK
      <4> QED
        BY <4>1, <4>2, ArmDeferredType DEF MachineOK, RenegLocals
    <3>2. CASE x = [op |-> op, io |-> io, watch |-> watch]
      BY <1>1, <3>2 DEF MachineOK, RenegLocals
    <3> QED
      BY <2>1, <3>1, <3>2
  <2> QED
    BY <2>1, <2>2
<1>2a. PICK x \in RenegLocals : \E z \in DoRenegotiate(x) :
         IF z.op.phase = "done"
           THEN /\ Complete(op.cb, z.op.err)
                /\ Goto(IF z.op.err THEN "CRYPTO_FAIL" ELSE "CRYPTO_SSL",
                        NoOp, z.io, tls, ctxRefs)
           ELSE /\ Stay(z.op, z.io, z.watch)
                /\ UNCHANGED <<cb, req>>
  BY <1>2
<1>3. PICK z \in DoRenegotiate(x) :
         IF z.op.phase = "done"
           THEN /\ Complete(op.cb, z.op.err)
                /\ Goto(IF z.op.err THEN "CRYPTO_FAIL" ELSE "CRYPTO_SSL",
                        NoOp, z.io, tls, ctxRefs)
           ELSE /\ Stay(z.op, z.io, z.watch)
                /\ UNCHANGED <<cb, req>>
  BY <1>2a
<1>4. z.op \in Ops /\ z.io \in SoundIO /\ ~Pending(z.io.in) /\ z.watch \in Watches
  BY DoRenegotiateOK DEF RenegLocals
<1>5. MachineOK'
  <2>1. CASE z.op.phase = "done"
    BY <1>3, <1>4, <2>1, GotoOK, Requests DEF MachineOK, States, CryptoMode
  <2>2. CASE z.op.phase # "done"
    BY <1>3, <1>4, <2>2, StayOK
  <2> QED
    BY <2>1, <2>2
<1>6. /\ cb' \in [ctx : {"no", "watch", "lookup"}, err : BOOLEAN]
      /\ req' \in {"none", "wait"}
  <2>1. z.op.err \in BOOLEAN
    BY <1>4 DEF Ops
  <2>2. CASE Complete(op.cb, z.op.err)
    BY <2>1, <2>2, CompleteOK
  <2>3. CASE cb' = cb /\ req' = req
    BY <2>3, CallbackKept
  <2> QED
    BY <1>3, <2>2, <2>3
<1> QED
  BY <1>1, <1>5, <1>6, RestChanged

(* An established connection.                                              *)
LEMMA FdWatchSslOK ==
    ASSUME TypeInv, FdWatchSsl
    PROVE  TypeInv'
<1> USE DEF TypeInv
<1>1. /\ conf' = conf /\ fd' = fd /\ desc' = desc /\ closed' = closed /\ ready' = FALSE
      /\ state = "CRYPTO_SSL"
  BY DEF FdWatchSsl, Dispatch, sockVars
<1>2. CASE Assert("sslRecs")
  <2>1. /\ state' = state /\ op' = op /\ tls' = tls /\ io' = io /\ ctxRefs' = ctxRefs
        /\ initRefs' = initRefs /\ watch' = watch /\ cb' = cb /\ req' = req /\ abort' = "sslRecs"
    BY <1>2 DEF Assert
  <2>2. MachineOK'
    BY <2>1 DEF MachineOK
  <2> QED
    BY <1>1, <2>1, <2>2, RestChanged
<1>3. CASE /\ \E y \in ProcessDeferred(io, "none", Indicated) : Stay(op, y, ArmDeferred(watch, y))
           /\ UNCHANGED <<cb, req, abort>>
  <2>1. PICK y \in ProcessDeferred(io, "none", Indicated) : Stay(op, y, ArmDeferred(watch, y))
    BY <1>3
  <2>2. y \in SoundIO /\ ArmDeferred(watch, y) \in Watches
    BY ProcessDeferredSound, ArmDeferredType DEF MachineOK
  <2>3. MachineOK'
    BY <1>1, <2>1, <2>2, StayOK DEF MachineOK
  <2>4. cb' = cb /\ req' = req /\ abort' = abort
    BY <1>3
  <2> QED
    BY <1>1, <2>3, <2>4, RestChanged
<1> QED
  BY <1>2, <1>3 DEF FdWatchSsl

(* Whatever crypto_do_shutdown answers, a shutdown step is well-typed.     *)
LEMMA ShutdownOK ==
    ASSUME TypeInv, state = "CRYPTO_SHUT", NEW phase \in Phases, NEW y \in SoundIO,
           op.how = "twoWay" => ~Pending(y.in), NEW w \in Watches, Shutdown(phase, y, w)
    PROVE  /\ MachineOK'
           /\ cb' \in [ctx : {"no", "watch", "lookup"}, err : BOOLEAN]
           /\ req' \in {"none", "wait"}
<1> USE DEF TypeInv
<1>1. CASE Complete(op.cb, TRUE) /\ Goto("CRYPTO_FAIL", NoOp, y, tls, ctxRefs)
  <2>1. MachineOK'
    BY <1>1, GotoOK, Requests DEF MachineOK, States, CryptoMode
  <2> QED
    BY <1>1, <2>1, CompleteOK
<1>2. CASE Complete(op.cb, FALSE) /\ Goto("PLAIN_TCP", NoOp, y, tls, ctxRefs)
  <2>1. MachineOK'
    BY <1>2, GotoOK, Requests DEF MachineOK, States, PlainMode
  <2> QED
    BY <1>2, <2>1, CompleteOK
<1>3. CASE /\ Complete(op.cb, FALSE)
           /\ \E z \in IF op.how = "oneWay" THEN ProcessDeferred(y, "none", {}) ELSE {y} :
                    Stay([op EXCEPT !.phase = "success"], z,
                         IF op.how = "oneWay" THEN ArmDeferred(NoWatch, z) ELSE NoWatch)
  <2>1. PICK z \in IF op.how = "oneWay" THEN ProcessDeferred(y, "none", {}) ELSE {y} :
                    Stay([op EXCEPT !.phase = "success"], z,
                         IF op.how = "oneWay" THEN ArmDeferred(NoWatch, z) ELSE NoWatch)
    BY <1>3
  <2>2. z \in SoundIO
    BY ProcessDeferredSound
  <2>3. op.how = "twoWay" => ~Pending(z.in)
    OBVIOUS
  <2>4. (IF op.how = "oneWay" THEN ArmDeferred(NoWatch, z) ELSE NoWatch) \in Watches
    BY WatchTypes, ArmDeferredType
  <2>5. [op EXCEPT !.phase = "success"] \in Ops /\ [op EXCEPT !.phase = "success"].how = op.how
    BY OpProgress DEF MachineOK, Phases, SameRequest
  <2>6. MachineOK'
    BY <2>1, <2>2, <2>3, <2>4, <2>5, StayOK
  <2> QED
    BY <1>3, <2>6, CompleteOK
<1>4. CASE /\ \E h \in Want, p \in {phase} \cup (IF op.how = "twoWay" THEN {"shut2"} ELSE {}) :
                 Stay([op EXCEPT !.phase = p], y, Arm(w, IOCondition(h)))
           /\ UNCHANGED <<cb, req>>
  <2>1. PICK h \in Want, p \in {phase} \cup (IF op.how = "twoWay" THEN {"shut2"} ELSE {}) :
                 Stay([op EXCEPT !.phase = p], y, Arm(w, IOCondition(h)))
    BY <1>4
  <2>2. p \in Phases
    BY DEF Phases
  <2>3. [op EXCEPT !.phase = p] \in Ops /\ [op EXCEPT !.phase = p].how = op.how
    BY <2>2, OpProgress DEF MachineOK, SameRequest
  <2>4. Arm(w, IOCondition(h)) \in Watches
    BY ArmType, WatchTypes
  <2>5. MachineOK'
    BY <2>1, <2>3, <2>4, StayOK
  <2>6. cb' = cb /\ req' = req
    BY <1>4
  <2> QED
    BY <2>5, <2>6, CallbackKept
<1> QED
  BY <1>1, <1>2, <1>3, <1>4 DEF Shutdown

(* A shutdown of the encrypted connection, in each of its phases.          *)
LEMMA FdWatchShutOK ==
    ASSUME TypeInv, FdWatchShut
    PROVE  TypeInv'
<1> USE DEF TypeInv
<1>1. /\ conf' = conf /\ fd' = fd /\ desc' = desc /\ closed' = closed /\ ready' = FALSE
      /\ state = "CRYPTO_SHUT"
  BY DEF FdWatchShut, Dispatch, sockVars
<1>2. op \in Ops /\ op.phase \in Phases /\ io \in SoundIO /\ watch \in Watches
  BY DEF MachineOK, Ops
<1>3. op.how = "twoWay" => ~Pending(io.in)
  BY <1>1 DEF MachineOK
<1>4. ASSUME NEW y \in ProcessDeferred(io, "none", Indicated)
      PROVE  y \in SoundIO /\ (op.how = "twoWay" => ~Pending(y.in))
  BY <1>2, <1>3, ProcessDeferredSound, ProcessDeferredKeepsInput
<1>5. CASE op.phase = "success" /\ op.how # "oneWay"
  <2>1. Assert("shutSuccess")
    BY <1>5 DEF FdWatchShut
  <2>2. /\ state' = state /\ op' = op /\ tls' = tls /\ io' = io /\ ctxRefs' = ctxRefs
        /\ initRefs' = initRefs /\ watch' = watch /\ cb' = cb /\ req' = req
        /\ abort' = "shutSuccess"
    BY <2>1 DEF Assert
  <2>3. MachineOK'
    BY <2>2 DEF MachineOK
  <2> QED
    BY <1>1, <2>2, <2>3, RestChanged
<1>6. CASE op.phase = "success" /\ op.how = "oneWay"
  <2>1. /\ \E y \in ProcessDeferred(io, "none", Indicated) : Stay(op, y, ArmDeferred(watch, y))
        /\ UNCHANGED <<cb, req, abort>>
    BY <1>6 DEF FdWatchShut
  <2>2. PICK y \in ProcessDeferred(io, "none", Indicated) : Stay(op, y, ArmDeferred(watch, y))
    BY <2>1
  <2>3. ArmDeferred(watch, y) \in Watches
    BY <1>2, ArmDeferredType
  <2>4. MachineOK'
    BY <1>1, <1>2, <1>4, <2>2, <2>3, StayOK
  <2>5. cb' = cb /\ req' = req /\ abort' = abort
    BY <2>1
  <2> QED
    BY <1>1, <2>4, <2>5, RestChanged
<1>7. CASE op.phase \in {"init", "flushOut"}
  <2>1. /\ \E y \in ProcessDeferred(io, "none", Indicated) :
              IF Pending(y.out)
                THEN /\ Stay([op EXCEPT !.phase = "flushOut"], y,
                             ArmDeferred(IF op.phase = "init" THEN NoWatch ELSE watch, y))
                     /\ UNCHANGED <<cb, req>>
                ELSE Shutdown("shut1", y, NoWatch)
        /\ UNCHANGED abort
    BY <1>7 DEF FdWatchShut
  <2>2. PICK y \in ProcessDeferred(io, "none", Indicated) :
              IF Pending(y.out)
                THEN /\ Stay([op EXCEPT !.phase = "flushOut"], y,
                             ArmDeferred(IF op.phase = "init" THEN NoWatch ELSE watch, y))
                     /\ UNCHANGED <<cb, req>>
                ELSE Shutdown("shut1", y, NoWatch)
    BY <2>1
  <2>3. y \in SoundIO /\ (op.how = "twoWay" => ~Pending(y.in))
    BY <1>4
  <2>4. /\ MachineOK'
        /\ cb' \in [ctx : {"no", "watch", "lookup"}, err : BOOLEAN]
        /\ req' \in {"none", "wait"}
    <3>1. CASE Pending(y.out)
      <4>1. Stay([op EXCEPT !.phase = "flushOut"], y,
                 ArmDeferred(IF op.phase = "init" THEN NoWatch ELSE watch, y))
        BY <2>2, <3>1
      <4>2. /\ [op EXCEPT !.phase = "flushOut"] \in Ops
            /\ [op EXCEPT !.phase = "flushOut"].how = op.how
        BY <1>2, OpProgress DEF Phases, SameRequest
      <4>3. ArmDeferred(IF op.phase = "init" THEN NoWatch ELSE watch, y) \in Watches
        BY <1>2, WatchTypes, ArmDeferredType
      <4>4. MachineOK'
        BY <1>1, <2>3, <4>1, <4>2, <4>3, StayOK
      <4>5. cb' = cb /\ req' = req
        BY <2>2, <3>1
      <4> QED
        BY <4>4, <4>5, CallbackKept
    <3>2. CASE ~Pending(y.out)
      <4>1. Shutdown("shut1", y, NoWatch)
        BY <2>2, <3>2
      <4> QED
        BY <1>1, <2>3, <4>1, WatchTypes, ShutdownOK DEF Phases
    <3> QED
      BY <3>1, <3>2
  <2>5. abort' = abort
    BY <2>1
  <2> QED
    BY <1>1, <2>4, <2>5, RestChanged
<1>8. CASE op.phase \notin {"init", "flushOut", "success"}
  <2>1. Shutdown(op.phase, io, watch) /\ abort' = abort
    BY <1>8 DEF FdWatchShut
  <2>2. /\ MachineOK'
        /\ cb' \in [ctx : {"no", "watch", "lookup"}, err : BOOLEAN]
        /\ req' \in {"none", "wait"}
    BY <1>1, <1>2, <1>3, <2>1, ShutdownOK
  <2> QED
    BY <1>1, <2>1, <2>2, RestChanged
<1> QED
  BY <1>5, <1>6, <1>7, <1>8

(* The main loop: poll, dispatch, lookups and the return of callbacks.     *)
LEMMA TypeInvLoop ==
    ASSUME TypeInv, Loop
    PROVE  TypeInv'
<1> USE DEF TypeInv
<1>1. CASE PollWatch
  <2>1. PICK revents \in SUBSET (watch.events \cup FailConds) :
            watch' = [watch EXCEPT !.revents = revents]
    BY <1>1 DEF PollWatch
  <2>2. watch' \in Watches
    <3>1. watch \in Watches /\ watch.events \subseteq Events
      BY DEF MachineOK, Watches
    <3>2. revents \in SUBSET (Events \cup {"HUP", "ERR"})
      BY <3>1, FailCondsAssumption
    <3> QED
      BY <2>1, <3>1, <3>2 DEF Watches
  <2>3. /\ state' = state /\ op' = op /\ tls' = tls /\ io' = io
        /\ ctxRefs' = ctxRefs /\ initRefs' = initRefs
        /\ conf' = conf /\ fd' = fd /\ desc' = desc /\ closed' = closed
        /\ cb' = cb /\ req' = req /\ abort' = abort /\ ready' = TRUE
    BY <1>1 DEF PollWatch, sockVars
  <2>4. MachineOK'
    BY <2>2, <2>3 DEF MachineOK
  <2> QED
    BY <2>3, <2>4, RestChanged
<1>2. CASE FdWatch
  <2>1. CASE FdWatchIgnored
    <3>1. /\ state' = state /\ op' = op /\ tls' = tls /\ io' = io /\ watch' = watch
          /\ ctxRefs' = ctxRefs /\ initRefs' = initRefs
          /\ conf' = conf /\ fd' = fd /\ desc' = desc /\ closed' = closed
          /\ cb' = cb /\ req' = req /\ abort' = abort /\ ready' = FALSE
      BY <2>1 DEF FdWatchIgnored, Dispatch, sockVars
    <3>2. MachineOK'
      BY <3>1 DEF MachineOK
    <3> QED
      BY <3>1, <3>2, RestChanged
  <2> QED
    BY <1>2, <2>1, FdWatchPlainConnOK, FdWatchCryptoConnOK, FdWatchRenegOK, FdWatchSslOK,
       FdWatchShutOK DEF FdWatch
<1>3. ASSUME NEW result \in {"address", "error", "unusable"}, LookupDone(result)
      PROVE  TypeInv'
  <2>1. conf' = conf /\ closed' = closed /\ ready' = ready /\ abort' = abort
    BY <1>3 DEF LookupDone
  <2>2. CASE result = "error"
    <3>1. /\ Goto("PLAIN_FAIL", NoOp, io, tls, ctxRefs)
          /\ IF op.cb = "none"
               THEN UNCHANGED <<cb, req>>
               ELSE cb' = [ctx |-> "lookup", err |-> TRUE] /\ req' = "none"
          /\ UNCHANGED <<fd, desc>>
      BY <1>3, <2>2 DEF LookupDone
    <3>2. MachineOK'
      BY <3>1, GotoOK, Requests DEF MachineOK, States, PlainMode
    <3>3. fd' = fd /\ desc' = desc
      BY <3>1
    <3>4. /\ cb' = cb \/ cb' \in [ctx : {"no", "watch", "lookup"}, err : BOOLEAN]
          /\ req' = req \/ req' \in {"none", "wait"}
      <4>1. CASE op.cb = "none"
        BY <3>1, <4>1
      <4>2. CASE cb' = [ctx |-> "lookup", err |-> TRUE] /\ req' = "none"
        BY <4>2
      <4> QED
        BY <3>1, <4>1, <4>2
    <3> QED
      BY <2>1, <3>2, <3>3, <3>4, RestChanged
  <2>3. CASE result = "unusable"
    <3>1. Goto("PLAIN_FAIL", NoOp, io, tls, ctxRefs) /\ UNCHANGED <<cb, req, fd, desc>>
      BY <1>3, <2>3 DEF LookupDone
    <3>2. MachineOK'
      BY <3>1, GotoOK, Requests DEF MachineOK, States, PlainMode
    <3>3. fd' = fd /\ desc' = desc
      BY <3>1
    <3>4. /\ cb' = cb \/ cb' \in [ctx : {"no", "watch", "lookup"}, err : BOOLEAN]
          /\ req' = req \/ req' \in {"none", "wait"}
      BY <3>1
    <3> QED
      BY <2>1, <3>2, <3>3, <3>4, RestChanged
  <2>4. CASE result = "address"
    <3>1. GotoPlainConn(op) /\ cb' = cb /\ req' = req
      BY <1>3, <2>4 DEF LookupDone
    <3>2. /\ MachineOK' /\ fd' \in BOOLEAN
          /\ desc' \in {"none", "open", "closed", "closedTwice"}
      BY <3>1, GotoPlainConnOK DEF MachineOK
    <3> QED
      BY <2>1, <3>1, <3>2, RestChanged
  <2> QED
    BY <2>2, <2>3, <2>4
<1>4. CASE CbReturn
  <2>1. /\ state' = state /\ op' = op /\ tls' = tls /\ io' = io /\ watch' = watch
        /\ ctxRefs' = ctxRefs /\ initRefs' = initRefs
        /\ conf' = conf /\ fd' = fd /\ desc' = desc /\ closed' = closed
        /\ req' = req /\ abort' = abort /\ ready' = ready /\ cb' = [ctx |-> "no", err |-> FALSE]
    BY <1>4 DEF CbReturn, sockVars
  <2>2. MachineOK'
    BY <2>1 DEF MachineOK
  <2> QED
    BY <2>1, <2>2, RestChanged
<1> QED
  BY <1>1, <1>2, <1>3, <1>4 DEF Loop

(* The invariant is inductive.                                             *)
LEMMA TypeInvStep == TypeInv /\ [Next]_vars => TypeInv'
<1> SUFFICES ASSUME TypeInv, [Next]_vars PROVE TypeInv'
  OBVIOUS
<1>1. CASE UNCHANGED vars
  <2>1. /\ state' = state /\ op' = op /\ tls' = tls /\ io' = io /\ watch' = watch
        /\ ctxRefs' = ctxRefs /\ initRefs' = initRefs
    BY <1>1 DEF vars
  <2>2. UNCHANGED <<conf, fd, desc, closed, ready, cb, req, abort>>
    BY <1>1 DEF vars, sockVars
  <2>3. MachineOK'
    BY <2>1 DEF TypeInv, MachineOK
  <2> QED
    BY <2>2, <2>3, RestUntouched DEF TypeInv
<1>2. CASE Terminated
  BY <1>1, <1>2 DEF Terminated
<1> QED
  BY <1>1, <1>2, TypeInvUser, TypeInvLoop DEF Next

(* It therefore holds in every reachable state.                            *)
LEMMA TypeInvAlways == Spec => []TypeInv
  BY TypeInvInit, TypeInvStep, PTL DEF Spec

(* Every variable keeps its type, whatever the application, the main loop, *)
(* OpenSSL and the network do, and in whatever order.                      *)
THEOREM TypeCorrect == Spec => []TypeOK
<1>1. TypeInv => TypeOK
  BY TypeInvMeans
<1> QED
  BY <1>1, TypeInvAlways, PTL

(* No assertion on the deferred I/O fails, and no read is left waiting     *)
(* where nobody would retry it.                                            *)
THEOREM DeferredAlwaysSound == Spec => []DeferredSound
<1>1. TypeInv => DeferredSound
  BY TypeInvMeans
<1> QED
  BY <1>1, TypeInvAlways, PTL

-----------------------------------------------------------------------------
(* The references a channel holds: none leaks and none is returned twice,  *)
(* and every state that hands an SSL object to OpenSSL has one.            *)


(* The references the connection in progress holds, and the SSL object.    *)
ConnRefs(s, kind) ==
    IF s \in {"LOOKUP", "PLAIN_CONN", "CRYPTO_CONN"} /\ kind # "plain" THEN 1 ELSE 0
SslRefs(t) == IF t.sslCtx THEN 1 ELSE 0

(* RefsBalanced is inductive together with what each state knows of the    *)
(* SSL object: without SslWhereUsed, leaving CRYPTO_CONN could return a    *)
(* reference twice; an SSL object and its context come and go together,    *)
(* and only an encrypted connect reaches CRYPTO_CONN.                      *)
RefInv ==
    /\ ctxRefs = ConnRefs(state, op.kind) + SslRefs(tls)
    /\ initRefs = IF tls.init THEN 1 ELSE 0
    /\ state \notin CryptoMode => tls = NoTls
    /\ tls.sslCtx <=> tls.ssl
    /\ state \in {"CRYPTO_RENEG", "CRYPTO_SSL", "CRYPTO_SHUT"} => tls.ssl
    /\ state = "CRYPTO_CONN" => /\ op.kind # "plain"
                                /\ op.phase \in {"init", "handshake"}
                                /\ tls.ssl <=> op.phase = "handshake"

(* It implies the properties the runs check.                               *)
LEMMA RefInvMeans == RefInv => RefsBalanced /\ SslWhereUsed
  BY DEF RefInv, ConnRefs, SslRefs, RefsBalanced, SslWhereUsed

-----------------------------------------------------------------------------
(* A transition keeps the balance: t and r are what crypto mode may have   *)
(* made of the SSL object and the references before the exit handlers.     *)
LEMMA GotoRefs ==
    ASSUME MachineOK, RefInv, NEW d \in States, NEW o \in Ops, NEW y, NEW t \in Tls, NEW r \in Int,
           Goto(d, o, y, t, r),
           r = ConnRefs(state, op.kind) + SslRefs(t),
           t.sslCtx <=> t.ssl, t.init = tls.init,
           state \notin CryptoMode => t = NoTls,
           d \in CryptoMode \ {"CRYPTO_FAIL", "CRYPTO_CONN"} => t.ssl,
           d = "CRYPTO_CONN" => state \notin CryptoMode /\ o.kind # "plain" /\ o.phase = "init"
    PROVE  RefInv'
<1>1. state' = d /\ op' = o /\ CryptoModeScope(d, t)
      /\ ctxRefs' = r + RefsTaken(d, o) - RefsReleased(d, t)
  BY DEF Goto
<1>2. /\ RefsTaken(d, o) = ConnRefs(d, o.kind)
      /\ RefsReleased(d, t) = ConnRefs(state, op.kind)
                              + (IF state \in CryptoMode /\ d \notin CryptoMode
                                   THEN SslRefs(t) ELSE 0)
  <2>1. RefsTaken(d, o) = ConnRefs(d, o.kind)
    BY DEF RefsTaken, ConnRefs
  <2>2. state = "CRYPTO_CONN" => op.kind # "plain"
    BY DEF RefInv
  <2> QED
    BY <2>1, <2>2 DEF RefsReleased, ConnRefs, SslRefs
<1>3. ~NoTls.sslCtx /\ ~NoTls.ssl /\ ~NoTls.init
  BY DEF NoTls
<1>4. ConnRefs(state, op.kind) \in Int /\ ConnRefs(d, o.kind) \in Int /\ SslRefs(t) \in Int
      /\ initRefs \in Int /\ initRefs = IF tls.init THEN 1 ELSE 0
  BY DEF ConnRefs, SslRefs, MachineOK, RefInv
<1>5. CASE d \notin CryptoMode
  <2>1. tls' = NoTls /\ initRefs' = IF state \in CryptoMode /\ t.init THEN initRefs - 1 ELSE initRefs
    BY <1>1, <1>5 DEF CryptoModeScope
  <2>2. initRefs' = 0
    BY <1>3, <1>4, <2>1
  <2>3. ctxRefs' = ConnRefs(d, o.kind)
    <3>1. CASE state \in CryptoMode
      BY <1>1, <1>2, <1>4, <1>5, <3>1
    <3>2. CASE state \notin CryptoMode
      BY <1>1, <1>2, <1>3, <1>4, <1>5, <3>2 DEF SslRefs
    <3> QED
      BY <3>1, <3>2
  <2> QED
    BY <1>1, <1>3, <1>4, <1>5, <2>1, <2>2, <2>3 DEF RefInv, SslRefs, CryptoMode
<1>6. CASE d \in CryptoMode /\ state \in CryptoMode
  <2>1. tls' = t /\ initRefs' = initRefs
    BY <1>1, <1>6 DEF CryptoModeScope
  <2>2. ctxRefs' = ConnRefs(d, o.kind) + SslRefs(t)
    BY <1>1, <1>2, <1>4, <1>6
  <2> QED
    BY <1>1, <1>4, <1>6, <2>1, <2>2 DEF RefInv, CryptoMode
<1>7. CASE d \in CryptoMode /\ state \notin CryptoMode
  <2>1. PICK taken \in BOOLEAN : tls' = [NoTls EXCEPT !.init = taken]
                                 /\ initRefs' = IF taken THEN initRefs + 1 ELSE initRefs
    BY <1>1, <1>7 DEF CryptoModeScope
  <2>2. tls'.init = taken /\ ~tls'.ssl /\ ~tls'.sslCtx
    BY <2>1 DEF NoTls
  <2>3. initRefs' = IF taken THEN 1 ELSE 0
    BY <1>3, <1>4, <1>7, <2>1
  <2>4. ctxRefs' = ConnRefs(d, o.kind)
    BY <1>1, <1>2, <1>3, <1>4, <1>7 DEF SslRefs
  <2> QED
    BY <1>1, <1>3, <1>4, <1>7, <2>2, <2>3, <2>4 DEF RefInv, SslRefs, CryptoMode
<1> QED
  BY <1>5, <1>6, <1>7

(* The transitions that leave the SSL object and the references alone.     *)
LEMMA GotoKeepsRefs ==
    ASSUME MachineOK, RefInv, NEW d \in States, NEW o \in Ops, NEW y, Goto(d, o, y, tls, ctxRefs),
           d \in CryptoMode \ {"CRYPTO_FAIL", "CRYPTO_CONN"} => tls.ssl,
           d = "CRYPTO_CONN" => state \notin CryptoMode /\ o.kind # "plain" /\ o.phase = "init"
    PROVE  RefInv'
<1>1. /\ ctxRefs = ConnRefs(state, op.kind) + SslRefs(tls)
      /\ tls.sslCtx <=> tls.ssl
      /\ state \notin CryptoMode => tls = NoTls
  BY DEF RefInv
<1>2. tls \in Tls /\ ctxRefs \in Int
  BY DEF MachineOK
<1> QED
  BY <1>1, <1>2, GotoRefs

(* The events that neither leave the state nor touch a reference.          *)
LEMMA StayKeepsRefs ==
    ASSUME RefInv, UNCHANGED <<state, tls, ctxRefs, initRefs>>, op'.kind = op.kind,
           state # "CRYPTO_CONN" \/ op'.phase = op.phase
    PROVE  RefInv'
<1>1. state' = state /\ tls' = tls /\ ctxRefs' = ctxRefs /\ initRefs' = initRefs
  OBVIOUS
<1> QED
  BY <1>1 DEF RefInv

(* It holds initially.                                                     *)
LEMMA RefInvInit == Init => RefInv
<1> SUFFICES ASSUME Init PROVE RefInv
  OBVIOUS
<1>1. state = "INIT" /\ tls = NoTls /\ ctxRefs = 0 /\ initRefs = 0
  BY DEF Init
<1>2. ~tls.ssl /\ ~tls.sslCtx /\ ~tls.init
  BY <1>1 DEF NoTls
<1>3. ConnRefs(state, op.kind) = 0 /\ SslRefs(tls) = 0
  BY <1>1, <1>2 DEF ConnRefs, SslRefs
<1> QED
  BY <1>1, <1>2, <1>3 DEF RefInv

-----------------------------------------------------------------------------
(* Every call of the application.                                          *)
LEMMA RefInvUser ==
    ASSUME TypeInv, RefInv, User
    PROVE  RefInv'
<1>1. MachineOK /\ op \in Ops
  BY DEF TypeInv, MachineOK
<1>2. CASE SetConnFd \/ SetServer \/ SetSockBind
  <2>1. UNCHANGED <<state, op, tls, ctxRefs, initRefs>>
    BY <1>2 DEF SetConnFd, SetServer, SetSockBind
  <2> QED
    BY <2>1, StayKeepsRefs
<1>3. ASSUME NEW kind \in Kinds, NEW c \in Cbs, Connect(kind, c)
      PROVE  RefInv'
  <2>1. ConnectOp(kind, c) \in Ops
    BY Requests
  <2>2. CASE Goto("LOOKUP", ConnectOp(kind, c), io, tls, ctxRefs)
    BY <1>1, <2>1, <2>2, GotoKeepsRefs DEF States, PlainMode, CryptoMode
  <2>3. CASE GotoPlainConn(ConnectOp(kind, c))
    <3>1. PICK failed \in BOOLEAN :
              Goto("PLAIN_CONN", [ConnectOp(kind, c) EXCEPT !.err = failed], io, tls, ctxRefs)
      BY <2>3 DEF GotoPlainConn
    <3>2. [ConnectOp(kind, c) EXCEPT !.err = failed] \in Ops
      BY <2>1, OpProgress
    <3> QED
      BY <1>1, <3>1, <3>2, GotoKeepsRefs DEF States, PlainMode, CryptoMode
  <2>4. CASE /\ state = "PLAIN_TCP" /\ kind # "plain"
             /\ Goto("CRYPTO_CONN", ConnectOp(kind, c), io, tls, ctxRefs)
    <3>1. ConnectOp(kind, c).kind = kind /\ ConnectOp(kind, c).phase = "init"
      BY DEF ConnectOp, NoOp
    <3> QED
      BY <1>1, <2>1, <2>4, <3>1, GotoKeepsRefs DEF States, CryptoMode
  <2> QED
    BY <1>3, <2>2, <2>3, <2>4 DEF Connect
<1>4. CASE ShutSock
  BY <1>1, <1>4, GotoKeepsRefs, Requests DEF ShutSock, States, PlainMode, CryptoMode
<1>5. CASE Close \/ Finalize
  BY <1>1, <1>5, GotoKeepsRefs, Requests DEF Close, Finalize, States, CryptoMode
<1>6. ASSUME NEW wait \in BOOLEAN, NEW c \in Cbs, Renegotiate(wait, c)
      PROVE  RefInv'
  <2>1. tls.ssl
    BY <1>6 DEF Renegotiate, RefInv
  <2> QED
    BY <1>1, <1>6, <2>1, GotoKeepsRefs, Requests DEF Renegotiate, States, CryptoMode
<1>7. ASSUME NEW how \in {"oneWay", "twoWay"}, NEW c \in Cbs, ShutCrypto(how, c)
      PROVE  RefInv'
  <2>1. tls.ssl
    BY <1>7 DEF ShutCrypto, RefInv
  <2> QED
    BY <1>1, <1>7, <2>1, GotoKeepsRefs, Requests DEF ShutCrypto, States, CryptoMode
<1>8. CASE ResumePlain
  BY <1>1, <1>8, GotoKeepsRefs, Requests DEF ResumePlain, States, PlainMode, CryptoMode
<1>9. ASSUME NEW exact \in BOOLEAN, Write \/ Read(exact)
      PROVE  RefInv'
  <2>1. UNCHANGED <<state, op, tls, ctxRefs, initRefs>>
    BY <1>9 DEF Write, Read, Stay
  <2> QED
    BY <2>1, StayKeepsRefs
<1>10. ASSUME NEW exact \in BOOLEAN, RenegRead(exact)
       PROVE  RefInv'
  <2>1. PICK r \in HandleREAD(io, exact) :
            /\ ~r.tried
            /\ \E x \in DoRenegotiate([op |-> op, io |-> r.io, watch |-> watch]) :
                  Stay(x.op, x.io, IF x.op.phase = "done"
                                     THEN [x.watch EXCEPT !.timer = TRUE] ELSE x.watch)
    BY <1>10 DEF RenegRead
  <2>2. PICK x \in DoRenegotiate([op |-> op, io |-> r.io, watch |-> watch]) :
            Stay(x.op, x.io, IF x.op.phase = "done"
                               THEN [x.watch EXCEPT !.timer = TRUE] ELSE x.watch)
    BY <2>1
  <2>3. r.io \in SoundIO /\ ~Pending(r.io.in) /\ state = "CRYPTO_RENEG"
    BY <1>10, <2>1, HandleREADSound DEF RenegRead, TypeInv, MachineOK
  <2>4. [op |-> op, io |-> r.io, watch |-> watch] \in RenegLocals
    BY <2>3 DEF RenegLocals, TypeInv, MachineOK
  <2>5. x.op.kind = op.kind
    BY <2>4, DoRenegotiateOK DEF SameRequest
  <2>6. UNCHANGED <<state, tls, ctxRefs, initRefs>> /\ op' = x.op
    BY <2>2 DEF Stay
  <2> QED
    BY <2>3, <2>5, <2>6, StayKeepsRefs
<1> QED
  BY <1>2, <1>3, <1>4, <1>5, <1>6, <1>7, <1>8, <1>9, <1>10 DEF User

-----------------------------------------------------------------------------
(* Every dispatch of the fd watch.                                         *)
(* The handshake, which makes the SSL object; if it fails the reference    *)
(* of the connection and that of the object are both returned.             *)
LEMMA RefInvCryptoConn ==
    ASSUME TypeInv, RefInv, FdWatchCryptoConn
    PROVE  RefInv'
<1> DEFINE begun == op.phase = "init"
           t     == IF begun THEN SslCreated ELSE tls
           r     == IF begun THEN ctxRefs + 1 ELSE ctxRefs
<1>1. state = "CRYPTO_CONN" /\ MachineOK /\ tls \in Tls /\ ctxRefs \in Int /\ op \in Ops
  BY DEF FdWatchCryptoConn, Dispatch, TypeInv, MachineOK
<1>2. /\ ctxRefs = 1 + SslRefs(tls) /\ ConnRefs(state, op.kind) = 1
      /\ initRefs = IF tls.init THEN 1 ELSE 0
      /\ op.kind # "plain" /\ op.phase \in {"init", "handshake"}
      /\ tls.ssl <=> op.phase = "handshake"
      /\ tls.sslCtx <=> tls.ssl
  BY <1>1 DEF RefInv, ConnRefs
<1>3. [tls EXCEPT !.kind = op.kind] \in Tls /\ SslCreated \in Tls
  <2>1. op.kind \in {"plain", "client", "server"}
    BY <1>1 DEF Ops
  <2> QED
    BY <1>1, <2>1 DEF SslCreated, Tls
<1>4. /\ t \in Tls /\ r \in Int
      /\ r = 1 + SslRefs(t) /\ t.ssl /\ t.sslCtx /\ t.init = tls.init
  <2>1. SslCreated.ssl /\ SslCreated.sslCtx /\ SslCreated.init = tls.init
    BY <1>1 DEF SslCreated, Tls
  <2>2. CASE begun
    BY <1>1, <1>2, <1>3, <2>1, <2>2 DEF SslRefs
  <2>3. CASE ~begun
    BY <1>1, <1>2, <2>3
  <2> QED
    BY <2>2, <2>3
<1>5. \/ begun /\ Goto("CRYPTO_FAIL", NoOp, io, [tls EXCEPT !.kind = op.kind], ctxRefs)
      \/ Goto("CRYPTO_FAIL", NoOp, io, t, r)
      \/ Goto("CRYPTO_SSL", NoOp, io, t, r)
      \/ /\ op' = [op EXCEPT !.phase = "handshake"]
         /\ tls' = t
         /\ ctxRefs' = r
         /\ state' = state /\ initRefs' = initRefs
  BY DEF FdWatchCryptoConn
<1> HIDE DEF t, r
<1>6. CASE begun /\ Goto("CRYPTO_FAIL", NoOp, io, [tls EXCEPT !.kind = op.kind], ctxRefs)
  <2> DEFINE u == [tls EXCEPT !.kind = op.kind]
  <2>1. u.sslCtx = tls.sslCtx /\ u.ssl = tls.ssl /\ u.init = tls.init
    BY <1>1 DEF Tls
  <2>2. u \in Tls /\ SslRefs(u) = SslRefs(tls)
    BY <1>3, <2>1 DEF SslRefs
  <2>3. Goto("CRYPTO_FAIL", NoOp, io, u, ctxRefs)
    BY <1>6
  <2> HIDE DEF u
  <2> QED
    BY <1>1, <1>2, <2>1, <2>2, <2>3, GotoRefs, Requests DEF States, CryptoMode
<1>7. CASE Goto("CRYPTO_FAIL", NoOp, io, t, r)
  BY <1>1, <1>2, <1>4, <1>7, GotoRefs, Requests DEF States, CryptoMode
<1>8. CASE Goto("CRYPTO_SSL", NoOp, io, t, r)
  BY <1>1, <1>2, <1>4, <1>8, GotoRefs, Requests DEF States, CryptoMode
<1>9. CASE /\ op' = [op EXCEPT !.phase = "handshake"]
           /\ tls' = t
           /\ ctxRefs' = r
           /\ state' = state /\ initRefs' = initRefs
  <2>1. op'.kind = op.kind /\ op'.phase = "handshake"
    BY <1>1, <1>9 DEF Ops
  <2>2. ConnRefs(state', op'.kind) = 1
    BY <1>2, <1>9, <2>1
  <2> QED
    BY <1>1, <1>2, <1>4, <1>9, <2>1, <2>2 DEF RefInv, CryptoMode
<1> QED
  BY <1>5, <1>6, <1>7, <1>8, <1>9

(* The TCP connection, which passes its reference on to the handshake.     *)
LEMMA RefInvPlainConn ==
    ASSUME TypeInv, RefInv, FdWatchPlainConn
    PROVE  RefInv'
<1>1. state = "PLAIN_CONN" /\ MachineOK /\ op \in Ops
  BY DEF FdWatchPlainConn, Dispatch, TypeInv, MachineOK
<1>2. CASE Assert("connRecs")
  BY <1>2, StayKeepsRefs DEF Assert
<1>3. CASE Goto("PLAIN_FAIL", NoOp, io, tls, ctxRefs) \/ Goto("PLAIN_TCP", NoOp, io, tls, ctxRefs)
  BY <1>1, <1>3, GotoKeepsRefs, Requests DEF States, PlainMode, CryptoMode
<1>4. CASE op.kind # "plain" /\ Goto("CRYPTO_CONN", ConnectOp(op.kind, op.cb), io, tls, ctxRefs)
  <2>1. /\ ConnectOp(op.kind, op.cb) \in Ops
        /\ ConnectOp(op.kind, op.cb).kind = op.kind
        /\ ConnectOp(op.kind, op.cb).phase = "init"
    BY <1>1 DEF ConnectOp, NoOp, Ops, Phases
  <2> QED
    BY <1>1, <1>4, <2>1, GotoKeepsRefs DEF States, CryptoMode
<1> QED
  BY <1>2, <1>3, <1>4 DEF FdWatchPlainConn

(* An answer of crypto_do_shutdown.                                        *)
LEMMA RefInvShutdown ==
    ASSUME TypeInv, RefInv, state = "CRYPTO_SHUT", NEW phase, NEW y, NEW w, Shutdown(phase, y, w)
    PROVE  RefInv'
<1>1. MachineOK /\ op \in Ops
  BY DEF TypeInv, MachineOK
<1>2. CASE Goto("CRYPTO_FAIL", NoOp, y, tls, ctxRefs) \/ Goto("PLAIN_TCP", NoOp, y, tls, ctxRefs)
  BY <1>1, <1>2, GotoKeepsRefs, Requests DEF States, PlainMode, CryptoMode
<1>3. CASE \E p, z, v : Stay([op EXCEPT !.phase = p], z, v)
  <2>1. PICK p : \E z, v : Stay([op EXCEPT !.phase = p], z, v)
    BY <1>3
  <2>2. UNCHANGED <<state, tls, ctxRefs, initRefs>> /\ op' = [op EXCEPT !.phase = p]
    BY <2>1 DEF Stay
  <2>3. op'.kind = op.kind
    BY <1>1, <2>2 DEF Ops
  <2> QED
    BY <2>2, <2>3, StayKeepsRefs
<1> QED
  BY <1>2, <1>3 DEF Shutdown

(* A renegotiation.                                                        *)
LEMMA RefInvReneg ==
    ASSUME TypeInv, RefInv, FdWatchReneg
    PROVE  RefInv'
<1>1. state = "CRYPTO_RENEG" /\ MachineOK /\ op \in Ops /\ tls.ssl
  BY DEF FdWatchReneg, Dispatch, TypeInv, MachineOK, RefInv
<1>2. PICK x \in IF Indicated # {} /\ op.phase = "flushOut"
                   THEN {[op |-> op, io |-> y, watch |-> ArmDeferred(watch, y)] :
                             y \in ProcessDeferred(io, "none", Indicated)}
                   ELSE {[op |-> op, io |-> io, watch |-> watch]} :
       \E z \in DoRenegotiate(x) :
         IF z.op.phase = "done"
           THEN Goto(IF z.op.err THEN "CRYPTO_FAIL" ELSE "CRYPTO_SSL", NoOp, z.io, tls, ctxRefs)
           ELSE Stay(z.op, z.io, z.watch)
  BY DEF FdWatchReneg
<1>3. x.op = op /\ x \in RenegLocals
  <2>1. CASE \E y \in ProcessDeferred(io, "none", Indicated) :
                x = [op |-> op, io |-> y, watch |-> ArmDeferred(watch, y)]
    <3>1. PICK y \in ProcessDeferred(io, "none", Indicated) :
                x = [op |-> op, io |-> y, watch |-> ArmDeferred(watch, y)]
      BY <2>1
    <3>2. y \in SoundIO /\ ~Pending(y.in)
      BY <1>1, ProcessDeferredSound, ProcessDeferredKeepsInput DEF MachineOK
    <3> QED
      BY <1>1, <3>1, <3>2, ArmDeferredType DEF MachineOK, RenegLocals
  <2>2. CASE x = [op |-> op, io |-> io, watch |-> watch]
    BY <1>1, <2>2 DEF MachineOK, RenegLocals
  <2> QED
    BY <1>2, <2>1, <2>2
<1>4. PICK z \in DoRenegotiate(x) :
         IF z.op.phase = "done"
           THEN Goto(IF z.op.err THEN "CRYPTO_FAIL" ELSE "CRYPTO_SSL", NoOp, z.io, tls, ctxRefs)
           ELSE Stay(z.op, z.io, z.watch)
  BY <1>2
<1>5. z.op.kind = op.kind
  BY <1>3, DoRenegotiateOK DEF SameRequest
<1>6. CASE z.op.phase = "done"
  BY <1>1, <1>4, <1>6, GotoKeepsRefs, Requests DEF States, CryptoMode
<1>7. CASE z.op.phase # "done"
  <2>1. UNCHANGED <<state, tls, ctxRefs, initRefs>> /\ op' = z.op
    BY <1>4, <1>7 DEF Stay
  <2> QED
    BY <1>1, <1>5, <2>1, StayKeepsRefs
<1> QED
  BY <1>6, <1>7

(* An established connection and its shutdown.                             *)
LEMMA RefInvSslShut ==
    ASSUME TypeInv, RefInv, FdWatchSsl \/ FdWatchShut
    PROVE  RefInv'
<1>1. op \in Ops
  BY DEF TypeInv, MachineOK
<1>2. CASE FdWatchSsl
  <2>1. UNCHANGED <<state, op, tls, ctxRefs, initRefs>>
    BY <1>2 DEF FdWatchSsl, Assert, Stay
  <2> QED
    BY <2>1, StayKeepsRefs
<1>3. CASE FdWatchShut
  <2>1. state = "CRYPTO_SHUT"
    BY <1>3 DEF FdWatchShut, Dispatch
  <2>2. CASE \E phase, y, w : Shutdown(phase, y, w)
    BY <2>1, <2>2, RefInvShutdown
  <2>3. CASE Assert("shutSuccess")
    BY <2>3, StayKeepsRefs DEF Assert
  <2>4. CASE \E y, w : Stay(op, y, w)
    BY <2>4, StayKeepsRefs DEF Stay
  <2>5. CASE \E y, w : Stay([op EXCEPT !.phase = "flushOut"], y, w)
    <3>1. UNCHANGED <<state, tls, ctxRefs, initRefs>> /\ op' = [op EXCEPT !.phase = "flushOut"]
      BY <2>5 DEF Stay
    <3>2. op'.kind = op.kind
      BY <1>1, <3>1 DEF Ops
    <3> QED
      BY <2>1, <3>1, <3>2, StayKeepsRefs
  <2> QED
    BY <1>3, <2>2, <2>3, <2>4, <2>5 DEF FdWatchShut
<1> QED
  BY <1>2, <1>3

(* The rest of the main loop.                                              *)
LEMMA RefInvLoop ==
    ASSUME TypeInv, RefInv, Loop
    PROVE  RefInv'
<1>1. MachineOK /\ op \in Ops
  BY DEF TypeInv, MachineOK
<1>2. CASE PollWatch \/ FdWatchIgnored \/ CbReturn
  <2>1. UNCHANGED <<state, op, tls, ctxRefs, initRefs>>
    BY <1>2 DEF PollWatch, FdWatchIgnored, CbReturn
  <2> QED
    BY <2>1, StayKeepsRefs
<1>3. ASSUME NEW result \in {"address", "error", "unusable"}, LookupDone(result)
      PROVE  RefInv'
  <2>1. CASE Goto("PLAIN_FAIL", NoOp, io, tls, ctxRefs)
    BY <1>1, <2>1, GotoKeepsRefs, Requests DEF States, PlainMode, CryptoMode
  <2>2. CASE GotoPlainConn(op)
    <3>1. PICK failed \in BOOLEAN :
              Goto("PLAIN_CONN", [op EXCEPT !.err = failed], io, tls, ctxRefs)
      BY <2>2 DEF GotoPlainConn
    <3>2. [op EXCEPT !.err = failed] \in Ops
      BY <1>1, OpProgress
    <3> QED
      BY <1>1, <3>1, <3>2, GotoKeepsRefs DEF States, PlainMode, CryptoMode
  <2> QED
    BY <1>3, <2>1, <2>2 DEF LookupDone
<1> QED
  BY <1>2, <1>3, RefInvPlainConn, RefInvCryptoConn, RefInvReneg, RefInvSslShut DEF Loop, FdWatch

-----------------------------------------------------------------------------
(* The balance holds in every reachable state.                             *)
LEMMA RefInvAlways == Spec => []RefInv
<1>1. TypeInv /\ RefInv /\ [Next]_vars => RefInv'
  <2> SUFFICES ASSUME TypeInv, RefInv, [Next]_vars PROVE RefInv'
    OBVIOUS
  <2>1. CASE UNCHANGED vars
    <3>1. UNCHANGED <<state, op, tls, ctxRefs, initRefs>>
      BY <2>1 DEF vars
    <3> QED
      BY <3>1, StayKeepsRefs
  <2> QED
    BY <2>1, RefInvUser, RefInvLoop DEF Next, Terminated
<1> QED
  BY <1>1, RefInvInit, TypeInvAlways, PTL DEF Spec

(* No reference on the SSL context or on OpenSSL leaks and none is         *)
(* returned twice, on any path through connecting, failing, shutting down, *)
(* closing and finalizing, from inside a callback or outside.              *)
THEOREM ReferencesBalanced == Spec => []RefsBalanced
<1>1. RefInv => RefsBalanced
  BY RefInvMeans
<1> QED
  BY <1>1, RefInvAlways, PTL

(* The handlers that use the SSL object never run without one.             *)
THEOREM SslAlwaysThere == Spec => []SslWhereUsed
<1>1. RefInv => SslWhereUsed
  BY RefInvMeans
<1> QED
  BY <1>1, RefInvAlways, PTL
=============================================================================
