------------------------ MODULE PslChannelRequestProofs ------------------------
(***************************************************************************)
(* What a channel owes its application, proved for every value of the      *)
(* constants: the descriptor is closed once and only if it may be, every   *)
(* completion callback answers a request and tells how it ended, and the   *)
(* machine implements the contract of a channel (PslChannelContract).      *)
(***************************************************************************)
EXTENDS PslChannelProofs

(* DescriptorOwned is inductive once it is known where closed is set, that *)
(* only a descriptor the user provided may be kept, and that the machine   *)
(* holds that descriptor until it is closed: no lookup, and no socket of   *)
(* its own, ever replaces it.                                              *)
SockInv ==
    /\ closed <=> state \in {"CLOSED", "FINAL"}
    /\ conf.keepFd => conf.userFd
    /\ conf.userFd => state # "LOOKUP" /\ (closed \/ fd)
    /\ fd => desc = "open"
    /\ ~fd => IF closed /\ conf.keepFd THEN desc = "open" ELSE desc \in {"none", "closed"}

(* A callback is owed exactly while an operation that was given one is in  *)
(* progress, but for the failed lookup that forgets it.                    *)
ReqInv ==
    /\ InProgress => (req = "wait" <=> op.cb # "none")
    /\ ~InProgress /\ state # "PLAIN_FAIL" => req = "none"

-----------------------------------------------------------------------------
(* What a dispatch of the fd watch does to the request: it ends it, with   *)
(* its outcome, or goes on with it.                                        *)

Failed(s) == s \in {"PLAIN_FAIL", "CRYPTO_FAIL"}

Ends ==
    /\ InProgress /\ ~InProgress'
    /\ \E e \in BOOLEAN : Complete(op.cb, e) /\ (e <=> Failed(state'))
    /\ state \notin {"LOOKUP", "CLOSED", "FINAL"}
    /\ state' \notin {"LOOKUP", "CLOSED", "FINAL"}

GoesOn ==
    /\ cb' = cb /\ req' = req
    /\ InProgress <=> InProgress'
    /\ InProgress => op'.cb = op.cb
    /\ \/ state' = state
       \/ state = "PLAIN_CONN" /\ state' = "CRYPTO_CONN"

(* A failure or a plain connection ends the request.                       *)
LEMMA PlainConnOutcome == TypeInv /\ FdWatchPlainConn => Ends \/ GoesOn
<1> SUFFICES ASSUME TypeInv, FdWatchPlainConn PROVE Ends \/ GoesOn
  OBVIOUS
<1>1. state = "PLAIN_CONN" /\ op \in Ops /\ InProgress
  BY DEF FdWatchPlainConn, Dispatch, TypeInv, MachineOK, InProgress
<1>2. CASE Assert("connRecs")
  BY <1>2 DEF Assert, GoesOn, InProgress
<1>3. ASSUME NEW failed \in ConnectionFailed,
             IF ConnectCompletes(failed) THEN Complete(op.cb, failed) ELSE UNCHANGED <<cb, req>>,
             IF failed
               THEN Goto("PLAIN_FAIL", NoOp, io, tls, ctxRefs)
             ELSE IF op.kind = "plain"
               THEN Goto("PLAIN_TCP", NoOp, io, tls, ctxRefs)
               ELSE Goto("CRYPTO_CONN", ConnectOp(op.kind, op.cb), io, tls, ctxRefs)
      PROVE  Ends \/ GoesOn
  <2>1. failed \in BOOLEAN
    BY DEF ConnectionFailed, TypeInv, RestOK
  <2>2. CASE failed
    <3>1. Complete(op.cb, failed) /\ state' = "PLAIN_FAIL"
      BY <1>3, <2>2 DEF ConnectCompletes, Goto
    <3> QED
      BY <1>1, <2>1, <2>2, <3>1 DEF Ends, InProgress, Failed
  <2>3. CASE ~failed /\ op.kind = "plain"
    <3>1. Complete(op.cb, failed) /\ state' = "PLAIN_TCP"
      BY <1>3, <2>3 DEF ConnectCompletes, Goto
    <3> QED
      BY <1>1, <2>1, <2>3, <3>1 DEF Ends, InProgress, Failed
  <2>4. CASE ~failed /\ op.kind # "plain"
    <3>1. /\ cb' = cb /\ req' = req /\ state' = "CRYPTO_CONN"
          /\ op' = ConnectOp(op.kind, op.cb)
      BY <1>3, <2>4 DEF ConnectCompletes, Goto
    <3>2. op'.cb = op.cb
      BY <3>1 DEF ConnectOp, NoOp
    <3> QED
      BY <1>1, <3>1, <3>2 DEF GoesOn, InProgress
  <2> QED
    BY <2>2, <2>3, <2>4
<1> QED
  BY <1>2, <1>3 DEF FdWatchPlainConn

(* The handshake ends it unless it must wait.                              *)
LEMMA CryptoConnOutcome == TypeInv /\ FdWatchCryptoConn => Ends \/ GoesOn
<1> SUFFICES ASSUME TypeInv, FdWatchCryptoConn PROVE Ends \/ GoesOn
  OBVIOUS
<1>1. state = "CRYPTO_CONN" /\ op \in Ops /\ InProgress
  BY DEF FdWatchCryptoConn, Dispatch, TypeInv, MachineOK, InProgress
<1>2. \/ Complete(op.cb, TRUE) /\ state' = "CRYPTO_FAIL"
      \/ Complete(op.cb, FALSE) /\ state' = "CRYPTO_SSL"
      \/ /\ op' = [op EXCEPT !.phase = "handshake"]
         /\ UNCHANGED <<state, cb, req>>
  BY DEF FdWatchCryptoConn, Goto
<1>3. CASE Complete(op.cb, TRUE) /\ state' = "CRYPTO_FAIL"
  BY <1>1, <1>3 DEF Ends, InProgress, Failed
<1>4. CASE Complete(op.cb, FALSE) /\ state' = "CRYPTO_SSL"
  BY <1>1, <1>4 DEF Ends, InProgress, Failed
<1>5. CASE op' = [op EXCEPT !.phase = "handshake"] /\ UNCHANGED <<state, cb, req>>
  <2>1. op'.cb = op.cb
    BY <1>1, <1>5 DEF Ops
  <2> QED
    BY <1>1, <1>5, <2>1 DEF GoesOn, InProgress
<1> QED
  BY <1>2, <1>3, <1>4, <1>5

(* So does a renegotiation, however many phases it passes.                 *)
LEMMA RenegOutcome == TypeInv /\ FdWatchReneg => Ends \/ GoesOn
<1> SUFFICES ASSUME TypeInv, FdWatchReneg PROVE Ends \/ GoesOn
  OBVIOUS
<1>1. state = "CRYPTO_RENEG" /\ MachineOK /\ op \in Ops /\ InProgress
  BY DEF FdWatchReneg, Dispatch, TypeInv, MachineOK, InProgress
<1>2. PICK x \in IF Indicated # {} /\ op.phase = "flushOut"
                   THEN {[op |-> op, io |-> y, watch |-> ArmDeferred(watch, y)] :
                             y \in ProcessDeferred(io, "none", Indicated)}
                   ELSE {[op |-> op, io |-> io, watch |-> watch]} :
       \E z \in DoRenegotiate(x) :
         IF z.op.phase = "done"
           THEN /\ Complete(op.cb, z.op.err)
                /\ state' = IF z.op.err THEN "CRYPTO_FAIL" ELSE "CRYPTO_SSL"
           ELSE UNCHANGED <<state, cb, req>> /\ op' = z.op
  BY DEF FdWatchReneg, Goto, Stay
<1>3. x.op = op /\ x \in RenegLocals
  <2>1. CASE \E y \in ProcessDeferred(io, "none", Indicated) :
                x = [op |-> op, io |-> y, watch |-> ArmDeferred(watch, y)]
    <3>1. PICK y \in ProcessDeferred(io, "none", Indicated) :
                x = [op |-> op, io |-> y, watch |-> ArmDeferred(watch, y)]
      BY <2>1
    <3>2. y \in SoundIO /\ ~Pending(y.in)
      BY <1>1, ProcessDeferredSound, ProcessDeferredKeepsInput DEF MachineOK
    <3> QED
      BY <1>1, <3>1, <3>2, ArmDeferredType DEF MachineOK, RenegLocals
  <2>2. CASE x = [op |-> op, io |-> io, watch |-> watch]
    BY <1>1, <2>2 DEF MachineOK, RenegLocals
  <2> QED
    BY <1>2, <2>1, <2>2
<1>4. PICK z \in DoRenegotiate(x) :
         IF z.op.phase = "done"
           THEN /\ Complete(op.cb, z.op.err)
                /\ state' = IF z.op.err THEN "CRYPTO_FAIL" ELSE "CRYPTO_SSL"
           ELSE UNCHANGED <<state, cb, req>> /\ op' = z.op
  BY <1>2
<1>5. z.op.cb = op.cb /\ z.op.err \in BOOLEAN
  BY <1>3, DoRenegotiateOK DEF SameRequest, RenegLocals, Ops
<1>6. CASE z.op.phase = "done"
  <2>1. Complete(op.cb, z.op.err) /\ state' = IF z.op.err THEN "CRYPTO_FAIL" ELSE "CRYPTO_SSL"
    BY <1>4, <1>6
  <2>2. (z.op.err <=> Failed(state')) /\ ~InProgress' /\ state' \notin {"LOOKUP", "CLOSED", "FINAL"}
    BY <2>1 DEF Failed, InProgress
  <2> QED
    BY <1>1, <1>5, <2>1, <2>2 DEF Ends
<1>7. CASE z.op.phase # "done"
  BY <1>1, <1>4, <1>5, <1>7 DEF GoesOn, InProgress
<1> QED
  BY <1>6, <1>7

(* A shutdown that succeeds may stay in its state and is over.             *)
LEMMA ShutdownOutcome ==
    ASSUME TypeInv, state = "CRYPTO_SHUT", op.phase # "success", NEW phase, phase # "success",
           NEW y, NEW w, Shutdown(phase, y, w)
    PROVE  Ends \/ GoesOn
<1>1. op \in Ops /\ InProgress
  BY DEF TypeInv, MachineOK, InProgress
<1>2. CASE Complete(op.cb, TRUE) /\ Goto("CRYPTO_FAIL", NoOp, y, tls, ctxRefs)
  BY <1>1, <1>2 DEF Ends, InProgress, Failed, Goto
<1>3. CASE Complete(op.cb, FALSE) /\ Goto("PLAIN_TCP", NoOp, y, tls, ctxRefs)
  BY <1>1, <1>3 DEF Ends, InProgress, Failed, Goto
<1>4. CASE Complete(op.cb, FALSE) /\ \E z, v : Stay([op EXCEPT !.phase = "success"], z, v)
  <2>1. state' = state /\ op' = [op EXCEPT !.phase = "success"]
    BY <1>4 DEF Stay
  <2>2. op'.phase = "success"
    BY <1>1, <2>1 DEF Ops
  <2>3. ~InProgress' /\ ~Failed(state') /\ state' \notin {"LOOKUP", "CLOSED", "FINAL"}
    BY <2>1, <2>2 DEF InProgress, Failed
  <2> QED
    BY <1>1, <1>4, <2>3 DEF Ends
<1>5. CASE /\ \E p \in {phase, "shut2"} : \E z, v : Stay([op EXCEPT !.phase = p], z, v)
           /\ UNCHANGED <<cb, req>>
  <2>1. PICK p \in {phase, "shut2"} : \E z, v : Stay([op EXCEPT !.phase = p], z, v)
    BY <1>5
  <2>2. state' = state /\ op' = [op EXCEPT !.phase = p]
    BY <2>1 DEF Stay
  <2>3. op'.phase # "success" /\ op'.cb = op.cb
    BY <1>1, <2>2 DEF Ops
  <2> QED
    BY <1>1, <1>5, <2>2, <2>3 DEF GoesOn, InProgress
<1> QED
  BY <1>2, <1>3, <1>4, <1>5 DEF Shutdown

(* A shutdown in each of its phases.                                       *)
LEMMA ShutOutcome == TypeInv /\ FdWatchShut => Ends \/ GoesOn
<1> SUFFICES ASSUME TypeInv, FdWatchShut PROVE Ends \/ GoesOn
  OBVIOUS
<1>1. state = "CRYPTO_SHUT" /\ op \in Ops
  BY DEF FdWatchShut, Dispatch, TypeInv, MachineOK
<1>2. CASE op.phase = "success"
  <2>1. UNCHANGED <<state, op, cb, req>>
    BY <1>2 DEF FdWatchShut, Assert, Stay
  <2> QED
    BY <2>1 DEF GoesOn, InProgress
<1>3. CASE op.phase # "success"
  <2>1. CASE \E y, w : Stay([op EXCEPT !.phase = "flushOut"], y, w) /\ UNCHANGED <<cb, req>>
    <3>1. op' = [op EXCEPT !.phase = "flushOut"] /\ UNCHANGED <<state, cb, req>>
      BY <2>1 DEF Stay
    <3>2. op'.cb = op.cb /\ op'.phase = "flushOut"
      BY <1>1, <3>1 DEF Ops
    <3> QED
      BY <1>1, <1>3, <3>1, <3>2 DEF GoesOn, InProgress
  <2>2. CASE \E y, w : Shutdown("shut1", y, w) \/ Shutdown(op.phase, y, w)
    BY <1>1, <1>3, <2>2, ShutdownOutcome
  <2> QED
    BY <1>3, <2>1, <2>2 DEF FdWatchShut
<1> QED
  BY <1>2, <1>3

(* Every dispatch ends the request or goes on with it, and leaves the      *)
(* socket alone.                                                           *)
LEMMA FdWatchOutcome ==
    ASSUME TypeInv, FdWatch
    PROVE  (Ends \/ GoesOn) /\ UNCHANGED <<conf, fd, desc, closed>>
<1>1. UNCHANGED <<conf, fd, desc, closed>>
  BY DEF FdWatch, FdWatchPlainConn, FdWatchCryptoConn, FdWatchReneg, FdWatchSsl, FdWatchShut,
         FdWatchIgnored, sockVars
<1>2. CASE FdWatchSsl
  <2>1. UNCHANGED <<state, op, cb, req>>
    BY <1>2 DEF FdWatchSsl, Assert, Stay
  <2> QED
    BY <1>1, <2>1 DEF GoesOn, InProgress
<1>3. CASE FdWatchIgnored
  BY <1>1, <1>3 DEF FdWatchIgnored, GoesOn, InProgress
<1> QED
  BY <1>1, <1>2, <1>3, PlainConnOutcome, CryptoConnOutcome, RenegOutcome, ShutOutcome DEF FdWatch

-----------------------------------------------------------------------------
(* The descriptor.                                                         *)

(* A step that leaves the socket alone may move between states that are    *)
(* neither closed nor a lookup.                                            *)
LEMMA SockKept ==
    ASSUME SockInv, UNCHANGED <<conf, fd, desc, closed>>,
           \/ state' = state
           \/ /\ state \notin {"CLOSED", "FINAL"}
              /\ state' \notin {"LOOKUP", "CLOSED", "FINAL"}
    PROVE  SockInv'
<1>1. conf' = conf /\ fd' = fd /\ desc' = desc /\ closed' = closed
  OBVIOUS
<1> QED
  BY <1>1 DEF SockInv

(* Connecting uses the descriptor provided, or makes one.                  *)
LEMMA SockPlainConn ==
    ASSUME SockInv, NEW o, GotoPlainConn(o), UNCHANGED <<conf, closed>>,
           state \in {"INIT", "LOOKUP"}
    PROVE  SockInv'
<1>1. /\ conf' = conf /\ closed' = closed /\ state' = "PLAIN_CONN"
      /\ conf.userFd => fd' = fd /\ desc' = desc
      /\ ~conf.userFd => \E created \in BOOLEAN :
                            fd' = created /\ desc' = IF created THEN "open" ELSE "none"
  BY DEF GotoPlainConn, Goto
<1> QED
  BY <1>1 DEF SockInv

(* Closing and finalizing: once, and only a descriptor that may be closed. *)
LEMMA SockClosed ==
    ASSUME TypeInv, SockInv, CloseDescriptor, conf' = conf, state' \in {"CLOSED", "FINAL"}
    PROVE  SockInv'
<1>1. conf.keepFd \in BOOLEAN /\ conf.userFd \in BOOLEAN /\ fd \in BOOLEAN
  BY DEF TypeInv, RestOK
<1>2. ~fd' /\ closed' /\ state' \in {"CLOSED", "FINAL"}
  BY DEF CloseDescriptor
<1>3. IF conf.keepFd THEN desc' = "open" ELSE desc' \in {"none", "closed"}
  <2>1. CASE fd
    BY <1>1, <2>1 DEF CloseDescriptor, SockInv
  <2>2. CASE ~fd
    BY <1>1, <2>2 DEF CloseDescriptor, SockInv
  <2> QED
    BY <2>1, <2>2
<1>4. (conf.keepFd => conf.userFd) /\ conf' = conf
  BY DEF SockInv
<1> QED
  BY <1>2, <1>3, <1>4 DEF SockInv

(* Every call of the application.                                          *)
LEMMA SockUser ==
    ASSUME TypeInv, SockInv, User
    PROVE  SockInv'
<1>1. CASE SetConnFd
  <2>1. PICK keep \in BOOLEAN : conf' = [conf EXCEPT !.userFd = TRUE, !.keepFd = keep]
    BY <1>1 DEF SetConnFd
  <2>2. conf'.userFd /\ state' = "INIT" /\ fd' /\ desc' = "open" /\ ~closed'
    <3>1. conf'.userFd
      BY <2>1 DEF TypeInv, RestOK
    <3>2. state = "INIT" /\ state' = state /\ fd' /\ desc' = "open" /\ closed' = closed
      BY <1>1 DEF SetConnFd
    <3> QED
      BY <3>1, <3>2 DEF SockInv
  <2> QED
    BY <2>2 DEF SockInv
<1>2. CASE SetServer \/ SetSockBind
  <2>1. /\ conf'.userFd = conf.userFd /\ conf'.keepFd = conf.keepFd
        /\ state' = state /\ fd' = fd /\ desc' = desc /\ closed' = closed
    BY <1>2 DEF SetServer, SetSockBind, TypeInv, RestOK
  <2> QED
    BY <2>1 DEF SockInv
<1>3. ASSUME NEW kind \in Kinds, NEW c \in Cbs, Connect(kind, c)
      PROVE  SockInv'
  <2>1. conf' = conf /\ closed' = closed
    BY <1>3 DEF Connect
  <2>2. CASE /\ state = "INIT" /\ ~fd
             /\ Goto("LOOKUP", ConnectOp(kind, c), io, tls, ctxRefs)
             /\ UNCHANGED <<fd, desc>>
    <3>1. state' = "LOOKUP" /\ fd' = fd /\ desc' = desc
      BY <2>2 DEF Goto
    <3> QED
      BY <2>1, <2>2, <3>1 DEF SockInv
  <2>3. CASE state = "INIT" /\ GotoPlainConn(ConnectOp(kind, c))
    BY <2>1, <2>3, SockPlainConn
  <2>4. CASE /\ state = "PLAIN_TCP"
             /\ Goto("CRYPTO_CONN", ConnectOp(kind, c), io, tls, ctxRefs)
             /\ UNCHANGED <<fd, desc>>
    <3>1. state' = "CRYPTO_CONN" /\ fd' = fd /\ desc' = desc
      BY <2>4 DEF Goto
    <3> QED
      BY <2>1, <2>4, <3>1, SockKept
  <2> QED
    BY <1>3, <2>2, <2>3, <2>4 DEF Connect
<1>4. CASE Close \/ Finalize
  <2>1. CloseDescriptor /\ conf' = conf /\ state' \in {"CLOSED", "FINAL"}
    BY <1>4 DEF Close, Finalize, Goto
  <2> QED
    BY <2>1, SockClosed
<1>5. CASE \/ ShutSock \/ ResumePlain \/ \E wait, c : Renegotiate(wait, c)
           \/ \E how, c : ShutCrypto(how, c)
  <2>1. UNCHANGED <<conf, fd, desc, closed>>
    BY <1>5 DEF ShutSock, ResumePlain, Renegotiate, ShutCrypto, sockVars
  <2>2. state \notin {"CLOSED", "FINAL"} /\ state' \notin {"LOOKUP", "CLOSED", "FINAL"}
    BY <1>5 DEF ShutSock, ResumePlain, Renegotiate, ShutCrypto, Goto, CryptoMode
  <2> QED
    BY <2>1, <2>2, SockKept
<1>6. CASE Write \/ \E exact : Read(exact) \/ RenegRead(exact)
  <2>1. UNCHANGED <<conf, fd, desc, closed>> /\ state' = state
    BY <1>6 DEF Write, Read, RenegRead, Stay, sockVars
  <2> QED
    BY <2>1, SockKept
<1> QED
  BY <1>1, <1>2, <1>3, <1>4, <1>5, <1>6 DEF User

(* Every step of the main loop.                                            *)
LEMMA SockLoop ==
    ASSUME TypeInv, SockInv, Loop
    PROVE  SockInv'
<1>1. CASE PollWatch \/ CbReturn
  BY <1>1, SockKept DEF PollWatch, CbReturn, sockVars
<1>2. CASE FdWatch
  <2>1. CASE Ends
    BY <1>2, <2>1, FdWatchOutcome, SockKept DEF Ends
  <2>2. CASE GoesOn
    BY <1>2, <2>2, FdWatchOutcome, SockKept DEF GoesOn
  <2> QED
    BY <1>2, <2>1, <2>2, FdWatchOutcome
<1>3. ASSUME NEW result \in {"address", "error", "unusable"}, LookupDone(result)
      PROVE  SockInv'
  <2>1. conf' = conf /\ closed' = closed /\ state = "LOOKUP"
    BY <1>3 DEF LookupDone
  <2>2. CASE GotoPlainConn(op)
    BY <2>1, <2>2, SockPlainConn
  <2>3. CASE Goto("PLAIN_FAIL", NoOp, io, tls, ctxRefs) /\ UNCHANGED <<fd, desc>>
    <3>1. state' = "PLAIN_FAIL" /\ fd' = fd /\ desc' = desc
      BY <2>3 DEF Goto
    <3> QED
      BY <2>1, <3>1, SockKept
  <2> QED
    BY <1>3, <2>2, <2>3 DEF LookupDone
<1> QED
  BY <1>1, <1>2, <1>3 DEF Loop

(* The descriptor is owned in every reachable state.                       *)
LEMMA SockInvAlways == Spec => []SockInv
<1>1. Init => SockInv
  <2> SUFFICES ASSUME Init PROVE SockInv
    OBVIOUS
  <2>1. state = "INIT" /\ ~closed /\ ~fd /\ desc = "none" /\ ~conf.userFd /\ ~conf.keepFd
    BY DEF Init
  <2> QED
    BY <2>1 DEF SockInv
<1>2. TypeInv /\ SockInv /\ [Next]_vars => SockInv'
  <2> SUFFICES ASSUME TypeInv, SockInv, [Next]_vars PROVE SockInv'
    OBVIOUS
  <2>1. CASE UNCHANGED vars
    <3>1. UNCHANGED <<conf, fd, desc, closed>> /\ state' = state
      BY <2>1 DEF vars, sockVars
    <3> QED
      BY <3>1, SockKept
  <2> QED
    BY <2>1, SockUser, SockLoop DEF Next, Terminated
<1> QED
  BY <1>1, <1>2, TypeInvAlways, PTL DEF Spec

(* The descriptor is closed at most once, never while the machine still    *)
(* uses it, and not at all if the user said so: whether the channel was    *)
(* closed, failed or was finalized, with a socket of its own or the user's.*)
THEOREM DescriptorAlwaysOwned == Spec => []DescriptorOwned
<1>1. SockInv => DescriptorOwned
  BY DEF SockInv, DescriptorOwned
<1> QED
  BY <1>1, SockInvAlways, PTL

-----------------------------------------------------------------------------
(* The completion callbacks.                                               *)

(* A request starts with its callback owed.                                *)
LEMMA ReqStarts ==
    ASSUME NEW c, Request(c), InProgress', op'.cb = c
    PROVE  ReqInv'
  BY DEF Request, ReqInv

(* A request that is abandoned, or never was, owes nothing.                *)
LEMMA ReqDropped ==
    ASSUME req' = "none", ~InProgress'
    PROVE  ReqInv'
  BY DEF ReqInv

(* An event that stays in its state and phase keeps what is owed.          *)
LEMMA ReqKept ==
    ASSUME ReqInv, req' = req, op'.cb = op.cb, InProgress' <=> InProgress, state' = state
    PROVE  ReqInv'
  BY DEF ReqInv

(* No call of the application runs a callback.                             *)
LEMMA ReqUser ==
    ASSUME TypeInv, ReqInv, User
    PROVE  ReqInv' /\ cb' = cb
<1>1. op \in Ops
  BY DEF TypeInv, MachineOK
<1>2. CASE SetConnFd \/ SetServer \/ SetSockBind
  <2>1. state' = state /\ op' = op /\ req' = req /\ cb' = cb
    BY <1>2 DEF SetConnFd, SetServer, SetSockBind
  <2> QED
    BY <2>1, ReqKept DEF InProgress
<1>3. ASSUME NEW kind \in Kinds, NEW c \in Cbs, Connect(kind, c)
      PROVE  ReqInv' /\ cb' = cb
  <2>1. Request(c) /\ cb' = cb
    BY <1>3 DEF Connect
  <2>2. ConnectOp(kind, c) \in Ops /\ ConnectOp(kind, c).cb = c
    BY Requests DEF ConnectOp, NoOp
  <2>3. state' \in {"LOOKUP", "PLAIN_CONN", "CRYPTO_CONN"} /\ op'.cb = c
    <3>1. CASE GotoPlainConn(ConnectOp(kind, c))
      <4>1. PICK failed \in BOOLEAN :
                Goto("PLAIN_CONN", [ConnectOp(kind, c) EXCEPT !.err = failed], io, tls, ctxRefs)
        BY <3>1 DEF GotoPlainConn
      <4>2. state' = "PLAIN_CONN" /\ op' = [ConnectOp(kind, c) EXCEPT !.err = failed]
        BY <4>1 DEF Goto
      <4> QED
        BY <2>2, <4>2 DEF Ops
    <3>2. CASE \E d \in {"LOOKUP", "CRYPTO_CONN"} :
                   Goto(d, ConnectOp(kind, c), io, tls, ctxRefs)
      BY <2>2, <3>2 DEF Goto
    <3> QED
      BY <1>3, <3>1, <3>2 DEF Connect
  <2> QED
    BY <2>1, <2>3, ReqStarts DEF InProgress
<1>4. CASE ShutSock \/ Close \/ Finalize
  <2>1. state' \in {"PLAIN_SHUT", "CLOSED", "FINAL"} /\ req' = "none" /\ cb' = cb
    BY <1>4 DEF ShutSock, Close, Finalize, Goto
  <2> QED
    BY <2>1, ReqDropped DEF InProgress
<1>5. ASSUME NEW wait \in BOOLEAN, NEW c \in Cbs, Renegotiate(wait, c)
      PROVE  ReqInv' /\ cb' = cb
  <2>1. /\ Request(c) /\ cb' = cb /\ state' = "CRYPTO_RENEG"
        /\ op' = [NoOp EXCEPT !.wait = wait, !.cb = c]
    BY <1>5 DEF Renegotiate, Goto
  <2>2. op'.cb = c
    BY <2>1 DEF NoOp
  <2> QED
    BY <2>1, <2>2, ReqStarts DEF InProgress
<1>6. ASSUME NEW how \in {"oneWay", "twoWay"}, NEW c \in Cbs, ShutCrypto(how, c)
      PROVE  ReqInv' /\ cb' = cb
  <2>1. /\ Request(c) /\ cb' = cb /\ state' = "CRYPTO_SHUT"
        /\ op' = [NoOp EXCEPT !.how = how, !.cb = c]
    BY <1>6 DEF ShutCrypto, Goto
  <2>2. op'.cb = c /\ op'.phase = "init"
    BY <2>1 DEF NoOp
  <2> QED
    BY <2>1, <2>2, ReqStarts DEF InProgress
<1>7. CASE ResumePlain
  <2>1. /\ state = "CRYPTO_SHUT" /\ op.phase = "success"
        /\ state' = "PLAIN_TCP" /\ req' = req /\ cb' = cb
    BY <1>7 DEF ResumePlain, Goto
  <2>2. req = "none"
    BY <2>1 DEF ReqInv, InProgress
  <2> QED
    BY <2>1, <2>2, ReqDropped DEF InProgress
<1>8. ASSUME NEW exact \in BOOLEAN, Write \/ Read(exact)
      PROVE  ReqInv' /\ cb' = cb
  <2>1. state' = state /\ op' = op /\ req' = req /\ cb' = cb
    BY <1>8 DEF Write, Read, Stay
  <2> QED
    BY <2>1, ReqKept DEF InProgress
<1>9. ASSUME NEW exact \in BOOLEAN, RenegRead(exact)
      PROVE  ReqInv' /\ cb' = cb
  <2>1. PICK r \in HandleREAD(io, exact) :
            /\ ~r.tried
            /\ \E x \in DoRenegotiate([op |-> op, io |-> r.io, watch |-> watch]) :
                  Stay(x.op, x.io, IF x.op.phase = "done"
                                     THEN [x.watch EXCEPT !.timer = TRUE] ELSE x.watch)
    BY <1>9 DEF RenegRead
  <2>2. PICK x \in DoRenegotiate([op |-> op, io |-> r.io, watch |-> watch]) :
            Stay(x.op, x.io, IF x.op.phase = "done"
                               THEN [x.watch EXCEPT !.timer = TRUE] ELSE x.watch)
    BY <2>1
  <2>3. r.io \in SoundIO /\ ~Pending(r.io.in) /\ state = "CRYPTO_RENEG" /\ req' = req /\ cb' = cb
    BY <1>9, <2>1, HandleREADSound DEF RenegRead, TypeInv, MachineOK
  <2>4. [op |-> op, io |-> r.io, watch |-> watch] \in RenegLocals
    BY <2>3 DEF RenegLocals, TypeInv, MachineOK
  <2>5. x.op.cb = op.cb
    BY <2>4, DoRenegotiateOK DEF SameRequest
  <2>6. state' = state /\ op' = x.op
    BY <2>2 DEF Stay
  <2> QED
    BY <2>3, <2>5, <2>6, ReqKept DEF InProgress
<1> QED
  BY <1>2, <1>3, <1>4, <1>5, <1>6, <1>7, <1>8, <1>9 DEF User

(* The part of the two properties of a callback that a step can disturb.   *)
CallbackOK ==
    CallbackStarts => /\ req = "wait" /\ req' = "none" /\ ~closed'
                      /\ cb'.err <=> Failed(state')

(* A dispatch runs the callback of the request it ends.                    *)
LEMMA ReqFdWatch ==
    ASSUME TypeInv, SockInv, ReqInv, FdWatch
    PROVE  ReqInv' /\ CallbackOK
<1>1. req \in {"none", "wait"}
  BY DEF TypeInv, RestOK
<1>2. CASE Ends
  <2>1. closed' = closed /\ ~closed
    BY <1>2, FdWatchOutcome DEF Ends, SockInv
  <2>2. CASE op.cb = "none"
    <3>1. req' = "none" /\ cb' = cb
      BY <1>1, <1>2, <2>2 DEF Ends, Complete, ReqInv
    <3> QED
      BY <1>2, <3>1, ReqDropped DEF Ends, CallbackOK, CallbackStarts
  <2>3. CASE op.cb # "none"
    <3>1. req = "wait" /\ req' = "none" /\ (cb'.err <=> Failed(state'))
      BY <1>2, <2>3 DEF Ends, Complete, ReqInv
    <3> QED
      BY <1>2, <2>1, <3>1, ReqDropped DEF Ends, CallbackOK
  <2> QED
    BY <2>2, <2>3
<1>3. CASE GoesOn
  <2>1. cb' = cb /\ req' = req /\ (InProgress <=> InProgress')
    BY <1>3 DEF GoesOn
  <2>2. InProgress => op'.cb = op.cb
    BY <1>3 DEF GoesOn
  <2>3. state' = state \/ InProgress'
    BY <1>3 DEF GoesOn, InProgress
  <2>4. ReqInv'
    BY <2>1, <2>2, <2>3 DEF ReqInv
  <2> QED
    BY <2>1, <2>4 DEF CallbackOK, CallbackStarts
<1> QED
  BY <1>2, <1>3, FdWatchOutcome

(* So does the end of a lookup, but for the unusable answer.               *)
LEMMA ReqLookup ==
    ASSUME TypeInv, SockInv, ReqInv,
           NEW result \in {"address", "error", "unusable"}, LookupDone(result)
    PROVE  ReqInv' /\ CallbackOK
<1>1. state = "LOOKUP" /\ closed' = closed /\ op \in Ops /\ req \in {"none", "wait"} /\ InProgress
  BY DEF LookupDone, TypeInv, MachineOK, RestOK, InProgress
<1>2. req = "wait" <=> op.cb # "none"
  BY <1>1 DEF ReqInv
<1>3. ~closed'
  BY <1>1 DEF SockInv
<1>4. CASE result = "address"
  <2>1. GotoPlainConn(op) /\ cb' = cb /\ req' = req
    BY <1>4 DEF LookupDone
  <2>2. PICK failed \in BOOLEAN :
            Goto("PLAIN_CONN", [op EXCEPT !.err = failed], io, tls, ctxRefs)
    BY <2>1 DEF GotoPlainConn
  <2>3. state' = "PLAIN_CONN" /\ op' = [op EXCEPT !.err = failed]
    BY <2>2 DEF Goto
  <2>4. op'.cb = op.cb
    BY <1>1, <2>3 DEF Ops
  <2> QED
    BY <1>1, <1>2, <2>1, <2>3, <2>4 DEF ReqInv, InProgress, CallbackOK, CallbackStarts
<1>5. CASE result = "unusable"
  <2>1. state' = "PLAIN_FAIL" /\ cb' = cb
    BY <1>5 DEF LookupDone, Goto
  <2> QED
    BY <2>1 DEF ReqInv, InProgress, CallbackOK, CallbackStarts
<1>6. CASE result = "error"
  <2>1. /\ state' = "PLAIN_FAIL"
        /\ IF op.cb = "none" THEN UNCHANGED <<cb, req>>
           ELSE cb' = [ctx |-> "lookup", err |-> TRUE] /\ req' = "none"
    BY <1>6 DEF LookupDone, Goto
  <2>2. ReqInv'
    BY <2>1 DEF ReqInv, InProgress
  <2>3. CallbackOK
    BY <1>2, <1>3, <2>1 DEF CallbackOK, CallbackStarts, Failed
  <2> QED
    BY <2>2, <2>3
<1> QED
  BY <1>4, <1>5, <1>6

(* Every step.                                                             *)
LEMMA ReqStep ==
    ASSUME TypeInv, SockInv, ReqInv, [Next]_vars
    PROVE  ReqInv' /\ CallbackOK
<1>1. CASE UNCHANGED vars \/ PollWatch
  <2>1. state' = state /\ op' = op /\ req' = req /\ cb' = cb
    BY <1>1 DEF vars, PollWatch
  <2>2. ReqInv'
    BY <2>1, ReqKept DEF InProgress
  <2> QED
    BY <2>1, <2>2 DEF CallbackOK, CallbackStarts
<1>2. CASE CbReturn
  <2>1. state' = state /\ op' = op /\ req' = req /\ cb'.ctx = "no"
    BY <1>2 DEF CbReturn
  <2>2. ReqInv'
    BY <2>1, ReqKept DEF InProgress
  <2> QED
    BY <2>1, <2>2 DEF CallbackOK, CallbackStarts
<1>3. CASE User
  BY <1>3, ReqUser DEF CallbackOK, CallbackStarts
<1> QED
  BY <1>1, <1>2, <1>3, ReqFdWatch, ReqLookup DEF Next, Loop, Terminated

(* What is owed is known in every reachable state.                         *)
LEMMA ReqInvAlways == Spec => []ReqInv
<1>1. Init => ReqInv
  BY DEF Init, ReqInv, InProgress
<1>2. TypeInv /\ SockInv /\ ReqInv /\ [Next]_vars => ReqInv'
  BY ReqStep
<1> QED
  BY <1>1, <1>2, TypeInvAlways, SockInvAlways, PTL DEF Spec

(* No request is left waiting for its callback when its operation has      *)
(* ended, however it ended, but for the lookup without a usable address.   *)
THEOREM RequestsRemembered == Spec => []NoForgottenRequest
<1>1. ReqInv => NoForgottenRequest
  BY DEF ReqInv, NoForgottenRequest, LookupLost
<1> QED
  BY <1>1, ReqInvAlways, PTL

(* A callback runs only for a request that is owed one, once, and never    *)
(* after the channel was closed, whatever the application does inside it.  *)
THEOREM CallbacksOwed == Spec => CallbackOwed
<1>1. TypeInv /\ SockInv /\ ReqInv /\ [Next]_vars =>
          [CallbackStarts => req = "wait" /\ req' = "none" /\ ~closed']_vars
  BY ReqStep DEF CallbackOK
<1> QED
  BY <1>1, TypeInvAlways, SockInvAlways, ReqInvAlways, PTL DEF Spec, CallbackOwed

(* It reports an error exactly if the channel is in a failed state.        *)
THEOREM CallbacksTellOutcome == Spec => CallbackTellsOutcome
<1>1. TypeInv /\ SockInv /\ ReqInv /\ [Next]_vars =>
          [CallbackStarts => (cb'.err <=> state' \in {"PLAIN_FAIL", "CRYPTO_FAIL"})]_vars
  BY ReqStep DEF CallbackOK, Failed
<1> QED
  BY <1>1, TypeInvAlways, SockInvAlways, ReqInvAlways, PTL DEF Spec, CallbackTellsOutcome

-----------------------------------------------------------------------------
(* The contract.  Every step of the machine is a step of                   *)
(* PslChannelContract or one the application does not see.                 *)

(* No callback has run before there is a connection: a lookup may end at   *)
(* any time, inside a callback of another channel even, and none of this   *)
(* channel's is running then.                                              *)
CallInv == state \in {"INIT", "LOOKUP"} => cb.ctx = "no"

(* The status of the channel, read off state by state.                     *)
StatusTable ==
    /\ state = "INIT" => Status = "new"
    /\ state \in {"LOOKUP", "PLAIN_CONN", "CRYPTO_CONN"} => Status = "connecting"
    /\ state = "PLAIN_TCP" => Status = "plain"
    /\ state = "CRYPTO_SSL" => Status = "secure"
    /\ state = "CRYPTO_RENEG" => Status = "renegotiating"
    /\ state = "CRYPTO_SHUT" =>
          Status = IF op.phase = "success" THEN "unsecured" ELSE "closingSsl"
    /\ state = "PLAIN_SHUT" => Status = "shut"
    /\ state = "CRYPTO_FAIL" => Status = "failed"
    /\ state = "PLAIN_FAIL" => Status = IF req = "wait" THEN "connecting" ELSE "failed"
    /\ state \in {"CLOSED", "FINAL"} => Status = "closed"

(* The table holds before and after every step.                            *)
LEMMA StatusIs == StatusTable /\ StatusTable'
<1>1. StatusTable
  BY DEF StatusTable, Status, LookupLost
<1>2. StatusTable'
  BY DEF StatusTable, Status, LookupLost
<1> QED
  BY <1>1, <1>2

(* An event that runs no callback and keeps the status and what is owed is *)
(* invisible to the application.                                           *)
LEMMA Invisible ==
    ASSUME Status' = Status, req' = req, cb' = cb
    PROVE  UNCHANGED Contract!vars
  BY DEF Contract!vars

(* Where a dispatch may lead from each state.                              *)
LEMMA FdWatchLeads ==
    ASSUME TypeInv, FdWatch
    PROVE  /\ ready /\ cb.ctx = "no"
           /\ state = "PLAIN_CONN"   => state' \in {state, "PLAIN_FAIL", "PLAIN_TCP", "CRYPTO_CONN"}
           /\ state = "CRYPTO_CONN"  => state' \in {state, "CRYPTO_FAIL", "CRYPTO_SSL"}
           /\ state = "CRYPTO_RENEG" => state' \in {state, "CRYPTO_FAIL", "CRYPTO_SSL"}
           /\ state = "CRYPTO_SHUT"  => state' \in {state, "CRYPTO_FAIL", "PLAIN_TCP"}
           /\ state \notin {"PLAIN_CONN", "CRYPTO_CONN", "CRYPTO_RENEG", "CRYPTO_SHUT"} =>
                 state' = state /\ op' = op
<1>1. CASE FdWatchPlainConn
  BY <1>1 DEF FdWatchPlainConn, Dispatch, Assert, Goto
<1>2. CASE FdWatchCryptoConn
  BY <1>2 DEF FdWatchCryptoConn, Dispatch, Goto
<1>3. CASE FdWatchReneg
  <2>1. state' \in {state, "CRYPTO_FAIL", "CRYPTO_SSL"}
    BY <1>3 DEF FdWatchReneg, Goto, Stay
  <2> QED
    BY <1>3, <2>1 DEF FdWatchReneg, Dispatch
<1>4. CASE FdWatchSsl
  BY <1>4 DEF FdWatchSsl, Dispatch, Assert, Stay
<1>5. CASE FdWatchShut
  <2>1. \A p, y, w : Shutdown(p, y, w) => state' \in {state, "CRYPTO_FAIL", "PLAIN_TCP"}
    BY DEF Shutdown, Goto, Stay
  <2>2. state' \in {state, "CRYPTO_FAIL", "PLAIN_TCP"}
    BY <1>5, <2>1 DEF FdWatchShut, Assert, Stay
  <2> QED
    BY <1>5, <2>2 DEF FdWatchShut, Dispatch
<1>6. CASE FdWatchIgnored
  BY <1>6 DEF FdWatchIgnored, Dispatch
<1> QED
  BY <1>1, <1>2, <1>3, <1>4, <1>5, <1>6 DEF FdWatch

(* The end of an operation, as a dispatch or a lookup brings it about, is  *)
(* the end the contract knows, whether or not a callback was asked for.    *)
LEMMA EndsAsPromised ==
    ASSUME TypeInv, ReqInv, InProgress, cb.ctx = "no",
           NEW e \in BOOLEAN, NEW ctx \in {"watch", "lookup"},
           IF op.cb = "none" THEN UNCHANGED <<cb, req>>
                             ELSE cb' = [ctx |-> ctx, err |-> e] /\ req' = "none",
           Status \in Contract!InProgress,
           Status' \in IF e THEN {"failed"} ELSE Contract!Successes[Status]
    PROVE  Contract!Next
<1>1. req \in {"none", "wait"} /\ (req = "wait" <=> op.cb # "none")
  BY DEF TypeInv, RestOK, ReqInv
<1> DEFINE outcome == IF e THEN "error" ELSE "ok"
<1>2. req' # "wait"
  BY <1>1
<1>3. (IF cb'.ctx = "no" THEN "none" ELSE IF cb'.err THEN "error" ELSE "ok")
          = IF req = "wait" THEN outcome ELSE "none"
  BY <1>1
<1>4. Status' \in IF outcome = "ok" THEN Contract!Successes[Status] ELSE {"failed"}
  OBVIOUS
<1>5. outcome \in {"ok", "error"}
  OBVIOUS
<1> HIDE DEF outcome
<1>6. Contract!Ends(outcome)
  BY <1>2, <1>3, <1>4 DEF Contract!Ends
<1> QED
  BY <1>5, <1>6 DEF Contract!Next

(* A call of the application asks for an operation, supersedes one, or is  *)
(* invisible.                                                              *)
LEMMA UserAsPromised ==
    ASSUME TypeInv, SockInv, ReqInv, User
    PROVE  [Contract!Next]_(Contract!vars)
<1> USE StatusIs
<1>1. cb' = cb /\ req \in {"none", "wait"} /\ state \in States
  BY ReqUser DEF TypeInv, RestOK, MachineOK
<1>2. CASE SetConnFd \/ SetServer \/ SetSockBind
  <2>1. state' = state /\ op' = op /\ req' = req
    BY <1>2 DEF SetConnFd, SetServer, SetSockBind
  <2> QED
    BY <1>1, <2>1, Invisible DEF Status, LookupLost
<1>3. ASSUME NEW kind \in Kinds, NEW c \in Cbs, Connect(kind, c)
      PROVE  Contract!Next
  <2>1. /\ state \in {"INIT", "PLAIN_TCP"}
        /\ state' \in {"LOOKUP", "PLAIN_CONN", "CRYPTO_CONN"}
    BY <1>3 DEF Connect, GotoPlainConn, Goto
  <2>2. Status \in {"new", "plain"} /\ Status' = "connecting"
    BY <2>1 DEF StatusTable
  <2> QED
    BY <1>1, <2>2 DEF Contract!Next, Contract!Connect
<1>4. CASE ShutSock
  <2>1. /\ state \in CryptoMode \cup {"PLAIN_TCP"} /\ state' = "PLAIN_SHUT"
        /\ req' = "none"
    BY <1>4 DEF ShutSock, Goto
  <2>2. Status \notin {"new", "shut", "closed"} /\ Status' = "shut"
    BY <2>1 DEF StatusTable, CryptoMode
  <2> QED
    BY <1>1, <2>1, <2>2 DEF Contract!Next, Contract!ShutSock
<1>5. CASE Close \/ Finalize
  <2>1. state' \in {"CLOSED", "FINAL"} /\ req' = "none" /\ state # "FINAL"
    BY <1>5 DEF Close, Finalize, Goto, UserMayCall
  <2>2. Status' = "closed"
    BY <2>1 DEF StatusTable
  <2>3. CASE state = "CLOSED"
    <3>1. Status = "closed" /\ req = "none"
      BY <2>3 DEF StatusTable, ReqInv, InProgress
    <3> QED
      BY <1>1, <2>1, <2>2, <3>1, Invisible
  <2>4. CASE state # "CLOSED"
    <3>1. Status # "closed"
      BY <1>1, <2>1, <2>4 DEF StatusTable, States, PlainMode, CryptoMode
    <3> QED
      BY <1>1, <2>1, <2>2, <3>1 DEF Contract!Next, Contract!Close
  <2> QED
    BY <2>3, <2>4
<1>6. ASSUME NEW wait \in BOOLEAN, NEW c \in Cbs, Renegotiate(wait, c)
      PROVE  Contract!Next
  <2>1. state = "CRYPTO_SSL" /\ state' = "CRYPTO_RENEG"
    BY <1>6 DEF Renegotiate, Goto
  <2>2. Status = "secure" /\ Status' = "renegotiating"
    BY <2>1 DEF StatusTable
  <2> QED
    BY <1>1, <2>2 DEF Contract!Next, Contract!Renegotiate
<1>7. ASSUME NEW how \in {"oneWay", "twoWay"}, NEW c \in Cbs, ShutCrypto(how, c)
      PROVE  Contract!Next
  <2>1. /\ state \in {"CRYPTO_SSL", "CRYPTO_RENEG", "CRYPTO_SHUT"} /\ state' = "CRYPTO_SHUT"
        /\ op' = [NoOp EXCEPT !.how = how, !.cb = c]
    BY <1>7 DEF ShutCrypto, Goto
  <2>2. op'.phase = "init"
    BY <2>1 DEF NoOp
  <2>3. /\ Status \in {"secure", "renegotiating", "closingSsl", "unsecured"}
        /\ Status' = "closingSsl"
    BY <2>1, <2>2 DEF StatusTable
  <2> QED
    BY <1>1, <2>3 DEF Contract!Next, Contract!CloseSsl
<1>8. CASE ResumePlain
  <2>1. /\ state = "CRYPTO_SHUT" /\ op.phase = "success" /\ state' = "PLAIN_TCP"
        /\ req' = req
    BY <1>8 DEF ResumePlain, Goto
  <2>2. Status = "unsecured" /\ Status' = "plain"
    BY <2>1 DEF StatusTable
  <2> QED
    BY <1>1, <2>1, <2>2 DEF Contract!Next, Contract!Resume
<1>9. ASSUME NEW exact \in BOOLEAN, Write \/ Read(exact) \/ RenegRead(exact)
      PROVE  UNCHANGED Contract!vars
  <2>1. req' = req /\ state' = state
    BY <1>9 DEF Write, Read, RenegRead, Stay
  <2>2. CASE Write \/ Read(exact)
    <3>1. op' = op
      BY <2>2 DEF Write, Read, Stay
    <3> QED
      BY <1>1, <2>1, <3>1, Invisible DEF Status, LookupLost
  <2>3. CASE RenegRead(exact)
    <3>1. state = "CRYPTO_RENEG"
      BY <2>3 DEF RenegRead
    <3> QED
      BY <1>1, <2>1, <3>1, Invisible DEF StatusTable
  <2> QED
    BY <1>9, <2>2, <2>3
<1> QED
  BY <1>2, <1>3, <1>4, <1>5, <1>6, <1>7, <1>8, <1>9 DEF User

(* A dispatch of the fd watch ends the operation in progress or is         *)
(* invisible.                                                              *)
LEMMA FdWatchAsPromised ==
    ASSUME TypeInv, ReqInv, FdWatch
    PROVE  [Contract!Next]_(Contract!vars)
<1> USE StatusIs, FdWatchLeads
<1>1. CASE Ends
  <2>1. PICK e \in BOOLEAN : Complete(op.cb, e) /\ (e <=> Failed(state'))
    BY <1>1 DEF Ends
  <2>2. req \in {"none", "wait"} /\ InProgress /\ ~InProgress'
    BY <1>1 DEF TypeInv, RestOK, Ends
  <2>3. req' # "wait"
    BY <2>1, <2>2 DEF Complete, ReqInv
  <2>4. Status \in Contract!InProgress
    BY <2>2 DEF InProgress, StatusTable, Contract!InProgress
  <2>5. CASE e
    <3>1. Status' = "failed"
      BY <2>1, <2>3, <2>5 DEF Failed, StatusTable
    <3> QED
      BY <2>1, <2>2, <2>4, <2>5, <3>1, EndsAsPromised DEF Complete
  <2>6. CASE ~e
    <3>1. ~Failed(state')
      BY <2>1, <2>6
    <3>2. Status' \in Contract!Successes[Status]
      <4>1. CASE state = "PLAIN_CONN"
        BY <2>2, <3>1, <4>1 DEF InProgress, Failed, StatusTable, Contract!Successes
      <4>2. CASE state = "CRYPTO_CONN"
        BY <2>2, <3>1, <4>2 DEF InProgress, Failed, StatusTable, Contract!Successes
      <4>3. CASE state = "CRYPTO_RENEG"
        BY <2>2, <3>1, <4>3 DEF InProgress, Failed, StatusTable, Contract!Successes
      <4>4. CASE state = "CRYPTO_SHUT"
        BY <2>2, <3>1, <4>4 DEF InProgress, Failed, StatusTable, Contract!Successes
      <4> QED
        BY <1>1, <2>2, <4>1, <4>2, <4>3, <4>4 DEF Ends, InProgress
    <3> QED
      BY <2>1, <2>2, <2>4, <2>6, <3>2, EndsAsPromised DEF Complete
  <2> QED
    BY <2>5, <2>6
<1>2. CASE GoesOn
  <2>1. cb' = cb /\ req' = req /\ (InProgress <=> InProgress')
    BY <1>2 DEF GoesOn
  <2>2. CASE state = "PLAIN_CONN" /\ state' = "CRYPTO_CONN"
    BY <2>1, <2>2, Invisible DEF StatusTable
  <2>3. CASE state' = state
    <3>1. CASE state = "CRYPTO_SHUT"
      BY <2>1, <2>3, <3>1, Invisible DEF StatusTable, InProgress
    <3>2. CASE state \in {"PLAIN_CONN", "CRYPTO_CONN", "CRYPTO_RENEG"}
      BY <2>1, <2>3, <3>2, Invisible DEF StatusTable
    <3>3. CASE state \notin {"PLAIN_CONN", "CRYPTO_CONN", "CRYPTO_RENEG", "CRYPTO_SHUT"}
      <4>1. op' = op
        BY <3>3
      <4> QED
        BY <2>1, <2>3, <4>1, Invisible DEF Status, LookupLost
    <3> QED
      BY <3>1, <3>2, <3>3
  <2> QED
    BY <1>2, <2>2, <2>3 DEF GoesOn
<1> QED
  BY <1>1, <1>2, FdWatchOutcome

(* So is the end of a lookup: invisible if it goes on to connect or if it  *)
(* forgets the callback (LookupLost), the end of a connection otherwise.   *)
LEMMA LookupAsPromised ==
    ASSUME TypeInv, ReqInv, CallInv,
           NEW result \in {"address", "error", "unusable"}, LookupDone(result)
    PROVE  [Contract!Next]_(Contract!vars)
<1> USE StatusIs
<1>1. state = "LOOKUP" /\ InProgress /\ cb.ctx = "no" /\ req \in {"none", "wait"}
  BY DEF LookupDone, InProgress, CallInv, TypeInv, RestOK
<1>2. Status = "connecting" /\ Status \in Contract!InProgress
  BY <1>1 DEF StatusTable, Contract!InProgress
<1>3. CASE result = "address"
  <2>1. state' = "PLAIN_CONN" /\ cb' = cb /\ req' = req
    BY <1>3 DEF LookupDone, GotoPlainConn, Goto
  <2> QED
    BY <1>2, <2>1, Invisible DEF StatusTable
<1>4. CASE result = "error"
  <2>1. /\ state' = "PLAIN_FAIL"
        /\ IF op.cb = "none" THEN UNCHANGED <<cb, req>>
           ELSE cb' = [ctx |-> "lookup", err |-> TRUE] /\ req' = "none"
    BY <1>4 DEF LookupDone, Goto
  <2>2. req' # "wait"
    BY <1>1, <2>1 DEF ReqInv
  <2>3. Status' = "failed"
    BY <2>1, <2>2 DEF StatusTable
  <2> QED
    BY <1>1, <1>2, <2>1, <2>3, EndsAsPromised
<1>5. CASE result = "unusable"
  <2>1. state' = "PLAIN_FAIL" /\ cb' = cb /\ req' = req
    BY <1>5 DEF LookupDone, Goto
  <2>2. CASE req = "wait"
    BY <1>2, <2>1, <2>2, Invisible DEF StatusTable
  <2>3. CASE req # "wait"
    <3>1. op.cb = "none" /\ Status' = "failed"
      BY <1>1, <2>1, <2>3 DEF ReqInv, StatusTable
    <3>2. IF op.cb = "none" THEN UNCHANGED <<cb, req>>
          ELSE cb' = [ctx |-> "lookup", err |-> TRUE] /\ req' = "none"
      BY <2>1, <3>1
    <3> QED
      BY <1>1, <1>2, <3>1, <3>2, EndsAsPromised
  <2> QED
    BY <2>2, <2>3
<1> QED
  BY <1>3, <1>4, <1>5

(* Every step.                                                             *)
LEMMA StepAsPromised ==
    ASSUME TypeInv, SockInv, ReqInv, CallInv, [Next]_vars
    PROVE  [Contract!Next]_(Contract!vars)
<1>1. CASE UNCHANGED vars \/ PollWatch
  <2>1. state' = state /\ op' = op /\ req' = req /\ cb' = cb
    BY <1>1 DEF vars, PollWatch
  <2> QED
    BY <2>1, Invisible DEF Status, LookupLost
<1>2. CASE CbReturn
  <2>1. state' = state /\ op' = op /\ req' = req /\ cb.ctx # "no" /\ cb'.ctx = "no"
    BY <1>2 DEF CbReturn
  <2>2. Status' = Status
    BY <2>1 DEF Status, LookupLost
  <2> QED
    BY <2>1, <2>2 DEF Contract!Next, Contract!Returns
<1> QED
  BY <1>1, <1>2, UserAsPromised, FdWatchAsPromised, LookupAsPromised DEF Next, Loop, Terminated

(* No callback runs before there is a connection.                          *)
LEMMA CallInvAlways == Spec => []CallInv
<1>1. Init => CallInv
  <2> SUFFICES ASSUME Init PROVE CallInv
    OBVIOUS
  <2>1. cb = [ctx |-> "no", err |-> FALSE]
    BY DEF Init
  <2> QED
    BY <2>1 DEF CallInv
<1>2. TypeInv /\ SockInv /\ ReqInv /\ CallInv /\ [Next]_vars => CallInv'
  <2> SUFFICES ASSUME TypeInv, SockInv, ReqInv, CallInv, [Next]_vars PROVE CallInv'
    OBVIOUS
  <2>1. CASE UNCHANGED vars \/ PollWatch
    BY <2>1 DEF vars, PollWatch, CallInv
  <2>2. CASE CbReturn
    BY <2>2 DEF CbReturn, CallInv
  <2>3. CASE User
    <3>1. cb' = cb
      BY <2>3, ReqUser
    <3>2. state' \in {"INIT", "LOOKUP"} => state \in {"INIT", "LOOKUP"}
      BY <2>3 DEF User, SetConnFd, SetServer, SetSockBind, Connect, GotoPlainConn, ShutSock,
                  Close, Finalize, Renegotiate, ShutCrypto, ResumePlain, Write, Read, RenegRead,
                  Goto, Stay
    <3> QED
      BY <3>1, <3>2 DEF CallInv
  <2>4. CASE FdWatch
    <3>1. state' \in {"INIT", "LOOKUP"} => state' = state /\ GoesOn
      BY <2>4, FdWatchLeads, FdWatchOutcome DEF Ends, InProgress
    <3> QED
      BY <3>1 DEF GoesOn, CallInv
  <2>5. CASE \E result \in {"address", "error", "unusable"} : LookupDone(result)
    <3>1. state' \in {"PLAIN_CONN", "PLAIN_FAIL"}
      BY <2>5 DEF LookupDone, GotoPlainConn, Goto
    <3> QED
      BY <3>1 DEF CallInv
  <2> QED
    BY <2>1, <2>2, <2>3, <2>4, <2>5 DEF Next, Loop, Terminated
<1> QED
  BY <1>1, <1>2, TypeInvAlways, SockInvAlways, ReqInvAlways, PTL DEF Spec

(* The state machine implements the contract of a channel: its phases,     *)
(* deferred I/O and failures show the application only operations that may *)
(* follow each other, each ended by one callback that tells the outcome,   *)
(* or by none if the application superseded it or asked for none.          *)
THEOREM ContractImplemented == Spec => ImplementsContract
<1>1. Init => Contract!Init
  <2> SUFFICES ASSUME Init PROVE Contract!Init
    OBVIOUS
  <2>1. state = "INIT" /\ cb = [ctx |-> "no", err |-> FALSE] /\ req = "none"
    BY DEF Init
  <2>2. Status = "new"
    BY <2>1, StatusIs DEF StatusTable
  <2> QED
    BY <2>1, <2>2 DEF Contract!Init
<1>2. TypeInv /\ SockInv /\ ReqInv /\ CallInv /\ [Next]_vars => [Contract!Next]_(Contract!vars)
  BY StepAsPromised
<1> QED
  BY <1>1, <1>2, TypeInvAlways, SockInvAlways, ReqInvAlways, CallInvAlways, PTL
     DEF Spec, ImplementsContract, Contract!Spec
=============================================================================
