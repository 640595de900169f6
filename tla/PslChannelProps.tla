-------------------------- MODULE PslChannelProps --------------------------
(***************************************************************************)
(* What the state machine of a channel (PslChannelFsm) promises: safety    *)
(* invariants, properties of its steps, liveness, and the statements of    *)
(* the repository that it does not keep.                                   *)
(***************************************************************************)
EXTENDS PslChannelFsm

AppWatch == INSTANCE PslChannelWatch

-----------------------------------------------------------------------------
(* Safety.                                                                 *)

(* No reference leaks and none is returned twice: the machine holds one    *)
(* context reference for a connection in progress and one for its SSL      *)
(* object, and one OpenSSL initialisation while in crypto mode.            *)
RefsBalanced ==
    /\ ctxRefs = (IF state \in {"LOOKUP", "PLAIN_CONN", "CRYPTO_CONN"} /\ op.kind # "plain"
                    THEN 1 ELSE 0)
               + (IF tls.sslCtx THEN 1 ELSE 0)
    /\ initRefs = IF tls.init THEN 1 ELSE 0
    /\ state \notin CryptoMode => tls = NoTls

(* Every state whose handlers hand sslInfo->ssl to OpenSSL has the object, *)
(* whichever way it was reached (psl_channel_fsm_crypto.c:1524-1786).      *)
SslWhereUsed ==
    /\ state \in {"CRYPTO_RENEG", "CRYPTO_SSL", "CRYPTO_SHUT"} => tls.ssl /\ tls.sslCtx
    /\ state = "CRYPTO_CONN" => (tls.ssl <=> op.phase = "handshake")

(* The assertions on the deferred state hold (DeferredOK), and no read is  *)
(* deferred where nobody would retry it: while renegotiating and during a  *)
(* two-way shutdown.                                                       *)
DeferredSound ==
    /\ DeferredOK(io)
    /\ state = "CRYPTO_RENEG" => ~Pending(io.in)
    /\ state = "CRYPTO_SHUT" /\ op.how = "twoWay" => ~Pending(io.in)

(* An established channel watches its socket for what its deferred I/O     *)
(* waits for and for nothing else: less would stall it, more would spin    *)
(* the main loop.  The same holds of a one-way shutdown while it may read. *)
DeferredArmed == ReadsTheSocket => watch.events = DeferredCondition(io)

(* The close-notify alert and the renegotiation request follow the output  *)
(* buffered before them: none is left when those phases are reached.       *)
FlushedBeforeControl ==
    (\/ state = "CRYPTO_SHUT" /\ op.phase \in {"shut1", "shut2", "success"}
     \/ state = "CRYPTO_RENEG" /\ op.phase \in {"requestHello", "handshake", "done"})
        => (io.buf => io.out = "error")

(* An operation the application started and the library has not finished.  *)
InProgress ==
    \/ state \in {"LOOKUP", "PLAIN_CONN", "CRYPTO_CONN", "CRYPTO_RENEG"}
    \/ state = "CRYPTO_SHUT" /\ op.phase # "success"

(* A renegotiation lets the application read what is buffered first.       *)
AwaitsReader == state = "CRYPTO_RENEG" /\ op.phase = "handshake" /\ InputReady(io)

(* A renegotiation begun while output was deferred waits for it unwatched. *)
FlushStall == state = "CRYPTO_RENEG" /\ op.phase = "flushOut" /\ Pending(io.out)

(* A READ that meets the end or an error of the input during the flush of  *)
(* a one-way shutdown completes the deferred write itself, and the         *)
(* shutdown is not told.                                                   *)
ReadFlushStall ==
    /\ state = "CRYPTO_SHUT" /\ op.how = "oneWay" /\ op.phase = "flushOut"
    /\ ~Pending(io.out) /\ io.in = "error"

(* A lookup that succeeded without a usable address ended the connection.  *)
LookupLost == state = "PLAIN_FAIL" /\ req = "wait"

WillWake == ready \/ watch.timer \/ watch.events # {}

(* A watch for input would be dispatched without waiting for the socket.   *)
ReaderIsTold == AppWatch!Preflight(closed, CheckIO, {"IN"}).ready # {}

(* Whatever is in progress, something will wake the machine up: the timer, *)
(* the socket, or the READ that a suspended renegotiation waits for; and   *)
(* an application that waits for a channel whose input is buffered where   *)
(* poll() does not see it, or that has failed, is told without it.         *)
(* FlushStall and ReadFlushStall, the exceptions, are the findings of runs *)
(* reneg_stall and shut_read_stall.                                        *)
NoLostWakeup ==
    abort = "" =>
        /\ InProgress =>
              state = "LOOKUP" \/ WillWake \/ AwaitsReader \/ FlushStall \/ ReadFlushStall
        /\ InputReady(io) /\ (ReadsTheSocket \/ state = "CRYPTO_RENEG") => ReaderIsTold
        /\ state \in {"PLAIN_FAIL", "CRYPTO_FAIL"} => ReaderIsTold

(* The immediate timer is set only in phases whose handler turns it off:   *)
(* left on it would make the main loop spin.                               *)
TimerIsReset ==
    watch.timer =>
        \/ state = "PLAIN_CONN" /\ op.err
        \/ state \in {"CRYPTO_CONN", "CRYPTO_SHUT"} /\ op.phase = "init"
        \/ state = "CRYPTO_RENEG" /\ op.phase \in {"init", "done"}

(* Nobody waits for a callback that will not come: a completion is owed    *)
(* only while its operation is in progress.  LookupLost is the finding of  *)
(* run lookup_lost.                                                        *)
NoForgottenRequest == req = "wait" => InProgress \/ LookupLost

(* The descriptor of the operating system is open exactly while the        *)
(* machine holds it, or when it was told to leave it open, and is closed   *)
(* at most once.                                                           *)
DescriptorOwned ==
    /\ fd => desc = "open"
    /\ ~fd => IF closed /\ conf.keepFd THEN desc = "open" ELSE desc \in {"none", "closed"}

(* The PSL_ASSERTs on the events of a dispatch hold in PLAIN_CONN and in   *)
(* CRYPTO_SHUT whatever runs between check and dispatch (plain.c:597 and   *)
(* crypto.c:916; for crypto.c:1329 see OnePollrec).                        *)
OnlySslAssertFails == abort \in {"", "sslRecs"}

-----------------------------------------------------------------------------
(* Action properties.                                                      *)

CallbackStarts == cb.ctx = "no" /\ cb'.ctx # "no"

(* A completion callback runs once for each accepted request that asked    *)
(* for one, never for a request superseded by ShutSock or Close, and never *)
(* after the channel was closed.                                           *)
CallbackOwed == [][CallbackStarts => req = "wait" /\ req' = "none" /\ ~closed']_vars

(* It reports an error exactly when the channel has failed.                *)
CallbackTellsOutcome ==
    [][CallbackStarts => (cb'.err <=> state' \in {"PLAIN_FAIL", "CRYPTO_FAIL"})]_vars

(* A fatal SSL error is final: no retry, renegotiation or shutdown brings  *)
(* that direction of the connection back.                                  *)
ErrorsStick ==
    [][state' \in CryptoMode => /\ io.out = "error" => io'.out = "error"
                                /\ io.in = "error" => io'.in = "error"]_vars

(* The byte a deferred read obtained reaches the application: only a READ  *)
(* takes it, never a dispatch, a renegotiation or a shutdown.              *)
DeferredByteKept ==
    [][io.byte /\ ~io'.byte /\ state' \in CryptoMode => UNCHANGED <<state, ready>>]_vars

-----------------------------------------------------------------------------
(* The channel as the application sees it.  Whoever was told nothing of a  *)
(* failed lookup still takes the channel to be connecting (LookupLost).    *)
Status ==
    CASE state = "INIT"                             -> "new"
      [] state \in {"LOOKUP", "PLAIN_CONN", "CRYPTO_CONN"} \/ LookupLost -> "connecting"
      [] state = "PLAIN_TCP"                        -> "plain"
      [] state = "CRYPTO_SSL"                       -> "secure"
      [] state = "CRYPTO_RENEG"                     -> "renegotiating"
      [] state = "CRYPTO_SHUT" /\ op.phase # "success" -> "closingSsl"
      [] state = "CRYPTO_SHUT" /\ op.phase = "success" -> "unsecured"
      [] state = "PLAIN_SHUT"                       -> "shut"
      [] state = "CRYPTO_FAIL"                      -> "failed"
      [] state = "PLAIN_FAIL" /\ ~LookupLost        -> "failed"
      [] state \in {"CLOSED", "FINAL"}              -> "closed"

Contract == INSTANCE PslChannelContract WITH
    status <- Status,
    owed   <- (req = "wait"),
    call   <- IF cb.ctx = "no" THEN "none" ELSE IF cb.err THEN "error" ELSE "ok"

(* The state machine with its phases, deferred I/O and failures keeps what *)
(* the channel promises: operations follow each other as they may, and     *)
(* each ends with one callback that tells the outcome unless the           *)
(* application supersedes it.  That it ends is RequestsComplete.           *)
ImplementsContract == Contract!Spec

-----------------------------------------------------------------------------
(* Liveness, for a network and a peer that cooperate: a watched socket is  *)
(* sometimes reported with all it is watched for, and OpenSSL does not     *)
(* answer "want" for ever.  The main loop dispatches what it found ready,  *)
(* lookups end and callbacks return.  The application owes nothing.        *)

Fairness ==
    /\ WF_vars(FdWatch)
    /\ WF_vars(CbReturn)
    /\ WF_vars(\E result \in {"address", "error", "unusable"} : LookupDone(result))
    /\ SF_vars(PollWatch /\ watch'.revents = watch.events)
    /\ SF_vars(FdWatch /\ (state' # state \/ op'.phase # op.phase))
    /\ SF_vars(FdWatch /\ Pending(io.out) /\ ~Pending(io'.out))

LiveSpec == Spec /\ Fairness

(* A shutdown flushes output that SSL_write wants to read for: it is never *)
(* retried, for the socket is watched for input and a deferred write is    *)
(* looked at on output only (psl_channel_fsm_crypto.c:2789-2794).          *)
WantReadStall == state = "CRYPTO_SHUT" /\ op.phase = "flushOut" /\ io.out = "wantRead"

(* Every request that asked for a completion gets its callback, is         *)
(* superseded, or meets one of the named stalls.                           *)
RequestsComplete ==
    req = "wait" ~> \/ req = "none"
                      \/ AwaitsReader \/ FlushStall
                      \/ ReadFlushStall \/ WantReadStall
                      \/ LookupLost

(* Deferred output that waits for the socket to become writeable leaves    *)
(* that state, whatever the application reads and writes meanwhile.  (If   *)
(* it waits to read, nothing but the end of the connection need end that.) *)
DeferredOutputRetried ==
    state = "CRYPTO_SSL" /\ io.out = "wantWrite"
        ~> state # "CRYPTO_SSL" \/ io.out # "wantWrite"

-----------------------------------------------------------------------------
(* What the repository says of the code and the code does not do.          *)

(* "Renegotiation completes asynchronously by piggy-backing on subsequent  *)
(* I/O (explicit and/or deferred read/write requests)" (palmsocket.h): the *)
(* deferred write is one, yet it is not watched.                           *)
RenegWakes == state = "CRYPTO_RENEG" => WillWake \/ AwaitsReader

(* "If we're here, there must be exactly one pollrec"                      *)
(* (psl_channel_fsm_crypto.c): not when another source of the same main    *)
(* loop reads or writes the channel just before the dispatch.              *)
OnePollrec == abort # "sslRecs"

(* "Upon completion of the uni-directional SSL shutdown operation (both    *)
(* successful and failed) ... completionCb will be called" (palmsocket.h): *)
(* nothing wakes the shutdown up once a READ has flushed the output.       *)
ShutWakes == state = "CRYPTO_SHUT" /\ op.phase # "success" => WillWake

(* The completion callback indicates "the operation's success or failure"  *)
(* (palmsocket.h): a failed SSL_renegotiate is reported as success.        *)
StartFailureReported ==
    [][CallbackStarts /\ op.startErr => cb'.err]_vars

(* "completionCb will be called at successful or failed completion"        *)
(* (palmsocket.h): not when the lookup yields no usable address.           *)
FailureReported == req = "wait" => state # "PLAIN_FAIL"
=============================================================================
