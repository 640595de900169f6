---------------------------- MODULE PslChannelFsm ----------------------------
(***************************************************************************)
(* The state machine of one libpalmsocket channel                          *)
(* (src/src/psl_channel_fsm_{main,plain,crypto}.c), the file-descriptor    *)
(* watch that drives it (as seen through psl_multi_fd_watch.h), and the    *)
(* two parties that call into it from the same thread: the application and *)
(* the GLib main loop.                                                     *)
(*                                                                         *)
(* Every event is dispatched to completion (psl_sme.c), so one event is    *)
(* one action, with the transition it requests and the exit, enter and     *)
(* begin handlers that transition runs.  A completion callback scheduled   *)
(* by an FD_WATCH runs after the event: from then until CbReturn the       *)
(* application is inside the callback and may call the channel again.      *)
(*                                                                         *)
(* A call the current state rejects only sets lastError; neither it nor    *)
(* plain-text READ and WRITE, CHECK_IO and GET_PEER_CERT_VERIFY_ERR change *)
(* any state kept here, so they have no action; CheckIO is the answer to   *)
(* CHECK_IO.                                                               *)
(***************************************************************************)
EXTENDS Integers, FiniteSets, PslCryptoIO

CONSTANTS
    Kinds,          \* connection kinds the application asks for
    Cbs,            \* completion callbacks it passes
    FailConds,      \* failure conditions poll() reports unasked
    OtherSources    \* may callbacks of other high-priority sources call the
                    \* channel after its watch was found ready and before the
                    \* watch is dispatched?

ASSUME KindsAssumption        == Kinds \subseteq {"plain", "client", "server"}
ASSUME CbsAssumption          == Cbs \subseteq {"none", "completion", "switch"}
ASSUME FailCondsAssumption    == FailConds \subseteq {"HUP", "ERR"}
ASSUME OtherSourcesAssumption == OtherSources \in BOOLEAN

VARIABLES
    state,      \* the leaf state of the machine
    op,         \* begin argument and progress of the operation of that state
    conf,       \* PslChanFsmUserSettings: addresses set, descriptor provided
    fd,         \* pFsm->fd >= 0
    desc,       \* what the operating system knows of that descriptor
    closed,     \* fsmClosed
    tls,        \* the part of PslChanFsmCryptoSharedInfo that is not I/O
    io,         \* its deferred I/O (PslCryptoIO)
    ctxRefs,    \* references this machine holds on its PmSockSSLContext
    initRefs,   \* openssl initialisations it has taken and not returned
    watch,      \* the multi-fd watch source and lastGIOCondition
    ready,      \* GLib has found the source ready and not dispatched it yet
    cb,         \* the completion callback being executed
    req,        \* monitor: is a completion owed to the application?
    abort       \* the PSL_ASSERT that failed, "" if none

sockVars == <<conf, fd, desc, closed>>
vars == <<state, op, sockVars, tls, io, ctxRefs, initRefs, watch, ready, cb, req, abort>>

PlainMode  == {"PLAIN_FAIL", "LOOKUP", "PLAIN_CONN", "PLAIN_TCP", "PLAIN_SHUT"}
CryptoMode == {"CRYPTO_FAIL", "CRYPTO_CONN", "CRYPTO_RENEG", "CRYPTO_SSL", "CRYPTO_SHUT"}
States     == {"INIT", "CLOSED", "FINAL"} \cup PlainMode \cup CryptoMode

Phases == {"init", "flushOut", "requestHello", "handshake", "done",
           "shut1", "shut2", "success"}

(* Connect arguments (kind, cb), shutdown arguments (how, cb) and          *)
(* renegotiation arguments (wait, cb) share one record; startErr remembers *)
(* that SSL_renegotiate failed, which the code does not.                   *)
Ops == [kind : {"plain", "client", "server"}, cb : {"none", "completion", "switch"},
        how : {"oneWay", "twoWay"}, wait : BOOLEAN,
        phase : Phases, err : BOOLEAN, startErr : BOOLEAN]

NoOp == [kind |-> "plain", cb |-> "none", how |-> "twoWay", wait |-> FALSE,
         phase |-> "init", err |-> FALSE, startErr |-> FALSE]

Tls   == [ssl : BOOLEAN, sslCtx : BOOLEAN, init : BOOLEAN,
          kind : {"plain", "client", "server"}]
NoTls == [ssl |-> FALSE, sslCtx |-> FALSE, init |-> FALSE, kind |-> "plain"]

Events  == {"IN", "OUT"}
Watches == [desc : BOOLEAN, events : SUBSET Events, timer : BOOLEAN,
            revents : SUBSET (Events \cup {"HUP", "ERR"}), last : SUBSET Events]

TypeOK ==
    /\ state \in States
    /\ op \in Ops
    /\ conf \in [server : BOOLEAN, bind : BOOLEAN, userFd : BOOLEAN, keepFd : BOOLEAN]
    /\ fd \in BOOLEAN
    /\ desc \in {"none", "open", "closed", "closedTwice"}
    /\ closed \in BOOLEAN
    /\ tls \in Tls
    /\ io \in CryptoIO
    /\ ctxRefs \in Int
    /\ initRefs \in Int
    /\ watch \in Watches
    /\ ready \in BOOLEAN
    /\ cb \in [ctx : {"no", "watch", "lookup"}, err : BOOLEAN]
    /\ req \in {"none", "wait"}
    /\ abort \in {"", "connRecs", "sslRecs", "shutSuccess"}

-----------------------------------------------------------------------------
(* The fd watch.                                                           *)

(* psl_multi_fd_watch_reset and crypto_reset_multi_fd_watch                *)
NoWatch == [desc |-> FALSE, events |-> {}, timer |-> FALSE, revents |-> {}, last |-> {}]

(* mutant: the poll timeout is not set                                     *)
TimerForgotten == NoWatch

(* a watch that will fire at once, with no descriptor in it                *)
TimerWatch == [NoWatch EXCEPT !.timer = TRUE]

(* mutant: poll is asked for the conditions it always reports              *)
ArmForHangUp(w, conds) ==
    [desc |-> TRUE, events |-> conds \cup {"HUP"}, timer |-> w.timer,
     revents |-> {}, last |-> conds]

(* crypto_update_multi_fd_watch_giocondition: a new descriptor starts      *)
(* without returned events, a known one keeps those of the last poll.      *)
Arm(w, conds) ==
    IF conds = w.last
      THEN w
      ELSE [desc |-> TRUE, events |-> conds, timer |-> w.timer,
            revents |-> IF w.desc THEN w.revents ELSE {}, last |-> conds]

(* mutant: the deferred read is not watched for                            *)
ArmOutputOnly(w, y)  == Arm(w, IOCondition(y.out))

ArmDeferred(w, y) == Arm(w, DeferredCondition(y))

(* mutant: only input is reported                                          *)
IndicatedInput == watch.revents \cap {"IN"}

(* The conditions multi_fd_watch_dispatch reports: there is one poll       *)
(* record if there are any and none otherwise.                             *)
Indicated == IF watch.desc THEN watch.revents \cap (watch.events \cup {"HUP", "ERR"})
                           ELSE {}

-----------------------------------------------------------------------------
(* Transitions.  Goto(d, o, y, t, r) takes the machine from its state to   *)
(* d with begin argument o, the deferred I/O, SSL data and context         *)
(* references being y, t and r by then: the exit handlers from the leaf    *)
(* up, then the enter handlers, then the begin handler of d.               *)

WatchAfterExit ==
    IF state \in {"PLAIN_CONN", "CRYPTO_CONN", "CRYPTO_RENEG", "CRYPTO_SSL", "CRYPTO_SHUT"}
      THEN NoWatch ELSE watch

(* mutant: CRYPTO_CONN forgets its reference                               *)
RefsReleasedButOne(d, t) ==
      (IF state \in {"LOOKUP", "PLAIN_CONN"} /\ op.kind # "plain" THEN 1 ELSE 0)
    + (IF state \in CryptoMode /\ d \notin CryptoMode /\ t.sslCtx THEN 1 ELSE 0)

(* Context references the exit handlers give back on the way to d.         *)
RefsReleased(d, t) ==
      (IF state \in {"LOOKUP", "PLAIN_CONN"} /\ op.kind # "plain" THEN 1 ELSE 0)
    + (IF state = "CRYPTO_CONN" THEN 1 ELSE 0)
    + (IF state \in CryptoMode /\ d \notin CryptoMode /\ t.sslCtx THEN 1 ELSE 0)

(* References psl_chan_fsm_goto_plain_lookup_state and its siblings take.  *)
RefsTaken(d, o) ==
    IF d = "CRYPTO_CONN" \/ (d \in {"LOOKUP", "PLAIN_CONN"} /\ o.kind # "plain")
      THEN 1 ELSE 0

(* mutants: a renegotiation keeps the deferred read, or forgets an error;  *)
(* a two-way shutdown throws away the byte a deferred read obtained.       *)
KeepInput(y)   == y
ForgetInput(y) == [y EXCEPT !.in = "idle"]
DropByte(y)    == [y EXCEPT !.in = IF Pending(y.in) THEN "idle" ELSE y.in, !.byte = FALSE]

(* the begin handlers of CRYPTO_RENEG and of a two-way CRYPTO_SHUT         *)
DropInput(y) == IF Pending(y.in) THEN [y EXCEPT !.in = "idle"] ELSE y
DropInputAndByte(y) ==
    IF Pending(y.in) THEN [y EXCEPT !.in = "idle", !.byte = FALSE] ELSE y

(* What the begin handler of d leaves of the deferred I/O and the watch.   *)
Begin(d, o, y) ==
    CASE d \in {"CLOSED", "PLAIN_FAIL", "FINAL"} ->
            {[io |-> NoIO, watch |-> NoWatch]}
      [] d \in {"LOOKUP", "PLAIN_TCP", "PLAIN_SHUT"} ->
            {[io |-> NoIO, watch |-> WatchAfterExit]}
      [] d = "PLAIN_CONN" ->
            {[io |-> NoIO, watch |-> IF o.err THEN TimerWatch
                                     ELSE [NoWatch EXCEPT !.desc = TRUE, !.events = {"OUT"}]]}
      [] d = "CRYPTO_FAIL" ->
            {[io |-> y, watch |-> WatchAfterExit]}
      [] d = "CRYPTO_CONN" ->
            {[io |-> NoIO, watch |-> TimerWatch]}
      [] d = "CRYPTO_RENEG" ->
            {[io |-> DropInput(y), watch |-> TimerWatch]}
      [] d = "CRYPTO_SHUT" ->
            {[io |-> IF o.how = "twoWay" THEN DropInputAndByte(y) ELSE y,
              watch |-> TimerWatch]}
      [] OTHER -> \* CRYPTO_SSL
            {[io |-> z, watch |-> ArmDeferred(NoWatch, z)] : z \in ProcessDeferred(y, "none", {})}

(* Entering crypto mode starts OpenSSL if it can; leaving it frees the SSL *)
(* object and returns both references.                                     *)
CryptoModeScope(d, t) ==
    IF d \notin CryptoMode
      THEN /\ tls' = NoTls
           /\ initRefs' = IF state \in CryptoMode /\ t.init THEN initRefs - 1 ELSE initRefs
    ELSE IF state \in CryptoMode
      THEN tls' = t /\ UNCHANGED initRefs
    ELSE \E taken \in BOOLEAN :
           /\ tls' = [NoTls EXCEPT !.init = taken]
           /\ initRefs' = IF taken THEN initRefs + 1 ELSE initRefs

Goto(d, o, y, t, r) ==
    /\ state' = d
    /\ op' = o
    /\ \E b \in Begin(d, o, y) : io' = b.io /\ watch' = b.watch
    /\ CryptoModeScope(d, t)
    /\ ctxRefs' = r + RefsTaken(d, o) - RefsReleased(d, t)

(* The machine stays in its state.                                         *)
Stay(o, y, w) ==
    /\ op' = o
    /\ io' = y
    /\ watch' = w
    /\ UNCHANGED <<state, tls, ctxRefs, initRefs>>

(* The user may call the channel outside every callback, inside its own    *)
(* completion callback and, if another source's callback runs between the  *)
(* check and the dispatch of the watch, while the watch is ready.          *)
UserMayCall ==
    /\ abort = ""
    /\ state # "FINAL"
    /\ ready => OtherSources

Request(c) == req' = IF c = "none" THEN "none" ELSE "wait"

(* mutants: a switch callback is not dispatched; errors are not passed on  *)
CompleteNoSwitch(c, err) ==
    IF c # "completion"
      THEN UNCHANGED <<cb, req>>
      ELSE cb' = [ctx |-> "watch", err |-> err] /\ req' = "none"
CompleteNoError(c, err) ==
    IF c = "none"
      THEN UNCHANGED <<cb, req>>
      ELSE cb' = [ctx |-> "watch", err |-> FALSE] /\ req' = "none"

(* psl_chan_fsm_sched_fdwatch_completion_cb, dispatched by the same call   *)
(* of chan_fsm_fd_watch_cb once the event has run to completion.           *)
Complete(c, err) ==
    IF c = "none"
      THEN UNCHANGED <<cb, req>>
      ELSE cb' = [ctx |-> "watch", err |-> err] /\ req' = "none"

-----------------------------------------------------------------------------
(* Calls of the application: configuration and connection.                 *)

SetConnFd ==
    /\ UserMayCall
    /\ state = "INIT" /\ ~fd /\ ~conf.server /\ ~conf.bind
    /\ fd' = TRUE
    /\ desc' = "open"
    /\ \E keep \in BOOLEAN : conf' = [conf EXCEPT !.userFd = TRUE, !.keepFd = keep]
    /\ UNCHANGED <<state, op, closed, tls, io, ctxRefs, initRefs, watch, ready, cb, req, abort>>

SetServer ==
    /\ UserMayCall
    /\ state = "INIT" /\ ~fd /\ ~conf.server
    /\ conf' = [conf EXCEPT !.server = TRUE]
    /\ UNCHANGED <<state, op, fd, desc, closed, tls, io, ctxRefs, initRefs, watch, ready, cb, req, abort>>

SetSockBind ==
    /\ UserMayCall
    /\ state = "INIT" /\ ~fd /\ ~conf.bind
    /\ conf' = [conf EXCEPT !.bind = TRUE]
    /\ UNCHANGED <<state, op, fd, desc, closed, tls, io, ctxRefs, initRefs, watch, ready, cb, req, abort>>

ConnectOp(kind, c) == [NoOp EXCEPT !.kind = kind, !.cb = c]

(* The begin handler of PLAIN_CONN makes the descriptor the user provided  *)
(* non-blocking, or creates, configures and connects a socket: any of it   *)
(* may fail, creating the socket even without leaving one.                 *)
GotoPlainConn(o) ==
    \E failed, created \in BOOLEAN :
        /\ ~failed => created
        /\ IF conf.userFd
             THEN created /\ UNCHANGED <<fd, desc>>
             ELSE fd' = created /\ desc' = IF created THEN "open" ELSE "none"
        /\ Goto("PLAIN_CONN", [o EXCEPT !.err = failed], io, tls, ctxRefs)

Connect(kind, c) ==
    /\ UserMayCall
    /\ \/ /\ state = "INIT" /\ ~fd /\ conf.server
          /\ Goto("LOOKUP", ConnectOp(kind, c), io, tls, ctxRefs)
          /\ UNCHANGED <<fd, desc>>
       \/ /\ state = "INIT" /\ fd
          /\ GotoPlainConn(ConnectOp(kind, c))
       \/ /\ state = "PLAIN_TCP" /\ kind # "plain"
          /\ Goto("CRYPTO_CONN", ConnectOp(kind, c), io, tls, ctxRefs)
          /\ UNCHANGED <<fd, desc>>
    /\ Request(c)
    /\ UNCHANGED <<conf, closed, ready, cb, abort>>

(* Shutting the socket down abandons whatever was in progress.             *)
ShutSock ==
    /\ UserMayCall
    /\ state \in CryptoMode \cup {"PLAIN_TCP"}
    /\ Goto("PLAIN_SHUT", NoOp, io, tls, ctxRefs)
    /\ req' = "none"
    /\ UNCHANGED <<sockVars, ready, cb, abort>>

(* mutant: kPmSockFileDescOpt_doNotClose is not looked at                  *)
CloseAnyDescriptor ==
    /\ fd' = FALSE
    /\ closed' = TRUE
    /\ desc' = IF fd THEN "closed" ELSE desc

CloseDescriptor ==
    /\ fd' = FALSE
    /\ closed' = TRUE
    /\ desc' = IF ~fd \/ conf.keepFd THEN desc
               ELSE IF desc = "open" THEN "closed" ELSE "closedTwice"

(* Closing a closed channel changes nothing.                               *)
Close ==
    /\ UserMayCall
    /\ state # "CLOSED"
    /\ CloseDescriptor
    /\ Goto("CLOSED", NoOp, io, tls, ctxRefs)
    /\ req' = "none"
    /\ UNCHANGED <<conf, ready, cb, abort>>

(* The last reference of the GIOChannel is dropped: CLOSE unless closed,   *)
(* then FINALIZE, which destroys the watch.                                *)
Finalize ==
    /\ UserMayCall
    /\ CloseDescriptor
    /\ Goto("FINAL", NoOp, io, tls, ctxRefs)
    /\ ready' = FALSE
    /\ req' = "none"
    /\ UNCHANGED <<conf, cb, abort>>

-----------------------------------------------------------------------------
(* Calls of the application in crypto mode.                                *)

Renegotiate(wait, c) ==
    /\ UserMayCall
    /\ state = "CRYPTO_SSL"
    /\ wait => tls.kind = "server"
    /\ c # "switch"
    /\ Goto("CRYPTO_RENEG", [NoOp EXCEPT !.wait = wait, !.cb = c], io, tls, ctxRefs)
    /\ Request(c)
    /\ UNCHANGED <<sockVars, ready, cb, abort>>

(* A one-way shutdown can be made two-way; a renegotiation is abandoned.   *)
ShutCrypto(how, c) ==
    /\ UserMayCall
    /\ \/ state \in {"CRYPTO_SSL", "CRYPTO_RENEG"}
       \/ state = "CRYPTO_SHUT" /\ op.how = "oneWay" /\ how = "twoWay"
    /\ c = "switch" => how = "twoWay"
    /\ Goto("CRYPTO_SHUT", [NoOp EXCEPT !.how = how, !.cb = c], io, tls, ctxRefs)
    /\ Request(c)
    /\ UNCHANGED <<sockVars, ready, cb, abort>>

(* Whether both close-notify alerts were exchanged is OpenSSL's answer.    *)
ResumePlain ==
    /\ UserMayCall
    /\ state = "CRYPTO_SHUT" /\ op.phase = "success"
    /\ Goto("PLAIN_TCP", NoOp, io, tls, ctxRefs)
    /\ UNCHANGED <<sockVars, ready, cb, req, abort>>

(* The states whose READ handler may try the socket.                       *)
ReadsTheSocket ==
    \/ state = "CRYPTO_SSL"
    \/ state = "CRYPTO_SHUT" /\ op.how = "oneWay" /\ op.phase \in {"success", "flushOut"}

Hint(readable, writeable, polled) ==
    [readable |-> readable, writeable |-> writeable, fd |-> polled]

(* mutant: a renegotiation counts only what OpenSSL has buffered           *)
RenegHintPendingOnly == Hint(IF io.pend THEN "ready" ELSE "notReady", "notReady", fd)

RenegHint == Hint(IF InputReady(io) THEN "ready" ELSE "notReady", "notReady", fd)

ShutHint == Hint(IF ReadsTheSocket THEN InputHint(io)
                 ELSE IF op.phase = "success" THEN "ready" ELSE "notReady",
                 IF op.phase = "success" THEN "ready" ELSE "notReady", fd)

(* PSL_CHAN_FSM_EVT_CHECK_IO: what the channel tells of its readiness, and *)
(* whether there is a descriptor to poll for the rest.                     *)
CheckIO ==
    CASE state \in {"PLAIN_TCP", "PLAIN_SHUT"}   -> Hint("poll", "poll", fd)
      [] state = "CRYPTO_SSL"   -> Hint(InputHint(io), OutputHint(io), fd)
      [] state = "CRYPTO_RENEG" -> RenegHint
      [] state = "CRYPTO_SHUT"  -> ShutHint
      [] state \in {"PLAIN_FAIL", "CRYPTO_FAIL"} -> Hint("hup", "hup", FALSE)
      [] OTHER                  -> Hint("notReady", "notReady", FALSE)

(* A READ that tried the socket re-arms the watch for what is deferred.    *)
Read(exact) ==
    /\ UserMayCall
    /\ ReadsTheSocket
    /\ \E r \in HandleREAD(io, exact) :
           Stay(op, r.io, IF r.tried THEN ArmDeferred(watch, r.io) ELSE watch)
    /\ UNCHANGED <<sockVars, ready, cb, req, abort>>

(* A WRITE that finds a deferred write or an error returns at once.        *)
Write ==
    /\ UserMayCall
    /\ state = "CRYPTO_SSL"
    /\ io.out = "idle"
    /\ \E y \in HandleWRITE(io) : Stay(op, y, ArmDeferred(watch, y))
    /\ UNCHANGED <<sockVars, ready, cb, req, abort>>

-----------------------------------------------------------------------------
(* Renegotiation (crypto_do_renegotiate) as one step on a record of        *)
(* operation, deferred I/O and watch: each function below is a paragraph   *)
(* of it and yields the set of its outcomes.                               *)

(* crypto_do_SSL_handshake, which re-arms the watch when it must wait      *)
Handshakes == {"done", "failed", "wantRead", "wantWrite"}

(* mutant: the immediate timer of the begin handler is left on             *)
RenegInitNoReset(x) ==
    IF x.op.phase = "init" THEN [x EXCEPT !.op.phase = "flushOut"] ELSE x

RenegInit(x) ==
    IF x.op.phase = "init"
      THEN [x EXCEPT !.op.phase = "flushOut", !.watch = NoWatch]
      ELSE x

(* mutant: the renegotiation does not wait for the deferred write          *)
RenegFlushAtOnce(x) ==
    IF x.op.phase # "flushOut"
      THEN {x}
      ELSE {[x EXCEPT !.op.phase = IF tls.kind = "server" THEN "requestHello" ELSE "handshake",
                      !.op.err = failed] : failed \in BOOLEAN}

(* pslerr is looked at before SSL_renegotiate sets it.                     *)
RenegFlush(x) ==
    IF x.op.phase # "flushOut" \/ Pending(x.io.out)
      THEN {x}
      ELSE {[x EXCEPT !.op.phase = IF x.op.err THEN "done"
                                   ELSE IF tls.kind = "server" THEN "requestHello"
                                   ELSE "handshake",
                      !.op.err = failed, !.op.startErr = failed] : failed \in BOOLEAN}

(* SSL_do_handshake, or SSL_peek, may leave application data it met        *)
(* buffered.                                                               *)
MayBuffer(outcomes) == outcomes \cup {[x EXCEPT !.io.pend = TRUE] : x \in outcomes}

RenegHello(x) ==
    IF x.op.phase # "requestHello"
      THEN {x}
      ELSE MayBuffer({CASE h = "done" /\ x.op.wait ->
                              [x EXCEPT !.op.phase = "handshake", !.watch = Arm(x.watch, {"IN"})]
                        [] h \in Want ->
                              [x EXCEPT !.watch = Arm(x.watch, IOCondition(h))]
                        [] OTHER ->
                              [x EXCEPT !.op.phase = "done", !.op.err = (h = "failed")] :
                      h \in Handshakes})

(* While input is buffered the handshake is suspended until it is read. A  *)
(* server that waits for the client's handshake peeks instead: when it     *)
(* meets input it watches for more, as when it wants to read.              *)
RenegHandshake(x) ==
    IF x.op.phase # "handshake"
      THEN {x}
    ELSE IF InputReady(x.io)
      THEN {[x EXCEPT !.watch = NoWatch]}
      ELSE MayBuffer({CASE h \in Want ->
                              [x EXCEPT !.watch = Arm(x.watch, IOCondition(h))]
                        [] OTHER ->
                              [x EXCEPT !.op.phase = "done", !.op.err = (h = "failed")] :
                      h \in Handshakes})

DoRenegotiate(x) ==
    UNION {UNION {RenegHandshake(z) : z \in RenegHello(y)} : y \in RenegFlush(RenegInit(x))}

(* A READ gets what is buffered and never tries the socket; if it lets     *)
(* the renegotiation finish, the watch is made to fire and report that.    *)
RenegRead(exact) ==
    /\ UserMayCall
    /\ state = "CRYPTO_RENEG"
    /\ InputReady(io)
    /\ ~io.pend => exact
    /\ \E r \in HandleREAD(io, exact) :
         /\ ~r.tried
         /\ \E x \in DoRenegotiate([op |-> op, io |-> r.io, watch |-> watch]) :
                Stay(x.op, x.io, IF x.op.phase = "done"
                                   THEN [x.watch EXCEPT !.timer = TRUE] ELSE x.watch)
    /\ UNCHANGED <<sockVars, ready, cb, req, abort>>

-----------------------------------------------------------------------------
(* The main loop.                                                          *)

(* prepare, poll and check: prepare clears the returned events, and only   *)
(* a descriptor with requested events is polled.                           *)
PollWatch ==
    /\ abort = ""
    /\ state # "FINAL" /\ ~ready /\ cb.ctx = "no"
    /\ \E revents \in SUBSET (watch.events \cup FailConds) :
         /\ watch.events = {} => revents = {}
         /\ watch.timer \/ revents # {}
         /\ watch' = [watch EXCEPT !.revents = revents]
    /\ ready' = TRUE
    /\ UNCHANGED <<state, op, sockVars, tls, io, ctxRefs, initRefs, cb, req, abort>>

(* The watch is dispatched: chan_fsm_fd_watch_cb, one action per state.    *)
Dispatch(s) ==
    /\ abort = ""
    /\ ready /\ cb.ctx = "no"
    /\ state = s
    /\ ready' = FALSE

Assert(name) ==
    /\ abort' = name
    /\ UNCHANGED <<state, op, tls, io, ctxRefs, initRefs, watch, cb, req>>

(* What the socket reports of an attempted connection; for a descriptor    *)
(* the user provided only poll() is asked.                                 *)
ConnectionFailed ==
    IF op.err \/ "OUT" \notin Indicated \/ Indicated \cap {"HUP", "ERR"} # {}
      THEN {TRUE}
      ELSE {~conf.userFd, FALSE}

(* mutant: the TCP connection completes an encrypted connect, too          *)
ConnectAlwaysCompletes(failed) == TRUE

(* A failure or a plain connection completes the request; an encrypted     *)
(* one goes on to the handshake.                                           *)
ConnectCompletes(failed) == failed \/ op.kind = "plain"

FdWatchPlainConn ==
    /\ Dispatch("PLAIN_CONN")
    /\ IF ~op.err /\ Indicated = {}
         THEN Assert("connRecs")
         ELSE /\ \E failed \in ConnectionFailed :
                   /\ IF ConnectCompletes(failed) THEN Complete(op.cb, failed)
                                                 ELSE UNCHANGED <<cb, req>>
                   /\ IF failed
                        THEN Goto("PLAIN_FAIL", NoOp, io, tls, ctxRefs)
                      ELSE IF op.kind = "plain"
                        THEN Goto("PLAIN_TCP", NoOp, io, tls, ctxRefs)
                        ELSE Goto("CRYPTO_CONN", ConnectOp(op.kind, op.cb), io, tls, ctxRefs)
              /\ UNCHANGED abort
    /\ UNCHANGED sockVars

(* mutant: the context is kept but no SSL object                           *)
SslNotCreated == [tls EXCEPT !.sslCtx = TRUE, !.kind = op.kind]

(* crypto_create_and_config_ssl has succeeded                              *)
SslCreated == [tls EXCEPT !.ssl = TRUE, !.sslCtx = TRUE, !.kind = op.kind]

(* The first dispatch configures an SSL object, which takes a reference on *)
(* the context unless it fails; then the handshake is attempted.           *)
FdWatchCryptoConn ==
    LET begun == op.phase = "init"
        w     == IF begun THEN NoWatch ELSE watch
        t     == IF begun THEN SslCreated ELSE tls
        r     == IF begun THEN ctxRefs + 1 ELSE ctxRefs
    IN  /\ Dispatch("CRYPTO_CONN")
        /\ \/ /\ begun
              /\ Complete(op.cb, TRUE)
              /\ Goto("CRYPTO_FAIL", NoOp, io, [tls EXCEPT !.kind = op.kind], ctxRefs)
           \/ /\ Complete(op.cb, TRUE)
              /\ Goto("CRYPTO_FAIL", NoOp, io, t, r)
           \/ /\ Complete(op.cb, FALSE)
              /\ Goto("CRYPTO_SSL", NoOp, io, t, r)
           \/ /\ \E h \in Want : watch' = Arm(w, IOCondition(h))
              /\ op' = [op EXCEPT !.phase = "handshake"]
              /\ tls' = t
              /\ ctxRefs' = r
              /\ UNCHANGED <<state, io, initRefs, cb, req>>
        /\ UNCHANGED <<sockVars, abort>>

FdWatchReneg ==
    /\ Dispatch("CRYPTO_RENEG")
    /\ \E x \in IF Indicated # {} /\ op.phase = "flushOut"
                  THEN {[op |-> op, io |-> y, watch |-> ArmDeferred(watch, y)] :
                            y \in ProcessDeferred(io, "none", Indicated)}
                  ELSE {[op |-> op, io |-> io, watch |-> watch]} :
       \E z \in DoRenegotiate(x) :
         IF z.op.phase = "done"
           THEN /\ Complete(op.cb, z.op.err)
                /\ Goto(IF z.op.err THEN "CRYPTO_FAIL" ELSE "CRYPTO_SSL",
                        NoOp, z.io, tls, ctxRefs)
           ELSE /\ Stay(z.op, z.io, z.watch)
                /\ UNCHANGED <<cb, req>>
    /\ UNCHANGED <<sockVars, abort>>

FdWatchSsl ==
    /\ Dispatch("CRYPTO_SSL")
    /\ IF Indicated = {}
         THEN Assert("sslRecs")
         ELSE /\ \E y \in ProcessDeferred(io, "none", Indicated) : Stay(op, y, ArmDeferred(watch, y))
              /\ UNCHANGED <<cb, req, abort>>
    /\ UNCHANGED sockVars

(* crypto_do_shutdown and what its caller makes of the answer, at phase    *)
(* shut1 or shut2 with deferred I/O y and watch w.  A two-way shutdown     *)
(* that has sent its alert goes on to shut2 to wait for the peer's.        *)
Shutdown(phase, y, w) ==
    \/ /\ Complete(op.cb, TRUE)
       /\ Goto("CRYPTO_FAIL", NoOp, y, tls, ctxRefs)
    \/ /\ y.out # "error"
       /\ Complete(op.cb, FALSE)
       /\ IF op.cb = "switch"
            THEN Goto("PLAIN_TCP", NoOp, y, tls, ctxRefs)
            ELSE \E z \in IF op.how = "oneWay" THEN ProcessDeferred(y, "none", {}) ELSE {y} :
                    Stay([op EXCEPT !.phase = "success"], z,
                         IF op.how = "oneWay" THEN ArmDeferred(NoWatch, z) ELSE NoWatch)
    \/ /\ y.out # "error"
       /\ \E h \in Want, p \in {phase} \cup (IF op.how = "twoWay" THEN {"shut2"} ELSE {}) :
             Stay([op EXCEPT !.phase = p], y, Arm(w, IOCondition(h)))
       /\ UNCHANGED <<cb, req>>

FdWatchShut ==
    /\ Dispatch("CRYPTO_SHUT")
    /\ IF op.phase = "success"
         THEN IF op.how # "oneWay"
                THEN Assert("shutSuccess")
                ELSE /\ \E y \in ProcessDeferred(io, "none", Indicated) :
                            Stay(op, y, ArmDeferred(watch, y))
                     /\ UNCHANGED <<cb, req, abort>>
       ELSE IF op.phase \in {"init", "flushOut"}
         THEN /\ \E y \in ProcessDeferred(io, "none", Indicated) :
                   IF Pending(y.out)
                     THEN /\ Stay([op EXCEPT !.phase = "flushOut"], y,
                                  ArmDeferred(IF op.phase = "init" THEN NoWatch ELSE watch, y))
                          /\ UNCHANGED <<cb, req>>
                     ELSE Shutdown("shut1", y, NoWatch)
              /\ UNCHANGED abort
       ELSE Shutdown(op.phase, io, watch) /\ UNCHANGED abort
    /\ UNCHANGED sockVars

(* A state without a handler for FD_WATCH only sets lastError.             *)
FdWatchIgnored ==
    /\ \E s \in States \ {"PLAIN_CONN", "CRYPTO_CONN", "CRYPTO_RENEG", "CRYPTO_SSL", "CRYPTO_SHUT"} :
           Dispatch(s)
    /\ UNCHANGED <<state, op, sockVars, tls, io, ctxRefs, initRefs, watch, cb, req, abort>>

FdWatch ==
    FdWatchPlainConn \/ FdWatchCryptoConn \/ FdWatchReneg \/ FdWatchSsl \/ FdWatchShut
        \/ FdWatchIgnored

(* plain_host_lookup_cb: a lookup may fail, find an address, or succeed    *)
(* with an answer that holds no usable one.                                *)
LookupDone(result) ==
    /\ abort = ""
    /\ state = "LOOKUP"
    /\ CASE result = "error" ->
              /\ Goto("PLAIN_FAIL", NoOp, io, tls, ctxRefs)
              /\ IF op.cb = "none"
                   THEN UNCHANGED <<cb, req>>
                   ELSE cb' = [ctx |-> "lookup", err |-> TRUE] /\ req' = "none"
              /\ UNCHANGED <<fd, desc>>
         [] result = "unusable" ->
              /\ Goto("PLAIN_FAIL", NoOp, io, tls, ctxRefs)
              /\ UNCHANGED <<cb, req, fd, desc>>
         [] result = "address" ->
              /\ GotoPlainConn(op)
              /\ UNCHANGED <<cb, req>>
    /\ UNCHANGED <<conf, closed, ready, abort>>

(* The completion callback returns to the library.                         *)
CbReturn ==
    /\ cb.ctx # "no"
    /\ cb' = [ctx |-> "no", err |-> FALSE]
    /\ UNCHANGED <<state, op, sockVars, tls, io, ctxRefs, initRefs, watch, ready, req, abort>>

(* The channel is gone, or the process.                                    *)
Terminated ==
    /\ cb.ctx = "no"
    /\ state = "FINAL" \/ abort # ""
    /\ UNCHANGED vars

Init ==
    /\ state = "INIT"
    /\ op = NoOp
    /\ conf = [server |-> FALSE, bind |-> FALSE, userFd |-> FALSE, keepFd |-> FALSE]
    /\ fd = FALSE /\ desc = "none" /\ closed = FALSE
    /\ tls = NoTls /\ io = NoIO
    /\ ctxRefs = 0 /\ initRefs = 0
    /\ watch = NoWatch /\ ready = FALSE
    /\ cb = [ctx |-> "no", err |-> FALSE]
    /\ req = "none"
    /\ abort = ""

User ==
    \/ SetConnFd \/ SetServer \/ SetSockBind
    \/ \E kind \in Kinds, c \in Cbs : Connect(kind, c)
    \/ ShutSock \/ Close \/ Finalize
    \/ \E wait \in BOOLEAN, c \in Cbs : Renegotiate(wait, c)
    \/ \E how \in {"oneWay", "twoWay"}, c \in Cbs : ShutCrypto(how, c)
    \/ ResumePlain \/ Write
    \/ \E exact \in BOOLEAN : Read(exact) \/ RenegRead(exact)

Loop ==
    \/ PollWatch \/ FdWatch
    \/ \E result \in {"address", "error", "unusable"} : LookupDone(result)
    \/ CbReturn

Next == User \/ Loop \/ Terminated

Spec == Init /\ [][Next]_vars
=============================================================================
