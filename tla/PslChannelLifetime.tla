-------------------------- MODULE PslChannelLifetime --------------------------
(***************************************************************************)
(* Who keeps a channel alive: the GIOChannel references of its user, the   *)
(* header references of its watches, the references to the state machine   *)
(* its own callbacks take, the state machine's own GSource and the thread  *)
(* context (src/src/psl_channel.c, psl_channel_fsm_main.c,                 *)
(* psl_channel_watch.c, psl_thread_context.c).                             *)
(*                                                                         *)
(* Of the state machine only its life is modelled here, started, closed    *)
(* and finalized; its answers to CHECK_IO are any it may give.  GLib is    *)
(* external: it holds the lock of its context, which is not recursive,     *)
(* while it finalizes a source.  The user calls from any callback.  What   *)
(* must not happen is remembered in fault.                                 *)
(***************************************************************************)
EXTENDS PslChannelWatch

CONSTANTS
    Watches,        \* the watches of the user
    Conditions      \* the sets of conditions the user monitors

(* A watch is not one of the other names running.who and ready have.       *)
ASSUME WatchesAssumption ==
    IsFiniteSet(Watches) /\ Watches \cap {"nobody", "fd", "lookup"} = {}

ASSUME ConditionsAssumption == Conditions \subseteq SUBSET {"IN", "OUT"}

VARIABLES
    chan,       \* PmSockIOChannel: held by the user, header references
    fsm,        \* PslChanFsm
    fdWatch,    \* the state machine's multi-fd watch, a GSource
    ctx,        \* PmSockThreadContext: its references, one the user's or not
    watches,    \* PmSockWatch of each of Watches
    io,         \* the answer to CHECK_IO that the callback being run is due to
    ready,      \* the sources the main loop found ready and has still to dispatch
    running,    \* the callback to the user being run, and what a watch tells
    fault       \* monitor: what went wrong, "" if nothing

vars == <<chan, fsm, fdWatch, ctx, watches, io, ready, running, fault>>

Answers ==
    {[readable |-> "notReady", writeable |-> "notReady", fd |-> FALSE],
     [readable |-> "hup",      writeable |-> "hup",      fd |-> FALSE],
     [readable |-> "poll",     writeable |-> "poll",     fd |-> TRUE],
     [readable |-> "ready",    writeable |-> "notReady", fd |-> TRUE],
     [readable |-> "readyhup", writeable |-> "hup",      fd |-> FALSE]}

NoAnswer == [readable |-> "notReady", writeable |-> "notReady", fd |-> FALSE]

NoFsm  == [mem |-> FALSE, refCount |-> 0, fsmClosed |-> FALSE, fsmFinalized |-> FALSE]
NoCall == [who |-> "nobody", cond |-> {}]

(* What fault may say.                                                     *)
Faults ==
    {"", "context after free", "context unreferenced twice", "deadlock in the context's lock",
     "freed, not finalized", "machine after free", "machine unreferenced after free",
     "machine written after free", "channel after free", "channel unreferenced after free",
     "closed after free", "watch after free", "channel read after free"}

TypeOK ==
    /\ chan \in [mem : BOOLEAN, user : BOOLEAN, headerRef : 0 .. Cardinality(Watches) + 1]
    /\ fsm \in [mem : BOOLEAN, refCount : 0 .. 3, fsmClosed : BOOLEAN, fsmFinalized : BOOLEAN]
    /\ fdWatch \in [refs : 0 .. 3, attached : BOOLEAN]
    /\ ctx \in [refs : 0 .. 2, user : BOOLEAN]
    /\ watches \in [Watches -> ChannelWatches]
    /\ io \in Answers
    /\ ready \subseteq Watches \cup {"fd", "lookup"}
    /\ running \in [who : Watches \cup {"nobody", "fd", "lookup"}, cond : SUBSET GIOCondition]
    /\ fault \in Faults

World == [chan |-> chan, fsm |-> fsm, fd |-> fdWatch, ctx |-> ctx, watches |-> watches,
          fault |-> fault]

Becomes(x) ==
    /\ chan' = x.chan /\ fsm' = x.fsm /\ fdWatch' = x.fd /\ ctx' = x.ctx
    /\ watches' = x.watches /\ fault' = x.fault

FaultIf(c, x, what) == IF c /\ x.fault = "" THEN [x EXCEPT !.fault = what] ELSE x

-----------------------------------------------------------------------------
(* References.  locked says that GLib holds the lock of the context.       *)

CtxRef(x) == [FaultIf(x.ctx.refs = 0, x, "context after free") EXCEPT !.ctx.refs = @ + 1]

CtxUnref(x) ==
    IF x.ctx.refs = 0 THEN FaultIf(TRUE, x, "context unreferenced twice")
    ELSE [x EXCEPT !.ctx.refs = @ - 1]

(* chan_fsm_destroy_widgets: both calls it makes to GLib take the lock.    *)
DestroyWidgets(x, locked) ==
    LET y == FaultIf(locked /\ x.fd.refs > 0, x, "deadlock in the context's lock")
        detached == IF y.fd.attached THEN [attached |-> FALSE, refs |-> y.fd.refs - 1]
                    ELSE y.fd
    IN CtxUnref([y EXCEPT !.fd = [detached EXCEPT !.refs = @ - 1]])

(* mutant: the widgets live as long as the memory                          *)
FsmFreeWithWidgets(x, locked) ==
    [DestroyWidgets(x, locked) EXCEPT !.fsm = NoFsm]

FsmFree(x, locked) ==
    [FaultIf(~x.fsm.fsmFinalized, x, "freed, not finalized") EXCEPT !.fsm = NoFsm]

FsmRef(x) == [FaultIf(~x.fsm.mem, x, "machine after free") EXCEPT !.fsm.refCount = @ + 1]

FsmUnref(x, locked) ==
    LET y == FaultIf(~x.fsm.mem, x, "machine unreferenced after free")
    IN IF y.fsm.refCount <= 1 THEN FsmFree(y, locked)
       ELSE [y EXCEPT !.fsm.refCount = @ - 1]

HeaderRef(x) ==
    [FaultIf(~x.chan.mem, x, "channel after free") EXCEPT !.chan.headerRef = @ + 1]

HeaderUnref(x, locked) ==
    LET y == FaultIf(~x.chan.mem, x, "channel unreferenced after free")
    IN IF y.chan.headerRef <= 1
         THEN [FsmUnref(y, locked) EXCEPT !.chan.mem = FALSE, !.chan.headerRef = 0]
         ELSE [y EXCEPT !.chan.headerRef = @ - 1]

(* psl_chan_fsm_evt_dispatch_CLOSE, which resets the fd watch              *)
CloseFsm(x) ==
    [FaultIf(~x.fsm.mem \/ x.fd.refs = 0, x, "closed after free") EXCEPT !.fsm.fsmClosed = TRUE]

(* psl_chan_fsm_finalize: CLOSE unless closed, then FINALIZE.              *)
Finalize(x) ==
    LET y == IF x.fsm.fsmClosed THEN x ELSE CloseFsm(x)
    IN [DestroyWidgets(y, FALSE) EXCEPT !.fsm.fsmFinalized = TRUE]

(* The last g_io_channel_unref: palmsock_io_close, then palmsock_io_free.  *)

(* mutant: the machine is finalized when the header goes                   *)
IoFreeLate(x) == HeaderUnref(x, FALSE)

IoFree(x) == HeaderUnref(Finalize(x), FALSE)

-----------------------------------------------------------------------------
(* GLib: the last reference to a watch finalizes it, with the lock held.   *)

WatchFinalized(x, w) == HeaderUnref([x EXCEPT !.watches[w] = NoChannelWatch], TRUE)

SourceUnref(x, w) ==
    IF x.watches[w].refs <= 1
      THEN WatchFinalized(FaultIf(x.watches[w].refs = 0, x, "watch after free"), w)
      ELSE [x EXCEPT !.watches[w].refs = @ - 1]

(* g_source_destroy; nothing reads the rest of the watch again.            *)
SourceDestroy(x, w) ==
    IF x.watches[w].attached
      THEN SourceUnref([x EXCEPT !.watches[w] =
                           [NoChannelWatch EXCEPT !.refs = x.watches[w].refs]], w)
      ELSE x

-----------------------------------------------------------------------------
(* The user.                                                               *)

OfUser == UNCHANGED <<io, ready, running>>

(* PmSockCreateChannel with a context of the user's or with none: then it  *)
(* makes one, and gives up its reference once the machine has its own.     *)
CreateChannel ==
    LET given == [refs |-> IF ctx.user THEN ctx.refs + 1 ELSE 1, user |-> ctx.user]
        made  == [World EXCEPT
                    !.chan = [mem |-> TRUE, user |-> TRUE, headerRef |-> 1],
                    !.fsm  = [NoFsm EXCEPT !.mem = TRUE, !.refCount = 1],
                    !.fd   = [refs |-> 2, attached |-> TRUE],
                    !.ctx  = given]
    IN /\ ~chan.mem /\ ~fsm.mem /\ fdWatch.refs = 0
       /\ Becomes(CtxUnref(CtxRef(made)))
       /\ OfUser

(* The last g_io_channel_unref.                                            *)
UserDropsChannel ==
    /\ chan.user
    /\ Becomes(IoFree([World EXCEPT !.chan.user = FALSE]))
    /\ OfUser

(* g_io_channel_close: palmsock_io_close *)
UserCloses ==
    /\ chan.user /\ ~fsm.fsmClosed
    /\ Becomes(CloseFsm(World))
    /\ OfUser

UserUnrefsContext ==
    /\ ctx.user
    /\ Becomes([CtxUnref(World) EXCEPT !.ctx.user = FALSE])
    /\ OfUser

(* palmsock_io_create_watch, g_source_attach                               *)
UserWatches(w, conds) ==
    /\ chan.user /\ watches[w].refs = 0 /\ w \notin ready
    /\ Becomes([HeaderRef(World) EXCEPT
                  !.watches[w] = [NewChannelWatch(conds) EXCEPT !.refs = @ + 1,
                                                                !.attached = TRUE]])
    /\ OfUser

(* The references to a source: the user's, its context's, GLib's while it  *)
(* dispatches it.                                                          *)
UserHolds(w) ==
    watches[w].refs > (IF watches[w].attached THEN 1 ELSE 0) + (IF running.who = w THEN 1 ELSE 0)

UserUpdatesWatch(w, conds) ==
    /\ UserHolds(w) /\ watches[w].conditions # conds
    /\ watches' = [watches EXCEPT ![w] = UpdateConditions(@, conds)]
    /\ OfUser /\ UNCHANGED <<chan, fsm, fdWatch, ctx, fault>>

UserDestroysWatch(w) ==
    /\ UserHolds(w) /\ watches[w].attached
    /\ Becomes(SourceDestroy(World, w))
    /\ OfUser

UserUnrefsWatch(w) ==
    /\ UserHolds(w)
    /\ Becomes(SourceUnref(World, w))
    /\ OfUser

-----------------------------------------------------------------------------
(* The callbacks of the state machine.                                     *)

LeavesReady(source) == ready' = ready \ {source}

(* chan_fsm_fd_watch_cb, which completes a request or not; it and          *)
(* psl_chan_fsm_dispatch_completion_cb each take a reference.              *)
Completes(x) == FsmRef(FsmRef(x))

DispatchFdWatch(completes) ==
    /\ running = NoCall
    /\ "fd" \in ready /\ fdWatch.attached
    /\ LeavesReady("fd")
    /\ completes => ~fsm.fsmClosed
    /\ IF completes
         THEN /\ Becomes([Completes(World) EXCEPT !.fd.refs = @ + 1])
              /\ running' = [who |-> "fd", cond |-> {}]
         ELSE /\ Becomes(FaultIf(~fsm.mem, World, "machine after free"))
              /\ UNCHANGED running
    /\ UNCHANGED io

(* After the callback the machine is written to before its last unref.     *)

(* mutant: only one of the two references is given back                    *)
FdWatchCbKeepsRef ==
    /\ running.who = "fd"
    /\ Becomes([FsmUnref(World, FALSE) EXCEPT !.fd.refs = @ - 1])
    /\ running' = NoCall
    /\ UNCHANGED <<io, ready>>

FdWatchCbReturns ==
    LET once == FsmUnref(World, FALSE)
        both == FsmUnref(FaultIf(~once.fsm.mem, once, "machine written after free"), FALSE)
    IN /\ running.who = "fd"
       /\ Becomes([both EXCEPT !.fd.refs = @ - 1])
       /\ running' = NoCall
       /\ UNCHANGED <<io, ready>>

(* plain_host_lookup_cb reporting a failed lookup, from a source of its    *)
(* own.                                                                    *)
LookupFails ==
    /\ running = NoCall
    /\ "lookup" \in ready /\ fsm.mem /\ ~fsm.fsmClosed
    /\ LeavesReady("lookup")
    /\ Becomes(FsmRef(World))
    /\ running' = [who |-> "lookup", cond |-> {}]
    /\ UNCHANGED io

LookupCbReturns ==
    /\ running.who = "lookup"
    /\ Becomes(FsmUnref(World, FALSE))
    /\ running' = NoCall
    /\ UNCHANGED <<io, ready>>

-----------------------------------------------------------------------------
(* The watches in the main loop.                                           *)

(* The preflight of a watch reads the header and the machine.              *)
Reads(x) ==
    FaultIf(~x.chan.mem \/ ~x.fsm.mem, x, "channel read after free")

Result(w, answer) == Preflight(fsm.fsmClosed, answer, watches[w].conditions)

Attached == {w \in Watches : watches[w].attached}

(* One turn of the loop up to its dispatches; no callback runs meanwhile.  *)
(* A source is ready if prepare says so, or check after poll() returned,   *)
(* which reports the same of the descriptor to all who poll it.            *)
PrepareAndCheck ==
    LET over == {w \in Watches : ~watches[w].attached}
                \cup (IF fdWatch.attached THEN {} ELSE {"fd"})
                \cup (IF fsm.fsmClosed \/ ~fsm.mem THEN {"lookup"} ELSE {})
    IN /\ running = NoCall /\ ready \subseteq over
       /\ \E answer \in Answers, found \in {{}, {"IN", "OUT", "HUP"}},
             own \in SUBSET {"fd", "lookup"} :
            LET polled == [w \in Watches |->
                    IF w \in Attached THEN PrepareAndPoll(watches[w], Result(w, answer), found)
                    ELSE watches[w]]
            IN /\ own # {} => fdWatch.attached /\ ~fsm.fsmClosed
               /\ Becomes([(IF Attached = {} THEN World ELSE Reads(World)) EXCEPT !.watches = polled])
               /\ ready' = own \cup {w \in Attached : WhatIsReady(polled[w], Result(w, answer)) # {}}
    /\ UNCHANGED <<io, running>>

(* chan_watch_dispatch looks again at what is ready; by now the answer may *)
(* be another.                                                             *)
DispatchWatch(w, answer) ==
    LET told == WhatIsReady(watches[w], Result(w, answer))
    IN /\ running = NoCall /\ w \in ready /\ watches[w].attached
       /\ LeavesReady(w)
       /\ IF told = {}
            THEN Becomes(Reads(World)) /\ UNCHANGED <<running, io>>
            ELSE /\ Becomes([Reads(World) EXCEPT !.watches[w].refs = @ + 1])
                 /\ running' = [who |-> w, cond |-> told]
                 /\ io' = answer

(* The user has set no callback: the watch is destroyed.                   *)
DispatchWithoutCallback(w) ==
    /\ running = NoCall /\ w \in ready /\ watches[w].attached
    /\ LeavesReady(w)
    /\ Becomes(SourceDestroy(World, w))
    /\ UNCHANGED <<running, io>>

WatchCbReturns(w, stayAttached) ==
    LET left == IF stayAttached THEN World ELSE SourceDestroy(World, w)
    IN /\ running.who = w
       /\ Becomes(SourceUnref(left, w))
       /\ running' = NoCall /\ io' = NoAnswer
       /\ UNCHANGED ready

-----------------------------------------------------------------------------
Init ==
    /\ chan = [mem |-> FALSE, user |-> FALSE, headerRef |-> 0]
    /\ fsm = NoFsm
    /\ fdWatch = [refs |-> 0, attached |-> FALSE]
    /\ \E user \in BOOLEAN : ctx = [refs |-> IF user THEN 1 ELSE 0, user |-> user]
    /\ watches = [w \in Watches |-> NoChannelWatch]
    /\ io = NoAnswer
    /\ ready = {}
    /\ running = NoCall
    /\ fault = ""

Next ==
    \/ CreateChannel
    \/ UserDropsChannel
    \/ UserCloses
    \/ UserUnrefsContext
    \/ \E w \in Watches, conds \in Conditions : UserWatches(w, conds)
    \/ \E w \in Watches, conds \in Conditions : UserUpdatesWatch(w, conds)
    \/ \E w \in Watches : UserDestroysWatch(w)
    \/ \E w \in Watches : UserUnrefsWatch(w)
    \/ \E completes \in BOOLEAN : DispatchFdWatch(completes)
    \/ FdWatchCbReturns
    \/ LookupFails
    \/ LookupCbReturns
    \/ PrepareAndCheck
    \/ \E w \in Watches, answer \in Answers : DispatchWatch(w, answer)
    \/ \E w \in Watches : DispatchWithoutCallback(w)
    \/ \E w \in Watches, stayAttached \in BOOLEAN : WatchCbReturns(w, stayAttached)

(* The loop runs and callbacks return.                                     *)
Fairness ==
    /\ WF_vars(PrepareAndCheck)
    /\ WF_vars(\E completes \in BOOLEAN : DispatchFdWatch(completes))
    /\ WF_vars(FdWatchCbReturns)
    /\ WF_vars(LookupFails)
    /\ WF_vars(LookupCbReturns)
    /\ \A w \in Watches :
         /\ WF_vars(\E answer \in Answers : DispatchWatch(w, answer))
         /\ WF_vars(\E stayAttached \in BOOLEAN : WatchCbReturns(w, stayAttached))

Spec == Init /\ [][Next]_vars /\ Fairness

-----------------------------------------------------------------------------
(* Properties.                                                             *)

(* Nothing freed is used or freed again, the machine is finalized before   *)
(* it is freed, and no source is destroyed while GLib holds the lock,      *)
(* whoever drops the last reference and from which callback                *)
(* (psl_channel.c:74-114, psl_channel_fsm_main.c:269-281, 446-472, 695).   *)
NothingUsedAfterFree == fault = ""

(* Each piece lives exactly as long as somebody needs it: the header as    *)
(* long as the user or a watch, the machine as long as the header or a     *)
(* callback of it, its fd watch and its use of the context until the user  *)
(* lets go of the channel.                                                 *)
LivesAsLongAsUsed ==
    /\ chan.mem <=> chan.user \/ \E w \in Watches : watches[w].refs > 0
    /\ fsm.mem  <=> chan.mem \/ running.who \in {"fd", "lookup"}
    /\ fdWatch.refs > 0 <=> chan.user \/ running.who = "fd"
    /\ ctx.refs > 0 <=> chan.user \/ ctx.user

(* A watch tells its user what it was asked for, or a failure: IN and OUT  *)
(* only if the channel is ready or leaves it to poll(), which has reported *)
(* it; nothing but NVAL of a closed channel, though the channel changes    *)
(* between check and dispatch (psl_channel_watch.c:335-340).               *)
TellsWhatIsReady ==
    [][\A w \in Watches : running.who # w /\ running'.who = w =>
         LET cond == running'.cond
         IN /\ cond # {} /\ cond \subseteq watches[w].conditions \cup Failures
            /\ fsm.fsmClosed => cond = {"NVAL"}
            /\ \A dir \in cond \ Failures :
                 LET hint == IF dir = "IN" THEN io'.readable ELSE io'.writeable
                 IN \/ hint \in {"ready", "readyhup"}
                    \/ hint # "notReady" /\ io'.fd /\ dir \in watches[w].revents]_vars

(* Once the channel is closed, or gone, a watch that is attached and asks  *)
(* for anything tells NVAL (palmsocket.h:1577-1580).                       *)
ClosedIsTold ==
    \A w \in Watches :
        fsm.fsmClosed /\ watches[w].attached /\ watches[w].conditions # {}
          ~> \/ running = [who |-> w, cond |-> {"NVAL"}]
             \/ ~watches[w].attached
             \/ watches[w].conditions = {}

=============================================================================
