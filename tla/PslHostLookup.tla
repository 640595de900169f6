---------------------------- MODULE PslHostLookup ----------------------------
(***************************************************************************)
(* A host lookup session (src/src/psl_host_lookup.c) with its multi-fd     *)
(* watch, the idle source that starts it, c-ares, which is external and    *)
(* calls the session back from inside every call the session makes, the    *)
(* main loop, and a user who may destroy the session at any time, from     *)
(* inside the callback too.                                                *)
(*                                                                         *)
(* The functions of the code are operators on x, the record of everything  *)
(* they reach; where c-ares or the user decides they give the set of       *)
(* outcomes.  What may not happen (a failing PSL_ASSERT, the use of what   *)
(* was freed) is remembered in fault.                                      *)
(***************************************************************************)
EXTENDS PslMultiFdWatch

CONSTANTS
    AresTimeout,    \* ticks c-ares waits for an answer
    AresTries,      \* times it asks again
    MaxIndicated    \* bound on the conditions poll() reports of a descriptor

ASSUME AresAssumption == AresTimeout \in Nat \ {0} /\ AresTries \in Nat

VARIABLES
    ses,        \* PmSockHostLookupSession
    watch,      \* its PslMultiFdWatchSource
    starter,    \* the idle source: attached, and references to it
    ares,       \* the c-ares channel
    loop,       \* the main loop: phase, sources found ready, poll timeout
    told,       \* monitor: times the user's callback ran
    asked,      \* monitor: the user has destroyed the session
    fault       \* monitor: what went wrong, "" if nothing

vars == <<ses, watch, starter, ares, loop, told, asked, fault>>

LookupStates == {"none", "initializing", "initialized", "running", "finished", "destroying"}

(* c-ares reads from all its sockets and writes to those that connect.     *)
AresRequests == {{"IN"}, {"IN", "OUT"}}
Sockets      == UNION {[S -> AresRequests] : S \in SUBSET Fds}

(* c-ares: the query, its open sockets with what they wait for, the times  *)
(* it may ask again and the ticks left until it wants to.                  *)
NoAres == [query |-> "none", socks |-> NoDescriptors, tries |-> 0, due |-> 0]

NoSession == [mem |-> FALSE, lookupState |-> "none", chan |-> FALSE, watch |-> FALSE,
              queryStarter |-> FALSE, inCb |-> 0, needDestroy |-> FALSE,
              aresHostCbWasCalled |-> FALSE]

NoStarter == [attached |-> FALSE, refs |-> 0]

TypeOK ==
    /\ ses \in [mem : BOOLEAN, lookupState : LookupStates, chan : BOOLEAN,
                watch : BOOLEAN, queryStarter : BOOLEAN, inCb : Nat,
                needDestroy : BOOLEAN, aresHostCbWasCalled : BOOLEAN]
    /\ watch \in Watches
    /\ starter \in [attached : BOOLEAN, refs : 0 .. 2]
    /\ ares \in [query : {"none", "pending", "done"}, socks : Sockets,
                 tries : 0 .. AresTries, due : 0 .. AresTimeout]
    /\ loop \in [phase : {"poll", "dispatch"}, ready : SUBSET {"watch", "starter"},
                 sleep : {INFINITE_MSEC} \cup Nat]
    /\ told \in Nat
    /\ asked \in BOOLEAN

World == [ses |-> ses, w |-> watch, starter |-> starter, ares |-> ares,
          told |-> told, asked |-> asked, fault |-> fault]

Becomes(x) ==
    /\ ses' = x.ses /\ watch' = x.w /\ starter' = x.starter /\ ares' = x.ares
    /\ told' = x.told /\ asked' = x.asked /\ fault' = x.fault

Fault(x, what)    == [x EXCEPT !.fault = IF @ = "" THEN what ELSE @]
FaultIf(c, x, what) == IF c THEN Fault(x, what) ELSE x

-----------------------------------------------------------------------------
(* g_source_unref and g_source_destroy on the idle source.                 *)

UnrefStarter(x) ==
    IF x.starter.refs = 0 THEN Fault(x, "starter unreferenced twice")
    ELSE [x EXCEPT !.starter.refs = @ - 1]

DestroyStarter(x) ==
    LET y == FaultIf(x.starter.refs = 0, x, "starter used after free")
    IN IF y.starter.attached
         THEN UnrefStarter([y EXCEPT !.starter.attached = FALSE]) ELSE y

-----------------------------------------------------------------------------
(* psl_ares_sock_state_cb                                                  *)
SockState(x, f, conds) ==
    LET y == FaultIf(~x.ses.mem \/ ~x.ses.watch, x, "socket callback after free")
    IN [y EXCEPT !.w = IF conds # {} THEN AddOrUpdateFd(@, f, conds) ELSE RemoveFd(@, f)]

(* c-ares opens, updates or closes one of its sockets, and tells.          *)
Sock(x, f, conds) ==
    LET others == DOMAIN x.ares.socks \ {f}
        socks  == [g \in others \cup IF conds = {} THEN {} ELSE {f} |->
                       IF g = f THEN conds ELSE x.ares.socks[g]]
    IN SockState([x EXCEPT !.ares.socks = socks], f, conds)

(* It closes them all, and tells of each.                                  *)
CloseSocks(x) ==
    LET socks == DOMAIN x.ares.socks
        y == FaultIf(socks # {} /\ (~x.ses.mem \/ ~x.ses.watch), x, "socket callback after free")
    IN [y EXCEPT !.ares.socks = NoDescriptors, !.w = RemoveFds(@, socks)]

-----------------------------------------------------------------------------
(* Destruction, and the host callback it may meet half way.                *)

CallbackAllowed(x) == x.ses.lookupState = "running" /\ ~x.ses.needDestroy

(* mutant: destruction does not suppress callbacks                         *)
CallbackAlwaysAllowed(x) == TRUE

(* The part of psl_ares_host_callback before the user is called.           *)
TakeAnswer(x) ==
    LET called == [x.ses EXCEPT !.aresHostCbWasCalled = TRUE]
        inside == [called EXCEPT !.inCb = @ + 1, !.lookupState = "finished"]
        over   == [x.ares EXCEPT !.query = "done"]
    IN IF CallbackAllowed(x)
         THEN [x EXCEPT !.ses = inside, !.ares = over, !.told = @ + 1]
         ELSE [x EXCEPT !.ses = called, !.ares = over]

HostCallback(x) ==
    LET y == FaultIf(~x.ses.mem, x, "host callback after free")
    IN TakeAnswer(FaultIf(y.ses.aresHostCbWasCalled, y, "host callback called twice"))

(* ares_destroy calls back for what is pending, then closes its sockets.   *)
AresDestroy(x) ==
    LET y == IF x.ares.query = "pending" THEN HostCallback(x) ELSE x
    IN [CloseSocks(y) EXCEPT !.ares = NoAres]

FreeWatch(x) ==
    IF x.ses.watch
      THEN [x EXCEPT !.w = [ResetWatch(@) EXCEPT !.attached = FALSE], !.ses.watch = FALSE]
      ELSE x

FreeAresAndMultiFdWatch(x) ==
    FreeWatch(IF x.ses.chan THEN [AresDestroy(x) EXCEPT !.ses.chan = FALSE] ELSE x)

DestroyInternal(x) ==
    LET y == FreeAresAndMultiFdWatch([x EXCEPT !.ses.lookupState = "destroying"])
        z == IF y.ses.queryStarter THEN UnrefStarter(DestroyStarter(y)) ELSE y
    IN [z EXCEPT !.ses = NoSession]

(* mutant: the session is destroyed under the callback                     *)
DestroyAtOnce(x) ==
    DestroyInternal(FaultIf(~x.ses.mem, x, "session destroyed after free"))

(* PmSockHostLookupDestroy                                                 *)
Destroy(x) ==
    LET y == FaultIf(~x.ses.mem, x, "session destroyed after free")
    IN IF y.ses.inCb > 0 THEN [y EXCEPT !.ses.needDestroy = TRUE] ELSE DestroyInternal(y)

UserDestroys(x) == Destroy([x EXCEPT !.asked = TRUE])

(* The rest of psl_ares_host_callback: the user's callback, and its return.*)
Answered(x) ==
    LET inside == HostCallback(x)
        after(y) == [y EXCEPT !.ses.inCb = IF @ > 0 THEN @ - 1 ELSE 0]
    IN IF inside.told = x.told THEN {inside}
       ELSE {after(inside), after(UserDestroys(inside))}

-----------------------------------------------------------------------------
(* The calls into c-ares.                                                  *)

(* The query ends; c-ares closes its sockets before or after it tells, or  *)
(* keeps them until it is destroyed.                                       *)
AresCompletes(x) ==
    Answered(x) \cup Answered(CloseSocks(x)) \cup {CloseSocks(y) : y \in Answered(x)}

(* It is sent, and will be sent again unless it is answered in time.       *)
Sent(x, tries) ==
    [x EXCEPT !.ares = [@ EXCEPT !.query = "pending", !.tries = tries, !.due = AresTimeout]]

(* The query waits on one more socket, or on one in place of another.      *)
AresWaits(x, tries) ==
    LET from == {x} \cup {Sock(x, f, {}) : f \in DOMAIN x.ares.socks}
    IN {Sent(Sock(y, f, conds), tries) : y \in from, f \in Fds, conds \in AresRequests}

AresGethostbyname(x) == AresCompletes(x) \cup AresWaits(x, AresTries)

(* ares_process_fd, given a ready descriptor or not.                       *)
AresProcessFd(x, fed) ==
    IF ~x.ses.chan THEN {Fault(x, "no channel")}
    ELSE IF x.ares.query # "pending" THEN {x}
    ELSE (IF x.ares.due > 0 THEN {x} ELSE {})
         \cup (IF (fed \/ x.ares.due = 0) /\ x.ares.tries > 0
                 THEN AresWaits(x, x.ares.tries - 1) ELSE {})
         \cup (IF fed \/ x.ares.due = 0 THEN AresCompletes(x) ELSE {})

-----------------------------------------------------------------------------
(* psl_host_lookup_tv_to_millisec rounds up; a query that is not pending   *)
(* has no timeout.                                                         *)

(* mutant: it rounds down                                                  *)
TvToMillisecDown(x) ==
    IF x.ares.query = "pending" THEN x.ares.due \div TicksPerMilli ELSE -1

TvToMillisec(x) == IF x.ares.query = "pending" THEN Millis(x.ares.due) ELSE -1

(* mutant: the timeout of c-ares is not passed on                          *)
TimeoutNotUpdated(x) == x

UpdateFdWatchTimeout(x) == [x EXCEPT !.w = SetPollTimeout(@, TvToMillisec(x))]

(* mutant: an answered session keeps its channel and watch                 *)
FinishedKept(x) ==
    IF x.ses.needDestroy THEN Destroy(x) ELSE UpdateFdWatchTimeout(x)

(* How both callbacks of the main loop end, once c-ares has returned.      *)
AfterAres(x) ==
    IF x.ses.needDestroy THEN Destroy(x)
    ELSE IF x.ses.aresHostCbWasCalled THEN FreeAresAndMultiFdWatch(x)
    ELSE UpdateFdWatchTimeout(x)

-----------------------------------------------------------------------------
(* The user, in the callback of any source of the loop.                    *)

UserMayCall == loop.phase = "dispatch"

(* PmSockHostLookupNew makes the session, its watch and the channel; it    *)
(* may fail before or after it made the watch.                             *)
MakeSession(x) ==
    [x EXCEPT !.ses = [@ EXCEPT !.mem = TRUE, !.lookupState = "initializing"]]

MakeWatch(x) ==
    [x EXCEPT !.ses = [@ EXCEPT !.watch = TRUE], !.w = [NewWatch EXCEPT !.attached = TRUE]]

MakeAres(x) == [x EXCEPT !.ses = [@ EXCEPT !.chan = TRUE, !.lookupState = "initialized"]]

New(outcome) ==
    LET made  == MakeSession(World)
        withW == MakeWatch(made)
    IN /\ UserMayCall /\ ses.lookupState = "none" /\ ~asked
       /\ CASE outcome = "noWatch" -> Becomes(DestroyInternal(made))
            [] outcome = "noAres"  -> Becomes(DestroyInternal(withW))
            [] outcome = "ok"      -> Becomes(MakeAres(withW))
       /\ UNCHANGED loop

Start ==
    /\ UserMayCall /\ ses.lookupState = "initialized"
    /\ ses' = [ses EXCEPT !.lookupState = "running", !.queryStarter = TRUE]
    /\ starter' = [attached |-> TRUE, refs |-> 2]
    /\ UNCHANGED <<watch, ares, loop, told, asked, fault>>

UserDestroy ==
    /\ UserMayCall /\ ses.mem
    /\ Becomes(UserDestroys(World))
    /\ UNCHANGED loop

-----------------------------------------------------------------------------
(* The main loop.                                                          *)

(* What the loop itself does when it dispatches a source.                  *)
LeavesReady(source) == loop' = [loop EXCEPT !.ready = @ \ {source}]

ForgetStarter(x) == [UnrefStarter(x) EXCEPT !.ses.queryStarter = FALSE]

(* psl_kick_start_ares_idle_cb; it answers FALSE, which detaches it.       *)
KickStart ==
    LET detached(x) == IF x.starter.attached THEN DestroyStarter(x) ELSE x
    IN /\ loop.phase = "dispatch" /\ "starter" \in loop.ready /\ starter.attached
       /\ LeavesReady("starter")
       /\ \E x \in AresGethostbyname(ForgetStarter(World)) : Becomes(detached(AfterAres(x)))

(* The descriptors ares_process_fd is given for a record: a failure counts *)
(* for what was requested.                                                 *)
Feeds(rec) == rec.req \cap (IF rec.ind \cap PermFailure # {} THEN {"IN", "OUT"} ELSE rec.ind)

(* One more descriptor is fed to it, unless the lookup is over by then.    *)
FeedOne(X) ==
    UNION {IF x.ses.needDestroy \/ x.ses.aresHostCbWasCalled THEN {x}
           ELSE AresProcessFd(x, TRUE) : x \in X}

Feed(x, n) ==
    LET fed[i \in 0 .. n] == IF i = 0 THEN {x} ELSE FeedOne(fed[i - 1])
    IN fed[n]

(* psl_host_lookup_fd_watch_cb; a record without a descriptor to feed is   *)
(* passed over, and c-ares does not tell the others apart.                 *)
FdWatchCb(x, recs) ==
    LET feeding == {rec \in recs : Feeds(rec) # {}}
    IN {AfterAres(y) : y \in IF feeding = {} THEN AresProcessFd(x, FALSE)
                             ELSE Feed(x, Cardinality(feeding))}

(* multi_fd_watch_dispatch *)
DispatchWatch ==
    /\ loop.phase = "dispatch" /\ "watch" \in loop.ready /\ watch.attached
    /\ LeavesReady("watch")
    /\ \E x \in FdWatchCb([World EXCEPT !.w = Dispatched(@)], PollRecs(watch)) : Becomes(x)

PrepareSources ==
    LET w     == IF watch.attached THEN Prepare(watch) ELSE watch
        now   == (IF watch.attached /\ Remaining(w) = 0 THEN {"watch"} ELSE {})
                 \cup (IF starter.attached THEN {"starter"} ELSE {})
        sleep == IF now # {} THEN 0
                 ELSE IF watch.attached /\ Remaining(w) # INFINITE_MSEC
                   THEN Remaining(w) * TicksPerMilli
                 ELSE INFINITE_MSEC
    IN /\ loop.phase = "dispatch"
       /\ "watch" \in loop.ready => ~watch.attached
       /\ "starter" \in loop.ready => ~starter.attached
       /\ watch' = w
       /\ loop' = [phase |-> "poll", ready |-> now, sleep |-> sleep]
       /\ UNCHANGED <<ses, starter, ares, told, asked, fault>>

(* poll() returns because of a descriptor, its timeout or another source;  *)
(* sources not ready yet are checked.                                      *)
PollAndCheck ==
    /\ loop.phase = "poll"
    /\ \E rev \in [watch.polled -> Indications] :
         LET w == Polled(watch, rev)
             checked == watch.attached /\ "watch" \notin loop.ready
         IN /\ \A f \in watch.polled : rev[f] \subseteq watch.descTable[f].events \cup PermFailure
            /\ \A f \in watch.polled : Cardinality(rev[f]) <= MaxIndicated
            /\ watch' = w
            /\ loop' = [loop EXCEPT !.phase = "dispatch",
                            !.ready = @ \cup IF checked /\ Check(w) THEN {"watch"} ELSE {}]
            /\ fault' = IF checked /\ w.restartTimer /\ fault = ""
                          THEN "timer not started" ELSE fault
    /\ UNCHANGED <<ses, starter, ares, told, asked>>

(* Time passes, except when poll() has to return.                          *)
Tick ==
    /\ loop.phase = "poll" => loop.sleep # 0
    /\ watch' = TickWatch(watch)
    /\ ares' = [ares EXCEPT !.due = IF @ = 0 THEN 0 ELSE @ - 1]
    /\ loop' = [loop EXCEPT !.sleep = IF @ > 0 THEN @ - 1 ELSE @]
    /\ UNCHANGED <<ses, starter, told, asked, fault>>

Init ==
    /\ ses = NoSession /\ watch = NewWatch /\ starter = NoStarter /\ ares = NoAres
    /\ loop = [phase |-> "dispatch", ready |-> {}, sleep |-> 0]
    /\ told = 0 /\ asked = FALSE /\ fault = ""

Next ==
    \/ \E outcome \in {"ok", "noWatch", "noAres"} : New(outcome)
    \/ Start
    \/ UserDestroy
    \/ KickStart
    \/ DispatchWatch
    \/ PrepareSources
    \/ PollAndCheck
    \/ Tick

(* The loop runs and time passes.  poll() returns when its timeout is      *)
(* over; nobody owes it an event before.  Dispatching is stated by what it *)
(* does to the loop, which no other action does.                           *)
Fairness ==
    /\ WF_loop(loop.phase = "dispatch" /\ starter.attached /\ LeavesReady("starter"))
    /\ WF_loop(loop.phase = "dispatch" /\ watch.attached /\ LeavesReady("watch"))
    /\ WF_vars(PrepareSources)
    /\ WF_vars(PollAndCheck /\ loop.sleep = 0)
    /\ SF_vars(Tick)

Spec == Init /\ [][Next]_vars /\ Fairness

-----------------------------------------------------------------------------
(* Properties.                                                             *)

(* Nothing freed is used, no source is unreferenced twice, c-ares answers  *)
(* once, and the timer was started when it is checked, whoever destroys    *)
(* the session and wherever (psl_host_lookup.c:284-300, 447-456, 610,      *)
(* 751-754; psl_multi_fd_watch.c:675).                                     *)
NothingUsedAfterFree == fault = ""

(* The session watches exactly the sockets of c-ares for what they wait    *)
(* for, as long as it has a channel, and nothing afterwards; and GLib      *)
(* polls of these what it was given, no GPollFD that was freed.            *)
WatchMatchesAres ==
    /\ watch.attached <=> ses.chan
    /\ Known(watch) = DOMAIN ares.socks
    /\ \A f \in Known(watch) : watch.descTable[f].events = ares.socks[f]
    /\ watch.polled = {f \in Known(watch) : watch.descTable[f].pollAdded}

(* Between callbacks a session that was answered holds neither channel nor *)
(* watch, one that was destroyed is gone, and the idle source lives only   *)
(* until the query has started.                                            *)
NothingLeaks ==
    /\ ses.aresHostCbWasCalled => ~ses.chan /\ ~ses.watch
    /\ asked => ~ses.mem
    /\ ~ses.mem => ~ses.chan /\ ~watch.attached /\ starter.refs = 0
    /\ starter.refs = IF ses.queryStarter THEN 2 ELSE 0

(* The timer never drives c-ares before its deadline                       *)
(* (psl_host_lookup.c:817, psl_time_utils.c:205).                          *)
TimerNotEarly ==
    [][watch.attached /\ PollRecs(watch) = {} /\ "watch" \in loop.ready \ loop'.ready
        => ares.due = 0]_vars

(* While it polls, a session that waits for c-ares is woken up by c-ares'  *)
(* deadline: at the latest a rounding after what is left of its timer.     *)
WakesUp ==
    loop.phase = "poll" /\ ares.query = "pending" =>
        /\ loop.sleep # INFINITE_MSEC
        /\ loop.sleep < watch.when + TicksPerMilli

(* The session as its user sees it.                                        *)
Status ==
    IF asked THEN "destroyed"
    ELSE CASE ses.lookupState = "initialized" -> "created"
           [] ses.lookupState = "finished"    -> "answered"
           [] OTHER                           -> ses.lookupState

Contract == INSTANCE PslLookupContract WITH status <- Status, answers <- told

(* A session that was started answers exactly once unless destroyed first, *)
(* and calls nobody afterwards.                                            *)
ImplementsContract == Contract!Spec

=============================================================================
