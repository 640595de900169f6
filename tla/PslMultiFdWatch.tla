--------------------------- MODULE PslMultiFdWatch ---------------------------
(***************************************************************************)
(* The GSource that watches a table of descriptors and one poll timeout    *)
(* (src/src/psl_multi_fd_watch.c), as operators on a record, for the       *)
(* modules that own such a watch.  GLib itself is external: the record     *)
(* keeps what GLib knows of the source, attached and polled.               *)
(*                                                                         *)
(* Time is counted in ticks, TicksPerMilli of them in a millisecond, so    *)
(* that the roundings of psl_time_utils.c can be told apart.  An expiry    *)
(* time is kept as the ticks left until then.                              *)
(***************************************************************************)
EXTENDS Integers, FiniteSets

CONSTANTS
    Fds,            \* descriptors
    TicksPerMilli   \* resolution of the clock

ASSUME FdsAssumption           == IsFiniteSet(Fds)
ASSUME TicksPerMilliAssumption == TicksPerMilli \in Nat \ {0}

INFINITE_MSEC == -1
PermFailure   == {"ERR"}    \* ERR stands for HUP and NVAL too

Requests    == SUBSET {"IN", "OUT"}
Indications == SUBSET ({"IN", "OUT"} \cup PermFailure)

Descriptors == [events : Requests, revents : Indications, pollAdded : BOOLEAN]

(* attached: in the sources of the main context; polled: the descriptors   *)
(* whose GPollFD was given to GLib; when: ticks left of the timeout.       *)
Watches ==
    [attached : BOOLEAN, restartTimer : BOOLEAN, timeoutMillisec : Int, when : Nat,
     descTable : UNION {[T -> Descriptors] : T \in SUBSET Fds}, polled : SUBSET Fds]

NoDescriptors == [f \in {} |-> {}]

NewWatch ==
    [attached |-> FALSE, restartTimer |-> TRUE, timeoutMillisec |-> INFINITE_MSEC,
     when |-> 0, descTable |-> NoDescriptors, polled |-> {}]

Known(w) == DOMAIN w.descTable

-----------------------------------------------------------------------------
(* psl_time_convert_timespec_to_millisec rounds up.                        *)

Millis(ticks) == (ticks + TicksPerMilli - 1) \div TicksPerMilli

(* A passing of time, seen by the watch: what psl_time_subtract_timespec_abs*)
(* leaves until the expiry, 0 once it has passed.                          *)

(* mutant: the difference goes below 0                                     *)
TickPastExpiry(w) == [w EXCEPT !.when = @ - 1]

TickWatch(w) == [w EXCEPT !.when = IF @ = 0 THEN 0 ELSE @ - 1]

-----------------------------------------------------------------------------
(* What the owner calls.                                                   *)

SetPollTimeout(w, millis) ==
    IF millis < -1 THEN w
    ELSE [w EXCEPT !.restartTimer = TRUE, !.timeoutMillisec = millis]

AddOrUpdateFd(w, f, conds) ==
    LET known == f \in Known(w)
        desc  == [events    |-> conds,
                  revents   |-> IF known THEN w.descTable[f].revents ELSE {},
                  pollAdded |-> known /\ w.descTable[f].pollAdded]
    IN [w EXCEPT !.descTable =
            [g \in Known(w) \cup {f} |-> IF g = f THEN desc ELSE w.descTable[g]]]

(* mutant: the GPollFD is freed while GLib still polls it                  *)
RemoveFdStillPolled(w, f) ==
    [w EXCEPT !.descTable = [g \in Known(w) \ {f} |-> w.descTable[g]]]

RemoveFds(w, F) ==
    [w EXCEPT !.polled    = @ \ {f \in F \cap Known(w) : w.descTable[f].pollAdded},
              !.descTable = [g \in Known(w) \ F |-> w.descTable[g]]]

RemoveFd(w, f) == RemoveFds(w, {f})

ResetWatch(w) ==
    [w EXCEPT !.restartTimer    = TRUE,
              !.timeoutMillisec = INFINITE_MSEC,
              !.polled          = @ \ {f \in Known(w) : w.descTable[f].pollAdded},
              !.descTable       = NoDescriptors]

-----------------------------------------------------------------------------
(* What the main loop calls.                                               *)

(* The timer starts at the first prepare after a restart was asked for.    *)

(* mutant: it starts again at every prepare                                *)
AlwaysRestarted(w) ==
    IF w.timeoutMillisec = INFINITE_MSEC
      THEN [w EXCEPT !.restartTimer = FALSE]
      ELSE [w EXCEPT !.restartTimer = FALSE, !.when = w.timeoutMillisec * TicksPerMilli]

UpdateExpiryTime(w) ==
    IF w.timeoutMillisec # INFINITE_MSEC /\ w.restartTimer
      THEN [w EXCEPT !.restartTimer = FALSE, !.when = w.timeoutMillisec * TicksPerMilli]
      ELSE [w EXCEPT !.restartTimer = FALSE]

Prepare(w) ==
    LET poll == {f \in Known(w) : w.descTable[f].events # {}}
    IN UpdateExpiryTime(
         [w EXCEPT !.descTable = [f \in Known(w) |->
                        [w.descTable[f] EXCEPT !.revents = {}, !.pollAdded = f \in poll]],
                   !.polled    = (@ \ Known(w)) \cup poll])

(* The timeout prepare answers, of a watch it has prepared.                *)
Remaining(w) ==
    IF w.timeoutMillisec = INFINITE_MSEC THEN INFINITE_MSEC ELSE Millis(w.when)

(* What poll() writes: rev gives the conditions of the polled descriptors. *)
Polled(w, rev) ==
    [w EXCEPT !.descTable = [f \in Known(w) |->
        IF f \in w.polled THEN [w.descTable[f] EXCEPT !.revents = rev[f]]
                          ELSE w.descTable[f]]]

TimerExpired(w) == w.timeoutMillisec # INFINITE_MSEC /\ w.when = 0

IndEvents(w, f) ==
    w.descTable[f].revents \cap (w.descTable[f].events \cup PermFailure)

Check(w) == TimerExpired(w) \/ \E f \in Known(w) : IndEvents(w, f) # {}

(* The records a dispatch hands to the callback, copies of the table.      *)
PollRecs(w) ==
    {[fd |-> f, req |-> w.descTable[f].events, ind |-> IndEvents(w, f)] :
        f \in {g \in Known(w) : IndEvents(w, g) # {}}}

Dispatched(w) == [w EXCEPT !.restartTimer = TRUE]

=============================================================================
