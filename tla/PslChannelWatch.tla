--------------------------- MODULE PslChannelWatch ---------------------------
(***************************************************************************)
(* The GSource an application watches a channel with                       *)
(* (src/src/psl_channel_watch.c) and the check of the channel's readiness  *)
(* it is built on (src/src/psl_channel.c:1005), as operators on a record,  *)
(* for the module that owns such watches.  GLib is external.               *)
(*                                                                         *)
(* HUP stands for ERR too.  The channel answers CHECK_IO with a hint for   *)
(* each direction and says whether there is a descriptor to poll.          *)
(***************************************************************************)
EXTENDS Naturals, FiniteSets

Hints        == {"ready", "notReady", "poll", "hup", "readyhup"}
Failures     == {"HUP", "NVAL"}
GIOCondition == {"IN", "OUT"} \cup Failures

(* refs and attached are what GLib keeps of the source.                    *)
ChannelWatches ==
    [refs : 0 .. 3, attached : BOOLEAN, conditions : SUBSET {"IN", "OUT"},
     revents : SUBSET GIOCondition]

NoChannelWatch ==
    [refs |-> 0, attached |-> FALSE, conditions |-> {},
     revents |-> {}]

(* psl_chan_watch_new; the header reference is its caller's business.      *)
NewChannelWatch(conds) ==
    [NoChannelWatch EXCEPT !.refs = 1, !.conditions = conds]

UpdateConditions(w, conds) == [w EXCEPT !.conditions = conds]

-----------------------------------------------------------------------------
(* What a hint says of a direction, dir being IN or OUT.                   *)
Told(hint, dir) ==
    (IF hint \in {"ready", "readyhup"} THEN {dir} ELSE {})
    \cup (IF hint \in {"hup", "readyhup"} THEN {"HUP"} ELSE {})

Suppressed(hint, dir) == IF hint = "notReady" THEN {dir} ELSE {}

(* psl_chan_do_io_readiness_preflight: what is ready and what to poll for. *)
(* io is what CHECK_IO would answer.                                       *)

(* mutant: a closed channel is only not ready                              *)
PreflightOfOpen(closed, io, monitored) ==
    LET allowed == monitored \cup Failures
        ready   == (Told(io.readable, "IN") \cup Told(io.writeable, "OUT")) \cap allowed
    IN IF monitored = {} \/ closed THEN [ready |-> {}, poll |-> {}]
       ELSE [ready |-> ready, poll |-> IF io.fd THEN allowed \ ready ELSE {}]

Preflight(closed, io, monitored) ==
    LET allowed == monitored \cup Failures
        ready   == (Told(io.readable, "IN") \cup Told(io.writeable, "OUT")) \cap allowed
        unasked == Suppressed(io.readable, "IN") \cup Suppressed(io.writeable, "OUT")
    IN CASE monitored = {} -> [ready |-> {}, poll |-> {}]
         [] monitored # {} /\ closed -> [ready |-> {"NVAL"}, poll |-> {}]
         [] OTHER -> [ready |-> ready,
                      poll  |-> IF io.fd THEN allowed \ (ready \cup unasked) ELSE {}]

-----------------------------------------------------------------------------
(* chan_watch_prepare forgets what poll() reported and has it poll for     *)
(* res.poll, for nothing if that is empty; poll() then reports found.      *)
PrepareAndPoll(w, res, found) == [w EXCEPT !.revents = found \cap res.poll]

(* chan_watch_check_what_is_ready                                          *)

(* mutant: what was polled for is taken as it was when polling began       *)
PolledIsReady(w, res) == res.ready \cup w.revents

WhatIsReady(w, res) == res.ready \cup (w.revents \cap res.poll)

=============================================================================
