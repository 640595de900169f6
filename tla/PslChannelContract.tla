-------------------------- MODULE PslChannelContract --------------------------
(***************************************************************************)
(* What a channel promises the application                                 *)
(* (include/public/palmsocket/palmsocket.h): which operations may follow   *)
(* which, and that an operation that was given a callback ends with one    *)
(* call of it, which tells the outcome, unless another operation of the    *)
(* application supersedes it; nobody is called after that, nor while       *)
(* another callback runs.                                                  *)
(***************************************************************************)

VARIABLES
    status,     \* of the channel, as the application sees it
    owed,       \* is a callback owed for the operation in progress?
    call        \* the callback being run: none, or what it tells

vars == <<status, owed, call>>

InProgress == {"connecting", "renegotiating", "closingSsl"}

Init == status = "new" /\ owed = FALSE /\ call = "none"

(* An operation of the application, with a callback or without.            *)
Connect ==
    /\ status \in {"new", "plain"} /\ status' = "connecting"
    /\ owed' \in BOOLEAN /\ UNCHANGED call

Renegotiate ==
    /\ status = "secure" /\ status' = "renegotiating"
    /\ owed' \in BOOLEAN /\ UNCHANGED call

CloseSsl ==
    /\ status \in {"secure", "renegotiating", "closingSsl", "unsecured"}
    /\ status' = "closingSsl"
    /\ owed' \in BOOLEAN /\ UNCHANGED call

(* Where a success may lead; "unsecured" is SSL shut down on one side, or  *)
(* on both and not yet gone back to plain text.                            *)
Successes == [connecting |-> {"plain", "secure"}, renegotiating |-> {"secure"},
              closingSsl |-> {"unsecured", "plain"}]

Ends(outcome) ==
    /\ status \in InProgress /\ call = "none"
    /\ status' \in IF outcome = "ok" THEN Successes[status] ELSE {"failed"}
    /\ owed' = FALSE
    /\ call' = IF owed THEN outcome ELSE "none"

Resume ==
    /\ status = "unsecured" /\ status' = "plain"
    /\ UNCHANGED <<owed, call>>

(* What supersedes any operation in progress.                              *)
ShutSock ==
    /\ status \notin {"new", "shut", "closed"} /\ status' = "shut"
    /\ owed' = FALSE /\ UNCHANGED call

Close ==
    /\ status # "closed" /\ status' = "closed"
    /\ owed' = FALSE /\ UNCHANGED call

Returns ==
    /\ call # "none" /\ call' = "none"
    /\ UNCHANGED <<status, owed>>

Next ==
    \/ Connect \/ Renegotiate \/ CloseSsl
    \/ \E outcome \in {"ok", "error"} : Ends(outcome)
    \/ Resume \/ ShutSock \/ Close \/ Returns

Spec == Init /\ [][Next]_vars

=============================================================================
