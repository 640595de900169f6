-------------------------- MODULE PslLookupContract --------------------------
(***************************************************************************)
(* What a host lookup promises the code that uses it                       *)
(* (include/public/palmsocket/palmsocket.h and the channel state machine): *)
(* a session that was started calls back exactly once, unless it is        *)
(* destroyed first; the callback may destroy it; nobody is called after.   *)
(***************************************************************************)
EXTENDS Naturals

VARIABLES
    status,     \* of the session, as its user sees it
    answers     \* times the user's callback ran

vars == <<status, answers>>

Init == status = "none" /\ answers = 0

New   == status = "none" /\ status' = "created" /\ UNCHANGED answers
Start == status = "created" /\ status' = "running" /\ UNCHANGED answers

Answer ==
    /\ status = "running"
    /\ answers' = answers + 1
    /\ status' \in {"answered", "destroyed"}

Destroy ==
    /\ status \in {"created", "running", "answered"}
    /\ status' = "destroyed"
    /\ UNCHANGED answers

Next == New \/ Start \/ Answer \/ Destroy

Spec == Init /\ [][Next]_vars /\ WF_vars(Answer)

=============================================================================
