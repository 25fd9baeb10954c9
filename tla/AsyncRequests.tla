---------------------------- MODULE AsyncRequests ----------------------------
(***************************************************************************)
(* What OobsObject promises to the users of its asynchronous calls         *)
(* (oobs_object_update_async, _commit_async, _add_async, _delete_async):   *)
(* a request that was accepted is answered exactly once, by one call of    *)
(* the function passed with it, and the object it was made on stays alive  *)
(* from the request until that function has returned.                      *)
(***************************************************************************)
EXTENDS Naturals

CONSTANT Requests      \* The requests that may ever be made

VARIABLES
    stage,             \* stage[r]: how far request r has come
    object             \* FALSE once the object has been finalized

vars == <<stage, object>>

Stages == {"none", "outstanding", "answering", "over"}

Init ==
    /\ stage = [r \in Requests |-> "none"]
    /\ object = TRUE

Move(r, from, to) ==
    /\ object
    /\ stage[r] = from
    /\ stage' = [stage EXCEPT ![r] = to]
    /\ UNCHANGED object

Request(r) == Move(r, "none", "outstanding")

Answer(r) == Move(r, "outstanding", "answering")

\* The function returned; the request may have been the last to need the object.
Finish(r) ==
    /\ object
    /\ stage[r] = "answering"
    /\ stage' = [stage EXCEPT ![r] = "over"]
    /\ object' \in IF \E q \in Requests : stage'[q] \in {"outstanding", "answering"}
                   THEN {TRUE} ELSE BOOLEAN

Free ==
    /\ object
    /\ \A r \in Requests : stage[r] \in {"none", "over"}
    /\ object' = FALSE
    /\ UNCHANGED stage

Next ==
    \/ \E r \in Requests : Request(r) \/ Answer(r) \/ Finish(r)
    \/ Free

Spec == Init /\ [][Next]_vars
=============================================================================
