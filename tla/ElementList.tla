---------------------------- MODULE ElementList ----------------------------
(***************************************************************************)
(* What an OobsList promises (oobs/oobs-list.c): a sequence of elements,   *)
(* which an operation changes in one place and only while it is not        *)
(* locked.  An element is unset from its insertion until it is given its   *)
(* object, once.                                                           *)
(***************************************************************************)
EXTENDS Naturals, Sequences

CONSTANTS
    Objects,      \* What an element may hold
    Unset         \* The content of an element not given an object yet

VARIABLES
    elements,     \* The contents, in order
    locked,       \* Changes are refused
    alive         \* Not finalized

vars == <<elements, locked, alive>>

Init ==
    /\ elements = <<>>
    /\ locked = FALSE
    /\ alive = TRUE

Change(new) ==
    /\ alive /\ ~locked
    /\ elements' = new
    /\ UNCHANGED <<locked, alive>>

Insert(k) ==
    Change(SubSeq(elements, 1, k) \o <<Unset>> \o SubSeq(elements, k + 1, Len(elements)))

Remove(k) ==
    Change(SubSeq(elements, 1, k - 1) \o SubSeq(elements, k + 1, Len(elements)))

Set(k, o) ==
    /\ elements[k] = Unset
    /\ Change([elements EXCEPT ![k] = o])

Clear == Change(<<>>)

SetLocked ==
    /\ alive
    /\ locked' = ~locked
    /\ UNCHANGED <<elements, alive>>

Finalize ==
    /\ alive
    /\ elements' = <<>>
    /\ locked' = FALSE
    /\ alive' = FALSE

Next ==
    \/ \E k \in 0..Len(elements) : Insert(k)
    \/ \E k \in 1..Len(elements) : Remove(k) \/ \E o \in Objects : Set(k, o)
    \/ Clear \/ SetLocked \/ Finalize

Spec == Init /\ [][Next]_vars
=============================================================================
