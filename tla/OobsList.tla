------------------------------- MODULE OobsList -------------------------------
(***************************************************************************)
(* One OobsList (oobs/oobs-list.c) and the iterators of its users: the     *)
(* links of the GList it is made of, the stamp that outdates iterators,    *)
(* the lock, and the references it holds to its elements.                  *)
(*                                                                         *)
(* A call that the code refuses changes nothing and is a stuttering step.  *)
(* An iterator may be used after its element has left the list, and the    *)
(* allocator may give the node of that element to a new one.               *)
(***************************************************************************)
EXTENDS Integers, Sequences, FiniteSets

CONSTANTS
    Nodes,         \* Addresses of GList nodes; bounds the length of the list
    Null,          \* The NULL pointer, for nodes and for their data
    Iters,         \* The OobsListIter variables of the users
    Objects,       \* Objects that users try to store
    Contained,     \* Those of them whose type is contained_type
    MaxStamp       \* Bound: value of the stamp, a guint in the code

ASSUME ListAssumption ==
    /\ Null \notin Nodes \cup Objects
    /\ Contained \subseteq Objects
    /\ MaxStamp \in Nat

VARIABLES
    list,          \* priv->list, the first node
    next, prev,    \* Links of the nodes
    data,          \* What each node holds
    allocated,     \* Nodes not free
    stamp,         \* priv->stamp
    locked,        \* priv->locked
    alive,         \* Not finalized
    crashed,       \* A NULL pointer has been dereferenced
    iters,         \* The iterators
    held,          \* References to each object that the list owns
    order,         \* History: the nodes in the order the list should have
    lost           \* History: whether the element of an iterator has left the
                   \* list, and whether the list has become empty since

links == <<list, next, prev, data, allocated>>
vars == <<links, stamp, locked, alive, crashed, iters, held, order, lost>>

TypeOK ==
    /\ list \in Nodes \cup {Null}
    /\ next \in [Nodes -> Nodes \cup {Null}]
    /\ prev \in [Nodes -> Nodes \cup {Null}]
    /\ data \in [Nodes -> Contained \cup {Null}]
    /\ allocated \in SUBSET Nodes
    /\ stamp \in Nat
    /\ locked \in BOOLEAN
    /\ alive \in BOOLEAN
    /\ crashed \in BOOLEAN
    /\ iters \in [Iters -> [stamp : Nat, data : Nodes \cup {Null}]]
    /\ held \in [Objects -> Nat]
    /\ order \in Seq(Nodes)
    /\ lost \in [Iters -> {"no", "removed", "emptied"}]

Init ==
    /\ list = Null
    /\ next = [n \in Nodes |-> Null]
    /\ prev = [n \in Nodes |-> Null]
    /\ data = [n \in Nodes |-> Null]
    /\ allocated = {}
    /\ stamp = 0
    /\ locked = FALSE
    /\ alive = TRUE
    /\ crashed = FALSE
    /\ iters = [i \in Iters |-> [stamp |-> 0, data |-> Null]]
    /\ held = [o \in Objects |-> 0]
    /\ order = <<>>
    /\ lost = [i \in Iters |-> "no"]

-----------------------------------------------------------------------------
(* The GList *)

\* The nodes that a walk of the list from its head meets.
Reachable ==
    {n \in Nodes : \A S \in SUBSET Nodes :
        list \in S \cup {Null} /\ (\A m \in S : next[m] \in S \cup {Null}) => n \in S}

\* g_list_last
LastNode == CHOOSE n \in Reachable : next[n] = Null

\* check_iter: the stamps agree and g_list_position finds the node.
CheckIter(i) == iters[i].stamp = stamp /\ iters[i].data \in Reachable

\* Mutant: the lock is ignored.
MayChangeLocked == alive /\ ~crashed

\* What the mutators ask for: the list is not locked.
MayChange == alive /\ ~crashed /\ ~locked

IndexOf(n) == CHOOSE k \in 1..Len(order) : order[k] = n
InsertNode(k, n) == SubSeq(order, 1, k) \o <<n>> \o SubSeq(order, k + 1, Len(order))
DropNode(k) == SubSeq(order, 1, k - 1) \o SubSeq(order, k + 1, Len(order))

Point(i, n, s) ==
    /\ iters' = [iters EXCEPT ![i] = [stamp |-> s, data |-> n]]
    /\ lost' = [lost EXCEPT ![i] = "no"]

\* g_list_alloc
Allocate(n) ==
    /\ n \notin allocated
    /\ allocated' = allocated \cup {n}
    /\ data' = [data EXCEPT ![n] = Null]

-----------------------------------------------------------------------------
(* Inserting *)

\* Mutant: the stamp of an empty list is kept.
NewStampKept == stamp

\* oobs_list_append and oobs_list_prepend change the stamp of an empty list.
NewStamp == IF list = Null THEN stamp + 1 ELSE stamp

\* Mutant: the back link of the old first node is not set.
PrependForwardOnly(i, n) ==
    /\ MayChange
    /\ NewStamp <= MaxStamp
    /\ Allocate(n)
    /\ next' = [next EXCEPT ![n] = list]
    /\ prev' = [prev EXCEPT ![n] = Null]
    /\ list' = n
    /\ stamp' = NewStamp
    /\ order' = InsertNode(0, n)
    /\ Point(i, n, NewStamp)
    /\ UNCHANGED <<locked, alive, crashed, held>>

ListAppend(i, n) ==
    /\ MayChange
    /\ NewStamp <= MaxStamp
    /\ Allocate(n)
    /\ next' = [m \in Nodes |-> IF m = n THEN Null
                                ELSE IF list # Null /\ m = LastNode THEN n ELSE next[m]]
    /\ prev' = [prev EXCEPT ![n] = IF list = Null THEN Null ELSE LastNode]
    /\ list' = IF list = Null THEN n ELSE list
    /\ stamp' = NewStamp
    /\ order' = InsertNode(Len(order), n)
    /\ Point(i, n, NewStamp)
    /\ UNCHANGED <<locked, alive, crashed, held>>

ListPrepend(i, n) ==
    /\ MayChange
    /\ NewStamp <= MaxStamp
    /\ Allocate(n)
    /\ next' = [next EXCEPT ![n] = list]
    /\ prev' = [m \in Nodes |-> IF m = n THEN Null
                                ELSE IF m = list THEN n ELSE prev[m]]
    /\ list' = n
    /\ stamp' = NewStamp
    /\ order' = InsertNode(0, n)
    /\ Point(i, n, NewStamp)
    /\ UNCHANGED <<locked, alive, crashed, held>>

\* A NULL pointer is followed.
Crash ==
    /\ crashed' = TRUE
    /\ UNCHANGED <<links, stamp, locked, alive, iters, held, order, lost>>

\* oobs_list_insert_after, with anchor a and the iterator i set to the new node
InsertAfter(a, i, n) ==
    LET anchor == iters[a].data IN
    /\ MayChange
    /\ CheckIter(a)
    /\ IF next[anchor] = Null
       THEN Crash
       ELSE /\ Allocate(n)
            /\ prev' = [prev EXCEPT ![next[anchor]] = n, ![n] = anchor]
            /\ next' = [next EXCEPT ![n] = next[anchor], ![anchor] = n]
            /\ order' = InsertNode(IndexOf(anchor), n)
            /\ Point(i, n, stamp)
            /\ UNCHANGED <<list, stamp, locked, alive, crashed, held>>

\* oobs_list_insert_before
InsertBefore(a, i, n) ==
    LET anchor == iters[a].data IN
    /\ MayChange
    /\ CheckIter(a)
    /\ IF prev[anchor] = Null
       THEN Crash
       ELSE /\ Allocate(n)
            /\ next' = [next EXCEPT ![prev[anchor]] = n, ![n] = anchor]
            /\ prev' = [prev EXCEPT ![n] = prev[anchor], ![anchor] = n]
            /\ order' = InsertNode(IndexOf(anchor) - 1, n)
            /\ Point(i, n, stamp)
            /\ UNCHANGED <<list, stamp, locked, alive, crashed, held>>

-----------------------------------------------------------------------------
(* Removing *)

\* The iterators that pointed to the node n, but for i, point to no element;
\* when nothing is left, no iterator does.
Lose(i, n, left) ==
    lost' = [j \in Iters |->
                IF iters'[j].data = Null THEN lost[j]
                ELSE IF left = {} THEN "emptied"
                ELSE IF j # i /\ iters[j].data = n /\ lost[j] = "no" THEN "removed"
                ELSE lost[j]]

\* Mutant: the reference of the list to the object is not dropped.
ReleaseForgotten(o) == held

\* g_object_unref, which only warns about NULL
Release(o) == IF o = Null THEN held ELSE [held EXCEPT ![o] = @ - 1]

\* oobs_list_remove; g_list_delete_link unlinks the node and frees it.
Remove(i) ==
    LET n == iters[i].data IN
    /\ MayChange
    /\ CheckIter(i)
    /\ held' = Release(data[n])
    /\ list' = IF list = n THEN next[n] ELSE list
    /\ next' = [m \in Nodes |-> IF prev[n] = m THEN next[n] ELSE next[m]]
    /\ prev' = [m \in Nodes |-> IF next[n] = m THEN prev[n] ELSE prev[m]]
    /\ allocated' = allocated \ {n}
    /\ iters' = [iters EXCEPT ![i].data = next[n]]
    /\ order' = DropNode(IndexOf(n))
    /\ Lose(i, n, allocated')
    /\ UNCHANGED <<data, stamp, locked, alive, crashed>>

\* oobs_list_clear on a list that has elements
DoClear ==
    /\ held' = [o \in Objects |-> held[o] - Cardinality({n \in Reachable : data[n] = o})]
    /\ list' = Null
    /\ allocated' = allocated \ Reachable
    /\ order' = <<>>
    /\ lost' = [j \in Iters |-> IF iters[j].data = Null THEN lost[j] ELSE "emptied"]
    /\ UNCHANGED <<next, prev, data, stamp, iters>>

Clear ==
    /\ MayChange
    /\ list # Null
    /\ DoClear
    /\ UNCHANGED <<locked, alive, crashed>>

\* oobs_list_finalize unlocks the list and clears it.
Finalize ==
    /\ alive /\ ~crashed
    /\ alive' = FALSE
    /\ locked' = FALSE
    /\ IF list # Null
       THEN DoClear
       ELSE UNCHANGED <<links, stamp, iters, held, order, lost>>
    /\ UNCHANGED crashed

-----------------------------------------------------------------------------
(* The other calls *)

\* Mutant: an object of any type is taken.
CheckTypesNot(o) == TRUE

\* check_types
CheckTypes(o) == o \in Contained

\* oobs_list_set, with an iterator that points to a node
SetNode(i, o) ==
    LET n == iters[i].data IN
    /\ CheckIter(i)
    /\ data[n] = Null
    /\ CheckTypes(o)
    /\ data' = [data EXCEPT ![n] = o]
    /\ held' = [held EXCEPT ![o] = @ + 1]
    /\ UNCHANGED <<list, next, prev, allocated, stamp, locked, alive, crashed, iters,
                   order, lost>>

\* oobs_list_set looks into the node before check_iter has seen the iterator.
Set(i, o) ==
    /\ MayChange
    /\ IF iters[i].data = Null THEN Crash ELSE SetNode(i, o)

\* oobs_list_get_iter_first
GetIterFirst(i) ==
    /\ alive /\ ~crashed
    /\ list # Null
    /\ Point(i, list, stamp)
    /\ UNCHANGED <<links, stamp, locked, alive, crashed, held, order>>

\* oobs_list_iter_next; at the last element the iterator is left at NULL.
IterNext(i) ==
    /\ alive /\ ~crashed
    /\ CheckIter(i)
    /\ Point(i, next[iters[i].data], iters[i].stamp)
    /\ UNCHANGED <<links, stamp, locked, alive, crashed, held, order>>

\* _oobs_list_set_locked
SetLocked ==
    /\ alive /\ ~crashed
    /\ locked' = ~locked
    /\ UNCHANGED <<links, stamp, alive, crashed, iters, held, order, lost>>

Over ==
    /\ ~alive \/ crashed
    /\ UNCHANGED vars

Next ==
    \/ \E i \in Iters, n \in Nodes : ListAppend(i, n) \/ ListPrepend(i, n)
    \/ \E a \in Iters, i \in Iters, n \in Nodes : InsertAfter(a, i, n) \/ InsertBefore(a, i, n)
    \/ \E i \in Iters : Remove(i) \/ GetIterFirst(i) \/ IterNext(i)
    \/ \E i \in Iters, o \in Objects : Set(i, o)
    \/ Clear \/ SetLocked \/ Finalize
    \/ Over

Spec == Init /\ [][Next]_vars

-----------------------------------------------------------------------------
(* Properties *)

\* The hand-made links of oobs_list_insert_after and _insert_before, mixed with
\* those that GLib makes, are those of one list of all the nodes that are not
\* free, in the order in which they were inserted, and lead back as well.
WellLinked ==
    /\ allocated = {order[k] : k \in 1..Len(order)}
    /\ Cardinality(allocated) = Len(order)
    /\ list = IF order = <<>> THEN Null ELSE order[1]
    /\ \A k \in 1..Len(order) :
          /\ next[order[k]] = IF k = Len(order) THEN Null ELSE order[k + 1]
          /\ prev[order[k]] = IF k = 1 THEN Null ELSE order[k - 1]

\* The list owns one reference to an object per element that holds it: none is
\* leaked when elements are removed, cleared or outlived by the list, and none
\* is dropped twice.
ElementsHeld ==
    \A o \in Objects : held[o] = Cardinality({n \in allocated : data[n] = o})

\* Whatever is inserted or removed around it, an iterator stays valid as long as
\* its element is in the list; and one obtained before the list last became empty
\* is refused for good, though its address may belong to a new element: that is
\* what the stamp is for.
IterSound ==
    \A i \in Iters :
        /\ iters[i].data # Null /\ lost[i] = "no" => CheckIter(i)
        /\ lost[i] = "emptied" => ~CheckIter(i)

\* An element is inserted after, or before, any valid anchor.
AnchorInserts ==
    [][\A a \in Iters, i \in Iters, n \in Nodes :
          InsertAfter(a, i, n) \/ InsertBefore(a, i, n) => Len(order') = Len(order) + 1]_vars

\* The list is the sequence of ElementList, changed in one place at a time and
\* never while it is locked, whatever stale iterators are used on it.
Elements == INSTANCE ElementList WITH
    Objects <- Contained,
    Unset <- Null,
    elements <- [k \in 1..Len(order) |-> data[order[k]]]

IsSequence == Elements!Spec
=============================================================================
