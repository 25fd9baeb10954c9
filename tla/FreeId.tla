------------------------------- MODULE FreeId -------------------------------
(***************************************************************************)
(* Choosing the ID of a new account: oobs_users_config_find_free_uid and   *)
(* oobs_groups_config_find_free_gid, which are the same algorithm on the   *)
(* users list and on the groups list.  It first tries the ID that follows  *)
(* the highest one used in the range, then scans the range.  uid_t and     *)
(* gid_t are unsigned: arithmetic wraps at MaxId.                          *)
(***************************************************************************)
EXTENDS Integers, Sequences

CONSTANTS
    MaxId,        \* The greatest value of the type
    MaxAccounts   \* Bound: length of the list

ASSUME IdsAssumption == MaxId \in Nat /\ MaxAccounts \in Nat

Ids == 0..MaxId

VARIABLES
    list,        \* The IDs of the accounts, in list order; may repeat
    id_min,      \* The range to search
    id_max,
    default,     \* The configuration's minimum and maximum ID
    pos,         \* The position the first loop has reached
    new_id,
    pc

search_vars == <<list, id_min, id_max, default, pos, new_id, pc>>

\* Mutant: a signed type.
PredSigned(n) == n - 1

Pred(n) == IF n = 0 THEN MaxId ELSE n - 1
Succ(n) == IF n = MaxId THEN 0 ELSE n + 1

\* Lists of at most MaxAccounts accounts.
Lists == UNION {[1..n -> Ids] : n \in 0..MaxAccounts}

\* oobs_users_config_is_uid_used, oobs_groups_config_is_gid_used
IsIdUsed(n) == \E i \in 1..Len(list) : list[i] = n

\* The arguments: the function refuses a minimum above the maximum (931), but the
\* default range is put in after that test, and nothing validates it: not the
\* setters, nor the reading of what the backends send.
SearchInit ==
    /\ list \in Lists
    /\ id_min \in Ids /\ id_max \in id_min..MaxId
    /\ default \in [min : Ids, max : Ids]
    /\ (id_min # 0 \/ id_max # 0) => default = [min |-> 0, max |-> 0]
    /\ pos = 1
    /\ new_id = 0
    /\ pc = "start"

\* The range is settled: 0 and 0 ask for the default one.
Start ==
    /\ pc = "start"
    /\ IF id_min = 0 /\ id_max = 0
       THEN id_min' = default.min /\ id_max' = default.max
       ELSE UNCHANGED <<id_min, id_max>>
    /\ new_id' = Pred(id_min')
    /\ pc' = "highest"
    /\ UNCHANGED <<list, default, pos>>

\* Mutant: the last ID wins, not the highest.
BetterLast(n) == n < id_max /\ n >= id_min

Better(n) == n < id_max /\ n >= id_min /\ n > new_id

Visit ==
    /\ pc = "highest"
    /\ pos <= Len(list)
    /\ new_id' = IF Better(list[pos]) THEN list[pos] ELSE new_id
    /\ pos' = pos + 1
    /\ UNCHANGED <<list, id_min, id_max, default, pc>>

Try ==
    /\ pc = "highest"
    /\ pos > Len(list)
    /\ IF IsIdUsed(Succ(new_id))
       THEN new_id' = id_min /\ pc' = "scan"
       ELSE new_id' = Succ(new_id) /\ pc' = "done"
    /\ UNCHANGED <<list, id_min, id_max, default, pos>>

\* Mutants: the scan stops before the maximum; or does not advance.
MoreShort == IsIdUsed(new_id) /\ new_id + 1 < id_max
MoreForever == IsIdUsed(new_id)

More == IsIdUsed(new_id) /\ new_id < id_max

Scan ==
    /\ pc = "scan"
    /\ IF More
       THEN new_id' = Succ(new_id) /\ UNCHANGED pc
       ELSE pc' = "done" /\ UNCHANGED new_id
    /\ UNCHANGED <<list, id_min, id_max, default, pos>>

\* The function has returned.
Over == pc = "done" /\ UNCHANGED search_vars

SearchNext == Start \/ Visit \/ Try \/ Scan \/ Over

SearchSpec ==
    SearchInit /\ [][SearchNext]_search_vars /\ WF_search_vars(Start \/ Visit \/ Try \/ Scan)

-----------------------------------------------------------------------------
(* Properties *)

SearchTypeOK ==
    /\ list \in Seq(Ids)
    /\ id_min \in Ids /\ id_max \in Ids
    /\ default \in [min : Ids, max : Ids]
    /\ pos \in 1..(Len(list) + 1)
    /\ new_id \in Ids
    /\ pc \in {"start", "highest", "scan", "done"}

Wanted == id_min..id_max

\* The ID returned lies in the range, although the search starts one below it,
\* which for a minimum of 0 is the greatest value of the type.  An empty range,
\* which a default one can be, is answered with its minimum.
InRange ==
    pc = "done" => new_id \in Wanted \/ (Wanted = {} /\ new_id = id_min)

\* The ID returned is free, unless every ID of the range is used: the answer is
\* then the maximum.
FreeUnlessFull ==
    pc = "done" /\ IsIdUsed(new_id) =>
        /\ Wanted # {} => new_id = id_max
        /\ \A n \in Wanted : IsIdUsed(n)

\* What the callers get: the range, whatever wraps around, and a free ID.
GoodAnswer == InRange /\ FreeUnlessFull

\* n follows the highest ID used in the range, or is the minimum if none is used.
IsAfterHighest(n) ==
    /\ \A m \in Wanted : IsIdUsed(m) => m < n
    /\ n = id_min \/ (n - 1 \in Wanted /\ IsIdUsed(n - 1))

\* "The returned UID is the highest used UID in the range plus one if @uid_max
\* is not used" (oobs-usersconfig.c:910): so it is when the range does not start
\* at 0.
FollowsHighest ==
    pc = "done" /\ id_min > 0 /\ ~IsIdUsed(id_max) => IsAfterHighest(new_id)

\* The same sentence as the documentation has it, for every range that is one.
HighestPlusOne ==
    pc = "done" /\ Wanted # {} /\ ~IsIdUsed(id_max) => IsAfterHighest(new_id)

\* "Else, the first free UID in the range is returned" (912).
FirstFree ==
    pc = "done" /\ IsIdUsed(id_max) /\ ~IsIdUsed(new_id) =>
        \A n \in id_min..(new_id - 1) : IsIdUsed(n)

\* "Return value: a free UID in the requested range, or @uid_max to indicate
\* wrong use or failure to find a free UID" (916).
RangeOrMaximum == pc = "done" => new_id \in Wanted \cup {id_max}

\* The function returns: the scan of a full range ends although its counter
\* could wrap around.
Returns == <>(pc = "done")
=============================================================================
