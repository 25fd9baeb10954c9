--------------------------------- MODULE Wire ---------------------------------
(***************************************************************************)
(* Strings, numbers and lists in D-Bus messages, as the helpers of utils.c *)
(* read and write them, and the changes an application makes to an         *)
(* OobsList (which the module OobsList models in detail).                  *)
(***************************************************************************)
EXTENDS Integers, SequencesExt

CONSTANTS
    Names,     \* Strings that are not empty
    Texts,     \* Bound: those that the model puts into fields that are not lists
    MaxLength, \* Bound: the length of lists
    Null       \* A NULL pointer

ASSUME NamesAssumption == Null \notin Names \cup {""} /\ "" \notin Names /\ Texts \subseteq Names
ASSUME LengthAssumption == MaxLength \in Nat

Strings == Names \cup {""}
Pointers == Strings \cup {Null}

\* Lists and pointers that the application, or the backends, pass.
Lists(S) == SeqOf(S, MaxLength)
Short(S) == SeqOf(S, 1)
Passed == Texts \cup {"", Null}

\* utils_get_string, utils_dup_string: an empty string is read as NULL.
GetString(w) == IF w = "" THEN Null ELSE w

\* utils_append_string
AppendString(p) == IF p = Null THEN "" ELSE p

\* utils_get_string_list_from_dbus_reply: built back to front, then reversed.
GetStrings(ws) ==
    LET list[n \in 0..Len(ws)] == IF n = 0 THEN <<>> ELSE <<ws[n]>> \o list[n - 1]
    IN Reverse(list[Len(ws)])

\* A list of objects made from, or sent as, an array: one for each, in order.
Each(F(_), s) == [i \in DOMAIN s |-> F(s[i])]

\* oobs_list_insert_after (or prepend, append) with a new element, oobs_list_remove
Inserted(s, new) ==
    IF Len(s) >= MaxLength THEN {}
    ELSE {InsertAt(s, i, x) : i \in 1..Len(s) + 1, x \in new}
Removed(s) == {RemoveAt(s, i) : i \in DOMAIN s}

\* What becomes of a list when one of its elements changes.
Changed(s, After(_)) == UNION {{[s EXCEPT ![i] = x] : x \in After(s[i])} : i \in DOMAIN s}

===============================================================================
