------------------------- MODULE UsersGroupsProofs --------------------------
(***************************************************************************)
(* Proofs about OobsUsersConfig and OobsGroupsConfig: types and the        *)
(* pointer to the default group, for any application; the caches of users  *)
(* and the members of groups on the system, for applications that change   *)
(* nothing while an answer waits (~Overtaking).                            *)
(*                                                                         *)
(* At the end, about FreeId, for every width of the type, every list of    *)
(* accounts and every range.  SearchInv says what each loop has            *)
(* established so far: the first, that new_id is the highest ID visited in *)
(* the range below its maximum; the second, that every ID below new_id is  *)
(* used.  The scan is entered from a minimum above 0 only when the maximum *)
(* is used, which is what FollowsHighest rests on.                         *)
(***************************************************************************)
EXTENDS UsersGroups, FreeId, FiniteSetTheorems, SequenceTheorems, TLAPS

-----------------------------------------------------------------------------
(* The invariants *)

\* Nothing is remembered of an object that has been finalized.
BlankRest(s) ==
    \A g \in GroupObjs \ LiveGroups(s) : s.usernames[g] = {} /\ s.members[g] = {}

\* The default group, if one is configured, is alive or NULL.
DefaultLive(s) ==
    /\ s.default_gid # NoGid => s.default_group \in LiveGroups(s) \cup {Null}
    /\ ~s.groups_updated => s.default_group = Null

ObjectsOK(s) == s \in Library /\ BlankRest(s) /\ DefaultLive(s)

Inv == TypeOK /\ ObjectsOK(lib)

\* The users of a list with these logins.
Found(users, logins) == {u \in ToSet(users) : u.login \in logins}

DistinctLogins(users) ==
    \A i, j \in 1..Len(users) : users[i].login = users[j].login => i = j

DistinctNames(s) == \A g, h \in ToSet(s.groups) : g.name = h.name => g = h

\* The lists and the answers that wait agree with the system as far as a commit
\* can write: "users" and "files" are the contents of /etc/passwd and /etc/group.
ListsAgree(s, users, files) ==
    /\ DistinctLogins(s.users) /\ DistinctNames(s)
    /\ \A u \in ToSet(s.users) : u.login \in users
    /\ \A g \in ToSet(s.groups) :
          /\ s.usernames[g] \subseteq users \cup Foreign
          /\ g.name \in DOMAIN files => files[g.name] \cap Foreign \subseteq s.usernames[g]
          /\ s.users_updated => s.members[g] = Found(s.users, s.usernames[g])

NoGhosts(users, files) == \A n \in DOMAIN files : files[n] \subseteq users \cup Foreign

AnswersAgree ==
    /\ get_users.pending => get_users.users = sys_users
    /\ get_groups.pending => get_groups.groups = sys_groups

Agreement ==
    /\ ListsAgree(lib, sys_users, sys_groups)
    /\ NoGhosts(sys_users, sys_groups)
    /\ AnswersAgree

-----------------------------------------------------------------------------
(* Sequences *)

LEMMA LeastOfNat ==
    ASSUME NEW I \in SUBSET Nat, I # {}
    PROVE  Min(I) \in I
<1> DEFINE R == {p \in Nat \X Nat : p[1] < p[2]}
<1>1. IsWellFoundedOn(R, Nat)
  BY NatLessThanWellFounded DEF OpToRel
<1>2. PICK m \in I : \A i \in I : ~ (<<i, m>> \in R)
  <2> HIDE DEF R
  <2> QED BY <1>1, WFMin
<1>3. ASSUME NEW i \in I PROVE m <= i
  <2>1. ~ (<<i, m>> \in R)
    BY <1>2
  <2> QED BY <2>1
<1> QED BY <1>3 DEF Min

\* SetToSeq lists the elements of a set, each once.
LEMMA SetToSeqProperties ==
    ASSUME NEW S, IsFiniteSet(S)
    PROVE  /\ SetToSeq(S) \in Seq(S)
           /\ ToSet(SetToSeq(S)) = S
           /\ \A i, j \in 1..Len(SetToSeq(S)) : SetToSeq(S)[i] = SetToSeq(S)[j] => i = j
<1>1. Cardinality(S) \in Nat /\ \E f \in [1..Cardinality(S) -> S] : IsInjective(f)
  BY FS_CardinalityType DEF ExistsBijection, Bijection, Injection
<1> DEFINE f == SetToSeq(S)
<1>2. f \in [1..Cardinality(S) -> S] /\ IsInjective(f)
  BY <1>1 DEF SetToSeq
<1> HIDE DEF f
<1>3. f \in Seq(S) /\ Len(f) = Cardinality(S)
  BY <1>1, <1>2
<1>4. f \in Surjection(1..Cardinality(S), S)
  <2>1. f \in Injection(1..Cardinality(S), S)
    BY <1>2 DEF Injection
  <2>2. Cardinality(1..Cardinality(S)) = Cardinality(S)
    BY <1>1, FS_Interval
  <2> QED BY <2>1, <2>2, FS_Injection
<1>5. ToSet(f) = S
  BY <1>2, <1>4 DEF ToSet, Surjection
<1>6. \A i, j \in 1..Len(f) : f[i] = f[j] => i = j
  BY <1>2, <1>3 DEF IsInjective
<1> QED BY <1>3, <1>5, <1>6 DEF f

LEMMA ToSetProperties ==
    ASSUME NEW S, NEW q \in Seq(S)
    PROVE  /\ ToSet(q) \subseteq S
           /\ \A i \in 1..Len(q) : q[i] \in ToSet(q)
           /\ \A e \in ToSet(q) : \E i \in 1..Len(q) : q[i] = e
  BY DEF ToSet

LEMMA AppendElements ==
    ASSUME NEW S, NEW q \in Seq(S), NEW e \in S
    PROVE  Append(q, e) \in Seq(S) /\ ToSet(Append(q, e)) = ToSet(q) \cup {e}
<1> DEFINE p == Append(q, e)
<1>1. /\ p \in Seq(S) /\ Len(p) = Len(q) + 1 /\ Len(q) \in Nat
      /\ \A i \in 1..Len(q) : p[i] = q[i]
      /\ p[Len(q) + 1] = e
  OBVIOUS
<1> HIDE DEF p
<1>2. ToSet(p) = {p[i] : i \in 1..Len(p)} /\ ToSet(q) = {q[i] : i \in 1..Len(q)}
  BY <1>1 DEF ToSet
<1>3. \A i \in 1..Len(p) : i \in 1..Len(q) \/ i = Len(q) + 1
  BY <1>1
<1>4. 1..Len(q) \subseteq 1..Len(p) /\ Len(q) + 1 \in 1..Len(p)
  BY <1>1
<1>5. ToSet(p) \subseteq ToSet(q) \cup {e}
  BY <1>1, <1>2, <1>3
<1>6. ToSet(q) \cup {e} \subseteq ToSet(p)
  BY <1>1, <1>2, <1>4
<1> QED BY <1>1, <1>5, <1>6 DEF p

\* One element is removed, if it is there.
LEMMA RemoveFirstElements ==
    ASSUME NEW S, NEW q \in Seq(S), NEW e
    PROVE  /\ RemoveFirst(q, e) \in Seq(S)
           /\ ToSet(RemoveFirst(q, e)) \subseteq ToSet(q)
           /\ ToSet(q) \subseteq ToSet(RemoveFirst(q, e)) \cup {e}
           /\ \A i, j \in 1..Len(RemoveFirst(q, e)) : i # j =>
                 \E k, l \in 1..Len(q) : /\ k # l /\ q[k] = RemoveFirst(q, e)[i]
                                         /\ q[l] = RemoveFirst(q, e)[j]
           /\ (\A i, j \in 1..Len(q) : q[i] = q[j] => i = j) => e \notin ToSet(RemoveFirst(q, e))
<1> DEFINE r == RemoveFirst(q, e)
           I == {i \in 1..Len(q) : q[i] = e}
           m == Min(I)
<1>1. CASE I = {}
  <2>1. r = q
    BY <1>1 DEF RemoveFirst
  <2>2. e \notin ToSet(q)
    BY <1>1 DEF ToSet
  <2> QED BY <2>1, <2>2
<1>2. CASE I # {}
  <2>1. m \in 1..Len(q) /\ q[m] = e
    <3>1. I \in SUBSET Nat
      OBVIOUS
    <3> HIDE DEF I
    <3>2. m \in I
      BY <1>2, <3>1, LeastOfNat
    <3> QED BY <3>2 DEF I
  <2>2. SelectInSeq(q, LAMBDA v : v = e) = m
    BY <1>2 DEF SelectInSeq
  <2>3. r = SubSeq(q, 1, m - 1) \o SubSeq(q, m + 1, Len(q))
    BY <1>2, <2>2 DEF RemoveFirst, RemoveAt
  <2> HIDE DEF I, m, r
  <2> DEFINE a == SubSeq(q, 1, m - 1)
             b == SubSeq(q, m + 1, Len(q))
  <2>4. /\ a \in Seq(S) /\ Len(a) = m - 1
        /\ \A i \in 1..(m - 1) : a[i] = q[i]
    BY <2>1
  <2>5. /\ b \in Seq(S) /\ Len(b) = Len(q) - m
        /\ \A i \in 1..(Len(q) - m) : b[i] = q[m + i]
    BY <2>1
  <2> HIDE DEF a, b
  <2>6. r = a \o b
    BY <2>3 DEF a, b
  <2>7. /\ r \in Seq(S) /\ Len(r) = Len(q) - 1 /\ Len(q) \in Nat
        /\ \A i \in 1..(m - 1) : r[i] = q[i]
        /\ \A i \in m..(Len(q) - 1) : r[i] = q[i + 1]
    <3>1. r \in Seq(S) /\ Len(r) = Len(q) - 1
      BY <2>1, <2>4, <2>5, <2>6
    <3>2. \A i \in 1..(m - 1) : r[i] = q[i]
      BY <2>1, <2>4, <2>5, <2>6
    <3>3. ASSUME NEW i \in m..(Len(q) - 1)
          PROVE  r[i] = q[i + 1]
      <4>1. i - (m - 1) \in 1..(Len(q) - m) /\ m + (i - (m - 1)) = i + 1
            /\ i \in 1..(Len(a) + Len(b)) /\ i > Len(a)
        BY <2>1, <2>4, <2>5
      <4>2. r[i] = b[i - (m - 1)]
        BY <2>4, <2>5, <2>6, <4>1
      <4> QED BY <2>5, <4>1, <4>2
    <3> QED BY <3>1, <3>2, <3>3
  <2> DEFINE old(i) == IF i < m THEN i ELSE i + 1
  <2>8. \A i \in 1..Len(r) : old(i) \in 1..Len(q) /\ r[i] = q[old(i)] /\ old(i) # m
    BY <2>1, <2>7
  <2>9. \A i, j \in 1..Len(r) : i # j => old(i) # old(j)
    BY <2>1, <2>7
  <2>10. \A k \in 1..Len(q) : k # m => \E i \in 1..Len(r) : r[i] = q[k]
    <3> SUFFICES ASSUME NEW k \in 1..Len(q), k # m
                 PROVE  \E i \in 1..Len(r) : r[i] = q[k]
      OBVIOUS
    <3>1. CASE k < m
      BY <2>1, <2>7, <3>1
    <3>2. CASE k > m
      <4>1. k - 1 \in m..(Len(q) - 1) /\ k - 1 \in 1..Len(r) /\ (k - 1) + 1 = k
        BY <2>1, <2>7, <3>2
      <4> QED BY <2>7, <4>1
    <3> QED BY <2>1, <3>1, <3>2
  <2> HIDE DEF old
  <2>11. ToSet(r) = {r[i] : i \in 1..Len(r)} /\ ToSet(q) = {q[i] : i \in 1..Len(q)}
    BY <2>7 DEF ToSet
  <2>12. ToSet(r) \subseteq ToSet(q)
    BY <2>8, <2>11
  <2>13. ToSet(q) \subseteq ToSet(r) \cup {e}
    <3> SUFFICES ASSUME NEW k \in 1..Len(q)
                 PROVE  q[k] \in ToSet(r) \cup {e}
      BY <2>11
    <3>1. CASE k = m
      BY <2>1, <3>1
    <3>2. CASE k # m
      BY <2>10, <2>11, <3>2
    <3> QED BY <3>1, <3>2
  <2>14. (\A i, j \in 1..Len(q) : q[i] = q[j] => i = j) => e \notin ToSet(r)
    BY <2>1, <2>8, <2>11
  <2> QED BY <2>7, <2>8, <2>9, <2>12, <2>13, <2>14 DEF r
<1> QED BY <1>1, <1>2

-----------------------------------------------------------------------------
(* Objects *)

LEMMA FieldTypes ==
    ASSUME NEW s \in Library
    PROVE  /\ s.users \in Seq(UserObjs) /\ s.groups \in Seq(GroupObjs)
           /\ s.usernames \in [GroupObjs -> SUBSET Logins]
           /\ s.members \in [GroupObjs -> SUBSET UserObjs]
           /\ s.leaked \in SUBSET GroupObjs /\ s.held \in SUBSET UserObjs
           /\ s.users_updated \in BOOLEAN /\ s.groups_updated \in BOOLEAN
           /\ s.default_gid \in Names \cup {NoGid}
           /\ s.default_group \in GroupObjs \cup {Null, Dangling}
           /\ ToSet(s.users) \subseteq UserObjs /\ ToSet(s.groups) \subseteq GroupObjs
           /\ LiveGroups(s) \subseteq GroupObjs
<1>1. /\ s.users \in Seq(UserObjs) /\ s.groups \in Seq(GroupObjs)
      /\ s.usernames \in [GroupObjs -> SUBSET Logins]
      /\ s.members \in [GroupObjs -> SUBSET UserObjs]
      /\ s.leaked \in SUBSET GroupObjs /\ s.held \in SUBSET UserObjs
      /\ s.users_updated \in BOOLEAN /\ s.groups_updated \in BOOLEAN
      /\ s.default_gid \in Names \cup {NoGid}
      /\ s.default_group \in GroupObjs \cup {Null, Dangling}
  BY DEF Library
<1>2. ToSet(s.users) \subseteq UserObjs /\ ToSet(s.groups) \subseteq GroupObjs
  BY <1>1, ToSetProperties
<1> QED BY <1>1, <1>2 DEF LiveGroups

\* The fields that finalizing leaves alone.
SameLists(s, t) ==
    /\ t.users = s.users /\ t.groups = s.groups
    /\ t.leaked = s.leaked /\ t.held = s.held
    /\ t.users_updated = s.users_updated /\ t.groups_updated = s.groups_updated
    /\ t.default_gid = s.default_gid

LEMMA SettleProperties ==
    ASSUME NEW s \in Library
    PROVE  /\ Settle(s) \in Library /\ SameLists(s, Settle(s))
           /\ LiveGroups(Settle(s)) = LiveGroups(s)
           /\ BlankRest(Settle(s))
           /\ \A g \in LiveGroups(s) : /\ Settle(s).usernames[g] = s.usernames[g]
                                       /\ Settle(s).members[g] = s.members[g]
           /\ s.default_group \in LiveGroups(s) \cup {Null} =>
                 Settle(s).default_group = s.default_group
<1> DEFINE live == LiveGroups(s)
           t == Settle(s)
<1>1. /\ s.usernames \in [GroupObjs -> SUBSET Logins]
      /\ s.members \in [GroupObjs -> SUBSET UserObjs]
      /\ s.default_group \in GroupObjs \cup {Null, Dangling}
      /\ live \subseteq GroupObjs
  BY FieldTypes
<1>2. t = [s EXCEPT !.usernames = [g \in GroupObjs |-> IF g \in live THEN @[g] ELSE {}],
                    !.members = [g \in GroupObjs |-> IF g \in live THEN @[g] ELSE {}],
                    !.default_group = IF @ \in live \cup {Null} THEN @ ELSE Dangling]
  BY DEF Settle
<1> HIDE DEF live, t
<1>3. /\ t.usernames = [g \in GroupObjs |-> IF g \in live THEN s.usernames[g] ELSE {}]
      /\ t.members = [g \in GroupObjs |-> IF g \in live THEN s.members[g] ELSE {}]
      /\ t.default_group = IF s.default_group \in live \cup {Null} THEN s.default_group
                           ELSE Dangling
      /\ SameLists(s, t)
      /\ DOMAIN t = DOMAIN s
  BY <1>2 DEF Library, SameLists
<1>4. /\ t.usernames \in [GroupObjs -> SUBSET Logins]
      /\ t.members \in [GroupObjs -> SUBSET UserObjs]
      /\ t.default_group \in GroupObjs \cup {Null, Dangling}
  BY <1>1, <1>3
<1>5. t \in Library
  BY <1>2, <1>4 DEF Library
<1>6. LiveGroups(t) = live
  BY <1>3 DEF LiveGroups, SameLists, live
<1>7. BlankRest(t)
  BY <1>3, <1>6 DEF BlankRest
<1> QED BY <1>1, <1>3, <1>5, <1>6, <1>7 DEF t, live

LEMMA SettleObjectsOK ==
    ASSUME NEW s \in Library, DefaultLive(s)
    PROVE  ObjectsOK(Settle(s))
<1> DEFINE t == Settle(s)
<1>1. /\ t \in Library /\ SameLists(s, t) /\ LiveGroups(t) = LiveGroups(s) /\ BlankRest(t)
      /\ s.default_group \in LiveGroups(s) \cup {Null} => t.default_group = s.default_group
  BY SettleProperties
<1> HIDE DEF t
<1>2. DefaultLive(t)
  BY <1>1 DEF DefaultLive, SameLists
<1> QED BY <1>1, <1>2 DEF ObjectsOK, t

LEMMA LookupFinds ==
    ASSUME NEW s \in Library, NEW logins
    PROVE  /\ Lookup(s, logins) \subseteq UserObjs
           /\ DistinctLogins(s.users) => Lookup(s, logins) = Found(s.users, logins)
<1>1. s.users \in Seq(UserObjs) /\ ToSet(s.users) \subseteq UserObjs
  BY FieldTypes
<1>2. ASSUME DistinctLogins(s.users), NEW u \in ToSet(s.users)
      PROVE  s.users[SelectInSeq(s.users, LAMBDA v : v.login = u.login)] = u
  <2> DEFINE I == {i \in 1..Len(s.users) : s.users[i].login = u.login}
  <2>1. PICK i \in 1..Len(s.users) : s.users[i] = u
    BY <1>1, ToSetProperties
  <2>2. I = {i}
    BY <1>2, <2>1 DEF DistinctLogins
  <2>3. Min(I) = i
    <3>1. Min({i}) \in {i}
      BY LeastOfNat
    <3> QED BY <2>2, <3>1
  <2>4. SelectInSeq(s.users, LAMBDA v : v.login = u.login) = i
    BY <2>2, <2>3 DEF SelectInSeq
  <2> QED BY <2>1, <2>4
<1>3. Lookup(s, logins) \subseteq ToSet(s.users)
  BY DEF Lookup
<1>4. ASSUME DistinctLogins(s.users)
      PROVE  Lookup(s, logins) = Found(s.users, logins)
  BY <1>2, <1>4 DEF Lookup, Found
<1> QED BY <1>1, <1>3, <1>4

\* Which group the pointer is set to.
LEMMA GroupsUpdatedProperties ==
    ASSUME NEW s \in Library
    PROVE  /\ GroupsUpdated(s) \in Library /\ SameLists(s, GroupsUpdated(s))
           /\ GroupsUpdated(s).usernames = s.usernames
           /\ GroupsUpdated(s).members = s.members
           /\ s.default_gid # NoGid =>
                 GroupsUpdated(s).default_group \in ToSet(s.groups) \cup {Null}
           /\ s.default_gid = NoGid => GroupsUpdated(s) = s
<1> DEFINE t == GroupsUpdated(s)
           I == {i \in 1..Len(s.groups) : s.groups[i].name = s.default_gid}
<1>1. s.groups \in Seq(GroupObjs) /\ ToSet(s.groups) \subseteq GroupObjs
  BY FieldTypes
<1>2. CASE s.default_gid = NoGid
  BY <1>2 DEF GroupsUpdated, SameLists
<1>3. CASE s.default_gid # NoGid
  <2>1. SelectInSeq(s.groups, LAMBDA g : g.name = s.default_gid) = IF I # {} THEN Min(I) ELSE 0
    BY DEF SelectInSeq
  <2>2. I # {} => Min(I) \in 1..Len(s.groups)
    <3>1. I \in SUBSET Nat /\ I \subseteq 1..Len(s.groups)
      OBVIOUS
    <3> HIDE DEF I
    <3> QED BY <3>1, LeastOfNat
  <2> HIDE DEF I
  <2>3. PICK d \in ToSet(s.groups) \cup {Null} : t = [s EXCEPT !.default_group = d]
    <3>1. t = [s EXCEPT !.default_group =
                 IF SelectInSeq(s.groups, LAMBDA g : g.name = s.default_gid) = 0 THEN Null
                 ELSE s.groups[SelectInSeq(s.groups, LAMBDA g : g.name = s.default_gid)]]
      BY <1>3 DEF GroupsUpdated
    <3>2. CASE I = {}
      BY <2>1, <3>1, <3>2
    <3>3. CASE I # {}
      <4>1. Min(I) # 0 /\ s.groups[Min(I)] \in ToSet(s.groups)
        BY <1>1, <2>2, <3>3, ToSetProperties
      <4> QED BY <2>1, <3>1, <3>3, <4>1
    <3> QED BY <3>2, <3>3
  <2> HIDE DEF t
  <2>4. /\ t.default_group = d /\ SameLists(s, t)
        /\ t.usernames = s.usernames /\ t.members = s.members
    BY <2>3 DEF Library, SameLists
  <2>5. t \in Library
    BY <1>1, <2>3 DEF Library
  <2> QED BY <1>3, <2>4, <2>5 DEF t
<1> QED BY <1>2, <1>3

\* The new objects of an update, if there is room for them.
LEMMA FreshUserProperties ==
    ASSUME NEW s, NEW x \in Locals, \E u \in UserObjs \ LiveUsers(s) : u.login = x
    PROVE  FreshUser(s, x) \in UserObjs \ LiveUsers(s) /\ FreshUser(s, x).login = x
<1>1. PICK u \in UserObjs \ LiveUsers(s) : u.login = x
  OBVIOUS
<1>2. u = [login |-> x, copy |-> u.copy] /\ u.copy \in 1..Copies
  BY <1>1 DEF UserObjs
<1>3. \E k \in 1..Copies : [login |-> x, copy |-> k] \notin LiveUsers(s)
  BY <1>1, <1>2
<1> DEFINE k == CHOOSE k \in 1..Copies : [login |-> x, copy |-> k] \notin LiveUsers(s)
<1>4. k \in 1..Copies /\ [login |-> x, copy |-> k] \notin LiveUsers(s)
  BY <1>3
<1> QED BY <1>4 DEF FreshUser, UserObjs

LEMMA FreshGroupProperties ==
    ASSUME NEW s, NEW x \in Names, \E g \in GroupObjs \ LiveGroups(s) : g.name = x
    PROVE  FreshGroup(s, x) \in GroupObjs \ LiveGroups(s) /\ FreshGroup(s, x).name = x
<1>1. PICK g \in GroupObjs \ LiveGroups(s) : g.name = x
  OBVIOUS
<1>2. g = [name |-> x, copy |-> g.copy] /\ g.copy \in 1..Copies
  BY <1>1 DEF GroupObjs
<1>3. \E k \in 1..Copies : [name |-> x, copy |-> k] \notin LiveGroups(s)
  BY <1>1, <1>2
<1> DEFINE k == CHOOSE k \in 1..Copies : [name |-> x, copy |-> k] \notin LiveGroups(s)
<1>4. k \in 1..Copies /\ [name |-> x, copy |-> k] \notin LiveGroups(s)
  BY <1>3
<1> QED BY <1>4 DEF FreshGroup, GroupObjs

LEMMA FiniteObjects == IsFiniteSet(UserObjs) /\ IsFiniteSet(GroupObjs)
<1>1. IsFiniteSet(Locals \X (1..Copies)) /\ IsFiniteSet(Names \X (1..Copies))
  <2>1. IsFiniteSet(1..Copies)
    BY BoundsAssumption, FS_Interval
  <2> QED BY <2>1, FiniteAssumption, FS_Product
<1> DEFINE fu == [p \in Locals \X (1..Copies) |-> [login |-> p[1], copy |-> p[2]]]
           fg == [p \in Names \X (1..Copies) |-> [name |-> p[1], copy |-> p[2]]]
<1>2. fu \in Surjection(Locals \X (1..Copies), UserObjs)
  <2>1. \A u \in UserObjs : \E p \in Locals \X (1..Copies) : fu[p] = u
    <3> TAKE u \in UserObjs
    <3>1. u.login \in Locals /\ u.copy \in 1..Copies /\ u = [login |-> u.login, copy |-> u.copy]
      BY DEF UserObjs
    <3>2. <<u.login, u.copy>> \in Locals \X (1..Copies) /\ fu[<<u.login, u.copy>>] = u
      BY <3>1
    <3> QED BY <3>2
  <2>2. fu \in [Locals \X (1..Copies) -> UserObjs]
    BY DEF UserObjs
  <2> QED BY <2>1, <2>2 DEF Surjection
<1>3. fg \in Surjection(Names \X (1..Copies), GroupObjs)
  <2>1. \A g \in GroupObjs : \E p \in Names \X (1..Copies) : fg[p] = g
    <3> TAKE g \in GroupObjs
    <3>1. g.name \in Names /\ g.copy \in 1..Copies /\ g = [name |-> g.name, copy |-> g.copy]
      BY DEF GroupObjs
    <3>2. <<g.name, g.copy>> \in Names \X (1..Copies) /\ fg[<<g.name, g.copy>>] = g
      BY <3>1
    <3> QED BY <3>2
  <2>2. fg \in [Names \X (1..Copies) -> GroupObjs]
    BY DEF GroupObjs
  <2> QED BY <2>1, <2>2 DEF Surjection
<1> HIDE DEF fu, fg
<1> QED BY <1>1, <1>2, <1>3, FS_Surjection

-----------------------------------------------------------------------------
(* The update handlers *)

RoomForUsers(s) == \A x \in Locals : \E u \in UserObjs \ LiveUsers(s) : u.login = x

\* What an update of the users leaves: one user per login of the answer, and
\* every group alive caches the users that its member names stand for.
LEMMA ApplyUsersProperties ==
    ASSUME NEW s, ObjectsOK(s), RoomForUsers(s), NEW reply,
           reply.users \in SUBSET Locals, reply.default \in Names \cup {NoGid}
    PROVE  /\ ObjectsOK(ApplyUsers(s, reply))
           /\ ApplyUsers(s, reply).groups = s.groups
           /\ ApplyUsers(s, reply).users_updated
           /\ ApplyUsers(s, reply).held = s.held
           /\ DistinctLogins(ApplyUsers(s, reply).users)
           /\ \A u \in ToSet(ApplyUsers(s, reply).users) : u.login \in reply.users
           /\ \A g \in ToSet(s.groups) :
                 /\ ApplyUsers(s, reply).usernames[g] = s.usernames[g]
                 /\ ApplyUsers(s, reply).members[g] =
                       Found(ApplyUsers(s, reply).users, s.usernames[g])
<1> DEFINE cleared == [s EXCEPT !.users = <<>>, !.users_updated = TRUE]
           new == {FreshUser(cleared, x) : x \in reply.users}
           filled == [cleared EXCEPT !.users = SetToSeq(new), !.default_gid = reply.default]
           joined == IF s.groups_updated THEN GroupsUpdated(filled) ELSE filled
           told == UsersUpdated(joined)
<1>1. s \in Library /\ BlankRest(s) /\ DefaultLive(s)
  BY DEF ObjectsOK
<1>2. /\ cleared \in Library
      /\ cleared.members = s.members /\ cleared.leaked = s.leaked /\ cleared.held = s.held
      /\ cleared.groups = s.groups /\ cleared.usernames = s.usernames
      /\ cleared.users = <<>> /\ cleared.users_updated = TRUE
      /\ cleared.groups_updated = s.groups_updated /\ cleared.default_group = s.default_group
  <2> DEFINE none == <<>>
  <2>1. none \in Seq(UserObjs)
    OBVIOUS
  <2>2. cleared = [s EXCEPT !.users = none, !.users_updated = TRUE]
    OBVIOUS
  <2> HIDE DEF none, cleared
  <2> QED BY <1>1, <2>1, <2>2 DEF Library, none
<1>3. /\ new \subseteq UserObjs
      /\ \A u \in new : u.login \in reply.users
      /\ \A u, v \in new : u.login = v.login => u = v
  <2>1. LiveUsers(cleared) \subseteq LiveUsers(s)
    BY <1>2 DEF LiveUsers, LiveGroups, ToSet
  <2> HIDE DEF cleared
  <2>2. \A x \in Locals : \E u \in UserObjs \ LiveUsers(cleared) : u.login = x
    BY <2>1 DEF RoomForUsers
  <2>3. \A x \in reply.users : FreshUser(cleared, x) \in UserObjs /\ FreshUser(cleared, x).login = x
    BY <2>2, FreshUserProperties
  <2> QED BY <2>3
<1> DEFINE users == SetToSeq(new)
<1> HIDE DEF new
<1>4. /\ users \in Seq(UserObjs) /\ ToSet(users) = new /\ DistinctLogins(users)
  <2>1. IsFiniteSet(new)
    BY <1>3, FiniteObjects, FS_Subset
  <2>2. /\ users \in Seq(new) /\ ToSet(users) = new
        /\ \A i, j \in 1..Len(users) : users[i] = users[j] => i = j
    BY <2>1, SetToSeqProperties
  <2> HIDE DEF users
  <2>3. users \in Seq(UserObjs)
    BY <1>3, <2>2
  <2>4. \A i \in 1..Len(users) : users[i] \in new
    BY <2>2
  <2> QED BY <1>3, <2>2, <2>3, <2>4 DEF DistinctLogins
<1> HIDE DEF cleared, users
<1>5. /\ filled \in Library
      /\ filled.users = users /\ filled.default_gid = reply.default
      /\ filled.members = s.members /\ filled.leaked = s.leaked /\ filled.held = s.held
      /\ filled.groups = s.groups /\ filled.usernames = s.usernames
      /\ filled.users_updated = TRUE
      /\ filled.groups_updated = s.groups_updated /\ filled.default_group = s.default_group
  BY <1>2, <1>4 DEF Library, users
<1> HIDE DEF filled
<1>6. /\ joined \in Library
      /\ joined.users = users
      /\ joined.members = s.members /\ joined.leaked = s.leaked /\ joined.held = s.held
      /\ joined.groups = s.groups /\ joined.usernames = s.usernames
      /\ joined.users_updated = TRUE /\ joined.groups_updated = s.groups_updated
      /\ DefaultLive(joined)
  <2>1. CASE s.groups_updated
    <3>1. DefaultLive(joined)
      BY <1>5, <2>1, GroupsUpdatedProperties DEF DefaultLive, LiveGroups, SameLists
    <3> QED BY <1>5, <2>1, <3>1, GroupsUpdatedProperties DEF SameLists
  <2>2. CASE ~s.groups_updated
    <3>1. DefaultLive(joined)
      BY <1>1, <1>5, <2>2 DEF DefaultLive
    <3> QED BY <1>5, <2>2, <3>1
  <2> QED BY <2>1, <2>2
<1> HIDE DEF joined
<1>7. LiveGroups(joined) \subseteq GroupObjs /\ ToSet(s.groups) \subseteq LiveGroups(joined)
  BY <1>6, FieldTypes DEF LiveGroups
<1>8. /\ told \in Library /\ SameLists(joined, told)
      /\ told.usernames = s.usernames
      /\ told.default_group = joined.default_group
      /\ \A g \in LiveGroups(joined) : told.members[g] = Found(users, s.usernames[g])
  <2> DEFINE m == [g \in GroupObjs |-> IF g \in LiveGroups(joined)
                                       THEN Lookup(joined, joined.usernames[g])
                                       ELSE joined.members[g]]
  <2>1. told = [joined EXCEPT !.members = m]
    BY DEF UsersUpdated
  <2>2. m \in [GroupObjs -> SUBSET UserObjs]
    BY <1>6, FieldTypes, LookupFinds
  <2>3. \A g \in LiveGroups(joined) : m[g] = Found(users, s.usernames[g])
    BY <1>4, <1>6, <1>7, LookupFinds
  <2> HIDE DEF m
  <2>4. told.members = m /\ SameLists(joined, told) /\ told.usernames = joined.usernames
        /\ told.default_group = joined.default_group
    BY <1>6, <2>1 DEF Library, SameLists
  <2>5. told \in Library
    BY <1>6, <2>1, <2>2 DEF Library
  <2> QED BY <1>6, <2>3, <2>4, <2>5
<1> HIDE DEF told
<1>9. LiveGroups(told) = LiveGroups(joined) /\ DefaultLive(told)
  BY <1>6, <1>8 DEF LiveGroups, DefaultLive, SameLists
<1>10. ApplyUsers(s, reply) = Settle(told)
  BY DEF ApplyUsers, told, joined, filled, users, new, cleared
<1>11. ObjectsOK(Settle(told))
  BY <1>8, <1>9, SettleObjectsOK
<1>12. /\ SameLists(told, Settle(told))
       /\ \A g \in LiveGroups(told) : /\ Settle(told).usernames[g] = told.usernames[g]
                                      /\ Settle(told).members[g] = told.members[g]
  BY <1>8, SettleProperties
<1>13. Settle(told).users = users /\ Settle(told).groups = s.groups
       /\ Settle(told).users_updated /\ Settle(told).held = s.held
  BY <1>6, <1>8, <1>12 DEF SameLists
<1>14. \A g \in ToSet(s.groups) : /\ Settle(told).usernames[g] = s.usernames[g]
                                  /\ Settle(told).members[g] = Found(users, s.usernames[g])
  BY <1>7, <1>8, <1>9, <1>12
<1> QED BY <1>3, <1>4, <1>10, <1>11, <1>13, <1>14

RoomForGroups(s) == \A x \in Names : \E g \in GroupObjs \ s.leaked : g.name = x

\* What an update of the groups leaves: the groups of the answer, whose caches
\* are filled if the users are known.
LEMMA ApplyGroupsProperties ==
    ASSUME NEW s, ObjectsOK(s), RoomForGroups(s), NEW reply, IsGroupFile(reply)
    PROVE  /\ ObjectsOK(ApplyGroups(s, reply))
           /\ ApplyGroups(s, reply).users = s.users
           /\ ApplyGroups(s, reply).users_updated = s.users_updated
           /\ ApplyGroups(s, reply).held = s.held
           /\ \A g \in ToSet(ApplyGroups(s, reply).groups) :
                 /\ g.name \in DOMAIN reply
                 /\ ApplyGroups(s, reply).usernames[g] = reply[g.name]
                 /\ s.users_updated /\ DistinctLogins(s.users) =>
                       ApplyGroups(s, reply).members[g] = Found(s.users, reply[g.name])
           /\ DistinctNames(ApplyGroups(s, reply))
<1> DEFINE emptied == [s EXCEPT !.groups = <<>>, !.groups_updated = TRUE]
           cleared == Settle(emptied)
           new == {FreshGroup(cleared, x) : x \in DOMAIN reply}
           names == [g \in GroupObjs |-> IF g \in new THEN reply[g.name] ELSE cleared.usernames[g]]
           cache == [g \in GroupObjs |-> IF g \in new /\ s.users_updated
                                         THEN Lookup(s, reply[g.name]) ELSE cleared.members[g]]
           filled == [cleared EXCEPT !.groups = SetToSeq(new),
                                     !.usernames = names, !.members = cache]
           joined == GroupsUpdated(filled)
<1>1. s \in Library /\ BlankRest(s) /\ DefaultLive(s) /\ DOMAIN reply \subseteq Names
      /\ \A n \in DOMAIN reply : reply[n] \subseteq Logins
  BY DEF ObjectsOK, IsGroupFile
<1>2. /\ emptied \in Library /\ emptied.groups = <<>> /\ emptied.leaked = s.leaked
      /\ emptied.users = s.users /\ emptied.users_updated = s.users_updated
      /\ emptied.groups_updated = TRUE /\ emptied.held = s.held
  <2> DEFINE none == <<>>
  <2>1. none \in Seq(GroupObjs)
    OBVIOUS
  <2>2. emptied = [s EXCEPT !.groups = none, !.groups_updated = TRUE]
    OBVIOUS
  <2> HIDE DEF none, emptied
  <2> QED BY <1>1, <2>1, <2>2 DEF Library, none
<1> HIDE DEF emptied
<1>3. /\ cleared \in Library /\ cleared.groups = <<>> /\ cleared.leaked = s.leaked
      /\ cleared.users = s.users /\ cleared.users_updated = s.users_updated
      /\ cleared.groups_updated = TRUE /\ cleared.held = s.held
  BY <1>2, SettleProperties DEF SameLists
<1> HIDE DEF cleared
<1>4. /\ new \subseteq GroupObjs
      /\ \A g \in new : g.name \in DOMAIN reply
      /\ \A g, h \in new : g.name = h.name => g = h
  <2>1. LiveGroups(cleared) = s.leaked
    BY <1>3 DEF LiveGroups, ToSet
  <2>2. \A x \in DOMAIN reply : FreshGroup(cleared, x) \in GroupObjs
                                /\ FreshGroup(cleared, x).name = x
    BY <1>1, <2>1, FreshGroupProperties DEF RoomForGroups
  <2> QED BY <2>2
<1> DEFINE groups == SetToSeq(new)
<1> HIDE DEF new
<1>5. groups \in Seq(GroupObjs) /\ ToSet(groups) = new
  <2>1. IsFiniteSet(new)
    BY <1>4, FiniteObjects, FS_Subset
  <2>2. groups \in Seq(new) /\ ToSet(groups) = new
    BY <2>1, SetToSeqProperties
  <2> HIDE DEF groups
  <2> QED BY <1>4, <2>2
<1>6. names \in [GroupObjs -> SUBSET Logins] /\ \A g \in new : names[g] = reply[g.name]
  <2>1. cleared.usernames \in [GroupObjs -> SUBSET Logins]
    BY <1>3, FieldTypes
  <2> QED BY <1>1, <1>4, <2>1
<1>7. /\ cache \in [GroupObjs -> SUBSET UserObjs]
      /\ \A g \in new : s.users_updated /\ DistinctLogins(s.users) =>
                           cache[g] = Found(s.users, reply[g.name])
  <2>1. cleared.members \in [GroupObjs -> SUBSET UserObjs]
    BY <1>3, FieldTypes
  <2> QED BY <1>1, <1>4, <2>1, LookupFinds
<1> HIDE DEF names, cache, groups
<1>8. /\ filled.groups = groups /\ filled.usernames = names /\ filled.members = cache
      /\ filled.leaked = s.leaked /\ filled.users = s.users /\ filled.held = s.held
      /\ filled.users_updated = s.users_updated /\ filled.groups_updated = TRUE
  BY <1>3 DEF Library, groups
<1>9. filled \in Library
  BY <1>3, <1>5, <1>6, <1>7 DEF Library, groups
<1> HIDE DEF filled
<1>10. /\ joined \in Library /\ SameLists(filled, joined)
       /\ joined.usernames = names /\ joined.members = cache
       /\ DefaultLive(joined)
  <2>1. /\ joined \in Library /\ SameLists(filled, joined)
        /\ joined.usernames = names /\ joined.members = cache
        /\ filled.default_gid # NoGid => joined.default_group \in ToSet(groups) \cup {Null}
    BY <1>8, <1>9, GroupsUpdatedProperties
  <2> HIDE DEF joined
  <2> QED BY <1>8, <2>1 DEF DefaultLive, LiveGroups, SameLists
<1> HIDE DEF joined
<1>11. ApplyGroups(s, reply) = Settle(joined)
  <2>1. filled = [cleared EXCEPT
                     !.groups = SetToSeq(new),
                     !.usernames = [g \in GroupObjs |-> IF g \in new THEN reply[g.name] ELSE @[g]],
                     !.members = [g \in GroupObjs |-> IF g \in new /\ s.users_updated
                                  THEN Lookup(s, reply[g.name]) ELSE @[g]]]
    BY DEF filled, names, cache
  <2> QED BY <2>1 DEF ApplyGroups, joined, new, cleared, emptied
<1>12. ObjectsOK(Settle(joined))
  BY <1>10, SettleObjectsOK
<1>13. /\ SameLists(joined, Settle(joined))
       /\ \A g \in LiveGroups(joined) : /\ Settle(joined).usernames[g] = joined.usernames[g]
                                        /\ Settle(joined).members[g] = joined.members[g]
  BY <1>10, SettleProperties
<1>14. /\ Settle(joined).users = s.users /\ Settle(joined).groups = groups
       /\ Settle(joined).users_updated = s.users_updated /\ Settle(joined).held = s.held
       /\ new \subseteq LiveGroups(joined)
  BY <1>5, <1>8, <1>10, <1>13 DEF SameLists, LiveGroups
<1>15. \A g \in new : /\ Settle(joined).usernames[g] = reply[g.name]
                      /\ Settle(joined).members[g] = cache[g]
  BY <1>6, <1>10, <1>13, <1>14
<1> QED BY <1>4, <1>5, <1>7, <1>11, <1>12, <1>14, <1>15 DEF DistinctNames

-----------------------------------------------------------------------------
(* The objects, after each action *)

LEMMA RoomParts ==
    ASSUME Room(lib)
    PROVE  RoomForUsers(lib) /\ RoomForGroups(lib)
  BY DEF Room, RoomForUsers, RoomForGroups

\* The users configuration after oobs_list_append, before the groups follow.
Appended(u) == [lib EXCEPT !.users = Append(@, u)]

LEMMA AppendedProperties ==
    ASSUME Inv, NEW u \in UserObjs
    PROVE  /\ ObjectsOK(Appended(u))
           /\ Appended(u).users = Append(lib.users, u)
           /\ Appended(u).leaked = lib.leaked
           /\ Appended(u).users_updated = lib.users_updated
           /\ Appended(u).groups = lib.groups
           /\ Appended(u).usernames = lib.usernames /\ Appended(u).members = lib.members
<1> DEFINE s == Appended(u)
           users == Append(lib.users, u)
<1>1. lib \in Library /\ users \in Seq(UserObjs)
  BY FieldTypes DEF Inv, TypeOK
<1>2. s = [lib EXCEPT !.users = users]
  BY DEF Appended
<1> HIDE DEF s, users
<1>3. /\ s \in Library /\ s.users = users /\ s.leaked = lib.leaked
      /\ s.users_updated = lib.users_updated
      /\ s.groups = lib.groups /\ s.usernames = lib.usernames /\ s.members = lib.members
      /\ s.default_gid = lib.default_gid /\ s.default_group = lib.default_group
      /\ s.groups_updated = lib.groups_updated
  BY <1>1, <1>2 DEF Library
<1>4. ObjectsOK(s)
  BY <1>3 DEF Inv, ObjectsOK, BlankRest, DefaultLive, LiveGroups
<1> QED BY <1>3, <1>4 DEF s, users

\* The user that oobs_users_config_delete_user is called for stays alive.
Held(u) == [lib EXCEPT !.held = {u}]

LEMMA HeldProperties ==
    ASSUME Inv, NEW u \in ToSet(lib.users)
    PROVE  /\ ObjectsOK(Held(u))
           /\ Room(lib) => RoomForUsers(Held(u))
           /\ Held(u).users = lib.users /\ Held(u).groups = lib.groups
           /\ Held(u).usernames = lib.usernames /\ Held(u).members = lib.members
           /\ Held(u).users_updated = lib.users_updated
<1> DEFINE s == Held(u)
<1>1. lib \in Library /\ u \in UserObjs
  BY FieldTypes DEF Inv, TypeOK
<1>2. s = [lib EXCEPT !.held = {u}]
  BY DEF Held
<1> HIDE DEF s
<1>3. /\ s \in Library /\ s.users = lib.users /\ s.leaked = lib.leaked /\ s.held = {u}
      /\ s.users_updated = lib.users_updated
      /\ s.groups = lib.groups /\ s.usernames = lib.usernames /\ s.members = lib.members
      /\ s.default_gid = lib.default_gid /\ s.default_group = lib.default_group
      /\ s.groups_updated = lib.groups_updated
  BY <1>1, <1>2 DEF Library
<1>4. ObjectsOK(s)
  BY <1>3 DEF Inv, ObjectsOK, BlankRest, DefaultLive, LiveGroups
<1>5. LiveUsers(s) \subseteq LiveUsers(lib)
  BY <1>3 DEF LiveUsers, LiveGroups
<1>6. Room(lib) => RoomForUsers(s)
  BY <1>5 DEF Room, RoomForUsers
<1> QED BY <1>3, <1>4, <1>6 DEF s

\* The groups and then the list of users lose a user.
Deleted(s, u) == Settle([RemoveFromGroups(s, u) EXCEPT !.users = RemoveFirst(@, u), !.held = {}])

LEMMA DeletedProperties ==
    ASSUME NEW s, ObjectsOK(s), NEW u \in UserObjs
    PROVE  /\ ObjectsOK(Deleted(s, u))
           /\ Deleted(s, u).users = RemoveFirst(s.users, u)
           /\ Deleted(s, u).groups = s.groups
           /\ Deleted(s, u).users_updated = s.users_updated
           /\ \A g \in ToSet(s.groups) :
                 /\ Deleted(s, u).usernames[g] = s.usernames[g] \ {u.login}
                 /\ Deleted(s, u).members[g] = s.members[g] \ {u}
<1> DEFINE in == ToSet(s.groups)
           names == [g \in GroupObjs |-> IF g \in in THEN s.usernames[g] \ {u.login}
                                         ELSE s.usernames[g]]
           cache == [g \in GroupObjs |-> IF g \in in THEN s.members[g] \ {u} ELSE s.members[g]]
           users == RemoveFirst(s.users, u)
           t == [s EXCEPT !.usernames = names, !.members = cache, !.users = users, !.held = {}]
<1>1. s \in Library /\ BlankRest(s) /\ DefaultLive(s)
  BY DEF ObjectsOK
<1>2. /\ s.usernames \in [GroupObjs -> SUBSET Logins]
      /\ s.members \in [GroupObjs -> SUBSET UserObjs]
      /\ in \subseteq GroupObjs /\ s.users \in Seq(UserObjs)
  BY <1>1, FieldTypes
<1>3. /\ names \in [GroupObjs -> SUBSET Logins] /\ cache \in [GroupObjs -> SUBSET UserObjs]
      /\ users \in Seq(UserObjs)
  BY <1>2, RemoveFirstElements
<1>4. Deleted(s, u) = Settle(t)
  <2>1. RemoveFromGroups(s, u) = [s EXCEPT !.usernames = names, !.members = cache]
    BY DEF RemoveFromGroups
  <2> HIDE DEF names, cache
  <2>2. [s EXCEPT !.usernames = names, !.members = cache].users = s.users
    BY <1>1 DEF Library
  <2>3. [RemoveFromGroups(s, u) EXCEPT !.users = RemoveFirst(@, u), !.held = {}]
        = [RemoveFromGroups(s, u) EXCEPT !.users = users, !.held = {}]
    BY <2>1, <2>2
  <2> HIDE DEF users
  <2>4. [[s EXCEPT !.usernames = names, !.members = cache] EXCEPT !.users = users, !.held = {}] = t
    OBVIOUS
  <2> QED BY <2>1, <2>3, <2>4 DEF Deleted
<1> HIDE DEF names, cache, users, t, in
<1>5. /\ t \in Library /\ t.users = users /\ t.groups = s.groups /\ t.leaked = s.leaked
      /\ t.usernames = names /\ t.members = cache
      /\ t.users_updated = s.users_updated /\ t.groups_updated = s.groups_updated
      /\ t.default_gid = s.default_gid /\ t.default_group = s.default_group
  BY <1>1, <1>3 DEF Library, t
<1>6. DefaultLive(t)
  BY <1>1, <1>5 DEF DefaultLive, LiveGroups
<1>7. ObjectsOK(Settle(t))
  BY <1>5, <1>6, SettleObjectsOK
<1>8. /\ SameLists(t, Settle(t))
      /\ \A g \in LiveGroups(t) : /\ Settle(t).usernames[g] = t.usernames[g]
                                  /\ Settle(t).members[g] = t.members[g]
  BY <1>5, SettleProperties
<1>9. in \subseteq LiveGroups(t)
  BY <1>5 DEF LiveGroups, in
<1>10. \A g \in in : /\ names[g] = s.usernames[g] \ {u.login}
                     /\ cache[g] = s.members[g] \ {u}
  BY <1>2 DEF names, cache
<1> QED BY <1>4, <1>5, <1>7, <1>8, <1>9, <1>10 DEF SameLists, users, in

LEMMA DeleteUserSteps ==
    ASSUME Inv, NEW u \in UserObjs, DeleteUser(u)
    PROVE  /\ u \in ToSet(lib.users) /\ u.login \in sys_users /\ MayChange
           /\ sys_users' = sys_users \ {u.login}
           /\ sys_groups' = [n \in DOMAIN sys_groups |-> sys_groups[n] \ {u.login}]
           /\ UNCHANGED <<sys_default, get_groups>>
           /\ IF lib.users_updated
              THEN get_users' = get_users /\ lib' = Deleted(Held(u), u)
              ELSE /\ get_users' = NoUsersGet
                   /\ lib' = Deleted(ApplyUsers(Held(u),
                                 IF get_users.pending THEN get_users
                                 ELSE [users |-> sys_users', default |-> sys_default]), u)
  BY DEF DeleteUser, Deleted, Held

LEMMA AddedGroupProperties ==
    ASSUME Inv, Room(lib), NEW n \in Names, n \notin {g.name : g \in ToSet(lib.groups)},
           lib' = [lib EXCEPT !.groups = Append(@, FreshGroup(lib, n))]
    PROVE  /\ ObjectsOK(lib')
           /\ FreshGroup(lib, n).name = n
           /\ lib'.users = lib.users /\ lib'.users_updated = lib.users_updated
           /\ lib'.usernames = lib.usernames /\ lib'.members = lib.members
           /\ ToSet(lib'.groups) = ToSet(lib.groups) \cup {FreshGroup(lib, n)}
           /\ lib'.usernames[FreshGroup(lib, n)] = {} /\ lib'.members[FreshGroup(lib, n)] = {}
<1> DEFINE f == FreshGroup(lib, n)
           groups == Append(lib.groups, f)
<1>1. lib \in Library /\ BlankRest(lib) /\ DefaultLive(lib)
  BY DEF Inv, ObjectsOK
<1>2. f \in GroupObjs \ LiveGroups(lib) /\ f.name = n
  <2>1. \E g \in GroupObjs \ LiveGroups(lib) : g.name = n
    BY DEF Room, LiveGroups
  <2> QED BY <2>1, FreshGroupProperties
<1> HIDE DEF f
<1>3. groups \in Seq(GroupObjs) /\ ToSet(groups) = ToSet(lib.groups) \cup {f}
  BY <1>1, <1>2, FieldTypes, AppendElements
<1>4. lib' = [lib EXCEPT !.groups = groups]
  BY DEF f
<1> HIDE DEF groups
<1>5. /\ lib' \in Library /\ lib'.groups = groups /\ lib'.leaked = lib.leaked
      /\ lib'.users = lib.users /\ lib'.users_updated = lib.users_updated
      /\ lib'.usernames = lib.usernames /\ lib'.members = lib.members
      /\ lib'.default_gid = lib.default_gid /\ lib'.default_group = lib.default_group
      /\ lib'.groups_updated = lib.groups_updated
  BY <1>1, <1>3, <1>4 DEF Library
<1>6. LiveGroups(lib') = LiveGroups(lib) \cup {f}
  BY <1>3, <1>5 DEF LiveGroups
<1>7. ObjectsOK(lib')
  BY <1>1, <1>5, <1>6 DEF ObjectsOK, BlankRest, DefaultLive
<1>8. lib.usernames[f] = {} /\ lib.members[f] = {}
  BY <1>1, <1>2 DEF BlankRest
<1> QED BY <1>2, <1>3, <1>5, <1>7, <1>8 DEF f

\* The groups that oobs_groups_config_delete_group has leaked stay alive, the
\* deleted group among them.
LEMMA DeletedGroupProperties ==
    ASSUME Inv, NEW g \in ToSet(lib.groups),
           lib' = Settle([lib EXCEPT !.leaked = @ \cup Walked(lib, g),
                                     !.groups = RemoveFirst(@, g)])
    PROVE  /\ ObjectsOK(lib')
           /\ lib'.users = lib.users /\ lib'.users_updated = lib.users_updated
           /\ ToSet(lib'.groups) \subseteq ToSet(lib.groups)
           /\ \A h \in ToSet(lib'.groups) : /\ lib'.usernames[h] = lib.usernames[h]
                                            /\ lib'.members[h] = lib.members[h]
<1> DEFINE walked == Walked(lib, g)
           groups == RemoveFirst(lib.groups, g)
           leaked == lib.leaked \cup walked
           s == [lib EXCEPT !.leaked = leaked, !.groups = groups]
<1>1. /\ lib \in Library /\ BlankRest(lib) /\ DefaultLive(lib)
      /\ lib.groups \in Seq(GroupObjs) /\ lib.leaked \subseteq GroupObjs
      /\ ToSet(lib.groups) \subseteq GroupObjs
  BY FieldTypes DEF Inv, ObjectsOK
<1>2. /\ groups \in Seq(GroupObjs) /\ ToSet(groups) \subseteq ToSet(lib.groups)
      /\ ToSet(lib.groups) \subseteq ToSet(groups) \cup {g}
  BY <1>1, RemoveFirstElements
<1>3. g \in walked /\ walked \subseteq ToSet(lib.groups)
  <2> DEFINE I == {i \in 1..Len(lib.groups) : lib.groups[i] = g}
             m == Min(I)
  <2>1. I # {} /\ I \in SUBSET Nat
    BY <1>1, ToSetProperties
  <2>2. m \in 1..Len(lib.groups) /\ lib.groups[m] = g
    <3>1. m \in I
      <4> HIDE DEF I
      <4> QED BY <2>1, LeastOfNat
    <3> QED BY <3>1
  <2>3. SelectInSeq(lib.groups, LAMBDA h : h = g) = m
    BY <2>1 DEF SelectInSeq
  <2> HIDE DEF I, m
  <2> DEFINE q == SubSeq(lib.groups, 1, m)
  <2>4. walked = ToSet(q)
    BY <2>3 DEF Walked
  <2>5. Len(q) = m /\ q \in Seq(GroupObjs) /\ \A i \in 1..m : q[i] = lib.groups[i]
    BY <1>1, <2>2
  <2> HIDE DEF q
  <2>6. g \in ToSet(q)
    BY <2>2, <2>5, ToSetProperties
  <2>7. ToSet(q) \subseteq ToSet(lib.groups)
    <3> SUFFICES ASSUME NEW e \in ToSet(q) PROVE e \in ToSet(lib.groups)
      OBVIOUS
    <3>1. PICK i \in 1..Len(q) : q[i] = e
      BY <2>5, ToSetProperties
    <3>2. i \in 1..Len(lib.groups) /\ lib.groups[i] = e
      BY <1>1, <2>2, <2>5, <3>1
    <3> QED BY <1>1, <3>2, ToSetProperties
  <2> QED BY <2>4, <2>6, <2>7
<1>4. lib' = Settle(s)
  OBVIOUS
<1> HIDE DEF walked, groups
<1>5. /\ s \in Library /\ s.groups = groups /\ s.leaked = leaked
      /\ s.users = lib.users /\ s.users_updated = lib.users_updated
      /\ s.usernames = lib.usernames /\ s.members = lib.members
      /\ s.default_gid = lib.default_gid /\ s.default_group = lib.default_group
      /\ s.groups_updated = lib.groups_updated
  <2>1. leaked \in SUBSET GroupObjs
    BY <1>1, <1>3
  <2> HIDE DEF leaked
  <2> QED BY <1>1, <1>2, <2>1 DEF Library
<1> HIDE DEF s
<1>6. LiveGroups(lib) \subseteq LiveGroups(s)
  BY <1>2, <1>3, <1>5 DEF LiveGroups
<1>7. DefaultLive(s)
  BY <1>1, <1>5, <1>6 DEF DefaultLive
<1>8. ObjectsOK(lib')
  BY <1>4, <1>5, <1>7, SettleObjectsOK
<1>9. /\ SameLists(s, lib')
      /\ \A h \in LiveGroups(s) : lib'.usernames[h] = s.usernames[h] /\ lib'.members[h] = s.members[h]
  BY <1>4, <1>5, SettleProperties
<1>10. ToSet(groups) \subseteq LiveGroups(s)
  BY <1>5 DEF LiveGroups
<1> QED BY <1>2, <1>5, <1>8, <1>9, <1>10 DEF SameLists

\* One listed group gets other members.
LEMMA MembersProperties ==
    ASSUME Inv, NEW g \in ToSet(lib.groups), NEW names \in SUBSET Logins,
           NEW cache \in SUBSET UserObjs,
           lib' = [lib EXCEPT !.usernames[g] = names, !.members[g] = cache]
    PROVE  /\ ObjectsOK(lib')
           /\ lib'.users = lib.users /\ lib'.users_updated = lib.users_updated
           /\ lib'.groups = lib.groups
           /\ lib'.usernames[g] = names /\ lib'.members[g] = cache
           /\ \A h \in GroupObjs \ {g} : /\ lib'.usernames[h] = lib.usernames[h]
                                         /\ lib'.members[h] = lib.members[h]
<1>1. /\ lib \in Library /\ BlankRest(lib) /\ DefaultLive(lib) /\ g \in GroupObjs
      /\ lib.usernames \in [GroupObjs -> SUBSET Logins]
      /\ lib.members \in [GroupObjs -> SUBSET UserObjs]
  BY FieldTypes DEF Inv, ObjectsOK
<1> DEFINE un == [lib.usernames EXCEPT ![g] = names]
           ms == [lib.members EXCEPT ![g] = cache]
<1>2. lib' = [lib EXCEPT !.usernames = un, !.members = ms]
  OBVIOUS
<1>3. /\ un \in [GroupObjs -> SUBSET Logins] /\ ms \in [GroupObjs -> SUBSET UserObjs]
      /\ un[g] = names /\ ms[g] = cache
      /\ \A h \in GroupObjs \ {g} : un[h] = lib.usernames[h] /\ ms[h] = lib.members[h]
  BY <1>1
<1> HIDE DEF un, ms
<1>4. /\ lib' \in Library /\ lib'.usernames = un /\ lib'.members = ms
      /\ lib'.users = lib.users /\ lib'.users_updated = lib.users_updated
      /\ lib'.groups = lib.groups /\ lib'.leaked = lib.leaked
      /\ lib'.default_gid = lib.default_gid /\ lib'.default_group = lib.default_group
      /\ lib'.groups_updated = lib.groups_updated
  BY <1>1, <1>2, <1>3 DEF Library
<1>5. LiveGroups(lib') = LiveGroups(lib) /\ g \in LiveGroups(lib)
  BY <1>4 DEF LiveGroups
<1>6. ObjectsOK(lib')
  BY <1>1, <1>3, <1>4, <1>5 DEF ObjectsOK, BlankRest, DefaultLive
<1> QED BY <1>3, <1>4, <1>6


-----------------------------------------------------------------------------
(* Types and the default group *)

\* A group made on the system has no members.
LEMMA NewGroupFile ==
    ASSUME NEW f, IsGroupFile(f), NEW n \in Names \ DOMAIN f
    PROVE  /\ IsGroupFile(WithGroup(f, n))
           /\ DOMAIN WithGroup(f, n) = DOMAIN f \cup {n}
           /\ WithGroup(f, n)[n] = {}
           /\ \A m \in DOMAIN f : WithGroup(f, n)[m] = f[m]
<1> DEFINE t == WithGroup(f, n)
<1>1. t = [m \in DOMAIN f \cup {n} |-> IF m = n THEN {} ELSE f[m]]
  BY DEF WithGroup
<1> HIDE DEF t
<1>2. DOMAIN t = DOMAIN f \cup {n} /\ t[n] = {} /\ \A m \in DOMAIN f : t[m] = f[m]
  BY <1>1
<1>3. IsGroupFile(t)
  BY <1>2 DEF IsGroupFile
<1> QED BY <1>2, <1>3 DEF t

UserAnswers == [pending : BOOLEAN, users : SUBSET Locals, default : Names \cup {NoGid}]

LEMMA UserAnswerTypes ==
    /\ NoUsersGet \in UserAnswers
    /\ \A r \in UserAnswers : r.users \in SUBSET Locals /\ r.default \in Names \cup {NoGid}
  BY DEF UserAnswers, NoUsersGet

LEMMA GroupAnswerTypes == NoGroupsGet.pending \in BOOLEAN /\ IsGroupFile(NoGroupsGet.groups)
<1>1. DOMAIN <<>> = {}
  OBVIOUS
<1> QED BY <1>1 DEF NoGroupsGet, IsGroupFile

LEMMA InvParts ==
    ASSUME Inv
    PROVE  /\ ObjectsOK(lib) /\ lib \in Library
           /\ sys_users \in SUBSET Locals /\ sys_default \in Names \cup {NoGid}
           /\ IsGroupFile(sys_groups)
           /\ get_users \in UserAnswers
           /\ get_groups.pending \in BOOLEAN /\ IsGroupFile(get_groups.groups)
  BY DEF Inv, TypeOK, UserAnswers

LEMMA InvFromParts ==
    ASSUME ObjectsOK(lib'), sys_users' \in SUBSET Locals, sys_default' \in Names \cup {NoGid},
           IsGroupFile(sys_groups'), get_users' \in UserAnswers,
           get_groups'.pending \in BOOLEAN, IsGroupFile(get_groups'.groups)
    PROVE  Inv'
  BY DEF Inv, TypeOK, UserAnswers, ObjectsOK

LEMMA InitInv == Init => Inv
<1> SUFFICES ASSUME Init PROVE Inv
  OBVIOUS
<1> DEFINE none == <<>>
           nobody == [g \in GroupObjs |-> {}]
<1>1. none \in Seq(UserObjs) /\ none \in Seq(GroupObjs) /\ ToSet(none) = {}
  BY DEF ToSet
<1>2. nobody \in [GroupObjs -> SUBSET Logins] /\ nobody \in [GroupObjs -> SUBSET UserObjs]
  OBVIOUS
<1>3. lib = [users |-> none, groups |-> none, usernames |-> nobody, members |-> nobody,
             leaked |-> {}, held |-> {}, users_updated |-> FALSE, groups_updated |-> FALSE,
             default_gid |-> NoGid, default_group |-> Null]
  BY DEF Init
<1> HIDE DEF none
<1>4. \A g \in GroupObjs : nobody[g] = {}
  OBVIOUS
<1> HIDE DEF nobody
<1>5. lib \in Library
  BY <1>1, <1>2, <1>3 DEF Library
<1>6. BlankRest(lib) /\ DefaultLive(lib)
  BY <1>1, <1>3, <1>4 DEF BlankRest, DefaultLive
<1>7. IsGroupFile(sys_groups)
  BY DEF Init, GroupFiles, IsGroupFile
<1>8. /\ sys_users \in SUBSET Locals /\ sys_default \in Names \cup {NoGid}
      /\ get_users = NoUsersGet /\ get_groups = NoGroupsGet
  BY DEF Init
<1>9. TypeOK
  BY <1>5, <1>7, <1>8, UserAnswerTypes, GroupAnswerTypes DEF TypeOK, UserAnswers
<1> QED BY <1>5, <1>6, <1>9 DEF Inv, ObjectsOK

\* A deletion, whether or not it has the users updated first.
LEMMA DeleteUserObjects ==
    ASSUME Inv, NEW u \in UserObjs, DeleteUser(u)
    PROVE  ObjectsOK(lib')
<1>1. u \in ToSet(lib.users) /\ Room(lib) /\ sys_users' = sys_users \ {u.login}
  BY DeleteUserSteps DEF MayChange
<1>2. ObjectsOK(Held(u)) /\ RoomForUsers(Held(u))
  BY <1>1, HeldProperties
<1>3. CASE lib.users_updated
  BY <1>2, <1>3, DeleteUserSteps, DeletedProperties
<1>4. CASE ~lib.users_updated
  <2> DEFINE now == [users |-> sys_users', default |-> sys_default]
             reply == IF get_users.pending THEN get_users ELSE now
  <2>1. reply.users \in SUBSET Locals /\ reply.default \in Names \cup {NoGid}
    BY <1>1, InvParts, UserAnswerTypes
  <2>2. lib' = Deleted(ApplyUsers(Held(u), reply), u)
    BY <1>4, DeleteUserSteps
  <2> HIDE DEF reply
  <2>3. ObjectsOK(ApplyUsers(Held(u), reply))
    BY <1>2, <2>1, ApplyUsersProperties
  <2> QED BY <2>2, <2>3, DeletedProperties
<1> QED BY <1>3, <1>4

LEMMA NextInv == Inv /\ [Next]_vars => Inv'
<1> SUFFICES ASSUME Inv, [Next]_vars PROVE Inv'
  OBVIOUS
<1>1. /\ ObjectsOK(lib) /\ lib \in Library
      /\ sys_users \in SUBSET Locals /\ sys_default \in Names \cup {NoGid}
      /\ IsGroupFile(sys_groups)
      /\ get_users \in UserAnswers
      /\ get_groups.pending \in BOOLEAN /\ IsGroupFile(get_groups.groups)
  BY InvParts
<1>2. CASE UpdateUsers
  <2> DEFINE reply == [users |-> sys_users, default |-> sys_default]
  <2>1. reply.users \in SUBSET Locals /\ reply.default \in Names \cup {NoGid}
    BY <1>1
  <2>2. lib' = ApplyUsers(lib, reply) /\ RoomForUsers(lib) /\ UNCHANGED <<system, get_users, get_groups>>
    BY <1>2, RoomParts DEF UpdateUsers
  <2> HIDE DEF reply
  <2>3. ObjectsOK(lib')
    BY <1>1, <2>1, <2>2, ApplyUsersProperties
  <2> QED BY <1>1, <2>2, <2>3, InvFromParts DEF system
<1>3. CASE UpdateGroups
  <2>1. lib' = ApplyGroups(lib, sys_groups) /\ RoomForGroups(lib)
        /\ UNCHANGED <<system, get_users, get_groups>>
    BY <1>3, RoomParts DEF UpdateGroups
  <2>2. ObjectsOK(lib')
    BY <1>1, <2>1, ApplyGroupsProperties
  <2> QED BY <1>1, <2>1, <2>2, InvFromParts DEF system
<1>4. CASE UpdateUsersAsync
  <2>1. get_users' \in UserAnswers /\ UNCHANGED <<system, lib, get_groups>>
    BY <1>1, <1>4 DEF UpdateUsersAsync, UserAnswers
  <2> QED BY <1>1, <2>1, InvFromParts DEF system
<1>5. CASE UpdateGroupsAsync
  <2>1. /\ get_groups'.pending \in BOOLEAN /\ get_groups'.groups = sys_groups
        /\ UNCHANGED <<system, lib, get_users>>
    BY <1>5 DEF UpdateGroupsAsync
  <2> QED BY <1>1, <2>1, InvFromParts DEF system
<1>6. CASE DispatchUsers
  <2>1. /\ lib' = ApplyUsers(lib, get_users) /\ RoomForUsers(lib)
        /\ get_users' = NoUsersGet /\ UNCHANGED <<system, get_groups>>
    BY <1>6, RoomParts DEF DispatchUsers
  <2>2. ObjectsOK(lib')
    BY <1>1, <2>1, ApplyUsersProperties, UserAnswerTypes
  <2> QED BY <1>1, <2>1, <2>2, InvFromParts, UserAnswerTypes DEF system
<1>7. CASE DispatchGroups
  <2>1. /\ lib' = ApplyGroups(lib, get_groups.groups) /\ RoomForGroups(lib)
        /\ get_groups' = NoGroupsGet /\ UNCHANGED <<system, get_users>>
    BY <1>7, RoomParts DEF DispatchGroups
  <2>2. ObjectsOK(lib')
    BY <1>1, <2>1, ApplyGroupsProperties
  <2> QED BY <1>1, <2>1, <2>2, InvFromParts, GroupAnswerTypes DEF system
<1>8. ASSUME NEW x \in Locals, AddUser(x)
      PROVE  Inv'
  <2> DEFINE u == FreshUser(lib, x)
  <2>1. /\ Room(lib) /\ sys_users' = sys_users \cup {x}
        /\ lib' = ApplyGroups(Appended(u), sys_groups') \/ lib' = Appended(u)
        /\ UNCHANGED <<sys_default, get_users, get_groups>>
        /\ \/ sys_groups' = sys_groups
           \/ \E n \in Names \ DOMAIN sys_groups : sys_groups' = WithGroup(sys_groups, n)
    BY <1>8 DEF AddUser, MayChange, Appended
  <2>2. IsGroupFile(sys_groups')
    <3>1. CASE sys_groups' = sys_groups
      BY <1>1, <3>1
    <3>2. ASSUME NEW n \in Names \ DOMAIN sys_groups, sys_groups' = WithGroup(sys_groups, n)
          PROVE  IsGroupFile(sys_groups')
      <4>1. IsGroupFile(WithGroup(sys_groups, n))
        BY <1>1, NewGroupFile
      <4> QED BY <3>2, <4>1
    <3> QED BY <2>1, <3>1, <3>2
  <2>3. u \in UserObjs
    BY <2>1, FreshUserProperties DEF Room
  <2> HIDE DEF u
  <2>4. ObjectsOK(Appended(u)) /\ RoomForGroups(Appended(u))
    BY <2>1, <2>3, AppendedProperties, RoomParts DEF RoomForGroups
  <2>5. ObjectsOK(lib')
    BY <2>1, <2>2, <2>4, ApplyGroupsProperties
  <2> QED BY <1>1, <2>1, <2>2, <2>5, InvFromParts
<1>9. ASSUME NEW u \in UserObjs, DeleteUser(u)
      PROVE  Inv'
  <2>1. ObjectsOK(lib')
    BY <1>9, DeleteUserObjects
  <2>2. /\ sys_users' = sys_users \ {u.login}
        /\ sys_groups' = [n \in DOMAIN sys_groups |-> sys_groups[n] \ {u.login}]
        /\ UNCHANGED <<sys_default, get_groups>>
        /\ get_users' = get_users \/ get_users' = NoUsersGet
    BY <1>9, DeleteUserSteps
  <2>3. IsGroupFile(sys_groups')
    BY <1>1, <2>2 DEF IsGroupFile
  <2>4. get_users' \in UserAnswers
    BY <1>1, <2>2, UserAnswerTypes
  <2> QED BY <1>1, <2>1, <2>2, <2>3, <2>4, InvFromParts
<1>10. CASE CommitUsers
  <2>1. UNCHANGED <<sys_users, sys_groups, lib, get_users, get_groups>>
    BY <1>10 DEF CommitUsers
  <2>2. lib.default_group \in GroupObjs => lib.default_group.name \in Names
    BY DEF GroupObjs
  <2>3. sys_default' \in Names \cup {NoGid}
    BY <1>1, <1>10, <2>2, FieldTypes DEF CommitUsers
  <2> QED BY <1>1, <2>1, <2>3, InvFromParts
<1>11. ASSUME NEW n \in Names, AddGroup(n)
       PROVE  Inv'
  <2>1. /\ Room(lib) /\ n \notin DOMAIN sys_groups /\ sys_groups' = WithGroup(sys_groups, n)
        /\ UNCHANGED <<sys_users, sys_default, get_users, get_groups>>
        /\ n \notin {g.name : g \in ToSet(lib.groups)}
        /\ lib' = [lib EXCEPT !.groups = Append(@, FreshGroup(lib, n))]
    BY <1>11 DEF AddGroup, MayChange
  <2>2. ObjectsOK(lib')
    BY <2>1, AddedGroupProperties
  <2>3. IsGroupFile(sys_groups')
    BY <1>1, <2>1, NewGroupFile
  <2> QED BY <1>1, <2>1, <2>2, <2>3, InvFromParts
<1>12. ASSUME NEW g \in GroupObjs, DeleteGroup(g)
       PROVE  Inv'
  <2>1. /\ g \in ToSet(lib.groups)
        /\ sys_groups' = [n \in DOMAIN sys_groups \ {g.name} |-> sys_groups[n]]
        /\ lib' = Settle([lib EXCEPT !.leaked = @ \cup Walked(lib, g), !.groups = RemoveFirst(@, g)])
        /\ UNCHANGED <<sys_users, sys_default, get_users, get_groups>>
    BY <1>12 DEF DeleteGroup
  <2>2. ObjectsOK(lib')
    BY <2>1, DeletedGroupProperties
  <2>3. IsGroupFile(sys_groups')
    BY <1>1, <2>1 DEF IsGroupFile
  <2> QED BY <1>1, <2>1, <2>2, <2>3, InvFromParts
<1>13. ASSUME NEW g \in GroupObjs, CommitGroup(g)
       PROVE  Inv'
  <2>1. /\ sys_groups' = [sys_groups EXCEPT ![g.name] = lib.usernames[g]]
        /\ UNCHANGED <<sys_users, sys_default, lib, get_users, get_groups>>
    BY <1>13 DEF CommitGroup, SentMembers
  <2>2. lib.usernames[g] \subseteq Logins
    BY <1>1, FieldTypes
  <2>3. IsGroupFile(sys_groups')
    <3>1. DOMAIN sys_groups' = DOMAIN sys_groups
      BY <2>1
    <3>2. \A n \in DOMAIN sys_groups :
             sys_groups'[n] = IF n = g.name THEN lib.usernames[g] ELSE sys_groups[n]
      BY <2>1
    <3> QED BY <1>1, <2>2, <3>1, <3>2 DEF IsGroupFile
  <2> QED BY <1>1, <2>1, <2>3, InvFromParts
<1>14. ASSUME NEW g \in GroupObjs, NEW u \in UserObjs, GroupAddUser(g, u) \/ GroupRemoveUser(g, u)
       PROVE  Inv'
  <2>1. PICK names \in SUBSET Logins, cache \in SUBSET UserObjs :
            lib' = [lib EXCEPT !.usernames[g] = names, !.members[g] = cache]
    <3>1. lib.usernames[g] \subseteq Logins /\ lib.members[g] \subseteq UserObjs
          /\ u.login \in Logins
      BY <1>1, FieldTypes DEF UserObjs, Logins
    <3>2. CASE GroupAddUser(g, u)
      <4>1. lib' = [lib EXCEPT !.usernames[g] = lib.usernames[g] \cup {u.login},
                               !.members[g] = lib.members[g] \cup {u}]
        BY <1>1, <3>2 DEF GroupAddUser, Library
      <4> QED BY <3>1, <4>1
    <3>3. CASE GroupRemoveUser(g, u)
      <4>1. lib' = [lib EXCEPT !.usernames[g] = lib.usernames[g] \ {u.login},
                               !.members[g] = lib.members[g] \ {u}]
        BY <1>1, <3>3 DEF GroupRemoveUser, RemoveUser, Library
      <4> QED BY <3>1, <4>1
    <3> QED BY <1>14, <3>2, <3>3
  <2>2. g \in ToSet(lib.groups) /\ UNCHANGED <<system, get_users, get_groups>>
    BY <1>14 DEF GroupAddUser, GroupRemoveUser
  <2>3. ObjectsOK(lib')
    BY <2>1, <2>2, MembersProperties
  <2> QED BY <1>1, <2>2, <2>3, InvFromParts DEF system
<1>15. CASE CommitGroups
  <2>1. UNCHANGED <<sys_users, sys_default, lib, get_users, get_groups>>
    BY <1>15 DEF CommitGroups
  <2>2. IsGroupFile(sys_groups')
    <3> DEFINE listed == ToSet(lib.groups)
               of(n) == CHOOSE g \in listed : g.name = n
    <3>1. sys_groups' = [n \in {g.name : g \in listed} |-> lib.usernames[of(n)]]
      BY <1>15 DEF CommitGroups, SentMembers
    <3>2. \A g \in listed : g \in GroupObjs /\ g.name \in Names
      BY <1>1, FieldTypes DEF GroupObjs
    <3>3. \A n \in {g.name : g \in listed} : of(n) \in listed
      OBVIOUS
    <3>4. lib.usernames \in [GroupObjs -> SUBSET Logins]
      BY <1>1, FieldTypes
    <3> HIDE DEF listed, of
    <3> QED BY <3>1, <3>2, <3>3, <3>4 DEF IsGroupFile
  <2> QED BY <1>1, <2>1, <2>2, InvFromParts
<1>16. CASE UnsetDefault
  BY <1>1, <1>16, InvFromParts DEF UnsetDefault
<1>17. CASE UNCHANGED vars
  BY <1>1, <1>17, InvFromParts DEF vars
<1> QED BY <1>2, <1>3, <1>4, <1>5, <1>6, <1>7, <1>8, <1>9, <1>10, <1>11, <1>12, <1>13, <1>14,
           <1>15, <1>16, <1>17 DEF Next

LEMMA Invariance == Spec => []Inv
  BY InitInv, NextInv, PTL DEF Spec

\* The state of the two configurations is well-typed: in particular every user
\* a group caches and every group listed is an object there is room for.
THEOREM TypeCorrect == Spec => []TypeOK
<1>1. Inv => TypeOK
  BY DEF Inv
<1> QED BY <1>1, Invariance, PTL

\* oobs_users_config_groups_updated sets the pointer to the default group again
\* whenever the groups are replaced, and a deleted group never goes: so the
\* pointer does not dangle while the default GID is not 0.  With a GID of 0 the
\* code leaves it as it was, and it may.
THEOREM PointerAlive == Spec => []DefaultAlive
<1>1. Inv => DefaultAlive
  BY InvParts, FieldTypes, PointersAssumption DEF ObjectsOK, DefaultLive, DefaultAlive
<1> QED BY <1>1, Invariance, PTL

-----------------------------------------------------------------------------
(* The lists, the answers and the system *)

LEMMA UpdatedUsersAgree ==
    ASSUME NEW s, ObjectsOK(s), RoomForUsers(s), NEW users, NEW files, ListsAgree(s, users, files),
           NEW reply, reply.users \in SUBSET Locals, reply.default \in Names \cup {NoGid},
           reply.users \subseteq users
    PROVE  ListsAgree(ApplyUsers(s, reply), users, files)
<1> DEFINE t == ApplyUsers(s, reply)
<1>1. /\ t.groups = s.groups /\ DistinctLogins(t.users)
      /\ \A u \in ToSet(t.users) : u.login \in reply.users
      /\ \A g \in ToSet(s.groups) : /\ t.usernames[g] = s.usernames[g]
                                    /\ t.members[g] = Found(t.users, s.usernames[g])
  BY ApplyUsersProperties
<1> HIDE DEF t
<1>2. DistinctNames(t)
  BY <1>1 DEF ListsAgree, DistinctNames
<1>3. \A g \in ToSet(t.groups) :
         /\ t.usernames[g] \subseteq users \cup Foreign
         /\ g.name \in DOMAIN files => files[g.name] \cap Foreign \subseteq t.usernames[g]
         /\ t.members[g] = Found(t.users, t.usernames[g])
  BY <1>1 DEF ListsAgree
<1> QED BY <1>1, <1>2, <1>3 DEF ListsAgree, t

LEMMA UpdatedGroupsAgree ==
    ASSUME NEW s, ObjectsOK(s), RoomForGroups(s), NEW users, NEW reply, IsGroupFile(reply),
           DistinctLogins(s.users), \A u \in ToSet(s.users) : u.login \in users,
           NoGhosts(users, reply)
    PROVE  ListsAgree(ApplyGroups(s, reply), users, reply)
<1> DEFINE t == ApplyGroups(s, reply)
<1>1. /\ t.users = s.users /\ t.users_updated = s.users_updated /\ DistinctNames(t)
      /\ \A g \in ToSet(t.groups) :
            /\ g.name \in DOMAIN reply
            /\ t.usernames[g] = reply[g.name]
            /\ s.users_updated => t.members[g] = Found(s.users, reply[g.name])
  BY ApplyGroupsProperties
<1> HIDE DEF t
<1>2. \A g \in ToSet(t.groups) :
         /\ t.usernames[g] \subseteq users \cup Foreign
         /\ reply[g.name] \cap Foreign \subseteq t.usernames[g]
         /\ t.users_updated => t.members[g] = Found(t.users, t.usernames[g])
  BY <1>1 DEF NoGhosts
<1> QED BY <1>1, <1>2 DEF ListsAgree, t

\* The file after a user has been deleted on the system.
Without(files, login) == [n \in DOMAIN files |-> files[n] \ {login}]

LEMMA DeletedAgree ==
    ASSUME NEW s, ObjectsOK(s), NEW users, NEW files, ListsAgree(s, users, files),
           NEW u \in UserObjs,
           u \in ToSet(s.users) \/ \A v \in ToSet(s.users) : v.login # u.login
    PROVE  ListsAgree(Deleted(s, u), users \ {u.login}, Without(files, u.login))
<1> DEFINE t == Deleted(s, u)
           rest == RemoveFirst(s.users, u)
<1>1. /\ t.users = rest /\ t.groups = s.groups /\ t.users_updated = s.users_updated
      /\ \A g \in ToSet(s.groups) : /\ t.usernames[g] = s.usernames[g] \ {u.login}
                                    /\ t.members[g] = s.members[g] \ {u}
  BY DeletedProperties
<1>2. s.users \in Seq(UserObjs)
  BY FieldTypes DEF ObjectsOK
<1>3. \A i, j \in 1..Len(s.users) : s.users[i].login = s.users[j].login => i = j
  BY DEF ListsAgree, DistinctLogins
<1>4. /\ ToSet(rest) \subseteq ToSet(s.users) /\ ToSet(s.users) \subseteq ToSet(rest) \cup {u}
      /\ \A i, j \in 1..Len(rest) : i # j =>
            \E k, l \in 1..Len(s.users) : k # l /\ s.users[k] = rest[i] /\ s.users[l] = rest[j]
      /\ u \notin ToSet(rest)
  <2>1. \A i, j \in 1..Len(s.users) : s.users[i] = s.users[j] => i = j
    BY <1>3
  <2> DEFINE q == s.users
  <2>2. q \in Seq(UserObjs) /\ \A i, j \in 1..Len(q) : q[i] = q[j] => i = j
    BY <1>2, <2>1
  <2>3. rest = RemoveFirst(q, u)
    OBVIOUS
  <2> HIDE DEF q, rest
  <2>4. /\ ToSet(rest) \subseteq ToSet(q) /\ ToSet(q) \subseteq ToSet(rest) \cup {u}
        /\ u \notin ToSet(rest)
    BY <2>2, <2>3, RemoveFirstElements
  <2>5. \A i, j \in 1..Len(rest) : i # j =>
            \E k, l \in 1..Len(q) : k # l /\ q[k] = rest[i] /\ q[l] = rest[j]
    <3>1. \A i, j \in 1..Len(RemoveFirst(q, u)) : i # j =>
             \E k, l \in 1..Len(q) : /\ k # l /\ q[k] = RemoveFirst(q, u)[i]
                                     /\ q[l] = RemoveFirst(q, u)[j]
      BY <2>2, RemoveFirstElements
    <3> QED BY <3>1 DEF rest, q
  <2> QED BY <2>4, <2>5 DEF q
<1> HIDE DEF t, rest
<1>5. DistinctLogins(rest)
  <2> SUFFICES ASSUME NEW i \in 1..Len(rest), NEW j \in 1..Len(rest), i # j
               PROVE  rest[i].login # rest[j].login
    BY DEF DistinctLogins
  <2>1. PICK k, l \in 1..Len(s.users) : k # l /\ s.users[k] = rest[i] /\ s.users[l] = rest[j]
    BY <1>4
  <2>2. s.users[k].login # s.users[l].login
    BY <1>3, <2>1
  <2> QED BY <2>1, <2>2
<1>6. \A v \in ToSet(rest) : v \in ToSet(s.users) /\ v.login # u.login
  <2> SUFFICES ASSUME NEW v \in ToSet(rest) PROVE v \in ToSet(s.users) /\ v.login # u.login
    OBVIOUS
  <2>1. v \in ToSet(s.users) /\ v # u
    BY <1>4
  <2>2. CASE u \in ToSet(s.users)
    <3>1. PICK i \in 1..Len(s.users) : s.users[i] = u
      BY <1>2, <2>2, ToSetProperties
    <3>2. PICK j \in 1..Len(s.users) : s.users[j] = v
      BY <1>2, <2>1, ToSetProperties
    <3> QED BY <1>3, <2>1, <3>1, <3>2
  <2> QED BY <2>1, <2>2
<1>7. DistinctNames(t)
  BY <1>1 DEF ListsAgree, DistinctNames
<1>8. ASSUME NEW g \in ToSet(s.groups)
      PROVE  /\ t.usernames[g] \subseteq (users \ {u.login}) \cup Foreign
             /\ g.name \in DOMAIN files =>
                   (files[g.name] \ {u.login}) \cap Foreign \subseteq t.usernames[g]
             /\ s.users_updated => t.members[g] = Found(rest, t.usernames[g])
  <2>1. /\ s.usernames[g] \subseteq users \cup Foreign
        /\ g.name \in DOMAIN files => files[g.name] \cap Foreign \subseteq s.usernames[g]
        /\ s.users_updated => s.members[g] = Found(s.users, s.usernames[g])
    BY DEF ListsAgree
  <2>2. s.users_updated => t.members[g] = Found(rest, t.usernames[g])
    <3>1. Found(rest, s.usernames[g] \ {u.login}) = Found(s.users, s.usernames[g]) \ {u}
      BY <1>4, <1>6 DEF Found
    <3> QED BY <1>1, <2>1, <3>1
  <2> QED BY <1>1, <2>1, <2>2
<1>9. \A g \in ToSet(t.groups) :
         /\ t.usernames[g] \subseteq (users \ {u.login}) \cup Foreign
         /\ g.name \in DOMAIN Without(files, u.login) =>
               Without(files, u.login)[g.name] \cap Foreign \subseteq t.usernames[g]
         /\ t.users_updated => t.members[g] = Found(t.users, t.usernames[g])
  BY <1>1, <1>8 DEF Without
<1>10. \A v \in ToSet(t.users) : v.login \in users \ {u.login}
  BY <1>1, <1>6 DEF ListsAgree
<1> QED BY <1>1, <1>5, <1>7, <1>9, <1>10 DEF ListsAgree, t

\* A call that changes the system is made when no answer waits.
LEMMA Quiet ==
    ASSUME ~Overtaking, MayChange
    PROVE  ~get_users.pending /\ ~get_groups.pending
  BY DEF MayChange, Idle

LEMMA AgreementParts ==
    ASSUME Agreement
    PROVE  /\ ListsAgree(lib, sys_users, sys_groups)
           /\ NoGhosts(sys_users, sys_groups)
           /\ get_users.pending => get_users.users = sys_users
           /\ get_groups.pending => get_groups.groups = sys_groups
  BY DEF Agreement, AnswersAgree

LEMMA AgreementFromParts ==
    ASSUME ListsAgree(lib', sys_users', sys_groups'), NoGhosts(sys_users', sys_groups'),
           get_users'.pending => get_users'.users = sys_users',
           get_groups'.pending => get_groups'.groups = sys_groups'
    PROVE  Agreement'
  BY DEF Agreement, AnswersAgree, ListsAgree, NoGhosts, DistinctNames, DistinctLogins, Found

\* Parts of the lists that steps leave alone agree as they did.
LEMMA ListsParts ==
    ASSUME NEW s, NEW users, NEW files, ListsAgree(s, users, files)
    PROVE  /\ DistinctLogins(s.users) /\ DistinctNames(s)
           /\ \A u \in ToSet(s.users) : u.login \in users
           /\ \A g \in ToSet(s.groups) :
                 /\ s.usernames[g] \subseteq users \cup Foreign
                 /\ g.name \in DOMAIN files => files[g.name] \cap Foreign \subseteq s.usernames[g]
                 /\ s.users_updated => s.members[g] = Found(s.users, s.usernames[g])
  BY DEF ListsAgree

LEMMA InitAgreement == Init => Agreement
<1> SUFFICES ASSUME Init PROVE Agreement
  OBVIOUS
<1>1. lib.users = <<>> /\ lib.groups = <<>>
  BY DEF Init
<1>2. ToSet(lib.users) = {} /\ ToSet(lib.groups) = {} /\ DistinctLogins(lib.users)
  BY <1>1 DEF ToSet, DistinctLogins
<1>3. ListsAgree(lib, sys_users, sys_groups)
  BY <1>2 DEF ListsAgree, DistinctNames
<1>4. NoGhosts(sys_users, sys_groups) /\ ~get_users.pending /\ ~get_groups.pending
  BY DEF Init, NoGhosts, NoUsersGet, NoGroupsGet
<1> QED BY <1>3, <1>4 DEF Agreement, AnswersAgree

LEMMA DeleteUserAgreement ==
    ASSUME ~Overtaking, Inv, Agreement, NEW u \in UserObjs, DeleteUser(u)
    PROVE  Agreement'
<1>1. /\ u \in ToSet(lib.users) /\ Room(lib) /\ MayChange
      /\ sys_users' = sys_users \ {u.login} /\ sys_groups' = Without(sys_groups, u.login)
      /\ get_groups' = get_groups /\ sys_default \in Names \cup {NoGid}
      /\ get_users' = get_users \/ get_users' = NoUsersGet
  BY DeleteUserSteps, InvParts DEF MayChange, Without
<1>2. ~get_users.pending /\ ~get_groups.pending
  BY <1>1, Quiet
<1>3. /\ ListsAgree(lib, sys_users, sys_groups) /\ NoGhosts(sys_users, sys_groups)
  BY AgreementParts
<1>4. /\ ObjectsOK(Held(u)) /\ RoomForUsers(Held(u))
      /\ Held(u).users = lib.users /\ Held(u).groups = lib.groups
      /\ Held(u).usernames = lib.usernames /\ Held(u).members = lib.members
      /\ Held(u).users_updated = lib.users_updated
  BY <1>1, HeldProperties
<1>5. ListsAgree(Held(u), sys_users, sys_groups)
  BY <1>3, <1>4 DEF ListsAgree, DistinctNames
<1>6. ListsAgree(lib', sys_users', sys_groups')
  <2>1. CASE lib.users_updated
    <3>1. lib' = Deleted(Held(u), u)
      BY <2>1, DeleteUserSteps
    <3>2. u \in ToSet(Held(u).users)
      BY <1>1, <1>4
    <3>3. ListsAgree(Deleted(Held(u), u), sys_users \ {u.login}, Without(sys_groups, u.login))
      BY <1>4, <1>5, <3>2, DeletedAgree
    <3> QED BY <1>1, <3>1, <3>3
  <2>2. CASE ~lib.users_updated
    <3> DEFINE reply == [users |-> sys_users \ {u.login}, default |-> sys_default]
               s == ApplyUsers(Held(u), reply)
    <3>1. reply.users \in SUBSET Locals /\ reply.default \in Names \cup {NoGid}
          /\ reply.users \subseteq sys_users /\ u.login \notin reply.users
      BY <1>1, InvParts
    <3>2. lib' = Deleted(s, u)
      BY <1>1, <1>2, <2>2, DeleteUserSteps
    <3> HIDE DEF reply
    <3>3. ObjectsOK(s) /\ \A v \in ToSet(s.users) : v.login \in reply.users
      BY <1>4, <3>1, ApplyUsersProperties
    <3>4. ListsAgree(s, sys_users, sys_groups)
      BY <1>4, <1>5, <3>1, UpdatedUsersAgree
    <3> HIDE DEF s
    <3>5. \A v \in ToSet(s.users) : v.login # u.login
      BY <3>1, <3>3
    <3>6. ListsAgree(Deleted(s, u), sys_users \ {u.login}, Without(sys_groups, u.login))
      BY <3>3, <3>4, <3>5, DeletedAgree
    <3> QED BY <1>1, <3>2, <3>6
  <2> QED BY <2>1, <2>2
<1>7. NoGhosts(sys_users', sys_groups')
  BY <1>1, <1>3 DEF NoGhosts, Without
<1>8. ~get_users'.pending /\ ~get_groups'.pending
  BY <1>1, <1>2 DEF NoUsersGet
<1> QED BY <1>6, <1>7, <1>8, AgreementFromParts

LEMMA AddUserAgreement ==
    ASSUME ~Overtaking, Inv, Agreement, NEW x \in Locals, AddUser(x)
    PROVE  Agreement'
<1> DEFINE u == FreshUser(lib, x)
           s == Appended(u)
<1>1. /\ Room(lib) /\ MayChange /\ x \notin sys_users /\ sys_users' = sys_users \cup {x}
      /\ lib' = ApplyGroups(s, sys_groups') \/ lib' = s
      /\ UNCHANGED <<get_users, get_groups>>
      /\ \/ sys_groups' = sys_groups
         \/ \E n \in Names \ DOMAIN sys_groups : sys_groups' = WithGroup(sys_groups, n)
  BY DEF AddUser, MayChange, Appended
<1>2. u \in UserObjs /\ u.login = x
  BY <1>1, FreshUserProperties DEF Room
<1> HIDE DEF u
<1>3. /\ ObjectsOK(s) /\ RoomForGroups(s) /\ s.users = Append(lib.users, u)
      /\ s.users_updated = lib.users_updated /\ s.groups = lib.groups
      /\ s.usernames = lib.usernames /\ s.members = lib.members
  BY <1>1, <1>2, AppendedProperties, RoomParts DEF RoomForGroups
<1>4. /\ DistinctLogins(lib.users) /\ \A v \in ToSet(lib.users) : v.login \in sys_users
      /\ NoGhosts(sys_users, sys_groups)
  BY AgreementParts, ListsParts
<1>5. lib.users \in Seq(UserObjs)
  BY InvParts, FieldTypes
<1>6. \A v \in ToSet(s.users) : v.login \in sys_users'
  BY <1>1, <1>2, <1>3, <1>4, <1>5, AppendElements
<1>7. DistinctLogins(s.users)
  <2> DEFINE old == lib.users
             new == Append(old, u)
  <2>1. /\ Len(new) = Len(old) + 1 /\ Len(old) \in Nat /\ new[Len(old) + 1] = u
        /\ \A i \in 1..Len(old) : new[i] = old[i] /\ old[i].login # x
    <3>1. \A i \in 1..Len(old) : old[i].login \in sys_users
      BY <1>4, <1>5, ToSetProperties
    <3>2. \A i \in 1..Len(old) : old[i].login # x
      BY <1>1, <3>1
    <3> QED BY <1>2, <1>5, <3>2
  <2>2. \A i, j \in 1..Len(old) : old[i].login = old[j].login => i = j
    BY <1>4 DEF DistinctLogins
  <2> HIDE DEF old, new
  <2>3. \A i \in 1..Len(new) : i \in 1..Len(old) \/ i = Len(old) + 1
    BY <2>1
  <2>4. DistinctLogins(new)
    BY <1>2, <2>1, <2>2, <2>3 DEF DistinctLogins
  <2> QED BY <1>3, <2>4 DEF old, new
<1> HIDE DEF s
<1>8. IsGroupFile(sys_groups') /\ NoGhosts(sys_users', sys_groups')
  <2>1. CASE sys_groups' = sys_groups
    BY <1>1, <1>4, <2>1, InvParts DEF NoGhosts
  <2>2. ASSUME NEW n \in Names \ DOMAIN sys_groups, sys_groups' = WithGroup(sys_groups, n)
        PROVE  IsGroupFile(sys_groups') /\ NoGhosts(sys_users', sys_groups')
    <3> DEFINE f == WithGroup(sys_groups, n)
    <3>1. /\ IsGroupFile(f) /\ DOMAIN f = DOMAIN sys_groups \cup {n} /\ f[n] = {}
          /\ \A m \in DOMAIN sys_groups : f[m] = sys_groups[m]
      BY InvParts, NewGroupFile
    <3> HIDE DEF f
    <3>2. NoGhosts(sys_users', f)
      BY <1>1, <1>4, <3>1 DEF NoGhosts
    <3> QED BY <2>2, <3>1, <3>2 DEF f
  <2> QED BY <1>1, <2>1, <2>2
<1>9. ListsAgree(s, sys_users', sys_groups')
  <2>1. /\ ListsAgree(lib, sys_users, sys_groups) /\ DistinctNames(lib)
        /\ IsGroupFile(sys_groups)
    BY AgreementParts, InvParts DEF ListsAgree
  <2>2. ASSUME NEW g \in ToSet(s.groups)
        PROVE  s.users_updated => s.members[g] = Found(s.users, s.usernames[g])
    <3>1. /\ lib.usernames[g] \subseteq sys_users \cup Foreign
          /\ lib.users_updated => lib.members[g] = Found(lib.users, lib.usernames[g])
      BY <1>3, <2>1, <2>2, ListsParts
    <3>2. x \notin lib.usernames[g]
      BY <1>1, <3>1, Disjoint
    <3>3. ToSet(s.users) = ToSet(lib.users) \cup {u}
      BY <1>2, <1>3, <1>5, AppendElements
    <3>4. Found(s.users, lib.usernames[g]) = Found(lib.users, lib.usernames[g])
      BY <1>2, <3>2, <3>3 DEF Found
    <3> QED BY <1>3, <3>1, <3>4
  <2>3. ASSUME NEW g \in ToSet(s.groups)
        PROVE  /\ s.usernames[g] \subseteq sys_users' \cup Foreign
               /\ g.name \in DOMAIN sys_groups' =>
                     sys_groups'[g.name] \cap Foreign \subseteq s.usernames[g]
    <3>1. /\ lib.usernames[g] \subseteq sys_users \cup Foreign
          /\ g.name \in DOMAIN sys_groups =>
                sys_groups[g.name] \cap Foreign \subseteq lib.usernames[g]
      BY <1>3, <2>1, <2>3, ListsParts
    <3>2. \A m \in DOMAIN sys_groups' :
             \/ m \in DOMAIN sys_groups /\ sys_groups'[m] = sys_groups[m]
             \/ sys_groups'[m] = {}
      <4>1. ASSUME NEW n \in Names \ DOMAIN sys_groups, sys_groups' = WithGroup(sys_groups, n)
            PROVE  \A m \in DOMAIN sys_groups' :
                      \/ m \in DOMAIN sys_groups /\ sys_groups'[m] = sys_groups[m]
                      \/ sys_groups'[m] = {}
        BY <4>1 DEF WithGroup
      <4> QED BY <1>1, <4>1
    <3>3. g.name \in DOMAIN sys_groups' =>
             sys_groups'[g.name] \cap Foreign \subseteq lib.usernames[g]
      BY <3>1, <3>2
    <3> QED BY <1>1, <1>3, <3>1, <3>3
  <2>4. DistinctNames(s)
    BY <1>3, <2>1 DEF DistinctNames
  <2> QED BY <1>6, <1>7, <2>2, <2>3, <2>4 DEF ListsAgree
<1>10. ListsAgree(lib', sys_users', sys_groups')
  BY <1>1, <1>3, <1>6, <1>7, <1>8, <1>9, UpdatedGroupsAgree
<1>11. ~get_users'.pending /\ ~get_groups'.pending
  BY <1>1, Quiet
<1> QED BY <1>8, <1>10, <1>11, AgreementFromParts

LEMMA AddGroupAgreement ==
    ASSUME ~Overtaking, Inv, Agreement, NEW n \in Names, AddGroup(n)
    PROVE  Agreement'
<1> DEFINE f == FreshGroup(lib, n)
           file == WithGroup(sys_groups, n)
<1>1. /\ Room(lib) /\ MayChange /\ n \notin DOMAIN sys_groups /\ sys_groups' = file
      /\ n \notin {g.name : g \in ToSet(lib.groups)}
      /\ lib' = [lib EXCEPT !.groups = Append(@, f)]
      /\ UNCHANGED <<sys_users, get_users, get_groups>>
  BY DEF AddGroup, MayChange
<1>2. /\ f.name = n
      /\ lib'.users = lib.users /\ lib'.users_updated = lib.users_updated
      /\ lib'.usernames = lib.usernames /\ lib'.members = lib.members
      /\ ToSet(lib'.groups) = ToSet(lib.groups) \cup {f}
      /\ lib'.usernames[f] = {} /\ lib'.members[f] = {}
  BY <1>1, AddedGroupProperties
<1>3. /\ DOMAIN file = DOMAIN sys_groups \cup {n} /\ file[n] = {}
      /\ \A m \in DOMAIN sys_groups : file[m] = sys_groups[m]
  <2>1. IsGroupFile(sys_groups) /\ n \in Names \ DOMAIN sys_groups
    BY <1>1, InvParts
  <2> QED BY <2>1, NewGroupFile
<1> HIDE DEF f, file
<1>4. ListsAgree(lib, sys_users, sys_groups) /\ NoGhosts(sys_users, sys_groups)
  BY AgreementParts
<1>5. DistinctNames(lib')
  BY <1>1, <1>2, <1>4 DEF ListsAgree, DistinctNames
<1>6. Found(lib.users, {}) = {}
  BY DEF Found
<1>7. ASSUME NEW g \in ToSet(lib'.groups)
      PROVE  /\ lib'.usernames[g] \subseteq sys_users \cup Foreign
             /\ g.name \in DOMAIN file => file[g.name] \cap Foreign \subseteq lib'.usernames[g]
             /\ lib'.users_updated => lib'.members[g] = Found(lib'.users, lib'.usernames[g])
  <2>1. CASE g = f
    BY <1>2, <1>3, <1>6, <2>1
  <2>2. CASE g \in ToSet(lib.groups)
    <3>1. g.name # n
      BY <1>1, <2>2
    <3>2. /\ lib.usernames[g] \subseteq sys_users \cup Foreign
          /\ g.name \in DOMAIN sys_groups => sys_groups[g.name] \cap Foreign \subseteq lib.usernames[g]
          /\ lib.users_updated => lib.members[g] = Found(lib.users, lib.usernames[g])
      BY <1>4, <2>2, ListsParts
    <3> QED BY <1>2, <1>3, <3>1, <3>2
  <2> QED BY <1>2, <2>1, <2>2
<1>8. ListsAgree(lib', sys_users', sys_groups')
  BY <1>1, <1>2, <1>4, <1>5, <1>7 DEF ListsAgree
<1>9. NoGhosts(sys_users', sys_groups')
  BY <1>1, <1>3, <1>4 DEF NoGhosts
<1>10. ~get_users'.pending /\ ~get_groups'.pending
  BY <1>1, Quiet
<1> QED BY <1>8, <1>9, <1>10, AgreementFromParts

LEMMA DeleteGroupAgreement ==
    ASSUME ~Overtaking, Inv, Agreement, NEW g \in GroupObjs, DeleteGroup(g)
    PROVE  Agreement'
<1>1. /\ g \in ToSet(lib.groups) /\ MayChange
      /\ sys_groups' = [n \in DOMAIN sys_groups \ {g.name} |-> sys_groups[n]]
      /\ lib' = Settle([lib EXCEPT !.leaked = @ \cup Walked(lib, g), !.groups = RemoveFirst(@, g)])
      /\ UNCHANGED <<sys_users, get_users, get_groups>>
  BY DEF DeleteGroup
<1>2. /\ lib'.users = lib.users /\ lib'.users_updated = lib.users_updated
      /\ ToSet(lib'.groups) \subseteq ToSet(lib.groups)
      /\ \A h \in ToSet(lib'.groups) : /\ lib'.usernames[h] = lib.usernames[h]
                                       /\ lib'.members[h] = lib.members[h]
  BY <1>1, DeletedGroupProperties
<1>3. ListsAgree(lib, sys_users, sys_groups) /\ NoGhosts(sys_users, sys_groups)
  BY AgreementParts
<1>4. DistinctNames(lib')
  BY <1>2, <1>3 DEF ListsAgree, DistinctNames
<1>5. ListsAgree(lib', sys_users', sys_groups')
  BY <1>1, <1>2, <1>3, <1>4 DEF ListsAgree
<1>6. NoGhosts(sys_users', sys_groups')
  BY <1>1, <1>3 DEF NoGhosts
<1>7. ~get_users'.pending /\ ~get_groups'.pending
  BY <1>1, Quiet
<1> QED BY <1>5, <1>6, <1>7, AgreementFromParts

LEMMA MembersAgreement ==
    ASSUME Inv, Agreement, NEW g \in GroupObjs, NEW u \in UserObjs,
           GroupAddUser(g, u) \/ GroupRemoveUser(g, u)
    PROVE  Agreement'
<1>1. g \in ToSet(lib.groups) /\ u \in ToSet(lib.users) /\ UNCHANGED <<system, get_users, get_groups>>
  BY DEF GroupAddUser, GroupRemoveUser
<1>2. /\ ListsAgree(lib, sys_users, sys_groups) /\ NoGhosts(sys_users, sys_groups)
      /\ get_users.pending => get_users.users = sys_users
      /\ get_groups.pending => get_groups.groups = sys_groups
  BY AgreementParts
<1>3. /\ lib.users \in Seq(UserObjs) /\ lib \in Library
      /\ lib.usernames[g] \subseteq Logins /\ lib.members[g] \subseteq UserObjs
      /\ u.login \in Locals /\ u.login \in sys_users
  <2>1. lib \in Library
    BY InvParts
  <2>2. /\ lib.users \in Seq(UserObjs)
        /\ lib.usernames[g] \subseteq Logins /\ lib.members[g] \subseteq UserObjs
    BY <2>1, FieldTypes
  <2>3. u.login \in Locals /\ u.login \in sys_users
    BY <1>1, <1>2, ListsParts DEF UserObjs
  <2> QED BY <2>1, <2>2, <2>3
<1>4. \A v \in ToSet(lib.users) : v.login = u.login => v = u
  <2> SUFFICES ASSUME NEW v \in ToSet(lib.users), v.login = u.login PROVE v = u
    OBVIOUS
  <2>1. PICK i \in 1..Len(lib.users) : lib.users[i] = u
    BY <1>1, <1>3, ToSetProperties
  <2>2. PICK j \in 1..Len(lib.users) : lib.users[j] = v
    BY <1>3, ToSetProperties
  <2> QED BY <1>2, <2>1, <2>2 DEF ListsAgree, DistinctLogins
<1>5. /\ lib.usernames[g] \subseteq sys_users \cup Foreign
      /\ g.name \in DOMAIN sys_groups => sys_groups[g.name] \cap Foreign \subseteq lib.usernames[g]
      /\ lib.users_updated => lib.members[g] = Found(lib.users, lib.usernames[g])
  BY <1>1, <1>2, ListsParts
<1>6. PICK names \in SUBSET Logins, cache \in SUBSET UserObjs :
         /\ lib' = [lib EXCEPT !.usernames[g] = names, !.members[g] = cache]
         /\ names \subseteq sys_users \cup Foreign
         /\ g.name \in DOMAIN sys_groups => sys_groups[g.name] \cap Foreign \subseteq names
         /\ lib.users_updated => cache = Found(lib.users, names)
  <2>1. CASE GroupAddUser(g, u)
    <3> DEFINE names == lib.usernames[g] \cup {u.login}
               cache == lib.members[g] \cup {u}
    <3>1. lib' = [lib EXCEPT !.usernames[g] = names, !.members[g] = cache]
      BY <1>3, <2>1 DEF GroupAddUser, Library
    <3>2. names \in SUBSET Logins /\ cache \in SUBSET UserObjs
      BY <1>3 DEF Logins
    <3>3. lib.users_updated => cache = Found(lib.users, names)
      BY <1>1, <1>4, <1>5 DEF Found
    <3>4. /\ names \subseteq sys_users \cup Foreign
          /\ g.name \in DOMAIN sys_groups => sys_groups[g.name] \cap Foreign \subseteq names
      BY <1>3, <1>5
    <3> HIDE DEF names, cache
    <3> QED BY <3>1, <3>2, <3>3, <3>4
  <2>2. CASE GroupRemoveUser(g, u)
    <3> DEFINE names == lib.usernames[g] \ {u.login}
               cache == lib.members[g] \ {u}
    <3>1. lib' = [lib EXCEPT !.usernames[g] = names, !.members[g] = cache]
      BY <1>3, <2>2 DEF GroupRemoveUser, RemoveUser, Library
    <3>2. names \in SUBSET Logins /\ cache \in SUBSET UserObjs
      BY <1>3
    <3>3. lib.users_updated => cache = Found(lib.users, names)
      BY <1>1, <1>4, <1>5 DEF Found
    <3>4. /\ names \subseteq sys_users \cup Foreign
          /\ g.name \in DOMAIN sys_groups => sys_groups[g.name] \cap Foreign \subseteq names
      BY <1>3, <1>5, Disjoint
    <3> HIDE DEF names, cache
    <3> QED BY <3>1, <3>2, <3>3, <3>4
  <2> QED BY <2>1, <2>2
<1>7. /\ lib'.users = lib.users /\ lib'.users_updated = lib.users_updated
      /\ lib'.groups = lib.groups
      /\ lib'.usernames[g] = names /\ lib'.members[g] = cache
      /\ \A h \in GroupObjs \ {g} : /\ lib'.usernames[h] = lib.usernames[h]
                                    /\ lib'.members[h] = lib.members[h]
  BY <1>1, <1>6, MembersProperties
<1>8. DistinctNames(lib')
  BY <1>2, <1>7 DEF ListsAgree, DistinctNames
<1>9. ASSUME NEW h \in ToSet(lib'.groups)
      PROVE  /\ lib'.usernames[h] \subseteq sys_users \cup Foreign
             /\ h.name \in DOMAIN sys_groups =>
                   sys_groups[h.name] \cap Foreign \subseteq lib'.usernames[h]
             /\ lib'.users_updated => lib'.members[h] = Found(lib'.users, lib'.usernames[h])
  <2>1. CASE h = g
    BY <1>6, <1>7, <2>1
  <2>2. CASE h # g
    <3>1. h \in ToSet(lib.groups) /\ h \in GroupObjs \ {g}
      BY <1>3, <1>7, <2>2, FieldTypes
    <3>2. /\ lib.usernames[h] \subseteq sys_users \cup Foreign
          /\ h.name \in DOMAIN sys_groups => sys_groups[h.name] \cap Foreign \subseteq lib.usernames[h]
          /\ lib.users_updated => lib.members[h] = Found(lib.users, lib.usernames[h])
      BY <1>2, <3>1, ListsParts
    <3> QED BY <1>7, <3>1, <3>2
  <2> QED BY <2>1, <2>2
<1>10. ListsAgree(lib', sys_users, sys_groups)
  BY <1>2, <1>7, <1>8, <1>9 DEF ListsAgree
<1> QED BY <1>1, <1>2, <1>10, AgreementFromParts DEF system

\* The two commits of groups write the members the listed groups have.
LEMMA CommitAgreement ==
    ASSUME ~Overtaking, Inv, Agreement, CommitGroups \/ \E g \in GroupObjs : CommitGroup(g)
    PROVE  /\ Agreement'
           /\ \A n \in DOMAIN sys_groups \cap DOMAIN sys_groups' :
                 sys_groups[n] \cap Foreign \subseteq sys_groups'[n]
<1>1. MayChange /\ UNCHANGED <<sys_users, lib, get_users, get_groups>>
  BY DEF CommitGroups, CommitGroup
<1>2. ListsAgree(lib, sys_users, sys_groups) /\ NoGhosts(sys_users, sys_groups)
  BY AgreementParts
<1>3. \A g, h \in ToSet(lib.groups) : g.name = h.name => g = h
  BY <1>2 DEF ListsAgree, DistinctNames
<1>4. \A n \in DOMAIN sys_groups' :
         \/ n \in DOMAIN sys_groups /\ sys_groups'[n] = sys_groups[n]
         \/ \E g \in ToSet(lib.groups) : g.name = n /\ sys_groups'[n] = lib.usernames[g]
  <2>1. CASE CommitGroups
    <3> DEFINE listed == ToSet(lib.groups)
               of(n) == CHOOSE g \in listed : g.name = n
    <3>1. sys_groups' = [n \in {g.name : g \in listed} |-> lib.usernames[of(n)]]
      BY <2>1 DEF CommitGroups, SentMembers
    <3>2. \A n \in {g.name : g \in listed} : of(n) \in listed /\ of(n).name = n
      OBVIOUS
    <3> HIDE DEF listed, of
    <3>3. \A n \in DOMAIN sys_groups' :
             \E g \in listed : g.name = n /\ sys_groups'[n] = lib.usernames[g]
      BY <3>1, <3>2
    <3> QED BY <3>3 DEF listed
  <2>2. ASSUME NEW g \in GroupObjs, CommitGroup(g)
        PROVE  \A n \in DOMAIN sys_groups' :
                  \/ n \in DOMAIN sys_groups /\ sys_groups'[n] = sys_groups[n]
                  \/ \E h \in ToSet(lib.groups) : h.name = n /\ sys_groups'[n] = lib.usernames[h]
    <3>1. g \in ToSet(lib.groups) /\ sys_groups' = [sys_groups EXCEPT ![g.name] = lib.usernames[g]]
      BY <2>2 DEF CommitGroup, SentMembers
    <3>2. /\ DOMAIN sys_groups' = DOMAIN sys_groups
          /\ \A n \in DOMAIN sys_groups :
                sys_groups'[n] = IF n = g.name THEN lib.usernames[g] ELSE sys_groups[n]
      BY <3>1
    <3> QED BY <3>1, <3>2
  <2> QED BY <2>1, <2>2
<1>5. \A g \in ToSet(lib.groups) :
         /\ lib.usernames[g] \subseteq sys_users \cup Foreign
         /\ g.name \in DOMAIN sys_groups => sys_groups[g.name] \cap Foreign \subseteq lib.usernames[g]
  BY <1>2, ListsParts
<1>6. NoGhosts(sys_users, sys_groups')
  BY <1>2, <1>4, <1>5 DEF NoGhosts
<1>7. \A g \in ToSet(lib.groups) : g.name \in DOMAIN sys_groups' =>
         sys_groups'[g.name] \cap Foreign \subseteq lib.usernames[g]
  <2> SUFFICES ASSUME NEW g \in ToSet(lib.groups), g.name \in DOMAIN sys_groups'
               PROVE  sys_groups'[g.name] \cap Foreign \subseteq lib.usernames[g]
    OBVIOUS
  <2>1. CASE g.name \in DOMAIN sys_groups /\ sys_groups'[g.name] = sys_groups[g.name]
    BY <1>5, <2>1
  <2>2. ASSUME NEW h \in ToSet(lib.groups), h.name = g.name, sys_groups'[g.name] = lib.usernames[h]
        PROVE  sys_groups'[g.name] \cap Foreign \subseteq lib.usernames[g]
    BY <1>3, <2>2
  <2> QED BY <1>4, <2>1, <2>2
<1>8. ListsAgree(lib, sys_users, sys_groups')
  BY <1>2, <1>7 DEF ListsAgree
<1>9. ~get_users'.pending /\ ~get_groups'.pending
  BY <1>1, Quiet
<1>10. Agreement'
  BY <1>1, <1>6, <1>8, <1>9, AgreementFromParts
<1>11. \A n \in DOMAIN sys_groups \cap DOMAIN sys_groups' :
          sys_groups[n] \cap Foreign \subseteq sys_groups'[n]
  BY <1>4, <1>5
<1> QED BY <1>10, <1>11

LEMMA NextAgreement ==
    ASSUME ~Overtaking, Inv, Agreement, [Next]_vars
    PROVE  Agreement'
<1>1. /\ ListsAgree(lib, sys_users, sys_groups) /\ NoGhosts(sys_users, sys_groups)
      /\ get_users.pending => get_users.users = sys_users
      /\ get_groups.pending => get_groups.groups = sys_groups
  BY AgreementParts
<1>2. /\ ObjectsOK(lib) /\ sys_users \in SUBSET Locals /\ sys_default \in Names \cup {NoGid}
      /\ IsGroupFile(sys_groups) /\ get_users \in UserAnswers
  BY InvParts
<1>3. DistinctLogins(lib.users) /\ \A u \in ToSet(lib.users) : u.login \in sys_users
  BY <1>1, ListsParts
<1>4. CASE UpdateUsers
  <2> DEFINE reply == [users |-> sys_users, default |-> sys_default]
  <2>1. reply.users \in SUBSET Locals /\ reply.default \in Names \cup {NoGid}
        /\ reply.users \subseteq sys_users
    BY <1>2
  <2>2. lib' = ApplyUsers(lib, reply) /\ RoomForUsers(lib) /\ UNCHANGED <<system, get_users, get_groups>>
    BY <1>4, RoomParts DEF UpdateUsers
  <2> HIDE DEF reply
  <2>3. ListsAgree(lib', sys_users, sys_groups)
    BY <1>1, <1>2, <2>1, <2>2, UpdatedUsersAgree
  <2> QED BY <1>1, <2>2, <2>3, AgreementFromParts DEF system
<1>5. CASE UpdateGroups
  <2>1. lib' = ApplyGroups(lib, sys_groups) /\ RoomForGroups(lib)
        /\ UNCHANGED <<system, get_users, get_groups>>
    BY <1>5, RoomParts DEF UpdateGroups
  <2>2. ListsAgree(lib', sys_users, sys_groups)
    BY <1>1, <1>2, <1>3, <2>1, UpdatedGroupsAgree
  <2> QED BY <1>1, <2>1, <2>2, AgreementFromParts DEF system
<1>6. CASE UpdateUsersAsync
  <2>1. get_users'.users = sys_users /\ UNCHANGED <<system, lib, get_groups>>
    BY <1>6 DEF UpdateUsersAsync
  <2> QED BY <1>1, <2>1, AgreementFromParts DEF system
<1>7. CASE UpdateGroupsAsync
  <2>1. get_groups'.groups = sys_groups /\ UNCHANGED <<system, lib, get_users>>
    BY <1>7 DEF UpdateGroupsAsync
  <2> QED BY <1>1, <2>1, AgreementFromParts DEF system
<1>8. CASE DispatchUsers
  <2>1. /\ get_users.users = sys_users /\ lib' = ApplyUsers(lib, get_users) /\ RoomForUsers(lib)
        /\ ~get_users'.pending /\ UNCHANGED <<system, get_groups>>
    BY <1>1, <1>8, RoomParts DEF DispatchUsers, NoUsersGet
  <2>2. ListsAgree(lib', sys_users, sys_groups)
    BY <1>1, <1>2, <2>1, UpdatedUsersAgree, UserAnswerTypes
  <2> QED BY <1>1, <2>1, <2>2, AgreementFromParts DEF system
<1>9. CASE DispatchGroups
  <2>1. /\ get_groups.groups = sys_groups /\ lib' = ApplyGroups(lib, sys_groups)
        /\ RoomForGroups(lib) /\ ~get_groups'.pending /\ UNCHANGED <<system, get_users>>
    BY <1>1, <1>9, RoomParts DEF DispatchGroups, NoGroupsGet
  <2>2. ListsAgree(lib', sys_users, sys_groups)
    BY <1>1, <1>2, <1>3, <2>1, UpdatedGroupsAgree
  <2> QED BY <1>1, <2>1, <2>2, AgreementFromParts DEF system
<1>10. CASE CommitUsers \/ UnsetDefault
  <2>1. UNCHANGED <<sys_users, sys_groups, lib, get_users, get_groups>>
    BY <1>10 DEF CommitUsers, UnsetDefault
  <2> QED BY <1>1, <2>1, AgreementFromParts
<1>11. CASE CommitGroups \/ \E g \in GroupObjs : CommitGroup(g)
  BY <1>11, CommitAgreement
<1>12. CASE UNCHANGED vars
  BY <1>1, <1>12, AgreementFromParts DEF vars
<1> QED BY <1>4, <1>5, <1>6, <1>7, <1>8, <1>9, <1>10, <1>11, <1>12, AddUserAgreement,
           DeleteUserAgreement, AddGroupAgreement, DeleteGroupAgreement, MembersAgreement DEF Next

-----------------------------------------------------------------------------
(* What agreement gives, for an application that changes nothing while an    *)
(* answer waits                                                              *)

LEMMA AgreementInvariant == ~Overtaking /\ Spec => [](Inv /\ Agreement)
<1> SUFFICES ASSUME ~Overtaking PROVE Spec => [](Inv /\ Agreement)
  OBVIOUS
<1>1. Init => Inv /\ Agreement
  BY InitInv, InitAgreement
<1>2. Inv /\ Agreement /\ [Next]_vars => Inv' /\ Agreement'
  BY NextInv, NextAgreement
<1> QED BY <1>1, <1>2, PTL DEF Spec

\* Either configuration refreshes the users its groups cache when the other one
\* changes, and additions and removals keep names and objects together: so a
\* listed group caches exactly the users that its names stand for.
THEOREM CachesExact == ~Overtaking /\ Spec => []CacheExact
<1>1. Inv /\ Agreement => CacheExact
  <2> SUFFICES ASSUME Inv, Agreement, lib.users_updated, NEW g \in ToSet(lib.groups)
               PROVE  lib.members[g] = Lookup(lib, lib.usernames[g])
    BY DEF CacheExact
  <2>1. DistinctLogins(lib.users) /\ lib.members[g] = Found(lib.users, lib.usernames[g])
    BY AgreementParts, ListsParts
  <2>2. Lookup(lib, lib.usernames[g]) = Found(lib.users, lib.usernames[g])
    BY <2>1, InvParts, LookupFinds
  <2> QED BY <2>1, <2>2
<1> QED BY <1>1, AgreementInvariant, PTL

\* oobs_users_config_delete_user takes the user out of every listed group, so
\* that no later commit writes it to /etc/group again.
THEOREM NoGhostsWritten == ~Overtaking /\ Spec => []NoGhostMember
<1>1. Agreement => NoGhostMember
  BY AgreementParts DEF NoGhosts, NoGhostMember
<1> QED BY <1>1, AgreementInvariant, PTL

\* A group keeps the names it cannot resolve and sends them back: a commit, a
\* deletion or an addition takes no foreign member from any group.
THEOREM ForeignMembersKept == ~Overtaking /\ Spec => ForeignKept
<1> DEFINE Kept == \A n \in DOMAIN sys_groups \cap DOMAIN sys_groups' :
                      sys_groups[n] \cap Foreign \subseteq sys_groups'[n]
<1>1. ASSUME ~Overtaking, Inv, Agreement, Next
      PROVE  Kept
  <2>1. CASE CommitGroups \/ \E g \in GroupObjs : CommitGroup(g)
    BY <1>1, <2>1, CommitAgreement
  <2>2. CASE sys_groups' = sys_groups
    BY <2>2
  <2>3. ASSUME NEW n \in Names \ DOMAIN sys_groups, sys_groups' = WithGroup(sys_groups, n)
        PROVE  Kept
    <3> DEFINE f == WithGroup(sys_groups, n)
    <3>1. \A m \in DOMAIN sys_groups : f[m] = sys_groups[m]
      BY <1>1, InvParts, NewGroupFile
    <3> HIDE DEF f
    <3>2. sys_groups' = f
      BY <2>3 DEF f
    <3> QED BY <3>1, <3>2
  <2>4. ASSUME NEW u \in UserObjs, DeleteUser(u)
        PROVE  Kept
    <3>1. /\ DOMAIN sys_groups' = DOMAIN sys_groups
          /\ \A n \in DOMAIN sys_groups : sys_groups'[n] = sys_groups[n] \ {u.login}
      BY <1>1, <2>4, DeleteUserSteps
    <3>2. u.login \notin Foreign
      BY Disjoint DEF UserObjs
    <3> QED BY <3>1, <3>2
  <2>5. ASSUME NEW g \in GroupObjs, DeleteGroup(g)
        PROVE  Kept
    <3>1. sys_groups' = [n \in DOMAIN sys_groups \ {g.name} |-> sys_groups[n]]
      BY <2>5 DEF DeleteGroup
    <3> QED BY <3>1
  <2>6. ASSUME NEW x \in Locals, AddUser(x)
        PROVE  \/ sys_groups' = sys_groups
               \/ \E n \in Names \ DOMAIN sys_groups : sys_groups' = WithGroup(sys_groups, n)
    BY <2>6 DEF AddUser
  <2>7. ASSUME NEW n \in Names, AddGroup(n)
        PROVE  n \notin DOMAIN sys_groups /\ sys_groups' = WithGroup(sys_groups, n)
    BY <2>7 DEF AddGroup
  <2>8. CASE UpdateUsers \/ UpdateGroups \/ UpdateUsersAsync \/ UpdateGroupsAsync
             \/ DispatchUsers \/ DispatchGroups \/ CommitUsers \/ UnsetDefault
    <3>1. sys_groups' = sys_groups
      BY <2>8 DEF UpdateUsers, UpdateGroups, UpdateUsersAsync, UpdateGroupsAsync,
                  DispatchUsers, DispatchGroups, CommitUsers, UnsetDefault, system
    <3> QED BY <2>2, <3>1
  <2>9. ASSUME NEW g \in GroupObjs, NEW u \in UserObjs, GroupAddUser(g, u) \/ GroupRemoveUser(g, u)
        PROVE  sys_groups' = sys_groups
    BY <2>9 DEF GroupAddUser, GroupRemoveUser, system
  <2> HIDE DEF Kept
  <2> QED BY <1>1, <2>1, <2>2, <2>3, <2>4, <2>5, <2>6, <2>7, <2>8, <2>9 DEF Next
<1>2. ASSUME ~Overtaking
      PROVE  Inv /\ Agreement /\ [Next]_vars => [Kept]_vars
  BY <1>1, <1>2
<1> HIDE DEF Kept
<1>3. ASSUME ~Overtaking
      PROVE  Spec => [][Kept]_vars
  <2>1. Inv /\ Agreement /\ [Next]_vars => [Kept]_vars
    BY <1>2, <1>3
  <2>2. Spec => [](Inv /\ Agreement)
    BY <1>3, AgreementInvariant
  <2> QED BY <2>1, <2>2, PTL DEF Spec
<1> QED BY <1>3 DEF ForeignKept, Kept

-----------------------------------------------------------------------------
(* The ID of a new account *)

\* The first loop.
HighestSoFar ==
    /\ pc = "start" => pos = 1
    /\ pc = "highest" =>
          /\ \/ new_id = Pred(id_min)
             \/ new_id \in id_min..(id_max - 1) /\ IsIdUsed(new_id)
          /\ id_min > 0 =>
                \A i \in 1..(pos - 1) : list[i] \in id_min..(id_max - 1) => list[i] <= new_id

\* The second loop.
ScannedUsed ==
    pc = "scan" =>
        /\ IF Wanted = {} THEN new_id = id_min ELSE new_id \in Wanted
        /\ \A n \in id_min..(new_id - 1) : IsIdUsed(n)
        /\ id_min > 0 /\ Wanted # {} => IsIdUsed(id_max)

SearchInv ==
    /\ SearchTypeOK
    /\ pc = "start" => id_min <= id_max
    /\ HighestSoFar
    /\ ScannedUsed
    /\ InRange
    /\ FreeUnlessFull
    /\ FollowsHighest

\* The bounded lists of the initial states are sequences of IDs.
LEMMA ListsAreSequences == Lists \subseteq Seq(Ids)
  BY IsASeq DEF Lists

\* The initial states satisfy the invariant.
LEMMA SearchInitInv == SearchInit => SearchInv
  <1> SUFFICES ASSUME SearchInit PROVE SearchInv
    OBVIOUS
  <1> USE IdsAssumption DEF SearchInit
  <1>1. list \in Seq(Ids)
    BY ListsAreSequences
  <1>2. SearchTypeOK
    BY <1>1 DEF SearchTypeOK, Ids
  <1>3. id_min <= id_max
    BY DEF Ids
  <1> QED
    BY <1>2, <1>3 DEF SearchInv, HighestSoFar, ScannedUsed, InRange, FreeUnlessFull, FollowsHighest

\* Every step of either loop keeps what the loop has established.
LEMMA SearchNextInv == SearchInv /\ [SearchNext]_search_vars => SearchInv'
  <1> SUFFICES ASSUME SearchInv, [SearchNext]_search_vars PROVE SearchInv'
    OBVIOUS
  <1> USE IdsAssumption DEF Ids
  <1>1. CASE Start
    <2>1. SearchTypeOK'
      BY <1>1 DEF Start, SearchInv, SearchTypeOK, Pred
    <2>3. HighestSoFar'
      BY <1>1 DEF Start, SearchInv, SearchTypeOK, HighestSoFar, Pred
    <2> QED
      BY <1>1, <2>1, <2>3
      DEF Start, SearchInv, ScannedUsed, InRange, FreeUnlessFull, FollowsHighest
  <1>2. CASE Visit
    <2>1. list[pos] \in Ids
      BY <1>2 DEF Visit, SearchInv, SearchTypeOK
    <2>2. SearchTypeOK'
      BY <1>2, <2>1 DEF Visit, SearchInv, SearchTypeOK
    <2>3. HighestSoFar'
      <3>1. \/ new_id' = Pred(id_min)
            \/ new_id' \in id_min..(id_max - 1) /\ IsIdUsed(new_id')
        BY <1>2, <2>1 DEF Visit, SearchInv, SearchTypeOK, HighestSoFar, Better, IsIdUsed
      <3>2. ASSUME id_min > 0, NEW i \in 1..pos, list[i] \in id_min..(id_max - 1)
            PROVE  list[i] <= new_id'
        <4>1. list[i] \in Int /\ new_id \in Int /\ id_min \in Int /\ id_max \in Int
          BY <3>2 DEF SearchInv, SearchTypeOK
        <4>2. CASE i = pos
          BY <1>2, <2>1, <3>2, <4>1, <4>2 DEF Visit, Better
        <4>3. CASE i # pos
          <5>1. i \in 1..(pos - 1)
            BY <1>2, <3>2, <4>3 DEF Visit, SearchInv, SearchTypeOK
          <5>2. list[i] <= new_id
            BY <1>2, <3>2, <5>1 DEF Visit, SearchInv, HighestSoFar
          <5>3. new_id <= new_id'
            BY <1>2, <2>1, <4>1 DEF Visit, Better
          <5>4. new_id' \in Int
            BY <2>2 DEF SearchTypeOK
          <5> QED
            BY <4>1, <5>2, <5>3, <5>4
        <4> QED
          BY <4>2, <4>3
      <3> QED
        BY <1>2, <3>1, <3>2 DEF Visit, SearchInv, SearchTypeOK, HighestSoFar, IsIdUsed
    <2> QED
      BY <1>2, <2>2, <2>3
      DEF Visit, SearchInv, ScannedUsed, InRange, FreeUnlessFull, FollowsHighest
  <1>3. CASE Try
    <2>0. /\ Succ(new_id) \in Ids
          /\ Succ(new_id) = id_min \/ (Succ(new_id) - 1 \in Wanted /\ IsIdUsed(Succ(new_id) - 1))
          /\ Wanted # {} => Succ(new_id) \in Wanted
      <3>1. new_id \in Ids /\ id_min \in Ids /\ id_max \in Ids
        BY DEF SearchInv, SearchTypeOK
      <3>2. CASE new_id = Pred(id_min)
        <4>1. Succ(new_id) = id_min
          BY <3>1, <3>2 DEF Succ, Pred
        <4> QED
          BY <3>1, <4>1 DEF Wanted
      <3>3. CASE new_id \in id_min..(id_max - 1) /\ IsIdUsed(new_id)
        <4>1. Succ(new_id) = new_id + 1 /\ Succ(new_id) - 1 = new_id
          BY <3>1, <3>3 DEF Succ
        <4> QED
          BY <3>1, <3>3, <4>1 DEF Wanted
      <3> QED
        BY <1>3, <3>2, <3>3 DEF Try, SearchInv, HighestSoFar
    <2>1. Succ(new_id) \in Wanted \/ (Wanted = {} /\ Succ(new_id) = id_min)
      <3>1. Wanted = {} => Succ(new_id) = id_min
        BY <2>0
      <3> QED
        BY <2>0, <3>1
    <2>2. SearchTypeOK'
      BY <1>3, <2>0 DEF Try, SearchInv, SearchTypeOK
    <2>3. ASSUME id_min > 0, NEW n \in id_min..(id_max - 1), IsIdUsed(n)
          PROVE  n < Succ(new_id)
      <3>1. PICK i \in 1..Len(list) : list[i] = n
        BY <2>3 DEF IsIdUsed
      <3>2. i \in 1..(pos - 1)
        BY <1>3, <3>1 DEF Try, SearchInv, SearchTypeOK
      <3>3. new_id \in Nat /\ id_min \in Nat /\ id_max \in 0..MaxId
        BY DEF SearchInv, SearchTypeOK
      <3>4. new_id = id_min - 1 \/ new_id \in id_min..(id_max - 1)
        BY <1>3, <2>3, <3>3 DEF Try, SearchInv, HighestSoFar, Pred
      <3>5. n <= new_id
        BY <1>3, <2>3, <3>1, <3>2 DEF Try, SearchInv, HighestSoFar
      <3> QED
        BY <3>3, <3>4, <3>5 DEF Succ
    <2>4. CASE IsIdUsed(Succ(new_id))
      <3>1. id_min > 0 /\ Wanted # {} => IsIdUsed(id_max)
        <4> SUFFICES ASSUME id_min > 0, Wanted # {} PROVE IsIdUsed(id_max)
          OBVIOUS
        <4>1. Succ(new_id) \in id_min..id_max /\ id_min \in Ids /\ id_max \in Ids
          BY <2>1 DEF Wanted, SearchInv, SearchTypeOK
        <4>2. ~(Succ(new_id) \in id_min..(id_max - 1))
          BY <2>3, <2>4, <4>1
        <4> QED
          BY <2>4, <4>1, <4>2
      <3>2. /\ new_id' = id_min /\ list' = list
            /\ id_min' = id_min /\ id_max' = id_max
        BY <1>3, <2>4 DEF Try
      <3>3. (Wanted # {} => id_min \in Wanted) /\ id_min..(id_min - 1) = {}
        BY DEF Wanted, SearchInv, SearchTypeOK
      <3>4. ScannedUsed'
        BY <3>1, <3>2, <3>3 DEF ScannedUsed, IsIdUsed, Wanted
      <3> QED
        BY <1>3, <2>2, <2>4, <3>4
        DEF Try, SearchInv, HighestSoFar, InRange, FreeUnlessFull, FollowsHighest
    <2>5. CASE ~IsIdUsed(Succ(new_id))
      <3>1. new_id' = Succ(new_id) /\ pc' = "done" /\ list' = list
            /\ id_min' = id_min /\ id_max' = id_max /\ default' = default
        BY <1>3, <2>5 DEF Try
      <3>2. InRange'
        BY <2>1, <3>1 DEF InRange, Wanted
      <3>3. FreeUnlessFull'
        BY <2>5, <3>1 DEF FreeUnlessFull, IsIdUsed
      <3>4. FollowsHighest'
        <4>1. ASSUME id_min > 0, ~IsIdUsed(id_max), NEW n \in Wanted, IsIdUsed(n)
              PROVE  n < Succ(new_id)
          <5>1. n # id_max
            BY <4>1
          <5>2. n \in id_min..(id_max - 1)
            BY <5>1 DEF Wanted, SearchInv, SearchTypeOK
          <5> QED
            BY <2>3, <4>1, <5>2
        <4>2. id_min > 0 /\ ~IsIdUsed(id_max) => IsAfterHighest(Succ(new_id))
          BY <2>0, <4>1 DEF IsAfterHighest
        <4> QED
          BY <3>1, <4>2 DEF FollowsHighest, IsAfterHighest, Wanted, IsIdUsed
      <3> QED
        BY <2>2, <3>1, <3>2, <3>3, <3>4 DEF SearchInv, HighestSoFar, ScannedUsed
    <2> QED
      BY <2>4, <2>5
  <1>4. CASE Scan
    <2>1. CASE More
      <3>1. Succ(new_id) = new_id + 1 /\ new_id + 1 <= id_max
        BY <1>4, <2>1 DEF More, SearchInv, SearchTypeOK, Succ
      <3>2. SearchTypeOK'
        BY <1>4, <2>1, <3>1 DEF Scan, SearchInv, SearchTypeOK
      <3>3. ScannedUsed'
        <4>1. \A n \in id_min..new_id : IsIdUsed(n)
          BY <1>4, <2>1 DEF Scan, More, SearchInv, SearchTypeOK, ScannedUsed
        <4>2. id_min > 0 /\ Wanted # {} => IsIdUsed(id_max)
          BY <1>4 DEF Scan, SearchInv, ScannedUsed
        <4>3. new_id' = new_id + 1 /\ UNCHANGED <<list, id_min, id_max, pc>>
          BY <1>4, <2>1, <3>1 DEF Scan
        <4>4. Wanted # {} /\ new_id' \in Wanted /\ id_min..(new_id' - 1) = id_min..new_id
          <5>1. IF Wanted = {} THEN new_id = id_min ELSE new_id \in Wanted
            BY <1>4 DEF Scan, SearchInv, ScannedUsed
          <5>2. new_id \in Nat /\ id_min \in Nat /\ id_max \in Nat
            BY DEF SearchInv, SearchTypeOK
          <5>3. new_id >= id_min
            BY <5>1, <5>2 DEF Wanted
          <5> QED
            BY <3>1, <4>3, <5>2, <5>3 DEF Wanted
        <4> QED
          BY <4>1, <4>2, <4>3, <4>4 DEF ScannedUsed, IsIdUsed, Wanted
      <3> QED
        BY <1>4, <2>1, <3>2, <3>3
        DEF Scan, SearchInv, HighestSoFar, InRange, FreeUnlessFull, FollowsHighest
    <2>2. CASE ~More
      <3>1. UNCHANGED <<list, id_min, id_max, default, pos, new_id>> /\ pc' = "done"
        BY <1>4, <2>2 DEF Scan
      <3>2. ScannedUsed /\ pc = "scan"
        BY <1>4 DEF Scan, SearchInv
      <3>3. SearchTypeOK'
        BY <3>1 DEF SearchInv, SearchTypeOK
      <3>4. InRange'
        BY <3>1, <3>2 DEF InRange, ScannedUsed, Wanted
      <3>5. FreeUnlessFull'
        <4>1. SUFFICES ASSUME IsIdUsed(new_id)
                       PROVE  /\ Wanted # {} => new_id = id_max
                              /\ \A n \in Wanted : IsIdUsed(n)
          BY <3>1 DEF FreeUnlessFull, IsIdUsed, Wanted
        <4>2. Wanted # {} => new_id = id_max
          BY <2>2, <3>2, <4>1 DEF More, ScannedUsed, SearchInv, SearchTypeOK, Wanted
        <4>3. \A n \in id_min..(new_id - 1) : IsIdUsed(n)
          BY <3>2 DEF ScannedUsed
        <4>4. \A n \in Wanted : n = new_id \/ n \in id_min..(new_id - 1)
          BY <4>2 DEF SearchInv, SearchTypeOK, Wanted
        <4> QED
          BY <4>1, <4>2, <4>3, <4>4
      <3>6. FollowsHighest'
        <4>1. SUFFICES ASSUME id_min > 0, ~IsIdUsed(id_max) PROVE IsAfterHighest(new_id)
          BY <3>1 DEF FollowsHighest, IsAfterHighest, IsIdUsed, Wanted
        <4>2. Wanted = {} /\ new_id = id_min
          BY <3>2, <4>1 DEF ScannedUsed
        <4> QED
          BY <4>2 DEF IsAfterHighest
      <3> QED
        BY <3>1, <3>3, <3>4, <3>5, <3>6 DEF SearchInv, HighestSoFar, ScannedUsed
    <2> QED
      BY <2>1, <2>2
  <1>5. CASE Over \/ UNCHANGED search_vars
    BY <1>5 DEF Over, search_vars, SearchInv, SearchTypeOK, HighestSoFar, ScannedUsed, InRange,
                FreeUnlessFull, FollowsHighest, IsIdUsed, IsAfterHighest, Wanted
  <1> QED
    BY <1>1, <1>2, <1>3, <1>4, <1>5 DEF SearchNext

\* The invariant holds in every reachable state of either search.
THEOREM SearchInvariance == SearchSpec => []SearchInv
  BY SearchInitInv, SearchNextInv, PTL DEF SearchSpec

\* No variable leaves its type: the counter wraps instead of going below 0.
THEOREM SearchTypeCorrect == SearchSpec => []SearchTypeOK
  <1>1. SearchInv => SearchTypeOK
    BY DEF SearchInv
  <1> QED
    BY SearchInvariance, <1>1, PTL

\* The ID returned lies in the range, and is free unless the whole range is used.
\* An empty default range, which the code does not refuse, gives its minimum.
THEOREM AnswerGood == SearchSpec => []GoodAnswer
  <1>1. SearchInv => GoodAnswer
    BY DEF SearchInv, GoodAnswer
  <1> QED
    BY SearchInvariance, <1>1, PTL

\* From a minimum above 0, a free maximum means the ID after the highest one used
\* in the range, or the minimum if none is.
THEOREM AnswerFollowsHighest == SearchSpec => []FollowsHighest
  <1>1. SearchInv => FollowsHighest
    BY DEF SearchInv
  <1> QED
    BY SearchInvariance, <1>1, PTL
=============================================================================
