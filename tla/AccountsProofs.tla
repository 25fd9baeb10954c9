---------------------------- MODULE AccountsProofs ----------------------------
(***************************************************************************)
(* Proofs about OobsUser and OobsSelfConfig: types, which of the users is  *)
(* the one that runs the program, and what a commit does to an account.    *)
(* The invariant adds that an object differs from the account it was read  *)
(* from only in what has been set since.                                   *)
(***************************************************************************)
EXTENDS Accounts, FiniteSetTheorems, NaturalsInduction, WellFoundedInduction, TLAPS

-----------------------------------------------------------------------------
(* The invariant *)

\* What is not in e is as in the account a, and the password is not to be sent.
Unedited(u, a, e) ==
    /\ u \in User /\ a \in Account /\ u.login = a.login
    /\ \A f \in Fields : f \notin e => u.data[f] = a.data[f]
    /\ "uid" \notin e => u.uid = a.uid
    /\ "password" \notin e => u.password = Null
    /\ "empty" \notin e => u.empty = (a.password = Null)

EditsKnown == \A o \in Reached : Unedited(user[o], read[o], edited[o])

Inv ==
    /\ TypeOK
    /\ SelfCurrent
    /\ EditsKnown
    /\ self.updated => self.made

-----------------------------------------------------------------------------
(* Sequences *)

LEMMA LeastOfNat ==
    ASSUME NEW I \in SUBSET Nat, I # {}
    PROVE  Min(I) \in I
<1> DEFINE R == {p \in Nat \X Nat : p[1] < p[2]}
<1>1. IsWellFoundedOn(R, Nat)
  BY NatLessThanWellFounded DEF OpToRel
<1>2. PICK m \in I : \A i \in I : ~ (<<i, m>> \in R)
  <2> HIDE DEF R
  <2> QED BY <1>1, WFMin
<1>3. ASSUME NEW i \in I PROVE m <= i
  <2>1. ~ (<<i, m>> \in R)
    BY <1>2
  <2> QED BY <2>1
<1> QED BY <1>3 DEF Min

\* SetToSeq lists the elements of a set, each once.
LEMMA SetToSeqProperties ==
    ASSUME NEW S, IsFiniteSet(S)
    PROVE  /\ SetToSeq(S) \in Seq(S)
           /\ ToSet(SetToSeq(S)) = S
           /\ \A i, j \in 1..Len(SetToSeq(S)) : SetToSeq(S)[i] = SetToSeq(S)[j] => i = j
           /\ Len(SetToSeq(S)) = Cardinality(S)
<1>1. Cardinality(S) \in Nat /\ \E f \in [1..Cardinality(S) -> S] : IsInjective(f)
  BY FS_CardinalityType DEF ExistsBijection, Bijection, Injection
<1> DEFINE f == SetToSeq(S)
<1>2. f \in [1..Cardinality(S) -> S] /\ IsInjective(f)
  BY <1>1 DEF SetToSeq
<1> HIDE DEF f
<1>3. f \in Seq(S) /\ Len(f) = Cardinality(S)
  BY <1>1, <1>2
<1>4. f \in Surjection(1..Cardinality(S), S)
  <2>1. f \in Injection(1..Cardinality(S), S)
    BY <1>2 DEF Injection
  <2>2. Cardinality(1..Cardinality(S)) = Cardinality(S)
    BY <1>1, FS_Interval
  <2> QED BY <2>1, <2>2, FS_Injection
<1>5. ToSet(f) = S
  BY <1>2, <1>4 DEF ToSet, Surjection
<1>6. \A i, j \in 1..Len(f) : f[i] = f[j] => i = j
  BY <1>2, <1>3 DEF IsInjective
<1> QED BY <1>3, <1>5, <1>6 DEF f

LEMMA ToSetProperties ==
    ASSUME NEW S, NEW q \in Seq(S)
    PROVE  /\ ToSet(q) \subseteq S
           /\ \A i \in 1..Len(q) : q[i] \in ToSet(q)
           /\ \A e \in ToSet(q) : \E i \in 1..Len(q) : q[i] = e
  BY DEF ToSet

LEMMA AppendElements ==
    ASSUME NEW S, NEW q \in Seq(S), NEW e \in S
    PROVE  Append(q, e) \in Seq(S) /\ ToSet(Append(q, e)) = ToSet(q) \cup {e}
<1> DEFINE p == Append(q, e)
<1>1. /\ p \in Seq(S) /\ Len(p) = Len(q) + 1 /\ Len(q) \in Nat
      /\ \A i \in 1..Len(q) : p[i] = q[i]
      /\ p[Len(q) + 1] = e
  OBVIOUS
<1> HIDE DEF p
<1>2. ToSet(p) = {p[i] : i \in 1..Len(p)} /\ ToSet(q) = {q[i] : i \in 1..Len(q)}
  BY <1>1 DEF ToSet
<1>3. \A i \in 1..Len(p) : i \in 1..Len(q) \/ i = Len(q) + 1
  BY <1>1
<1>4. 1..Len(q) \subseteq 1..Len(p) /\ Len(q) + 1 \in 1..Len(p)
  BY <1>1
<1>5. ToSet(p) \subseteq ToSet(q) \cup {e}
  BY <1>1, <1>2, <1>3
<1>6. ToSet(q) \cup {e} \subseteq ToSet(p)
  BY <1>1, <1>2, <1>4
<1> QED BY <1>1, <1>5, <1>6 DEF p

\* One element is removed, if it is there.
LEMMA RemoveFirstElements ==
    ASSUME NEW S, NEW q \in Seq(S), NEW e
    PROVE  /\ RemoveFirst(q, e) \in Seq(S)
           /\ ToSet(RemoveFirst(q, e)) \subseteq ToSet(q)
           /\ ToSet(q) \subseteq ToSet(RemoveFirst(q, e)) \cup {e}
           /\ \A i, j \in 1..Len(RemoveFirst(q, e)) : i # j =>
                 \E k, l \in 1..Len(q) : /\ k # l /\ q[k] = RemoveFirst(q, e)[i]
                                         /\ q[l] = RemoveFirst(q, e)[j]
           /\ (\A i, j \in 1..Len(q) : q[i] = q[j] => i = j) => e \notin ToSet(RemoveFirst(q, e))
<1> DEFINE r == RemoveFirst(q, e)
           I == {i \in 1..Len(q) : q[i] = e}
           m == Min(I)
<1>1. CASE I = {}
  <2>1. r = q
    BY <1>1 DEF RemoveFirst
  <2>2. e \notin ToSet(q)
    BY <1>1 DEF ToSet
  <2> QED BY <2>1, <2>2
<1>2. CASE I # {}
  <2>1. m \in 1..Len(q) /\ q[m] = e
    <3>1. I \in SUBSET Nat
      OBVIOUS
    <3> HIDE DEF I
    <3>2. m \in I
      BY <1>2, <3>1, LeastOfNat
    <3> QED BY <3>2 DEF I
  <2>2. SelectInSeq(q, LAMBDA v : v = e) = m
    BY <1>2 DEF SelectInSeq
  <2>3. r = SubSeq(q, 1, m - 1) \o SubSeq(q, m + 1, Len(q))
    BY <1>2, <2>2 DEF RemoveFirst, RemoveAt
  <2> HIDE DEF I, m, r
  <2> DEFINE a == SubSeq(q, 1, m - 1)
             b == SubSeq(q, m + 1, Len(q))
  <2>4. /\ a \in Seq(S) /\ Len(a) = m - 1
        /\ \A i \in 1..(m - 1) : a[i] = q[i]
    BY <2>1
  <2>5. /\ b \in Seq(S) /\ Len(b) = Len(q) - m
        /\ \A i \in 1..(Len(q) - m) : b[i] = q[m + i]
    BY <2>1
  <2> HIDE DEF a, b
  <2>6. r = a \o b
    BY <2>3 DEF a, b
  <2>7. /\ r \in Seq(S) /\ Len(r) = Len(q) - 1 /\ Len(q) \in Nat
        /\ \A i \in 1..(m - 1) : r[i] = q[i]
        /\ \A i \in m..(Len(q) - 1) : r[i] = q[i + 1]
    <3>1. r \in Seq(S) /\ Len(r) = Len(q) - 1
      BY <2>1, <2>4, <2>5, <2>6
    <3>2. \A i \in 1..(m - 1) : r[i] = q[i]
      BY <2>1, <2>4, <2>5, <2>6
    <3>3. ASSUME NEW i \in m..(Len(q) - 1)
          PROVE  r[i] = q[i + 1]
      <4>1. i - (m - 1) \in 1..(Len(q) - m) /\ m + (i - (m - 1)) = i + 1
            /\ i \in 1..(Len(a) + Len(b)) /\ i > Len(a)
        BY <2>1, <2>4, <2>5
      <4>2. r[i] = b[i - (m - 1)]
        BY <2>4, <2>5, <2>6, <4>1
      <4> QED BY <2>5, <4>1, <4>2
    <3> QED BY <3>1, <3>2, <3>3
  <2> DEFINE old(i) == IF i < m THEN i ELSE i + 1
  <2>8. \A i \in 1..Len(r) : old(i) \in 1..Len(q) /\ r[i] = q[old(i)] /\ old(i) # m
    BY <2>1, <2>7
  <2>9. \A i, j \in 1..Len(r) : i # j => old(i) # old(j)
    BY <2>1, <2>7
  <2>10. \A k \in 1..Len(q) : k # m => \E i \in 1..Len(r) : r[i] = q[k]
    <3> SUFFICES ASSUME NEW k \in 1..Len(q), k # m
                 PROVE  \E i \in 1..Len(r) : r[i] = q[k]
      OBVIOUS
    <3>1. CASE k < m
      BY <2>1, <2>7, <3>1
    <3>2. CASE k > m
      <4>1. k - 1 \in m..(Len(q) - 1) /\ k - 1 \in 1..Len(r) /\ (k - 1) + 1 = k
        BY <2>1, <2>7, <3>2
      <4> QED BY <2>7, <4>1
    <3> QED BY <2>1, <3>1, <3>2
  <2> HIDE DEF old
  <2>11. ToSet(r) = {r[i] : i \in 1..Len(r)} /\ ToSet(q) = {q[i] : i \in 1..Len(q)}
    BY <2>7 DEF ToSet
  <2>12. ToSet(r) \subseteq ToSet(q)
    BY <2>8, <2>11
  <2>13. ToSet(q) \subseteq ToSet(r) \cup {e}
    <3> SUFFICES ASSUME NEW k \in 1..Len(q)
                 PROVE  q[k] \in ToSet(r) \cup {e}
      BY <2>11
    <3>1. CASE k = m
      BY <2>1, <3>1
    <3>2. CASE k # m
      BY <2>10, <2>11, <3>2
    <3> QED BY <3>1, <3>2
  <2>14. (\A i, j \in 1..Len(q) : q[i] = q[j] => i = j) => e \notin ToSet(r)
    BY <2>1, <2>8, <2>11
  <2> QED BY <2>7, <2>8, <2>9, <2>12, <2>13, <2>14 DEF r
<1> QED BY <1>1, <1>2

-----------------------------------------------------------------------------
(* Users and accounts by their UID and login *)

\* What SelectInSeq returns: the first of the places that pass, or 0.
LEMMA FirstPlace ==
    ASSUME NEW n \in Nat, NEW I \in SUBSET (1..n), NEW k, k = IF I # {} THEN Min(I) ELSE 0
    PROVE  k \in 0..n /\ (k # 0 => k \in I)
<1>1. CASE I = {}
  BY <1>1
<1>2. CASE I # {}
  <2> DEFINE m == Min(I)
  <2>1. m \in I
    BY <1>2, LeastOfNat
  <2>2. k = m
    BY <1>2
  <2> HIDE DEF m
  <2> QED BY <2>1, <2>2
<1> QED BY <1>1, <1>2

LEMMA SelfIndexFinds ==
    ASSUME NEW s \in Seq(Account)
    PROVE  /\ SelfIndex(s) \in 0..Len(s)
           /\ SelfIndex(s) # 0 => s[SelfIndex(s)].uid = SelfUid
<1> DEFINE I == {i \in 1..Len(s) : s[i].uid = SelfUid}
           k == SelfIndex(s)
<1>1. k = IF I # {} THEN Min(I) ELSE 0
  BY DEF SelfIndex, SelectInSeq
<1>2. Len(s) \in Nat /\ I \in SUBSET (1..Len(s)) /\ \A i \in I : s[i].uid = SelfUid
  OBVIOUS
<1> HIDE DEF I, k
<1>3. k \in 0..Len(s) /\ (k # 0 => k \in I)
  BY <1>1, <1>2, FirstPlace
<1> QED BY <1>2, <1>3 DEF k

LEMMA AccountOfFinds ==
    ASSUME accounts \in Seq(Account), NEW o
    PROVE  /\ AccountOf(o) \in 0..Len(accounts)
           /\ AccountOf(o) # 0 => accounts[AccountOf(o)].login = user[o].login
<1> DEFINE I == {i \in 1..Len(accounts) : accounts[i].login = user[o].login}
           k == AccountOf(o)
<1>1. k = IF I # {} THEN Min(I) ELSE 0
  BY DEF AccountOf, SelectInSeq
<1>2. /\ Len(accounts) \in Nat /\ I \in SUBSET (1..Len(accounts))
      /\ \A i \in I : accounts[i].login = user[o].login
  OBVIOUS
<1> HIDE DEF I, k
<1>3. k \in 0..Len(accounts) /\ (k # 0 => k \in I)
  BY <1>1, <1>2, FirstPlace
<1> QED BY <1>2, <1>3 DEF k

\* The user of OobsSelfConfig is one of the list, or none.
LEMMA FirstSelfListed ==
    ASSUME NEW objs \in Seq(Objects), NEW us
    PROVE  FirstSelf(objs, us) \in ToSet(objs) \cup {Null}
<1> DEFINE I == {i \in 1..Len(objs) : us[objs[i]].uid = SelfUid}
           k == IF I # {} THEN Min(I) ELSE 0
<1>1. FirstSelf(objs, us) = IF k = 0 THEN Null ELSE objs[k]
  BY DEF FirstSelf, SelectInSeq
<1>2. Len(objs) \in Nat /\ I \in SUBSET (1..Len(objs))
  OBVIOUS
<1> HIDE DEF I
<1>3. k \in 0..Len(objs)
  BY <1>2, FirstPlace
<1> HIDE DEF k
<1>4. k # 0 => objs[k] \in ToSet(objs)
  BY <1>2, <1>3, ToSetProperties
<1> QED BY <1>1, <1>4

\* Only the UIDs of the listed users matter.
LEMMA FirstSelfSame ==
    ASSUME NEW objs \in Seq(Objects), NEW us, NEW vs,
           \A o \in ToSet(objs) : us[o].uid = vs[o].uid
    PROVE  FirstSelf(objs, us) = FirstSelf(objs, vs)
<1>1. \A i \in 1..Len(objs) : us[objs[i]].uid = vs[objs[i]].uid
  BY ToSetProperties
<1> DEFINE I == {i \in 1..Len(objs) : us[objs[i]].uid = SelfUid}
           J == {i \in 1..Len(objs) : vs[objs[i]].uid = SelfUid}
           i0 == IF I # {} THEN Min(I) ELSE 0
           j0 == IF J # {} THEN Min(J) ELSE 0
<1>2. I = J
  BY <1>1
<1>3. FirstSelf(objs, us) = IF i0 = 0 THEN Null ELSE objs[i0]
  BY DEF FirstSelf, SelectInSeq
<1>4. FirstSelf(objs, vs) = IF j0 = 0 THEN Null ELSE objs[j0]
  BY DEF FirstSelf, SelectInSeq
<1> HIDE DEF I, J
<1> QED BY <1>2, <1>3, <1>4

-----------------------------------------------------------------------------
(* Objects *)

\* The part of the invariant about the objects.
ObjectsKnown ==
    /\ list \in Seq(Objects) /\ IsInjective(list)
    /\ user \in [Objects -> User \cup {Null}]
    /\ self \in Self
    /\ read \in [Objects -> Account \cup {Null}]
    /\ edited \in [Objects -> SUBSET Edits]
    /\ \A o \in Objects : user[o] # Null <=> o \in ToSet(list) \cup ({self.user} \ {Null})
    /\ EditsKnown
    /\ self.updated => self.made

LEMMA InvParts ==
    ASSUME Inv
    PROVE  /\ accounts \in Seq(Account) /\ IsPasswd(accounts)
           /\ updated \in BOOLEAN /\ touched \in BOOLEAN /\ changes \in 0..MaxChanges
           /\ get = Null \/ IsPasswd(get)
           /\ ObjectsKnown /\ SelfCurrent
  BY DEF Inv, TypeOK, IsPasswd, ObjectsKnown

LEMMA InvFromParts ==
    ASSUME IsPasswd(accounts'), updated' \in BOOLEAN, touched' \in BOOLEAN,
           changes' \in 0..MaxChanges, get' = Null \/ IsPasswd(get'),
           ObjectsKnown', SelfCurrent'
    PROVE  Inv'
<1>1. TypeOK'
  BY DEF TypeOK, ObjectsKnown, IsPasswd
<1> QED BY <1>1 DEF Inv, ObjectsKnown

LEMMA ReachedObjects ==
    ASSUME ObjectsKnown, NEW o \in Reached
    PROVE  /\ o \in Objects /\ user[o] \in User /\ read[o] \in Account /\ edited[o] \in SUBSET Edits
           /\ Unedited(user[o], read[o], edited[o])
<1>1. o \in Objects /\ user[o] # Null /\ edited[o] \in SUBSET Edits /\ user[o] \in User
  BY DEF Reached, ObjectsKnown
<1>2. Unedited(user[o], read[o], edited[o])
  BY DEF ObjectsKnown, EditsKnown
<1> QED BY <1>1, <1>2 DEF Unedited

\* The list and the contents of the objects change.
LEMMA BecomeKnown ==
    ASSUME NEW objs \in Seq(Objects), IsInjective(objs), NEW us, NEW s \in Self, NEW r, NEW e,
           Become(objs, us, s, r, e), s.updated => s.made,
           \A o \in ToSet(objs) \cup ({s.user} \ {Null}) :
               e[o] \in SUBSET Edits /\ Unedited(us[o], r[o], e[o])
    PROVE  ObjectsKnown' /\ FirstSelf(list', user') = FirstSelf(objs, us)
<1> DEFINE H == ToSet(objs) \cup ({s.user} \ {Null})
<1>1. H \subseteq Objects /\ s.user \in Objects \cup {Null} /\ Null \notin Objects
  BY ToSetProperties, SetsAssumption DEF Self
<1>2. /\ list' = objs /\ self' = s
      /\ user' = [o \in Objects |-> IF o \in H THEN us[o] ELSE Null]
      /\ read' = [o \in Objects |-> IF o \in H THEN r[o] ELSE Null]
      /\ edited' = [o \in Objects |-> IF o \in H THEN e[o] ELSE {}]
  BY <1>1 DEF Become, Held
<1>3. \A o \in H : us[o] \in User /\ us[o] # Null /\ r[o] \in Account /\ e[o] \in SUBSET Edits
  BY NullAssumption DEF Unedited
<1>4. ToSet(objs) \subseteq H
  OBVIOUS
<1>5. \A o \in H : Unedited(us[o], r[o], e[o])
  OBVIOUS
<1>6. list' \in Seq(Objects) /\ IsInjective(list') /\ self' \in Self
      /\ (self'.updated => self'.made)
  BY <1>2
<1> HIDE DEF H
<1>7. /\ user' \in [Objects -> User \cup {Null}]
      /\ read' \in [Objects -> Account \cup {Null}]
      /\ edited' \in [Objects -> SUBSET Edits]
      /\ \A o \in Objects : user'[o] # Null <=> o \in H
  BY <1>2, <1>3
<1>8. EditsKnown'
  <2>1. \A o \in Objects : user'[o] # Null => Unedited(user'[o], read'[o], edited'[o])
    <3> SUFFICES ASSUME NEW o \in Objects, o \in H PROVE Unedited(user'[o], read'[o], edited'[o])
      BY <1>7
    <3>1. user'[o] = us[o] /\ read'[o] = r[o] /\ edited'[o] = e[o]
      BY <1>2
    <3> QED BY <1>5, <3>1
  <2> QED BY <2>1 DEF EditsKnown, Reached, Unedited
<1>9. ObjectsKnown'
  BY <1>2, <1>6, <1>7, <1>8 DEF ObjectsKnown, H
<1>10. \A o \in ToSet(objs) : user'[o].uid = us[o].uid
  BY <1>1, <1>2, <1>4
<1>11. FirstSelf(objs, user') = FirstSelf(objs, us)
  BY <1>10, FirstSelfSame
<1> QED BY <1>2, <1>9, <1>11

\* What one object holds changes.
LEMMA ObjectChange ==
    ASSUME ObjectsKnown, NEW o \in Reached, NEW u, NEW a, NEW e \in SUBSET Edits,
           Unedited(u, a, e), UNCHANGED <<list, self>>,
           user' = [user EXCEPT ![o] = u], read' = [read EXCEPT ![o] = a],
           edited' = [edited EXCEPT ![o] = e]
    PROVE  /\ ObjectsKnown'
           /\ u.uid = user[o].uid => FirstSelf(list', user') = FirstSelf(list, user)
<1>1. u \in User /\ u # Null /\ a \in Account /\ o \in Objects /\ user[o] # Null
  BY NullAssumption DEF Unedited, Reached
<1>2. /\ list \in Seq(Objects) /\ IsInjective(list) /\ self \in Self
      /\ (self.updated => self.made)
      /\ user \in [Objects -> User \cup {Null}] /\ read \in [Objects -> Account \cup {Null}]
      /\ edited \in [Objects -> SUBSET Edits]
      /\ \A p \in Objects : user[p] # Null <=> p \in ToSet(list) \cup ({self.user} \ {Null})
  BY DEF ObjectsKnown
<1>3. /\ user' \in [Objects -> User \cup {Null}] /\ read' \in [Objects -> Account \cup {Null}]
      /\ edited' \in [Objects -> SUBSET Edits]
      /\ user'[o] = u /\ read'[o] = a /\ edited'[o] = e
      /\ \A p \in Objects \ {o} : user'[p] = user[p] /\ read'[p] = read[p] /\ edited'[p] = edited[p]
  BY <1>1, <1>2
<1>4. \A p \in Objects : user'[p] # Null <=> user[p] # Null
  BY <1>1, <1>3
<1>5. EditsKnown'
  <2>1. \A p \in Objects : user'[p] # Null => Unedited(user'[p], read'[p], edited'[p])
    <3> SUFFICES ASSUME NEW p \in Objects, user[p] # Null
                 PROVE  Unedited(user'[p], read'[p], edited'[p])
      BY <1>4
    <3>1. CASE p = o
      BY <1>3, <3>1
    <3>2. CASE p # o
      <4>1. Unedited(user[p], read[p], edited[p])
        BY DEF ObjectsKnown, EditsKnown, Reached
      <4> QED BY <1>3, <3>2, <4>1
    <3> QED BY <3>1, <3>2
  <2> QED BY <2>1 DEF EditsKnown, Reached, Unedited
<1>6. ObjectsKnown'
  BY <1>2, <1>3, <1>4, <1>5 DEF ObjectsKnown
<1>7. ASSUME u.uid = user[o].uid
      PROVE  FirstSelf(list, user') = FirstSelf(list, user)
  <2>1. ToSet(list) \subseteq Objects
    BY <1>2, ToSetProperties
  <2>2. \A p \in ToSet(list) : user'[p].uid = user[p].uid
    BY <1>3, <1>7, <2>1
  <2>3. list \in Seq(Objects)
    BY <1>2
  <2>4. ASSUME NEW us, NEW vs, \A p \in ToSet(list) : us[p].uid = vs[p].uid
        PROVE  FirstSelf(list, us) = FirstSelf(list, vs)
    BY <2>3, <2>4, FirstSelfSame
  <2> QED BY <2>2, <2>4
<1> QED BY <1>6, <1>7

-----------------------------------------------------------------------------
(* Steps *)

LEMMA InitInv == Init => Inv
<1> SUFFICES ASSUME Init PROVE Inv
  OBVIOUS
<1>1. PICK uids \in [Logins -> Uids], data \in Data, p \in Passwords \cup {Null} :
        accounts = SetToSeq({[login |-> l, uid |-> uids[l], data |-> data, password |-> p] :
                                 l \in Logins})
  BY DEF Init
<1> DEFINE a(l) == [login |-> l, uid |-> uids[l], data |-> data, password |-> p]
           A == {a(l) : l \in Logins}
<1>2. A \subseteq Account /\ \A x, y \in A : x.login = y.login => x = y
  BY DEF Account
<1>3. IsFiniteSet(A)
  <2> DEFINE f == [l \in Logins |-> a(l)]
  <2>1. f \in Surjection(Logins, A)
    BY DEF Surjection
  <2> HIDE DEF f, A
  <2> QED BY <2>1, FS_Surjection, FiniteAssumption
<1> HIDE DEF A
<1>4. /\ SetToSeq(A) \in Seq(A)
      /\ \A i, j \in 1..Len(SetToSeq(A)) : SetToSeq(A)[i] = SetToSeq(A)[j] => i = j
  BY <1>3, SetToSeqProperties
<1>5. accounts = SetToSeq(A)
  BY <1>1 DEF A
<1>6. IsPasswd(accounts)
  <2>1. accounts \in Seq(A) /\ \A i, j \in 1..Len(accounts) : accounts[i] = accounts[j] => i = j
    BY <1>4, <1>5
  <2>2. accounts \in Seq(Account)
    BY <1>2, <2>1
  <2>3. DOMAIN accounts = 1..Len(accounts) /\ \A i \in 1..Len(accounts) : accounts[i] \in A
    BY <2>1
  <2> QED BY <1>2, <2>1, <2>2, <2>3 DEF IsPasswd
<1>7. /\ list = <<>> /\ user = [o \in Objects |-> Null] /\ updated = FALSE
      /\ self = [made |-> FALSE, updated |-> FALSE, user |-> Null]
      /\ get = Null /\ changes = 0 /\ read = [o \in Objects |-> Null]
      /\ edited = [o \in Objects |-> {}] /\ touched = FALSE
  BY DEF Init
<1>8. list \in Seq(Objects) /\ IsInjective(list) /\ ToSet(list) = {}
  BY <1>7 DEF IsInjective, ToSet
<1>9. self \in Self /\ ~self.updated /\ self.user = Null
  BY <1>7 DEF Self
<1>10. Reached = {}
  BY <1>7 DEF Reached
<1>11. /\ user \in [Objects -> User \cup {Null}] /\ read \in [Objects -> Account \cup {Null}]
       /\ edited \in [Objects -> SUBSET Edits]
       /\ \A o \in Objects : user[o] = Null
  BY <1>7
<1>12. updated \in BOOLEAN /\ touched \in BOOLEAN /\ changes \in 0..MaxChanges
  <2>1. 0 \in 0..MaxChanges
    BY BoundAssumption
  <2> QED BY <1>7, <2>1
<1>13. TypeOK
  BY <1>6, <1>7, <1>8, <1>9, <1>11, <1>12 DEF TypeOK
<1> QED BY <1>9, <1>10, <1>13 DEF Inv, SelfCurrent, EditsKnown

LEMMA FromReplyUnedited ==
    ASSUME NEW a \in Account, NEW p \in Passwords \cup {Null}, NEW e, p = Null \/ "password" \in e
    PROVE  Unedited(FromReply(a, p), a, e)
  BY DEF FromReply, Unedited, Account, User

\* Whatever user OobsSelfConfig held, it denotes one of the new list.
LEMMA LoadStep ==
    ASSUME Inv, NEW s \in Seq(Account), Load(s), IsPasswd(accounts'),
           get' = Null \/ IsPasswd(get'), UNCHANGED changes
    PROVE  Inv'
<1> DEFINE D == CHOOSE E \in Fresh(s) : TRUE
           objs == SetToSeq(D)
           at(o) == CHOOSE k \in DOMAIN s : objs[k] = o
           us == [o \in Objects |->
                      IF o \in ToSet(objs) THEN FromReply(s[at(o)], Null) ELSE user[o]]
           t == IF self.made THEN Found(self, objs, us) ELSE self
           r == [o \in Objects |-> IF o \in ToSet(objs) THEN s[at(o)] ELSE read[o]]
           e == [o \in Objects |-> IF o \in ToSet(objs) THEN {} ELSE edited[o]]
<1>1. /\ Fresh(s) # {} /\ Become(objs, us, t, r, e)
      /\ updated' = TRUE /\ touched' = FALSE
  BY DEF Load
<1>2. ObjectsKnown /\ changes \in 0..MaxChanges
  BY InvParts
<1>3. D \in SUBSET Objects /\ Cardinality(D) = Len(s) /\ IsFiniteSet(D)
  <2>1. D \in Fresh(s)
    BY <1>1
  <2> HIDE DEF D
  <2>2. D \in SUBSET Objects /\ Cardinality(D) = Len(s)
    BY <2>1 DEF Fresh
  <2>3. IsFiniteSet(D)
    BY <2>2, FiniteAssumption, FS_Subset
  <2> QED BY <2>2, <2>3
<1> HIDE DEF D
<1>4. /\ objs \in Seq(D) /\ ToSet(objs) = D /\ Len(objs) = Len(s)
      /\ \A i, j \in 1..Len(objs) : objs[i] = objs[j] => i = j
  BY <1>3, SetToSeqProperties
<1> HIDE DEF objs
<1>5. objs \in Seq(Objects) /\ IsInjective(objs) /\ DOMAIN s = 1..Len(objs)
  BY <1>3, <1>4 DEF IsInjective
<1>6. \A o \in D : at(o) \in DOMAIN s /\ s[at(o)] \in Account
  <2> SUFFICES ASSUME NEW o \in D PROVE at(o) \in DOMAIN s /\ s[at(o)] \in Account
    OBVIOUS
  <2>1. \E k \in DOMAIN s : objs[k] = o
    BY <1>4, <1>5, ToSetProperties
  <2>2. at(o) \in DOMAIN s
    BY <2>1
  <2>3. \A k \in DOMAIN s : s[k] \in Account
    OBVIOUS
  <2> HIDE DEF at
  <2> QED BY <2>2, <2>3
<1> HIDE DEF at
<1>7. ASSUME NEW o \in D
      PROVE  e[o] \in SUBSET Edits /\ Unedited(us[o], r[o], e[o])
  <2>1. o \in Objects /\ us[o] = FromReply(s[at(o)], Null) /\ r[o] = s[at(o)] /\ e[o] = {}
    BY <1>3, <1>4
  <2>2. s[at(o)] \in Account
    BY <1>6
  <2>3. Unedited(FromReply(s[at(o)], Null), s[at(o)], {})
    BY <2>2, FromReplyUnedited
  <2> QED BY <2>1, <2>3
<1>8. ASSUME NEW o \in Objects \ D, user[o] # Null
      PROVE  e[o] \in SUBSET Edits /\ Unedited(us[o], r[o], e[o])
  <2>1. us[o] = user[o] /\ r[o] = read[o] /\ e[o] = edited[o]
    BY <1>4
  <2>2. o \in Reached
    BY <1>8 DEF Reached
  <2> QED BY <1>2, <2>1, <2>2, ReachedObjects
<1> HIDE DEF us, r, e
<1>9. /\ self \in Self /\ (self.updated => self.made)
      /\ self.user # Null => self.user \in Objects /\ user[self.user] # Null
  BY <1>2 DEF ObjectsKnown, Self
<1>10. /\ t \in Self /\ (t.updated => t.made)
       /\ t.updated => t.user = FirstSelf(objs, us)
       /\ t.user \in D \cup {Null} \/ t.user = self.user
  <2>1. FirstSelf(objs, us) \in D \cup {Null}
    BY <1>4, <1>5, FirstSelfListed
  <2>2. CASE self.made
    <3>1. t = [self EXCEPT !.user = FirstSelf(objs, us)]
      BY <2>2 DEF Found
    <3> DEFINE x == FirstSelf(objs, us)
    <3>2. x \in Objects \cup {Null} /\ t = [self EXCEPT !.user = x]
      BY <1>3, <2>1, <3>1
    <3> HIDE DEF x, t
    <3>3. t \in Self /\ t.user = x /\ t.updated = self.updated /\ t.made = self.made
      BY <1>9, <3>2 DEF Self
    <3> QED BY <1>9, <2>1, <3>3 DEF x
  <2>3. CASE ~self.made
    BY <1>9, <2>3
  <2> QED BY <2>2, <2>3
<1> HIDE DEF t
<1>11. \A o \in ToSet(objs) \cup ({t.user} \ {Null}) :
          e[o] \in SUBSET Edits /\ Unedited(us[o], r[o], e[o])
  BY <1>4, <1>7, <1>8, <1>9, <1>10
<1>12. ObjectsKnown' /\ FirstSelf(list', user') = FirstSelf(objs, us)
  BY <1>1, <1>5, <1>10, <1>11, BecomeKnown
<1>13. self' = t
  BY <1>1 DEF Become
<1>14. self'.updated => self'.user = FirstSelf(list', user')
  BY <1>10, <1>12, <1>13
<1>15. SelfCurrent'
  BY <1>14 DEF SelfCurrent
<1> QED BY <1>1, <1>2, <1>12, <1>15, InvFromParts

LEMMA UpdateSelfStep ==
    ASSUME Inv, UpdateSelf
    PROVE  Inv'
<1> DEFINE s == [self EXCEPT !.updated = TRUE]
           t == IF updated THEN Found(s, list, user) ELSE s
<1>1. /\ self.made /\ Become(list, user, t, read, edited)
      /\ UNCHANGED <<accounts, updated, get, changes, touched>>
  BY DEF UpdateSelf
<1>2. /\ ObjectsKnown /\ IsPasswd(accounts) /\ updated \in BOOLEAN /\ touched \in BOOLEAN
      /\ changes \in 0..MaxChanges /\ (get = Null \/ IsPasswd(get))
  BY InvParts
<1>3. /\ list \in Seq(Objects) /\ IsInjective(list) /\ self \in Self
      /\ \A o \in Objects : user[o] # Null <=> o \in ToSet(list) \cup ({self.user} \ {Null})
  BY <1>2 DEF ObjectsKnown
<1>4. s \in Self /\ s.made = self.made /\ s.user = self.user /\ s.updated = TRUE
  BY <1>3 DEF Self
<1>5. FirstSelf(list, user) \in ToSet(list) \cup {Null} /\ ToSet(list) \subseteq Objects
  BY <1>3, FirstSelfListed, ToSetProperties
<1> HIDE DEF s
<1>6. /\ t \in Self /\ t.made = self.made
      /\ t.user \in ToSet(list) \cup {Null, self.user}
      /\ updated => t.user = FirstSelf(list, user)
  <2>1. CASE updated
    <3> DEFINE x == FirstSelf(list, user)
    <3>1. x \in Objects \cup {Null} /\ t = [s EXCEPT !.user = x]
      BY <1>5, <2>1 DEF Found
    <3> HIDE DEF x, t
    <3>2. t \in Self /\ t.user = x /\ t.made = s.made
      BY <1>4, <3>1 DEF Self
    <3> QED BY <1>4, <1>5, <3>2 DEF x
  <2>2. CASE ~updated
    BY <1>4, <2>2
  <2> QED BY <2>1, <2>2
<1> HIDE DEF t
<1>7. ASSUME NEW o \in ToSet(list) \cup ({t.user} \ {Null})
      PROVE  edited[o] \in SUBSET Edits /\ Unedited(user[o], read[o], edited[o])
  <2>1. o \in Objects /\ user[o] # Null
    BY <1>3, <1>5, <1>6 DEF Self
  <2>2. o \in Reached
    BY <2>1 DEF Reached
  <2> QED BY <1>2, <2>2, ReachedObjects
<1>8. ObjectsKnown' /\ FirstSelf(list', user') = FirstSelf(list, user)
  BY <1>1, <1>3, <1>6, <1>7, BecomeKnown
<1>9. self' = t
  BY <1>1 DEF Become
<1>10. updated' => self'.user = FirstSelf(list', user')
  BY <1>1, <1>6, <1>8, <1>9
<1>11. SelfCurrent'
  BY <1>10 DEF SelfCurrent
<1>12. IsPasswd(accounts') /\ updated' \in BOOLEAN /\ touched' \in BOOLEAN
       /\ changes' \in 0..MaxChanges /\ (get' = Null \/ IsPasswd(get'))
  BY <1>1, <1>2
<1> QED BY <1>8, <1>11, <1>12, InvFromParts

\* An account keeps its place, its login and its type.
LEMMA AccountReplaced ==
    ASSUME IsPasswd(accounts), NEW k \in DOMAIN accounts, NEW a \in Account,
           a.login = accounts[k].login, accounts' = [accounts EXCEPT ![k] = a]
    PROVE  IsPasswd(accounts')
<1>1. accounts \in Seq(Account) /\ accounts' \in Seq(Account)
  BY DEF IsPasswd
<1>2. DOMAIN accounts' = DOMAIN accounts
      /\ \A i \in DOMAIN accounts : accounts'[i].login = accounts[i].login
  <2>1. DOMAIN accounts' = DOMAIN accounts /\ accounts'[k] = a
        /\ \A i \in DOMAIN accounts : i # k => accounts'[i] = accounts[i]
    OBVIOUS
  <2> QED BY <2>1
<1>3. \A i, j \in DOMAIN accounts : accounts[i].login = accounts[j].login => i = j
  BY DEF IsPasswd
<1> QED BY <1>1, <1>2, <1>3 DEF IsPasswd

\* A step that changes what one object holds keeps the invariant, if it minds
\* the UID.
LEMMA OneObject ==
    ASSUME Inv, NEW o \in Reached, NEW u, NEW a, NEW e \in SUBSET Edits,
           Unedited(u, a, e), UNCHANGED <<list, self, updated, get>>,
           user' = [user EXCEPT ![o] = u], read' = [read EXCEPT ![o] = a],
           edited' = [edited EXCEPT ![o] = e],
           IsPasswd(accounts'), changes' \in 0..MaxChanges,
           touched' \in BOOLEAN, touched' \/ (~touched /\ u.uid = user[o].uid)
    PROVE  Inv'
<1>1. ObjectsKnown /\ SelfCurrent /\ updated \in BOOLEAN /\ (get = Null \/ IsPasswd(get))
  BY InvParts
<1>2. ObjectsKnown' /\ (u.uid = user[o].uid => FirstSelf(list', user') = FirstSelf(list, user))
  BY <1>1, ObjectChange
<1>3. self'.updated /\ updated' /\ ~touched' => self'.user = FirstSelf(list', user')
  <2> SUFFICES ASSUME self'.updated, updated', ~touched'
               PROVE  self'.user = FirstSelf(list', user')
    OBVIOUS
  <2>1. self' = self /\ self.updated /\ updated /\ ~touched /\ u.uid = user[o].uid
    OBVIOUS
  <2>2. self.user = FirstSelf(list, user)
    BY <1>1, <2>1 DEF SelfCurrent
  <2> QED BY <1>2, <2>1, <2>2
<1>4. SelfCurrent'
  BY <1>3 DEF SelfCurrent
<1>5. updated' \in BOOLEAN /\ (get' = Null \/ IsPasswd(get'))
  <2>1. updated' = updated /\ get' = get
    OBVIOUS
  <2> QED BY <1>1, <2>1
<1> QED BY <1>2, <1>4, <1>5, InvFromParts

LEMMA ReadAgainInv ==
    ASSUME Inv, NEW o \in Reached, NEW a \in Account, NEW p \in Passwords \cup {Null},
           a.login = user[o].login, ReadAgain(o, a, p), IsPasswd(accounts'),
           UNCHANGED <<list, updated, self, get, changes>>
    PROVE  Inv'
<1> DEFINE e == IF p = Null THEN {} ELSE {"password"}
<1>1. /\ user' = [user EXCEPT ![o] = FromReply(a, p)] /\ read' = [read EXCEPT ![o] = a]
      /\ edited' = [edited EXCEPT ![o] = e]
      /\ touched' = (touched \/ a.uid # user[o].uid)
  BY DEF ReadAgain
<1>2. touched \in BOOLEAN /\ changes \in 0..MaxChanges
  BY InvParts
<1>3. e \in SUBSET Edits /\ (p = Null \/ "password" \in e)
  BY DEF Edits
<1> HIDE DEF e
<1> DEFINE u == FromReply(a, p)
<1>4. Unedited(u, a, e) /\ u.uid = a.uid
  BY <1>3, FromReplyUnedited DEF FromReply
<1> HIDE DEF u
<1>5. touched' \in BOOLEAN /\ (touched' \/ (~touched /\ u.uid = user[o].uid))
  BY <1>1, <1>2, <1>4
<1>6. user' = [user EXCEPT ![o] = u]
  BY <1>1 DEF u
<1>7. changes' \in 0..MaxChanges /\ UNCHANGED <<list, self, updated, get>>
  BY <1>2
<1> QED BY <1>1, <1>3, <1>4, <1>5, <1>6, <1>7, OneObject

LEMMA UpdateUserStep ==
    ASSUME Inv, NEW o \in Reached, UpdateUser(o)
    PROVE  Inv'
<1>1. accounts \in Seq(Account) /\ IsPasswd(accounts) /\ ObjectsKnown
  BY InvParts
<1> DEFINE k == AccountOf(o)
<1>2. k \in 1..Len(accounts) /\ accounts[k].login = user[o].login
  BY <1>1, AccountOfFinds DEF UpdateUser
<1>3. /\ ReadAgain(o, accounts[k], user[o].password)
      /\ UNCHANGED <<accounts, list, updated, self, get, changes>>
  BY DEF UpdateUser
<1> HIDE DEF k
<1>4. user[o].password \in Passwords \cup {Null} /\ accounts[k] \in Account
  BY <1>1, <1>2, ReachedObjects DEF User
<1>5. IsPasswd(accounts')
  BY <1>1, <1>3
<1> QED BY <1>2, <1>3, <1>4, <1>5, ReadAgainInv

\* What a commit makes of the account.
LEMMA StructKeeps ==
    ASSUME NEW u \in User, NEW a \in Account, NEW p \in PasswordsSaid(u, a)
    PROVE  Struct(u, a, p) \in Account /\ Struct(u, a, p).login = a.login
<1>1. p \in Passwords \cup {Null}
  BY DEF PasswordsSaid, Account
<1> QED BY <1>1 DEF Struct, User, Account

LEMMA CommitUserStep ==
    ASSUME Inv, NEW o \in Reached, CommitUser(o)
    PROVE  Inv'
<1>1. accounts \in Seq(Account) /\ IsPasswd(accounts) /\ ObjectsKnown
  BY InvParts
<1> DEFINE k == AccountOf(o)
<1>2. k \in 1..Len(accounts) /\ accounts[k].login = user[o].login
  BY <1>1, AccountOfFinds DEF CommitUser
<1>0. PICK p \in PasswordsSaid(user[o], accounts[k]) :
          accounts' = [accounts EXCEPT ![k] = Struct(user[o], @, p)]
  BY DEF CommitUser
<1> DEFINE b == Struct(user[o], accounts[k], p)
<1>3. /\ accounts' = [accounts EXCEPT ![k] = b]
      /\ ReadAgain(o, accounts'[k], Erased(user[o]).password)
      /\ UNCHANGED <<list, updated, self, get, changes>>
  BY <1>0 DEF CommitUser
<1> HIDE DEF k
<1>4. user[o] \in User /\ accounts[k] \in Account
  BY <1>1, <1>2, ReachedObjects
<1>5. b \in Account /\ b.login = accounts[k].login
  BY <1>4, StructKeeps
<1>6. Erased(user[o]).password = Null
  BY <1>4 DEF Erased, User
<1> HIDE DEF b
<1>7. k \in DOMAIN accounts /\ accounts'[k] = b
  BY <1>1, <1>2, <1>3
<1>8. IsPasswd(accounts')
  BY <1>1, <1>3, <1>5, <1>7, AccountReplaced
<1>9. ReadAgain(o, b, Null) /\ b.login = user[o].login
  BY <1>2, <1>3, <1>5, <1>6, <1>7
<1> QED BY <1>3, <1>5, <1>8, <1>9, ReadAgainInv

LEMMA CommitUserFailsStep ==
    ASSUME Inv, NEW o \in Reached, CommitUserFails(o)
    PROVE  Inv'
<1>1. /\ ObjectsKnown /\ touched \in BOOLEAN /\ changes \in 0..MaxChanges /\ IsPasswd(accounts)
  BY InvParts
<1>2. /\ user[o] \in User /\ edited[o] \in SUBSET Edits /\ o \in Objects
      /\ Unedited(user[o], read[o], edited[o])
      /\ user \in [Objects -> User \cup {Null}] /\ edited \in [Objects -> SUBSET Edits]
      /\ read \in [Objects -> Account \cup {Null}]
  BY <1>1, ReachedObjects DEF ObjectsKnown
<1> DEFINE u == Erased(user[o])
           e == (edited[o] \ {"password"}) \cup (IF "password" \in edited[o] THEN {"lost"} ELSE {})
<1>3. user' = [user EXCEPT ![o] = u] /\ edited' = [edited EXCEPT ![o] = e]
  BY DEF CommitUserFails
<1>4. read' = [read EXCEPT ![o] = read[o]]
  BY <1>2 DEF CommitUserFails
<1>5. u.uid = user[o].uid /\ Unedited(u, read[o], e) /\ e \in SUBSET Edits
  BY <1>2 DEF Erased, User, Unedited, Edits, Fields, SelfFields
<1> HIDE DEF u, e
<1>6. /\ UNCHANGED <<list, self, updated, get>> /\ touched' = touched /\ IsPasswd(accounts')
      /\ changes' \in 0..MaxChanges
  BY <1>1 DEF CommitUserFails
<1>7. touched' \in BOOLEAN /\ (touched' \/ (~touched /\ u.uid = user[o].uid))
  BY <1>1, <1>5, <1>6
<1> DEFINE a == read[o]
<1> HIDE DEF a
<1> QED BY <1>3, <1>4, <1>5, <1>6, <1>7, OneObject DEF a

LEMMA ChangeCounts ==
    ASSUME Change, changes \in 0..MaxChanges
    PROVE  changes' \in 0..MaxChanges
  BY BoundAssumption DEF Change

LEMMA SetFieldStep ==
    ASSUME Inv, NEW o \in Reached, NEW f \in Fields, NEW v \in Values, SetField(o, f, v)
    PROVE  Inv'
<1>1. /\ ObjectsKnown /\ touched \in BOOLEAN /\ changes \in 0..MaxChanges /\ IsPasswd(accounts)
  BY InvParts
<1>2. /\ user[o] \in User /\ edited[o] \in SUBSET Edits /\ o \in Objects
      /\ Unedited(user[o], read[o], edited[o])
      /\ user \in [Objects -> User \cup {Null}] /\ edited \in [Objects -> SUBSET Edits]
      /\ read \in [Objects -> Account \cup {Null}]
  BY <1>1, ReachedObjects DEF ObjectsKnown
<1> DEFINE u == [user[o] EXCEPT !.data[f] = v]
           e == edited[o] \cup {f}
<1>3. user' = [user EXCEPT ![o] = u] /\ edited' = [edited EXCEPT ![o] = e]
  BY DEF SetField
<1>4. read' = [read EXCEPT ![o] = read[o]]
  BY <1>2 DEF SetField
<1>5. /\ u \in User /\ u.login = user[o].login /\ u.uid = user[o].uid
      /\ u.password = user[o].password
      /\ \A g \in Fields : g # f => u.data[g] = user[o].data[g]
  BY <1>2 DEF User, Data
<1>6. e \in SUBSET Edits
  BY <1>2 DEF Edits
<1>7. Unedited(u, read[o], e)
  BY <1>2, <1>5 DEF Unedited
<1> HIDE DEF u, e
<1>8. changes' \in 0..MaxChanges
  BY <1>1, ChangeCounts DEF SetField
<1>9. /\ UNCHANGED <<list, self, updated, get>> /\ touched' = touched /\ IsPasswd(accounts')
  BY <1>1 DEF SetField
<1>10. touched' \in BOOLEAN /\ (touched' \/ (~touched /\ u.uid = user[o].uid))
  BY <1>1, <1>5, <1>9
<1> DEFINE a == read[o]
<1> HIDE DEF a
<1> QED BY <1>3, <1>4, <1>6, <1>7, <1>8, <1>9, <1>10, OneObject DEF a

LEMMA SetUidStep ==
    ASSUME Inv, NEW o \in Reached, NEW v \in Uids, SetUid(o, v)
    PROVE  Inv'
<1>1. /\ ObjectsKnown /\ changes \in 0..MaxChanges /\ IsPasswd(accounts)
  BY InvParts
<1>2. /\ user[o] \in User /\ edited[o] \in SUBSET Edits /\ o \in Objects
      /\ Unedited(user[o], read[o], edited[o])
      /\ user \in [Objects -> User \cup {Null}] /\ edited \in [Objects -> SUBSET Edits]
      /\ read \in [Objects -> Account \cup {Null}]
  BY <1>1, ReachedObjects DEF ObjectsKnown
<1> DEFINE u == [user[o] EXCEPT !.uid = v]
           e == edited[o] \cup {"uid"}
<1>3. user' = [user EXCEPT ![o] = u] /\ edited' = [edited EXCEPT ![o] = e]
  BY DEF SetUid
<1>4. read' = [read EXCEPT ![o] = read[o]]
  BY <1>2 DEF SetUid
<1>5. /\ u \in User /\ u.login = user[o].login /\ u.data = user[o].data
      /\ u.password = user[o].password
  BY <1>2 DEF User
<1>6. e \in SUBSET Edits
  BY <1>2 DEF Edits
<1>7. Unedited(u, read[o], e)
  BY <1>2, <1>5 DEF Unedited
<1> HIDE DEF u, e
<1>8. changes' \in 0..MaxChanges
  BY <1>1, ChangeCounts DEF SetUid
<1>9. /\ UNCHANGED <<list, self, updated, get>> /\ touched' = TRUE /\ IsPasswd(accounts')
  BY <1>1 DEF SetUid
<1>10. touched' \in BOOLEAN /\ (touched' \/ (~touched /\ u.uid = user[o].uid))
  BY <1>9
<1> DEFINE a == read[o]
<1> HIDE DEF a
<1> QED BY <1>3, <1>4, <1>6, <1>7, <1>8, <1>9, <1>10, OneObject DEF a

LEMMA SetPasswordStep ==
    ASSUME Inv, NEW o \in Reached, NEW p \in Passwords, SetPassword(o, p)
    PROVE  Inv'
<1>1. /\ ObjectsKnown /\ touched \in BOOLEAN /\ changes \in 0..MaxChanges /\ IsPasswd(accounts)
  BY InvParts
<1>2. /\ user[o] \in User /\ edited[o] \in SUBSET Edits /\ o \in Objects
      /\ Unedited(user[o], read[o], edited[o])
      /\ user \in [Objects -> User \cup {Null}] /\ edited \in [Objects -> SUBSET Edits]
      /\ read \in [Objects -> Account \cup {Null}]
  BY <1>1, ReachedObjects DEF ObjectsKnown
<1> DEFINE u == [user[o] EXCEPT !.password = p]
           e == (edited[o] \cup {"password"}) \ {"lost"}
<1>3. user' = [user EXCEPT ![o] = u] /\ edited' = [edited EXCEPT ![o] = e]
  BY DEF SetPassword
<1>4. read' = [read EXCEPT ![o] = read[o]]
  BY <1>2 DEF SetPassword
<1>5. u \in User /\ u.login = user[o].login /\ u.data = user[o].data /\ u.uid = user[o].uid
  BY <1>2 DEF User
<1>6. e \in SUBSET Edits
  BY <1>2 DEF Edits
<1>7. Unedited(u, read[o], e)
  BY <1>2, <1>5 DEF Unedited, Fields, SelfFields
<1> HIDE DEF u, e
<1>8. changes' \in 0..MaxChanges
  BY <1>1, ChangeCounts DEF SetPassword
<1>9. /\ UNCHANGED <<list, self, updated, get>> /\ touched' = touched /\ IsPasswd(accounts')
  BY <1>1 DEF SetPassword
<1>10. touched' \in BOOLEAN /\ (touched' \/ (~touched /\ u.uid = user[o].uid))
  BY <1>1, <1>5, <1>9
<1> DEFINE a == read[o]
<1> HIDE DEF a
<1> QED BY <1>3, <1>4, <1>6, <1>7, <1>8, <1>9, <1>10, OneObject DEF a

LEMMA SetEmptyStep ==
    ASSUME Inv, NEW o \in Reached, NEW b \in BOOLEAN, SetEmpty(o, b)
    PROVE  Inv'
<1>1. /\ ObjectsKnown /\ touched \in BOOLEAN /\ changes \in 0..MaxChanges /\ IsPasswd(accounts)
  BY InvParts
<1>2. /\ user[o] \in User /\ edited[o] \in SUBSET Edits /\ o \in Objects
      /\ Unedited(user[o], read[o], edited[o])
      /\ user \in [Objects -> User \cup {Null}] /\ edited \in [Objects -> SUBSET Edits]
      /\ read \in [Objects -> Account \cup {Null}]
  BY <1>1, ReachedObjects DEF ObjectsKnown
<1> DEFINE u == [user[o] EXCEPT !.empty = b]
           e == edited[o] \cup {"empty"}
<1>3. user' = [user EXCEPT ![o] = u] /\ edited' = [edited EXCEPT ![o] = e]
  BY DEF SetEmpty
<1>4. read' = [read EXCEPT ![o] = read[o]]
  BY <1>2 DEF SetEmpty
<1>5. /\ u \in User /\ u.login = user[o].login /\ u.data = user[o].data /\ u.uid = user[o].uid
      /\ u.password = user[o].password
  BY <1>2 DEF User
<1>6. e \in SUBSET Edits
  BY <1>2 DEF Edits
<1>7. Unedited(u, read[o], e)
  BY <1>2, <1>5 DEF Unedited
<1> HIDE DEF u, e
<1>8. changes' \in 0..MaxChanges
  BY <1>1, ChangeCounts DEF SetEmpty
<1>9. /\ UNCHANGED <<list, self, updated, get>> /\ touched' = touched /\ IsPasswd(accounts')
  BY <1>1 DEF SetEmpty
<1>10. touched' \in BOOLEAN /\ (touched' \/ (~touched /\ u.uid = user[o].uid))
  BY <1>1, <1>5, <1>9
<1> DEFINE a == read[o]
<1> HIDE DEF a
<1> QED BY <1>3, <1>4, <1>6, <1>7, <1>8, <1>9, <1>10, OneObject DEF a

LEMMA SecondPart ==
    ASSUME NEW S, NEW p \in Seq(S), NEW q \in Seq(S),
           NEW i \in 1..(Len(p) + Len(q)), i > Len(p)
    PROVE  (p \o q)[i] = q[i - Len(p)]
  OBVIOUS

\* The other accounts stay as they are, each once.
LEMMA AccountDeleted ==
    ASSUME NEW s, IsPasswd(s), NEW k \in DOMAIN s
    PROVE  IsPasswd(RemoveAt(s, k))
<1>1. s \in Seq(Account) /\ k \in 1..Len(s)
      /\ \A i, j \in 1..Len(s) : s[i].login = s[j].login => i = j
  BY DEF IsPasswd
<1> DEFINE a == SubSeq(s, 1, k - 1)
           b == SubSeq(s, k + 1, Len(s))
           r == RemoveAt(s, k)
<1>2. /\ a \in Seq(Account) /\ Len(a) = k - 1
      /\ \A i \in 1..(k - 1) : a[i] = s[i]
  BY <1>1
<1>3. /\ b \in Seq(Account) /\ Len(b) = Len(s) - k
      /\ \A i \in 1..(Len(s) - k) : b[i] = s[k + i]
  BY <1>1
<1>4. r = a \o b
  BY DEF RemoveAt
<1> HIDE DEF a, b, r
<1>5. r \in Seq(Account) /\ Len(r) = Len(s) - 1
  BY <1>1, <1>2, <1>3, <1>4
<1>6. \A i \in 1..(k - 1) : r[i] = s[i]
  BY <1>1, <1>2, <1>3, <1>4
<1>7. ASSUME NEW i \in k..(Len(s) - 1)
      PROVE  r[i] = s[i + 1]
  <2>1. i - (k - 1) \in 1..(Len(s) - k) /\ k + (i - (k - 1)) = i + 1
        /\ i \in 1..(Len(a) + Len(b)) /\ i > Len(a)
    BY <1>1, <1>2, <1>3
  <2>2. r[i] = b[i - Len(a)]
    <3>1. a \in Seq(Account) /\ b \in Seq(Account)
      BY <1>2, <1>3
    <3>2. (a \o b)[i] = b[i - Len(a)]
      BY <2>1, <3>1, SecondPart
    <3> QED BY <1>4, <3>2
  <2> QED BY <1>2, <1>3, <2>1, <2>2
<1> DEFINE old(i) == IF i < k THEN i ELSE i + 1
<1>8. \A i \in 1..Len(r) : old(i) \in 1..Len(s) /\ r[i] = s[old(i)]
  BY <1>1, <1>5, <1>6, <1>7
<1>9. \A i, j \in 1..Len(r) : old(i) = old(j) => i = j
  BY <1>1, <1>5
<1> HIDE DEF old
<1>10. \A i, j \in 1..Len(r) : r[i].login = r[j].login => i = j
  BY <1>1, <1>8, <1>9
<1>11. DOMAIN r = 1..Len(r)
  BY <1>5
<1> QED BY <1>5, <1>10, <1>11 DEF IsPasswd, r

LEMMA AccountAdded ==
    ASSUME NEW s, IsPasswd(s), NEW a \in Account, \A k \in DOMAIN s : s[k].login # a.login
    PROVE  IsPasswd(Append(s, a))
<1>1. s \in Seq(Account) /\ DOMAIN s = 1..Len(s) /\ Len(s) \in Nat
      /\ \A i, j \in 1..Len(s) : s[i].login = s[j].login => i = j
  BY DEF IsPasswd
<1> DEFINE r == Append(s, a)
<1>2. /\ r \in Seq(Account) /\ Len(r) = Len(s) + 1 /\ DOMAIN r = 1..Len(r)
      /\ r[Len(s) + 1] = a
      /\ \A i \in 1..Len(s) : r[i] = s[i]
  BY <1>1
<1> HIDE DEF r
<1>3. \A i \in 1..Len(r) : i \in 1..Len(s) \/ i = Len(s) + 1
  BY <1>1, <1>2
<1>4. \A i, j \in 1..Len(r) : r[i].login = r[j].login => i = j
  BY <1>1, <1>2, <1>3
<1> QED BY <1>2, <1>4 DEF IsPasswd, r

\* Users come and go: the list and the objects change, and OobsSelfConfig does not.
LEMMA ListEdited ==
    ASSUME Inv, NEW objs \in Seq(Objects), IsInjective(objs), NEW us, NEW r, NEW e,
           Become(objs, us, self, r, e), IsPasswd(accounts'), touched' = TRUE,
           changes' \in 0..MaxChanges, UNCHANGED <<updated, get>>,
           \A o \in ToSet(objs) \cup ({self.user} \ {Null}) :
               e[o] \in SUBSET Edits /\ Unedited(us[o], r[o], e[o])
    PROVE  Inv'
<1>1. ObjectsKnown /\ updated \in BOOLEAN /\ (get = Null \/ IsPasswd(get))
  BY InvParts
<1>2. self \in Self /\ (self.updated => self.made)
  BY <1>1 DEF ObjectsKnown
<1>3. ObjectsKnown'
  BY <1>2, BecomeKnown
<1>4. SelfCurrent' /\ touched' \in BOOLEAN
  BY DEF SelfCurrent
<1>5. updated' \in BOOLEAN /\ (get' = Null \/ IsPasswd(get'))
  <2>1. updated' = updated /\ get' = get
    OBVIOUS
  <2> QED BY <1>1, <2>1
<1> QED BY <1>3, <1>4, <1>5, InvFromParts

LEMMA DeleteUserStep ==
    ASSUME Inv, NEW o \in Reached, DeleteUser(o)
    PROVE  Inv'
<1>1. /\ ObjectsKnown /\ changes \in 0..MaxChanges /\ IsPasswd(accounts)
      /\ accounts \in Seq(Account)
  BY InvParts
<1> DEFINE k == AccountOf(o)
           objs == RemoveFirst(list, o)
           us == [user EXCEPT ![o] = Erased(@)]
           e == [edited EXCEPT ![o] = @ \ {"password"}]
<1>2. /\ o \in ToSet(list) /\ k # 0 /\ accounts' = RemoveAt(accounts, k)
      /\ Become(objs, us, self, read, e) /\ touched' = TRUE
      /\ UNCHANGED <<updated, get>> /\ Change
  BY DEF DeleteUser
<1>3. k \in DOMAIN accounts
  BY <1>1, <1>2, AccountOfFinds
<1> HIDE DEF k
<1>4. IsPasswd(accounts')
  BY <1>1, <1>2, <1>3, AccountDeleted
<1>5. changes' \in 0..MaxChanges
  BY <1>1, <1>2, ChangeCounts
<1>6. /\ list \in Seq(Objects) /\ IsInjective(list) /\ self \in Self
      /\ user \in [Objects -> User \cup {Null}] /\ edited \in [Objects -> SUBSET Edits]
      /\ \A p \in Objects : user[p] # Null <=> p \in ToSet(list) \cup ({self.user} \ {Null})
  BY <1>1 DEF ObjectsKnown
<1>7. objs \in Seq(Objects) /\ ToSet(objs) \subseteq ToSet(list) /\ IsInjective(objs)
  <2>1. objs \in Seq(Objects) /\ ToSet(objs) \subseteq ToSet(list)
    BY <1>6, RemoveFirstElements
  <2>2. \A i, j \in 1..Len(objs) : i # j =>
          \E m, n \in 1..Len(list) : m # n /\ list[m] = objs[i] /\ list[n] = objs[j]
    BY <1>6, RemoveFirstElements
  <2>3. \A m, n \in 1..Len(list) : list[m] = list[n] => m = n
    BY <1>6 DEF IsInjective
  <2> HIDE DEF objs
  <2>4. \A i, j \in 1..Len(objs) : objs[i] = objs[j] => i = j
    BY <2>2, <2>3
  <2> QED BY <2>1, <2>4 DEF IsInjective
<1> HIDE DEF objs
<1>8. ASSUME NEW p \in ToSet(objs) \cup ({self.user} \ {Null})
      PROVE  e[p] \in SUBSET Edits /\ Unedited(us[p], read[p], e[p])
  <2>1. p \in Objects /\ user[p] # Null
    BY <1>6, <1>7, ToSetProperties DEF Self
  <2>2. p \in Reached
    BY <2>1 DEF Reached
  <2>3. user[p] \in User /\ edited[p] \in SUBSET Edits /\ Unedited(user[p], read[p], edited[p])
    BY <1>1, <2>2, ReachedObjects
  <2>4. CASE p = o
    <3>1. us[p] = Erased(user[p]) /\ e[p] = edited[p] \ {"password"}
      BY <1>6, <2>1, <2>4
    <3>2. Unedited(Erased(user[p]), read[p], edited[p] \ {"password"})
      BY <2>3 DEF Erased, User, Unedited, Fields, SelfFields
    <3> QED BY <2>3, <3>1, <3>2
  <2>5. CASE p # o
    <3>1. us[p] = user[p] /\ e[p] = edited[p]
      BY <1>6, <2>1, <2>5
    <3> QED BY <2>3, <3>1
  <2> QED BY <2>4, <2>5
<1> HIDE DEF us, e
<1> QED BY <1>2, <1>4, <1>5, <1>7, <1>8, ListEdited

LEMMA AddUserStep ==
    ASSUME Inv, NEW l \in Logins, NEW v \in Uids, NEW d \in Data,
           NEW w \in Passwords \cup {Null}, AddUser(l, v, d, w)
    PROVE  Inv'
<1>1. /\ ObjectsKnown /\ changes \in 0..MaxChanges /\ IsPasswd(accounts)
  BY InvParts
<1> DEFINE a == [login |-> l, uid |-> v, data |-> d, password |-> w]
<1>2. a \in Account /\ a.login = l
  BY DEF Account
<1> HIDE DEF a
<1>3. PICK o \in Objects \ Reached :
        Become(Append(list, o), [user EXCEPT ![o] = FromReply(a, Null)], self,
               [read EXCEPT ![o] = a], edited)
  BY DEF AddUser, a
<1>4. /\ \A k \in DOMAIN accounts : accounts[k].login # l
      /\ accounts' = Append(accounts, a)
      /\ touched' = TRUE /\ UNCHANGED <<updated, get>> /\ Change
  BY DEF AddUser, a
<1>5. IsPasswd(accounts')
  BY <1>1, <1>2, <1>4, AccountAdded
<1>6. changes' \in 0..MaxChanges
  BY <1>1, <1>4, ChangeCounts
<1>7. /\ list \in Seq(Objects) /\ IsInjective(list) /\ self \in Self
      /\ user \in [Objects -> User \cup {Null}] /\ read \in [Objects -> Account \cup {Null}]
      /\ edited \in [Objects -> SUBSET Edits]
      /\ \A p \in Objects : user[p] # Null <=> p \in ToSet(list) \cup ({self.user} \ {Null})
  BY <1>1 DEF ObjectsKnown
<1>8. o \notin ToSet(list) /\ o # self.user
  <2>1. user[o] = Null /\ Null \notin Objects
    BY <1>3, SetsAssumption DEF Reached
  <2> QED BY <1>3, <1>7, <2>1
<1> DEFINE objs == Append(list, o)
           us == [user EXCEPT ![o] = FromReply(a, Null)]
           r == [read EXCEPT ![o] = a]
<1>9. objs \in Seq(Objects) /\ ToSet(objs) = ToSet(list) \cup {o}
  BY <1>3, <1>7, AppendElements
<1>10. IsInjective(objs)
  <2>1. /\ Len(objs) = Len(list) + 1 /\ objs[Len(list) + 1] = o /\ Len(list) \in Nat
        /\ \A i \in 1..Len(list) : objs[i] = list[i]
    BY <1>3, <1>7
  <2> HIDE DEF objs
  <2>2. \A i \in 1..Len(list) : list[i] \in ToSet(list)
    BY <1>7, ToSetProperties
  <2>3. \A m, n \in 1..Len(list) : list[m] = list[n] => m = n
    BY <1>7 DEF IsInjective
  <2>4. \A i \in 1..Len(objs) : i \in 1..Len(list) \/ i = Len(list) + 1
    BY <2>1
  <2>5. \A i, j \in 1..Len(objs) : objs[i] = objs[j] => i = j
    BY <1>8, <2>1, <2>2, <2>3, <2>4
  <2> QED BY <1>9, <2>5 DEF IsInjective
<1> HIDE DEF objs
<1>11. ASSUME NEW p \in ToSet(objs) \cup ({self.user} \ {Null})
       PROVE  edited[p] \in SUBSET Edits /\ Unedited(us[p], r[p], edited[p])
  <2>1. CASE p = o
    <3>1. us[p] = FromReply(a, Null) /\ r[p] = a /\ edited[p] \in SUBSET Edits
      BY <1>3, <1>7, <2>1
    <3>2. Unedited(FromReply(a, Null), a, edited[p])
      BY <1>2, FromReplyUnedited
    <3> QED BY <3>1, <3>2
  <2>2. CASE p # o
    <3>1. p \in Objects /\ user[p] # Null
      BY <1>7, <1>9, <2>2, ToSetProperties DEF Self
    <3>2. p \in Reached
      BY <3>1 DEF Reached
    <3>3. us[p] = user[p] /\ r[p] = read[p]
      BY <1>7, <2>2, <3>1
    <3> QED BY <1>1, <3>2, <3>3, ReachedObjects
  <2> QED BY <2>1, <2>2
<1>12. Become(objs, us, self, r, edited)
  BY <1>3 DEF objs
<1> HIDE DEF us, r
<1> QED BY <1>4, <1>5, <1>6, <1>9, <1>10, <1>11, <1>12, ListEdited

\* A step of OobsSelfConfig's commit, or of another program, changes an account only.
LEMMA OnlyAccounts ==
    ASSUME Inv, UNCHANGED <<lib_vars, history>>, IsPasswd(accounts'),
           get' = Null \/ IsPasswd(get'), changes' \in 0..MaxChanges
    PROVE  Inv'
<1>1. ObjectsKnown /\ SelfCurrent /\ updated \in BOOLEAN /\ touched \in BOOLEAN
  BY InvParts
<1>2. /\ list' = list /\ user' = user /\ updated' = updated /\ self' = self
      /\ read' = read /\ edited' = edited /\ touched' = touched
  BY DEF lib_vars, history
<1>3. EditsKnown'
  BY <1>1, <1>2 DEF ObjectsKnown, EditsKnown, Reached, Unedited
<1>4. ObjectsKnown'
  BY <1>1, <1>2, <1>3 DEF ObjectsKnown
<1>5. self'.updated /\ updated' /\ ~touched' => self'.user = FirstSelf(list', user')
  BY <1>1, <1>2 DEF SelfCurrent
<1>6. SelfCurrent'
  BY <1>5 DEF SelfCurrent
<1>7. updated' \in BOOLEAN /\ touched' \in BOOLEAN
  BY <1>1, <1>2
<1> QED BY <1>4, <1>6, <1>7, InvFromParts

LEMMA CommitSelfStep ==
    ASSUME Inv, CommitSelf
    PROVE  Inv'
<1>1. /\ ObjectsKnown /\ changes \in 0..MaxChanges /\ IsPasswd(accounts)
      /\ accounts \in Seq(Account) /\ (get = Null \/ IsPasswd(get))
  BY InvParts
<1> DEFINE k == SelfIndex(accounts)
           a == SelfStruct(user[self.user], accounts[k])
<1>2. /\ self.user # Null /\ k # 0 /\ accounts' = [accounts EXCEPT ![k] = a]
      /\ UNCHANGED <<lib_vars, get, changes, history>>
  BY DEF CommitSelf
<1>3. k \in DOMAIN accounts /\ accounts[k] \in Account
  BY <1>1, <1>2, SelfIndexFinds
<1>4. user[self.user] \in User
  <2>1. self.user \in Objects /\ user[self.user] # Null
    BY <1>1, <1>2 DEF ObjectsKnown, Self
  <2> QED BY <1>1, <2>1 DEF ObjectsKnown
<1> HIDE DEF k
<1>5. a \in Account /\ a.login = accounts[k].login
  BY <1>3, <1>4 DEF SelfStruct, Account, User, Data
<1> HIDE DEF a
<1>6. IsPasswd(accounts')
  BY <1>1, <1>2, <1>3, <1>5, AccountReplaced
<1>7. /\ changes' \in 0..MaxChanges /\ (get' = Null \/ IsPasswd(get'))
      /\ UNCHANGED <<lib_vars, history>>
  <2>1. changes' = changes /\ get' = get
    BY <1>2
  <2> QED BY <1>1, <1>2, <2>1
<1> QED BY <1>6, <1>7, OnlyAccounts

LEMMA OtherChangesStep ==
    ASSUME Inv, NEW k \in DOMAIN accounts, NEW a \in Account, a.login = accounts[k].login,
           OtherChanges(k, a)
    PROVE  Inv'
<1>1. changes \in 0..MaxChanges /\ IsPasswd(accounts) /\ (get = Null \/ IsPasswd(get))
  BY InvParts
<1>2. /\ accounts' = [accounts EXCEPT ![k] = a] /\ Change
      /\ get' = get /\ UNCHANGED <<lib_vars, history>>
  BY DEF OtherChanges
<1>3. IsPasswd(accounts')
  BY <1>1, <1>2, AccountReplaced
<1>4. changes' \in 0..MaxChanges
  BY <1>1, <1>2, ChangeCounts
<1>5. get' = Null \/ IsPasswd(get')
  BY <1>1, <1>2
<1> QED BY <1>2, <1>3, <1>4, <1>5, OnlyAccounts

LEMMA NextInv == Inv /\ [Next]_vars => Inv'
<1> SUFFICES ASSUME Inv, [Next]_vars PROVE Inv'
  OBVIOUS
<1>1. /\ ObjectsKnown /\ SelfCurrent /\ changes \in 0..MaxChanges /\ IsPasswd(accounts)
      /\ accounts \in Seq(Account)
      /\ (get = Null \/ IsPasswd(get)) /\ updated \in BOOLEAN /\ touched \in BOOLEAN
  BY InvParts
<1>2. CASE UpdateUsers
  <2>1. /\ IsPasswd(accounts') /\ (get' = Null \/ IsPasswd(get'))
        /\ changes' = changes /\ Load(accounts)
    BY <1>1, <1>2 DEF UpdateUsers
  <2> QED BY <1>1, <2>1, LoadStep
<1>3. CASE UpdateUsersAsync
  <2>1. /\ get' = accounts /\ accounts' = accounts /\ changes' = changes
        /\ UNCHANGED <<lib_vars, history>>
    BY <1>3 DEF UpdateUsersAsync
  <2>2. IsPasswd(accounts') /\ (get' = Null \/ IsPasswd(get')) /\ changes' \in 0..MaxChanges
    BY <1>1, <2>1
  <2> QED BY <2>1, <2>2, OnlyAccounts
<1>4. CASE DispatchUsers
  <2>1. IsPasswd(accounts') /\ get' = Null /\ changes' = changes /\ Load(get) /\ get # Null
    BY <1>1, <1>4 DEF DispatchUsers
  <2>2. get \in Seq(Account)
    BY <1>1, <2>1 DEF IsPasswd
  <2> QED BY <2>1, <2>2, LoadStep
<1>5. CASE MakeSelf
  <2>1. /\ ~self.made /\ self' = [self EXCEPT !.made = TRUE]
        /\ UNCHANGED <<accounts, list, user, updated, get, changes, history>>
    BY <1>5 DEF MakeSelf
  <2>2. self \in Self /\ ~self.updated
    BY <1>1, <2>1 DEF ObjectsKnown
  <2>3. self' \in Self /\ ~self'.updated /\ self'.user = self.user
    BY <2>1, <2>2 DEF Self
  <2>4. /\ list' = list /\ user' = user /\ read' = read /\ edited' = edited /\ accounts' = accounts
        /\ updated' = updated /\ get' = get /\ changes' = changes /\ touched' = touched
    BY <2>1 DEF history
  <2>5. EditsKnown'
    BY <1>1, <2>4 DEF ObjectsKnown, EditsKnown, Reached, Unedited
  <2>6. ObjectsKnown'
    BY <1>1, <2>3, <2>4, <2>5 DEF ObjectsKnown
  <2>7. SelfCurrent'
    BY <2>3 DEF SelfCurrent
  <2>8. /\ IsPasswd(accounts') /\ (get' = Null \/ IsPasswd(get')) /\ changes' \in 0..MaxChanges
        /\ updated' \in BOOLEAN /\ touched' \in BOOLEAN
    BY <1>1, <2>4
  <2> QED BY <2>6, <2>7, <2>8, InvFromParts
<1>6. CASE UpdateSelf
  BY <1>6, UpdateSelfStep
<1>7. CASE CommitSelf
  BY <1>7, CommitSelfStep
<1>8. ASSUME NEW o \in Reached, UpdateUser(o) PROVE Inv'
  BY <1>8, UpdateUserStep
<1>9. ASSUME NEW o \in Reached, CommitUser(o) PROVE Inv'
  BY <1>9, CommitUserStep
<1>10. ASSUME NEW o \in Reached, CommitUserFails(o) PROVE Inv'
  BY <1>10, CommitUserFailsStep
<1>11. ASSUME NEW o \in Reached, DeleteUser(o) PROVE Inv'
  BY <1>11, DeleteUserStep
<1>12. ASSUME NEW o \in Reached, NEW f \in Fields, NEW v \in Values, SetField(o, f, v) PROVE Inv'
  BY <1>12, SetFieldStep
<1>13. ASSUME NEW o \in Reached, NEW u \in Uids, SetUid(o, u) PROVE Inv'
  BY <1>13, SetUidStep
<1>14. ASSUME NEW o \in Reached, NEW p \in Passwords, SetPassword(o, p) PROVE Inv'
  BY <1>14, SetPasswordStep
<1>15. ASSUME NEW l \in Logins, NEW u \in Uids, NEW d \in Data,
              NEW p \in Passwords \cup {Null}, AddUser(l, u, d, p)
       PROVE  Inv'
  BY <1>15, AddUserStep
<1>16. ASSUME NEW k \in DOMAIN accounts, NEW f \in Fields, NEW v \in Values,
              OtherChanges(k, [accounts[k] EXCEPT !.data[f] = v])
       PROVE  Inv'
  <2> DEFINE a == [accounts[k] EXCEPT !.data[f] = v]
  <2>1. accounts[k] \in Account
    BY <1>1
  <2>2. a \in Account /\ a.login = accounts[k].login
    BY <2>1 DEF Account, Data
  <2>3. OtherChanges(k, a)
    BY <1>16
  <2> HIDE DEF a
  <2> QED BY <2>2, <2>3, OtherChangesStep
<1>17. ASSUME NEW k \in DOMAIN accounts, NEW p \in Passwords \cup {Null},
              OtherChanges(k, [accounts[k] EXCEPT !.password = p])
       PROVE  Inv'
  <2> DEFINE a == [accounts[k] EXCEPT !.password = p]
  <2>1. accounts[k] \in Account
    BY <1>1
  <2>2. a \in Account /\ a.login = accounts[k].login
    BY <2>1 DEF Account
  <2>3. OtherChanges(k, a)
    BY <1>17
  <2> HIDE DEF a
  <2> QED BY <2>2, <2>3, OtherChangesStep
<1>18. ASSUME NEW o \in Reached, NEW b \in BOOLEAN, SetEmpty(o, b) PROVE Inv'
  BY <1>18, SetEmptyStep
<1>19. CASE UNCHANGED vars
  <2>1. /\ accounts' = accounts /\ get' = get /\ changes' = changes
        /\ UNCHANGED <<lib_vars, history>>
    BY <1>19 DEF vars
  <2>2. IsPasswd(accounts') /\ (get' = Null \/ IsPasswd(get')) /\ changes' \in 0..MaxChanges
    BY <1>1, <2>1
  <2> QED BY <2>1, <2>2, OnlyAccounts
<1> QED BY <1>2, <1>3, <1>4, <1>5, <1>6, <1>7, <1>8, <1>9, <1>10, <1>11, <1>12, <1>13, <1>14,
           <1>15, <1>16, <1>17, <1>18, <1>19 DEF Next

-----------------------------------------------------------------------------
(* The theorems *)

\* The invariant above is one of the specification.
THEOREM Invariance == Spec => []Inv
<1>1. Init => Inv
  BY InitInv
<1>2. Inv /\ [Next]_vars => Inv'
  BY NextInv
<1> QED BY <1>1, <1>2, PTL DEF Spec

\* Types; two accounts never share a login, and an object exists exactly as long
\* as the users list or OobsSelfConfig refers to it (GObject references, taken in
\* oobs_self_config_users_updated and by the list).
THEOREM TypeCorrect == Spec => []TypeOK
<1>1. Inv => TypeOK
  BY DEF Inv
<1> QED BY <1>1, Invariance, PTL

\* OobsSelfConfig's user is the one of the current list with the UID of the
\* program, or none, for any number of users and however the updates of the two,
\* synchronous or not, follow one another (oobs_self_config_users_updated and
\* oobs_self_config_update).
THEOREM SelfFollowed == Spec => []SelfCurrent
<1>1. Inv => SelfCurrent
  BY DEF Inv
<1> QED BY <1>1, Invariance, PTL

\* What a commit makes of an account, given what is known of the object.
LEMMA StructFaithful ==
    ASSUME NEW o, NEW a \in Account, Unedited(user[o], read[o], edited[o]),
           a.login = user[o].login, NEW p \in PasswordsSaid(user[o], a)
    PROVE  Faithful(o, a, Struct(user[o], a, p))
<1> DEFINE b == Struct(user[o], a, p)
<1>1. /\ b.login = a.login /\ b.data = user[o].data /\ b.uid = user[o].uid
      /\ b.password = p
  BY DEF Struct, Account
<1>2. ASSUME edited[o] \cap {"password", "empty"} = {}
      PROVE  p = IF read[o].password = Null THEN Null ELSE a.password
  <2>1. /\ "password" \notin edited[o] /\ "empty" \notin edited[o]
    BY <1>2
  <2>2. user[o].password = Null /\ (user[o].empty <=> read[o].password = Null)
    BY <2>1 DEF Unedited
  <2> QED BY <2>2 DEF PasswordsSaid
<1> HIDE DEF b
<1> QED BY <1>1, <1>2 DEF Faithful, Unedited, b

\* What a commit of OobsSelfConfig leaves alone.
LEMMA SelfStructKeeps ==
    ASSUME NEW a \in Account, NEW u
    PROVE  SelfStruct(u, a).password = a.password
  BY DEF SelfStruct, Account

\* A commit of a user tells the backend what was read of the account and what has
\* been set since, a password only if one is still to be sent, and that the
\* password is empty if it was when the account was read
\* (create_dbus_struct_from_user, oobs_user_commit); a commit of OobsSelfConfig
\* changes no other account (oobs_self_config_commit).
THEOREM CommitsFaithful == Spec => AccountKept
<1> DEFINE
      Users == \A o \in Reached :
                  CommitUser(o) => Faithful(o, accounts[AccountOf(o)], accounts'[AccountOf(o)])
      Own == CommitSelf => \A k \in DOMAIN accounts :
                accounts'[k] # accounts[k] =>
                    /\ accounts[k].uid = SelfUid
                    /\ accounts'[k].password = accounts[k].password
<1>1. ASSUME Inv PROVE Users
  <2> SUFFICES ASSUME NEW o \in Reached, CommitUser(o)
               PROVE  Faithful(o, accounts[AccountOf(o)], accounts'[AccountOf(o)])
    OBVIOUS
  <2> DEFINE k == AccountOf(o)
  <2>1. accounts \in Seq(Account) /\ ObjectsKnown
    BY <1>1, InvParts
  <2>2. k \in DOMAIN accounts /\ accounts[k].login = user[o].login
    BY <2>1, AccountOfFinds DEF CommitUser
  <2>3. PICK p \in PasswordsSaid(user[o], accounts[k]) :
            accounts' = [accounts EXCEPT ![k] = Struct(user[o], accounts[k], p)]
    BY DEF CommitUser
  <2> HIDE DEF k
  <2>4. accounts'[k] = Struct(user[o], accounts[k], p) /\ accounts[k] \in Account
    BY <2>1, <2>2, <2>3
  <2>5. Unedited(user[o], read[o], edited[o])
    BY <2>1, ReachedObjects
  <2>6. Faithful(o, accounts[k], accounts'[k])
    BY <2>2, <2>4, <2>5, StructFaithful
  <2> QED BY <2>6 DEF k
<1>2. ASSUME Inv PROVE Own
  <2> SUFFICES ASSUME CommitSelf, NEW j \in DOMAIN accounts, accounts'[j] # accounts[j]
               PROVE  /\ accounts[j].uid = SelfUid
                      /\ accounts'[j].password = accounts[j].password
    OBVIOUS
  <2> DEFINE k == SelfIndex(accounts)
             a == SelfStruct(user[self.user], accounts[k])
  <2>1. accounts \in Seq(Account)
    BY <1>2, InvParts
  <2>2. k # 0 /\ accounts' = [accounts EXCEPT ![k] = a]
    BY DEF CommitSelf
  <2>3. k \in DOMAIN accounts /\ accounts[k].uid = SelfUid /\ accounts[k] \in Account
    BY <2>1, <2>2, SelfIndexFinds
  <2>4. a.password = accounts[k].password
    BY <2>3, SelfStructKeeps
  <2> HIDE DEF a, k
  <2>5. j = k /\ accounts'[k] = a
    BY <2>2, <2>3
  <2> QED BY <2>3, <2>4, <2>5
<1>3. Inv => [Users /\ Own]_vars
  <2> HIDE DEF Users, Own
  <2> QED BY <1>1, <1>2
<1> QED BY <1>3, Invariance, PTL DEF AccountKept

=============================================================================
