---------------------------- MODULE OobsListProofs ----------------------------
(***************************************************************************)
(* Proofs about OobsList: the links are those of one list, the references  *)
(* to the elements are counted right, iterators are valid exactly as long  *)
(* as the stamp can tell, and the whole is a sequence of elements.  The    *)
(* list is followed along "order", the nodes in the order they should      *)
(* have, each of them once.                                                *)
(***************************************************************************)
EXTENDS OobsList, FiniteSetTheorems, NaturalsInduction, WellFoundedInduction, TLAPS

-----------------------------------------------------------------------------
(* The invariant *)

\* Each element of q once.
Distinct(q) == \A i, j \in 1..Len(q) : q[i] = q[j] => i = j

Elems(q) == {q[k] : k \in 1..Len(q)}

\* A list whose first node is f, with links nx and pv, has the nodes of q.
Chain(q, f, nx, pv) ==
    /\ f = IF q = <<>> THEN Null ELSE q[1]
    /\ \A k \in 1..Len(q) :
          /\ nx[q[k]] = IF k = Len(q) THEN Null ELSE q[k + 1]
          /\ pv[q[k]] = IF k = 1 THEN Null ELSE q[k - 1]

Linked ==
    /\ Distinct(order)
    /\ allocated = Elems(order)
    /\ Chain(order, list, next, prev)

Counted == \A o \in Objects : held[o] = Cardinality({n \in allocated : data[n] = o})

\* An iterator is as old as its stamp, and one that was there when the list
\* became empty is older than the first element inserted since.
Dated ==
    \A i \in Iters :
        /\ iters[i].stamp <= stamp
        /\ iters[i].data # Null /\ lost[i] = "no" =>
              iters[i].stamp = stamp /\ iters[i].data \in allocated
        /\ lost[i] = "emptied" => iters[i].stamp < stamp \/ allocated = {}

Inv == TypeOK /\ Linked /\ Counted /\ Dated

-----------------------------------------------------------------------------
(* Sequences *)

InsertAt(q, k, e) == SubSeq(q, 1, k) \o <<e>> \o SubSeq(q, k + 1, Len(q))
DropAt(q, k) == SubSeq(q, 1, k - 1) \o SubSeq(q, k + 1, Len(q))

LEMMA ConcatProperties ==
    ASSUME NEW S, NEW a \in Seq(S), NEW b \in Seq(S)
    PROVE  /\ a \o b \in Seq(S) /\ Len(a \o b) = Len(a) + Len(b)
           /\ \A i \in 1..Len(a) : (a \o b)[i] = a[i]
           /\ \A i \in 1..Len(b) : (a \o b)[Len(a) + i] = b[i]
<1>1. a \o b \in Seq(S) /\ Len(a \o b) = Len(a) + Len(b)
  OBVIOUS
<1>2. \A i \in 1..Len(a) : (a \o b)[i] = a[i]
  OBVIOUS
<1>3. \A i \in 1..Len(b) : (a \o b)[Len(a) + i] = b[i]
  OBVIOUS
<1> QED BY <1>1, <1>2, <1>3

LEMMA InsertAtProperties ==
    ASSUME NEW S, NEW q \in Seq(S), NEW k \in 0..Len(q), NEW e \in S
    PROVE  /\ InsertAt(q, k, e) \in Seq(S)
           /\ Len(InsertAt(q, k, e)) = Len(q) + 1
           /\ InsertAt(q, k, e)[k + 1] = e
           /\ \A i \in 1..k : InsertAt(q, k, e)[i] = q[i]
           /\ \A i \in (k + 1)..Len(q) : InsertAt(q, k, e)[i + 1] = q[i]
<1> DEFINE a == SubSeq(q, 1, k)
           b == SubSeq(q, k + 1, Len(q))
           c == <<e>>
           d == a \o c
           r == d \o b
<1>1. a \in Seq(S) /\ Len(a) = k /\ \A i \in 1..k : a[i] = q[i]
  OBVIOUS
<1>2. b \in Seq(S) /\ Len(b) = Len(q) - k /\ \A i \in 1..(Len(q) - k) : b[i] = q[k + i]
  OBVIOUS
<1>3. c \in Seq(S) /\ Len(c) = 1 /\ c[1] = e
  OBVIOUS
<1> HIDE DEF a, b, c
<1>4. d \in Seq(S) /\ Len(d) = k + 1 /\ d[k + 1] = e /\ \A i \in 1..k : d[i] = q[i]
  <2>0. a \in Seq(S) /\ c \in Seq(S) /\ d = a \o c
    BY <1>1, <1>3
  <2> HIDE DEF d
  <2>1. /\ d \in Seq(S) /\ Len(d) = Len(a) + Len(c)
        /\ \A i \in 1..Len(a) : d[i] = a[i]
        /\ \A i \in 1..Len(c) : d[Len(a) + i] = c[i]
    BY <2>0, ConcatProperties
  <2>2. 1 \in 1..Len(c)
    BY <1>3
  <2> QED BY <1>1, <1>3, <2>1, <2>2
<1> HIDE DEF d
<1>5. /\ r \in Seq(S) /\ Len(r) = Len(d) + Len(b)
      /\ \A i \in 1..Len(d) : r[i] = d[i]
      /\ \A i \in 1..Len(b) : r[Len(d) + i] = b[i]
  <2>1. d \in Seq(S) /\ b \in Seq(S) /\ r = d \o b
    BY <1>2, <1>4
  <2> HIDE DEF r
  <2> QED BY <2>1, ConcatProperties
<1>8. r = InsertAt(q, k, e)
  BY DEF InsertAt, a, b, c, d
<1> HIDE DEF r
<1>6. Len(r) = Len(q) + 1 /\ r[k + 1] = e /\ \A i \in 1..k : r[i] = q[i]
  BY <1>2, <1>4, <1>5
<1>7. ASSUME NEW i \in (k + 1)..Len(q)
      PROVE  r[i + 1] = q[i]
  <2>1. i - k \in 1..Len(b) /\ k + (i - k) = i /\ i + 1 = Len(d) + (i - k)
    BY <1>2, <1>4
  <2>2. r[i + 1] = b[i - k]
    BY <1>5, <2>1
  <2> QED BY <1>2, <2>1, <2>2
<1> QED BY <1>5, <1>6, <1>7, <1>8

LEMMA DropAtProperties ==
    ASSUME NEW S, NEW q \in Seq(S), NEW k \in 1..Len(q)
    PROVE  /\ DropAt(q, k) \in Seq(S)
           /\ Len(DropAt(q, k)) = Len(q) - 1
           /\ \A i \in 1..(k - 1) : DropAt(q, k)[i] = q[i]
           /\ \A i \in (k + 1)..Len(q) : DropAt(q, k)[i - 1] = q[i]
<1> DEFINE a == SubSeq(q, 1, k - 1)
           b == SubSeq(q, k + 1, Len(q))
           r == a \o b
<1>1. a \in Seq(S) /\ Len(a) = k - 1 /\ \A i \in 1..(k - 1) : a[i] = q[i]
  OBVIOUS
<1>2. b \in Seq(S) /\ Len(b) = Len(q) - k /\ \A i \in 1..(Len(q) - k) : b[i] = q[k + i]
  OBVIOUS
<1> HIDE DEF a, b
<1>3. /\ r \in Seq(S) /\ Len(r) = Len(a) + Len(b)
      /\ \A i \in 1..Len(a) : r[i] = a[i]
      /\ \A i \in 1..Len(b) : r[Len(a) + i] = b[i]
  <2>1. a \in Seq(S) /\ b \in Seq(S) /\ r = a \o b
    BY <1>1, <1>2
  <2> HIDE DEF r
  <2> QED BY <2>1, ConcatProperties
<1>4. r = DropAt(q, k)
  BY DEF DropAt, a, b
<1> HIDE DEF r
<1>5. Len(r) = Len(q) - 1 /\ \A i \in 1..(k - 1) : r[i] = q[i]
  BY <1>1, <1>2, <1>3
<1>6. ASSUME NEW i \in (k + 1)..Len(q)
      PROVE  r[i - 1] = q[i]
  <2>1. i - k \in 1..Len(b) /\ k + (i - k) = i /\ i - 1 = Len(a) + (i - k)
    BY <1>1, <1>2
  <2>2. r[i - 1] = b[i - k]
    BY <1>3, <2>1
  <2> QED BY <1>2, <2>1, <2>2
<1> QED BY <1>3, <1>4, <1>5, <1>6

LEMMA ElemsProperties ==
    ASSUME NEW S, NEW q \in Seq(S)
    PROVE  /\ Elems(q) \subseteq S
           /\ \A k \in 1..Len(q) : q[k] \in Elems(q)
           /\ \A e \in Elems(q) : \E k \in 1..Len(q) : q[k] = e
           /\ q = <<>> <=> Elems(q) = {}
           /\ q = <<>> <=> Len(q) = 0
           /\ Len(q) \in Nat
<1>1. /\ Elems(q) \subseteq S /\ Len(q) \in Nat
      /\ \A k \in 1..Len(q) : q[k] \in Elems(q)
      /\ \A e \in Elems(q) : \E k \in 1..Len(q) : q[k] = e
  BY DEF Elems
<1>2. q = <<>> <=> Len(q) = 0
  OBVIOUS
<1>3. Len(q) # 0 => 1 \in 1..Len(q)
  BY <1>1
<1>4. Len(q) = 0 => 1..Len(q) = {}
  OBVIOUS
<1>5. q = <<>> <=> Elems(q) = {}
  BY <1>1, <1>2, <1>3, <1>4
<1> QED BY <1>1, <1>2, <1>5

\* A new element, between the k-th and the next.
LEMMA InsertElems ==
    ASSUME NEW S, NEW q \in Seq(S), NEW k \in 0..Len(q), NEW e \in S,
           e \notin Elems(q), Distinct(q)
    PROVE  /\ Distinct(InsertAt(q, k, e))
           /\ Elems(InsertAt(q, k, e)) = Elems(q) \cup {e}
<1> DEFINE r == InsertAt(q, k, e)
<1>1. /\ r \in Seq(S) /\ Len(r) = Len(q) + 1 /\ r[k + 1] = e
      /\ \A i \in 1..k : r[i] = q[i]
      /\ \A i \in (k + 1)..Len(q) : r[i + 1] = q[i]
      /\ Len(q) \in Nat
  <2>1. r \in Seq(S)
    BY InsertAtProperties
  <2>2. Len(r) = Len(q) + 1
    BY InsertAtProperties
  <2>3. r[k + 1] = e
    BY InsertAtProperties
  <2>4. \A i \in 1..k : r[i] = q[i]
    BY InsertAtProperties
  <2>5. \A i \in (k + 1)..Len(q) : r[i + 1] = q[i]
    BY InsertAtProperties
  <2>6. Len(q) \in Nat
    OBVIOUS
  <2> HIDE DEF r
  <2> QED BY <2>1, <2>2, <2>3, <2>4, <2>5, <2>6
<1> HIDE DEF r
<1> DEFINE old(i) == IF i <= k THEN i ELSE i - 1
<1>2. \A i \in 1..Len(r) : i # k + 1 => old(i) \in 1..Len(q) /\ r[i] = q[old(i)]
  <2> SUFFICES ASSUME NEW i \in 1..Len(r), i # k + 1
               PROVE  old(i) \in 1..Len(q) /\ r[i] = q[old(i)]
    OBVIOUS
  <2>1. CASE i <= k
    BY <1>1, <2>1
  <2>2. CASE i > k
    <3>1. i - 1 \in (k + 1)..Len(q) /\ (i - 1) + 1 = i
      BY <1>1, <2>2
    <3> QED BY <1>1, <2>2, <3>1
  <2> QED BY <2>1, <2>2
<1>3. \A i \in 1..Len(q) : q[i] \in Elems(q) /\ \E j \in 1..Len(r) : r[j] = q[i]
  <2> SUFFICES ASSUME NEW i \in 1..Len(q)
               PROVE  q[i] \in Elems(q) /\ \E j \in 1..Len(r) : r[j] = q[i]
    OBVIOUS
  <2>1. q[i] \in Elems(q)
    BY DEF Elems
  <2>2. CASE i <= k
    BY <1>1, <2>1, <2>2
  <2>3. CASE i > k
    <3>1. i \in (k + 1)..Len(q) /\ i + 1 \in 1..Len(r)
      BY <1>1, <2>3
    <3> QED BY <1>1, <2>1, <3>1
  <2> QED BY <2>2, <2>3
<1>4. \A i \in 1..Len(r) : i # k + 1 => r[i] # e /\ r[i] \in Elems(q)
  BY <1>2, <1>3
<1>5. \A i, j \in 1..Len(r) : i # j /\ i # k + 1 /\ j # k + 1 => old(i) # old(j)
  BY <1>1
<1> HIDE DEF old
<1>6. Distinct(r)
  <2> SUFFICES ASSUME NEW i \in 1..Len(r), NEW j \in 1..Len(r), i # j PROVE r[i] # r[j]
    BY DEF Distinct
  <2>1. CASE i = k + 1 \/ j = k + 1
    BY <1>1, <1>4, <2>1
  <2>2. CASE i # k + 1 /\ j # k + 1
    BY <1>2, <1>5, <2>2 DEF Distinct
  <2> QED BY <2>1, <2>2
<1>7. k + 1 \in 1..Len(r)
  BY <1>1
<1>8. Elems(r) = Elems(q) \cup {e}
  <2>1. Elems(r) \subseteq Elems(q) \cup {e}
    BY <1>1, <1>4 DEF Elems
  <2>2. Elems(q) \cup {e} \subseteq Elems(r)
    BY <1>1, <1>3, <1>7 DEF Elems
  <2> QED BY <2>1, <2>2
<1> QED BY <1>6, <1>8 DEF r

LEMMA DropElems ==
    ASSUME NEW S, NEW q \in Seq(S), NEW k \in 1..Len(q), Distinct(q)
    PROVE  /\ Distinct(DropAt(q, k))
           /\ Elems(DropAt(q, k)) = Elems(q) \ {q[k]}
<1> DEFINE r == DropAt(q, k)
<1>1. /\ r \in Seq(S) /\ Len(r) = Len(q) - 1
      /\ \A i \in 1..(k - 1) : r[i] = q[i]
      /\ \A i \in (k + 1)..Len(q) : r[i - 1] = q[i]
      /\ Len(q) \in Nat
  BY DropAtProperties
<1> HIDE DEF r
<1> DEFINE old(i) == IF i < k THEN i ELSE i + 1
<1>2. \A i \in 1..Len(r) : old(i) \in 1..Len(q) /\ old(i) # k /\ r[i] = q[old(i)]
  <2> SUFFICES ASSUME NEW i \in 1..Len(r)
               PROVE  old(i) \in 1..Len(q) /\ old(i) # k /\ r[i] = q[old(i)]
    OBVIOUS
  <2>1. CASE i < k
    BY <1>1, <2>1
  <2>2. CASE i >= k
    <3>1. i + 1 \in (k + 1)..Len(q) /\ (i + 1) - 1 = i
      BY <1>1, <2>2
    <3> QED BY <1>1, <2>2, <3>1
  <2> QED BY <2>1, <2>2
<1>3. \A i \in 1..Len(q) : i # k => \E j \in 1..Len(r) : r[j] = q[i]
  <2> SUFFICES ASSUME NEW i \in 1..Len(q), i # k
               PROVE  \E j \in 1..Len(r) : r[j] = q[i]
    OBVIOUS
  <2>1. CASE i < k
    BY <1>1, <2>1
  <2>2. CASE i > k
    <3>1. i \in (k + 1)..Len(q) /\ i - 1 \in 1..Len(r)
      BY <1>1, <2>2
    <3> QED BY <1>1, <3>1
  <2> QED BY <2>1, <2>2
<1>4. \A i, j \in 1..Len(r) : i # j => old(i) # old(j)
  BY <1>1
<1> HIDE DEF old
<1>5. Distinct(r)
  <2> SUFFICES ASSUME NEW i \in 1..Len(r), NEW j \in 1..Len(r), i # j PROVE r[i] # r[j]
    BY DEF Distinct
  <2> QED BY <1>2, <1>4 DEF Distinct
<1>6. Elems(r) \subseteq Elems(q) \ {q[k]}
  <2> SUFFICES ASSUME NEW i \in 1..Len(r) PROVE r[i] \in Elems(q) /\ r[i] # q[k]
    BY DEF Elems
  <2>1. r[i] \in Elems(q)
    BY <1>2 DEF Elems
  <2> QED BY <1>2, <2>1 DEF Distinct
<1>7. Elems(q) \ {q[k]} \subseteq Elems(r)
  <2> SUFFICES ASSUME NEW i \in 1..Len(q), q[i] # q[k] PROVE q[i] \in Elems(r)
    BY DEF Elems
  <2>1. PICK j \in 1..Len(r) : r[j] = q[i]
    BY <1>3
  <2> QED BY <2>1 DEF Elems
<1> QED BY <1>5, <1>6, <1>7 DEF r

-----------------------------------------------------------------------------
(* Chains of nodes *)

\* What g_list_position finds: the nodes that every set has that contains the
\* first and follows the links.
ReachableFrom(f, nx) ==
    {n \in Nodes : \A S \in SUBSET Nodes :
        f \in S \cup {Null} /\ (\A m \in S : nx[m] \in S \cup {Null}) => n \in S}

LEMMA NullIsNoNode == Null \notin Nodes
  BY ListAssumption

LEMMA LeastOfNat ==
    ASSUME NEW I \in SUBSET Nat, I # {}
    PROVE  \E m \in I : \A i \in I : m <= i
<1> DEFINE R == {p \in Nat \X Nat : p[1] < p[2]}
<1>1. IsWellFoundedOn(R, Nat)
  BY NatLessThanWellFounded DEF OpToRel
<1>2. PICK m \in I : \A i \in I : ~ (<<i, m>> \in R)
  <2> HIDE DEF R
  <2> QED BY <1>1, WFMin
<1>3. ASSUME NEW i \in I PROVE m <= i
  <2>1. ~ (<<i, m>> \in R)
    BY <1>2
  <2> QED BY <2>1
<1> QED BY <1>3

LEMMA ChainReachable ==
    ASSUME NEW q \in Seq(Nodes), NEW f, NEW nx, NEW pv, Chain(q, f, nx, pv)
    PROVE  ReachableFrom(f, nx) = Elems(q)
<1>1. /\ Elems(q) \subseteq Nodes /\ Len(q) \in Nat /\ (q = <<>> <=> Len(q) = 0)
      /\ \A k \in 1..Len(q) : q[k] \in Elems(q)
      /\ \A e \in Elems(q) : \E k \in 1..Len(q) : q[k] = e
  BY ElemsProperties
<1>2. /\ Len(q) = 0 => f = Null
      /\ Len(q) # 0 => f = q[1]
      /\ \A k \in 1..Len(q) : nx[q[k]] = IF k = Len(q) THEN Null ELSE q[k + 1]
  BY <1>1 DEF Chain
<1>3. ReachableFrom(f, nx) \subseteq Elems(q)
  <2>1. f \in Elems(q) \cup {Null}
    BY <1>1, <1>2
  <2>2. \A m \in Elems(q) : nx[m] \in Elems(q) \cup {Null}
    <3> SUFFICES ASSUME NEW k \in 1..Len(q) PROVE nx[q[k]] \in Elems(q) \cup {Null}
      BY <1>1
    <3>1. k # Len(q) => k + 1 \in 1..Len(q)
      BY <1>1
    <3> QED BY <1>1, <1>2, <3>1
  <2> QED BY <1>1, <2>1, <2>2 DEF ReachableFrom
<1>4. Elems(q) \subseteq ReachableFrom(f, nx)
  <2> SUFFICES ASSUME NEW S \in SUBSET Nodes, f \in S \cup {Null},
                      \A m \in S : nx[m] \in S \cup {Null}
               PROVE  \A k \in 1..Len(q) : q[k] \in S
    BY <1>1 DEF ReachableFrom
  <2> DEFINE I == {k \in 1..Len(q) : q[k] \notin S}
  <2> SUFFICES ASSUME I # {} PROVE FALSE
    OBVIOUS
  <2>1. PICK k \in I : \A j \in I : k <= j
    <3>1. I \in SUBSET Nat
      BY <1>1
    <3> HIDE DEF I
    <3> QED BY <3>1, LeastOfNat
  <2>2. k \in 1..Len(q) /\ q[k] \notin S
    BY <2>1
  <2>3. CASE k = 1
    <3>1. f = q[1] /\ q[1] \in Nodes
      BY <1>1, <1>2, <2>2, <2>3
    <3> QED BY <2>2, <2>3, <3>1, NullIsNoNode
  <2>4. CASE k # 1
    <3>1. k - 1 \in 1..Len(q) /\ (k - 1) + 1 = k /\ k - 1 # Len(q)
      BY <1>1, <2>2, <2>4
    <3>2. q[k - 1] \in S
      BY <2>1, <3>1
    <3>3. nx[q[k - 1]] = q[k]
      BY <1>2, <3>1
    <3>4. q[k] \in Nodes
      BY <1>1, <2>2
    <3> QED BY <2>2, <3>2, <3>3, <3>4, NullIsNoNode
  <2> QED BY <2>3, <2>4
<1> QED BY <1>3, <1>4

\* A node n is linked in after the k-th: the new first node is nf, and the new
\* links are nn and np.
LinkIn(q, k, n, f, nx, pv, nf, nn, np) ==
    /\ nf = IF k = 0 THEN n ELSE f
    /\ nn[n] = IF k = Len(q) THEN Null ELSE q[k + 1]
    /\ np[n] = IF k = 0 THEN Null ELSE q[k]
    /\ \A i \in 1..Len(q) : /\ nn[q[i]] = IF i = k THEN n ELSE nx[q[i]]
                            /\ np[q[i]] = IF i = k + 1 THEN n ELSE pv[q[i]]

LEMMA ChainInsert ==
    ASSUME NEW q \in Seq(Nodes), NEW f, NEW nx, NEW pv, Chain(q, f, nx, pv),
           NEW k \in 0..Len(q), NEW n \in Nodes, NEW nf, NEW nn, NEW np,
           LinkIn(q, k, n, f, nx, pv, nf, nn, np)
    PROVE  Chain(InsertAt(q, k, n), nf, nn, np)
<1>0. /\ nf = (IF k = 0 THEN n ELSE f)
      /\ nn[n] = (IF k = Len(q) THEN Null ELSE q[k + 1])
      /\ np[n] = (IF k = 0 THEN Null ELSE q[k])
      /\ \A i \in 1..Len(q) : nn[q[i]] = IF i = k THEN n ELSE nx[q[i]]
      /\ \A i \in 1..Len(q) : np[q[i]] = IF i = k + 1 THEN n ELSE pv[q[i]]
  BY DEF LinkIn
<1> DEFINE r == InsertAt(q, k, n)
<1>1. /\ r \in Seq(Nodes) /\ Len(r) = Len(q) + 1 /\ r[k + 1] = n
      /\ \A i \in 1..k : r[i] = q[i]
      /\ \A i \in (k + 1)..Len(q) : r[i + 1] = q[i]
  <2>1. r \in Seq(Nodes)
    BY InsertAtProperties
  <2>2. Len(r) = Len(q) + 1
    BY InsertAtProperties
  <2>3. r[k + 1] = n
    BY InsertAtProperties
  <2>4. \A i \in 1..k : r[i] = q[i]
    BY InsertAtProperties
  <2>5. \A i \in (k + 1)..Len(q) : r[i + 1] = q[i]
    BY InsertAtProperties
  <2> HIDE DEF r
  <2> QED BY <2>1, <2>2, <2>3, <2>4, <2>5
<1> HIDE DEF r
<1>2. Len(q) \in Nat /\ (q = <<>> <=> Len(q) = 0) /\ (r = <<>> <=> Len(r) = 0)
  BY <1>1
<1>3. /\ Len(q) # 0 => f = q[1]
      /\ \A i \in 1..Len(q) : /\ nx[q[i]] = IF i = Len(q) THEN Null ELSE q[i + 1]
                              /\ pv[q[i]] = IF i = 1 THEN Null ELSE q[i - 1]
  BY <1>2 DEF Chain
<1>4. nf = r[1] /\ r # <<>>
  <2>1. CASE k = 0
    BY <1>0, <1>1, <1>2, <2>1
  <2>2. CASE k # 0
    <3>1. 1 \in 1..k /\ Len(q) # 0
      BY <1>2, <2>2
    <3> QED BY <1>0, <1>1, <1>2, <1>3, <2>2, <3>1
  <2> QED BY <2>1, <2>2
<1>5. ASSUME NEW i \in 1..Len(r)
      PROVE  /\ nn[r[i]] = IF i = Len(r) THEN Null ELSE r[i + 1]
             /\ np[r[i]] = IF i = 1 THEN Null ELSE r[i - 1]
  <2>1. CASE i = k + 1
    <3>1. nn[r[i]] = IF i = Len(r) THEN Null ELSE r[i + 1]
      <4>1. i # Len(r) => i \in (k + 1)..Len(q)
        BY <1>1, <1>2, <2>1
      <4> QED BY <1>0, <1>1, <1>2, <2>1, <4>1
    <3>2. np[r[i]] = IF i = 1 THEN Null ELSE r[i - 1]
      <4>1. i # 1 => k \in 1..k
        BY <1>2, <2>1
      <4> QED BY <1>0, <1>1, <1>2, <2>1, <4>1
    <3> QED BY <3>1, <3>2
  <2>2. CASE i <= k
    <3>1. /\ i \in 1..k /\ i \in 1..Len(q) /\ i # k + 1 /\ i # Len(r) /\ r[i] = q[i]
          /\ i # Len(q) \/ i = k
      BY <1>1, <1>2, <2>2
    <3>2. nn[q[i]] = (IF i = k THEN n ELSE nx[q[i]]) /\ np[q[i]] = pv[q[i]]
      BY <1>0, <3>1
    <3>3. i # k => i + 1 \in 1..k
      BY <1>2, <3>1
    <3>4. i # 1 => i - 1 \in 1..k
      BY <1>2, <3>1
    <3>5. nn[r[i]] = r[i + 1]
      BY <1>1, <1>3, <3>1, <3>2, <3>3
    <3>6. np[r[i]] = IF i = 1 THEN Null ELSE r[i - 1]
      BY <1>1, <1>3, <3>1, <3>2, <3>4
    <3> QED BY <3>1, <3>5, <3>6
  <2>3. CASE i > k + 1
    <3> DEFINE j == i - 1
    <3>1. /\ j \in (k + 1)..Len(q) /\ j \in 1..Len(q) /\ j # k /\ j + 1 = i /\ i # 1
          /\ j - 1 = i - 2 /\ (j = Len(q) <=> i = Len(r))
      BY <1>1, <1>2, <2>3
    <3>2. r[i] = q[j]
      BY <1>1, <3>1
    <3>3. nn[q[j]] = nx[q[j]] /\ np[q[j]] = IF j = k + 1 THEN n ELSE pv[q[j]]
      BY <1>0, <3>1
    <3>4. j # Len(q) => j + 1 \in (k + 1)..Len(q)
      BY <1>2, <3>1
    <3>5. j # k + 1 => j - 1 \in (k + 1)..Len(q) /\ (j - 1) + 1 = j /\ j # 1
      BY <1>2, <3>1
    <3> HIDE DEF j
    <3>6. nn[r[i]] = IF i = Len(r) THEN Null ELSE r[i + 1]
      BY <1>1, <1>3, <3>1, <3>2, <3>3, <3>4
    <3>7. np[r[i]] = r[i - 1]
      <4>1. i - 1 = j
        BY DEF j
      <4>2. CASE j = k + 1
        BY <1>1, <3>2, <3>3, <4>1, <4>2
      <4>3. CASE j # k + 1
        <5>1. r[j] = q[j - 1]
          BY <1>1, <3>5, <4>3
        <5> QED BY <1>3, <3>1, <3>2, <3>3, <3>5, <4>1, <4>3, <5>1
      <4> QED BY <4>2, <4>3
    <3> QED BY <3>1, <3>6, <3>7
  <2>4. i = k + 1 \/ i <= k \/ i > k + 1
    BY <1>2
  <2> QED BY <2>1, <2>2, <2>3, <2>4
<1> QED BY <1>4, <1>5 DEF Chain, r

\* The k-th node is linked out.
LinkOut(q, k, f, nx, pv, nf, nn, np) ==
    /\ nf = IF k = 1 THEN nx[q[k]] ELSE f
    /\ \A i \in 1..Len(q) : i # k =>
          /\ nn[q[i]] = IF i = k - 1 THEN nx[q[k]] ELSE nx[q[i]]
          /\ np[q[i]] = IF i = k + 1 THEN pv[q[k]] ELSE pv[q[i]]

LEMMA ChainDrop ==
    ASSUME NEW q \in Seq(Nodes), NEW f, NEW nx, NEW pv, Chain(q, f, nx, pv),
           NEW k \in 1..Len(q), NEW nf, NEW nn, NEW np,
           LinkOut(q, k, f, nx, pv, nf, nn, np)
    PROVE  Chain(DropAt(q, k), nf, nn, np)
<1>0. /\ nf = (IF k = 1 THEN nx[q[k]] ELSE f)
      /\ \A i \in 1..Len(q) : i # k => nn[q[i]] = IF i = k - 1 THEN nx[q[k]] ELSE nx[q[i]]
      /\ \A i \in 1..Len(q) : i # k => np[q[i]] = IF i = k + 1 THEN pv[q[k]] ELSE pv[q[i]]
  BY DEF LinkOut
<1> DEFINE r == DropAt(q, k)
<1>1. /\ r \in Seq(Nodes) /\ Len(r) = Len(q) - 1
      /\ \A i \in 1..(k - 1) : r[i] = q[i]
      /\ \A i \in (k + 1)..Len(q) : r[i - 1] = q[i]
  <2>1. r \in Seq(Nodes)
    BY DropAtProperties
  <2>2. Len(r) = Len(q) - 1
    BY DropAtProperties
  <2>3. \A i \in 1..(k - 1) : r[i] = q[i]
    BY DropAtProperties
  <2>4. \A i \in (k + 1)..Len(q) : r[i - 1] = q[i]
    BY DropAtProperties
  <2> HIDE DEF r
  <2> QED BY <2>1, <2>2, <2>3, <2>4
<1> HIDE DEF r
<1>2. Len(q) \in Nat /\ Len(q) # 0 /\ q # <<>> /\ (r = <<>> <=> Len(r) = 0)
  BY <1>1
<1>3. /\ f = q[1]
      /\ \A i \in 1..Len(q) : /\ nx[q[i]] = IF i = Len(q) THEN Null ELSE q[i + 1]
                              /\ pv[q[i]] = IF i = 1 THEN Null ELSE q[i - 1]
  BY <1>2 DEF Chain
<1>4. nf = IF r = <<>> THEN Null ELSE r[1]
  <2>1. CASE k = 1
    <3>1. nf = IF k = Len(q) THEN Null ELSE q[k + 1]
      BY <1>0, <1>3, <2>1
    <3>2. k # Len(q) => k + 1 \in (k + 1)..Len(q) /\ (k + 1) - 1 = 1 /\ Len(r) # 0
      BY <1>1, <1>2, <2>1
    <3>3. k = Len(q) => Len(r) = 0
      BY <1>1, <1>2, <2>1
    <3> QED BY <1>1, <1>2, <3>1, <3>2, <3>3
  <2>2. CASE k # 1
    <3>1. 1 \in 1..(k - 1) /\ Len(r) # 0
      BY <1>1, <1>2, <2>2
    <3> QED BY <1>0, <1>1, <1>2, <1>3, <2>2, <3>1
  <2> QED BY <2>1, <2>2
<1>5. ASSUME NEW i \in 1..Len(r)
      PROVE  /\ nn[r[i]] = IF i = Len(r) THEN Null ELSE r[i + 1]
             /\ np[r[i]] = IF i = 1 THEN Null ELSE r[i - 1]
  <2>1. CASE i < k
    <3>1. i \in 1..(k - 1) /\ i \in 1..Len(q) /\ i # k /\ i # k + 1 /\ i # Len(q) /\ r[i] = q[i]
      BY <1>1, <1>2, <2>1
    <3>2. nn[q[i]] = (IF i = k - 1 THEN nx[q[k]] ELSE nx[q[i]]) /\ np[q[i]] = pv[q[i]]
      BY <1>0, <3>1
    <3>3. np[r[i]] = IF i = 1 THEN Null ELSE r[i - 1]
      <4>1. i # 1 => i - 1 \in 1..(k - 1)
        BY <1>2, <3>1
      <4> QED BY <1>1, <1>3, <3>1, <3>2, <4>1
    <3>4. CASE i # k - 1
      <4>1. i + 1 \in 1..(k - 1) /\ i # Len(r)
        BY <1>1, <1>2, <2>1, <3>4
      <4> QED BY <1>1, <1>3, <3>1, <3>2, <3>3, <3>4, <4>1
    <3>5. CASE i = k - 1
      <4>1. nn[r[i]] = IF k = Len(q) THEN Null ELSE q[k + 1]
        BY <1>3, <3>1, <3>2, <3>5
      <4>2. (k = Len(q) <=> i = Len(r)) /\ i + 1 = k
        BY <1>1, <1>2, <3>5
      <4>3. k # Len(q) => k + 1 \in (k + 1)..Len(q) /\ (k + 1) - 1 = i + 1
        BY <1>2, <4>2
      <4> QED BY <1>1, <3>3, <4>1, <4>2, <4>3
    <3> QED BY <3>4, <3>5
  <2>2. CASE i >= k
    <3> DEFINE j == i + 1
    <3>1. /\ j \in (k + 1)..Len(q) /\ j \in 1..Len(q) /\ j # k /\ j # k - 1 /\ j - 1 = i
          /\ (j = Len(q) <=> i = Len(r)) /\ j # 1
      BY <1>1, <1>2, <2>2
    <3>2. r[i] = q[j]
      BY <1>1, <3>1
    <3>3. nn[q[j]] = nx[q[j]] /\ np[q[j]] = IF j = k + 1 THEN pv[q[k]] ELSE pv[q[j]]
      BY <1>0, <3>1
    <3>4. j # Len(q) => j + 1 \in (k + 1)..Len(q) /\ (j + 1) - 1 = i + 1
      BY <1>2, <3>1
    <3>5. i + 1 = j
      OBVIOUS
    <3> HIDE DEF j
    <3>6. nn[r[i]] = IF i = Len(r) THEN Null ELSE r[i + 1]
      BY <1>1, <1>3, <3>1, <3>2, <3>3, <3>4, <3>5
    <3>7. np[r[i]] = IF i = 1 THEN Null ELSE r[i - 1]
      <4>1. CASE j = k + 1
        <5>1. i = k
          BY <1>2, <3>5, <4>1
        <5>2. k # 1 => k - 1 \in 1..(k - 1)
          BY <1>2
        <5> QED BY <1>1, <1>3, <3>2, <3>3, <4>1, <5>1, <5>2
      <4>2. CASE j # k + 1
        <5>1. i \in (k + 1)..Len(q) /\ i # 1
          BY <1>2, <3>1, <3>5, <4>2
        <5>2. np[r[i]] = q[j - 1]
          BY <1>3, <3>1, <3>2, <3>3, <4>2
        <5> QED BY <1>1, <3>1, <5>1, <5>2
      <4> QED BY <4>1, <4>2
    <3> QED BY <3>6, <3>7
  <2>3. i < k \/ i >= k
    BY <1>2
  <2> QED BY <2>1, <2>2, <2>3
<1> QED BY <1>4, <1>5 DEF Chain, r

-----------------------------------------------------------------------------
(* What the invariant says of a state *)

LEMMA ElemsFinite ==
    ASSUME NEW S, NEW q \in Seq(S)
    PROVE  /\ IsFiniteSet(Elems(q))
           /\ Distinct(q) => Cardinality(Elems(q)) = Len(q)
<1> DEFINE f == [k \in 1..Len(q) |-> q[k]]
<1>1. Len(q) \in Nat
  OBVIOUS
<1>2. f \in Surjection(1..Len(q), Elems(q))
  BY DEF Surjection, Elems
<1>3. IsFiniteSet(1..Len(q)) /\ Cardinality(1..Len(q)) = Len(q)
  BY <1>1, FS_Interval
<1>4. Distinct(q) => f \in Injection(1..Len(q), Elems(q))
  BY <1>2 DEF Distinct, Injection, Surjection, IsInjective
<1> HIDE DEF f
<1> QED BY <1>2, <1>3, <1>4, FS_Surjection

Holders(o) == {n \in allocated : data[n] = o}

LEMMA InvFacts ==
    ASSUME Inv
    PROVE  /\ order \in Seq(Nodes) /\ Distinct(order) /\ allocated = Elems(order)
           /\ allocated \subseteq Nodes /\ IsFiniteSet(allocated)
           /\ Reachable = allocated
           /\ list \in allocated \cup {Null}
           /\ list = Null <=> allocated = {}
           /\ \A n \in allocated : /\ next[n] \in allocated \cup {Null}
                                   /\ prev[n] \in allocated \cup {Null}
           /\ \A o \in Objects : IsFiniteSet(Holders(o)) /\ held[o] = Cardinality(Holders(o))
<1>1. order \in Seq(Nodes) /\ Distinct(order) /\ allocated = Elems(order)
  BY DEF Inv, TypeOK, Linked
<1>2. Chain(order, list, next, prev)
  BY DEF Inv, Linked
<1>3. IsFiniteSet(allocated) /\ allocated \subseteq Nodes
  BY <1>1, ElemsFinite, ElemsProperties
<1>4. Reachable = allocated
  BY <1>1, <1>2, ChainReachable DEF Reachable, ReachableFrom
<1>5. /\ Len(order) \in Nat /\ (order = <<>> <=> Len(order) = 0)
      /\ (order = <<>> <=> allocated = {})
      /\ \A k \in 1..Len(order) : order[k] \in allocated
      /\ \A e \in allocated : \E k \in 1..Len(order) : order[k] = e
  BY <1>1, ElemsProperties
<1>6. list \in allocated \cup {Null} /\ (list = Null <=> allocated = {})
  <2>1. order # <<>> => list = order[1] /\ 1 \in 1..Len(order)
    BY <1>2, <1>5 DEF Chain
  <2>2. order = <<>> => list = Null
    BY <1>2 DEF Chain
  <2> QED BY <1>3, <1>5, <2>1, <2>2, NullIsNoNode
<1>7. \A n \in allocated : /\ next[n] \in allocated \cup {Null}
                           /\ prev[n] \in allocated \cup {Null}
  <2> SUFFICES ASSUME NEW k \in 1..Len(order)
               PROVE  /\ next[order[k]] \in allocated \cup {Null}
                      /\ prev[order[k]] \in allocated \cup {Null}
    BY <1>5
  <2>1. /\ k # Len(order) => k + 1 \in 1..Len(order)
        /\ k # 1 => k - 1 \in 1..Len(order)
    BY <1>5
  <2> QED BY <1>2, <1>5, <2>1 DEF Chain
<1>8. \A o \in Objects : IsFiniteSet(Holders(o)) /\ held[o] = Cardinality(Holders(o))
  <2> SUFFICES ASSUME NEW o \in Objects
               PROVE  IsFiniteSet(Holders(o)) /\ held[o] = Cardinality(Holders(o))
    OBVIOUS
  <2>1. Holders(o) \in SUBSET allocated
    BY DEF Holders
  <2>2. IsFiniteSet(Holders(o))
    BY <1>3, <2>1, FS_Subset
  <2> QED BY <2>2 DEF Holders, Inv, Counted
<1> QED BY <1>1, <1>3, <1>4, <1>6, <1>7, <1>8

LEMMA InvTypes ==
    ASSUME Inv
    PROVE  /\ list \in Nodes \cup {Null}
           /\ next \in [Nodes -> Nodes \cup {Null}] /\ prev \in [Nodes -> Nodes \cup {Null}]
           /\ data \in [Nodes -> Contained \cup {Null}]
           /\ stamp \in Nat /\ locked \in BOOLEAN /\ alive \in BOOLEAN /\ crashed \in BOOLEAN
           /\ iters \in [Iters -> [stamp : Nat, data : Nodes \cup {Null}]]
           /\ held \in [Objects -> Nat]
           /\ lost \in [Iters -> {"no", "removed", "emptied"}]
  BY DEF Inv, TypeOK

LEMMA IndexOfNode ==
    ASSUME Inv, NEW n \in allocated
    PROVE  /\ IndexOf(n) \in 1..Len(order) /\ order[IndexOf(n)] = n
           /\ \A k \in 1..Len(order) : order[k] = n <=> k = IndexOf(n)
<1>1. PICK k \in 1..Len(order) : order[k] = n
  BY InvFacts, ElemsProperties
<1>2. IndexOf(n) \in 1..Len(order) /\ order[IndexOf(n)] = n
  BY <1>1 DEF IndexOf
<1> QED BY <1>2, InvFacts DEF Distinct

LEMMA LastNodeIsLast ==
    ASSUME Inv, list # Null
    PROVE  LastNode = order[Len(order)] /\ Len(order) \in 1..Len(order)
<1>1. /\ order \in Seq(Nodes) /\ Distinct(order) /\ allocated = Elems(order)
      /\ Reachable = allocated /\ allocated # {}
  BY InvFacts
<1>2. /\ Len(order) \in Nat /\ Len(order) # 0
      /\ \A k \in 1..Len(order) : order[k] \in Nodes /\ order[k] \in allocated
      /\ \A e \in allocated : \E k \in 1..Len(order) : order[k] = e
  BY <1>1, ElemsProperties
<1>3. Len(order) \in 1..Len(order)
  BY <1>2
<1>4. \A k \in 1..Len(order) : next[order[k]] = IF k = Len(order) THEN Null ELSE order[k + 1]
  BY DEF Inv, Linked, Chain
<1>5. next[order[Len(order)]] = Null
  BY <1>3, <1>4
<1>6. \A k \in 1..Len(order) : next[order[k]] = Null => k = Len(order)
  <2> SUFFICES ASSUME NEW k \in 1..Len(order), k # Len(order) PROVE next[order[k]] # Null
    OBVIOUS
  <2>1. k + 1 \in 1..Len(order)
    BY <1>2
  <2>2. order[k + 1] \in Nodes
    BY <1>2, <2>1
  <2> QED BY <1>4, <2>2, NullIsNoNode
<1>7. \A n \in Reachable : next[n] = Null <=> n = order[Len(order)]
  BY <1>1, <1>2, <1>5, <1>6
<1>8. order[Len(order)] \in Reachable
  BY <1>1, <1>2, <1>3
<1> QED BY <1>3, <1>7, <1>8 DEF LastNode

LEMMA InitInv == Init => Inv
<1> SUFFICES ASSUME Init PROVE Inv
  OBVIOUS
<1>1. order = <<>> /\ allocated = {} /\ list = Null /\ stamp = 0
  BY DEF Init
<1>2. order \in Seq(Nodes) /\ Len(order) = 0 /\ Elems(order) = {} /\ Distinct(order)
  BY <1>1 DEF Elems, Distinct
<1>3. TypeOK
  BY <1>2 DEF Init, TypeOK
<1>4. Linked
  BY <1>1, <1>2 DEF Linked, Chain
<1>5. Counted
  <2> SUFFICES ASSUME NEW o \in Objects PROVE held[o] = Cardinality({n \in allocated : data[n] = o})
    BY DEF Counted
  <2>1. {n \in allocated : data[n] = o} = {}
    BY <1>1
  <2> QED BY <2>1, FS_EmptySet DEF Init
<1>6. Dated
  BY DEF Init, Dated
<1> QED BY <1>3, <1>4, <1>5, <1>6 DEF Inv

-----------------------------------------------------------------------------
(* Steps *)

LEMMA InvFromParts ==
    ASSUME order' \in Seq(Nodes), Distinct(order'), allocated' = Elems(order'),
           Chain(order', list', next', prev'),
           next' \in [Nodes -> Nodes \cup {Null}], prev' \in [Nodes -> Nodes \cup {Null}],
           list' \in Nodes \cup {Null},
           data' \in [Nodes -> Contained \cup {Null}],
           stamp' \in Nat, locked' \in BOOLEAN, alive' \in BOOLEAN, crashed' \in BOOLEAN,
           iters' \in [Iters -> [stamp : Nat, data : Nodes \cup {Null}]],
           lost' \in [Iters -> {"no", "removed", "emptied"}],
           DOMAIN held' = Objects, held' = [o \in Objects |-> held'[o]],
           \A o \in Objects : held'[o] = Cardinality({n \in allocated' : data'[n] = o}),
           Dated'
    PROVE  Inv'
<1>1. IsFiniteSet(allocated') /\ allocated' \subseteq Nodes
  BY ElemsFinite, ElemsProperties
<1>2. \A o \in Objects : held'[o] \in Nat
  <2> SUFFICES ASSUME NEW o \in Objects PROVE held'[o] \in Nat
    OBVIOUS
  <2> DEFINE H == {n \in allocated' : data'[n] = o}
  <2>1. H \in SUBSET allocated' /\ held'[o] = Cardinality(H)
    OBVIOUS
  <2> HIDE DEF H
  <2>2. IsFiniteSet(H)
    BY <1>1, <2>1, FS_Subset
  <2> QED BY <2>1, <2>2, FS_CardinalityType
<1>3. held' \in [Objects -> Nat]
  BY <1>2
<1>4. TypeOK'
  BY <1>1, <1>3 DEF TypeOK
<1>5. Linked' /\ Counted'
  BY DEF Linked, Counted, Distinct, Elems, Chain
<1> QED BY <1>4, <1>5 DEF Inv

\* Only iterators, the lock or the end of the list are concerned.
LEMMA SameListStep ==
    ASSUME Inv, UNCHANGED <<links, held, order, stamp>>,
           locked' \in BOOLEAN, alive' \in BOOLEAN, crashed' \in BOOLEAN,
           iters' \in [Iters -> [stamp : Nat, data : Nodes \cup {Null}]],
           lost' \in [Iters -> {"no", "removed", "emptied"}],
           Dated'
    PROVE  Inv'
<1>1. TypeOK'
  BY DEF Inv, TypeOK, links
<1>2. Linked' /\ Counted'
  BY DEF Inv, Linked, Counted, links
<1> QED BY <1>1, <1>2 DEF Inv

\* An iterator is set to a node of the list, or to none.
LEMMA PointStep ==
    ASSUME Inv, NEW i \in Iters, NEW n \in allocated \cup {Null},
           Point(i, n, stamp), UNCHANGED <<links, stamp, locked, alive, crashed, held, order>>
    PROVE  Inv'
<1>1. n \in Nodes \cup {Null}
  BY InvFacts
<1>2. /\ iters' \in [Iters -> [stamp : Nat, data : Nodes \cup {Null}]]
      /\ lost' \in [Iters -> {"no", "removed", "emptied"}]
  BY <1>1, InvTypes DEF Point
<1>3. /\ iters'[i].stamp = stamp /\ iters'[i].data = n /\ lost'[i] = "no"
      /\ \A j \in Iters \ {i} : iters'[j] = iters[j] /\ lost'[j] = lost[j]
  BY InvTypes DEF Point
<1>4. stamp' = stamp /\ allocated' = allocated /\ stamp \in Nat
  BY InvTypes DEF links
<1>5. Dated'
  <2> SUFFICES ASSUME NEW j \in Iters
               PROVE  /\ iters'[j].stamp <= stamp
                      /\ iters'[j].data # Null /\ lost'[j] = "no" =>
                            iters'[j].stamp = stamp /\ iters'[j].data \in allocated
                      /\ lost'[j] = "emptied" => iters'[j].stamp < stamp \/ allocated = {}
    BY <1>4 DEF Dated
  <2>1. CASE j = i
    BY <1>3, <1>4, <2>1
  <2>2. CASE j # i
    BY <1>3, <2>2 DEF Inv, Dated
  <2> QED BY <2>1, <2>2
<1> QED BY <1>2, <1>5, InvTypes, SameListStep

\* A node is inserted after the k-th, and the iterator i set to it.
LEMMA InsertStep ==
    ASSUME Inv, NEW i \in Iters, NEW n \in Nodes, NEW k \in 0..Len(order), NEW s,
           s = (IF allocated = {} THEN stamp + 1 ELSE stamp),
           Allocate(n), order' = InsertAt(order, k, n), Point(i, n, s), stamp' = s,
           Chain(InsertAt(order, k, n), list', next', prev'),
           next' \in [Nodes -> Nodes \cup {Null}], prev' \in [Nodes -> Nodes \cup {Null}],
           list' \in Nodes \cup {Null},
           UNCHANGED <<locked, alive, crashed, held>>
    PROVE  Inv'
<1>1. /\ order \in Seq(Nodes) /\ Distinct(order) /\ allocated = Elems(order)
      /\ allocated \subseteq Nodes /\ IsFiniteSet(allocated)
      /\ \A o \in Objects : held[o] = Cardinality(Holders(o))
  BY InvFacts
<1>2. n \notin allocated /\ allocated' = allocated \cup {n} /\ data' = [data EXCEPT ![n] = Null]
  BY DEF Allocate
<1>3. stamp \in Nat /\ s \in Nat /\ stamp <= s
  BY InvTypes
<1>4. order' \in Seq(Nodes)
  BY <1>1, InsertAtProperties
<1>5. Distinct(order') /\ allocated' = Elems(order')
  BY <1>1, <1>2, InsertElems
<1>6. data' \in [Nodes -> Contained \cup {Null}] /\ data'[n] = Null
      /\ \A m \in Nodes \ {n} : data'[m] = data[m]
  BY <1>2, InvTypes
<1>7. \A o \in Objects : held'[o] = Cardinality({m \in allocated' : data'[m] = o})
  <2> SUFFICES ASSUME NEW o \in Objects
               PROVE  held[o] = Cardinality({m \in allocated' : data'[m] = o})
    OBVIOUS
  <2>1. o # Null
    BY ListAssumption
  <2>2. {m \in allocated' : data'[m] = o} = Holders(o)
    BY <1>1, <1>2, <1>6, <2>1 DEF Holders
  <2> QED BY <1>1, <2>2
<1>8. /\ iters' \in [Iters -> [stamp : Nat, data : Nodes \cup {Null}]]
      /\ lost' \in [Iters -> {"no", "removed", "emptied"}]
      /\ iters'[i].stamp = s /\ iters'[i].data = n /\ lost'[i] = "no"
      /\ \A j \in Iters \ {i} : iters'[j] = iters[j] /\ lost'[j] = lost[j]
  BY <1>3, InvTypes DEF Point
<1>9. Dated'
  <2> SUFFICES ASSUME NEW j \in Iters
               PROVE  /\ iters'[j].stamp <= s
                      /\ iters'[j].data # Null /\ lost'[j] = "no" =>
                            iters'[j].stamp = s /\ iters'[j].data \in allocated'
                      /\ lost'[j] = "emptied" => iters'[j].stamp < s \/ allocated' = {}
    BY DEF Dated
  <2>1. CASE j = i
    BY <1>2, <1>3, <1>8, <2>1
  <2>2. CASE j # i
    <3>1. /\ iters'[j] = iters[j] /\ lost'[j] = lost[j] /\ iters[j].stamp \in Nat
          /\ iters[j].stamp <= stamp
          /\ iters[j].data # Null /\ lost[j] = "no" =>
                iters[j].stamp = stamp /\ iters[j].data \in allocated
          /\ lost[j] = "emptied" => iters[j].stamp < stamp \/ allocated = {}
      BY <1>8, <2>2, InvTypes DEF Inv, Dated
    <3>2. CASE allocated = {}
      BY <1>3, <3>1, <3>2
    <3>3. CASE allocated # {}
      BY <1>2, <1>3, <3>1, <3>3
    <3> QED BY <3>2, <3>3
  <2> QED BY <2>1, <2>2
<1>10. /\ locked' \in BOOLEAN /\ alive' \in BOOLEAN /\ crashed' \in BOOLEAN /\ stamp' \in Nat
       /\ held' = [o \in Objects |-> held'[o]] /\ DOMAIN held' = Objects
  BY <1>3, InvTypes
<1>11. Chain(order', list', next', prev')
  OBVIOUS
<1> QED BY <1>4, <1>5, <1>6, <1>7, <1>8, <1>9, <1>10, <1>11, InvFromParts

LEMMA NewStampIs ==
    ASSUME Inv
    PROVE  NewStamp = IF allocated = {} THEN stamp + 1 ELSE stamp
  BY InvFacts DEF NewStamp

LEMMA ListFacts ==
    ASSUME Inv
    PROVE  /\ Chain(order, list, next, prev)
           /\ Len(order) \in Nat
           /\ Len(order) = 0 <=> list = Null
           /\ \A k \in 1..Len(order) :
                 /\ order[k] \in allocated
                 /\ next[order[k]] = IF k = Len(order) THEN Null ELSE order[k + 1]
                 /\ prev[order[k]] = IF k = 1 THEN Null ELSE order[k - 1]
           /\ list # Null => list = order[1] /\ 1 \in 1..Len(order)
<1>1. Chain(order, list, next, prev)
  BY DEF Inv, Linked
<1>2. /\ Len(order) \in Nat /\ (order = <<>> <=> Len(order) = 0)
      /\ (order = <<>> <=> allocated = {})
      /\ \A k \in 1..Len(order) : order[k] \in allocated
      /\ (list = Null <=> allocated = {})
  BY InvFacts, ElemsProperties
<1>3. \A k \in 1..Len(order) :
         /\ next[order[k]] = IF k = Len(order) THEN Null ELSE order[k + 1]
         /\ prev[order[k]] = IF k = 1 THEN Null ELSE order[k - 1]
  BY <1>1 DEF Chain
<1>4. list # Null => list = order[1] /\ 1 \in 1..Len(order)
  BY <1>1, <1>2 DEF Chain
<1> QED BY <1>1, <1>2, <1>3, <1>4

LEMMA AppendStep ==
    ASSUME Inv, NEW i \in Iters, NEW n \in Nodes, ListAppend(i, n)
    PROVE  Inv' /\ order' = InsertAt(order, Len(order), n)
<1> DEFINE k == Len(order)
<1>1. /\ order' = InsertAt(order, k, n) /\ Point(i, n, NewStamp) /\ stamp' = NewStamp
      /\ Allocate(n) /\ UNCHANGED <<locked, alive, crashed, held>>
      /\ next' = [m \in Nodes |-> IF m = n THEN Null
                                  ELSE IF list # Null /\ m = LastNode THEN n ELSE next[m]]
      /\ prev' = [prev EXCEPT ![n] = IF list = Null THEN Null ELSE LastNode]
      /\ list' = IF list = Null THEN n ELSE list
  BY DEF ListAppend, InsertNode, InsertAt
<1>2. /\ order \in Seq(Nodes) /\ Distinct(order) /\ allocated \subseteq Nodes
  BY InvFacts
<1>3. /\ Chain(order, list, next, prev) /\ k \in Nat /\ (k = 0 <=> list = Null)
      /\ \A j \in 1..k : order[j] \in allocated
  BY ListFacts
<1>4. list # Null => LastNode = order[k] /\ k \in 1..k
  BY LastNodeIsLast
<1>5. n \notin allocated
  BY <1>1 DEF Allocate
<1>6. next' \in [Nodes -> Nodes \cup {Null}] /\ prev' \in [Nodes -> Nodes \cup {Null}]
      /\ list' \in Nodes \cup {Null}
  <2>1. list # Null => LastNode \in Nodes
    BY <1>2, <1>3, <1>4
  <2> QED BY <1>1, <2>1, InvTypes
<1>7. next'[n] = Null /\ prev'[n] = IF k = 0 THEN Null ELSE order[k]
  BY <1>1, <1>3, <1>4, InvTypes
<1>8. \A j \in 1..k : next'[order[j]] = IF j = k THEN n ELSE next[order[j]]
  <2> SUFFICES ASSUME NEW j \in 1..k PROVE next'[order[j]] = IF j = k THEN n ELSE next[order[j]]
    OBVIOUS
  <2>1. order[j] \in Nodes /\ order[j] # n /\ list # Null
    BY <1>2, <1>3, <1>5
  <2>2. order[j] = LastNode <=> j = k
    BY <1>2, <1>4, <2>1 DEF Distinct
  <2> QED BY <1>1, <2>1, <2>2
<1>9. \A j \in 1..k : prev'[order[j]] = IF j = k + 1 THEN n ELSE prev[order[j]]
  <2> SUFFICES ASSUME NEW j \in 1..k PROVE prev'[order[j]] = prev[order[j]] /\ j # k + 1
    OBVIOUS
  <2>1. order[j] \in Nodes /\ order[j] # n /\ j # k + 1
    BY <1>2, <1>3, <1>5
  <2> QED BY <1>1, <2>1, InvTypes
<1>10. list' = IF k = 0 THEN n ELSE list
  BY <1>1, <1>3
<1>11. Chain(InsertAt(order, k, n), list', next', prev')
  <2>1. k \in 0..Len(order) /\ k = Len(order)
    BY <1>3
  <2> HIDE DEF k
  <2>2. LinkIn(order, k, n, list, next, prev, list', next', prev')
    BY <1>7, <1>8, <1>9, <1>10, <2>1 DEF LinkIn
  <2> QED BY <1>2, <1>3, <2>1, <2>2, ChainInsert
<1>12. k \in 0..Len(order) /\ NewStamp = IF allocated = {} THEN stamp + 1 ELSE stamp
  BY <1>3, NewStampIs
<1> HIDE DEF k
<1> QED BY <1>1, <1>6, <1>11, <1>12, InsertStep DEF k

LEMMA PrependStep ==
    ASSUME Inv, NEW i \in Iters, NEW n \in Nodes, ListPrepend(i, n)
    PROVE  Inv' /\ order' = InsertAt(order, 0, n)
<1>1. /\ order' = InsertAt(order, 0, n) /\ Point(i, n, NewStamp) /\ stamp' = NewStamp
      /\ Allocate(n) /\ UNCHANGED <<locked, alive, crashed, held>>
      /\ next' = [next EXCEPT ![n] = list]
      /\ prev' = [m \in Nodes |-> IF m = n THEN Null ELSE IF m = list THEN n ELSE prev[m]]
      /\ list' = n
  BY DEF ListPrepend, InsertNode, InsertAt
<1>2. /\ order \in Seq(Nodes) /\ Distinct(order) /\ allocated \subseteq Nodes
  BY InvFacts
<1>3. /\ Chain(order, list, next, prev) /\ Len(order) \in Nat /\ (Len(order) = 0 <=> list = Null)
      /\ \A j \in 1..Len(order) : order[j] \in allocated
      /\ list # Null => list = order[1] /\ 1 \in 1..Len(order)
  BY ListFacts
<1>4. n \notin allocated
  BY <1>1 DEF Allocate
<1>5. next' \in [Nodes -> Nodes \cup {Null}] /\ prev' \in [Nodes -> Nodes \cup {Null}]
      /\ list' \in Nodes \cup {Null}
  BY <1>1, InvTypes
<1>6. /\ next'[n] = IF 0 = Len(order) THEN Null ELSE order[0 + 1]
      /\ prev'[n] = Null
  BY <1>1, <1>3, InvTypes
<1>7. \A j \in 1..Len(order) : /\ next'[order[j]] = IF j = 0 THEN n ELSE next[order[j]]
                               /\ prev'[order[j]] = IF j = 0 + 1 THEN n ELSE prev[order[j]]
  <2> SUFFICES ASSUME NEW j \in 1..Len(order)
               PROVE  /\ next'[order[j]] = IF j = 0 THEN n ELSE next[order[j]]
                      /\ prev'[order[j]] = IF j = 0 + 1 THEN n ELSE prev[order[j]]
    OBVIOUS
  <2>1. order[j] \in Nodes /\ order[j] # n /\ j # 0 /\ list # Null
    BY <1>2, <1>3, <1>4
  <2>2. order[j] = list <=> j = 0 + 1
    BY <1>2, <1>3, <2>1 DEF Distinct
  <2> QED BY <1>1, <2>1, <2>2, InvTypes
<1>8. Chain(InsertAt(order, 0, n), list', next', prev')
  <2>1. 0 \in 0..Len(order)
    BY <1>3
  <2>2. LinkIn(order, 0, n, list, next, prev, list', next', prev')
    BY <1>1, <1>6, <1>7 DEF LinkIn
  <2> QED BY <1>2, <1>3, <2>1, <2>2, ChainInsert
<1>9. 0 \in 0..Len(order) /\ NewStamp = IF allocated = {} THEN stamp + 1 ELSE stamp
  BY <1>3, NewStampIs
<1> QED BY <1>1, <1>5, <1>8, <1>9, InsertStep

LEMMA InsertAfterStep ==
    ASSUME Inv, NEW a \in Iters, NEW i \in Iters, NEW n \in Nodes, InsertAfter(a, i, n)
    PROVE  /\ Inv'
           /\ \/ UNCHANGED <<order, data, locked, alive>>
              \/ \E k \in 1..Len(order) : order' = InsertAt(order, k, n) /\ Allocate(n)
<1> DEFINE d == iters[a].data
           k == IndexOf(d)
<1>1. d \in allocated
  BY InvFacts DEF InsertAfter, CheckIter
<1>2. k \in 1..Len(order) /\ order[k] = d /\ \A j \in 1..Len(order) : order[j] = d <=> j = k
  BY <1>1, IndexOfNode
<1>3. CASE next[d] = Null
  <2>1. UNCHANGED <<links, stamp, locked, alive, iters, held, order, lost>> /\ crashed' = TRUE
    BY <1>3 DEF InsertAfter, Crash
  <2>2. Dated'
    BY <2>1 DEF Inv, Dated, links
  <2>3. Inv'
    BY <2>1, <2>2, InvTypes, SameListStep
  <2> QED BY <2>1, <2>3 DEF links
<1>4. CASE next[d] # Null
  <2>1. /\ Allocate(n) /\ Point(i, n, stamp) /\ order' = InsertAt(order, k, n)
        /\ prev' = [prev EXCEPT ![next[d]] = n, ![n] = d]
        /\ next' = [next EXCEPT ![n] = next[d], ![d] = n]
        /\ UNCHANGED <<list, stamp, locked, alive, crashed, held>>
    BY <1>4 DEF InsertAfter, InsertNode, InsertAt
  <2>2. /\ order \in Seq(Nodes) /\ Distinct(order) /\ allocated \subseteq Nodes /\ allocated # {}
        /\ n \notin allocated /\ next[d] \in allocated
    BY <1>1, <1>4, <2>1, InvFacts DEF Allocate
  <2>3. /\ Chain(order, list, next, prev) /\ Len(order) \in Nat
        /\ \A j \in 1..Len(order) : order[j] \in allocated
        /\ next[d] = IF k = Len(order) THEN Null ELSE order[k + 1]
    BY <1>2, ListFacts
  <2> HIDE DEF k
  <2>4. k # Len(order) /\ next[d] = order[k + 1] /\ k + 1 \in 1..Len(order) /\ k # 0
        /\ k \in 0..Len(order)
    BY <1>2, <1>4, <2>3
  <2>5. \A j \in 1..Len(order) : /\ order[j] \in Nodes \ {n}
                                 /\ order[j] = next[d] <=> j = k + 1
    BY <2>2, <2>3, <2>4 DEF Distinct
  <2>6. d \in Nodes \ {n} /\ next[d] \in Nodes \ {n}
    BY <1>1, <2>2
  <2>7. /\ next' \in [Nodes -> Nodes \cup {Null}] /\ prev' \in [Nodes -> Nodes \cup {Null}]
        /\ next'[n] = next[d] /\ next'[d] = n /\ prev'[n] = d /\ prev'[next[d]] = n
        /\ \A m \in Nodes \ {n} : /\ m # d => next'[m] = next[m]
                                  /\ m # next[d] => prev'[m] = prev[m]
    <3> HIDE DEF d
    <3>1. next \in [Nodes -> Nodes \cup {Null}] /\ prev \in [Nodes -> Nodes \cup {Null}]
      BY InvTypes
    <3> QED BY <2>1, <2>6, <3>1
  <2>8. LinkIn(order, k, n, list, next, prev, list', next', prev')
    <3>1. /\ list' = (IF k = 0 THEN n ELSE list)
          /\ next'[n] = IF k = Len(order) THEN Null ELSE order[k + 1]
          /\ prev'[n] = IF k = 0 THEN Null ELSE order[k]
      BY <1>2, <2>1, <2>4, <2>7
    <3>2. \A j \in 1..Len(order) : /\ next'[order[j]] = IF j = k THEN n ELSE next[order[j]]
                                   /\ prev'[order[j]] = IF j = k + 1 THEN n ELSE prev[order[j]]
      BY <1>2, <2>5, <2>7
    <3> QED BY <3>1, <3>2 DEF LinkIn
  <2>9. Chain(InsertAt(order, k, n), list', next', prev')
    BY <2>2, <2>3, <2>4, <2>8, ChainInsert
  <2>10. list' \in Nodes \cup {Null} /\ stamp' = stamp
    BY <2>1, InvTypes
  <2>11. Inv'
    BY <2>1, <2>2, <2>4, <2>7, <2>9, <2>10, InsertStep
  <2> QED BY <1>2, <2>1, <2>11 DEF k
<1> QED BY <1>3, <1>4

LEMMA InsertBeforeStep ==
    ASSUME Inv, NEW a \in Iters, NEW i \in Iters, NEW n \in Nodes, InsertBefore(a, i, n)
    PROVE  /\ Inv'
           /\ \/ UNCHANGED <<order, data, locked, alive>>
              \/ \E k \in 1..Len(order) : order' = InsertAt(order, k, n) /\ Allocate(n)
<1> DEFINE d == iters[a].data
           k == IndexOf(d) - 1
<1>1. d \in allocated
  BY InvFacts DEF InsertBefore, CheckIter
<1>2. k + 1 \in 1..Len(order) /\ order[k + 1] = d /\ k \in Int
      /\ \A j \in 1..Len(order) : order[j] = d <=> j = k + 1
  <2>1. /\ IndexOf(d) \in 1..Len(order) /\ order[IndexOf(d)] = d
        /\ \A j \in 1..Len(order) : order[j] = d <=> j = IndexOf(d)
    BY <1>1, IndexOfNode
  <2>2. k + 1 = IndexOf(d) /\ k \in Int
    BY <2>1
  <2> HIDE DEF k
  <2> QED BY <2>1, <2>2
<1>3. CASE prev[d] = Null
  <2>1. UNCHANGED <<links, stamp, locked, alive, iters, held, order, lost>> /\ crashed' = TRUE
    BY <1>3 DEF InsertBefore, Crash
  <2>2. Dated'
    BY <2>1 DEF Inv, Dated, links
  <2>3. Inv'
    BY <2>1, <2>2, InvTypes, SameListStep
  <2> QED BY <2>1, <2>3 DEF links
<1>4. CASE prev[d] # Null
  <2>1. /\ Allocate(n) /\ Point(i, n, stamp) /\ order' = InsertAt(order, k, n)
        /\ next' = [next EXCEPT ![prev[d]] = n, ![n] = d]
        /\ prev' = [prev EXCEPT ![n] = prev[d], ![d] = n]
        /\ UNCHANGED <<list, stamp, locked, alive, crashed, held>>
    BY <1>4 DEF InsertBefore, InsertNode, InsertAt
  <2>2. /\ order \in Seq(Nodes) /\ Distinct(order) /\ allocated \subseteq Nodes /\ allocated # {}
        /\ n \notin allocated /\ prev[d] \in allocated
    BY <1>1, <1>4, <2>1, InvFacts DEF Allocate
  <2> HIDE DEF k
  <2>3. /\ Chain(order, list, next, prev) /\ Len(order) \in Nat
        /\ \A j \in 1..Len(order) : order[j] \in allocated
        /\ prev[order[k + 1]] = IF k + 1 = 1 THEN Null ELSE order[(k + 1) - 1]
    BY <1>2, ListFacts
  <2>4. prev[d] = order[k] /\ k \in 1..Len(order) /\ k # 0 /\ k # Len(order) /\ k \in 0..Len(order)
    BY <1>2, <1>4, <2>3
  <2>5. \A j \in 1..Len(order) : /\ order[j] \in Nodes \ {n}
                                 /\ order[j] = prev[d] <=> j = k
    BY <2>2, <2>3, <2>4 DEF Distinct
  <2>6. d \in Nodes \ {n} /\ prev[d] \in Nodes \ {n}
    BY <1>1, <2>2
  <2>7. /\ next' \in [Nodes -> Nodes \cup {Null}] /\ prev' \in [Nodes -> Nodes \cup {Null}]
        /\ prev'[n] = prev[d] /\ prev'[d] = n /\ next'[n] = d /\ next'[prev[d]] = n
        /\ \A m \in Nodes \ {n} : /\ m # d => prev'[m] = prev[m]
                                  /\ m # prev[d] => next'[m] = next[m]
    <3> HIDE DEF d
    <3>1. next \in [Nodes -> Nodes \cup {Null}] /\ prev \in [Nodes -> Nodes \cup {Null}]
      BY InvTypes
    <3> QED BY <2>1, <2>6, <3>1
  <2>8. LinkIn(order, k, n, list, next, prev, list', next', prev')
    <3>1. /\ list' = (IF k = 0 THEN n ELSE list)
          /\ next'[n] = IF k = Len(order) THEN Null ELSE order[k + 1]
          /\ prev'[n] = IF k = 0 THEN Null ELSE order[k]
      BY <1>2, <2>1, <2>4, <2>7
    <3>2. \A j \in 1..Len(order) : /\ next'[order[j]] = IF j = k THEN n ELSE next[order[j]]
                                   /\ prev'[order[j]] = IF j = k + 1 THEN n ELSE prev[order[j]]
      BY <1>2, <2>5, <2>7
    <3> QED BY <3>1, <3>2 DEF LinkIn
  <2>9. Chain(InsertAt(order, k, n), list', next', prev')
    BY <2>2, <2>3, <2>4, <2>8, ChainInsert
  <2>10. list' \in Nodes \cup {Null} /\ stamp' = stamp
    BY <2>1, InvTypes
  <2>11. Inv'
    BY <2>1, <2>2, <2>4, <2>7, <2>9, <2>10, InsertStep
  <2> QED BY <2>1, <2>4, <2>11
<1> QED BY <1>3, <1>4

LEMMA RemoveStep ==
    ASSUME Inv, NEW i \in Iters, Remove(i)
    PROVE  Inv' /\ \E k \in 1..Len(order) : order' = DropAt(order, k)
<1> DEFINE n == iters[i].data
           k == IndexOf(n)
<1>1. n \in allocated /\ iters[i].stamp = stamp
  BY InvFacts DEF Remove, CheckIter
<1>2. k \in 1..Len(order) /\ order[k] = n /\ \A j \in 1..Len(order) : order[j] = n <=> j = k
  BY <1>1, IndexOfNode
<1>3. /\ held' = Release(data[n]) /\ list' = IF list = n THEN next[n] ELSE list
      /\ next' = [m \in Nodes |-> IF prev[n] = m THEN next[n] ELSE next[m]]
      /\ prev' = [m \in Nodes |-> IF next[n] = m THEN prev[n] ELSE prev[m]]
      /\ allocated' = allocated \ {n} /\ iters' = [iters EXCEPT ![i].data = next[n]]
      /\ order' = DropAt(order, k) /\ Lose(i, n, allocated')
      /\ UNCHANGED <<data, stamp, locked, alive, crashed>>
  BY DEF Remove, DropNode, DropAt
<1> HIDE DEF k
<1>4. /\ order \in Seq(Nodes) /\ Distinct(order) /\ allocated = Elems(order)
      /\ allocated \subseteq Nodes /\ allocated # {} /\ list # Null
      /\ next[n] \in allocated \cup {Null} /\ prev[n] \in allocated \cup {Null} /\ n \in Nodes
      /\ \A o \in Objects : IsFiniteSet(Holders(o)) /\ held[o] = Cardinality(Holders(o))
  BY <1>1, InvFacts
<1>5. /\ Chain(order, list, next, prev) /\ Len(order) \in Nat
      /\ list = order[1] /\ 1 \in 1..Len(order)
      /\ \A j \in 1..Len(order) : /\ order[j] \in Nodes
                                  /\ next[order[j]] = IF j = Len(order) THEN Null ELSE order[j + 1]
                                  /\ prev[order[j]] = IF j = 1 THEN Null ELSE order[j - 1]
  BY <1>4, ListFacts
<1>6. list' \in Nodes \cup {Null} /\ next' \in [Nodes -> Nodes \cup {Null}]
      /\ prev' \in [Nodes -> Nodes \cup {Null}]
  <2> HIDE DEF n
  <2> QED BY <1>3, <1>4, InvTypes
<1>7. order' \in Seq(Nodes) /\ Distinct(order') /\ allocated' = Elems(order')
  <2>1. order' \in Seq(Nodes)
    BY <1>2, <1>3, <1>4, DropAtProperties
  <2>2. Distinct(DropAt(order, k)) /\ Elems(DropAt(order, k)) = Elems(order) \ {order[k]}
    BY <1>2, <1>4, DropElems
  <2> QED BY <1>2, <1>3, <1>4, <2>1, <2>2
<1>8. LinkOut(order, k, list, next, prev, list', next', prev')
  <2> HIDE DEF n
  <2>1. list' = (IF k = 1 THEN next[order[k]] ELSE list)
    BY <1>2, <1>3, <1>5
  <2>2. ASSUME NEW j \in 1..Len(order), j # k
        PROVE  /\ next'[order[j]] = IF j = k - 1 THEN next[order[k]] ELSE next[order[j]]
               /\ prev'[order[j]] = IF j = k + 1 THEN prev[order[k]] ELSE prev[order[j]]
    <3>1. order[j] \in Nodes
      BY <1>5
    <3>2. prev[n] = order[j] <=> j = k - 1
      <4>1. prev[n] = IF k = 1 THEN Null ELSE order[k - 1]
        BY <1>2, <1>5
      <4>2. k # 1 => k - 1 \in 1..Len(order)
        BY <1>2, <1>5
      <4>3. CASE k = 1
        BY <1>5, <3>1, <4>1, <4>3, NullIsNoNode
      <4>4. CASE k # 1
        BY <1>4, <4>1, <4>2, <4>4 DEF Distinct
      <4> QED BY <4>3, <4>4
    <3>3. next[n] = order[j] <=> j = k + 1
      <4>1. next[n] = IF k = Len(order) THEN Null ELSE order[k + 1]
        BY <1>2, <1>5
      <4>2. k # Len(order) => k + 1 \in 1..Len(order)
        BY <1>2, <1>5
      <4>3. CASE k = Len(order)
        BY <1>5, <3>1, <4>1, <4>3, NullIsNoNode
      <4>4. CASE k # Len(order)
        BY <1>4, <4>1, <4>2, <4>4 DEF Distinct
      <4> QED BY <4>3, <4>4
    <3> QED BY <1>2, <1>3, <3>1, <3>2, <3>3
  <2> QED BY <2>1, <2>2 DEF LinkOut
<1>9. Chain(order', list', next', prev')
  <2>1. Chain(DropAt(order, k), list', next', prev')
    BY <1>2, <1>4, <1>5, <1>8, ChainDrop
  <2> QED BY <1>3, <2>1
<1>10. /\ DOMAIN held' = Objects /\ held' = [o \in Objects |-> held'[o]]
       /\ \A o \in Objects : held'[o] = IF data[n] = o THEN held[o] - 1 ELSE held[o]
  <2>1. held \in [Objects -> Nat] /\ Null \notin Objects
    BY InvTypes, ListAssumption
  <2> HIDE DEF n
  <2>2. CASE data[n] = Null
    BY <1>3, <2>1, <2>2 DEF Release
  <2>3. CASE data[n] # Null
    BY <1>3, <2>1, <2>3 DEF Release
  <2> QED BY <2>2, <2>3
<1>11. \A o \in Objects : held'[o] = Cardinality({m \in allocated' : data'[m] = o})
  <2> SUFFICES ASSUME NEW o \in Objects
               PROVE  held'[o] = Cardinality({m \in allocated' : data'[m] = o})
    OBVIOUS
  <2>1. {m \in allocated' : data'[m] = o} = Holders(o) \ {n}
    BY <1>3 DEF Holders
  <2>2. n \in Holders(o) <=> data[n] = o
    BY <1>1 DEF Holders
  <2>3. Cardinality(Holders(o) \ {n}) =
           IF n \in Holders(o) THEN Cardinality(Holders(o)) - 1 ELSE Cardinality(Holders(o))
    BY <1>4, FS_RemoveElement
  <2> QED BY <1>4, <1>10, <2>1, <2>2, <2>3
<1>12. /\ iters' \in [Iters -> [stamp : Nat, data : Nodes \cup {Null}]]
       /\ lost' \in [Iters -> {"no", "removed", "emptied"}]
       /\ \A j \in Iters : iters'[j].stamp = iters[j].stamp
       /\ iters'[i].data = next[n]
       /\ \A j \in Iters \ {i} : iters'[j] = iters[j]
  <2> DEFINE x == next[n]
  <2>1. /\ x \in Nodes \cup {Null} /\ iters' = [iters EXCEPT ![i].data = x]
        /\ iters \in [Iters -> [stamp : Nat, data : Nodes \cup {Null}]]
    BY <1>3, <1>4, InvTypes
  <2> HIDE DEF x
  <2>2. /\ iters' \in [Iters -> [stamp : Nat, data : Nodes \cup {Null}]]
        /\ \A j \in Iters : iters'[j].stamp = iters[j].stamp
        /\ iters'[i].data = x
        /\ \A j \in Iters \ {i} : iters'[j] = iters[j]
    BY <2>1
  <2>3. lost' \in [Iters -> {"no", "removed", "emptied"}]
    BY <1>3, InvTypes DEF Lose
  <2> QED BY <2>2, <2>3 DEF x
<1>13. next[n] \in allocated' \cup {Null}
  <2>1. next[n] = IF k = Len(order) THEN Null ELSE order[k + 1]
    BY <1>2, <1>5
  <2>2. k # Len(order) => k + 1 \in 1..Len(order) /\ k + 1 # k
    BY <1>2, <1>5
  <2>3. k # Len(order) => order[k + 1] # n
    BY <1>2, <2>2
  <2> QED BY <1>3, <1>4, <2>1, <2>3
<1>14. Dated'
  <2> SUFFICES ASSUME NEW j \in Iters
               PROVE  /\ iters'[j].stamp <= stamp
                      /\ iters'[j].data # Null /\ lost'[j] = "no" =>
                            iters'[j].stamp = stamp /\ iters'[j].data \in allocated'
                      /\ lost'[j] = "emptied" => iters'[j].stamp < stamp \/ allocated' = {}
    BY <1>3 DEF Dated
  <2>1. /\ iters'[j].stamp = iters[j].stamp /\ iters[j].stamp <= stamp
        /\ iters[j].data # Null /\ lost[j] = "no" =>
              iters[j].stamp = stamp /\ iters[j].data \in allocated
        /\ lost[j] = "emptied" => iters[j].stamp < stamp
    BY <1>4, <1>12 DEF Inv, Dated
  <2>2. lost'[j] = IF iters'[j].data = Null THEN lost[j]
                   ELSE IF allocated' = {} THEN "emptied"
                   ELSE IF j # i /\ iters[j].data = n /\ lost[j] = "no" THEN "removed"
                   ELSE lost[j]
    <3> HIDE DEF n
    <3> QED BY <1>3 DEF Lose
  <2>3. CASE j = i
    BY <1>1, <1>12, <1>13, <2>1, <2>2, <2>3
  <2>4. CASE j # i
    BY <1>3, <1>12, <2>1, <2>2, <2>4
  <2> QED BY <2>3, <2>4
<1>15. /\ data' \in [Nodes -> Contained \cup {Null}]
       /\ stamp' \in Nat /\ locked' \in BOOLEAN /\ alive' \in BOOLEAN /\ crashed' \in BOOLEAN
  BY <1>3, InvTypes
<1>16. Inv'
  BY <1>6, <1>7, <1>9, <1>10, <1>11, <1>12, <1>14, <1>15, InvFromParts
<1> QED BY <1>2, <1>3, <1>16

\* The references that oobs_list_clear drops are all that there are.
LEMMA ClearStep ==
    ASSUME Inv, DoClear, locked' \in BOOLEAN, alive' \in BOOLEAN, UNCHANGED crashed
    PROVE  Inv' /\ order' = <<>>
<1>1. /\ allocated \subseteq Nodes /\ Reachable = allocated
      /\ \A o \in Objects : held[o] = Cardinality(Holders(o)) /\ held[o] \in Nat
  BY InvFacts, InvTypes
<1>2. /\ held' = [o \in Objects |-> held[o] - Cardinality({n \in Reachable : data[n] = o})]
      /\ list' = Null /\ allocated' = allocated \ Reachable /\ order' = <<>>
      /\ lost' = [j \in Iters |-> IF iters[j].data = Null THEN lost[j] ELSE "emptied"]
      /\ UNCHANGED <<next, prev, data, stamp, iters>>
  BY DEF DoClear
<1>3. allocated' = {}
  BY <1>1, <1>2
<1>4. Distinct(order') /\ Elems(order') = {} /\ order' \in Seq(Nodes) /\ Len(order') = 0
  BY <1>2 DEF Distinct, Elems
<1>5. Chain(order', list', next', prev')
  BY <1>2, <1>4 DEF Chain
<1>6. /\ DOMAIN held' = Objects /\ held' = [o \in Objects |-> held'[o]]
      /\ \A o \in Objects : held'[o] = 0
  <2>1. \A o \in Objects : held[o] - Cardinality({n \in Reachable : data[n] = o}) = 0
    <3> SUFFICES ASSUME NEW o \in Objects
                 PROVE  held[o] - Cardinality({n \in Reachable : data[n] = o}) = 0
      OBVIOUS
    <3>1. {n \in Reachable : data[n] = o} = Holders(o)
      BY <1>1 DEF Holders
    <3>2. held[o] = Cardinality(Holders(o)) /\ held[o] \in Nat
      BY <1>1
    <3>3. Cardinality({n \in Reachable : data[n] = o}) = held[o]
      BY <3>1, <3>2
    <3> QED BY <3>2, <3>3
  <2> QED BY <1>2, <2>1
<1>7. \A o \in Objects : held'[o] = Cardinality({n \in allocated' : data'[n] = o})
  <2> SUFFICES ASSUME NEW o \in Objects
               PROVE  held'[o] = Cardinality({n \in allocated' : data'[n] = o})
    OBVIOUS
  <2>1. {n \in allocated' : data'[n] = o} = {}
    BY <1>3
  <2> QED BY <1>6, <2>1, FS_EmptySet
<1>8. lost' \in [Iters -> {"no", "removed", "emptied"}]
  BY <1>2, InvTypes
<1>9. Dated'
  <2> SUFFICES ASSUME NEW j \in Iters
               PROVE  /\ iters[j].stamp <= stamp
                      /\ ~(iters[j].data # Null /\ lost'[j] = "no")
    BY <1>2, <1>3 DEF Dated
  <2>1. lost'[j] = IF iters[j].data = Null THEN lost[j] ELSE "emptied"
    BY <1>2
  <2> QED BY <2>1 DEF Inv, Dated
<1>10. /\ list' \in Nodes \cup {Null}
       /\ next' \in [Nodes -> Nodes \cup {Null}] /\ prev' \in [Nodes -> Nodes \cup {Null}]
       /\ data' \in [Nodes -> Contained \cup {Null}]
       /\ stamp' \in Nat /\ crashed' \in BOOLEAN
       /\ iters' \in [Iters -> [stamp : Nat, data : Nodes \cup {Null}]]
  BY <1>2, InvTypes
<1>11. allocated' = Elems(order')
  BY <1>3, <1>4
<1>12. Inv'
  BY <1>4, <1>5, <1>6, <1>7, <1>8, <1>9, <1>10, <1>11, InvFromParts
<1> QED BY <1>2, <1>12

LEMMA FinalizeStep ==
    ASSUME Inv, Finalize
    PROVE  Inv' /\ order' = <<>>
<1>1. /\ alive' = FALSE /\ locked' = FALSE /\ UNCHANGED crashed
      /\ IF list # Null THEN DoClear
                        ELSE UNCHANGED <<links, stamp, iters, held, order, lost>>
  BY DEF Finalize
<1>2. CASE list # Null
  BY <1>1, <1>2, ClearStep
<1>3. CASE list = Null
  <2>1. UNCHANGED <<links, stamp, iters, held, order, lost>>
    BY <1>1, <1>3
  <2>2. Dated'
    BY <2>1 DEF Inv, Dated, links
  <2>3. Inv'
    BY <1>1, <2>1, <2>2, InvTypes, SameListStep
  <2>4. order = <<>>
    BY <1>3, ListFacts, InvFacts, ElemsProperties
  <2> QED BY <2>1, <2>3, <2>4
<1> QED BY <1>2, <1>3

\* An element that holds nothing is given its object.
LEMMA SetNodeStep ==
    ASSUME Inv, NEW i \in Iters, NEW o \in Objects, SetNode(i, o)
    PROVE  /\ Inv' /\ order' = order
           /\ \E k \in 1..Len(order) :
                 data[order[k]] = Null /\ data' = [data EXCEPT ![order[k]] = o]
<1> DEFINE n == iters[i].data
<1>1. n \in allocated
  BY InvFacts DEF SetNode, CheckIter
<1>2. /\ o \in Contained /\ data[n] = Null /\ data' = [data EXCEPT ![n] = o]
      /\ held' = [held EXCEPT ![o] = @ + 1]
      /\ UNCHANGED <<list, next, prev, allocated, stamp, locked, alive, crashed, iters,
                     order, lost>>
  BY DEF SetNode, CheckTypes
<1>3. IndexOf(n) \in 1..Len(order) /\ order[IndexOf(n)] = n
  BY <1>1, IndexOfNode
<1> HIDE DEF n
<1>4. /\ allocated \subseteq Nodes /\ n \in Nodes
      /\ \A p \in Objects : IsFiniteSet(Holders(p)) /\ held[p] = Cardinality(Holders(p))
  BY <1>1, InvFacts
<1>5. /\ data' \in [Nodes -> Contained \cup {Null}] /\ data'[n] = o
      /\ \A m \in Nodes \ {n} : data'[m] = data[m]
  BY <1>2, <1>4, InvTypes
<1>6. /\ held' = [p \in Objects |-> held'[p]] /\ DOMAIN held' = Objects
      /\ \A p \in Objects : held'[p] = IF p = o THEN held[p] + 1 ELSE held[p]
  BY <1>2, InvTypes
<1>7. \A p \in Objects : held'[p] = Cardinality({m \in allocated' : data'[m] = p})
  <2> SUFFICES ASSUME NEW p \in Objects
               PROVE  held'[p] = Cardinality({m \in allocated' : data'[m] = p})
    OBVIOUS
  <2>1. n \notin Holders(p)
    BY <1>2, ListAssumption DEF Holders
  <2>2. CASE p = o
    <3>1. {m \in allocated' : data'[m] = p} = Holders(p) \cup {n}
      BY <1>1, <1>2, <1>4, <1>5, <2>2 DEF Holders
    <3>2. Cardinality(Holders(p) \cup {n}) = Cardinality(Holders(p)) + 1
      BY <1>4, <2>1, FS_AddElement
    <3> QED BY <1>4, <1>6, <2>2, <3>1, <3>2
  <2>3. CASE p # o
    <3>1. {m \in allocated' : data'[m] = p} = Holders(p)
      BY <1>2, <1>4, <1>5, <2>1, <2>3 DEF Holders
    <3> QED BY <1>4, <1>6, <2>3, <3>1
  <2> QED BY <2>2, <2>3
<1>8. Dated'
  BY <1>2 DEF Inv, Dated
<1>9. /\ order' \in Seq(Nodes) /\ Distinct(order') /\ allocated' = Elems(order')
      /\ Chain(order', list', next', prev')
  BY <1>2 DEF Inv, TypeOK, Linked
<1>10. /\ list' \in Nodes \cup {Null}
       /\ next' \in [Nodes -> Nodes \cup {Null}] /\ prev' \in [Nodes -> Nodes \cup {Null}]
       /\ stamp' \in Nat /\ locked' \in BOOLEAN /\ alive' \in BOOLEAN /\ crashed' \in BOOLEAN
       /\ iters' \in [Iters -> [stamp : Nat, data : Nodes \cup {Null}]]
       /\ lost' \in [Iters -> {"no", "removed", "emptied"}]
  BY <1>2, InvTypes
<1>11. Inv'
  BY <1>5, <1>6, <1>7, <1>8, <1>9, <1>10, InvFromParts
<1> QED BY <1>2, <1>3, <1>11

\* An iterator at NULL ends the program and leaves everything else as it was.
LEMMA SetStep ==
    ASSUME Inv, NEW i \in Iters, NEW o \in Objects, Set(i, o)
    PROVE  Inv' /\ (SetNode(i, o) \/ UNCHANGED <<order, data, locked, alive>>)
<1>1. CASE SetNode(i, o)
  BY <1>1, SetNodeStep
<1>2. CASE Crash
  <2>1. crashed' = TRUE /\ UNCHANGED <<links, stamp, locked, alive, iters, held, order, lost>>
    BY <1>2 DEF Crash
  <2>2. Inv'
    BY <2>1 DEF Inv, TypeOK, Linked, Counted, Dated, Chain, links
  <2> QED BY <2>1, <2>2 DEF links
<1> QED BY <1>1, <1>2 DEF Set

LEMMA IteratorStep ==
    ASSUME Inv, NEW i \in Iters, GetIterFirst(i) \/ IterNext(i)
    PROVE  Inv' /\ UNCHANGED <<order, data, locked, alive>>
<1>1. CASE GetIterFirst(i)
  <2>1. /\ Point(i, list, stamp)
        /\ UNCHANGED <<links, stamp, locked, alive, crashed, held, order>>
    BY <1>1 DEF GetIterFirst
  <2>2. list \in allocated \cup {Null}
    BY InvFacts
  <2>3. Inv'
    BY <2>1, <2>2, PointStep
  <2> QED BY <2>1, <2>3 DEF links
<1>2. CASE IterNext(i)
  <2> DEFINE n == next[iters[i].data]
  <2>1. /\ Point(i, n, stamp)
        /\ UNCHANGED <<links, stamp, locked, alive, crashed, held, order>>
    BY <1>2 DEF IterNext, CheckIter
  <2>2. n \in allocated \cup {Null}
    BY <1>2, InvFacts DEF IterNext, CheckIter
  <2> HIDE DEF n
  <2>3. Inv'
    BY <2>1, <2>2, PointStep
  <2> QED BY <2>1, <2>3 DEF links
<1> QED BY <1>1, <1>2

LEMMA SetLockedStep ==
    ASSUME Inv, SetLocked
    PROVE  Inv' /\ UNCHANGED <<order, data, alive>>
<1>1. locked' = ~locked /\ UNCHANGED <<links, stamp, alive, crashed, iters, held, order, lost>>
  BY DEF SetLocked
<1>2. Dated'
  BY <1>1 DEF Inv, Dated, links
<1>3. locked' \in BOOLEAN
  BY <1>1
<1>4. /\ UNCHANGED <<links, held, order, stamp>> /\ alive' \in BOOLEAN /\ crashed' \in BOOLEAN
      /\ iters' \in [Iters -> [stamp : Nat, data : Nodes \cup {Null}]]
      /\ lost' \in [Iters -> {"no", "removed", "emptied"}]
  BY <1>1, InvTypes
<1>5. Inv'
  BY <1>2, <1>3, <1>4, SameListStep
<1> QED BY <1>1, <1>5 DEF links

LEMMA SameStep == ASSUME Inv, UNCHANGED vars PROVE Inv'
<1>1. TypeOK'
  BY DEF vars, links, Inv, TypeOK
<1>2. Linked' /\ Counted' /\ Dated'
  BY DEF vars, links, Inv, Linked, Counted, Dated
<1> QED BY <1>1, <1>2 DEF Inv

\* The invariant is kept by every call.
LEMMA NextInv == ASSUME Inv, [Next]_vars PROVE Inv'
<1>1. ASSUME NEW i \in Iters, NEW n \in Nodes, ListAppend(i, n) \/ ListPrepend(i, n)
      PROVE  Inv'
  BY <1>1, AppendStep, PrependStep
<1>2. ASSUME NEW a \in Iters, NEW i \in Iters, NEW n \in Nodes,
             InsertAfter(a, i, n) \/ InsertBefore(a, i, n)
      PROVE  Inv'
  BY <1>2, InsertAfterStep, InsertBeforeStep
<1>3. ASSUME NEW i \in Iters, Remove(i) \/ GetIterFirst(i) \/ IterNext(i)
      PROVE  Inv'
  BY <1>3, RemoveStep, IteratorStep
<1>4. ASSUME NEW i \in Iters, NEW o \in Objects, Set(i, o)
      PROVE  Inv'
  BY <1>4, SetStep
<1>5. CASE Clear
  <2>1. DoClear /\ UNCHANGED <<locked, alive, crashed>>
    BY <1>5 DEF Clear
  <2>2. locked' \in BOOLEAN /\ alive' \in BOOLEAN
    BY <2>1, InvTypes
  <2> QED BY <2>1, <2>2, ClearStep
<1>6. CASE SetLocked
  BY <1>6, SetLockedStep
<1>7. CASE Finalize
  BY <1>7, FinalizeStep
<1>8. CASE Over
  BY <1>8, SameStep DEF Over
<1>9. CASE UNCHANGED vars
  BY <1>9, SameStep
<1> QED BY <1>1, <1>2, <1>3, <1>4, <1>5, <1>6, <1>7, <1>8, <1>9 DEF Next

\* One list in both directions, references counted right and iterators that the
\* stamp can tell apart: so it is after every call of the functions of oobs-list.c.
THEOREM Invariance == Spec => []Inv
<1>1. Init => Inv
  BY InitInv
<1>2. Inv /\ [Next]_vars => Inv'
  BY NextInv
<1> QED BY <1>1, <1>2, PTL DEF Spec

-----------------------------------------------------------------------------
(* The properties *)

\* Every variable of an OobsList keeps to the values that its fields can have.
THEOREM TypeCorrect == Spec => []TypeOK
<1>1. Inv => TypeOK
  BY DEF Inv
<1> QED BY <1>1, Invariance, PTL

\* However elements are inserted and removed, the links written by hand in
\* oobs_list_insert_after and oobs_list_insert_before and those of GLib make up
\* one list, of all the nodes that are not free, in both directions.
THEOREM LinksOfOneList == Spec => []WellLinked
<1>1. Inv => WellLinked
  <2> SUFFICES ASSUME Inv PROVE WellLinked
    OBVIOUS
  <2>1. order \in Seq(Nodes) /\ Distinct(order) /\ allocated = Elems(order)
    BY InvFacts
  <2>2. Cardinality(allocated) = Len(order)
    BY <2>1, ElemsFinite
  <2>3. Chain(order, list, next, prev)
    BY DEF Inv, Linked
  <2> QED BY <2>1, <2>2, <2>3 DEF WellLinked, Chain, Elems
<1> QED BY <1>1, Invariance, PTL

\* oobs_list_set takes one reference to the object, and removing the element,
\* clearing the list and finalizing it drop that one, once.
THEOREM ReferencesCounted == Spec => []ElementsHeld
<1>1. Inv => ElementsHeld
  BY DEF Inv, Counted, ElementsHeld
<1> QED BY <1>1, Invariance, PTL

\* check_iter accepts the iterators to elements still in the list, and refuses
\* those from before the list was last emptied.
THEOREM IteratorsSound == Spec => []IterSound
<1>1. Inv => IterSound
  <2> SUFFICES ASSUME Inv, NEW i \in Iters
               PROVE  /\ iters[i].data # Null /\ lost[i] = "no" => CheckIter(i)
                      /\ lost[i] = "emptied" => ~CheckIter(i)
    BY DEF IterSound
  <2>1. Reachable = allocated
    BY InvFacts
  <2>2. iters[i].stamp \in Nat /\ stamp \in Nat
    BY InvTypes
  <2> QED BY <2>1, <2>2 DEF CheckIter, Inv, Dated
<1> QED BY <1>1, Invariance, PTL

-----------------------------------------------------------------------------
(* The list is a sequence of elements *)

\* What the nodes of q hold when d says what each node holds.
Contents(q, d) == [k \in 1..Len(q) |-> d[q[k]]]

Values == Contained \cup {Null}

LEMMA SameSequence ==
    ASSUME NEW S, NEW a \in Seq(S), NEW b \in Seq(S), Len(a) = Len(b),
           \A k \in 1..Len(a) : a[k] = b[k]
    PROVE  a = b
  OBVIOUS

LEMMA ContentsProperties ==
    ASSUME NEW q \in Seq(Nodes), NEW d \in [Nodes -> Values]
    PROVE  /\ Contents(q, d) \in Seq(Values) /\ Len(Contents(q, d)) = Len(q)
           /\ \A k \in 1..Len(q) : Contents(q, d)[k] = d[q[k]]
<1>1. \A k \in 1..Len(q) : d[q[k]] \in Values
  OBVIOUS
<1> HIDE DEF Values
<1> QED BY <1>1 DEF Contents

\* A node inserted into the list is an element that holds nothing.
LEMMA ContentsInsert ==
    ASSUME NEW q \in Seq(Nodes), NEW d \in [Nodes -> Values], NEW k \in 0..Len(q),
           NEW n \in Nodes, n \notin Elems(q), NEW e, e = [d EXCEPT ![n] = Null]
    PROVE  Contents(InsertAt(q, k, n), e) = InsertAt(Contents(q, d), k, Null)
<1> DEFINE r == InsertAt(q, k, n)
           c == Contents(q, d)
           a == Contents(r, e)
           b == InsertAt(c, k, Null)
<1>1. /\ r \in Seq(Nodes) /\ Len(r) = Len(q) + 1 /\ r[k + 1] = n
      /\ \A i \in 1..k : r[i] = q[i]
      /\ \A i \in (k + 1)..Len(q) : r[i + 1] = q[i]
      /\ Len(q) \in Nat
  <2>1. r \in Seq(Nodes)
    BY InsertAtProperties
  <2>2. Len(r) = Len(q) + 1
    BY InsertAtProperties
  <2>3. r[k + 1] = n
    BY InsertAtProperties
  <2>4. \A i \in 1..k : r[i] = q[i]
    BY InsertAtProperties
  <2>5. \A i \in (k + 1)..Len(q) : r[i + 1] = q[i]
    BY InsertAtProperties
  <2>6. Len(q) \in Nat
    OBVIOUS
  <2> HIDE DEF r
  <2> QED BY <2>1, <2>2, <2>3, <2>4, <2>5, <2>6
<1> HIDE DEF r
<1>2. /\ c \in Seq(Values) /\ Len(c) = Len(q)
      /\ \A i \in 1..Len(q) : c[i] = d[q[i]]
  BY ContentsProperties
<1> HIDE DEF c
<1>3. e \in [Nodes -> Values] /\ e[n] = Null /\ \A m \in Nodes \ {n} : e[m] = d[m]
  BY DEF Values
<1>4. /\ a \in Seq(Values) /\ Len(a) = Len(r)
      /\ \A i \in 1..Len(r) : a[i] = e[r[i]]
  BY <1>1, <1>3, ContentsProperties
<1> HIDE DEF a
<1>5. /\ b \in Seq(Values) /\ Len(b) = Len(q) + 1 /\ b[k + 1] = Null
      /\ \A i \in 1..k : b[i] = c[i]
      /\ \A i \in (k + 1)..Len(q) : b[i + 1] = c[i]
  <2>1. Null \in Values /\ k \in 0..Len(c)
    BY <1>2 DEF Values
  <2>2. b \in Seq(Values)
    BY <1>2, <2>1, InsertAtProperties
  <2>3. Len(b) = Len(q) + 1
    BY <1>2, <2>1, InsertAtProperties
  <2>4. b[k + 1] = Null
    BY <1>2, <2>1, InsertAtProperties
  <2>5. \A i \in 1..k : b[i] = c[i]
    BY <1>2, <2>1, InsertAtProperties
  <2>6. \A i \in (k + 1)..Len(c) : b[i + 1] = c[i]
    BY <1>2, <2>1, InsertAtProperties
  <2> HIDE DEF b
  <2> QED BY <1>2, <2>2, <2>3, <2>4, <2>5, <2>6
<1> HIDE DEF b
<1>6. \A i \in 1..Len(q) : q[i] \in Nodes \ {n}
  BY DEF Elems
<1>7. ASSUME NEW i \in 1..Len(a) PROVE a[i] = b[i]
  <2>1. i \in 1..Len(r) /\ a[i] = e[r[i]]
    BY <1>4
  <2>2. CASE i <= k
    <3>1. i \in 1..k /\ i \in 1..Len(q)
      BY <1>1, <2>1, <2>2
    <3>2. r[i] = q[i] /\ b[i] = c[i] /\ c[i] = d[q[i]]
      BY <1>1, <1>2, <1>5, <3>1
    <3> QED BY <1>3, <1>6, <2>1, <3>1, <3>2
  <2>3. CASE i = k + 1
    BY <1>1, <1>3, <1>5, <2>1, <2>3
  <2>4. CASE i > k + 1
    <3>1. i - 1 \in (k + 1)..Len(q) /\ i - 1 \in 1..Len(q) /\ (i - 1) + 1 = i
      BY <1>1, <2>1, <2>4
    <3>2. r[i] = q[i - 1] /\ b[i] = c[i - 1] /\ c[i - 1] = d[q[i - 1]]
      BY <1>1, <1>2, <1>5, <3>1
    <3> QED BY <1>3, <1>6, <2>1, <3>1, <3>2
  <2> QED BY <1>1, <2>1, <2>2, <2>3, <2>4
<1>8. Len(a) = Len(b)
  BY <1>1, <1>4, <1>5
<1>9. a = b
  BY <1>4, <1>5, <1>7, <1>8, SameSequence
<1> QED BY <1>9 DEF a, b, c, r

LEMMA ContentsDrop ==
    ASSUME NEW q \in Seq(Nodes), NEW d \in [Nodes -> Values], NEW k \in 1..Len(q)
    PROVE  Contents(DropAt(q, k), d) = DropAt(Contents(q, d), k)
<1> DEFINE r == DropAt(q, k)
           c == Contents(q, d)
           a == Contents(r, d)
           b == DropAt(c, k)
<1>1. /\ r \in Seq(Nodes) /\ Len(r) = Len(q) - 1
      /\ \A i \in 1..(k - 1) : r[i] = q[i]
      /\ \A i \in (k + 1)..Len(q) : r[i - 1] = q[i]
      /\ Len(q) \in Nat
  BY DropAtProperties
<1> HIDE DEF r
<1>2. /\ c \in Seq(Values) /\ Len(c) = Len(q)
      /\ \A i \in 1..Len(q) : c[i] = d[q[i]]
  BY ContentsProperties
<1> HIDE DEF c
<1>3. /\ a \in Seq(Values) /\ Len(a) = Len(r)
      /\ \A i \in 1..Len(r) : a[i] = d[r[i]]
  BY <1>1, ContentsProperties
<1> HIDE DEF a
<1>4. /\ b \in Seq(Values) /\ Len(b) = Len(c) - 1
      /\ \A i \in 1..(k - 1) : b[i] = c[i]
      /\ \A i \in (k + 1)..Len(c) : b[i - 1] = c[i]
  <2>1. k \in 1..Len(c)
    BY <1>2
  <2> QED BY <1>2, <2>1, DropAtProperties
<1> HIDE DEF b
<1>5. ASSUME NEW i \in 1..Len(a) PROVE a[i] = b[i]
  <2>1. i \in 1..Len(r) /\ a[i] = d[r[i]]
    BY <1>3
  <2>2. CASE i < k
    <3>1. i \in 1..(k - 1) /\ i \in 1..Len(q)
      BY <1>1, <2>1, <2>2
    <3> QED BY <1>1, <1>2, <1>4, <2>1, <3>1
  <2>3. CASE i >= k
    <3>1. i + 1 \in (k + 1)..Len(q) /\ i + 1 \in 1..Len(q) /\ (i + 1) - 1 = i
      BY <1>1, <2>1, <2>3
    <3>2. r[i] = q[i + 1] /\ b[i] = c[i + 1] /\ c[i + 1] = d[q[i + 1]]
      BY <1>1, <1>2, <1>4, <3>1
    <3> QED BY <2>1, <3>2
  <2> QED BY <1>1, <2>1, <2>2, <2>3
<1>6. Len(a) = Len(b)
  BY <1>1, <1>2, <1>3, <1>4
<1>7. a = b
  BY <1>3, <1>4, <1>5, <1>6, SameSequence
<1> QED BY <1>7 DEF a, b, c, r

LEMMA ContentsOfNone == \A d : Contents(<<>>, d) = <<>>
  BY DEF Contents

\* Every call changes the sequence as one of its operations does, or not at all.
\* oobs_list_insert_after and oobs_list_insert_before, oobs_list_append and
\* oobs_list_prepend insert an element that holds nothing in one place,
\* oobs_list_remove takes out one, oobs_list_set fills one, and none of them
\* touches a list that is locked.
THEOREM ListIsSequence == Spec => IsSequence
<1> DEFINE c == Contents(order, data)
<1>1. Init => Elements!Init
  <2> SUFFICES ASSUME Init PROVE Elements!Init
    OBVIOUS
  <2>1. order = <<>> /\ locked = FALSE /\ alive = TRUE
    BY DEF Init
  <2>2. c = <<>>
    BY <2>1, ContentsOfNone
  <2> QED BY <2>1, <2>2 DEF Elements!Init, Contents
<1>2. ASSUME Inv, [Next]_vars
      PROVE  [Elements!Next]_(Elements!vars)
  <2>1. /\ order \in Seq(Nodes) /\ data \in [Nodes -> Values] /\ Distinct(order)
        /\ allocated = Elems(order) /\ Len(order) \in Nat
    BY <1>2, InvFacts, InvTypes DEF Values
  <2>2. Len(c) = Len(order) /\ \A k \in 1..Len(order) : c[k] = data[order[k]]
    BY <2>1, ContentsProperties
  <2> DEFINE same == UNCHANGED <<order, data, locked, alive>>
             into(k, n) == /\ order' = InsertAt(order, k, n) /\ Allocate(n)
                           /\ alive /\ ~locked /\ UNCHANGED <<locked, alive>>
  <2>3. ASSUME same PROVE [Elements!Next]_(Elements!vars)
    BY <2>3 DEF Elements!vars
  <2>4. ASSUME NEW k \in 0..Len(order), NEW n \in Nodes, into(k, n)
        PROVE  Elements!Next
    <3>1. Contents(order', data') = InsertAt(c, k, Null)
      BY <2>1, <2>4, ContentsInsert DEF Allocate
    <3>2. Elements!Insert(k)
      BY <2>4, <3>1 DEF Elements!Insert, Elements!Change, Contents, InsertAt
    <3>3. k \in 0..Len(c)
      BY <2>2
    <3> QED BY <3>2, <3>3 DEF Elements!Next, Contents
  <2>5. ASSUME NEW i \in Iters, NEW n \in Nodes, ListAppend(i, n) \/ ListPrepend(i, n)
        PROVE  Elements!Next
    <3>1. alive /\ ~locked /\ UNCHANGED <<locked, alive>> /\ Allocate(n)
      BY <2>5 DEF ListAppend, ListPrepend, MayChange
    <3>2. 0 \in 0..Len(order) /\ Len(order) \in 0..Len(order)
      BY <2>1
    <3>3. CASE ListAppend(i, n)
      BY <1>2, <2>4, <3>1, <3>2, <3>3, AppendStep
    <3>4. CASE ListPrepend(i, n)
      BY <1>2, <2>4, <3>1, <3>2, <3>4, PrependStep
    <3> QED BY <2>5, <3>3, <3>4
  <2>6. ASSUME NEW a \in Iters, NEW i \in Iters, NEW n \in Nodes,
               InsertAfter(a, i, n) \/ InsertBefore(a, i, n)
        PROVE  [Elements!Next]_(Elements!vars)
    <3>1. alive /\ ~locked /\ UNCHANGED <<locked, alive>>
      BY <2>6 DEF InsertAfter, InsertBefore, MayChange, Crash
    <3>2. same \/ \E k \in 1..Len(order) : order' = InsertAt(order, k, n) /\ Allocate(n)
      BY <1>2, <2>6, InsertAfterStep, InsertBeforeStep
    <3>3. CASE same
      BY <2>3, <3>3
    <3>4. ASSUME NEW k \in 1..Len(order), order' = InsertAt(order, k, n) /\ Allocate(n)
          PROVE  Elements!Next
      <4>1. k \in 0..Len(order)
        BY <2>1
      <4> QED BY <2>4, <3>1, <3>4, <4>1
    <3> QED BY <3>2, <3>3, <3>4
  <2>7. ASSUME NEW i \in Iters, Remove(i)
        PROVE  Elements!Next
    <3>1. alive /\ ~locked /\ UNCHANGED <<locked, alive, data>>
      BY <2>7 DEF Remove, MayChange
    <3>2. PICK k \in 1..Len(order) : order' = DropAt(order, k)
      BY <1>2, <2>7, RemoveStep
    <3>3. Contents(order', data') = DropAt(c, k)
      BY <2>1, <3>1, <3>2, ContentsDrop
    <3>4. Elements!Remove(k)
      BY <3>1, <3>3 DEF Elements!Remove, Elements!Change, Contents, DropAt
    <3>5. k \in 1..Len(c)
      BY <2>2
    <3> QED BY <3>4, <3>5 DEF Elements!Next, Contents
  <2>8. ASSUME NEW i \in Iters, NEW o \in Objects, Set(i, o)
        PROVE  [Elements!Next]_(Elements!vars)
    <3>0. SetNode(i, o) \/ same
      BY <1>2, <2>8, SetStep
    <3> SUFFICES ASSUME SetNode(i, o) PROVE Elements!Next
      BY <2>3, <3>0
    <3>1. alive /\ ~locked /\ UNCHANGED <<locked, alive>> /\ o \in Contained
      BY <2>8 DEF Set, SetNode, MayChange, CheckTypes
    <3>2. order' = order
      BY <1>2, SetNodeStep
    <3>3. PICK k \in 1..Len(order) : data[order[k]] = Null /\ data' = [data EXCEPT ![order[k]] = o]
      BY <1>2, SetNodeStep
    <3>4. Contents(order', data') = [c EXCEPT ![k] = o]
      <4>1. \A j \in 1..Len(order) : order[j] \in Nodes /\ (order[j] = order[k] <=> j = k)
        BY <2>1 DEF Distinct
      <4>2. \A j \in 1..Len(order) : data'[order[j]] = IF j = k THEN o ELSE data[order[j]]
        BY <2>1, <3>3, <4>1
      <4> DEFINE new == [j \in 1..Len(order) |-> IF j = k THEN o ELSE data[order[j]]]
      <4>3. Contents(order, data') = new
        BY <4>2 DEF Contents
      <4>4. [c EXCEPT ![k] = o] = new
        BY DEF Contents
      <4> QED BY <3>2, <4>3, <4>4
    <3>5. c[k] = Null
      BY <2>2, <3>3
    <3>6. Elements!Set(k, o)
      BY <3>1, <3>4, <3>5 DEF Elements!Set, Elements!Change, Contents
    <3>7. k \in 1..Len(c)
      BY <2>2
    <3> QED BY <3>1, <3>6, <3>7 DEF Elements!Next, Contents
  <2>9. CASE Clear
    <3>1. alive /\ ~locked /\ DoClear /\ UNCHANGED <<locked, alive, crashed>>
      BY <2>9 DEF Clear, MayChange
    <3>2. order' = <<>>
      BY <3>1 DEF DoClear
    <3>3. Contents(order', data') = <<>>
      BY <3>2, ContentsOfNone
    <3> QED BY <3>1, <3>3 DEF Elements!Next, Elements!Clear, Elements!Change, Contents
  <2>10. CASE SetLocked
    <3>1. alive /\ locked' = ~locked /\ UNCHANGED <<order, data, alive>>
      BY <2>10 DEF SetLocked, links
    <3> QED BY <3>1 DEF Elements!Next, Elements!SetLocked
  <2>11. CASE Finalize
    <3>1. alive /\ alive' = FALSE /\ locked' = FALSE
      BY <2>11 DEF Finalize
    <3>2. order' = <<>>
      BY <1>2, <2>11, FinalizeStep
    <3>3. Contents(order', data') = <<>>
      BY <3>2, ContentsOfNone
    <3> QED BY <3>1, <3>3 DEF Elements!Next, Elements!Finalize, Contents
  <2>12. ASSUME NEW i \in Iters, GetIterFirst(i) \/ IterNext(i)
         PROVE  [Elements!Next]_(Elements!vars)
    <3>1. same
      BY <1>2, <2>12, IteratorStep
    <3> QED BY <2>3, <3>1
  <2>13. CASE Over \/ UNCHANGED vars
    <3>1. same
      BY <2>13 DEF Over, vars, links
    <3> QED BY <2>3, <3>1
  <2> QED BY <1>2, <2>5, <2>6, <2>7, <2>8, <2>9, <2>10, <2>11, <2>12, <2>13 DEF Next
<1> QED BY <1>1, <1>2, Invariance, PTL DEF Spec, IsSequence, Elements!Spec
=============================================================================
