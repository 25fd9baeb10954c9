-------------------------- MODULE OobsObjectProofs --------------------------
(***************************************************************************)
(* Proofs about OobsObject, for any number of calls, requests and nested   *)
(* main loops.  Inv is inductive: StackOK ties the frames of the code that *)
(* runs to the calls they serve.  There is a lemma for each way of pushing *)
(* or popping a frame, then one per action, then the theorems.  What       *)
(* OobsObject promises its callers is at the end: that it implements       *)
(* AsyncRequests, that oobs_object_process_requests waits for the requests *)
(* it found, and that oobs_object_ensure_update returns only on an updated *)
(* object.                                                                 *)
(***************************************************************************)
EXTENDS OobsObject, FiniteSetTheorems, FunctionTheorems, TLAPS

-----------------------------------------------------------------------------
(* Stacks *)

\* A pushed frame is the first of a stack otherwise one place down.
LEMMA PushProperties ==
    ASSUME NEW f \in Frames, NEW s \in Seq(Frames)
    PROVE  /\ Push(f, s) \in Seq(Frames)
           /\ Push(f, s) # <<>>
           /\ Len(Push(f, s)) = Len(s) + 1 /\ Len(s) \in Nat
           /\ Push(f, s)[1] = f
           /\ \A i \in 2..(Len(s) + 1) : i - 1 \in 1..Len(s) /\ Push(f, s)[i] = s[i - 1]
  BY DEF Push

\* What is left of a stack when its running frame is popped.
LEMMA TailProperties ==
    ASSUME NEW s \in Seq(Frames), s # <<>>
    PROVE  /\ Tail(s) \in Seq(Frames)
           /\ Len(s) \in Nat \ {0}
           /\ Len(Tail(s)) = Len(s) - 1
           /\ Head(s) = s[1] /\ Head(s) \in Frames
           /\ \A i \in 1..(Len(s) - 1) : Tail(s)[i] = s[i + 1]
  OBVIOUS

\* The frames that the actions push are frames.
LEMMA FrameTypes ==
    /\ \A pc \in Pcs, c \in Calls \cup {NoCall} :
          Frame(pc, c) \in Frames /\ Frame(pc, c).pc = pc /\ Frame(pc, c).call = c
    /\ \A c \in Calls \cup {NoCall}, w \in SUBSET Calls :
          /\ WalkFrame(c, w) \in Frames
          /\ WalkFrame(c, w).pc = "walk" /\ WalkFrame(c, w).call = c
    /\ Handler \in Frames /\ Handler.pc = "handler"
  BY DEF Frame, WalkFrame, Handler, Frames, Pcs, NoCall

\* A set of calls that is not empty has a latest one.
LEMMA GreatestCall ==
    ASSUME NEW T \in SUBSET Calls, T # {}
    PROVE  \E d \in T : \A e \in T : e <= d
<1> DEFINE R == {p \in Nat \X Nat : p[1] < p[2]}
           U == {MaxCalls - d : d \in T}
<1>1. IsWellFoundedOn(R, Nat)
  BY NatLessThanWellFounded DEF OpToRel
<1>2. U \subseteq Nat /\ U # {}
  <2>1. \A d \in T : MaxCalls - d \in Nat
    BY ConstantsAssumption DEF Calls
  <2> QED BY <2>1
<1>3. PICK x \in U : \A y \in U : ~ (<<y, x>> \in R)
  <2> HIDE DEF R, U
  <2> QED BY <1>1, <1>2, WFMin
<1>4. PICK d \in T : x = MaxCalls - d
  BY <1>3
<1>5. ASSUME NEW e \in T PROVE e <= d
  <2>1. ~(<<MaxCalls - e, x>> \in R)
    BY <1>3
  <2> QED BY <2>1, <1>4, ConstantsAssumption DEF Calls
<1> QED BY <1>5

\* The node that g_list_foreach saves as next is in the list, or is its end.
LEMMA NodeBelowProperties ==
    ASSUME NEW c \in Int, pending_calls \in SUBSET Calls
    PROVE  /\ NodeBelow(c) \in pending_calls \cup {NoCall}
           /\ c \in Calls => NodeBelow(c) # c
<1> DEFINE lower == {d \in pending_calls : d < c}
<1>1. CASE lower = {}
  BY <1>1, ConstantsAssumption DEF NodeBelow, NoCall, Calls
<1>2. CASE lower # {}
  <2>1. \E d \in lower : \A e \in lower : e <= d
    BY <1>2, GreatestCall
  <2>2. NodeBelow(c) \in lower
    BY <1>2, <2>1 DEF NodeBelow
  <2> QED BY <2>2, ConstantsAssumption DEF Calls
<1> QED BY <1>1, <1>2

\* A pushed frame is one more signal emission if, and only if, it is a handler.
LEMMA EmissionsPush ==
    ASSUME NEW f \in Frames, NEW s \in Seq(Frames)
    PROVE  /\ IsFiniteSet(Emissions(s))
           /\ Cardinality(Emissions(s)) \in Nat
           /\ Cardinality(Emissions(Push(f, s))) =
                Cardinality(Emissions(s)) + (IF f.pc = "handler" THEN 1 ELSE 0)
<1> DEFINE S == Emissions(s)
           T == {i + 1 : i \in S}
           g == [i \in S |-> i + 1]
<1>1. S \subseteq 1..Len(s) /\ IsFiniteSet(S)
  BY FS_Interval, FS_Subset DEF Emissions
<1>2. Cardinality(S) \in Nat
  BY <1>1, FS_CardinalityType
<1>3. g \in Bijection(S, T)
  <2>1. g \in [S -> T]
    OBVIOUS
  <2>2. \A a, b \in S : g[a] = g[b] => a = b
    BY <1>1
  <2>3. \A t \in T : \E a \in S : g[a] = t
    OBVIOUS
  <2> QED BY <2>1, <2>2, <2>3, Fun_IsBij
<1>4. IsFiniteSet(T) /\ Cardinality(T) = Cardinality(S)
  BY <1>1, <1>3, FS_Bijection DEF ExistsBijection
<1>5. T = Emissions(Push(f, s)) \ {1}
  <2> DEFINE p == Push(f, s)
  <2>1. Len(p) = Len(s) + 1 /\ \A i \in 2..(Len(s) + 1) : p[i] = s[i - 1]
    BY PushProperties
  <2>2. ASSUME NEW i \in Emissions(p) \ {1} PROVE i \in T
    <3>1. i \in 2..(Len(s) + 1) /\ p[i].pc = "handler"
      BY <2>1, <2>2 DEF Emissions
    <3>2. i - 1 \in 1..Len(s) /\ s[i - 1].pc = "handler"
      BY <2>1, <3>1
    <3>3. i - 1 \in S
      BY <3>2 DEF Emissions
    <3> QED BY <3>1, <3>3
  <2>3. ASSUME NEW i \in S PROVE i + 1 \in Emissions(p) \ {1}
    <3>1. i \in 1..Len(s) /\ s[i].pc = "handler"
      BY <2>3 DEF Emissions
    <3>2. i + 1 \in 2..(Len(s) + 1) /\ (i + 1) - 1 = i
      BY <3>1
    <3>3. p[i + 1] = s[i]
      BY <2>1, <3>2
    <3> QED BY <2>1, <3>1, <3>2, <3>3 DEF Emissions
  <2> QED BY <2>2, <2>3
<1>6. CASE f.pc = "handler"
  <2>1. 1 \in Emissions(Push(f, s))
    <3>1. Push(f, s)[1].pc = "handler" /\ Len(Push(f, s)) = Len(s) + 1
      BY <1>6, PushProperties
    <3>2. Len(s) \in Nat
      OBVIOUS
    <3> QED BY <3>1, <3>2 DEF Emissions
  <2>2. Emissions(Push(f, s)) = T \cup {1} /\ 1 \notin T
    <3> HIDE DEF T
    <3> QED BY <1>5, <2>1
  <2> HIDE DEF T
  <2> QED BY <1>1, <1>2, <1>4, <1>6, <2>2, FS_AddElement
<1>7. CASE f.pc # "handler"
  <2>1. 1 \notin Emissions(Push(f, s))
    BY <1>7, PushProperties DEF Emissions
  <2>2. Emissions(Push(f, s)) = T
    <3> HIDE DEF T
    <3> QED BY <1>5, <2>1
  <2> HIDE DEF T
  <2> QED BY <1>1, <1>2, <1>4, <1>7, <2>2
<1> QED BY <1>1, <1>2, <1>6, <1>7

\* A popped frame is one emission fewer if, and only if, it is a handler.
LEMMA EmissionsTail ==
    ASSUME NEW s \in Seq(Frames), s # <<>>
    PROVE  Cardinality(Emissions(Tail(s))) =
             Cardinality(Emissions(s)) - (IF Head(s).pc = "handler" THEN 1 ELSE 0)
<1>1. s = Push(Head(s), Tail(s)) /\ Head(s) \in Frames /\ Tail(s) \in Seq(Frames)
  BY DEF Push
<1>2. Cardinality(Emissions(Tail(s))) \in Nat
  BY <1>1, EmissionsPush
<1>3. Cardinality(Emissions(s)) =
        Cardinality(Emissions(Tail(s))) + (IF Head(s).pc = "handler" THEN 1 ELSE 0)
  BY <1>1, EmissionsPush
<1> QED BY <1>2, <1>3

-----------------------------------------------------------------------------
(* What pushing and popping frames does to the conditions on the stack *)

CallbackPcs == {"finish", "release", "func"}

\* A frame that does not belong to async_message_cb.
LEMMA CallbackPush ==
    ASSUME NEW s \in Seq(Frames), NEW st, CallbackFrames(s, st),
           NEW f \in Frames, f.pc \notin CallbackPcs
    PROVE  CallbackFrames(Push(f, s), st)
<1> DEFINE p == Push(f, s)
<1>1. /\ Len(p) = Len(s) + 1 /\ Len(s) \in Nat
      /\ p[1] = f
      /\ \A i \in 2..(Len(s) + 1) : i - 1 \in 1..Len(s) /\ p[i] = s[i - 1]
  BY PushProperties
<1> HIDE DEF p
<1>2. ASSUME NEW i \in 1..Len(p)
      PROVE  /\ p[i].pc = "finish" => p[i].call \in Calls /\ st[p[i].call] = "handled"
             /\ p[i].pc = "release" => p[i].call \in Calls /\ st[p[i].call] = "notified"
             /\ p[i].pc = "func" => i < Len(p) /\ p[i + 1].pc = "release"
  <2>1. CASE i = 1
    BY <1>1, <2>1 DEF CallbackPcs
  <2>2. CASE i \in 2..(Len(s) + 1)
    <3>1. i - 1 \in 1..Len(s) /\ p[i] = s[i - 1]
      BY <1>1, <2>2
    <3>2. /\ p[i].pc = "finish" => p[i].call \in Calls /\ st[p[i].call] = "handled"
          /\ p[i].pc = "release" => p[i].call \in Calls /\ st[p[i].call] = "notified"
          /\ p[i].pc = "func" => i - 1 < Len(s) /\ s[(i - 1) + 1].pc = "release"
      BY <3>1 DEF CallbackFrames
    <3>3. i - 1 < Len(s) => p[i + 1] = s[(i - 1) + 1]
      BY <1>1, <2>2
    <3> QED BY <1>1, <3>1, <3>2, <3>3
  <2> QED BY <1>1, <2>1, <2>2
<1>3. ASSUME NEW i \in 1..Len(p), NEW j \in 1..Len(p),
             p[i].pc \in {"finish", "release"}, p[j].pc \in {"finish", "release"},
             p[i].call = p[j].call
      PROVE  i = j
  <2>1. i \in 2..(Len(s) + 1) /\ j \in 2..(Len(s) + 1)
    BY <1>1, <1>3 DEF CallbackPcs
  <2>2. \A a, b \in 1..Len(s) :
           s[a].pc \in {"finish", "release"} /\ s[b].pc \in {"finish", "release"}
           /\ s[a].call = s[b].call
           => a = b
    BY DEF CallbackFrames
  <2>3. i - 1 \in 1..Len(s) /\ j - 1 \in 1..Len(s) /\ p[i] = s[i - 1] /\ p[j] = s[j - 1]
    BY <1>1, <2>1
  <2>4. i - 1 = j - 1
    BY <1>3, <2>2, <2>3
  <2> QED BY <1>1, <2>1, <2>4
<1>4. CallbackFrames(p, st)
  BY <1>2, <1>3 DEF CallbackFrames
<1> QED BY <1>4 DEF p

\* Popping a frame disturbs no activation below it.
LEMMA CallbackTail ==
    ASSUME NEW s \in Seq(Frames), s # <<>>, NEW st, CallbackFrames(s, st)
    PROVE  CallbackFrames(Tail(s), st)
  BY TailProperties DEF CallbackFrames

\* A call that no activation serves may change its status.
LEMMA CallbackStatus ==
    ASSUME NEW s \in Seq(Frames), NEW st \in [Calls -> Statuses],
           CallbackFrames(s, st),
           NEW c \in Calls, NEW v \in Statuses, st[c] \notin {"handled", "notified"}
    PROVE  CallbackFrames(s, [st EXCEPT ![c] = v])
  BY DEF CallbackFrames

\* async_message_cb starts on a call whose reply has arrived.
LEMMA CallbackStart ==
    ASSUME NEW s \in Seq(Frames), NEW st \in [Calls -> Statuses],
           CallbackFrames(s, st), NEW c \in Calls, st[c] = "replied"
    PROVE  CallbackFrames(Push(Frame("finish", c), s), [st EXCEPT ![c] = "handled"])
<1> DEFINE p == Push(Frame("finish", c), s)
           u == [st EXCEPT ![c] = "handled"]
<1>1. /\ Len(p) = Len(s) + 1 /\ Len(s) \in Nat
      /\ p[1].pc = "finish" /\ p[1].call = c
      /\ \A i \in 2..(Len(s) + 1) : i - 1 \in 1..Len(s) /\ p[i] = s[i - 1]
  <2> DEFINE f == Frame("finish", c)
  <2>1. f \in Frames /\ f.pc = "finish" /\ f.call = c
    BY FrameTypes DEF Pcs
  <2>2. p = Push(f, s)
    OBVIOUS
  <2> HIDE DEF f, p
  <2>3. /\ Len(p) = Len(s) + 1 /\ p[1] = f
        /\ \A i \in 2..(Len(s) + 1) : p[i] = s[i - 1]
    BY <2>1, <2>2, PushProperties
  <2>4. Len(s) \in Nat
    OBVIOUS
  <2> QED BY <2>1, <2>3, <2>4
<1>2. /\ u[c] = "handled"
      /\ \A d \in Calls : st[d] \in {"handled", "notified"} => d # c /\ u[d] = st[d]
  OBVIOUS
<1> HIDE DEF p, u
<1>3. ASSUME NEW i \in 1..Len(p)
      PROVE  /\ p[i].pc = "finish" => p[i].call \in Calls /\ u[p[i].call] = "handled"
             /\ p[i].pc = "release" => p[i].call \in Calls /\ u[p[i].call] = "notified"
             /\ p[i].pc = "func" => i < Len(p) /\ p[i + 1].pc = "release"
  <2>1. CASE i = 1
    BY <1>1, <1>2, <2>1
  <2>2. CASE i \in 2..(Len(s) + 1)
    <3>1. i - 1 \in 1..Len(s) /\ p[i] = s[i - 1]
      BY <1>1, <2>2
    <3>2. /\ p[i].pc = "finish" => p[i].call \in Calls /\ st[p[i].call] = "handled"
          /\ p[i].pc = "release" => p[i].call \in Calls /\ st[p[i].call] = "notified"
          /\ p[i].pc = "func" => i - 1 < Len(s) /\ s[(i - 1) + 1].pc = "release"
      BY <3>1 DEF CallbackFrames
    <3>3. i - 1 < Len(s) => i < Len(p) /\ p[i + 1] = s[(i - 1) + 1]
      BY <1>1, <2>2
    <3> QED BY <1>2, <3>2, <3>3
  <2> QED BY <1>1, <2>1, <2>2
<1>4. ASSUME NEW i \in 1..Len(p), NEW j \in 1..Len(p),
             p[i].pc \in {"finish", "release"}, p[j].pc \in {"finish", "release"},
             p[i].call = p[j].call
      PROVE  i = j
  <2>1. \A a \in 1..Len(s) : s[a].pc \in {"finish", "release"} => s[a].call # c
    BY <1>2 DEF CallbackFrames
  <2>2. \A a, b \in 1..Len(s) :
           s[a].pc \in {"finish", "release"} /\ s[b].pc \in {"finish", "release"}
           /\ s[a].call = s[b].call
           => a = b
    BY DEF CallbackFrames
  <2>3. CASE i = 1 \/ j = 1
    BY <1>1, <1>4, <2>1, <2>3
  <2>4. CASE i \in 2..(Len(s) + 1) /\ j \in 2..(Len(s) + 1)
    <3>1. i - 1 \in 1..Len(s) /\ j - 1 \in 1..Len(s) /\ p[i] = s[i - 1] /\ p[j] = s[j - 1]
      BY <1>1, <2>4
    <3>2. i - 1 = j - 1
      BY <1>4, <2>2, <3>1
    <3> QED BY <1>1, <2>4, <3>2
  <2> QED BY <1>1, <2>3, <2>4
<1>5. CallbackFrames(p, u)
  BY <1>3, <1>4 DEF CallbackFrames
<1> QED BY <1>5 DEF p, u

\* async_message_cb calls func, its own activation waiting below it.
LEMMA CallbackFinish ==
    ASSUME NEW s \in Seq(Frames), s # <<>>, NEW st \in [Calls -> Statuses],
           CallbackFrames(s, st), Head(s).pc = "finish"
    PROVE  CallbackFrames(
             Push(Frame("func", Head(s).call), Push(Frame("release", Head(s).call), Tail(s))),
             [st EXCEPT ![Head(s).call] = "notified"])
<1> DEFINE c == Head(s).call
           q == Push(Frame("release", c), Tail(s))
           p == Push(Frame("func", c), q)
           u == [st EXCEPT ![c] = "notified"]
<1>1. /\ Head(s) = s[1] /\ Tail(s) \in Seq(Frames) /\ Len(s) \in Nat \ {0}
      /\ Len(Tail(s)) = Len(s) - 1
      /\ \A i \in 1..(Len(s) - 1) : Tail(s)[i] = s[i + 1]
  BY TailProperties
<1>2. c \in Calls /\ st[c] = "handled"
  BY <1>1 DEF CallbackFrames
<1>3. /\ Frame("release", c) \in Frames /\ Frame("func", c) \in Frames
      /\ Frame("release", c).pc = "release" /\ Frame("release", c).call = c
      /\ Frame("func", c).pc = "func"
  BY <1>2, FrameTypes DEF Pcs
<1>4. /\ q \in Seq(Frames) /\ Len(q) = Len(s)
      /\ q[1].pc = "release" /\ q[1].call = c
      /\ \A i \in 2..Len(s) : q[i] = s[i]
  <2> DEFINE f == Frame("release", c)
             t == Tail(s)
  <2>1. f \in Frames /\ f.pc = "release" /\ f.call = c
    BY <1>3
  <2>2. t \in Seq(Frames) /\ Len(t) = Len(s) - 1
        /\ \A i \in 1..(Len(s) - 1) : t[i] = s[i + 1]
    BY <1>1
  <2> HIDE DEF f, t
  <2>3. /\ Push(f, t) \in Seq(Frames) /\ Len(Push(f, t)) = Len(t) + 1
        /\ Push(f, t)[1] = f
        /\ \A i \in 2..(Len(t) + 1) : Push(f, t)[i] = t[i - 1]
    BY <2>1, <2>2, PushProperties
  <2>4. q = Push(f, t)
    BY DEF f, t
  <2> HIDE DEF q, c
  <2>5. ASSUME NEW i \in 2..Len(s) PROVE q[i] = s[i]
    <3>1. i - 1 \in 1..(Len(s) - 1) /\ (i - 1) + 1 = i /\ i \in 2..(Len(t) + 1)
      BY <1>1, <2>2
    <3> QED BY <2>2, <2>3, <2>4, <3>1
  <2> QED BY <1>1, <2>1, <2>2, <2>3, <2>4, <2>5
<1>5. /\ Len(p) = Len(s) + 1
      /\ p[1].pc = "func" /\ p[2].pc = "release" /\ p[2].call = c
      /\ \A i \in 3..(Len(s) + 1) : i - 1 \in 2..Len(s) /\ p[i] = s[i - 1]
  <2> DEFINE f == Frame("func", c)
  <2>1. f \in Frames /\ f.pc = "func"
    BY <1>3
  <2>2. p = Push(f, q)
    OBVIOUS
  <2> HIDE DEF f, q, p, c
  <2>3. /\ Len(p) = Len(q) + 1 /\ p[1] = f
        /\ \A i \in 2..(Len(q) + 1) : p[i] = q[i - 1]
    BY <1>4, <2>1, <2>2, PushProperties
  <2>4. p[2] = q[1]
    BY <1>1, <1>4, <2>3
  <2>5. ASSUME NEW i \in 3..(Len(s) + 1)
        PROVE  i - 1 \in 2..Len(s) /\ p[i] = s[i - 1]
    BY <1>1, <1>4, <2>3
  <2> QED BY <1>4, <2>1, <2>3, <2>4, <2>5
<1>6. /\ \A i \in 2..Len(s) : s[i].pc \in {"finish", "release"} => s[i].call # c
      /\ u[c] = "notified" /\ \A d \in Calls : d # c => u[d] = st[d]
  BY <1>1, <1>2 DEF CallbackFrames
<1> HIDE DEF p, q, u, c
<1>7. ASSUME NEW i \in 1..Len(p)
      PROVE  /\ p[i].pc = "finish" => p[i].call \in Calls /\ u[p[i].call] = "handled"
             /\ p[i].pc = "release" => p[i].call \in Calls /\ u[p[i].call] = "notified"
             /\ p[i].pc = "func" => i < Len(p) /\ p[i + 1].pc = "release"
  <2>1. CASE i \in {1, 2}
    BY <1>1, <1>2, <1>5, <1>6, <2>1
  <2>2. CASE i \in 3..(Len(s) + 1)
    BY <1>1, <1>5, <1>6, <2>2 DEF CallbackFrames
  <2> QED BY <1>1, <1>5, <1>7, <2>1, <2>2
<1>8. ASSUME NEW i \in 1..Len(p), NEW j \in 1..Len(p),
             p[i].pc \in {"finish", "release"}, p[j].pc \in {"finish", "release"},
             p[i].call = p[j].call
      PROVE  i = j
  <2>1. i # 1 /\ j # 1
    BY <1>5, <1>8
  <2>2. CASE i = 2 \/ j = 2
    BY <1>1, <1>5, <1>6, <1>8, <2>1, <2>2
  <2>3. \A a, b \in 1..Len(s) :
           s[a].pc \in {"finish", "release"} /\ s[b].pc \in {"finish", "release"}
           /\ s[a].call = s[b].call
           => a = b
    BY DEF CallbackFrames
  <2>4. CASE i \in 3..(Len(s) + 1) /\ j \in 3..(Len(s) + 1)
    <3>1. i - 1 \in 1..Len(s) /\ j - 1 \in 1..Len(s) /\ p[i] = s[i - 1] /\ p[j] = s[j - 1]
      BY <1>1, <1>5, <2>4
    <3>2. i - 1 = j - 1
      BY <1>8, <2>3, <3>1
    <3> QED BY <1>1, <2>4, <3>2
  <2> QED BY <1>1, <1>5, <2>1, <2>2, <2>4
<1>9. CallbackFrames(p, u)
  BY <1>7, <1>8 DEF CallbackFrames
<1> QED BY <1>9 DEF p, q, u, c

\* async_message_cb ends.
LEMMA CallbackRelease ==
    ASSUME NEW s \in Seq(Frames), s # <<>>, NEW st \in [Calls -> Statuses],
           CallbackFrames(s, st), Head(s).pc = "release"
    PROVE  CallbackFrames(Tail(s), [st EXCEPT ![Head(s).call] = "done"])
<1> DEFINE c == Head(s).call
           t == Tail(s)
           u == [st EXCEPT ![c] = "done"]
<1>1. /\ Head(s) = s[1] /\ Len(s) \in Nat \ {0} /\ Len(t) = Len(s) - 1
      /\ \A i \in 1..Len(t) : i + 1 \in 2..Len(s) /\ t[i] = s[i + 1]
  BY TailProperties
<1>2. \A i \in 2..Len(s) : s[i].pc \in {"finish", "release"} => s[i].call # c
  BY <1>1 DEF CallbackFrames
<1>3. \A d \in Calls : d # c => u[d] = st[d]
  OBVIOUS
<1> HIDE DEF c, t, u
<1>4. ASSUME NEW i \in 1..Len(t)
      PROVE  /\ t[i].pc = "finish" => t[i].call \in Calls /\ u[t[i].call] = "handled"
             /\ t[i].pc = "release" => t[i].call \in Calls /\ u[t[i].call] = "notified"
             /\ t[i].pc = "func" => i < Len(t) /\ t[i + 1].pc = "release"
  <2>1. i + 1 \in 1..Len(s) /\ i + 1 \in 2..Len(s) /\ t[i] = s[i + 1]
    BY <1>1
  <2>2. /\ t[i].pc = "finish" => t[i].call \in Calls /\ st[t[i].call] = "handled"
        /\ t[i].pc = "release" => t[i].call \in Calls /\ st[t[i].call] = "notified"
        /\ t[i].pc = "func" => i + 1 < Len(s) /\ s[(i + 1) + 1].pc = "release"
    BY <2>1 DEF CallbackFrames
  <2>3. t[i].pc \in {"finish", "release"} => t[i].call # c
    BY <1>2, <2>1
  <2>4. i + 1 < Len(s) => i < Len(t) /\ t[i + 1] = s[(i + 1) + 1]
    BY <1>1
  <2> QED BY <1>3, <2>2, <2>3, <2>4
<1>5. ASSUME NEW i \in 1..Len(t), NEW j \in 1..Len(t),
             t[i].pc \in {"finish", "release"}, t[j].pc \in {"finish", "release"},
             t[i].call = t[j].call
      PROVE  i = j
  <2>1. i + 1 \in 1..Len(s) /\ j + 1 \in 1..Len(s) /\ t[i] = s[i + 1] /\ t[j] = s[j + 1]
    BY <1>1
  <2>2. i + 1 = j + 1
    BY <1>5, <2>1 DEF CallbackFrames
  <2> QED BY <2>2
<1>6. CallbackFrames(t, u)
  BY <1>4, <1>5 DEF CallbackFrames
<1> QED BY <1>6 DEF c, t, u

-----------------------------------------------------------------------------
(* The inductive invariant *)

StackOK(s, st) ==
    /\ s \in Seq(Frames)
    /\ CallbackFrames(s, st)

Inv ==
    /\ TypeOK
    /\ StackOK(stack, status)
    /\ online => Connected
    /\ RefCount
    /\ PendingExact
    /\ RequestCount
    /\ NoStaleIdle

\* Sets of calls are finite.
LEMMA FiniteCalls ==
    ASSUME NEW S \in SUBSET Calls
    PROVE  IsFiniteSet(S) /\ Cardinality(S) \in Nat
<1>1. IsFiniteSet(Calls)
  BY ConstantsAssumption, FS_Interval DEF Calls
<1> QED BY <1>1, FS_Subset, FS_CardinalityType

\* Frames that serve no call and own nothing but, for a handler, a reference.
LEMMA StackPush ==
    ASSUME NEW s, NEW st, StackOK(s, st),
           NEW f \in Frames, f.pc \in {"handler", "ensured", "return"}
    PROVE  StackOK(Push(f, s), st)
<1>1. Push(f, s) \in Seq(Frames)
  BY PushProperties DEF StackOK
<1>2. CallbackFrames(Push(f, s), st)
  BY CallbackPush DEF StackOK, CallbackPcs
<1> QED BY <1>1, <1>2 DEF StackOK

\* Popping a frame.
LEMMA StackTail ==
    ASSUME NEW s, NEW st, StackOK(s, st), s # <<>>
    PROVE  StackOK(Tail(s), st)
  BY TailProperties, CallbackTail DEF StackOK

\* A signal emission.
LEMMA EmitStep ==
    ASSUME NEW s, NEW st, StackOK(s, st)
    PROVE  /\ StackOK(Push(Handler, s), st)
           /\ Cardinality(Emissions(Push(Handler, s))) = Cardinality(Emissions(s)) + 1
           /\ Cardinality(Emissions(s)) \in Nat
<1>1. Handler \in Frames /\ Handler.pc = "handler"
  BY FrameTypes
<1>2. s \in Seq(Frames)
  BY DEF StackOK
<1> QED BY <1>1, <1>2, StackPush, EmissionsPush

\* Pushing a frame that is not a signal emission holds no reference.
LEMMA QuietPush ==
    ASSUME NEW s \in Seq(Frames), NEW f \in Frames, f.pc # "handler"
    PROVE  Cardinality(Emissions(Push(f, s))) = Cardinality(Emissions(s))
  BY EmissionsPush

\* What g_object_unref leaves, given that the holders are one fewer.
LEMMA UnrefStep ==
    ASSUME TypeOK, RefCount, NoStaleIdle, refs > 0, Unref,
           app_ref' \in BOOLEAN, stack' \in Seq(Frames),
           refs' = (IF app_ref' THEN 1 ELSE 0) + Cardinality(Emissions(stack)')
                     + Cardinality(Holders')
    PROVE  /\ refs' \in Nat /\ alive' \in BOOLEAN /\ idle' \in Nat
           /\ RefCount' /\ NoStaleIdle'
           /\ refs' # 0 => pending_calls' = pending_calls
           /\ refs' = 0 => pending_calls' = {} /\ Holders' = {} /\ ~app_ref'
                             /\ Emissions(stack)' = {}
<1>1. alive /\ alive \in BOOLEAN /\ refs \in Nat /\ idle \in Nat /\ idle <= 1
  BY DEF TypeOK, RefCount, NoStaleIdle
<1>2. refs' = refs - 1 /\ refs' \in Nat
  BY <1>1 DEF Unref
<1>3. /\ IsFiniteSet(Holders') /\ Cardinality(Holders') \in Nat
      /\ IsFiniteSet(Emissions(stack')) /\ Cardinality(Emissions(stack')) \in Nat
  <2>1. Holders' \in SUBSET Calls
    BY DEF Holders
  <2>2. Handler \in Frames
    BY FrameTypes
  <2> QED BY <2>1, <2>2, FiniteCalls, EmissionsPush
<1>4. Emissions(stack)' = Emissions(stack')
  BY DEF Emissions
<1>5. CASE refs = 1
  <2>1. refs' = 0 /\ ~alive' /\ pending_calls' = {} /\ idle' = IF idle > 0 THEN idle - 1 ELSE 0
    BY <1>2, <1>5 DEF Unref, Finalize
  <2>2. Cardinality(Holders') = 0 /\ Cardinality(Emissions(stack')) = 0 /\ ~app_ref'
    BY <1>3, <1>4, <2>1
  <2>3. Holders' = {} /\ Emissions(stack') = {}
    BY <1>3, <2>2, FS_EmptySet
  <2>4. idle' = 0
    BY <1>1, <2>1
  <2>5. RefCount'
    BY <1>4, <2>1 DEF RefCount
  <2>6. NoStaleIdle'
    BY <2>4 DEF NoStaleIdle
  <2>7. refs' \in Nat /\ alive' = FALSE /\ idle' \in Nat
    BY <1>2, <1>5, <2>4 DEF Unref, Finalize
  <2> QED BY <1>4, <2>1, <2>2, <2>3, <2>5, <2>6, <2>7
<1>6. CASE refs # 1
  <2>1. refs' > 0 /\ alive' = alive /\ pending_calls' = pending_calls /\ idle' = idle
    BY <1>1, <1>2, <1>6 DEF Unref
  <2>2. RefCount'
    BY <1>1, <1>4, <2>1 DEF RefCount
  <2>3. NoStaleIdle'
    BY <1>1, <2>1 DEF NoStaleIdle
  <2>4. refs' # 0
    BY <1>2, <2>1
  <2>5. alive' \in BOOLEAN /\ idle' \in Nat
    BY <1>1, <2>1
  <2> QED BY <1>2, <2>1, <2>2, <2>3, <2>4, <2>5
<1> QED BY <1>5, <1>6

\* oobs_object_init and oobs_object_constructor.
LEMMA InitInv == Init => Inv
<1> SUFFICES ASSUME Init PROVE Inv
  OBVIOUS
<1>1. Holders = {} /\ Outstanding = {} /\ Emissions(stack) = {}
  BY DEF Init, Holders, Outstanding, Emissions
<1>2. TypeOK
  <2>1. /\ status \in [Calls -> Statuses] /\ kind \in [Calls -> {"update", "commit"}]
        /\ reply \in [Calls -> {"ok", "error"}]
    BY DEF Init, Statuses
  <2>2. stack \in Seq(Frames) /\ pending_calls \in SUBSET Calls
    BY DEF Init
  <2>3. /\ online \in BOOLEAN /\ alive \in BOOLEAN /\ app_ref \in BOOLEAN
        /\ updated \in BOOLEAN /\ derailed \in BOOLEAN
    BY ConstantsAssumption DEF Init
  <2> QED BY <2>1, <2>2, <2>3 DEF Init, TypeOK
<1>3. StackOK(stack, status)
  BY DEF Init, StackOK, CallbackFrames
<1>4. RefCount /\ RequestCount
  <2>1. Cardinality(Holders) = 0 /\ Cardinality(Outstanding) = 0
        /\ Cardinality(Emissions(stack)) = 0
    BY <1>1, FS_EmptySet
  <2>2. refs = 1 /\ app_ref /\ alive /\ update_requests = 0 /\ failed = 0
    BY DEF Init
  <2> QED BY <2>1, <2>2 DEF RefCount, RequestCount
<1>5. PendingExact /\ NoStaleIdle /\ (online => Connected)
  BY DEF Init, PendingExact, NoStaleIdle
<1> QED BY <1>2, <1>3, <1>4, <1>5 DEF Inv

\* The call that run_message_async makes.
LEMMA SentCounts ==
    ASSUME TypeOK, NEW c \in Calls, status[c] = "unsent",
           NEW v \in {"sent", "stuck"}, status' = [status EXCEPT ![c] = v]
    PROVE  Cardinality(Holders') = Cardinality(Holders) + 1
<1>1. Holders' = Holders \cup {c} /\ c \notin Holders /\ Holders \in SUBSET Calls
  BY DEF TypeOK, Holders
<1> QED BY <1>1, FiniteCalls, FS_AddElement

\* run_message_async, for an update or for a commit.
LEMMA StepRunMessage ==
    ASSUME Inv, alive, NEW c \in Calls, NEW k \in {"update", "commit"},
           RunMessageAsync(c, k),
           update_requests' \in Nat, failed' \in Nat, RequestCount'
    PROVE  Inv'
<1> USE DEF Inv
<1>1. status[c] = "unsent"
  BY DEF RunMessageAsync, IsNext
<1>2. UNCHANGED <<online, alive, app_ref, updated, idle, stack, derailed, reply>>
  BY DEF RunMessageAsync
<1>3. NoStaleIdle'
  BY <1>2 DEF NoStaleIdle
<1>4. CASE Connected
  <2> DEFINE v == IF online THEN "sent" ELSE "stuck"
  <2>1. /\ status' = [status EXCEPT ![c] = v] /\ refs' = refs + 1
        /\ pending_calls' = pending_calls \cup {c} /\ kind' = [kind EXCEPT ![c] = k]
    BY <1>4 DEF RunMessageAsync
  <2>7. v \in {"sent", "stuck"}
    OBVIOUS
  <2> HIDE DEF v
  <2>2. TypeOK'
    BY <1>2, <2>1, <2>7 DEF TypeOK, Statuses
  <2>3. PendingExact'
    BY <1>1, <2>1, <2>7 DEF PendingExact, TypeOK
  <2>4. CallbackFrames(stack', status')
    BY <1>1, <1>2, <2>1, <2>7, CallbackStatus DEF StackOK, TypeOK, Statuses
  <2>5. StackOK(stack, status)'
    BY <1>2, <2>1, <2>4 DEF StackOK
  <2>6. RefCount'
    <3>1. Cardinality(Holders') = Cardinality(Holders) + 1
      BY <1>1, <2>1, <2>7, SentCounts
    <3>2. Cardinality(Holders) \in Nat /\ refs \in Nat
      BY FiniteCalls DEF Holders, TypeOK
    <3>3. Emissions(stack)' = Emissions(stack) /\ Cardinality(Emissions(stack)) \in Nat
      BY <1>2, EmitStep
    <3> QED BY <1>2, <2>1, <3>1, <3>2, <3>3 DEF RefCount
  <2> QED BY <1>2, <1>3, <2>2, <2>3, <2>5, <2>6
<1>5. CASE ~Connected
  <2>1. /\ status' = [status EXCEPT ![c] = "dropped"] /\ refs' = refs
        /\ pending_calls' = pending_calls /\ kind' = [kind EXCEPT ![c] = k]
    BY <1>5 DEF RunMessageAsync
  <2>2. TypeOK'
    BY <1>2, <2>1 DEF TypeOK, Statuses
  <2>3. PendingExact'
    BY <1>1, <2>1 DEF PendingExact, TypeOK
  <2>4. CallbackFrames(stack', status')
    BY <1>1, <1>2, <2>1, CallbackStatus DEF StackOK, TypeOK, Statuses
  <2>5. StackOK(stack, status)'
    BY <1>2, <2>1, <2>4 DEF StackOK
  <2>6. RefCount'
    <3>1. Holders' = Holders
      BY <1>1, <2>1 DEF Holders, TypeOK
    <3> QED BY <1>2, <2>1, <3>1 DEF RefCount, Emissions
  <2> QED BY <1>2, <1>3, <2>2, <2>3, <2>5, <2>6
<1> QED BY <1>4, <1>5

\* The reply of a call that is pending is handled on top of the frames "below".
LEMMA StepHandleReply ==
    ASSUME Inv, NEW c \in Calls, status[c] = "replied", NEW below,
           StackOK(below, status),
           Cardinality(Emissions(below)) = Cardinality(Emissions(stack)),
           HandleReply(c, below)
    PROVE  Inv'
<1> DEFINE f == Frame("finish", c)
           n == Push(f, below)
<1>1. /\ status' = [status EXCEPT ![c] = "handled"]
      /\ UNCHANGED <<online, alive, app_ref, pending_calls, kind, reply, idle, derailed>>
  BY DEF HandleReply
<1>2. f \in Frames /\ f.pc = "finish" /\ f.call = c
  BY FrameTypes DEF Pcs
<1>3. below \in Seq(Frames) /\ n \in Seq(Frames)
  BY <1>2, PushProperties DEF StackOK
<1>4. StackOK(n, status')
  <2>1. CallbackFrames(n, status')
    BY <1>1, CallbackStart DEF Inv, TypeOK, StackOK
  <2> QED BY <1>3, <2>1 DEF StackOK
<1>5. Cardinality(Emissions(n)) = Cardinality(Emissions(stack))
  <2> HIDE DEF f
  <2> QED BY <1>2, <1>3, QuietPush
<1>6. Holders' = Holders /\ Cardinality(Holders) \in Nat
  BY <1>1, FiniteCalls DEF Holders, Inv, TypeOK
<1>7. alive /\ refs \in Nat /\ refs > 0
  <2>1. c \in Holders
    BY DEF Holders
  <2>2. Cardinality(Holders) # 0
    BY <2>1, FiniteCalls, FS_EmptySet DEF Holders
  <2>3. Cardinality(Emissions(stack)) \in Nat /\ refs \in Nat
    BY EmitStep DEF Inv, TypeOK
  <2> QED BY <1>6, <2>2, <2>3 DEF Inv, RefCount
<1>8. /\ reply[c] = "ok" => refs' = refs + 1 /\ stack' = Push(Handler, n)
      /\ reply[c] # "ok" => refs' = refs /\ stack' = n
  BY DEF HandleReply, Emit
<1>9. /\ StackOK(stack, status)' /\ refs' \in Nat
      /\ refs' - refs = Cardinality(Emissions(stack)') - Cardinality(Emissions(stack))
      /\ Cardinality(Emissions(stack)') \in Nat /\ Cardinality(Emissions(stack)) \in Nat
  <2> HIDE DEF n
  <2>1. /\ StackOK(Push(Handler, n), status')
        /\ Cardinality(Emissions(Push(Handler, n))) = Cardinality(Emissions(n)) + 1
        /\ Cardinality(Emissions(n)) \in Nat
    BY <1>4, EmitStep
  <2>2. CASE reply[c] = "ok"
    BY <1>1, <1>5, <1>7, <1>8, <2>1, <2>2
  <2>3. CASE reply[c] # "ok"
    BY <1>1, <1>4, <1>5, <1>7, <1>8, <2>1, <2>3
  <2> QED BY <2>2, <2>3
<1>10. RefCount'
  <2>1. refs = (IF app_ref THEN 1 ELSE 0) + Cardinality(Emissions(stack)) + Cardinality(Holders)
    BY DEF Inv, RefCount
  <2>2. refs' = (IF app_ref THEN 1 ELSE 0) + Cardinality(Emissions(stack)') + Cardinality(Holders)
    BY <1>6, <1>7, <1>9, <2>1
  <2>3. refs' > 0 /\ alive'
    BY <1>1, <1>7, <1>8
  <2> QED BY <1>1, <1>6, <2>2, <2>3 DEF RefCount
<1>11. RequestCount' /\ update_requests' \in Nat /\ failed' \in Nat /\ updated' \in BOOLEAN
  <2>1. /\ Outstanding \in SUBSET Calls /\ Cardinality(Outstanding) \in Nat
        /\ IsFiniteSet(Outstanding)
    BY FiniteCalls DEF Outstanding
  <2>2. /\ update_requests \in Nat /\ failed \in Nat /\ updated \in BOOLEAN
        /\ update_requests = Cardinality(Outstanding) + failed
        /\ reply[c] \in {"ok", "error"}
    BY DEF Inv, TypeOK, RequestCount
  <2>3. CASE kind[c] = "update"
    <3>1. Outstanding' = Outstanding \ {c} /\ c \in Outstanding
      BY <1>1, <2>3 DEF Outstanding, Inv, TypeOK
    <3>2. /\ Cardinality(Outstanding') = Cardinality(Outstanding) - 1
          /\ Cardinality(Outstanding') \in Nat
      <4> DEFINE T == Outstanding
      <4> HIDE DEF T
      <4>1. IsFiniteSet(T) /\ c \in T /\ Outstanding' = T \ {c}
        BY <2>1, <3>1 DEF T
      <4>2. Cardinality(T \ {c}) = Cardinality(T) - 1 /\ IsFiniteSet(T \ {c})
        BY <4>1, FS_RemoveElement
      <4>3. Cardinality(T \ {c}) \in Nat
        BY <4>2, FS_CardinalityType
      <4> QED BY <4>1, <4>2, <4>3 DEF T
    <3>3. CASE reply[c] = "ok"
      <4>1. update_requests' = update_requests - 1 /\ failed' = failed /\ updated' = TRUE
        BY <2>1, <2>2, <2>3, <3>2, <3>3 DEF HandleReply, Decrement
      <4> QED BY <2>1, <2>2, <3>2, <4>1 DEF RequestCount
    <3>4. CASE reply[c] # "ok"
      <4>1. update_requests' = update_requests /\ failed' = failed + 1 /\ updated' = updated
        BY <2>3, <3>4 DEF HandleReply
      <4> QED BY <2>1, <2>2, <3>2, <4>1 DEF RequestCount
    <3> QED BY <3>3, <3>4
  <2>4. CASE kind[c] # "update"
    <3>1. Outstanding' = Outstanding
      BY <1>1, <2>4 DEF Outstanding, Inv, TypeOK
    <3>2. UNCHANGED <<update_requests, failed, updated>>
      BY <2>4 DEF HandleReply
    <3> QED BY <2>2, <3>1, <3>2 DEF RequestCount
  <2> QED BY <2>3, <2>4
<1>12. TypeOK'
  <2>1. stack' \in Seq(Frames)
    BY <1>9 DEF StackOK
  <2>2. status' \in [Calls -> Statuses]
    BY <1>1 DEF Inv, TypeOK, Statuses
  <2> QED BY <1>1, <1>9, <1>11, <2>1, <2>2 DEF Inv, TypeOK
<1>13. PendingExact' /\ NoStaleIdle'
  BY <1>1 DEF Inv, TypeOK, PendingExact, NoStaleIdle
<1> QED BY <1>1, <1>9, <1>10, <1>11, <1>12, <1>13 DEF Inv

\* A step that only moves frames that hold no reference.
LEMMA StepStack ==
    ASSUME Inv, StackOK(stack', status),
           Cardinality(Emissions(stack')) = Cardinality(Emissions(stack)),
           UNCHANGED <<online, alive, app_ref, refs, updated, update_requests,
                       pending_calls, calls, idle, derailed, failed>>
    PROVE  Inv'
<1>1. TypeOK' /\ StackOK(stack, status)'
  BY DEF Inv, TypeOK, StackOK, calls
<1>2. RefCount'
  <2>1. Holders' = Holders
    BY DEF Holders, calls
  <2> QED BY <2>1 DEF Inv, RefCount, Emissions
<1>3. PendingExact' /\ NoStaleIdle' /\ RequestCount'
  BY DEF Inv, PendingExact, NoStaleIdle, RequestCount, Outstanding, calls
<1> QED BY <1>1, <1>2, <1>3 DEF Inv

\* A step that emits a signal on top of the frames "below".
LEMMA StepEmit ==
    ASSUME Inv, alive, NEW below,
           StackOK(below, status),
           Cardinality(Emissions(below)) = Cardinality(Emissions(stack)),
           Emit(below),
           updated' \in BOOLEAN, idle' \in Nat, idle' <= 1,
           UNCHANGED <<online, alive, app_ref, update_requests, pending_calls, calls,
                       derailed, failed>>
    PROVE  Inv'
<1>1. stack' = Push(Handler, below) /\ refs' = refs + 1
  BY DEF Emit
<1>2. /\ StackOK(stack', status)
      /\ Cardinality(Emissions(stack')) = Cardinality(Emissions(stack)) + 1
      /\ Cardinality(Emissions(stack)) \in Nat
  BY <1>1, EmitStep
<1>3. refs \in Nat /\ refs > 0
  BY DEF Inv, TypeOK, RefCount
<1>4. TypeOK' /\ StackOK(stack, status)'
  BY <1>1, <1>2, <1>3 DEF Inv, TypeOK, StackOK, calls
<1>5. RefCount'
  <2>1. Holders' = Holders /\ Cardinality(Holders) \in Nat
    BY FiniteCalls DEF Holders, calls
  <2>2. refs = (IF app_ref THEN 1 ELSE 0) + Cardinality(Emissions(stack)) + Cardinality(Holders)
    BY DEF Inv, RefCount
  <2>3. refs' = (IF app_ref THEN 1 ELSE 0) + Cardinality(Emissions(stack')) + Cardinality(Holders)
    BY <1>1, <1>2, <1>3, <2>1, <2>2
  <2>4. refs' > 0 /\ alive'
    BY <1>1, <1>3
  <2> QED BY <2>1, <2>3, <2>4 DEF RefCount, Emissions
<1>6. PendingExact' /\ RequestCount'
  BY DEF Inv, PendingExact, RequestCount, Outstanding, calls
<1>7. NoStaleIdle'
  BY DEF NoStaleIdle
<1> QED BY <1>4, <1>5, <1>6, <1>7 DEF Inv

\* A step that drops a reference.
LEMMA StepUnref ==
    ASSUME Inv, refs > 0, Unref,
           app_ref' \in BOOLEAN, status' \in [Calls -> Statuses],
           StackOK(stack', status'),
           refs' = (IF app_ref' THEN 1 ELSE 0) + Cardinality(Emissions(stack)')
                     + Cardinality(Holders'),
           pending_calls = {c \in Calls : status'[c] \in {"stuck", "sent", "replied", "handled"}},
           Outstanding' = Outstanding,
           UNCHANGED <<online, updated, update_requests, kind, reply, derailed, failed>>
    PROVE  Inv'
<1>1. stack' \in Seq(Frames)
  BY DEF StackOK
<1>2. /\ refs' \in Nat /\ alive' \in BOOLEAN /\ idle' \in Nat
      /\ RefCount' /\ NoStaleIdle'
      /\ refs' # 0 => pending_calls' = pending_calls
      /\ refs' = 0 => pending_calls' = {} /\ Holders' = {}
  BY <1>1, UnrefStep DEF Inv
<1>3. pending_calls \subseteq Holders'
  BY DEF Holders
<1>4. pending_calls' = pending_calls
  BY <1>2, <1>3
<1>5. TypeOK' /\ StackOK(stack, status)'
  BY <1>1, <1>2, <1>4 DEF Inv, TypeOK, StackOK
<1>6. PendingExact'
  BY <1>4 DEF PendingExact
<1>7. RequestCount'
  BY DEF Inv, RequestCount
<1> QED BY <1>2, <1>5, <1>6, <1>7 DEF Inv

\* oobs_object_update, also on behalf of oobs_object_ensure_update.
LEMMA StepRunUpdate ==
    ASSUME Inv, alive, NEW below,
           StackOK(below, status),
           Cardinality(Emissions(below)) = Cardinality(Emissions(stack)),
           RunUpdate(below),
           UNCHANGED <<online, alive, app_ref, pending_calls, calls, idle, derailed>>
    PROVE  Inv'
<1>1. /\ update_requests \in Nat /\ failed \in Nat /\ idle \in Nat /\ idle <= 1
      /\ updated \in BOOLEAN
  BY DEF Inv, TypeOK, NoStaleIdle
<1>2. CASE /\ updated' = TRUE /\ UNCHANGED failed /\ Emit(below)
           /\ update_requests' = Decrement(update_requests + 1)
  <2>1. update_requests' = update_requests
    BY <1>1, <1>2 DEF Decrement
  <2>2. updated' \in BOOLEAN
    BY <1>2
  <2> QED BY <1>1, <1>2, <2>1, <2>2, StepEmit
<1>3. CASE /\ update_requests' = update_requests + 1 /\ failed' = failed + 1
           /\ stack' = below /\ UNCHANGED <<updated, refs>>
  <2>1. TypeOK' /\ StackOK(stack, status)'
    BY <1>1, <1>3 DEF Inv, TypeOK, StackOK, calls
  <2>2. RefCount'
    <3>1. Holders' = Holders
      BY DEF Holders, calls
    <3> QED BY <1>3, <3>1 DEF Inv, RefCount, Emissions
  <2>3. RequestCount'
    <3>1. Outstanding' = Outstanding /\ Cardinality(Outstanding) \in Nat
      BY FiniteCalls DEF Outstanding, calls
    <3> QED BY <1>1, <1>3, <3>1 DEF Inv, RequestCount
  <2>4. PendingExact' /\ NoStaleIdle'
    BY DEF Inv, PendingExact, NoStaleIdle, calls
  <2> QED BY <2>1, <2>2, <2>3, <2>4 DEF Inv
<1> QED BY <1>2, <1>3 DEF RunUpdate

-----------------------------------------------------------------------------
(* The actions, one by one *)

\* Starting or advancing the walk of oobs_object_process_requests.
LEMMA WalkFramePush ==
    ASSUME Inv, NEW s, StackOK(s, status),
           NEW c \in pending_calls \cup {NoCall}, NEW w \in SUBSET Calls
    PROVE  /\ StackOK(Push(WalkFrame(c, w), s), status)
           /\ Cardinality(Emissions(Push(WalkFrame(c, w), s))) = Cardinality(Emissions(s))
<1> DEFINE f == WalkFrame(c, w)
<1>1. f \in Frames /\ f.pc = "walk" /\ f.call = c
  <2>1. c \in Calls \cup {NoCall}
    BY DEF Inv, TypeOK
  <2> QED BY <2>1, FrameTypes
<1>2. s \in Seq(Frames)
  BY DEF StackOK
<1> HIDE DEF f
<1>3. Push(f, s) \in Seq(Frames) /\ Cardinality(Emissions(Push(f, s))) = Cardinality(Emissions(s))
  BY <1>1, <1>2, PushProperties, QuietPush
<1>4. CallbackFrames(Push(f, s), status)
  BY <1>1, <1>2, CallbackPush DEF StackOK, CallbackPcs
<1>7. StackOK(Push(f, s), status)
  BY <1>3, <1>4 DEF StackOK
<1> QED BY <1>3, <1>7 DEF f

\* The facts about the stack that the steps below start from.
LEMMA StackTypes ==
    ASSUME Inv
    PROVE  /\ StackOK(stack, status)
           /\ stack \in Seq(Frames)
           /\ stack # <<>> => /\ StackOK(Tail(stack), status)
                              /\ Tail(stack) \in Seq(Frames)
                              /\ Head(stack) \in Frames /\ Head(stack) = stack[1]
                              /\ Len(stack) \in Nat \ {0}
                              /\ Cardinality(Emissions(Tail(stack))) = Cardinality(Emissions(stack))
                                    - (IF Head(stack).pc = "handler" THEN 1 ELSE 0)
           /\ Cardinality(Emissions(stack)) \in Nat
<1>1. StackOK(stack, status) /\ stack \in Seq(Frames)
  BY DEF Inv, StackOK
<1>2. Cardinality(Emissions(stack)) \in Nat
  BY <1>1, EmitStep
<1> QED BY <1>1, <1>2, StackTail, TailProperties, EmissionsTail

\* oobs_object_update_async.
LEMMA StepUpdateAsync ==
    ASSUME Inv, NEW c \in Calls, UpdateAsync(c)
    PROVE  Inv'
<1>1. alive /\ status[c] = "unsent"
  BY DEF UpdateAsync, MayCall, RunMessageAsync, IsNext
<1>2. /\ update_requests \in Nat /\ failed \in Nat /\ update_requests' = update_requests + 1
      /\ Outstanding \in SUBSET Calls /\ Cardinality(Outstanding) \in Nat
      /\ update_requests = Cardinality(Outstanding) + failed
  BY FiniteCalls DEF UpdateAsync, Inv, TypeOK, RequestCount, Outstanding
<1>3. CASE online
  <2>1. failed' = failed /\ status' = [status EXCEPT ![c] = "sent"]
        /\ kind' = [kind EXCEPT ![c] = "update"]
    BY <1>3 DEF UpdateAsync, RunMessageAsync, Inv
  <2>2. Outstanding' = Outstanding \cup {c} /\ c \notin Outstanding
    BY <1>1, <2>1 DEF Outstanding, Inv, TypeOK
  <2>3. Cardinality(Outstanding') = Cardinality(Outstanding) + 1
    BY <1>2, <2>2, FiniteCalls, FS_AddElement
  <2>4. RequestCount' /\ update_requests' \in Nat /\ failed' \in Nat
    BY <1>2, <2>1, <2>3 DEF RequestCount
  <2> QED BY <1>1, <2>4, StepRunMessage DEF UpdateAsync
<1>4. CASE ~online
  <2>1. failed' = failed + 1
        /\ status' \in {[status EXCEPT ![c] = "stuck"], [status EXCEPT ![c] = "dropped"]}
        /\ kind' = [kind EXCEPT ![c] = "update"]
    BY <1>4 DEF UpdateAsync, RunMessageAsync
  <2>2. Outstanding' = Outstanding
    BY <1>1, <2>1 DEF Outstanding, Inv, TypeOK
  <2>3. RequestCount' /\ update_requests' \in Nat /\ failed' \in Nat
    BY <1>2, <2>1, <2>2 DEF RequestCount
  <2> QED BY <1>1, <2>3, StepRunMessage DEF UpdateAsync
<1> QED BY <1>3, <1>4

\* oobs_object_commit_async, _add_async and _delete_async.
LEMMA StepCommitAsync ==
    ASSUME Inv, NEW c \in Calls, CommitAsync(c)
    PROVE  Inv'
<1>1. alive /\ status[c] = "unsent" /\ kind' = [kind EXCEPT ![c] = "commit"]
  BY DEF CommitAsync, MayCall, RunMessageAsync, IsNext
<1>2. \E v \in {"sent", "stuck", "dropped"} : status' = [status EXCEPT ![c] = v]
  BY DEF CommitAsync, RunMessageAsync
<1>3. Outstanding' = Outstanding
  BY <1>1, <1>2 DEF Outstanding, Inv, TypeOK
<1>4. RequestCount' /\ update_requests' \in Nat /\ failed' \in Nat
  BY <1>3 DEF CommitAsync, RequestCount, Inv, TypeOK
<1> QED BY <1>1, <1>4, StepRunMessage DEF CommitAsync

\* A reply reaches the connection.
LEMMA StepBackendReply ==
    ASSUME Inv, NEW c \in Calls, BackendReply(c)
    PROVE  Inv'
<1>1. /\ status[c] = "sent" /\ status' = [status EXCEPT ![c] = "replied"]
      /\ UNCHANGED <<online, alive, app_ref, refs, updated, update_requests,
                     pending_calls, kind, idle, stack, derailed, failed>>
  BY DEF BackendReply
<1>2. reply' \in [Calls -> {"ok", "error"}]
  BY ConstantsAssumption DEF BackendReply, Inv, TypeOK
<1>3. TypeOK'
  BY <1>1, <1>2 DEF Inv, TypeOK, Statuses
<1>4. Holders' = Holders /\ Outstanding' = Outstanding
  BY <1>1 DEF Holders, Outstanding, Inv, TypeOK
<1>5. CallbackFrames(stack, status')
  BY <1>1, CallbackStatus DEF Inv, StackOK, TypeOK, Statuses
<1>6. StackOK(stack, status)'
  BY <1>1, <1>5 DEF Inv, StackOK
<1>7. RefCount' /\ RequestCount' /\ NoStaleIdle'
  BY <1>1, <1>4 DEF Inv, RefCount, RequestCount, NoStaleIdle, Emissions
<1>8. PendingExact'
  BY <1>1 DEF Inv, PendingExact, TypeOK
<1> QED BY <1>1, <1>3, <1>6, <1>7, <1>8 DEF Inv

\* async_message_cb, called by the main loop.
LEMMA StepDispatchReply ==
    ASSUME Inv, NEW c \in Calls, DispatchReply(c)
    PROVE  Inv'
  BY StackTypes, StepHandleReply DEF DispatchReply

\* async_message_cb, after the handlers of the signal.
LEMMA StepFinish ==
    ASSUME Inv, Finish
    PROVE  Inv'
<1> DEFINE c == Head(stack).call
           f == Frame("func", c)
           r == Frame("release", c)
           t == Tail(stack)
<1>1. /\ stack # <<>> /\ Head(stack).pc = "finish"
      /\ pending_calls' = pending_calls \ {c}
      /\ status' = [status EXCEPT ![c] = "notified"]
      /\ stack' = Push(f, Push(r, t))
      /\ UNCHANGED <<online, alive, app_ref, refs, updated, update_requests, kind, reply,
                     idle, derailed, failed>>
  BY DEF Finish, Running
<1>2. c \in Calls /\ status[c] = "handled" /\ t \in Seq(Frames)
  BY <1>1, StackTypes DEF StackOK, CallbackFrames
<1>3. /\ f \in Frames /\ f.pc = "func" /\ r \in Frames /\ r.pc = "release"
  BY <1>2, FrameTypes DEF Pcs
<1>4. CallbackFrames(stack', status')
  BY <1>1, CallbackFinish DEF Inv, StackOK, TypeOK
<1>5. Push(r, t) \in Seq(Frames) /\ stack' \in Seq(Frames)
  <2> HIDE DEF f, r, t
  <2> QED BY <1>1, <1>2, <1>3, PushProperties
<1>8. Cardinality(Emissions(stack')) = Cardinality(Emissions(stack))
  <2>1. Cardinality(Emissions(t)) = Cardinality(Emissions(stack))
    BY <1>1, StackTypes
  <2> HIDE DEF f, r, t
  <2>2. Cardinality(Emissions(Push(r, t))) = Cardinality(Emissions(t))
    BY <1>2, <1>3, QuietPush
  <2>3. Cardinality(Emissions(Push(f, Push(r, t)))) = Cardinality(Emissions(Push(r, t)))
    BY <1>3, <1>5, QuietPush
  <2> QED BY <1>1, <2>1, <2>2, <2>3
<1> HIDE DEF c, f, r, t
<1>9. TypeOK'
  BY <1>1, <1>2, <1>5 DEF Inv, TypeOK, Statuses
<1>10. Holders' = Holders /\ Outstanding' = Outstanding
  BY <1>1, <1>2 DEF Holders, Outstanding, Inv, TypeOK
<1>11. RefCount' /\ RequestCount' /\ NoStaleIdle'
  BY <1>1, <1>8, <1>10 DEF Inv, RefCount, RequestCount, NoStaleIdle, Emissions
<1>12. PendingExact'
  BY <1>1, <1>2 DEF Inv, PendingExact, TypeOK
<1>13. StackOK(stack, status)'
  BY <1>1, <1>4, <1>5 DEF StackOK
<1> QED BY <1>1, <1>9, <1>11, <1>12, <1>13 DEF Inv

\* async_message_cb, after func.
LEMMA StepRelease ==
    ASSUME Inv, Release
    PROVE  Inv'
<1> DEFINE c == Head(stack).call
           t == Tail(stack)
<1>1. /\ stack # <<>> /\ Head(stack).pc = "release"
      /\ status' = [status EXCEPT ![c] = "done"]
      /\ stack' = t /\ Unref
      /\ UNCHANGED <<online, app_ref, updated, update_requests, kind, reply, derailed, failed>>
  BY DEF Release, Running
<1>2. c \in Calls /\ status[c] = "notified" /\ t \in Seq(Frames)
  BY <1>1, StackTypes DEF StackOK, CallbackFrames
<1>3. CallbackFrames(t, status')
  BY <1>1, CallbackRelease DEF Inv, StackOK, TypeOK
<1>4. StackOK(t, status')
  BY <1>1, <1>3, StackTypes DEF StackOK
<1>5. Cardinality(Emissions(t)) = Cardinality(Emissions(stack))
      /\ Cardinality(Emissions(t)) \in Nat
  BY <1>1, <1>2, StackTypes
<1> HIDE DEF c, t
<1>6. Holders' = Holders \ {c} /\ c \in Holders /\ Holders \in SUBSET Calls
  BY <1>1, <1>2 DEF Holders, Inv, TypeOK
<1>7. /\ Cardinality(Holders') = Cardinality(Holders) - 1
      /\ Cardinality(Holders) \in Nat /\ Cardinality(Holders) # 0
  BY <1>6, FiniteCalls, FS_RemoveElement, FS_EmptySet
<1>8. refs = (IF app_ref THEN 1 ELSE 0) + Cardinality(Emissions(stack)) + Cardinality(Holders)
      /\ refs \in Nat
  BY DEF Inv, RefCount, TypeOK
<1>9. refs > 0 /\ refs' = refs - 1
  BY <1>1, <1>5, <1>7, <1>8 DEF Unref
<1>10. refs' = (IF app_ref' THEN 1 ELSE 0) + Cardinality(Emissions(stack)')
                 + Cardinality(Holders')
  <2>1. Emissions(stack)' = Emissions(t)
    BY <1>1 DEF Emissions
  <2> QED BY <1>1, <1>5, <1>7, <1>8, <1>9, <2>1
<1>11. Outstanding' = Outstanding
  BY <1>1, <1>2 DEF Outstanding, Inv, TypeOK
<1>12. pending_calls = {d \in Calls : status'[d] \in {"stuck", "sent", "replied", "handled"}}
  BY <1>1, <1>2 DEF Inv, PendingExact, TypeOK
<1>13. app_ref' \in BOOLEAN /\ status' \in [Calls -> Statuses]
  BY <1>1, <1>2 DEF Inv, TypeOK, Statuses
<1> QED BY <1>1, <1>4, <1>9, <1>10, <1>11, <1>12, <1>13, StepUnref

\* The end of a signal emission.
LEMMA StepHandlerReturn ==
    ASSUME Inv, HandlerReturn
    PROVE  Inv'
<1> DEFINE t == Tail(stack)
<1>1. /\ stack # <<>> /\ Head(stack).pc = "handler" /\ stack' = t /\ Unref
      /\ UNCHANGED <<online, app_ref, updated, update_requests, status, kind, reply,
                     derailed, failed>>
  BY DEF HandlerReturn, Running, calls
<1>2. StackOK(t, status')
  BY <1>1, StackTypes
<1>3. /\ Cardinality(Emissions(t)) = Cardinality(Emissions(stack)) - 1
      /\ Cardinality(Emissions(stack)) \in Nat /\ Cardinality(Emissions(t)) \in Nat
  BY <1>1, <1>2, StackTypes, EmitStep
<1> HIDE DEF t
<1>4. Holders' = Holders /\ Outstanding' = Outstanding /\ Cardinality(Holders) \in Nat
  BY <1>1, FiniteCalls DEF Holders, Outstanding
<1>5. refs = (IF app_ref THEN 1 ELSE 0) + Cardinality(Emissions(stack)) + Cardinality(Holders)
      /\ refs \in Nat
  BY DEF Inv, RefCount, TypeOK
<1>6. refs > 0 /\ refs' = refs - 1
  BY <1>1, <1>3, <1>4, <1>5 DEF Unref
<1>7. refs' = (IF app_ref' THEN 1 ELSE 0) + Cardinality(Emissions(stack)')
                 + Cardinality(Holders')
  <2>1. Emissions(stack)' = Emissions(t)
    BY <1>1 DEF Emissions
  <2> QED BY <1>1, <1>3, <1>4, <1>5, <1>6, <2>1
<1>8. /\ pending_calls = {d \in Calls : status'[d] \in {"stuck", "sent", "replied", "handled"}}
      /\ app_ref' \in BOOLEAN /\ status' \in [Calls -> Statuses]
  BY <1>1 DEF Inv, PendingExact, TypeOK
<1> QED BY <1>1, <1>2, <1>4, <1>6, <1>7, <1>8, StepUnref

\* The other returns hold no reference.
LEMMA StepReturn ==
    ASSUME Inv, Return
    PROVE  Inv'
<1>1. /\ stack # <<>> /\ Head(stack).pc # "handler" /\ stack' = Tail(stack)
      /\ UNCHANGED <<online, alive, app_ref, refs, updated, update_requests,
                     pending_calls, calls, idle, derailed, failed>>
  BY DEF Return, Running
<1>2. StackOK(stack', status)
      /\ Cardinality(Emissions(stack')) = Cardinality(Emissions(stack))
  BY <1>1, StackTypes
<1> QED BY <1>1, <1>2, StepStack

\* oobs_object_update.
LEMMA StepUpdate ==
    ASSUME Inv, Update
    PROVE  Inv'
  BY StackTypes, StepRunUpdate DEF Update, MayCall

\* The application, a signal emission or an activation of async_message_cb
\* that has not ended holds a reference, so the object is alive.
LEMMA AliveWhenHeld ==
    ASSUME Inv, app_ref \/ \E j \in 1..Len(stack) : stack[j].pc \in {"handler", "release"}
    PROVE  alive
<1>1. /\ Cardinality(Emissions(stack)) \in Nat /\ IsFiniteSet(Emissions(stack))
      /\ stack \in Seq(Frames) /\ CallbackFrames(stack, status)
  <2>1. stack \in Seq(Frames) /\ CallbackFrames(stack, status) /\ Handler \in Frames
    BY FrameTypes, StackTypes DEF StackOK
  <2> QED BY <2>1, EmissionsPush
<1>2. Holders \in SUBSET Calls /\ IsFiniteSet(Holders) /\ Cardinality(Holders) \in Nat
  BY FiniteCalls DEF Holders
<1>3. refs = (IF app_ref THEN 1 ELSE 0) + Cardinality(Emissions(stack)) + Cardinality(Holders)
      /\ refs \in Nat /\ (alive <=> refs > 0)
  BY DEF Inv, RefCount, TypeOK
<1>4. CASE app_ref
  BY <1>1, <1>2, <1>3, <1>4
<1>5. CASE \E j \in 1..Len(stack) : stack[j].pc = "handler"
  <2>1. Emissions(stack) # {}
    BY <1>5 DEF Emissions
  <2>2. Cardinality(Emissions(stack)) # 0
    BY <1>1, <2>1, FS_EmptySet
  <2> QED BY <1>1, <1>2, <1>3, <2>2
<1>6. CASE \E j \in 1..Len(stack) : stack[j].pc = "release"
  <2>1. Holders # {}
    BY <1>1, <1>6 DEF CallbackFrames, Holders
  <2>2. Cardinality(Holders) # 0
    BY <1>2, <2>1, FS_EmptySet
  <2> QED BY <1>1, <1>2, <1>3, <2>2
<1> QED BY <1>4, <1>5, <1>6

\* do_commit, answered with the new configuration.
LEMMA StepCommitStruct ==
    ASSUME Inv, CommitStruct
    PROVE  Inv'
<1> DEFINE f == Frame("commit", NoCall)
           below == Push(f, stack)
<1>1. /\ alive /\ Emit(below) /\ updated' = TRUE
      /\ update_requests' = Decrement(update_requests + 1)
      /\ UNCHANGED <<online, alive, app_ref, pending_calls, calls, idle, derailed, failed>>
  BY DEF CommitStruct, MayCall
<1>2. f \in Frames /\ f.pc = "commit"
  BY FrameTypes DEF Pcs
<1>3. stack \in Seq(Frames) /\ StackOK(stack, status)
  BY StackTypes
<1> HIDE DEF f
<1>4. /\ below \in Seq(Frames)
      /\ Cardinality(Emissions(below)) = Cardinality(Emissions(stack))
  BY <1>2, <1>3, PushProperties, QuietPush
<1>5. CallbackFrames(below, status)
  BY <1>2, <1>3, CallbackPush DEF StackOK, CallbackPcs
<1>8. StackOK(below, status)
  BY <1>4, <1>5 DEF StackOK
<1>9. /\ update_requests' = update_requests /\ updated' \in BOOLEAN
      /\ idle' \in Nat /\ idle' <= 1
  BY <1>1 DEF Decrement, Inv, TypeOK, NoStaleIdle
<1> HIDE DEF below
<1> QED BY <1>1, <1>4, <1>8, <1>9, StepEmit

\* do_commit, answered otherwise.
LEMMA StepCommitPlain ==
    ASSUME Inv, CommitPlain
    PROVE  Inv'
<1> DEFINE f == Frame("return", NoCall)
           below == Push(f, stack)
<1>1. /\ alive /\ Emit(below)
      /\ UNCHANGED <<online, alive, app_ref, updated, update_requests, pending_calls,
                     calls, idle, derailed, failed>>
  BY DEF CommitPlain, MayCall
<1>2. f \in Frames /\ f.pc = "return"
  BY FrameTypes DEF Pcs
<1> HIDE DEF f
<1>3. StackOK(below, status)
      /\ Cardinality(Emissions(below)) = Cardinality(Emissions(stack))
  BY <1>2, StackTypes, StackPush, QuietPush
<1>4. updated' \in BOOLEAN /\ idle' \in Nat /\ idle' <= 1
  BY <1>1 DEF Inv, TypeOK, NoStaleIdle
<1> HIDE DEF below
<1> QED BY <1>1, <1>3, <1>4, StepEmit

\* do_commit, after the handlers of "updated".
LEMMA StepCommitEmit ==
    ASSUME Inv, CommitEmit
    PROVE  Inv'
<1> DEFINE f == Frame("return", NoCall)
           below == Push(f, Tail(stack))
<1>1. /\ stack # <<>> /\ Head(stack).pc = "commit" /\ alive /\ Emit(below)
      /\ UNCHANGED <<online, alive, app_ref, updated, update_requests, pending_calls,
                     calls, idle, derailed, failed>>
  BY DEF CommitEmit, Running
<1>2. f \in Frames /\ f.pc = "return"
  BY FrameTypes DEF Pcs
<1> HIDE DEF f
<1>3. StackOK(below, status)
      /\ Cardinality(Emissions(below)) = Cardinality(Emissions(stack))
  <2> DEFINE t == Tail(stack)
  <2>1. /\ StackOK(t, status) /\ t \in Seq(Frames)
        /\ Cardinality(Emissions(t)) = Cardinality(Emissions(stack))
    BY <1>1, StackTypes
  <2> HIDE DEF t
  <2>2. StackOK(Push(f, t), status)
    BY <1>2, <2>1, StackPush
  <2>3. Cardinality(Emissions(Push(f, t))) = Cardinality(Emissions(t))
    BY <1>2, <2>1, QuietPush
  <2> QED BY <2>1, <2>2, <2>3 DEF t
<1>4. updated' \in BOOLEAN /\ idle' \in Nat /\ idle' <= 1
  BY <1>1 DEF Inv, TypeOK, NoStaleIdle
<1> HIDE DEF below
<1> QED BY <1>1, <1>3, <1>4, StepEmit

\* The walk starts at a node of the list, or at its end.
LEMMA ListHeadProperties ==
    ASSUME Inv
    PROVE  ListHead \in pending_calls \cup {NoCall}
  BY NodeBelowProperties, ConstantsAssumption DEF ListHead, Inv, TypeOK

\* oobs_object_process_requests.
LEMMA StepProcessRequests ==
    ASSUME Inv, ProcessRequests
    PROVE  Inv'
<1>1. /\ stack' = Push(WalkFrame(ListHead, pending_calls), stack)
      /\ UNCHANGED <<online, alive, app_ref, refs, updated, update_requests,
                     pending_calls, calls, idle, derailed, failed>>
  BY DEF ProcessRequests
<1>2. pending_calls \in SUBSET Calls
  BY DEF Inv, TypeOK
<1>3. StackOK(stack', status)
      /\ Cardinality(Emissions(stack')) = Cardinality(Emissions(stack))
  BY <1>1, <1>2, StackTypes, ListHeadProperties, WalkFramePush
<1> QED BY <1>1, <1>3, StepStack

\* oobs_object_ensure_update.
LEMMA StepEnsureUpdate ==
    ASSUME Inv, EnsureUpdate
    PROVE  Inv'
<1> DEFINE f == Frame("ensured", NoCall)
           below == Push(f, stack)
           w == Push(WalkFrame(ListHead, pending_calls), below)
<1>1. /\ alive
      /\ UNCHANGED <<online, alive, app_ref, pending_calls, calls, idle, derailed>>
      /\ \/ /\ stack' = w
            /\ UNCHANGED <<updated, update_requests, refs, failed>>
         \/ RunUpdate(below)
  BY DEF EnsureUpdate, MayCall
<1>2. f \in Frames /\ f.pc = "ensured" /\ stack \in Seq(Frames)
  BY FrameTypes, StackTypes DEF Pcs
<1> HIDE DEF f
<1>3. /\ StackOK(below, status)
      /\ Cardinality(Emissions(below)) = Cardinality(Emissions(stack))
  BY <1>2, StackTypes, StackPush, QuietPush
<1> HIDE DEF below
<1>5. CASE stack' = w /\ UNCHANGED <<updated, update_requests, refs, failed>>
  <2>1. pending_calls \in SUBSET Calls
    BY DEF Inv, TypeOK
  <2>2. StackOK(w, status)
        /\ Cardinality(Emissions(w)) = Cardinality(Emissions(stack))
    BY <1>3, <2>1, ListHeadProperties, WalkFramePush
  <2> HIDE DEF w
  <2> QED BY <1>1, <1>5, <2>2, StepStack
<1>6. CASE RunUpdate(below)
  BY <1>1, <1>3, <1>6, StepRunUpdate
<1> QED BY <1>1, <1>5, <1>6

\* process_requests visits a node.
LEMMA StepWalkBlock ==
    ASSUME Inv, WalkBlock
    PROVE  Inv'
<1> DEFINE c == Head(stack).call
           w == Head(stack).since
           t == Tail(stack)
           n == NodeBelow(c)
           rest == Push(WalkFrame(n, w), t)
<1>1. /\ stack # <<>> /\ Head(stack).pc = "walk" /\ c \in pending_calls
      /\ \/ status[c] = "replied" /\ HandleReply(c, rest)
         \/ /\ stack' = rest
            /\ UNCHANGED <<online, alive, app_ref, refs, updated, update_requests,
                           pending_calls, calls, idle, derailed, failed>>
  BY DEF WalkBlock, Running
<1>2. /\ c \in Calls /\ w \in SUBSET Calls /\ pending_calls \in SUBSET Calls
      /\ t \in Seq(Frames) /\ StackOK(t, status)
      /\ Cardinality(Emissions(t)) = Cardinality(Emissions(stack))
  BY <1>1, StackTypes DEF Inv, TypeOK, Frames
<1>3. n \in pending_calls \cup {NoCall} /\ n # c
  BY <1>2, NodeBelowProperties DEF Calls
<1> HIDE DEF c, w, t, n
<1>5. StackOK(rest, status)
      /\ Cardinality(Emissions(rest)) = Cardinality(Emissions(stack))
  BY <1>2, <1>3, WalkFramePush
<1> HIDE DEF rest
<1> QED BY <1>1, <1>2, <1>5, StepHandleReply, StepStack

\* process_requests reads a freed node.
LEMMA StepWalkDerail ==
    ASSUME Inv, WalkDerail
    PROVE  Inv'
<1>1. /\ stack # <<>> /\ Head(stack).pc = "walk" /\ derailed' = TRUE
      /\ UNCHANGED <<online, alive, app_ref, refs, updated, update_requests,
                     pending_calls, calls, idle, stack, failed>>
  BY DEF WalkDerail, Running
<1>3. TypeOK' /\ StackOK(stack, status)'
  BY <1>1 DEF Inv, TypeOK, StackOK, calls
<1>4. RefCount' /\ PendingExact' /\ RequestCount' /\ NoStaleIdle'
  BY <1>1 DEF Inv, RefCount, PendingExact, RequestCount, NoStaleIdle, Holders,
              Outstanding, Emissions, calls
<1> QED BY <1>1, <1>3, <1>4 DEF Inv

\* do_commit emits on a freed object.
LEMMA StepCommitDerail ==
    ASSUME Inv, CommitDerail
    PROVE  Inv'
<1>1. /\ derailed' = TRUE
      /\ UNCHANGED <<online, alive, app_ref, refs, updated, update_requests,
                     pending_calls, calls, idle, stack, failed>>
  BY DEF CommitDerail
<1>2. TypeOK' /\ StackOK(stack, status)'
  BY <1>1 DEF Inv, TypeOK, StackOK, calls
<1>3. RefCount' /\ PendingExact' /\ RequestCount' /\ NoStaleIdle'
  BY <1>1 DEF Inv, RefCount, PendingExact, RequestCount, NoStaleIdle, Holders,
              Outstanding, Emissions, calls
<1> QED BY <1>1, <1>2, <1>3 DEF Inv

\* The connection is lost.
LEMMA StepDisconnect ==
    ASSUME Inv, Disconnect
    PROVE  Inv'
<1>1. /\ online' = FALSE
      /\ UNCHANGED <<alive, app_ref, refs, updated, update_requests, pending_calls,
                     calls, idle, stack, derailed, failed>>
  BY DEF Disconnect
<1>2. TypeOK' /\ StackOK(stack, status)'
  BY <1>1 DEF Inv, TypeOK, StackOK, calls
<1>3. RefCount' /\ PendingExact' /\ RequestCount' /\ NoStaleIdle'
  BY <1>1 DEF Inv, RefCount, PendingExact, RequestCount, NoStaleIdle, Holders,
              Outstanding, Emissions, calls
<1> QED BY <1>1, <1>2, <1>3 DEF Inv

\* changed_signal_filter.
LEMMA StepChangedSignal ==
    ASSUME Inv, ChangedSignal
    PROVE  Inv'
<1>1. /\ alive /\ idle' = Requeue(idle)
      /\ UNCHANGED <<online, alive, app_ref, refs, updated, update_requests,
                     pending_calls, calls, stack, derailed, failed>>
  BY DEF ChangedSignal, MainLoop
<1>2. idle' \in Nat /\ idle' <= 1
  BY <1>1 DEF Requeue, Inv, TypeOK, NoStaleIdle
<1>3. TypeOK' /\ StackOK(stack, status)' /\ NoStaleIdle'
  BY <1>1, <1>2 DEF Inv, TypeOK, StackOK, NoStaleIdle, calls
<1>4. RefCount' /\ PendingExact' /\ RequestCount'
  BY <1>1 DEF Inv, RefCount, PendingExact, RequestCount, Holders, Outstanding,
              Emissions, calls
<1> QED BY <1>1, <1>3, <1>4 DEF Inv

\* object_changed_idle.
LEMMA StepChangedIdle ==
    ASSUME Inv, ChangedIdle
    PROVE  Inv'
<1>1. /\ alive /\ idle > 0 /\ idle' = idle - 1 /\ Emit(stack)
      /\ UNCHANGED <<online, alive, app_ref, updated, update_requests, pending_calls,
                     calls, derailed, failed>>
  BY DEF ChangedIdle, MainLoop
<1>2. updated' \in BOOLEAN /\ idle' \in Nat /\ idle' <= 1
  BY <1>1 DEF Inv, TypeOK, NoStaleIdle
<1> QED BY <1>1, <1>2, StackTypes, StepEmit

\* The application drops its reference.
LEMMA StepAppUnref ==
    ASSUME Inv, AppUnref
    PROVE  Inv'
<1>1. /\ app_ref /\ app_ref' = FALSE /\ alive /\ Unref
      /\ UNCHANGED <<online, updated, update_requests, status, kind, reply, stack,
                     derailed, failed>>
  BY DEF AppUnref, calls
<1>3. StackOK(stack', status')
  BY <1>1, StackTypes DEF StackOK
<1>4. /\ Holders' = Holders /\ Outstanding' = Outstanding
      /\ Emissions(stack)' = Emissions(stack)
      /\ Cardinality(Holders) \in Nat /\ Cardinality(Emissions(stack)) \in Nat
  BY <1>1, FiniteCalls, StackTypes DEF Holders, Outstanding, Emissions
<1>5. refs = 1 + Cardinality(Emissions(stack)) + Cardinality(Holders) /\ refs \in Nat
  BY <1>1 DEF Inv, RefCount, TypeOK
<1>6. refs > 0 /\ refs' = refs - 1
  BY <1>1, <1>4, <1>5 DEF Unref
<1>7. refs' = (IF app_ref' THEN 1 ELSE 0) + Cardinality(Emissions(stack)')
                + Cardinality(Holders')
  BY <1>1, <1>4, <1>5, <1>6
<1>8. /\ pending_calls = {c \in Calls : status'[c] \in {"stuck", "sent", "replied", "handled"}}
      /\ app_ref' \in BOOLEAN /\ status' \in [Calls -> Statuses]
  BY <1>1 DEF Inv, PendingExact, TypeOK
<1> QED BY <1>1, <1>3, <1>4, <1>6, <1>7, <1>8, StepUnref

\* User code takes a reference.
LEMMA StepAppRef ==
    ASSUME Inv, AppRef
    PROVE  Inv'
<1>1. /\ ~app_ref /\ app_ref' = TRUE /\ alive /\ refs' = refs + 1
      /\ UNCHANGED <<online, alive, updated, update_requests, pending_calls, calls, idle,
                     stack, derailed, failed>>
  BY DEF AppRef
<1>3. StackOK(stack, status)'
  BY <1>1, StackTypes DEF StackOK, calls
<1>4. TypeOK' /\ NoStaleIdle' /\ PendingExact' /\ RequestCount'
  BY <1>1 DEF Inv, TypeOK, NoStaleIdle, PendingExact, RequestCount, Outstanding, calls
<1>5. RefCount'
  <2>1. Holders' = Holders /\ Cardinality(Holders) \in Nat
    BY <1>1, FiniteCalls DEF Holders, calls
  <2>2. Emissions(stack)' = Emissions(stack) /\ Cardinality(Emissions(stack)) \in Nat
    BY <1>1, StackTypes DEF Emissions
  <2>3. refs = Cardinality(Emissions(stack)) + Cardinality(Holders) /\ refs \in Nat
    BY <1>1, <2>1, <2>2 DEF Inv, RefCount, TypeOK
  <2>4. refs' = 1 + Cardinality(Emissions(stack)) + Cardinality(Holders) /\ refs' > 0
    BY <1>1, <2>1, <2>2, <2>3
  <2>5. refs' = (IF app_ref' THEN 1 ELSE 0) + Cardinality(Emissions(stack)')
                  + Cardinality(Holders')
    BY <1>1, <2>1, <2>2, <2>4
  <2>6. alive' <=> refs' > 0
    BY <1>1, <2>4
  <2> QED BY <2>5, <2>6 DEF RefCount
<1> QED BY <1>1, <1>3, <1>4, <1>5 DEF Inv

\* A step that changes nothing.
LEMMA StepStutter ==
    ASSUME Inv, UNCHANGED vars
    PROVE  Inv'
<1>1. UNCHANGED <<online, alive, app_ref, refs, updated, update_requests, pending_calls,
                  status, kind, reply, idle, stack, derailed, failed>>
  BY DEF vars
<1> QED BY <1>1 DEF Inv, TypeOK, StackOK, RefCount, PendingExact, RequestCount,
                    NoStaleIdle, Holders, Outstanding, Emissions

-----------------------------------------------------------------------------
(* The theorems *)

\* The invariant that every other theorem of this module rests on: the stack
\* of frames, the statuses of the calls, pending_calls, the reference count and
\* the count of update requests agree after every step of oobs-object.c.
THEOREM Invariance == Spec => []Inv
<1>1. Init => Inv
  BY InitInv
<1>2. Inv /\ [Next]_vars => Inv'
  <2> SUFFICES ASSUME Inv, [Next]_vars PROVE Inv'
    OBVIOUS
  <2>1. ASSUME NEW c \in Calls,
               UpdateAsync(c) \/ CommitAsync(c) \/ BackendReply(c) \/ DispatchReply(c)
        PROVE  Inv'
    BY <2>1, StepUpdateAsync, StepCommitAsync, StepBackendReply, StepDispatchReply
  <2>2. CASE Update \/ CommitStruct \/ CommitPlain \/ CommitEmit \/ CommitDerail
    BY <2>2, StepUpdate, StepCommitStruct, StepCommitPlain, StepCommitEmit,
       StepCommitDerail
  <2>3. CASE Finish \/ Release \/ HandlerReturn \/ Return
    BY <2>3, StepFinish, StepRelease, StepHandlerReturn, StepReturn
  <2>4. CASE ProcessRequests \/ WalkBlock \/ WalkDerail \/ EnsureUpdate
    BY <2>4, StepProcessRequests, StepWalkBlock, StepWalkDerail, StepEnsureUpdate
  <2>5. CASE ChangedSignal \/ ChangedIdle \/ AppUnref \/ AppRef
    BY <2>5, StepChangedSignal, StepChangedIdle, StepAppUnref, StepAppRef
  <2>6. CASE Disconnect \/ Over
    BY <2>6, StepDisconnect, StepStutter DEF Over
  <2>7. CASE UNCHANGED vars
    BY <2>7, StepStutter
  <2> QED BY <2>1, <2>2, <2>3, <2>4, <2>5, <2>6, <2>7 DEF Next
<1> QED BY <1>1, <1>2, PTL DEF Spec

\* The state of an OobsObject keeps its types; refs, update_requests and idle,
\* all unsigned in the code, never go below 0.
THEOREM TypeCorrect == Spec => []TypeOK
<1>1. Inv => TypeOK
  BY DEF Inv
<1> QED BY <1>1, Invariance, PTL

\* update_requests is the number of update calls not answered plus the number
\* of failed ones, for any number of calls, handlers and nested main loops.
THEOREM RequestsCounted == Spec => []RequestCount
<1>1. Inv => RequestCount
  BY DEF Inv
<1> QED BY <1>1, Invariance, PTL

\* priv->pending_calls holds exactly the calls whose reply is still awaited or
\* being handled: async_message_cb removes each one, once.
THEOREM PendingCallsExact == Spec => []PendingExact
<1>1. Inv => PendingExact
  BY DEF Inv
<1> QED BY <1>1, Invariance, PTL

\* changed_signal_filter never leaves two object_changed_idle sources, and
\* oobs_object_finalize leaves none.
THEOREM IdleSourceRemoved == Spec => []NoStaleIdle
<1>1. Inv => NoStaleIdle
  BY DEF Inv
<1> QED BY <1>1, Invariance, PTL

\* g_object_ref and g_object_unref balance: the count is that of the
\* application, the emissions under way and the calls not completed, and
\* oobs_object_finalize runs when it reaches 0, never before, never twice.
THEOREM ReferencesBalance == Spec => []RefCount
<1>1. Inv => RefCount
  BY DEF Inv
<1> QED BY <1>1, Invariance, PTL

\* oobs_object_finalize runs when every request has been answered, and no
\* activation of async_message_cb and no emission is then under way, whatever
\* references user code drops.  Two frames may outlive the object: a walk, which
\* reads the nodes of the list, and a do_commit whose caller let the last
\* reference go, which then does use it.
THEOREM RequestsHoldObject == Spec => []NoRequestOutlives
<1>1. Inv => NoRequestOutlives
  <2> SUFFICES ASSUME Inv, ~alive
               PROVE  /\ \A c \in Calls : status[c] \in {"unsent", "dropped", "done"}
                      /\ \A i \in 1..Len(stack) :
                            stack[i].pc \in {"ensured", "return", "walk", "commit"}
    BY DEF NoRequestOutlives
  <2>1. ~app_ref /\ \A j \in 1..Len(stack) : stack[j].pc \notin {"handler", "release"}
    BY AliveWhenHeld
  <2>2. Holders = {}
    <3>1. /\ Cardinality(Emissions(stack)) \in Nat
          /\ Holders \in SUBSET Calls /\ IsFiniteSet(Holders) /\ Cardinality(Holders) \in Nat
      BY FiniteCalls, StackTypes DEF Holders
    <3>2. refs = Cardinality(Emissions(stack)) + Cardinality(Holders) /\ refs \in Nat /\ ~(refs > 0)
      BY <2>1, <3>1 DEF Inv, RefCount, TypeOK
    <3>3. Cardinality(Holders) = 0
      BY <3>1, <3>2
    <3> QED BY <3>1, <3>3, FS_EmptySet
  <2>3. \A c \in Calls : status[c] \in {"unsent", "dropped", "done"}
    BY <2>2 DEF Holders, Inv, TypeOK, Statuses
  <2>4. ASSUME NEW i \in 1..Len(stack)
        PROVE  stack[i].pc \in {"ensured", "return", "walk", "commit"}
    <3>1. stack \in Seq(Frames) /\ Len(stack) \in Nat /\ CallbackFrames(stack, status)
      BY StackTypes DEF StackOK
    <3>2. stack[i].pc \in Pcs
      <4>1. stack[i] \in Frames
        BY <3>1
      <4> QED BY <4>1 DEF Frames
    <3>3. stack[i].pc # "finish"
      BY <2>3, <3>1 DEF CallbackFrames
    <3>4. stack[i].pc # "func"
      <4>1. stack[i].pc = "func" => i + 1 \in 1..Len(stack) /\ stack[i + 1].pc = "release"
        BY <3>1 DEF CallbackFrames
      <4> QED BY <2>1, <4>1
    <3> QED BY <2>1, <3>2, <3>3, <3>4 DEF Pcs
  <2> QED BY <2>3, <2>4
<1> QED BY <1>1, Invariance, PTL

-----------------------------------------------------------------------------
(* Requests *)

NoneDropped == \A c \in Calls : status[c] # "dropped"

\* As long as a call holds a reference, the count is positive.
LEMMA CountPositive ==
    ASSUME NEW s \in Seq(Frames), NEW H \in SUBSET Calls, H # {}, NEW app \in BOOLEAN
    PROVE  (IF app THEN 1 ELSE 0) + Cardinality(Emissions(s)) + Cardinality(H) > 0
<1>1. Cardinality(Emissions(s)) \in Nat
  BY FrameTypes, EmissionsPush
<1>2. IsFiniteSet(H) /\ Cardinality(H) \in Nat
  BY FiniteCalls
<1>3. Cardinality(H) # 0
  BY <1>2, FS_EmptySet
<1> QED BY <1>1, <1>2, <1>3

\* A call between run_message_async and the end of its async_message_cb keeps
\* the object alive.
LEMMA AliveWhenServed ==
    ASSUME Inv, Holders # {}
    PROVE  alive
<1>1. stack \in Seq(Frames) /\ Holders \in SUBSET Calls /\ app_ref \in BOOLEAN
  BY DEF Inv, TypeOK, Holders
<1> QED BY <1>1, CountPositive DEF Inv, RefCount

LEMMA FreedWhenUnserved ==
    ASSUME Inv', ~alive'
    PROVE  Holders' = {}
<1>1. stack' \in Seq(Frames) /\ Holders' \in SUBSET Calls /\ app_ref' \in BOOLEAN
  BY DEF Inv, TypeOK, Holders
<1>2. /\ refs' = (IF app_ref' THEN 1 ELSE 0) + Cardinality(Emissions(stack'))
                   + Cardinality(Holders')
      /\ ~(refs' > 0)
  BY DEF Inv, RefCount, Emissions
<1> QED BY <1>1, <1>2, CountPositive

\* A step of one call that moves its request from one stage to another.
LEMMA StageChange ==
    ASSUME TypeOK, NEW c \in Calls, NEW to \in Statuses,
           status' = [status EXCEPT ![c] = to]
    PROVE  /\ [d \in Calls |-> StageOf(status'[d])] =
                 [[d \in Calls |-> StageOf(status[d])] EXCEPT ![c] = StageOf(to)]
           /\ StageOf(to) = StageOf(status[c]) =>
                 [d \in Calls |-> StageOf(status'[d])] = [d \in Calls |-> StageOf(status[d])]
  BY DEF TypeOK

\* A step that leaves all calls as they are either leaves the object as it is or
\* finalizes it.
LEMMA QuietStep ==
    ASSUME Inv, Inv', NoneDropped, UNCHANGED status, UNCHANGED alive \/ alive' = FALSE
    PROVE  [Promise!Next]_(Promise!vars)
<1> SUFFICES ASSUME alive, ~alive'
             PROVE  Promise!Free
  <2>1. alive \in BOOLEAN /\ alive' \in BOOLEAN
    BY DEF Inv, TypeOK
  <2> QED BY <2>1 DEF Promise!Next, Promise!vars
<1>1. Holders' = {}
  BY FreedWhenUnserved
<1>2. \A c \in Calls : status[c] \in {"unsent", "done"}
  BY <1>1 DEF Holders, NoneDropped, Inv, TypeOK, Statuses
<1> QED BY <1>2 DEF Promise!Free, StageOf

-----------------------------------------------------------------------------
(* The steps *)

\* One call makes progress, and the object lives before and after.
LEMMA RequestStep ==
    ASSUME Inv, NEW c \in Calls, NEW to \in Statuses, alive, UNCHANGED alive,
           status' = [status EXCEPT ![c] = to],
           \/ status[c] = "unsent" /\ to \in {"sent", "stuck"}
           \/ status[c] = "sent" /\ to = "replied"
           \/ status[c] = "replied" /\ to = "handled"
           \/ status[c] = "handled" /\ to = "notified"
    PROVE  [Promise!Next]_(Promise!vars)
<1> DEFINE before == [d \in Calls |-> StageOf(status[d])]
           after == [d \in Calls |-> StageOf(status'[d])]
<1>1. /\ after = [before EXCEPT ![c] = StageOf(to)]
      /\ StageOf(to) = StageOf(status[c]) => after = before
  BY StageChange DEF Inv
<1>2. before[c] = StageOf(status[c])
  OBVIOUS
<1>3. CASE status[c] = "unsent" /\ to \in {"sent", "stuck"}
  <2>1. StageOf(status[c]) = "none" /\ StageOf(to) = "outstanding"
    BY <1>3 DEF StageOf
  <2>2. Promise!Request(c)
    BY <1>1, <1>2, <2>1 DEF Promise!Request, Promise!Move
  <2> QED BY <2>2 DEF Promise!Next
<1>4. CASE \/ status[c] = "sent" /\ to = "replied"
           \/ status[c] = "replied" /\ to = "handled"
  <2>1. StageOf(status[c]) = StageOf(to)
    BY <1>4 DEF StageOf
  <2> QED BY <1>1, <2>1 DEF Promise!vars
<1>5. CASE status[c] = "handled" /\ to = "notified"
  <2>1. StageOf(status[c]) = "outstanding" /\ StageOf(to) = "answering"
    BY <1>5 DEF StageOf
  <2>2. Promise!Answer(c)
    BY <1>1, <1>2, <2>1 DEF Promise!Answer, Promise!Move
  <2> QED BY <2>2 DEF Promise!Next
<1> QED BY <1>3, <1>4, <1>5

\* async_message_cb up to the handlers it runs
LEMMA HandleReplyMaps ==
    ASSUME Inv, NEW c \in Calls, NEW below, status[c] = "replied", HandleReply(c, below)
    PROVE  [Promise!Next]_(Promise!vars)
<1>1. alive
  BY AliveWhenServed DEF Holders
<1>2. status' = [status EXCEPT ![c] = "handled"] /\ UNCHANGED alive
  BY DEF HandleReply
<1> QED BY <1>1, <1>2, RequestStep DEF Statuses

\* run_message_async sends the call, or keeps it though the connection is lost.
LEMMA SendMaps ==
    ASSUME Inv, Connected, NEW c \in Calls, UpdateAsync(c) \/ CommitAsync(c)
    PROVE  [Promise!Next]_(Promise!vars)
<1>1. /\ alive /\ UNCHANGED alive
      /\ status[c] = "unsent"
      /\ status' = [status EXCEPT ![c] = IF online THEN "sent" ELSE "stuck"]
  BY DEF UpdateAsync, CommitAsync, MayCall, RunMessageAsync, IsNext
<1> QED BY <1>1, RequestStep DEF Statuses

LEMMA ReplyMaps ==
    ASSUME Inv, NEW c \in Calls, BackendReply(c)
    PROVE  [Promise!Next]_(Promise!vars)
<1>1. status[c] = "sent" /\ status' = [status EXCEPT ![c] = "replied"] /\ UNCHANGED alive
  BY DEF BackendReply
<1>2. alive
  BY <1>1, AliveWhenServed DEF Holders
<1> QED BY <1>1, <1>2, RequestStep DEF Statuses

\* The function of the call is run.
LEMMA FinishMaps ==
    ASSUME Inv, Finish
    PROVE  [Promise!Next]_(Promise!vars)
<1> DEFINE c == Head(stack).call
<1>1. c \in Calls /\ status[c] = "handled"
  <2>1. /\ stack \in Seq(Frames) /\ stack # <<>> /\ Head(stack) = stack[1]
        /\ 1 \in 1..Len(stack) /\ CallbackFrames(stack, status)
    BY StackTypes DEF Finish, Running, StackOK
  <2>2. stack[1].pc = "finish"
    BY <2>1 DEF Finish, Running
  <2> QED BY <2>1, <2>2 DEF CallbackFrames
<1>2. status' = [status EXCEPT ![c] = "notified"] /\ UNCHANGED alive
  BY DEF Finish
<1>3. alive
  BY <1>1, AliveWhenServed DEF Holders
<1> HIDE DEF c
<1> QED BY <1>1, <1>2, <1>3, RequestStep DEF Statuses

\* The end of async_message_cb, whose reference may have been the last one, if
\* no other call holds one.
LEMMA ReleaseMaps ==
    ASSUME Inv, Inv', NoneDropped, Release
    PROVE  [Promise!Next]_(Promise!vars)
<1> DEFINE c == Head(stack).call
           before == [d \in Calls |-> StageOf(status[d])]
           after == [d \in Calls |-> StageOf(status'[d])]
<1>1. c \in Calls /\ status[c] = "notified"
  <2>1. /\ stack \in Seq(Frames) /\ stack # <<>> /\ Head(stack) = stack[1]
        /\ 1 \in 1..Len(stack) /\ CallbackFrames(stack, status)
    BY StackTypes DEF Release, Running, StackOK
  <2>2. stack[1].pc = "release"
    BY <2>1 DEF Release, Running
  <2> QED BY <2>1, <2>2 DEF CallbackFrames
<1>2. status' = [status EXCEPT ![c] = "done"]
  BY DEF Release
<1> HIDE DEF c
<1>3. alive
  BY <1>1, AliveWhenServed DEF Holders
<1>4. after = [before EXCEPT ![c] = "over"] /\ before[c] = "answering"
  BY <1>1, <1>2, StageChange DEF Inv, Statuses, StageOf
<1>5. alive' \in BOOLEAN /\ status \in [Calls -> Statuses]
  BY DEF Inv, TypeOK
<1>6. ASSUME ~alive', NEW d \in Calls
      PROVE  after[d] \notin {"outstanding", "answering"}
  <2>1. status'[d] \in Statuses \ {"dropped"}
    BY <1>2, <1>5 DEF NoneDropped, Statuses
  <2>2. status'[d] \notin {"stuck", "sent", "replied", "handled", "notified"}
    BY <1>6, FreedWhenUnserved DEF Holders
  <2>3. status'[d] \in {"unsent", "done"}
    BY <2>1, <2>2 DEF Statuses
  <2> QED BY <2>3 DEF StageOf
<1> HIDE DEF before, after
<1>7. /\ alive
      /\ before[c] = "answering"
      /\ after = [before EXCEPT ![c] = "over"]
      /\ alive' \in IF \E d \in Calls : after[d] \in {"outstanding", "answering"}
                    THEN {TRUE} ELSE BOOLEAN
  BY <1>3, <1>4, <1>5, <1>6
<1>8. Promise!Finish(c)
  BY <1>7 DEF Promise!Finish, before, after
<1> QED BY <1>1, <1>8 DEF Promise!Next

\* Every other action leaves the calls as they are.
LEMMA QuietActions ==
    ASSUME \/ Update \/ CommitStruct \/ CommitPlain \/ CommitEmit
           \/ CommitDerail \/ Disconnect \/ HandlerReturn \/ Return
           \/ ProcessRequests \/ WalkDerail \/ EnsureUpdate
           \/ ChangedSignal \/ ChangedIdle \/ AppUnref \/ AppRef \/ Over
           \/ UNCHANGED vars
    PROVE  UNCHANGED status /\ (UNCHANGED alive \/ alive' = FALSE)
  BY DEF Update, CommitStruct, CommitPlain, CommitEmit, CommitDerail, Disconnect,
         HandlerReturn, Return,
         ProcessRequests, WalkDerail, EnsureUpdate, ChangedSignal, ChangedIdle,
         AppUnref, AppRef, Over, vars, calls, Unref, Finalize

\* oobs_object_process_requests handles the reply of a call, or skips the call.
LEMMA WalkBlockMaps ==
    ASSUME Inv, Inv', NoneDropped, WalkBlock
    PROVE  [Promise!Next]_(Promise!vars)
<1> DEFINE c == Head(stack).call
           rest == Push(WalkFrame(NodeBelow(c), Head(stack).since), Tail(stack))
<1>1. c \in Calls
  BY DEF WalkBlock, Inv, TypeOK
<1>2. CASE status[c] = "replied" /\ HandleReply(c, rest)
  <2> HIDE DEF c, rest
  <2> QED BY <1>1, <1>2, HandleReplyMaps
<1>3. CASE UNCHANGED <<status, alive>>
  BY <1>3, QuietStep
<1> QED BY <1>2, <1>3 DEF WalkBlock, calls

\* With a connection, no request is dropped.
LEMMA StepNoneDropped ==
    ASSUME Connected, TypeOK, NoneDropped, [Next]_vars
    PROVE  NoneDropped'
  BY DEF NoneDropped, TypeOK, Next, vars, calls, UpdateAsync, CommitAsync, RunMessageAsync,
         BackendReply, DispatchReply, HandleReply, Update, CommitStruct, CommitPlain,
         CommitEmit, CommitDerail, Disconnect, Finish, Release, HandlerReturn, Return,
         ProcessRequests, WalkBlock, WalkDerail, EnsureUpdate, ChangedSignal, ChangedIdle, AppUnref, AppRef, Over

LEMMA StepMaps ==
    ASSUME Inv, Inv', Connected, NoneDropped, [Next]_vars
    PROVE  [Promise!Next]_(Promise!vars)
<1>1. ASSUME NEW c \in Calls, UpdateAsync(c) \/ CommitAsync(c)
      PROVE  [Promise!Next]_(Promise!vars)
  BY <1>1, SendMaps
<1>2. ASSUME NEW c \in Calls, BackendReply(c)
      PROVE  [Promise!Next]_(Promise!vars)
  BY <1>2, ReplyMaps
<1>3. ASSUME NEW c \in Calls, DispatchReply(c)
      PROVE  [Promise!Next]_(Promise!vars)
  BY <1>3, HandleReplyMaps DEF DispatchReply
<1>4. CASE Finish
  BY <1>4, FinishMaps
<1>5. CASE Release
  BY <1>5, ReleaseMaps
<1>6. CASE WalkBlock
  BY <1>6, WalkBlockMaps
<1>7. CASE \/ Update \/ CommitStruct \/ CommitPlain \/ CommitEmit
           \/ CommitDerail \/ Disconnect \/ HandlerReturn \/ Return
           \/ ProcessRequests \/ WalkDerail \/ EnsureUpdate
           \/ ChangedSignal \/ ChangedIdle \/ AppUnref \/ AppRef \/ Over
           \/ UNCHANGED vars
  BY <1>7, QuietActions, QuietStep
<1> QED BY <1>1, <1>2, <1>3, <1>4, <1>5, <1>6, <1>7 DEF Next

LEMMA InitMaps == Init => Promise!Init /\ NoneDropped
  BY DEF Init, Promise!Init, StageOf, NoneDropped

\* Once there has been a connection, be it lost later, OobsObject implements
\* AsyncRequests: every asynchronous request is answered by one call of its function
\* at most, and neither finalization nor any reply, whatever order the main loop and
\* blocking walks take them in, comes between a request and the end of its function.
THEOREM RequestsKept == Connected /\ Spec => KeepsPromise
<1>1. CASE Connected
  <2>1. Inv /\ NoneDropped /\ [Next]_vars => NoneDropped'
    BY <1>1, StepNoneDropped DEF Inv
  <2>2. Inv /\ Inv' /\ NoneDropped /\ [Next]_vars => [Promise!Next]_(Promise!vars)
    BY <1>1, StepMaps
  <2> QED BY <2>1, <2>2, InitMaps, Invariance, PTL DEF Spec, KeepsPromise, Promise!Spec
<1>2. CASE ~Connected
  BY <1>2
<1> QED BY <1>1, <1>2

-----------------------------------------------------------------------------
(* Walks *)

\* The calls that were pending when a walk began have been sent, and those not
\* handled yet are still before it: the list is in decreasing order.
WalkOrder(s, st) ==
    \A i \in 1..Len(s) : s[i].pc = "walk" =>
        \A c \in s[i].since : /\ st[c] \notin {"unsent", "dropped"}
                              /\ st[c] \in {"sent", "replied"} => c <= s[i].call

\* The statuses of calls that have been sent go on, from st to new.
Progress(st, new) ==
    \A c \in Calls : st[c] \notin {"unsent", "dropped"} =>
        /\ new[c] \notin {"unsent", "dropped"}
        /\ new[c] \in {"sent", "replied"} => st[c] \in {"sent", "replied"}

\* Every oobs_object_ensure_update that has started a walk for an answer to an
\* update waits for the walk to end.
Waiting(s, k) ==
    \A i \in 1..Len(s) : s[i].pc = "ensured" =>
        /\ i > 1 /\ s[i - 1].pc = "walk"
        /\ \E c \in s[i - 1].since : k[c] = "update"

\* No update has been answered, or been made on a lost connection.
NoneAnswered == \A c \in Calls :
    kind[c] = "update" => status[c] \notin {"stuck", "handled", "notified", "done"}

\* The object has been updated, or an update of it has failed.
Tried == updated \/ failed > 0

WalkInv ==
    /\ WalkOrder(stack, status)
    /\ Tried \/ (Waiting(stack, kind) /\ NoneAnswered)

LEMMA SinceTypes ==
    ASSUME NEW s \in Seq(Frames), NEW i \in 1..Len(s)
    PROVE  s[i] \in Frames /\ s[i].since \in SUBSET Calls /\ s[i].call \in Int
<1>1. s[i] \in Frames
  OBVIOUS
<1> QED BY <1>1, ConstantsAssumption DEF Frames, Calls, NoCall

LEMMA OrderProgress ==
    ASSUME NEW s \in Seq(Frames), NEW st, NEW new, WalkOrder(s, st), Progress(st, new)
    PROVE  WalkOrder(s, new)
  BY SinceTypes DEF WalkOrder, Progress

LEMMA OrderPush ==
    ASSUME NEW s \in Seq(Frames), NEW st, WalkOrder(s, st),
           NEW f \in Frames,
           f.pc = "walk" => \A c \in f.since : /\ st[c] \notin {"unsent", "dropped"}
                                               /\ st[c] \in {"sent", "replied"} => c <= f.call
    PROVE  WalkOrder(Push(f, s), st)
<1> DEFINE p == Push(f, s)
<1>1. /\ Len(p) = Len(s) + 1 /\ Len(s) \in Nat /\ p[1] = f
      /\ \A i \in 2..(Len(s) + 1) : i - 1 \in 1..Len(s) /\ p[i] = s[i - 1]
  BY PushProperties
<1> HIDE DEF p
<1>2. ASSUME NEW i \in 1..Len(p), p[i].pc = "walk", NEW c \in p[i].since
      PROVE  /\ st[c] \notin {"unsent", "dropped"}
             /\ st[c] \in {"sent", "replied"} => c <= p[i].call
  <2>1. CASE i = 1
    BY <1>1, <1>2, <2>1
  <2>2. CASE i # 1
    <3>1. i - 1 \in 1..Len(s) /\ p[i] = s[i - 1]
      BY <1>1, <2>2
    <3> QED BY <1>2, <3>1 DEF WalkOrder
  <2> QED BY <2>1, <2>2
<1> QED BY <1>2 DEF WalkOrder, p

LEMMA OrderTail ==
    ASSUME NEW s \in Seq(Frames), s # <<>>, NEW st, WalkOrder(s, st)
    PROVE  WalkOrder(Tail(s), st)
<1>1. /\ Len(s) \in Nat \ {0} /\ Len(Tail(s)) = Len(s) - 1
      /\ \A i \in 1..(Len(s) - 1) : Tail(s)[i] = s[i + 1]
  BY TailProperties
<1>2. ASSUME NEW i \in 1..Len(Tail(s))
      PROVE  i + 1 \in 1..Len(s) /\ Tail(s)[i] = s[i + 1]
  BY <1>1
<1> QED BY <1>2 DEF WalkOrder

LEMMA WaitingPush ==
    ASSUME NEW s \in Seq(Frames), NEW k, Waiting(s, k), NEW f \in Frames, f.pc # "ensured"
    PROVE  Waiting(Push(f, s), k)
<1> DEFINE p == Push(f, s)
<1>1. /\ Len(p) = Len(s) + 1 /\ Len(s) \in Nat /\ p[1] = f
      /\ \A i \in 2..(Len(s) + 1) : i - 1 \in 1..Len(s) /\ p[i] = s[i - 1]
  BY PushProperties
<1> HIDE DEF p
<1>2. ASSUME NEW i \in 1..Len(p), p[i].pc = "ensured"
      PROVE  /\ i > 1 /\ p[i - 1].pc = "walk"
             /\ \E c \in p[i - 1].since : k[c] = "update"
  <2>1. i # 1
    BY <1>1, <1>2
  <2>2. i - 1 \in 1..Len(s) /\ p[i] = s[i - 1]
    BY <1>1, <2>1
  <2>3. /\ i - 1 > 1 /\ s[i - 2].pc = "walk"
        /\ \E c \in s[i - 2].since : k[c] = "update"
    <3>1. (i - 1) - 1 = i - 2
      BY <2>2
    <3> QED BY <1>2, <2>2, <3>1 DEF Waiting
  <2>4. p[i - 1] = s[i - 2]
    <3>1. i - 1 \in 2..(Len(s) + 1) /\ (i - 1) - 1 = i - 2
      BY <1>1, <2>2, <2>3
    <3> QED BY <1>1, <3>1
  <2> QED BY <2>2, <2>3, <2>4
<1> QED BY <1>2 DEF Waiting, p

\* Only the end of a walk for an update lets an oobs_object_ensure_update go on.
LEMMA WaitingTail ==
    ASSUME NEW s \in Seq(Frames), s # <<>>, NEW k, Waiting(s, k),
           Head(s).pc # "walk" \/ \A c \in Head(s).since : k[c] # "update"
    PROVE  Waiting(Tail(s), k)
<1> DEFINE t == Tail(s)
<1>1. /\ Len(s) \in Nat \ {0} /\ Len(t) = Len(s) - 1 /\ Head(s) = s[1]
      /\ \A i \in 1..(Len(s) - 1) : t[i] = s[i + 1]
  BY TailProperties
<1> HIDE DEF t
<1>2. ASSUME NEW i \in 1..Len(t), t[i].pc = "ensured"
      PROVE  /\ i > 1 /\ t[i - 1].pc = "walk"
             /\ \E c \in t[i - 1].since : k[c] = "update"
  <2>1. i + 1 \in 1..Len(s) /\ t[i] = s[i + 1] /\ (i + 1) - 1 = i
    BY <1>1
  <2>2. s[i].pc = "walk" /\ \E c \in s[i].since : k[c] = "update"
    BY <1>2, <2>1 DEF Waiting
  <2>3. i # 1
    BY <1>1, <2>2
  <2>4. t[i - 1] = s[i]
    <3>1. i - 1 \in 1..(Len(s) - 1) /\ (i - 1) + 1 = i
      BY <1>1, <2>3
    <3> QED BY <1>1, <3>1
  <2> QED BY <2>2, <2>3, <2>4
<1> QED BY <1>2 DEF Waiting, t

\* A walk that goes on to another node is waited for as before.
LEMMA WaitingWalk ==
    ASSUME NEW s \in Seq(Frames), s # <<>>, NEW k, Waiting(s, k), Head(s).pc = "walk",
           NEW c \in Calls \cup {NoCall}
    PROVE  Waiting(Push(WalkFrame(c, Head(s).since), Tail(s)), k)
<1> DEFINE f == WalkFrame(c, Head(s).since)
           p == Push(f, Tail(s))
<1>1. /\ Len(s) \in Nat \ {0} /\ Len(Tail(s)) = Len(s) - 1 /\ Head(s) = s[1]
      /\ Tail(s) \in Seq(Frames) /\ Head(s) \in Frames
      /\ \A i \in 1..(Len(s) - 1) : Tail(s)[i] = s[i + 1]
  BY TailProperties
<1>2. f \in Frames /\ f.pc = "walk" /\ f.since = s[1].since
  BY <1>1, FrameTypes DEF WalkFrame, Frames
<1> HIDE DEF f
<1>3. /\ Len(p) = Len(s) /\ p[1] = f
      /\ \A i \in 2..Len(s) : i - 1 \in 1..(Len(s) - 1) /\ p[i] = Tail(s)[i - 1]
  <2> DEFINE t == Tail(s)
  <2>1. t \in Seq(Frames) /\ Len(t) + 1 = Len(s)
    BY <1>1
  <2> HIDE DEF t
  <2>2. /\ Len(Push(f, t)) = Len(t) + 1 /\ Push(f, t)[1] = f
        /\ \A i \in 2..(Len(t) + 1) : i - 1 \in 1..Len(t) /\ Push(f, t)[i] = t[i - 1]
    BY <1>2, <2>1, PushProperties
  <2>3. Len(t) = Len(s) - 1
    BY <1>1 DEF t
  <2> QED BY <2>1, <2>2, <2>3 DEF t
<1> HIDE DEF p
<1>4. \A i \in 2..Len(s) : p[i] = s[i]
  BY <1>1, <1>3
<1>5. ASSUME NEW i \in 1..Len(p), p[i].pc = "ensured"
      PROVE  /\ i > 1 /\ p[i - 1].pc = "walk"
             /\ \E d \in p[i - 1].since : k[d] = "update"
  <2>1. i \in 2..Len(s) /\ i \in 1..Len(s) /\ p[i] = s[i]
    BY <1>1, <1>2, <1>3, <1>4, <1>5
  <2>2. s[i - 1].pc = "walk" /\ \E d \in s[i - 1].since : k[d] = "update"
    BY <1>5, <2>1 DEF Waiting
  <2>3. p[i - 1].pc = "walk" /\ p[i - 1].since = s[i - 1].since
    <3>1. CASE i = 2
      <4>1. i - 1 = 1
        BY <3>1
      <4> QED BY <1>2, <1>3, <4>1
    <3>2. CASE i # 2
      <4>1. i - 1 \in 2..Len(s)
        BY <2>1, <3>2
      <4> QED BY <1>4, <2>2, <4>1
    <3> QED BY <3>1, <3>2
  <2> QED BY <2>1, <2>2, <2>3
<1> QED BY <1>5 DEF Waiting, p, f

\* The function that waits is put on the stack below its walk.
LEMMA WaitingEnsured ==
    ASSUME NEW s \in Seq(Frames), NEW k, Waiting(s, k),
           NEW c \in Calls \cup {NoCall}, NEW w \in SUBSET Calls,
           \E d \in w : k[d] = "update"
    PROVE  Waiting(Push(WalkFrame(c, w), Push(Frame("ensured", NoCall), s)), k)
<1> DEFINE e == Frame("ensured", NoCall)
           f == WalkFrame(c, w)
           q == Push(e, s)
           p == Push(f, q)
<1>1. /\ e \in Frames /\ e.pc = "ensured"
      /\ f \in Frames /\ f.pc = "walk" /\ f.since = w
  BY FrameTypes DEF WalkFrame, Pcs
<1> HIDE DEF e, f
<1>2. /\ Len(q) = Len(s) + 1 /\ Len(s) \in Nat /\ q[1] = e /\ q \in Seq(Frames)
      /\ \A i \in 2..(Len(s) + 1) : i - 1 \in 1..Len(s) /\ q[i] = s[i - 1]
  BY <1>1, PushProperties
<1> HIDE DEF q
<1>3. /\ Len(p) = Len(q) + 1 /\ p[1] = f
      /\ \A i \in 2..(Len(q) + 1) : i - 1 \in 1..Len(q) /\ p[i] = q[i - 1]
  BY <1>1, <1>2, PushProperties
<1> HIDE DEF p
<1>4. \A i \in 3..Len(p) : i - 2 \in 1..Len(s) /\ p[i] = s[i - 2]
  <2> TAKE i \in 3..Len(p)
  <2>1. i \in 2..(Len(q) + 1) /\ i - 1 \in 2..(Len(s) + 1) /\ (i - 1) - 1 = i - 2
    BY <1>2, <1>3
  <2> QED BY <1>2, <1>3, <2>1
<1>5. ASSUME NEW i \in 1..Len(p), p[i].pc = "ensured"
      PROVE  /\ i > 1 /\ p[i - 1].pc = "walk"
             /\ \E d \in p[i - 1].since : k[d] = "update"
  <2>1. i # 1
    BY <1>1, <1>3, <1>5
  <2>2. CASE i = 2
    <3>1. i - 1 = 1
      BY <2>2
    <3> QED BY <1>1, <1>3, <2>2, <3>1
  <2>3. CASE i # 2
    <3>1. i \in 3..Len(p)
      BY <1>2, <1>3, <2>1, <2>3
    <3>2. /\ i - 2 > 1 /\ s[(i - 2) - 1].pc = "walk"
          /\ \E d \in s[(i - 2) - 1].since : k[d] = "update"
      BY <1>4, <1>5, <3>1 DEF Waiting
    <3>3. i - 1 \in 3..Len(p) /\ (i - 1) - 2 = (i - 2) - 1
      BY <3>1, <3>2
    <3>4. p[i - 1] = s[(i - 2) - 1]
      BY <1>4, <3>3
    <3> QED BY <3>1, <3>2, <3>4
  <2> QED BY <2>1, <2>2, <2>3
<1> QED BY <1>5 DEF Waiting, p, q, e, f

\* Calls that have been sent keep their kind.
LEMMA WaitingKind ==
    ASSUME NEW s \in Seq(Frames), NEW st, WalkOrder(s, st), NEW k, NEW new, Waiting(s, k),
           \A c \in Calls : st[c] # "unsent" => new[c] = k[c]
    PROVE  Waiting(s, new)
<1> SUFFICES ASSUME NEW i \in 1..Len(s), s[i].pc = "ensured"
             PROVE  /\ i > 1 /\ s[i - 1].pc = "walk"
                    /\ \E c \in s[i - 1].since : new[c] = "update"
  BY DEF Waiting
<1>1. i > 1 /\ s[i - 1].pc = "walk"
  BY DEF Waiting
<1>2. PICK c \in s[i - 1].since : k[c] = "update"
  BY DEF Waiting
<1>3. i - 1 \in 1..Len(s)
  BY <1>1
<1>4. c \in Calls /\ st[c] # "unsent"
  BY <1>1, <1>3, SinceTypes DEF WalkOrder
<1> QED BY <1>1, <1>2, <1>4

\* The node a walk goes on to is the greatest below.
LEMMA NodeBelowGreatest ==
    ASSUME NEW c \in Int, pending_calls \in SUBSET Calls,
           NEW d \in pending_calls, d < c
    PROVE  d <= NodeBelow(c)
<1> DEFINE lower == {e \in pending_calls : e < c}
<1>1. lower # {} /\ d \in lower /\ lower \in SUBSET Calls
  OBVIOUS
<1>2. \E e \in lower : \A x \in lower : x <= e
  BY <1>1, GreatestCall
<1> QED BY <1>1, <1>2 DEF NodeBelow

-----------------------------------------------------------------------------
(* The actions and the walks *)

LEMMA TriedKept == ASSUME TypeOK, Tried, [Next]_vars PROVE Tried'
  BY DEF Tried, TypeOK, Next, vars, calls, UpdateAsync, CommitAsync, RunMessageAsync,
         BackendReply, DispatchReply, HandleReply, Update, RunUpdate, CommitStruct,
         CommitPlain, CommitEmit, CommitDerail, Finish, Release, HandlerReturn, Return,
         ProcessRequests, WalkBlock, WalkDerail, EnsureUpdate, ChangedSignal, ChangedIdle,
         AppUnref, AppRef, Disconnect, Over

\* Frames that neither walk nor wait for a walk.
SimpleFrames == {f \in Frames : f.pc \notin {"walk", "ensured"}}

LEMMA SimpleTypes ==
    /\ Handler \in SimpleFrames
    /\ \A pc \in Pcs \ {"walk", "ensured"}, c \in Calls \cup {NoCall} :
          Frame(pc, c) \in SimpleFrames
  BY FrameTypes DEF SimpleFrames

LEMMA SimplePush ==
    ASSUME NEW s \in Seq(Frames), NEW st, WalkOrder(s, st), NEW f \in SimpleFrames
    PROVE  /\ Push(f, s) \in Seq(Frames) /\ WalkOrder(Push(f, s), st)
           /\ \A k : Waiting(s, k) => Waiting(Push(f, s), k)
<1>1. f \in Frames /\ f.pc # "walk" /\ f.pc # "ensured"
  BY DEF SimpleFrames
<1> QED BY <1>1, PushProperties, OrderPush, WaitingPush

LEMMA SimpleTail ==
    ASSUME NEW s \in Seq(Frames), s # <<>>, NEW st, WalkOrder(s, st), Head(s).pc # "walk"
    PROVE  /\ Tail(s) \in Seq(Frames) /\ WalkOrder(Tail(s), st)
           /\ \A k : Waiting(s, k) => Waiting(Tail(s), k)
  BY TailProperties, OrderTail, WaitingTail

\* What is left to show of a step that changes no call.
LEMMA SameCalls ==
    ASSUME WalkInv, TypeOK, [Next]_vars, UNCHANGED calls, WalkOrder(stack', status),
           Waiting(stack, kind) /\ NoneAnswered => Tried' \/ Waiting(stack', kind)
    PROVE  WalkInv'
<1>1. status' = status /\ kind' = kind
  BY DEF calls
<1>2. NoneAnswered' <=> NoneAnswered
  BY <1>1 DEF NoneAnswered
<1>3. Waiting(stack', kind') <=> Waiting(stack', kind)
  BY <1>1
<1>4. WalkOrder(stack', status')
  BY <1>1
<1>5. Tried => Tried'
  BY TriedKept
<1> QED BY <1>2, <1>3, <1>4, <1>5 DEF WalkInv

\* An update that ends does so with the object updated, or counted as failed.
LEMMA RunUpdateTries == ASSUME TypeOK, NEW below, RunUpdate(below) PROVE Tried'
  BY DEF RunUpdate, Tried, TypeOK

LEMMA WalkQuiet ==
    ASSUME WalkInv, TypeOK, [Next]_vars,
           \/ Update \/ CommitStruct \/ CommitPlain \/ CommitEmit \/ HandlerReturn
           \/ CommitDerail \/ Disconnect
           \/ WalkDerail \/ ChangedSignal \/ ChangedIdle \/ AppUnref \/ AppRef \/ Over
           \/ UNCHANGED vars
    PROVE  WalkInv'
<1>1. stack \in Seq(Frames) /\ WalkOrder(stack, status)
  BY DEF TypeOK, WalkInv
<1>2. UNCHANGED calls
  BY DEF calls, Update, CommitStruct, CommitPlain, CommitEmit, CommitDerail, Disconnect,
         HandlerReturn, WalkDerail, ChangedSignal, ChangedIdle, AppUnref, AppRef, Over, vars
<1>3. CASE Update
  <2>1. Tried' /\ (stack' = stack \/ stack' = Push(Handler, stack))
    BY <1>3, RunUpdateTries DEF Update, RunUpdate, Emit
  <2> QED BY <1>1, <1>2, <2>1, SimpleTypes, SimplePush, SameCalls
<1>4. CASE CommitStruct \/ CommitPlain
  <2>1. PICK f \in SimpleFrames : stack' = Push(Handler, Push(f, stack))
    BY <1>4, SimpleTypes DEF CommitStruct, CommitPlain, Emit, Pcs
  <2>2. /\ Push(f, stack) \in Seq(Frames) /\ WalkOrder(Push(f, stack), status)
        /\ Waiting(stack, kind) => Waiting(Push(f, stack), kind)
    BY <1>1, SimplePush
  <2>3. WalkOrder(stack', status) /\ (Waiting(stack, kind) => Waiting(stack', kind))
    BY <2>1, <2>2, SimpleTypes, SimplePush
  <2> QED BY <1>2, <2>3, SameCalls
<1>5. CASE CommitEmit
  <2>1. /\ stack # <<>> /\ Head(stack).pc # "walk"
        /\ stack' = Push(Handler, Push(Frame("return", NoCall), Tail(stack)))
    BY <1>5 DEF CommitEmit, Emit, Running
  <2> DEFINE t == Tail(stack)
             p == Push(Frame("return", NoCall), t)
  <2>2. /\ t \in Seq(Frames) /\ WalkOrder(t, status)
        /\ Waiting(stack, kind) => Waiting(t, kind)
    BY <1>1, <2>1, SimpleTail
  <2>3. Frame("return", NoCall) \in SimpleFrames
    BY SimpleTypes DEF Pcs
  <2>4. stack' = Push(Handler, p)
    BY <2>1
  <2> HIDE DEF t
  <2>5. /\ p \in Seq(Frames) /\ WalkOrder(p, status)
        /\ Waiting(t, kind) => Waiting(p, kind)
    BY <2>2, <2>3, SimplePush
  <2> HIDE DEF p
  <2>6. WalkOrder(stack', status) /\ (Waiting(stack, kind) => Waiting(stack', kind))
    BY <2>2, <2>4, <2>5, SimpleTypes, SimplePush
  <2> QED BY <1>2, <2>6, SameCalls
<1>6. CASE HandlerReturn
  <2>1. stack # <<>> /\ Head(stack).pc # "walk" /\ stack' = Tail(stack)
    BY <1>6 DEF HandlerReturn, Running
  <2> QED BY <1>1, <1>2, <2>1, SimpleTail, SameCalls
<1>7. CASE ChangedIdle
  <2>1. stack' = Push(Handler, stack)
    BY <1>7 DEF ChangedIdle, Emit
  <2> QED BY <1>1, <1>2, <2>1, SimpleTypes, SimplePush, SameCalls
<1>8. CASE \/ CommitDerail \/ Disconnect
           \/ WalkDerail \/ ChangedSignal \/ AppUnref \/ AppRef \/ Over \/ UNCHANGED vars
  <2>1. stack' = stack
    BY <1>8 DEF CommitDerail, Disconnect, WalkDerail, ChangedSignal, AppUnref, AppRef, Over,
                vars
  <2> QED BY <1>1, <1>2, <2>1, SameCalls
<1> QED BY <1>3, <1>4, <1>5, <1>6, <1>7, <1>8

\* The calls that are pending when a walk begins at the head of the list
LEMMA WalkStarts ==
    ASSUME Inv, NEW s \in Seq(Frames), WalkOrder(s, status)
    PROVE  /\ WalkFrame(ListHead, pending_calls) \in Frames
           /\ WalkOrder(Push(WalkFrame(ListHead, pending_calls), s), status)
<1>1. pending_calls \in SUBSET Calls /\ MaxCalls + 1 \in Int
  BY ConstantsAssumption DEF Inv, TypeOK
<1>2. ListHead \in Calls \cup {NoCall}
  BY <1>1, NodeBelowProperties DEF ListHead
<1> DEFINE f == WalkFrame(ListHead, pending_calls)
<1>3. f \in Frames /\ f.call = ListHead /\ f.since = pending_calls
  BY <1>1, <1>2, FrameTypes DEF WalkFrame
<1>4. ASSUME NEW c \in pending_calls
      PROVE  c <= ListHead /\ status[c] \notin {"unsent", "dropped"}
  <2>1. c < MaxCalls + 1
    BY <1>1, ConstantsAssumption DEF Calls
  <2>2. c <= ListHead
    BY <1>1, <2>1, NodeBelowGreatest DEF ListHead
  <2> QED BY <2>2 DEF Inv, PendingExact
<1> HIDE DEF f
<1> QED BY <1>3, <1>4, OrderPush DEF f

LEMMA WalkProcessRequests ==
    ASSUME Inv, WalkInv, [Next]_vars, ProcessRequests
    PROVE  WalkInv'
<1> DEFINE f == WalkFrame(ListHead, pending_calls)
<1>1. /\ stack \in Seq(Frames) /\ WalkOrder(stack, status) /\ TypeOK
      /\ UNCHANGED calls /\ stack' = Push(f, stack)
  BY DEF Inv, TypeOK, WalkInv, ProcessRequests
<1>2. f \in Frames /\ WalkOrder(stack', status) /\ f.pc # "ensured"
  BY <1>1, WalkStarts DEF WalkFrame
<1> HIDE DEF f
<1>3. Waiting(stack, kind) => Waiting(stack', kind)
  BY <1>1, <1>2, WaitingPush
<1> QED BY <1>1, <1>2, <1>3, SameCalls

\* oobs_object_ensure_update walks the list for an update that it finds counted.
LEMMA WalkEnsureUpdate ==
    ASSUME Inv, WalkInv, [Next]_vars, EnsureUpdate
    PROVE  WalkInv'
<1> DEFINE e == Frame("ensured", NoCall)
           f == WalkFrame(ListHead, pending_calls)
           below == Push(e, stack)
<1>1. /\ stack \in Seq(Frames) /\ WalkOrder(stack, status) /\ TypeOK /\ UNCHANGED calls
  BY DEF Inv, TypeOK, WalkInv, EnsureUpdate
<1>2. e \in Frames /\ e.pc # "walk"
  BY FrameTypes DEF Pcs
<1> HIDE DEF e
<1>3. below \in Seq(Frames) /\ WalkOrder(below, status)
  BY <1>1, <1>2, PushProperties, OrderPush
<1> HIDE DEF below
<1>4. CASE update_requests > 0
  <2>1. stack' = Push(f, below)
    BY <1>4 DEF EnsureUpdate, below, e
  <2>2. WalkOrder(stack', status)
    BY <1>3, <2>1, WalkStarts
  <2>3. ASSUME ~Tried, Waiting(stack, kind)
        PROVE  Waiting(stack', kind)
    <3>1. failed = 0
      BY <2>3, <1>1 DEF Tried, TypeOK
    <3>2. IsFiniteSet(Outstanding) /\ Cardinality(Outstanding) \in Nat
      BY FiniteCalls DEF Outstanding
    <3>3. Cardinality(Outstanding) # 0
      BY <1>4, <3>1, <3>2 DEF Inv, RequestCount
    <3>4. PICK c \in Outstanding : TRUE
      BY <3>3, FS_EmptySet
    <3>5. c \in pending_calls /\ kind[c] = "update"
      BY DEF Outstanding, Inv, PendingExact
    <3>6. ListHead \in Calls \cup {NoCall} /\ pending_calls \in SUBSET Calls
      BY <1>1, NodeBelowProperties, ConstantsAssumption DEF ListHead, TypeOK
    <3> QED BY <1>1, <2>1, <2>3, <3>5, <3>6, WaitingEnsured DEF below, e
  <2>4. Tried => Tried'
    BY <1>1, TriedKept
  <2> QED BY <1>1, <2>2, <2>3, <2>4, SameCalls
<1>5. CASE ~(update_requests > 0)
  <2>1. RunUpdate(below)
    BY <1>5 DEF EnsureUpdate, below, e
  <2>2. stack' = below \/ stack' = Push(Handler, below)
    BY <2>1 DEF RunUpdate, Emit
  <2>3. WalkOrder(stack', status)
    BY <1>3, <2>2, SimpleTypes, SimplePush
  <2> QED BY <1>1, <2>1, <2>3, RunUpdateTries, SameCalls
<1> QED BY <1>4, <1>5

\* When a walk returns, every call it was begun for has been handled.
LEMMA WalkReturn ==
    ASSUME Inv, WalkInv, [Next]_vars, Return
    PROVE  WalkInv'
<1>1. /\ stack \in Seq(Frames) /\ WalkOrder(stack, status) /\ TypeOK
      /\ stack # <<>> /\ stack' = Tail(stack) /\ UNCHANGED calls
  BY DEF Inv, TypeOK, WalkInv, Return, Running
<1>2. CASE Head(stack).pc # "walk"
  BY <1>1, <1>2, SimpleTail, SameCalls
<1>3. CASE Head(stack).pc = "walk"
  <2>1. Head(stack).call = NoCall /\ Head(stack) = stack[1] /\ 1 \in 1..Len(stack)
    BY <1>1, <1>3 DEF Return, Running
  <2>2. ASSUME NoneAnswered, NEW c \in Head(stack).since
        PROVE  kind[c] # "update"
    <3>1. c \in Calls /\ status[c] \in Statuses
      BY <1>1, <2>1, SinceTypes DEF TypeOK
    <3>2. status[c] \notin {"unsent", "dropped"}
      BY <1>1, <1>3, <2>1 DEF WalkOrder
    <3>3. status[c] \notin {"sent", "replied"}
      <4>1. ~(c <= NoCall)
        BY <3>1, ConstantsAssumption DEF Calls, NoCall
      <4> QED BY <1>1, <1>3, <2>1, <4>1 DEF WalkOrder
    <3>4. status[c] \in {"stuck", "handled", "notified", "done"}
      BY <3>1, <3>2, <3>3 DEF Statuses
    <3> QED BY <2>2, <3>1, <3>4 DEF NoneAnswered
  <2>3. Waiting(stack, kind) /\ NoneAnswered => Waiting(stack', kind)
    BY <1>1, <2>2, WaitingTail
  <2>4. WalkOrder(stack', status)
    BY <1>1, OrderTail
  <2> QED BY <1>1, <2>3, <2>4, SameCalls
<1> QED BY <1>2, <1>3

\* A step of one call from a status to a later one, below the stack it leaves.
LEMMA OneCall ==
    ASSUME TypeOK, WalkInv, [Next]_vars, NEW c \in Calls, NEW to \in Statuses,
           NEW below \in Seq(Frames),
           status' = [status EXCEPT ![c] = to],
           \A d \in Calls : d # c \/ status[c] # "unsent" => kind'[d] = kind[d],
           WalkOrder(below, status'),
           Waiting(stack, kind) => Waiting(below, kind),
           kind'[c] = "update" /\ to \in {"stuck", "handled", "notified", "done"}
               => Tried' \/ status[c] \in {"stuck", "handled", "notified", "done"},
           status[c] = "unsent" => below = stack,
           \/ stack' = below
           \/ \E f \in SimpleFrames : stack' = Push(f, below)
           \/ \E f, g \in SimpleFrames : stack' = Push(f, Push(g, below))
    PROVE  WalkInv'
<1>1. WalkOrder(stack', status') /\ (Waiting(below, kind') => Waiting(stack', kind'))
  <2>1. CASE stack' = below
    BY <2>1
  <2>2. ASSUME NEW f \in SimpleFrames, stack' = Push(f, below)
        PROVE  WalkOrder(stack', status') /\ (Waiting(below, kind') => Waiting(stack', kind'))
    BY <2>2, SimplePush
  <2>3. ASSUME NEW f \in SimpleFrames, NEW g \in SimpleFrames, stack' = Push(f, Push(g, below))
        PROVE  WalkOrder(stack', status') /\ (Waiting(below, kind') => Waiting(stack', kind'))
    <3>1. /\ Push(g, below) \in Seq(Frames) /\ WalkOrder(Push(g, below), status')
          /\ Waiting(below, kind') => Waiting(Push(g, below), kind')
      BY SimplePush
    <3>2. /\ WalkOrder(Push(f, Push(g, below)), status')
          /\ Waiting(Push(g, below), kind') => Waiting(Push(f, Push(g, below)), kind')
      BY <3>1, SimplePush
    <3> QED BY <2>3, <3>1, <3>2
  <2> QED BY <2>1, <2>2, <2>3
<1>2. Tried => Tried'
  BY TriedKept
<1>3. ASSUME ~Tried', ~Tried
      PROVE  Waiting(below, kind')
  <2>1. Waiting(stack, kind) /\ WalkOrder(stack, status) /\ stack \in Seq(Frames)
    BY <1>3 DEF WalkInv, TypeOK
  <2>2. CASE status[c] # "unsent"
    <3>1. \A d \in Calls : status'[d] # "unsent" => kind'[d] = kind[d]
      BY <2>2
    <3> QED BY <2>1, <3>1, WaitingKind
  <2>3. CASE status[c] = "unsent"
    <3>1. \A d \in Calls : status[d] # "unsent" => kind'[d] = kind[d]
      BY <2>3
    <3> QED BY <2>1, <2>3, <3>1, WaitingKind
  <2> QED BY <2>2, <2>3
<1>4. ASSUME ~Tried', ~Tried
      PROVE  NoneAnswered'
  <2>1. NoneAnswered /\ status \in [Calls -> Statuses]
    BY <1>4 DEF WalkInv, TypeOK
  <2> SUFFICES ASSUME NEW d \in Calls, kind'[d] = "update"
               PROVE  status'[d] \notin {"stuck", "handled", "notified", "done"}
    BY DEF NoneAnswered
  <2>2. CASE d # c
    BY <2>1, <2>2 DEF NoneAnswered
  <2>3. CASE d = c
    <3>1. status'[c] = to
      BY <2>1
    <3>2. ASSUME to \in {"stuck", "handled", "notified", "done"}
          PROVE  FALSE
      <4>1. status[c] \in {"stuck", "handled", "notified", "done"}
        BY <1>4, <2>3, <3>2
      <4>2. kind[c] = "update"
        BY <2>3, <4>1
      <4> QED BY <2>1, <4>1, <4>2 DEF NoneAnswered
    <3> QED BY <2>3, <3>1, <3>2
  <2> QED BY <2>2, <2>3
<1> QED BY <1>1, <1>2, <1>3, <1>4 DEF WalkInv

\* A call is sent, or the backend answers it.
LEMMA WalkSend ==
    ASSUME TypeOK, WalkInv, [Next]_vars, NEW c \in Calls,
           UpdateAsync(c) \/ CommitAsync(c) \/ BackendReply(c)
    PROVE  WalkInv'
<1>1. stack \in Seq(Frames) /\ status \in [Calls -> Statuses] /\ WalkOrder(stack, status)
      /\ kind \in [Calls -> {"update", "commit"}]
  BY DEF TypeOK, WalkInv
<1>2. stack' = stack
  BY DEF UpdateAsync, CommitAsync, RunMessageAsync, BackendReply
<1>3. PICK to \in {"sent", "stuck", "dropped", "replied"} :
        /\ status' = [status EXCEPT ![c] = to]
        /\ to = "replied" <=> status[c] = "sent"
        /\ to # "replied" <=> status[c] = "unsent"
  BY DEF UpdateAsync, CommitAsync, RunMessageAsync, IsNext, BackendReply
<1>4. \A d \in Calls : d # c \/ status[c] # "unsent" => kind'[d] = kind[d]
  BY <1>1, <1>3 DEF UpdateAsync, CommitAsync, RunMessageAsync, IsNext, BackendReply
<1>5. Progress(status, status')
  BY <1>1, <1>3 DEF Progress
<1>6. WalkOrder(stack, status')
  BY <1>1, <1>5, OrderProgress
<1>7. to \in Statuses
  BY <1>3 DEF Statuses
<1>8. kind'[c] = "update" /\ to = "stuck" => Tried'
  <2> SUFFICES ASSUME kind'[c] = "update", to = "stuck" PROVE Tried'
    OBVIOUS
  <2>1. status'[c] = "stuck" /\ status[c] # "stuck"
    BY <1>1, <1>3
  <2>2. UpdateAsync(c) /\ ~online
    BY <1>1, <2>1 DEF UpdateAsync, CommitAsync, RunMessageAsync, BackendReply
  <2> QED BY <2>2 DEF UpdateAsync, Tried, TypeOK
<1> QED BY <1>1, <1>2, <1>3, <1>4, <1>6, <1>7, <1>8, OneCall

\* A reply is handled on top of other frames.
LEMMA WalkHandleReply ==
    ASSUME TypeOK, WalkInv, [Next]_vars, NEW c \in Calls, NEW below \in Seq(Frames),
           status[c] = "replied", HandleReply(c, below),
           WalkOrder(below, status'), Waiting(stack, kind) => Waiting(below, kind)
    PROVE  WalkInv'
<1>1. /\ status' = [status EXCEPT ![c] = "handled"] /\ "handled" \in Statuses
      /\ kind' = kind
  BY DEF HandleReply, Statuses
<1>2. Frame("finish", c) \in SimpleFrames /\ Handler \in SimpleFrames
  BY SimpleTypes DEF Pcs
<1>3. \/ stack' = Push(Handler, Push(Frame("finish", c), below))
      \/ stack' = Push(Frame("finish", c), below)
  BY DEF HandleReply, Emit
<1>4. kind[c] = "update" => Tried'
  BY DEF HandleReply, Tried, TypeOK
<1> QED BY <1>1, <1>2, <1>3, <1>4, OneCall

LEMMA WalkDispatch ==
    ASSUME TypeOK, WalkInv, [Next]_vars, NEW c \in Calls, DispatchReply(c)
    PROVE  WalkInv'
<1>1. /\ stack \in Seq(Frames) /\ status \in [Calls -> Statuses] /\ WalkOrder(stack, status)
      /\ status[c] = "replied" /\ HandleReply(c, stack)
      /\ status' = [status EXCEPT ![c] = "handled"]
  BY DEF TypeOK, WalkInv, DispatchReply, HandleReply
<1>2. Progress(status, status')
  BY <1>1 DEF Progress
<1>3. WalkOrder(stack, status')
  BY <1>1, <1>2, OrderProgress
<1> QED BY <1>1, <1>3, WalkHandleReply

\* The call a walk blocks on is handled, and the walk goes on to the next node.
LEMMA WalkBlocks ==
    ASSUME Inv, WalkInv, [Next]_vars, WalkBlock
    PROVE  WalkInv'
<1> DEFINE h == Head(stack)
           c == h.call
           f == WalkFrame(NodeBelow(c), h.since)
           t == Tail(stack)
           rest == Push(f, t)
<1>1. /\ stack \in Seq(Frames) /\ stack # <<>> /\ TypeOK /\ WalkOrder(stack, status)
      /\ status \in [Calls -> Statuses] /\ pending_calls \in SUBSET Calls
  BY DEF Inv, TypeOK, WalkInv, WalkBlock, Running
<1>2. /\ c \in pending_calls /\ c \in Calls /\ c \in Int /\ h.pc = "walk"
      /\ \/ status[c] = "replied" /\ HandleReply(c, rest)
         \/ /\ status[c] \in {"handled", "stuck"} /\ stack' = rest
            /\ UNCHANGED calls
  <2>1. /\ c \in pending_calls /\ h.pc = "walk"
        /\ \/ status[c] = "replied" /\ HandleReply(c, rest)
           \/ /\ status[c] \in {"handled", "stuck"} /\ stack' = rest
              /\ UNCHANGED calls
    BY DEF WalkBlock, Running
  <2> HIDE DEF c
  <2>2. c \in Calls
    BY <1>1, <2>1
  <2>3. c \in Int
    BY <2>2, ConstantsAssumption DEF Calls
  <2> QED BY <2>1, <2>2, <2>3
<1>3. /\ h = stack[1] /\ 1 \in 1..Len(stack) /\ h.since \in SUBSET Calls
      /\ t \in Seq(Frames)
  BY <1>1, SinceTypes
<1>4. NodeBelow(c) \in Calls \cup {NoCall}
  BY <1>1, <1>2, NodeBelowProperties
<1>5. f \in Frames /\ f.pc = "walk" /\ f.call = NodeBelow(c) /\ f.since = h.since
  BY <1>3, <1>4, FrameTypes DEF WalkFrame
<1>6. Waiting(stack, kind) => Waiting(rest, kind)
  BY <1>1, <1>2, <1>4, WaitingWalk
<1>7. WalkOrder(t, status)
  BY <1>1, OrderTail
<1>8. ASSUME NEW d \in h.since
      PROVE  /\ status[d] \notin {"unsent", "dropped"}
             /\ status[d] \in {"sent", "replied"} /\ d # c => d <= NodeBelow(c)
  <2>1. /\ status[d] \notin {"unsent", "dropped"}
        /\ status[d] \in {"sent", "replied"} => d <= c
    BY <1>1, <1>2, <1>3 DEF WalkOrder
  <2>2. ASSUME status[d] \in {"sent", "replied"}, d # c
        PROVE  d <= NodeBelow(c)
    <3>1. d \in pending_calls /\ d \in Int
      BY <1>3, <2>2, ConstantsAssumption DEF Inv, PendingExact, Calls
    <3>2. d < c
      BY <1>2, <2>1, <2>2, <3>1
    <3> QED BY <1>1, <1>2, <3>1, <3>2, NodeBelowGreatest
  <2> QED BY <2>1, <2>2
<1>9. rest \in Seq(Frames)
  BY <1>3, <1>5, PushProperties
<1> HIDE DEF h, f, t, c
<1>10. CASE status[c] = "replied" /\ HandleReply(c, rest)
  <2>1. status' = [status EXCEPT ![c] = "handled"]
    BY <1>10 DEF HandleReply
  <2>2. Progress(status, status')
    BY <1>1, <1>2, <1>10, <2>1 DEF Progress
  <2>3. WalkOrder(t, status')
    BY <1>3, <1>7, <2>2, OrderProgress
  <2>4. \A d \in f.since : /\ status'[d] \notin {"unsent", "dropped"}
                           /\ status'[d] \in {"sent", "replied"} => d <= f.call
    BY <1>1, <1>2, <1>3, <1>5, <1>8, <2>1
  <2>5. WalkOrder(rest, status')
    BY <1>3, <1>5, <2>3, <2>4, OrderPush
  <2> HIDE DEF rest
  <2> QED BY <1>1, <1>2, <1>6, <1>9, <1>10, <2>5, WalkHandleReply
<1>11. CASE status[c] \in {"handled", "stuck"} /\ stack' = rest /\ UNCHANGED calls
  <2>1. \A d \in f.since : /\ status[d] \notin {"unsent", "dropped"}
                           /\ status[d] \in {"sent", "replied"} => d <= f.call
    BY <1>5, <1>8, <1>11
  <2>2. WalkOrder(rest, status)
    BY <1>3, <1>5, <1>7, <2>1, OrderPush
  <2> HIDE DEF rest
  <2> QED BY <1>1, <1>6, <1>11, <2>2, SameCalls
<1> QED BY <1>2, <1>10, <1>11

\* The function of a call starts, or its activation of async_message_cb ends.
LEMMA WalkFinishRelease ==
    ASSUME Inv, WalkInv, [Next]_vars, Finish \/ Release
    PROVE  WalkInv'
<1> DEFINE c == Head(stack).call
           t == Tail(stack)
<1>1. /\ stack \in Seq(Frames) /\ stack # <<>> /\ TypeOK /\ WalkOrder(stack, status)
      /\ Head(stack) = stack[1] /\ 1 \in 1..Len(stack) /\ CallbackFrames(stack, status)
      /\ status \in [Calls -> Statuses] /\ Head(stack).pc \in {"finish", "release"}
  BY StackTypes DEF StackOK, Inv, TypeOK, WalkInv, Finish, Release, Running
<1>2. c \in Calls /\ status[c] \in {"handled", "notified"}
  BY <1>1 DEF CallbackFrames
<1>3. /\ t \in Seq(Frames) /\ WalkOrder(t, status)
      /\ Waiting(stack, kind) => Waiting(t, kind)
  BY <1>1, SimpleTail
<1>4. PICK to \in {"notified", "done"} : status' = [status EXCEPT ![c] = to]
  BY DEF Finish, Release
<1>5. Progress(status, status') /\ to \in Statuses /\ kind' = kind
  BY <1>1, <1>2, <1>4 DEF Progress, Statuses, Finish, Release
<1>6. WalkOrder(t, status')
  BY <1>3, <1>5, OrderProgress
<1>7. Frame("func", c) \in SimpleFrames /\ Frame("release", c) \in SimpleFrames
  BY <1>2, SimpleTypes DEF Pcs
<1>8. stack' = t \/ stack' = Push(Frame("func", c), Push(Frame("release", c), t))
  BY DEF Finish, Release
<1> HIDE DEF c, t
<1>9. \/ stack' = t
      \/ \E f, g \in SimpleFrames : stack' = Push(f, Push(g, t))
  BY <1>7, <1>8
<1>10. /\ \A d \in Calls : d # c \/ status[c] # "unsent" => kind'[d] = kind[d]
       /\ status[c] # "unsent"
       /\ status[c] \in {"stuck", "handled", "notified", "done"}
  BY <1>2, <1>5
<1> QED BY <1>1, <1>2, <1>3, <1>4, <1>5, <1>6, <1>9, <1>10, OneCall

LEMMA WalkInit == Init => WalkInv
  BY DEF Init, WalkInv, WalkOrder, Waiting, NoneAnswered

LEMMA WalkStep == ASSUME Inv, WalkInv, [Next]_vars PROVE WalkInv'
<1>1. TypeOK
  BY DEF Inv
<1>2. ASSUME NEW c \in Calls,
             UpdateAsync(c) \/ CommitAsync(c) \/ BackendReply(c) \/ DispatchReply(c)
      PROVE  WalkInv'
  BY <1>1, <1>2, WalkSend, WalkDispatch
<1>3. CASE Finish \/ Release \/ Return \/ ProcessRequests \/ WalkBlock \/ EnsureUpdate
  BY <1>3, WalkFinishRelease, WalkReturn, WalkProcessRequests, WalkBlocks, WalkEnsureUpdate
<1>4. CASE \/ Update \/ CommitStruct \/ CommitPlain \/ CommitEmit \/ HandlerReturn
           \/ CommitDerail \/ Disconnect
           \/ WalkDerail \/ ChangedSignal \/ ChangedIdle \/ AppUnref \/ AppRef \/ Over
           \/ UNCHANGED vars
  BY <1>1, <1>4, WalkQuiet
<1> QED BY <1>2, <1>3, <1>4 DEF Next

LEMMA WalksKeepOrder == Spec => [](Inv /\ WalkInv)
<1>1. Inv /\ WalkInv /\ [Next]_vars => WalkInv'
  BY WalkStep
<1> QED BY <1>1, WalkInit, Invariance, PTL DEF Spec

\* oobs_object_process_requests blocks until every call that was pending when it
\* was called has been handled, whatever replies user code has handled meanwhile.
THEOREM WalksComplete == Spec => []WalkComplete
<1>1. Inv /\ WalkInv => WalkComplete
  <2> SUFFICES ASSUME Inv, WalkInv, Running("walk"), Head(stack).call = NoCall,
                      NEW c \in Head(stack).since
               PROVE  status[c] \notin {"sent", "replied"}
    BY DEF WalkComplete
  <2>1. stack \in Seq(Frames) /\ Head(stack) = stack[1] /\ 1 \in 1..Len(stack)
    BY DEF Inv, TypeOK, Running
  <2>2. ~(c <= NoCall)
    <3>1. c \in Calls
      BY <2>1, SinceTypes
    <3> QED BY <3>1, ConstantsAssumption DEF Calls, NoCall
  <2> QED BY <2>1, <2>2 DEF WalkInv, WalkOrder, Running
<1> QED BY <1>1, WalksKeepOrder, PTL

\* oobs_object_ensure_update returns on an object that has been updated, unless
\* an update of it has failed, now or before.
THEOREM EnsureUpdateWorks == Spec => []EnsureWorks
<1>1. Inv /\ WalkInv => EnsureWorks
  <2> SUFFICES ASSUME Inv, WalkInv, Running("ensured"), ~Tried
               PROVE  FALSE
    BY DEF EnsureWorks, Tried
  <2>1. stack \in Seq(Frames) /\ Head(stack) = stack[1] /\ 1 \in 1..Len(stack)
    BY DEF Inv, TypeOK, Running
  <2> QED BY <2>1 DEF WalkInv, Waiting, Running
<1> QED BY <1>1, WalksKeepOrder, PTL

=============================================================================
