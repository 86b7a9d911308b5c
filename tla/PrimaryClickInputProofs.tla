------------------------ MODULE PrimaryClickInputProofs ------------------------
(***************************************************************************)
(* Proofs about PrimaryClickInput for every set of pointer ids and every   *)
(* capacity of the gate and of the queue: the type invariant, and the      *)
(* bounds that the gate keeps.                                             *)
(***************************************************************************)
EXTENDS PrimaryClickInput, SequenceTheorems, FiniteSetTheorems, TLAPS

\* A tick that goes on replaying has an event left to replay.
TicksHaveEvents == ticking => pending # <<>>

IInv == InputTypeOK /\ GateBounded /\ TicksHaveEvents

\* What IInv says of the queue and of its gate.
QueueInv == /\ pending \in Seq(Events) /\ Len(pending) <= MaxQueued
            /\ queued \in 0..MaxGestures
            /\ evicted \in BOOLEAN

-----------------------------------------------------------------------------
(* The queue. *)

\* Counting an event off leaves the counter a number no greater than it was.
LEMMA UncountBounded ==
  ASSUME NEW n \in Nat, NEW e
  PROVE  Uncount(n, e) \in Nat /\ Uncount(n, e) <= n
BY DEF Uncount

\* Taking the oldest event out of a queue that is not empty.
LEMMA TailOfQueue ==
  ASSUME NEW q \in Seq(Events), q # <<>>
  PROVE  Tail(q) \in Seq(Events) /\ Len(Tail(q)) = Len(q) - 1
OBVIOUS

\* An event that enters a queue within its bound, gestures being counted with it,
\* leaves the queue within its bound and no more gestures counted.
LEMMA PushBounded ==
  ASSUME QueueInv, NEW e \in Events, NEW gestures \in Nat, PushEvent(e, gestures)
  PROVE  /\ pending' \in Seq(Events) /\ Len(pending') <= MaxQueued
         /\ pending' # <<>>
         /\ queued' \in Nat /\ queued' <= gestures
         /\ evicted' \in BOOLEAN
<1> DEFINE q == Append(pending, e)
<1>0. q \in Seq(Events) /\ Len(q) = Len(pending) + 1 /\ q # <<>>
  BY DEF QueueInv
<1>1. CASE Len(q) > MaxQueued
  <2>1. pending' = Tail(q) /\ queued' = Uncount(gestures, Head(q))
        /\ evicted' = (evicted \/ IsEdge(Head(q)))
    BY <1>1 DEF PushEvent
  <2>2. Tail(q) \in Seq(Events) /\ Len(Tail(q)) = Len(q) - 1
    BY <1>0, TailOfQueue
  <2>3. Len(q) = MaxQueued + 1 /\ Len(pending) = MaxQueued /\ MaxQueued \in Nat \ {0}
    BY <1>0, <1>1, LimitAssumption DEF QueueInv
  <2>4. Tail(q) # <<>>
    BY <2>2, <2>3, EmptySeq
  <2>5. evicted' \in BOOLEAN
    BY <2>1 DEF QueueInv, IsEdge
  <2> QED BY <2>1, <2>2, <2>3, <2>4, <2>5, UncountBounded
<1>2. CASE ~ (Len(q) > MaxQueued)
  BY <1>0, <1>2, LimitAssumption DEF PushEvent, QueueInv
<1> QED BY <1>1, <1>2

-----------------------------------------------------------------------------
(* The inductive invariant. *)

\* An empty queue and an idle gate satisfy the invariant.
LEMMA InitIInv == InputInit => IInv
<1> SUFFICES ASSUME InputInit PROVE IInv
  OBVIOUS
<1>1. pending \in Seq(Events) /\ Len(pending) = 0
  BY EmptySeq DEF InputInit
<1>2. /\ state = "opened" /\ primaryDown = NoPointer /\ queued = 0 /\ suppressed = {}
      /\ ticking = FALSE /\ pressed = NoPointer /\ evicted = FALSE /\ failed = FALSE
  BY DEF InputInit
<1>3. TicksHaveEvents
  BY <1>2 DEF TicksHaveEvents
<1>4. InputTypeOK
  BY <1>1, <1>2 DEF InputTypeOK
<1>5. GateBounded
  BY <1>1, <1>2, LimitAssumption, PointerAssumption DEF GateBounded
<1> QED
  BY <1>3, <1>4, <1>5 DEF IInv

\* Every send, dispatched event and pause preserves the invariant.
LEMMA NextIInv == ASSUME IInv, [InputNext]_inputVars PROVE IInv'
<1> USE LimitAssumption, PointerAssumption
<1>q. QueueInv
  BY DEF IInv, InputTypeOK, GateBounded, QueueInv
<1>e. \A p \in Pointers : Down(p) \in Events /\ Move(p) \in Events /\ Up(p) \in Events
  BY DEF Down, Move, Up, Events
<1>w. Wheel \in Events
  BY DEF Wheel, Events
<1>1. ASSUME NEW p \in Pointers, SendRefusedDown(p) PROVE IInv'
  BY <1>1 DEF SendRefusedDown, IInv, InputTypeOK, GateBounded, TicksHaveEvents
<1>2. ASSUME NEW p \in Pointers, SendDown(p) PROVE IInv'
  <2>1. queued \in Nat /\ queued < MaxGestures
    BY <1>2 DEF SendDown, DownRefused, IInv, InputTypeOK
  <2>2. /\ pending' \in Seq(Events) /\ Len(pending') <= MaxQueued /\ pending' # <<>>
        /\ queued' \in Nat /\ queued' <= queued /\ evicted' \in BOOLEAN
    BY <1>q, <1>e, <1>2, <2>1, PushBounded DEF SendDown
  <2>3. primaryDown' = p /\ suppressed' = suppressed \ {p}
        /\ UNCHANGED <<state, ticking, pressed, failed>>
    BY <1>2 DEF SendDown
  <2> QED BY <2>1, <2>2, <2>3 DEF IInv, InputTypeOK, GateBounded, TicksHaveEvents
<1>3. ASSUME NEW p \in Pointers, SendMove(p) PROVE IInv'
  <2>1. /\ pending' \in Seq(Events) /\ Len(pending') <= MaxQueued /\ pending' # <<>>
        /\ queued' \in Nat /\ queued' <= queued /\ evicted' \in BOOLEAN
    BY <1>q, <1>e, <1>3, PushBounded DEF SendMove, QueueInv
  <2>2. UNCHANGED <<state, primaryDown, suppressed, ticking, pressed, failed>>
    BY <1>3 DEF SendMove
  <2> QED BY <2>1, <2>2 DEF IInv, InputTypeOK, GateBounded, TicksHaveEvents
<1>4. ASSUME NEW p \in Pointers, SendUp(p) PROVE IInv'
  \* The press was held only with room for this release.
  <2>1. queued + 1 \in Nat /\ queued + 1 <= MaxGestures
    BY <1>4 DEF SendUp, IInv, InputTypeOK, GateBounded
  <2>2. /\ pending' \in Seq(Events) /\ Len(pending') <= MaxQueued /\ pending' # <<>>
        /\ queued' \in Nat /\ queued' <= queued + 1 /\ evicted' \in BOOLEAN
    BY <1>q, <1>e, <1>4, <2>1, PushBounded DEF SendUp
  <2>3. primaryDown' = NoPointer /\ suppressed' = suppressed \ {p}
        /\ UNCHANGED <<state, ticking, pressed, failed>>
    BY <1>4 DEF SendUp
  <2> QED BY <2>1, <2>2, <2>3 DEF IInv, InputTypeOK, GateBounded, TicksHaveEvents
<1>5. ASSUME NEW p \in Pointers, SendStrayUp(p) PROVE IInv'
  BY <1>5 DEF SendStrayUp, IInv, InputTypeOK, GateBounded, TicksHaveEvents
<1>6. ASSUME SendWheel PROVE IInv'
  <2>1. /\ pending' \in Seq(Events) /\ Len(pending') <= MaxQueued /\ pending' # <<>>
        /\ queued' \in Nat /\ queued' <= queued /\ evicted' \in BOOLEAN
    BY <1>q, <1>w, <1>6, PushBounded DEF SendWheel, QueueInv
  <2>2. UNCHANGED <<state, primaryDown, suppressed, ticking, pressed, failed>>
    BY <1>6 DEF SendWheel
  <2> QED BY <2>1, <2>2 DEF IInv, InputTypeOK, GateBounded, TicksHaveEvents
<1>7. ASSUME TickBegins PROVE IInv'
  BY <1>7 DEF TickBegins, IInv, InputTypeOK, GateBounded, TicksHaveEvents
<1>8. ASSUME Dispatch PROVE IInv'
  <2>1. pending # <<>> /\ Head(pending) \in Events
    BY <1>8 DEF Dispatch, IInv, InputTypeOK, TicksHaveEvents
  <2>2. /\ pending' \in Seq(Events) /\ Len(pending') <= MaxQueued
        /\ queued' \in Nat /\ queued' <= queued
    <3>1. Tail(pending) \in Seq(Events) /\ Len(Tail(pending)) = Len(pending) - 1
      BY <1>q, <2>1, TailOfQueue DEF QueueInv
    <3>2. pending' = Tail(pending) /\ queued' = Uncount(queued, Head(pending))
      BY <1>8 DEF Dispatch
    <3> QED BY <1>q, <3>1, <3>2, UncountBounded DEF QueueInv
  <2>3. pressed' \in Pointers \cup {NoPointer}
    <3>1. After(Head(pending)) \in Pointers \cup {NoPointer}
      BY <2>1 DEF After, Events, Wheel, IInv, InputTypeOK
    <3> QED BY <1>8, <3>1 DEF Dispatch, IInv, InputTypeOK
  <2>4. ticking' \in BOOLEAN /\ (ticking' => pending' # <<>>)
    BY <1>8 DEF Dispatch
  <2>5. failed' \in BOOLEAN
    BY <1>8 DEF Dispatch, IsEdge, IInv, InputTypeOK
  <2>6. UNCHANGED <<state, primaryDown, suppressed, evicted>>
    BY <1>8 DEF Dispatch
  <2> QED BY <2>2, <2>3, <2>4, <2>5, <2>6 DEF IInv, InputTypeOK, GateBounded, TicksHaveEvents
<1>9. ASSUME PauseInput PROVE IInv'
  <2>1. pending' \in Seq(Events) /\ Len(pending') = 0
    BY <1>9, EmptySeq DEF PauseInput
  <2>2. /\ state' = "paused" /\ primaryDown' = NoPointer /\ queued' = 0 /\ suppressed' = {}
        /\ ticking' = FALSE /\ pressed' = NoPointer /\ evicted' = FALSE /\ failed' = FALSE
    BY <1>9 DEF PauseInput, Listening, IInv, InputTypeOK
  <2>3. TicksHaveEvents'
    BY <2>2 DEF TicksHaveEvents
  <2>4. InputTypeOK'
    BY <2>1, <2>2 DEF InputTypeOK
  <2>5. GateBounded'
    BY <2>1, <2>2 DEF GateBounded
  <2> QED
    BY <2>3, <2>4, <2>5 DEF IInv
<1>10. ASSUME ResumeInput PROVE IInv'
  BY <1>10 DEF ResumeInput, gate, IInv, InputTypeOK, GateBounded, TicksHaveEvents
<1>11. CASE UNCHANGED inputVars
  BY <1>11 DEF inputVars, IInv, InputTypeOK, GateBounded, TicksHaveEvents
<1> QED
  BY <1>1, <1>2, <1>3, <1>4, <1>5, <1>6, <1>7, <1>8, <1>9, <1>10, <1>11 DEF InputNext, Send

-----------------------------------------------------------------------------
(* Edges in a queue.  The properties speak of the queue that waits; the lemmas speak *)
(* of any queue q that the engine loop gets to see while it holds h pressed.         *)

ReleasesOf(q) == {i \in DOMAIN q : q[i].type = "up"}

EdgesOf(q, n) == {i \in 1..n : IsEdge(q[i])}

\* The pointer that is held after an edge.
HeldBy(e) == IF e.type = "down" THEN e.pointer ELSE NoPointer

HeldOf(q, h, n) == IF EdgesOf(q, n) = {} THEN h ELSE HeldBy(q[Max(EdgesOf(q, n))])

\* What is held before an edge.
HeldFor(e) == IF e.type = "down" THEN NoPointer ELSE e.pointer

\* q continues a press of h with complete gestures, up to a press of d.
WholeOf(q, h, d) ==
  /\ \A i \in EdgesOf(q, Len(q)) : HeldOf(q, h, i - 1) = HeldFor(q[i])
  /\ HeldOf(q, h, Len(q)) = d

\* The properties are about the queue that waits, now and after a step.
LEMMA OfThePending ==
  /\ Releases = ReleasesOf(pending) /\ Releases' = ReleasesOf(pending')
  /\ CompleteGestures <=> WholeOf(pending, pressed, primaryDown)
  /\ CompleteGestures' <=> WholeOf(pending', pressed', primaryDown')
<1>1. Releases = ReleasesOf(pending) /\ Releases' = ReleasesOf(pending')
  BY DEF Releases, ReleasesOf
<1>2. CompleteGestures <=> WholeOf(pending, pressed, primaryDown)
  BY DEF CompleteGestures, HeldAfter, Edges, WholeOf, HeldOf, HeldBy, HeldFor, EdgesOf
<1>3. CompleteGestures' <=> WholeOf(pending', pressed', primaryDown')
  BY DEF CompleteGestures, HeldAfter, Edges, WholeOf, HeldOf, HeldBy, HeldFor, EdgesOf
<1> QED
  BY <1>1, <1>2, <1>3

\* A set of natural numbers that is not empty has a least element.
LEMMA LeastNumber ==
  ASSUME NEW T, T \subseteq Nat, T # {}
  PROVE  \E n \in T : \A m \in T : n <= m
<1> DEFINE R == OpToRel(<, Nat)
<1>1. IsWellFoundedOn(R, Nat)
  BY NatLessThanWellFounded
<1>2. \A x, y \in Nat : y < x => <<y, x>> \in R
  BY DEF OpToRel
<1> HIDE DEF R
<1>3. PICK x \in T : \A y \in T : ~ (<<y, x>> \in R)
  BY <1>1, WFMin
<1>4. \A y \in T : ~ (y < x)
  BY <1>2, <1>3
<1> QED
  BY <1>3, <1>4

\* A set of positions in a queue has a last one, and it is no other than Max.
LEMMA LastPosition ==
  ASSUME NEW n \in Nat, NEW S \in SUBSET (1..n)
  PROVE  /\ S # {} => Max(S) \in S /\ \A i \in S : i <= Max(S)
         /\ \A m \in S : (\A i \in S : i <= m) => Max(S) = m
<1>1. S # {} => \E m \in S : \A i \in S : i <= m
  <2> SUFFICES ASSUME S # {} PROVE \E m \in S : \A i \in S : i <= m
    OBVIOUS
  <2> DEFINE T == {n - i : i \in S}
  <2>0. \A i \in S : n - i \in Nat
    OBVIOUS
  <2>1. T \subseteq Nat /\ T # {}
    BY <2>0, Zenon
  <2>2. PICK k \in T : \A m \in T : k <= m
    BY <2>1, LeastNumber
  <2>3. PICK j \in S : k = n - j
    OBVIOUS
  <2>4. \A i \in S : i \in Int /\ n - j <= n - i
    BY <2>2, <2>3
  <2>5. \A i \in S : i <= j
    BY <2>4
  <2> QED
    BY <2>5
<1>2. S # {} => Max(S) \in S /\ \A i \in S : i <= Max(S)
  BY <1>1 DEF Max
<1>3. ASSUME NEW m \in S, \A i \in S : i <= m PROVE Max(S) = m
  <2>1. Max(S) \in S /\ m <= Max(S) /\ Max(S) <= m
    BY <1>2, <1>3
  <2>2. \A i \in S : i \in Int
    OBVIOUS
  <2>3. Max(S) \in Int /\ m \in Int
    BY <2>1, <2>2
  <2> QED
    BY <2>1, <2>3
<1> QED
  BY <1>2, <1>3

\* What is held is decided by the last edge.
LEMMA HeldIs ==
  ASSUME NEW q \in Seq(Events), NEW h, NEW n \in Nat, NEW m \in EdgesOf(q, n),
         \A i \in EdgesOf(q, n) : i <= m
  PROVE  HeldOf(q, h, n) = HeldBy(q[m])
<1>1. EdgesOf(q, n) \in SUBSET (1..n)
  BY DEF EdgesOf
<1>2. Max(EdgesOf(q, n)) = m
  BY <1>1, LastPosition
<1> QED
  BY <1>2 DEF HeldOf

\* An event that enters a queue changes nothing of what is held before it.
LEMMA HeldAppend ==
  ASSUME NEW q \in Seq(Events), NEW h, NEW e \in Events
  PROVE  LET r == Append(q, e) IN
         /\ \A n \in 0..Len(q) : EdgesOf(r, n) = EdgesOf(q, n) /\ HeldOf(r, h, n) = HeldOf(q, h, n)
         /\ EdgesOf(r, Len(r)) = EdgesOf(q, Len(q)) \cup {i \in {Len(r)} : IsEdge(e)}
         /\ HeldOf(r, h, Len(r)) = IF IsEdge(e) THEN HeldBy(e) ELSE HeldOf(q, h, Len(q))
<1> DEFINE r == Append(q, e)
<1>1. /\ r \in Seq(Events) /\ Len(r) = Len(q) + 1 /\ Len(q) \in Nat /\ r[Len(r)] = e
      /\ \A i \in 1..Len(q) : r[i] = q[i]
  OBVIOUS
<1> HIDE DEF r
<1>2. ASSUME NEW n \in 0..Len(q)
      PROVE  EdgesOf(r, n) = EdgesOf(q, n) /\ HeldOf(r, h, n) = HeldOf(q, h, n)
  <2>1. \A i \in 1..n : r[i] = q[i]
    BY <1>1
  <2>2. EdgesOf(r, n) = EdgesOf(q, n)
    BY <2>1 DEF EdgesOf
  <2>3. CASE EdgesOf(q, n) = {}
    BY <2>2, <2>3 DEF HeldOf
  <2>4. CASE EdgesOf(q, n) # {}
    <3>1. EdgesOf(q, n) \in SUBSET (1..n) /\ n \in Nat
      BY <1>1 DEF EdgesOf
    <3>2. Max(EdgesOf(q, n)) \in 1..n
      BY <2>4, <3>1, LastPosition
    <3> QED
      BY <2>1, <2>2, <2>4, <3>2 DEF HeldOf
  <2> QED
    BY <2>2, <2>3, <2>4
<1>3. EdgesOf(r, Len(r)) = EdgesOf(r, Len(q)) \cup {i \in {Len(r)} : IsEdge(e)}
  BY <1>1 DEF EdgesOf
<1>4. EdgesOf(r, Len(q)) = EdgesOf(q, Len(q)) /\ HeldOf(r, h, Len(q)) = HeldOf(q, h, Len(q))
  BY <1>1, <1>2
<1>5. HeldOf(r, h, Len(r)) = IF IsEdge(e) THEN HeldBy(e) ELSE HeldOf(q, h, Len(q))
  <2>1. CASE IsEdge(e)
    <3>1. Len(r) \in EdgesOf(r, Len(r)) /\ \A i \in EdgesOf(r, Len(r)) : i <= Len(r)
      BY <1>1, <2>1 DEF EdgesOf
    <3> QED
      BY <1>1, <2>1, <3>1, HeldIs
  <2>2. CASE ~ IsEdge(e)
    <3>1. EdgesOf(r, Len(r)) = EdgesOf(r, Len(q))
      BY <1>3, <2>2
    <3> QED
      BY <1>4, <2>2, <3>1 DEF HeldOf
  <2> QED
    BY <2>1, <2>2
<1> QED
  BY <1>2, <1>3, <1>4, <1>5 DEF r

\* A queue without its oldest event, once that has been seen: all else moves up by one.
LEMMA HeldTail ==
  ASSUME NEW q \in Seq(Events), q # <<>>, NEW h, NEW g,
         g = IF IsEdge(Head(q)) THEN HeldBy(Head(q)) ELSE h
  PROVE  \A n \in 0..Len(Tail(q)) : HeldOf(Tail(q), g, n) = HeldOf(q, h, n + 1)
<1> DEFINE t == Tail(q)
<1>1. /\ t \in Seq(Events) /\ Len(t) = Len(q) - 1 /\ Len(q) \in Nat /\ Len(q) >= 1
      /\ \A i \in 1..Len(t) : t[i] = q[i + 1]
      /\ Head(q) = q[1]
  BY EmptySeq
<1> HIDE DEF t
<1> SUFFICES ASSUME NEW n \in 0..Len(t) PROVE HeldOf(t, g, n) = HeldOf(q, h, n + 1)
  BY DEF t
<1>2. \A i \in 1..n : t[i] = q[i + 1]
  BY <1>1
<1>3. /\ \A i \in EdgesOf(t, n) : i + 1 \in EdgesOf(q, n + 1)
      /\ \A i \in EdgesOf(q, n + 1) : i = 1 \/ i - 1 \in EdgesOf(t, n)
      /\ 1 \in EdgesOf(q, n + 1) <=> IsEdge(Head(q))
      /\ EdgesOf(t, n) \in SUBSET (1..n) /\ EdgesOf(q, n + 1) \in SUBSET (1..(n + 1))
  <2>1. \A i \in 2..(n + 1) : q[i] = t[i - 1] /\ i - 1 \in 1..n
    <3>1. \A i \in 2..(n + 1) : i - 1 \in 1..n /\ (i - 1) + 1 = i
      BY <1>1
    <3> QED
      BY <1>2, <3>1
  <2>2. \A i \in EdgesOf(q, n + 1) : i = 1 \/ i - 1 \in EdgesOf(t, n)
    <3> SUFFICES ASSUME NEW i \in EdgesOf(q, n + 1), i # 1 PROVE i - 1 \in EdgesOf(t, n)
      OBVIOUS
    <3>1. i \in 2..(n + 1) /\ IsEdge(q[i])
      BY <1>1 DEF EdgesOf
    <3>2. q[i] = t[i - 1] /\ i - 1 \in 1..n
      BY <2>1, <3>1
    <3> QED
      BY <3>1, <3>2 DEF EdgesOf
  <2> QED
    BY <1>1, <1>2, <2>2 DEF EdgesOf
<1>4. CASE EdgesOf(t, n) = {}
  <2>1. HeldOf(t, g, n) = g
    BY <1>4 DEF HeldOf
  <2>2. CASE IsEdge(Head(q))
    <3>1. 1 \in EdgesOf(q, n + 1) /\ \A i \in EdgesOf(q, n + 1) : i <= 1
      BY <1>3, <1>4, <2>2
    <3>2. HeldOf(q, h, n + 1) = HeldBy(q[1])
      BY <1>1, <3>1, HeldIs
    <3> QED
      BY <1>1, <2>1, <2>2, <3>2
  <2>3. CASE ~ IsEdge(Head(q))
    <3>1. EdgesOf(q, n + 1) = {}
      BY <1>3, <1>4, <2>3
    <3> QED
      BY <2>1, <2>3, <3>1 DEF HeldOf
  <2> QED
    BY <2>2, <2>3
<1>5. CASE EdgesOf(t, n) # {}
  <2> DEFINE m == Max(EdgesOf(t, n))
  <2>1. n \in Nat
    BY <1>1
  <2>2. m \in EdgesOf(t, n) /\ \A i \in EdgesOf(t, n) : i <= m
    BY <1>3, <1>5, <2>1, LastPosition
  <2>3. m \in 1..n /\ HeldOf(t, g, n) = HeldBy(t[m])
    BY <1>3, <1>5, <2>2 DEF HeldOf
  <2> HIDE DEF m
  <2>4. m + 1 \in EdgesOf(q, n + 1) /\ \A i \in EdgesOf(q, n + 1) : i <= m + 1
    <3>1. \A i \in EdgesOf(q, n + 1) : i <= m + 1
      <4> SUFFICES ASSUME NEW i \in EdgesOf(q, n + 1) PROVE i <= m + 1
        OBVIOUS
      <4>1. i \in 1..(n + 1)
        BY <1>3
      <4>2. i = 1 \/ i - 1 <= m
        BY <1>3, <2>2
      <4> QED
        BY <2>3, <4>1, <4>2
    <3> QED
      BY <1>3, <2>2, <3>1
  <2>5. HeldOf(q, h, n + 1) = HeldBy(q[m + 1])
    BY <2>1, <2>4, HeldIs
  <2> QED
    BY <1>2, <2>3, <2>5
<1> QED
  BY <1>4, <1>5

\* An edge that fits what is held keeps the gestures whole; other events do anyway.
LEMMA WholeAppend ==
  ASSUME NEW q \in Seq(Events), NEW h, NEW d, NEW e \in Events, WholeOf(q, h, d),
         IsEdge(e) => d = HeldFor(e)
  PROVE  WholeOf(Append(q, e), h, IF IsEdge(e) THEN HeldBy(e) ELSE d)
<1> DEFINE r == Append(q, e)
<1>1. /\ Len(r) = Len(q) + 1 /\ Len(q) \in Nat /\ r[Len(r)] = e
      /\ \A i \in 1..Len(q) : r[i] = q[i]
  OBVIOUS
<1>2. /\ \A n \in 0..Len(q) : EdgesOf(r, n) = EdgesOf(q, n) /\ HeldOf(r, h, n) = HeldOf(q, h, n)
      /\ EdgesOf(r, Len(r)) = EdgesOf(q, Len(q)) \cup {i \in {Len(r)} : IsEdge(e)}
      /\ HeldOf(r, h, Len(r)) = IF IsEdge(e) THEN HeldBy(e) ELSE HeldOf(q, h, Len(q))
  BY HeldAppend
<1> HIDE DEF r
<1>3. \A i \in EdgesOf(q, Len(q)) : i \in 1..Len(q) /\ i - 1 \in 0..Len(q)
  BY <1>1 DEF EdgesOf
<1>4. \A i \in EdgesOf(q, Len(q)) : HeldOf(r, h, i - 1) = HeldFor(r[i])
  BY <1>1, <1>2, <1>3 DEF WholeOf
<1>5. IsEdge(e) => HeldOf(r, h, Len(r) - 1) = HeldFor(r[Len(r)])
  BY <1>1, <1>2 DEF WholeOf
<1>6. HeldOf(r, h, Len(r)) = IF IsEdge(e) THEN HeldBy(e) ELSE d
  BY <1>2 DEF WholeOf
<1> QED
  BY <1>2, <1>4, <1>5, <1>6 DEF WholeOf, r

\* Gestures stay whole when the oldest event has been seen.
LEMMA WholeTail ==
  ASSUME NEW q \in Seq(Events), q # <<>>, NEW h, NEW d, WholeOf(q, h, d), NEW g,
         g = IF IsEdge(Head(q)) THEN HeldBy(Head(q)) ELSE h
  PROVE  WholeOf(Tail(q), g, d)
<1> DEFINE t == Tail(q)
<1>1. /\ Len(t) = Len(q) - 1 /\ Len(q) \in Nat /\ Len(t) \in Nat
      /\ \A i \in 1..Len(t) : t[i] = q[i + 1]
  BY EmptySeq
<1>2. \A n \in 0..Len(t) : HeldOf(t, g, n) = HeldOf(q, h, n + 1)
  BY HeldTail
<1> HIDE DEF t
<1>3. ASSUME NEW i \in EdgesOf(t, Len(t)) PROVE HeldOf(t, g, i - 1) = HeldFor(t[i])
  <2>1. i \in 1..Len(t) /\ IsEdge(t[i])
    BY DEF EdgesOf
  <2>2. i + 1 \in EdgesOf(q, Len(q)) /\ t[i] = q[i + 1] /\ (i + 1) - 1 = i
    BY <1>1, <2>1 DEF EdgesOf
  <2>3. HeldOf(q, h, i) = HeldFor(q[i + 1])
    BY <2>2 DEF WholeOf
  <2>4. i - 1 \in 0..Len(t) /\ (i - 1) + 1 = i
    BY <1>1, <2>1
  <2> QED
    BY <1>2, <2>2, <2>3, <2>4
<1>4. HeldOf(t, g, Len(t)) = d
  <2>1. Len(t) \in 0..Len(t) /\ Len(t) + 1 = Len(q)
    BY <1>1
  <2> QED
    BY <1>2, <2>1 DEF WholeOf
<1> QED
  BY <1>3, <1>4 DEF WholeOf, t

\* The releases of a queue are finitely many, and one more with each release.
LEMMA ReleasesAppend ==
  ASSUME NEW q \in Seq(Events), NEW e \in Events
  PROVE  /\ IsFiniteSet(ReleasesOf(q)) /\ Cardinality(ReleasesOf(q)) \in Nat
         /\ Cardinality(ReleasesOf(Append(q, e))) =
              Cardinality(ReleasesOf(q)) + (IF e.type = "up" THEN 1 ELSE 0)
<1> DEFINE r == Append(q, e)
<1>1. IsFiniteSet(ReleasesOf(q))
  <2>1. ReleasesOf(q) \subseteq 1..Len(q) /\ Len(q) \in Nat
    BY DEF ReleasesOf
  <2>2. IsFiniteSet(1..Len(q))
    BY <2>1, FS_Interval
  <2> QED
    BY <2>1, <2>2, FS_Subset
<1>2. Cardinality(ReleasesOf(q)) \in Nat
  BY <1>1, FS_CardinalityType
<1>3. /\ Len(r) = Len(q) + 1 /\ r[Len(r)] = e /\ \A i \in 1..Len(q) : r[i] = q[i]
      /\ DOMAIN r = 1..Len(r) /\ DOMAIN q = 1..Len(q) /\ Len(q) \in Nat
  OBVIOUS
<1> HIDE DEF r
<1>4. CASE e.type = "up"
  <2>1. ReleasesOf(r) = ReleasesOf(q) \cup {Len(r)} /\ Len(r) \notin ReleasesOf(q)
    BY <1>3, <1>4 DEF ReleasesOf
  <2> QED
    BY <1>1, <1>2, <1>4, <2>1, FS_AddElement DEF r
<1>5. CASE e.type # "up"
  <2>1. ReleasesOf(r) = ReleasesOf(q)
    BY <1>3, <1>5 DEF ReleasesOf
  <2> QED
    BY <1>1, <1>2, <1>5, <2>1 DEF r
<1> QED
  BY <1>4, <1>5

\* One event is counted off exactly if the oldest event is a release.
LEMMA ReleasesTail ==
  ASSUME NEW q \in Seq(Events), q # <<>>
  PROVE  Cardinality(ReleasesOf(Tail(q))) = Uncount(Cardinality(ReleasesOf(q)), Head(q))
<1> DEFINE t == Tail(q)
           S == ReleasesOf(q)
           T == ReleasesOf(t)
<1>1. /\ Len(t) = Len(q) - 1 /\ Len(q) \in Nat /\ Len(q) >= 1 /\ Len(t) \in Nat
      /\ \A i \in 1..Len(t) : t[i] = q[i + 1]
      /\ Head(q) = q[1] /\ DOMAIN t = 1..Len(t) /\ DOMAIN q = 1..Len(q)
  BY EmptySeq
<1> HIDE DEF t
<1>2. IsFiniteSet(S) /\ IsFiniteSet(T)
  <2>1. S \subseteq 1..Len(q) /\ T \subseteq 1..Len(t)
    BY <1>1 DEF ReleasesOf
  <2>2. IsFiniteSet(1..Len(q)) /\ IsFiniteSet(1..Len(t))
    BY <1>1, FS_Interval
  <2> QED
    BY <2>1, <2>2, FS_Subset
<1>3. 1 \in S <=> Head(q).type = "up"
  BY <1>1 DEF ReleasesOf
<1>4. ExistsBijection(T, S \ {1})
  <2> DEFINE f == [i \in T |-> i + 1]
  <2>1. /\ \A i \in T : i \in Nat /\ i + 1 \in S \ {1}
        /\ \A j \in S \ {1} : j - 1 \in T /\ (j - 1) + 1 = j
    <3>1. \A i \in T : i \in Nat /\ i + 1 \in S \ {1}
      BY <1>1 DEF ReleasesOf
    <3>2. ASSUME NEW j \in S \ {1} PROVE j - 1 \in T /\ (j - 1) + 1 = j
      <4>1. j \in 2..Len(q) /\ q[j].type = "up"
        BY <1>1 DEF ReleasesOf
      <4>2. j - 1 \in 1..Len(t) /\ (j - 1) + 1 = j
        BY <1>1, <4>1
      <4>3. t[j - 1] = q[j]
        BY <1>1, <4>2
      <4> QED
        BY <1>1, <4>1, <4>2, <4>3 DEF ReleasesOf
    <3> QED
      BY <3>1, <3>2
  <2> HIDE DEF S, T
  <2>2. f \in Bijection(T, S \ {1})
    <3>1. f \in [T -> S \ {1}]
      BY <2>1
    <3>2. \A i, j \in T : f[i] = f[j] => i = j
      BY <2>1
    <3>3. \A j \in S \ {1} : \E i \in T : f[i] = j
      BY <2>1
    <3> QED
      BY <3>1, <3>2, <3>3 DEF Bijection, Injection, Surjection, IsInjective
  <2> QED
    BY <2>2 DEF ExistsBijection
<1> HIDE DEF S, T
<1>5. Cardinality(T) = Cardinality(S \ {1})
  BY <1>2, <1>4, FS_Bijection
<1>6. /\ Cardinality(S \ {1}) = IF 1 \in S THEN Cardinality(S) - 1 ELSE Cardinality(S)
      /\ Cardinality(S) \in Nat /\ (1 \in S => Cardinality(S) # 0)
  BY <1>2, FS_RemoveElement, FS_CardinalityType, FS_EmptySet
<1> QED
  BY <1>3, <1>5, <1>6 DEF Uncount, S, T, t

-----------------------------------------------------------------------------
(* The counter is true and the gestures are whole. *)

\* The gate's view of the queue: what it counts, and what it believes to be held.
GateTrue == CountsReleases /\ WholeUnlessLost

\* An event that enters the queue with gestures counted for it, pressing d, and
\* evicts the oldest if it must.
LEMMA PushTrue ==
  ASSUME InputTypeOK, GateTrue, NEW e \in Events, NEW gestures \in Nat, PushEvent(e, gestures),
         gestures = queued + (IF e.type = "up" THEN 1 ELSE 0),
         UNCHANGED <<pressed, failed>>,
         IsEdge(e) => primaryDown = HeldFor(e),
         primaryDown' = IF IsEdge(e) THEN HeldBy(e) ELSE primaryDown
  PROVE  GateTrue'
<1> DEFINE q == Append(pending, e)
           d == primaryDown'
<1>1. /\ q \in Seq(Events) /\ q # <<>> /\ pending \in Seq(Events)
  <2>1. pending \in Seq(Events)
    BY DEF InputTypeOK
  <2> QED
    BY <2>1
<1>2. gestures = Cardinality(ReleasesOf(q))
  <2>1. queued = Cardinality(ReleasesOf(pending))
    BY OfThePending DEF GateTrue, CountsReleases
  <2> QED
    BY <1>1, <2>1, ReleasesAppend
<1>3. ~ evicted /\ ~ failed => WholeOf(q, pressed, d)
  <2> SUFFICES ASSUME ~ evicted, ~ failed PROVE WholeOf(q, pressed, d)
    OBVIOUS
  <2>1. WholeOf(pending, pressed, primaryDown)
    BY OfThePending DEF GateTrue, WholeUnlessLost
  <2> QED
    BY <1>1, <2>1, WholeAppend
<1> HIDE DEF q, d
<1>4. CASE Len(q) > MaxQueued
  <2>1. /\ pending' = Tail(q) /\ queued' = Uncount(gestures, Head(q))
        /\ evicted' = (evicted \/ IsEdge(Head(q)))
    BY <1>4 DEF PushEvent, q
  <2>2. queued' = Cardinality(ReleasesOf(pending'))
    BY <1>1, <1>2, <2>1, ReleasesTail
  <2>3. ~ evicted' /\ ~ failed' => WholeOf(pending', pressed', d)
    <3> SUFFICES ASSUME ~ evicted', ~ failed' PROVE WholeOf(Tail(q), pressed, d)
      BY <2>1
    <3>1. ~ evicted /\ ~ failed /\ ~ IsEdge(Head(q))
      BY <2>1
    <3> QED
      BY <1>1, <1>3, <3>1, WholeTail
  <2> QED
    BY <2>2, <2>3, OfThePending DEF GateTrue, CountsReleases, WholeUnlessLost, d
<1>5. CASE ~ (Len(q) > MaxQueued)
  <2>1. pending' = q /\ queued' = gestures /\ evicted' = evicted
    BY <1>5 DEF PushEvent, q
  <2> QED
    BY <1>2, <1>3, <2>1, OfThePending DEF GateTrue, CountsReleases, WholeUnlessLost, d
<1> QED
  BY <1>4, <1>5

\* No send, replayed event or pause makes the counter wrong or tears a gesture apart.
LEMMA NextTrue == ASSUME IInv, GateTrue, [InputNext]_inputVars PROVE GateTrue'
<1> USE PointerAssumption
<1>1. InputTypeOK /\ queued \in Nat /\ queued + 1 \in Nat /\ queued + 0 = queued
  BY DEF IInv, InputTypeOK
<1>2. CASE UNCHANGED <<primaryDown, queued, pending, pressed, evicted, failed>>
  BY <1>2 DEF GateTrue, CountsReleases, WholeUnlessLost, Releases, CompleteGestures,
              HeldAfter, Edges
<1>3. ASSUME NEW p \in Pointers, SendDown(p) PROVE GateTrue'
  <2>1. /\ primaryDown = NoPointer /\ primaryDown' = p /\ PushEvent(Down(p), queued)
        /\ UNCHANGED <<pressed, failed>>
    BY <1>3 DEF SendDown, DownRefused
  <2>2. /\ Down(p) \in Events /\ IsEdge(Down(p)) /\ Down(p).type = "down"
        /\ HeldBy(Down(p)) = p /\ HeldFor(Down(p)) = NoPointer
    BY DEF Down, Events, IsEdge, HeldBy, HeldFor
  <2> QED
    BY <1>1, <2>1, <2>2, PushTrue
<1>4. ASSUME NEW p \in Pointers, SendUp(p) PROVE GateTrue'
  <2>1. /\ primaryDown = p /\ primaryDown' = NoPointer /\ PushEvent(Up(p), queued + 1)
        /\ UNCHANGED <<pressed, failed>>
    BY <1>4 DEF SendUp
  <2>2. /\ Up(p) \in Events /\ IsEdge(Up(p)) /\ Up(p).type = "up"
        /\ HeldBy(Up(p)) = NoPointer /\ HeldFor(Up(p)) = p
    BY DEF Up, Events, IsEdge, HeldBy, HeldFor
  <2> QED
    BY <1>1, <2>1, <2>2, PushTrue
<1>5. ASSUME NEW p \in Pointers, SendMove(p) PROVE GateTrue'
  <2>1. /\ primaryDown' = primaryDown /\ PushEvent(Move(p), queued)
        /\ UNCHANGED <<pressed, failed>>
    BY <1>5 DEF SendMove
  <2>2. Move(p) \in Events /\ ~ IsEdge(Move(p)) /\ Move(p).type # "up"
    BY DEF Move, Events, IsEdge
  <2> QED
    BY <1>1, <2>1, <2>2, PushTrue
<1>6. CASE SendWheel
  <2>1. /\ primaryDown' = primaryDown /\ PushEvent(Wheel, queued)
        /\ UNCHANGED <<pressed, failed>>
    BY <1>6 DEF SendWheel
  <2>2. Wheel \in Events /\ ~ IsEdge(Wheel) /\ Wheel.type # "up"
    BY DEF Wheel, Events, IsEdge
  <2> QED
    BY <1>1, <2>1, <2>2, PushTrue
<1>7. CASE Dispatch
  <2>1. /\ pending \in Seq(Events) /\ pending # <<>> /\ Head(pending) \in Events
        /\ pending' = Tail(pending) /\ queued' = Uncount(queued, Head(pending))
        /\ UNCHANGED <<primaryDown, evicted>>
    BY <1>7 DEF Dispatch, IInv, InputTypeOK, TicksHaveEvents
  <2>2. CountsReleases'
    BY <2>1, ReleasesTail, OfThePending DEF GateTrue, CountsReleases
  <2>3. WholeUnlessLost'
    <3> SUFFICES ASSUME ~ evicted', ~ failed' PROVE WholeOf(pending', pressed', primaryDown')
      BY OfThePending DEF WholeUnlessLost
    <3>1. ~ evicted /\ ~ failed
      <4>1. failed' = failed \/ failed' = (failed \/ IsEdge(Head(pending)))
        BY <1>7 DEF Dispatch
      <4>2. CASE failed' = failed
        BY <2>1, <4>2
      <4>3. CASE failed' = (failed \/ IsEdge(Head(pending)))
        BY <2>1, <4>3
      <4> QED
        BY <4>1, <4>2, <4>3
    <3>2. WholeOf(pending, pressed, primaryDown)
      BY <3>1, OfThePending DEF GateTrue, WholeUnlessLost
    <3>3. pressed' = IF IsEdge(Head(pending)) THEN HeldBy(Head(pending)) ELSE pressed
      <4>1. After(Head(pending)) = IF IsEdge(Head(pending)) THEN HeldBy(Head(pending))
                                   ELSE pressed
        BY <2>1 DEF After, HeldBy, IsEdge, Events, Wheel
      <4> QED
        BY <1>7, <4>1 DEF Dispatch
    <3> QED
      BY <2>1, <3>2, <3>3, WholeTail
  <2> QED
    BY <2>2, <2>3 DEF GateTrue
<1>8. CASE PauseInput
  <2>1. pending' = <<>> /\ primaryDown' = NoPointer /\ queued' = 0 /\ pressed' = NoPointer
    BY <1>8 DEF PauseInput
  <2>2. Releases' = {} /\ \A n \in {0} : Edges(n)' = {}
    BY <2>1 DEF Releases, Edges
  <2>3. HeldAfter(0)' = NoPointer /\ Len(pending') = 0 /\ Edges(0)' = {}
    BY <2>1, <2>2 DEF HeldAfter
  <2>4. CompleteGestures'
    BY <2>1, <2>3 DEF CompleteGestures
  <2> QED
    BY <2>1, <2>2, <2>4, FS_EmptySet DEF GateTrue, CountsReleases, WholeUnlessLost
<1>9. ASSUME NEW p \in Pointers, SendRefusedDown(p) \/ SendStrayUp(p) PROVE GateTrue'
  BY <1>2, <1>9 DEF SendRefusedDown, SendStrayUp
<1>10. CASE TickBegins \/ ResumeInput
  BY <1>2, <1>10 DEF TickBegins, ResumeInput, gate
<1>11. CASE UNCHANGED inputVars
  BY <1>2, <1>11 DEF inputVars
<1> QED
  BY <1>3, <1>4, <1>5, <1>6, <1>7, <1>8, <1>9, <1>10, <1>11 DEF InputNext, Send

-----------------------------------------------------------------------------
(* What holds in every behaviour. *)

\* The strengthening is an invariant of the input path.
THEOREM Inductive == InputSpec => []IInv
<1>1. InputInit => IInv
  BY InitIInv
<1>2. IInv /\ [InputNext]_inputVars => IInv'
  BY NextIInv
<1> QED BY <1>1, <1>2, PTL DEF InputSpec

\* Every variable has its type: the queue holds input events only, the gate known
\* pointers only.
THEOREM TypeCorrect == InputSpec => []InputTypeOK
<1>1. IInv => InputTypeOK
  BY DEF IInv
<1> QED BY Inductive, <1>1, PTL

\* However pointers press, move and release, ticks fail and queues overflow, the
\* gate of engine_input_queue_gate.h never counts more than its limit of gestures
\* and never holds a press without room for its release.
THEOREM Bounded == InputSpec => []GateBounded
<1>1. IInv => GateBounded
  BY DEF IInv
<1> QED BY Inductive, <1>1, PTL

\* The counter that the gate keeps in four places is always the number of releases
\* that wait, and gestures are whole until an edge is lost.
LEMMA AlwaysTrue == InputSpec => []GateTrue
<1>1. InputInit => GateTrue
  <2> SUFFICES ASSUME InputInit PROVE GateTrue
    OBVIOUS
  <2>1. pending = <<>> /\ primaryDown = NoPointer /\ queued = 0 /\ pressed = NoPointer
    BY DEF InputInit
  <2>2. Releases = {} /\ Edges(0) = {} /\ Len(pending) = 0
    BY <2>1 DEF Releases, Edges
  <2>3. CompleteGestures
    BY <2>1, <2>2 DEF HeldAfter, CompleteGestures
  <2> QED
    BY <2>1, <2>2, <2>3, FS_EmptySet DEF GateTrue, CountsReleases, WholeUnlessLost
<1>2. IInv /\ GateTrue /\ [InputNext]_inputVars => GateTrue'
  BY NextTrue
<1> QED
  BY <1>1, <1>2, Inductive, PTL DEF InputSpec

\* The count of waiting gestures never drifts: each event that leaves the queue, by a
\* replay that succeeds or fails or by an eviction, is told to the gate once.
THEOREM CountIsTrue == InputSpec => []CountsReleases
<1>1. GateTrue => CountsReleases
  BY DEF GateTrue
<1> QED BY <1>1, AlwaysTrue, PTL

\* For any number of pointers, limit and capacity, the engine loop sees presses and
\* releases in pairs and ends with the press that the gate believes is held, unless an
\* edge was evicted from a full queue or refused by the engine loop.
THEOREM GesturesAreWhole == InputSpec => []WholeUnlessLost
<1>1. GateTrue => WholeUnlessLost
  BY DEF GateTrue
<1> QED BY <1>1, AlwaysTrue, PTL

=============================================================================
