--------------------------- MODULE IndexQueueProofs ---------------------------
(* Theorems about PCQueue, for every set of threads, every capacity and      *)
(* every assignment of roles; and about IndexQueue, which uses the queue as  *)
(* PCQueue says and owns each name from the pop to the delete and no longer. *)
(* IndexQueueAssumption is cited in the second part only.                    *)
EXTENDS IndexQueue, FiniteSetTheorems, TLAPS

\* A thread has a value in hand exactly between the call of Put or TryPut and
\* the push (or the false return).
Carrying == {"empty_wait", "put_mu", "try_put_mu", "put_push"}
HandsOK == \A t \in Threads : elem[t] # NoValue <=> pc[t] \in Carrying

\* Type correctness: the semaphores never go below zero, the deque and the
\* history hold values only.
LEMMA TypeStep == TypeOK /\ HandsOK /\ [Next]_vars => TypeOK' /\ HandsOK'
<1> SUFFICES ASSUME TypeOK, HandsOK, [Next]_vars PROVE TypeOK' /\ HandsOK'
  OBVIOUS
<1> USE PCQueueAssumption DEF TypeOK, PCs, Goto, HandsOK, Carrying
<1>1. ASSUME NEW t \in Threads, Begin(t) \/ Continue(t) PROVE TypeOK' /\ HandsOK'
  <2>1. CASE BeginPut(t) BY <2>1 DEF BeginPut
  <2>2. CASE EmptyLock(t) BY <2>2 DEF EmptyLock
  <2>3. CASE PutMuLock(t) BY <2>3 DEF PutMuLock
  <2>4. CASE PutInQueue(t) BY <2>4 DEF PutInQueue
  <2>5. CASE FullUnlock(t) BY <2>5 DEF FullUnlock
  <2>6. CASE BeginGet(t) BY <2>6 DEF BeginGet
  <2>7. CASE FullLock(t) BY <2>7 DEF FullLock
  <2>8. CASE GetMuLock(t) BY <2>8 DEF GetMuLock
  <2>9. CASE GetFromQueue(t) BY <2>9 DEF GetFromQueue
  <2>10. CASE GetFromEmptyQueue(t) BY <2>10 DEF GetFromEmptyQueue
  <2>11. CASE EmptyUnlock(t) BY <2>11 DEF EmptyUnlock
  <2>12. CASE BeginTryPut(t) BY <2>12 DEF BeginTryPut
  <2>13. CASE TryPutMuLock(t) BY <2>13 DEF TryPutMuLock
  <2>14. CASE TryPutMuBusy(t) BY <2>14 DEF TryPutMuBusy
  <2>15. CASE BeginTryGet(t) BY <2>15 DEF BeginTryGet
  <2>16. CASE TryGetMuLock(t) BY <2>16 DEF TryGetMuLock
  <2>17. CASE TryGetMuBusy(t) BY <2>17 DEF TryGetMuBusy
  <2>18. QED
    BY <1>1, <2>1, <2>2, <2>3, <2>4, <2>5, <2>6, <2>7, <2>8, <2>9, <2>10, <2>11, <2>12, <2>13, <2>14, <2>15, <2>16, <2>17
    DEF Begin, Continue
<1>2. CASE UNCHANGED vars
  BY <1>2 DEF vars
<1>3. QED
  BY <1>1, <1>2 DEF Next

(* The semaphores, the mutex, the deque and every thread keep their types.   *)
THEOREM TypeCorrect == Spec => [](TypeOK /\ HandsOK)
<1>1. Init => TypeOK /\ HandsOK
  BY PCQueueAssumption DEF Init, TypeOK, PCs, HandsOK, Carrying
<1>2. TypeOK /\ HandsOK /\ [Next]_vars => (TypeOK /\ HandsOK)'
  BY TypeStep
<1>3. QED
  BY <1>1, <1>2, PTL DEF Spec

-----------------------------------------------------------------------------
(* Counting: a thread that moves from one place to another changes the     *)
(* number of threads in a set of places by what it leaves and enters.      *)

Weight(place, S) == IF place \in S THEN 1 ELSE 0

(* How many threads stand at the places of S is a number.                    *)
LEMMA CountType ==
  ASSUME NEW S
  PROVE  Count(S) \in Nat
<1>1. {t \in Threads : pc[t] \in S} \in SUBSET Threads
  OBVIOUS
<1>2. QED
  BY <1>1, FS_Subset, FS_CardinalityType, PCQueueAssumption DEF Count

(* A thread that goes from one place to another leaves the count of the      *)
(* places of S unless one of the two is among them.                          *)
LEMMA CountStep ==
  ASSUME TypeOK, NEW t \in Threads, NEW from, NEW to, Goto(t, from, to), NEW S
  PROVE  Count(S)' = Count(S) - Weight(from, S) + Weight(to, S)
<1> DEFINE A == {u \in Threads : pc[u] \in S}
           B == {u \in Threads : pc'[u] \in S}
<1>1. IsFiniteSet(A)
  BY FS_Subset, PCQueueAssumption
<1>2. Cardinality(A) \in Nat
  BY <1>1, FS_CardinalityType
<1>3. /\ pc[t] = from /\ pc'[t] = to
      /\ \A u \in Threads \ {t} : pc'[u] = pc[u]
  BY DEF Goto, TypeOK
<1>4. /\ from \in S => t \in A
      /\ from \notin S => t \notin A
      /\ B = IF to \in S THEN A \cup {t} ELSE A \ {t}
  BY <1>3
<1>5. Count(S) = Cardinality(A) /\ Count(S)' = Cardinality(B)
  BY DEF Count
<1> HIDE DEF A, B
<1>6. Cardinality(A \cup {t}) = IF t \in A THEN Cardinality(A) ELSE Cardinality(A) + 1
  BY <1>1, FS_AddElement
<1>7. Cardinality(A \ {t}) = IF t \in A THEN Cardinality(A) - 1 ELSE Cardinality(A)
  BY <1>1, FS_RemoveElement
<1>8. QED
  BY <1>2, <1>4, <1>5, <1>6, <1>7 DEF Weight

-----------------------------------------------------------------------------
(* The tokens.  Conservation alone does not bound the deque; together with *)
(* the sign of Stranded it does, and the sign is what the Try operations   *)
(* decide.                                                                 *)

Conserved == full + empty + Count(FullSide) + Count(EmptySide) = Capacity

\* The effect of a step of thread t: Stranded moves only when a TryLock of mu_
\* fails.
StrandedStep(t) ==
  \/ Stranded' = Stranded
  \/ /\ TryPutMuBusy(t)
     /\ Stranded' = Stranded - 1
  \/ /\ TryGetMuBusy(t)
     /\ Stranded' = Stranded + 1

(* One call of a thread keeps the sum of the tokens.                         *)
LEMMA TokenStep ==
  ASSUME TypeOK, HandsOK, Conserved, NEW t \in Threads, Begin(t) \/ Continue(t),
         ~ GetFromEmptyQueue(t)
  PROVE  Conserved' /\ StrandedStep(t)
<1> DEFINE F == Count(FullSide)
           E == Count(EmptySide)
<1>1. /\ F \in Nat /\ E \in Nat /\ Len(queue) \in Nat
      /\ full \in Nat /\ empty \in Nat /\ Capacity \in Nat
  BY CountType, PCQueueAssumption DEF TypeOK
<1>2. ASSUME NEW from, NEW to, Goto(t, from, to)
      PROVE  /\ F' = F - Weight(from, FullSide) + Weight(to, FullSide)
             /\ E' = E - Weight(from, EmptySide) + Weight(to, EmptySide)
  BY <1>2, CountStep
<1>3. ASSUME PutInQueue(t) PROVE Len(queue') = Len(queue) + 1
  BY <1>3 DEF PutInQueue, Goto, HandsOK, Carrying, TypeOK
<1>4. ASSUME GetFromQueue(t) PROVE Len(queue') = Len(queue) - 1
  BY <1>4 DEF GetFromQueue, TypeOK
<1>5. full + empty + F + E = Capacity
  BY DEF Conserved
<1> HIDE DEF F, E
<1> DEFINE Goal == /\ full' + empty' + F' + E' = Capacity
                   /\ \/ Len(queue') - full' - F' = Len(queue) - full - F
                      \/ /\ TryPutMuBusy(t)
                         /\ Len(queue') - full' - F' = Len(queue) - full - F - 1
                      \/ /\ TryGetMuBusy(t)
                         /\ Len(queue') - full' - F' = Len(queue) - full - F + 1
<1> USE <1>1, <1>2, <1>5 DEF Weight, FullSide, EmptySide
<1>6. ASSUME BeginPut(t) PROVE Goal
  <2>1. F' = F /\ E' = E
    BY <1>6 DEF BeginPut
  <2>2. QED
    BY <1>6, <2>1 DEF BeginPut
<1>7. ASSUME EmptyLock(t) PROVE Goal BY <1>7 DEF EmptyLock
<1>8. ASSUME PutMuLock(t) PROVE Goal BY <1>8 DEF PutMuLock
<1>9. ASSUME PutInQueue(t) PROVE Goal
  <2>1. F' = F + 1 /\ E' = E - 1
    BY <1>9 DEF PutInQueue
  <2>2. QED
    BY <1>9, <2>1, <1>3 DEF PutInQueue
<1>10. ASSUME FullUnlock(t) PROVE Goal BY <1>10 DEF FullUnlock
<1>11. ASSUME BeginGet(t) PROVE Goal BY <1>11 DEF BeginGet
<1>12. ASSUME FullLock(t) PROVE Goal BY <1>12 DEF FullLock
<1>13. ASSUME GetMuLock(t) PROVE Goal BY <1>13 DEF GetMuLock
<1>14. ASSUME GetFromQueue(t) PROVE Goal
  <2>1. Goto(t, "get_pop", "empty_post") /\ full' = full /\ empty' = empty
    BY <1>14 DEF GetFromQueue
  <2>2. F' = F - 1 /\ E' = E + 1
    BY <2>1
  <2>3. Len(queue') = Len(queue) - 1
    BY <1>14, <1>4
  <2>4. QED
    BY <2>1, <2>2, <2>3
<1>15. ASSUME EmptyUnlock(t) PROVE Goal BY <1>15 DEF EmptyUnlock
<1>16. ASSUME BeginTryPut(t) PROVE Goal
  <2>1. F' = F /\ E' = E + 1
    BY <1>16 DEF BeginTryPut
  <2>2. QED
    BY <1>16, <2>1 DEF BeginTryPut
<1>17. ASSUME TryPutMuLock(t) PROVE Goal BY <1>17 DEF TryPutMuLock
<1>18. ASSUME TryPutMuBusy(t) PROVE Goal
  <2>1. F' = F + 1 /\ E' = E - 1
    BY <1>18 DEF TryPutMuBusy
  <2>2. QED
    BY <1>18, <2>1 DEF TryPutMuBusy
<1>19. ASSUME BeginTryGet(t) PROVE Goal
  <2>1. F' = F + 1 /\ E' = E
    BY <1>19 DEF BeginTryGet
  <2>2. QED
    BY <1>19, <2>1 DEF BeginTryGet
<1>20. ASSUME TryGetMuLock(t) PROVE Goal BY <1>20 DEF TryGetMuLock
<1>21. ASSUME TryGetMuBusy(t) PROVE Goal
  <2>1. F' = F - 1 /\ E' = E + 1
    BY <1>21 DEF TryGetMuBusy
  <2>2. QED
    BY <1>21, <2>1 DEF TryGetMuBusy
<1>22. Goal
  BY <1>6, <1>7, <1>8, <1>9, <1>10, <1>11, <1>12, <1>13,
     <1>14, <1>15, <1>16, <1>17, <1>18, <1>19, <1>20, <1>21 DEF Begin, Continue
<1>23. QED
  BY <1>22 DEF Conserved, Stranded, StrandedStep, F, E

\* No thread is inside a Try operation that nobody calls.
TriesOK ==
  /\ NobodyCalls("TryPut") => \A t \in Threads : pc[t] # "try_put_mu"
  /\ NobodyCalls("TryGet") => \A t \in Threads : pc[t] # "try_get_mu"

TokenInv ==
  /\ TypeOK /\ HandsOK /\ TriesOK
  /\ Defined => /\ Conserved
                /\ NobodyCalls("TryPut") => Stranded >= 0
                /\ NobodyCalls("TryGet") => Stranded <= 0
  /\ NobodyCalls("TryPut") => Defined
  /\ ~ Defined => queue = <<>>

\* A thread about to pop holds a token of full_, so without stray tokens there
\* is an element to pop.
LEMMA PopHasElement ==
  ASSUME TypeOK, Stranded >= 0, NEW t \in Threads, pc[t] = "get_pop"
  PROVE  queue # <<>>
<1> DEFINE A == {u \in Threads : pc[u] \in FullSide}
<1>1. IsFiniteSet(A) /\ t \in A
  BY FS_Subset, PCQueueAssumption DEF FullSide
<1>2. Cardinality(A) # 0 /\ Cardinality(A) \in Nat
  BY <1>1, FS_EmptySet, FS_CardinalityType
<1>3. Len(queue) >= full + Cardinality(A)
  BY <1>2 DEF Stranded, Count, TypeOK
<1>4. QED
  BY <1>2, <1>3 DEF TypeOK

(* Every step keeps the invariant on the tokens.                             *)
LEMMA TokenInvStep == TokenInv /\ [Next]_vars => TokenInv'
<1> SUFFICES ASSUME TokenInv, [Next]_vars PROVE TokenInv'
  OBVIOUS
<1>1. TypeOK' /\ HandsOK'
  BY TypeStep DEF TokenInv
<1>2. CASE UNCHANGED vars
  <2>1. Count(FullSide)' = Count(FullSide) /\ Count(EmptySide)' = Count(EmptySide)
    BY <1>2 DEF vars, Count
  <2>2. QED
    BY <1>1, <1>2, <2>1
    DEF vars, TokenInv, TriesOK, Defined, Conserved, Stranded, NobodyCalls
<1>3. ASSUME Defined, NEW t \in Threads, Begin(t) \/ Continue(t) PROVE TokenInv'
  <2>1. role' = role
    BY <1>3 DEF Begin, BeginPut, BeginGet, BeginTryPut, BeginTryGet, Continue, EmptyLock,
       PutMuLock, PutInQueue, FullUnlock, FullLock, GetMuLock, GetFromQueue,
       GetFromEmptyQueue, EmptyUnlock, TryPutMuLock, TryPutMuBusy, TryGetMuLock,
       TryGetMuBusy
  <2>2. TriesOK'
    BY <1>3, <2>1 DEF TokenInv, TriesOK, TypeOK, NobodyCalls, Goto,
       Begin, BeginPut, BeginGet, BeginTryPut, BeginTryGet, Continue, EmptyLock,
       PutMuLock, PutInQueue, FullUnlock, FullLock, GetMuLock, GetFromQueue,
       GetFromEmptyQueue, EmptyUnlock, TryPutMuLock, TryPutMuBusy, TryGetMuLock,
       TryGetMuBusy
  <2>3. CASE GetFromEmptyQueue(t)
    <3>1. pc[t] = "get_pop" /\ queue = <<>> /\ queue' = <<>>
      BY <2>3 DEF GetFromEmptyQueue, Goto
    <3>2. ~ NobodyCalls("TryPut")
      BY <1>3, <3>1, PopHasElement DEF TokenInv
    <3>3. ~ Defined'
      BY <2>3 DEF GetFromEmptyQueue, Goto, Defined, TokenInv, TypeOK
    <3>4. QED
      BY <1>1, <2>1, <2>2, <3>1, <3>2, <3>3 DEF TokenInv, NobodyCalls
  <2>4. CASE ~ GetFromEmptyQueue(t)
    <3>1. Conserved' /\ StrandedStep(t)
      BY <1>3, <2>4, TokenStep DEF TokenInv
    <3>2. Stranded \in Int
      BY CountType DEF Stranded, TokenInv, TypeOK
    <3>3. NobodyCalls("TryPut") => Stranded' >= 0
      BY <1>3, <3>1, <3>2 DEF TokenInv, TriesOK, StrandedStep, TryPutMuBusy, Goto
    <3>4. NobodyCalls("TryGet") => Stranded' <= 0
      BY <1>3, <3>1, <3>2 DEF TokenInv, TriesOK, StrandedStep, TryGetMuBusy, Goto
    <3>5. Defined'
      BY <1>3, <2>4 DEF TokenInv, TypeOK, Defined, Goto,
       Begin, BeginPut, BeginGet, BeginTryPut, BeginTryGet, Continue, EmptyLock,
       PutMuLock, PutInQueue, FullUnlock, FullLock, GetMuLock, GetFromQueue,
       EmptyUnlock, TryPutMuLock, TryPutMuBusy, TryGetMuLock, TryGetMuBusy
    <3>6. QED
      BY <1>1, <2>1, <2>2, <3>1, <3>3, <3>4, <3>5 DEF TokenInv, NobodyCalls
  <2>5. QED
    BY <2>3, <2>4
<1>4. QED
  BY <1>2, <1>3 DEF Next

(* It holds at first: every token is one of empty_.                          *)
LEMMA TokenInvInit == Init => TokenInv
<1> SUFFICES ASSUME Init PROVE TokenInv
  OBVIOUS
<1>1. ASSUME NEW S, "idle" \notin S PROVE Count(S) = 0
  <2>1. {t \in Threads : pc[t] \in S} = {}
    BY <1>1 DEF Init
  <2>2. QED
    BY <2>1, FS_EmptySet DEF Count
<1>2. Count(FullSide) = 0 /\ Count(EmptySide) = 0
  BY <1>1 DEF FullSide, EmptySide
<1>3. TypeOK /\ HandsOK /\ TriesOK /\ Defined
  BY PCQueueAssumption DEF Init, TypeOK, PCs, HandsOK, Carrying, TriesOK, Defined
<1>4. QED
  BY <1>2, <1>3, PCQueueAssumption DEF Init, TokenInv, Conserved, Stranded

(* The tokens of both semaphores always add up as the constructor left them. *)
THEOREM TokenInvariance == Spec => []TokenInv
  BY TokenInvInit, TokenInvStep, PTL DEF Spec

\* Tokens are conserved whatever mix of the four operations runs.
THEOREM TokensAreConserved == Spec => []TokensConserved
<1>1. TokenInv => TokensConserved
  BY DEF TokenInv, TokensConserved, Conserved
<1>2. QED
  BY <1>1, TokenInvariance, PTL

\* Without TryPut no interleaving pops an empty deque.
THEOREM PopsAreSafe == Spec => []NeverPopsEmpty
<1>1. TokenInv => NeverPopsEmpty
  BY DEF TokenInv, NeverPopsEmpty
<1>2. QED
  BY <1>1, TokenInvariance, PTL

\* Without TryGet the deque never outgrows the capacity.
THEOREM CapacityIsKept == Spec => []WithinCapacity
<1>1. Count(FullSide) \in Nat /\ Count(EmptySide) \in Nat
  BY CountType
<1>2. TokenInv /\ Defined => WithinCapacity
  BY <1>1 DEF TokenInv, WithinCapacity, Conserved, Stranded, TypeOK
<1>3. TokenInv /\ ~ Defined => WithinCapacity
  BY PCQueueAssumption DEF TokenInv, WithinCapacity
<1>4. QED
  BY <1>2, <1>3, TokenInvariance, PTL

\* With Put and Get alone a semaphore on which somebody may wait is at zero
\* only for the reason it stands for.
THEOREM WakeupsAreNotLost == Spec => []NoLostWakeup
<1>1. ASSUME TokenInv, NobodyCalls("TryPut"), NobodyCalls("TryGet"), Quiescent
      PROVE  full = Len(queue) /\ empty = Capacity - Len(queue)
  <2>1. ASSUME NEW S, S \cap {"idle", "empty_wait", "full_wait"} = {}
        PROVE  Count(S) = 0
    <3>1. {t \in Threads : pc[t] \in S} = {}
      BY <1>1, <2>1 DEF Quiescent
    <3>2. QED
      BY <3>1, FS_EmptySet DEF Count
  <2>2. Count(FullSide) = 0 /\ Count(EmptySide) = 0
    BY <2>1 DEF FullSide, EmptySide
  <2>3. Defined
    BY <1>1 DEF Quiescent, Defined
  <2>4. QED
    BY <1>1, <2>2, <2>3, PCQueueAssumption DEF TokenInv, Conserved, Stranded, TypeOK
<1>2. TokenInv => NoLostWakeup
  BY <1>1, PCQueueAssumption DEF NoLostWakeup, TokenInv, TypeOK
<1>3. QED
  BY <1>2, TokenInvariance, PTL

-----------------------------------------------------------------------------
(* The queue implements FifoChannel.  A value belongs to one place at a    *)
(* time: unused, in the hands of one thread, inside the deque, or out.     *)

Inside == Channel!ElementsOf(queue) \cup Channel!ElementsOf(taken)

Ownership ==
  /\ fresh \cap Inside = {}
  /\ \A t \in Threads : elem[t] # NoValue => elem[t] \notin fresh \cup Inside
  /\ \A t, u \in Threads : t # u /\ elem[t] = elem[u] => elem[t] = NoValue

OwnInv == TypeOK /\ HandsOK /\ Ownership

(* What PutInQueue appends is added to the elements of the deque.            *)
LEMMA ElementsAppend ==
  ASSUME NEW s \in Seq(Values), NEW v
  PROVE  Channel!ElementsOf(Append(s, v)) = Channel!ElementsOf(s) \cup {v}
<1> DEFINE w == Append(s, v)
<1>1. /\ Len(w) = Len(s) + 1 /\ w[Len(s) + 1] = v /\ Len(s) \in Nat
      /\ \A i \in 1 .. Len(s) : w[i] = s[i]
  OBVIOUS
<1> HIDE DEF w
<1>2. 1 .. Len(w) = (1 .. Len(s)) \cup {Len(s) + 1}
  BY <1>1
<1>3. Channel!ElementsOf(w) = Channel!ElementsOf(s) \cup {v}
  BY <1>1, <1>2 DEF Channel!ElementsOf
<1>4. QED
  BY <1>3 DEF w

(* What GetFromQueue removes is the head; the other elements stay.           *)
LEMMA ElementsTail ==
  ASSUME NEW s \in Seq(Values), s # <<>>
  PROVE  Channel!ElementsOf(s) = Channel!ElementsOf(Tail(s)) \cup {Head(s)}
<1> DEFINE w == Tail(s)
<1>1. /\ Len(s) \in Nat /\ Len(s) > 0 /\ Len(w) = Len(s) - 1
      /\ Head(s) = s[1]
      /\ \A i \in 1 .. Len(w) : w[i] = s[i + 1]
  OBVIOUS
<1> HIDE DEF w
<1>2. \A i \in 2 .. Len(s) : i - 1 \in 1 .. Len(w) /\ w[i - 1] = s[i]
  BY <1>1
<1>3. Channel!ElementsOf(s) = Channel!ElementsOf(w) \cup {Head(s)}
  BY <1>1, <1>2 DEF Channel!ElementsOf
<1>4. QED
  BY <1>3 DEF w

\* One step of one thread is an insertion, a removal or invisible.
ChannelStep == Channel!Next \/ (UNCHANGED <<queue, taken>>)

(* A step keeps every value in one place and is a step of FifoChannel.       *)
LEMMA OwnStep == OwnInv /\ [Next]_vars => Ownership' /\ ChannelStep
<1> SUFFICES ASSUME OwnInv, [Next]_vars PROVE Ownership' /\ ChannelStep
  OBVIOUS
<1> USE DEF OwnInv, TypeOK
<1>1. CASE UNCHANGED vars
  BY <1>1 DEF vars, Ownership, Inside, ChannelStep, Channel!ElementsOf
<1>2. ASSUME NEW t \in Threads, PutInQueue(t) PROVE Ownership' /\ ChannelStep
  <2>1. elem[t] \in Values /\ elem[t] \notin fresh \cup Inside
    BY <1>2, PCQueueAssumption DEF PutInQueue, Goto, HandsOK, Carrying, Ownership
  <2>2. Inside' = Inside \cup {elem[t]}
    BY <1>2, <2>1, ElementsAppend DEF PutInQueue, Inside
  <2>3. Channel!Insert(elem[t])
    BY <1>2, <2>1 DEF PutInQueue, Channel!Insert, Inside
  <2>4. Ownership'
    BY <1>2, <2>1, <2>2 DEF PutInQueue, Ownership
  <2>5. QED
    BY <2>1, <2>3, <2>4 DEF ChannelStep, Channel!Next
<1>3. ASSUME NEW t \in Threads, GetFromQueue(t) PROVE Ownership' /\ ChannelStep
  <2>1. Inside' = Inside
    <3>1. Head(queue) \in Values
      BY <1>3 DEF GetFromQueue
    <3>2. QED
      BY <1>3, <3>1, ElementsAppend, ElementsTail DEF GetFromQueue, Inside
  <2>2. Channel!Remove
    BY <1>3 DEF GetFromQueue, Channel!Remove
  <2>3. QED
    BY <1>3, <2>1, <2>2 DEF GetFromQueue, Ownership, ChannelStep, Channel!Next
<1>4. ASSUME NEW t \in Threads, Begin(t) \/ Continue(t),
             ~ PutInQueue(t), ~ GetFromQueue(t)
      PROVE  Ownership' /\ ChannelStep
  <2>1. UNCHANGED <<queue, taken>>
    BY <1>4 DEF Begin, BeginPut, BeginGet, BeginTryPut, BeginTryGet, Continue, EmptyLock,
       PutMuLock, FullUnlock, FullLock, GetMuLock, GetFromEmptyQueue, EmptyUnlock,
       TryPutMuLock, TryPutMuBusy, TryGetMuLock, TryGetMuBusy
  <2>2. Inside' = Inside
    BY <2>1 DEF Inside, Channel!ElementsOf
  <2>3. CASE BeginPut(t) \/ BeginTryPut(t)
    BY <2>2, <2>3, PCQueueAssumption DEF BeginPut, BeginTryPut, Goto, Ownership, HandsOK,
       Carrying, ChannelStep
  <2>4. CASE TryPutMuBusy(t)
    BY <2>1, <2>2, <2>4 DEF TryPutMuBusy, Goto, Ownership, HandsOK, Carrying, ChannelStep
  <2>5. CASE UNCHANGED <<elem, fresh>>
    BY <2>1, <2>2, <2>5 DEF Ownership, ChannelStep
  <2>6. QED
    BY <1>4, <2>3, <2>4, <2>5 DEF Begin, BeginGet, BeginTryGet, Continue, EmptyLock,
       PutMuLock, FullUnlock, FullLock, GetMuLock, GetFromEmptyQueue, EmptyUnlock,
       TryPutMuLock, TryGetMuLock, TryGetMuBusy
<1>5. QED
  BY <1>1, <1>2, <1>3, <1>4 DEF Next

\* Each value comes out once and in the order the values went in, whatever mix
\* of the four operations the threads call.
THEOREM ImplementsFifoChannel == Spec => FifoOrder
<1>1. Init => OwnInv
  BY PCQueueAssumption DEF Init, OwnInv, TypeOK, PCs, HandsOK, Carrying, Ownership, Inside,
     Channel!ElementsOf
<1>2. OwnInv /\ [Next]_vars => OwnInv'
  BY TypeStep, OwnStep DEF OwnInv
<1>3. Init => Channel!Init
  BY DEF Init, Channel!Init
<1>4. OwnInv /\ [Next]_vars => [Channel!Next]_<<queue, taken>>
  BY OwnStep DEF ChannelStep
<1>5. QED
  BY <1>1, <1>2, <1>3, <1>4, PTL DEF Spec, FifoOrder, Channel!Spec

-----------------------------------------------------------------------------
(* The index agent on the queue.                                             *)

(* A value is at one place of the queue, and was not taken.                  *)
Distinct ==
  /\ \A i, j \in 1 .. Len(queue) : queue[i] = queue[j] => i = j
  /\ Channel!ElementsOf(queue) \cap Channel!ElementsOf(taken) = {}

(* What was taken is in the batch or deleted, and not both.                  *)
TakenSplit ==
  /\ batch \in Seq(Values)
  /\ Channel!ElementsOf(taken) = freed \cup BatchSet
  /\ freed \cap BatchSet = {}

(* Nobody but the agent is ever about to take.                               *)
Producing == {"idle", "empty_wait", "put_mu", "put_push", "full_post"}

ProducersPut ==
  /\ \A t \in Threads \ {Agent} : pc[t] \in Producing
  /\ Agent \in Threads /\ role = [t \in Threads |-> IF t = Agent THEN {"Get", "TryGet"} ELSE {"Put"}]

IQInv == TokenInv /\ OwnInv /\ Distinct /\ TakenSplit /\ ProducersPut

(* The agent and the producers make the steps of PCQueue only.               *)
LEMMA QueueSteps == [IQNext]_allVars => [Next]_vars
<1> SUFFICES ASSUME IQNext PROVE [Next]_vars
  BY DEF allVars
<1>1. Defined /\ Agent \in Threads
  BY IndexQueueAssumption DEF IQNext
<1>2. ASSUME NEW t \in Threads, Produce(t) PROVE Next
  BY <1>1, <1>2 DEF Produce, Next, Begin
<1>3. ASSUME Begin(Agent) \/ Continue(Agent) PROVE Next
  BY <1>1, <1>3 DEF Next
<1>4. ASSUME AgentStep PROVE [Next]_vars
  BY <1>3, <1>4 DEF AgentStep, GetFirst, TryNext, Collect, DrainNoToken, DrainBusy, QueueStep,
                    Index, Update, DoneRequests, Begin, Continue
<1> QED
  BY <1>2, <1>4 DEF IQNext

(* An insertion or a removal leaves no value in two places.                  *)
LEMMA DistinctStep ==
  ASSUME OwnInv, Distinct, ChannelStep
  PROVE  Distinct'
<1>1. queue \in Seq(Values) /\ taken \in Seq(Values)
  BY DEF OwnInv, TypeOK
<1>2. ASSUME NEW v \in Values, Channel!Insert(v) PROVE Distinct'
  <2>1. /\ v \notin Channel!ElementsOf(queue) /\ v \notin Channel!ElementsOf(taken)
        /\ queue' = Append(queue, v) /\ taken' = taken
    BY <1>2 DEF Channel!Insert
  <2>2. Channel!ElementsOf(queue') = Channel!ElementsOf(queue) \cup {v}
    BY <1>1, <2>1, ElementsAppend
  <2>3. /\ Len(queue) \in Nat /\ Len(queue') = Len(queue) + 1
        /\ queue'[Len(queue) + 1] = v
        /\ \A i \in 1 .. Len(queue) : queue'[i] = queue[i]
    BY <1>1, <2>1
  <2>4. \A i \in 1 .. Len(queue) : queue[i] # v
    BY <2>1 DEF Channel!ElementsOf
  <2>5. ASSUME NEW i \in 1 .. Len(queue'), NEW j \in 1 .. Len(queue'), queue'[i] = queue'[j]
        PROVE  i = j
    <3>1. \A k \in 1 .. Len(queue') : k \in 1 .. Len(queue) \/ k = Len(queue) + 1
      BY <2>3
    <3>2. CASE i \in 1 .. Len(queue) /\ j \in 1 .. Len(queue)
      BY <2>3, <2>5, <3>2 DEF Distinct
    <3>3. \A k \in 1 .. Len(queue') : queue'[k] = v <=> k = Len(queue) + 1
      BY <2>3, <2>4, <3>1
    <3>4. CASE queue'[i] = v
      BY <2>5, <3>3, <3>4
    <3>5. CASE queue'[i] # v
      <4>1. i \in 1 .. Len(queue) /\ j \in 1 .. Len(queue)
        BY <2>5, <3>1, <3>3, <3>5
      <4> QED
        BY <3>2, <4>1
    <3> QED
      BY <3>4, <3>5
  <2>6. Channel!ElementsOf(queue') \cap Channel!ElementsOf(taken') = {}
    BY <2>1, <2>2 DEF Distinct
  <2> QED
    BY <2>5, <2>6 DEF Distinct, Channel!ElementsOf
<1>3. ASSUME Channel!Remove PROVE Distinct'
  <2>1. queue # <<>> /\ queue' = Tail(queue) /\ taken' = Append(taken, Head(queue))
    BY <1>3 DEF Channel!Remove
  <2>2. /\ Channel!ElementsOf(queue) = Channel!ElementsOf(queue') \cup {Head(queue)}
        /\ Channel!ElementsOf(taken') = Channel!ElementsOf(taken) \cup {Head(queue)}
    BY <1>1, <2>1, ElementsTail, ElementsAppend
  <2>3. /\ Len(queue) \in Nat /\ Len(queue) > 0 /\ Len(queue') = Len(queue) - 1
        /\ Head(queue) = queue[1]
        /\ \A i \in 1 .. Len(queue') : queue'[i] = queue[i + 1]
    BY <1>1, <2>1
  <2>4. \A i, j \in 1 .. Len(queue') : queue'[i] = queue'[j] => i = j
    BY <2>3 DEF Distinct
  <2>5. \A i \in 1 .. Len(queue') : queue'[i] # Head(queue)
    BY <2>3 DEF Distinct
  <2>6. Channel!ElementsOf(queue') \cap Channel!ElementsOf(taken') = {}
    BY <2>2, <2>5 DEF Distinct, Channel!ElementsOf
  <2> QED
    BY <2>4, <2>6 DEF Distinct, Channel!ElementsOf
<1>4. ASSUME UNCHANGED <<queue, taken>> PROVE Distinct'
  BY <1>4 DEF Distinct, Channel!ElementsOf
<1> QED
  BY <1>2, <1>3, <1>4 DEF ChannelStep, Channel!Next

(* Only the agent's pop takes, and only DoneRequests deletes.                *)
LEMMA SplitStep ==
  ASSUME IQInv, [IQNext]_allVars
  PROVE  TakenSplit'
<1>1. queue \in Seq(Values) /\ taken \in Seq(Values) /\ batch \in Seq(Values)
  BY DEF IQInv, OwnInv, TypeOK, TakenSplit
<1>2. CASE Collect
  <2>1. /\ queue # <<>> /\ Head(queue) \in Values
        /\ taken' = Append(taken, Head(queue)) /\ batch' = Append(batch, Head(queue))
        /\ freed' = freed
    BY <1>1, <1>2 DEF Collect, GetFromQueue
  <2>2. /\ Channel!ElementsOf(taken') = Channel!ElementsOf(taken) \cup {Head(queue)}
        /\ Channel!ElementsOf(batch') = Channel!ElementsOf(batch) \cup {Head(queue)}
        /\ batch' \in Seq(Values)
    BY <1>1, <2>1, ElementsAppend
  <2>3. Head(queue) \notin Channel!ElementsOf(taken)
    BY <1>1, <2>1, ElementsTail DEF IQInv, Distinct
  <2> QED
    BY <2>1, <2>2, <2>3 DEF IQInv, TakenSplit, BatchSet
<1>3. CASE DoneRequests
  <2>1. Channel!ElementsOf(<<>>) = {}
    BY DEF Channel!ElementsOf
  <2>2. taken' = taken /\ batch' = <<>> /\ freed' = freed \cup BatchSet
    BY <1>3 DEF DoneRequests, vars
  <2> QED
    BY <2>1, <2>2 DEF IQInv, TakenSplit, BatchSet, Channel!ElementsOf
<1>4. ASSUME UNCHANGED <<taken, batch, freed>> PROVE TakenSplit'
  BY <1>4 DEF IQInv, TakenSplit, BatchSet, Channel!ElementsOf
<1>5. ASSUME NEW t \in Threads, Produce(t) PROVE UNCHANGED <<taken, batch, freed>>
  <2>1. UNCHANGED <<batch, freed>>
    BY <1>5 DEF Produce, agentVars
  <2>2. ~GetFromQueue(t)
    BY <1>5 DEF IQInv, ProducersPut, Producing, Produce, GetFromQueue, Goto
  <2>3. UNCHANGED taken
    BY <1>5, <2>2 DEF Produce, BeginPut, Continue, EmptyLock, PutMuLock, PutInQueue, FullUnlock,
       FullLock, GetMuLock, GetFromEmptyQueue, EmptyUnlock, TryPutMuLock, TryPutMuBusy,
       TryGetMuLock, TryGetMuBusy
  <2> QED
    BY <2>1, <2>3
<1>6. ASSUME AgentStep, ~Collect, ~DoneRequests PROVE UNCHANGED <<taken, batch, freed>>
  BY <1>6 DEF AgentStep, GetFirst, TryNext, DrainNoToken, DrainBusy, QueueStep, Index, Update,
     vars, agentVars, BeginGet, BeginTryGet, FullLock, GetMuLock, TryGetMuLock, EmptyUnlock,
     TryGetMuBusy
<1>7. UNCHANGED allVars => UNCHANGED <<taken, batch, freed>>
  BY DEF allVars, vars, agentVars
<1> QED
  BY <1>2, <1>3, <1>4, <1>5, <1>6, <1>7 DEF IQNext

(* A value is put by its producer, which puts it once.                       *)
LEMMA ProducersStep ==
  ASSUME IQInv, [IQNext]_allVars
  PROVE  ProducersPut'
<1>1. pc \in [Threads -> PCs]
  BY DEF IQInv, OwnInv, TypeOK
<1>2. ASSUME NEW t \in Threads, Produce(t)
      PROVE  role' = role /\ \A u \in Threads \ {Agent} : pc'[u] \in Producing
  <2>1. t # Agent /\ pc[t] \in Producing
    BY <1>2 DEF IQInv, ProducersPut, Produce
  <2> QED
    BY <1>1, <1>2, <2>1
    DEF IQInv, ProducersPut, Producing, Produce, Goto, BeginPut, Continue, EmptyLock, PutMuLock,
        PutInQueue, FullUnlock, FullLock, GetMuLock, GetFromQueue, GetFromEmptyQueue,
        EmptyUnlock, TryPutMuLock, TryPutMuBusy, TryGetMuLock, TryGetMuBusy
<1>3. ASSUME AgentStep
      PROVE  role' = role /\ \A u \in Threads \ {Agent} : pc'[u] = pc[u]
  BY <1>1, <1>3 DEF AgentStep, GetFirst, TryNext, Collect, DrainNoToken, DrainBusy, QueueStep,
     Index, Update, DoneRequests, vars, Goto, BeginGet, BeginTryGet, GetFromQueue, FullLock,
     GetMuLock, TryGetMuLock, EmptyUnlock, TryGetMuBusy
<1>4. UNCHANGED allVars => UNCHANGED <<pc, role>>
  BY DEF allVars, vars
<1> QED
  BY <1>2, <1>3, <1>4 DEF IQInv, ProducersPut, IQNext

(* The invariant holds of the empty queue.                                   *)
LEMMA IQInvInit == IQInit => IQInv
<1> SUFFICES ASSUME IQInit PROVE IQInv
  OBVIOUS
<1>1. TokenInv /\ OwnInv
  BY TokenInvInit, PCQueueAssumption DEF IQInit, Init, TokenInv, OwnInv, Ownership, Inside,
     Channel!ElementsOf
<1>2. Distinct /\ TakenSplit
  BY DEF IQInit, Init, Distinct, TakenSplit, BatchSet, Channel!ElementsOf
<1>3. ProducersPut
  BY IndexQueueAssumption DEF IQInit, Init, ProducersPut, Producing
<1> QED
  BY <1>1, <1>2, <1>3 DEF IQInv

(* The invariant is inductive, with that of the queue.                       *)
LEMMA IQInvStep == IQInv /\ [IQNext]_allVars => IQInv'
<1> SUFFICES ASSUME IQInv, [IQNext]_allVars PROVE IQInv'
  OBVIOUS
<1>1. [Next]_vars
  BY QueueSteps
<1>2. TokenInv' /\ OwnInv' /\ ChannelStep
  BY <1>1, TokenInvStep, TypeStep, OwnStep DEF IQInv, OwnInv
<1>3. Distinct'
  BY <1>2, DistinctStep DEF IQInv
<1> QED
  BY <1>2, <1>3, SplitStep, ProducersStep DEF IQInv

(* The agent and its producers use the queue as its proofs assume: what is   *)
(* proved of PCQueue holds of the index request queue.                       *)
THEOREM UsesTheQueue == IQSpec => Spec
<1>1. IQInit => Init
  BY DEF IQInit
<1> QED
  BY <1>1, QueueSteps, PTL DEF IQSpec, Spec

(* Nobody calls TryPut on the index queue, so the agent's Gets and TryGets,  *)
(* however they interleave with the Puts, never pop an empty deque.          *)
THEOREM AgentPopsAreSafe == IQSpec => []Defined
<1>1. IQInv => Defined
  BY DEF IQInv, TokenInv, ProducersPut, NobodyCalls
<1> QED
  BY <1>1, IQInvInit, IQInvStep, PTL DEF IQSpec

(* A name belongs to the queue, then to the batch of the agent, and is       *)
(* deleted then: never while somebody may still read it, and none is leaked. *)
THEOREM NamesAreOwnedOnce == IQSpec => []NamesOwnedOnce
<1>1. IQInv => NamesOwnedOnce
  BY DEF IQInv, Distinct, TakenSplit, NamesOwnedOnce
<1> QED
  BY <1>1, IQInvInit, IQInvStep, PTL DEF IQSpec
=============================================================================
