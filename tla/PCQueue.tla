------------------------------ MODULE PCQueue ------------------------------
(***************************************************************************)
(* ProducerConsumerQueue<T> of pcqueue.h: a deque guarded by a mutex and   *)
(* by two counting semaphores, full_ (elements ready) and empty_ (free     *)
(* slots).  Every semaphore or mutex call is a step of its own, so that    *)
(* the steps of Put, Get, TryPut and TryGet of different threads           *)
(* interleave as they do on the machine; the deque operation and the       *)
(* release of the mutex that follows it are one step, because nobody else  *)
(* reads the deque before that release.                                    *)
(*                                                                         *)
(* Bound: a value is put successfully at most once (the program puts       *)
(* freshly allocated pointers), so Values bounds the number of elements.   *)
(***************************************************************************)
EXTENDS Integers, Sequences, FiniteSets

CONSTANTS Threads,     \* the threads that share the queue
          Values,      \* the pointers that can be put
          Capacity,    \* the constructor's argument
          Roles,       \* who may call what: a set of [Threads -> SUBSET Ops]
          NoThread,    \* mu_ is free
          NoValue      \* a thread carries no value

Ops == {"Put", "Get", "TryPut", "TryGet"}

ASSUME PCQueueAssumption ==
  /\ IsFiniteSet(Threads)
  /\ Capacity \in Nat
  /\ Roles \subseteq [Threads -> SUBSET Ops]
  /\ NoThread \notin Threads
  /\ NoValue \notin Values

VARIABLES role,        \* the member of Roles that this program is (never changes)
          queue,       \* queue_
          mu,          \* the owner of mu_
          full, empty, \* the values of the two semaphores
          pc,          \* where each thread is
          elem,        \* the argument of a Put or TryPut under way
          fresh,       \* values nobody has put yet
          taken        \* history: the values GetFromQueue returned, in order

vars == <<role, queue, mu, full, empty, pc, elem, fresh, taken>>

PCs == {"idle",
        "empty_wait", "put_mu", "try_put_mu", "put_push", "full_post",
        "full_wait", "get_mu", "try_get_mu", "get_pop", "empty_post",
        "undefined"}

Init ==
  /\ role \in Roles
  /\ queue = <<>> /\ mu = NoThread
  /\ full = 0 /\ empty = Capacity
  /\ pc = [t \in Threads |-> "idle"]
  /\ elem = [t \in Threads |-> NoValue]
  /\ fresh = Values
  /\ taken = <<>>

Goto(t, from, to) == pc[t] = from /\ pc' = [pc EXCEPT ![t] = to]

-----------------------------------------------------------------------------
(* Put: empty_.Lock; { mu_.Lock; push_back; mu_.Unlock }; full_.Unlock.    *)

BeginPut(t) ==
  /\ "Put" \in role[t]
  /\ Goto(t, "idle", "empty_wait")
  /\ \E v \in fresh : /\ fresh' = fresh \ {v}
                      /\ elem' = [elem EXCEPT ![t] = v]
  /\ UNCHANGED <<role, queue, mu, full, empty, taken>>

EmptyLock(t) ==
  /\ Goto(t, "empty_wait", "put_mu")
  /\ empty > 0
  /\ empty' = empty - 1
  /\ UNCHANGED <<role, queue, mu, full, elem, fresh, taken>>

PutMuLock(t) ==
  /\ Goto(t, "put_mu", "put_push")
  /\ mu = NoThread
  /\ mu' = t
  /\ UNCHANGED <<role, queue, full, empty, elem, fresh, taken>>

PutInQueue(t) ==
  /\ Goto(t, "put_push", "full_post")
  /\ queue' = Append(queue, elem[t])
  /\ elem' = [elem EXCEPT ![t] = NoValue]
  /\ mu' = NoThread
  /\ UNCHANGED <<role, full, empty, fresh, taken>>

\* Mutant of FullUnlock: Put returns without posting full_.
FullUnlockForgotten(t) ==
  /\ Goto(t, "full_post", "idle")
  /\ UNCHANGED <<role, queue, mu, full, empty, elem, fresh, taken>>

FullUnlock(t) ==
  /\ Goto(t, "full_post", "idle")
  /\ full' = full + 1
  /\ UNCHANGED <<role, queue, mu, empty, elem, fresh, taken>>

-----------------------------------------------------------------------------
(* Get: full_.Lock; { mu_.Lock; front, pop_front; mu_.Unlock };            *)
(* empty_.Unlock.                                                          *)

BeginGet(t) ==
  /\ "Get" \in role[t]
  /\ Goto(t, "idle", "full_wait")
  /\ UNCHANGED <<role, queue, mu, full, empty, elem, fresh, taken>>

FullLock(t) ==
  /\ Goto(t, "full_wait", "get_mu")
  /\ full > 0
  /\ full' = full - 1
  /\ UNCHANGED <<role, queue, mu, empty, elem, fresh, taken>>

GetMuLock(t) ==
  /\ Goto(t, "get_mu", "get_pop")
  /\ mu = NoThread
  /\ mu' = t
  /\ UNCHANGED <<role, queue, full, empty, elem, fresh, taken>>

\* Mutant of GetFromQueue: back() and pop_back().
GetFromQueueBack(t) ==
  /\ queue # <<>>
  /\ Goto(t, "get_pop", "empty_post")
  /\ taken' = Append(taken, queue[Len(queue)])
  /\ queue' = SubSeq(queue, 1, Len(queue) - 1)
  /\ mu' = NoThread
  /\ UNCHANGED <<role, full, empty, elem, fresh>>

GetFromQueue(t) ==
  /\ queue # <<>>
  /\ Goto(t, "get_pop", "empty_post")
  /\ taken' = Append(taken, Head(queue))
  /\ queue' = Tail(queue)
  /\ mu' = NoThread
  /\ UNCHANGED <<role, full, empty, elem, fresh>>

\* front() and pop_front() of an empty deque: undefined behaviour.  The model
\* says nothing of what the process does afterwards.
GetFromEmptyQueue(t) ==
  /\ queue = <<>>
  /\ Goto(t, "get_pop", "undefined")
  /\ UNCHANGED <<role, queue, mu, full, empty, elem, fresh, taken>>

\* Mutant of EmptyUnlock: Get posts full_, the semaphore it waited for.
EmptyUnlockSwapped(t) ==
  /\ Goto(t, "empty_post", "idle")
  /\ full' = full + 1
  /\ UNCHANGED <<role, queue, mu, empty, elem, fresh, taken>>

\* Mutant of EmptyUnlock: Get returns without posting empty_.
EmptyUnlockForgotten(t) ==
  /\ Goto(t, "empty_post", "idle")
  /\ UNCHANGED <<role, queue, mu, full, empty, elem, fresh, taken>>

EmptyUnlock(t) ==
  /\ Goto(t, "empty_post", "idle")
  /\ empty' = empty + 1
  /\ UNCHANGED <<role, queue, mu, full, elem, fresh, taken>>

-----------------------------------------------------------------------------
(* TryPut and TryGet, entered when TryLock of the semaphore succeeds (when *)
(* it fails they return false and change nothing).                         *)

BeginTryPut(t) ==
  /\ "TryPut" \in role[t]
  /\ Goto(t, "idle", "try_put_mu")
  /\ empty > 0
  /\ empty' = empty - 1
  /\ \E v \in fresh : /\ fresh' = fresh \ {v}
                      /\ elem' = [elem EXCEPT ![t] = v]
  /\ UNCHANGED <<role, queue, mu, full, taken>>

TryPutMuLock(t) ==
  /\ Goto(t, "try_put_mu", "put_push")
  /\ mu = NoThread
  /\ mu' = t
  /\ UNCHANGED <<role, queue, full, empty, elem, fresh, taken>>

\* Mutant of TryPutMuBusy: an early return false keeps the token of empty_.
TryPutMuBusyReturns(t) ==
  /\ Goto(t, "try_put_mu", "idle")
  /\ mu # NoThread
  /\ fresh' = fresh \cup {elem[t]}
  /\ elem' = [elem EXCEPT ![t] = NoValue]
  /\ UNCHANGED <<role, queue, mu, full, empty, taken>>

\* mu_.TryLock fails: nothing is pushed, the caller keeps the value, and
\* full_.Unlock follows all the same.
TryPutMuBusy(t) ==
  /\ Goto(t, "try_put_mu", "full_post")
  /\ mu # NoThread
  /\ fresh' = fresh \cup {elem[t]}
  /\ elem' = [elem EXCEPT ![t] = NoValue]
  /\ UNCHANGED <<role, queue, mu, full, empty, taken>>

BeginTryGet(t) ==
  /\ "TryGet" \in role[t]
  /\ Goto(t, "idle", "try_get_mu")
  /\ full > 0
  /\ full' = full - 1
  /\ UNCHANGED <<role, queue, mu, empty, elem, fresh, taken>>

TryGetMuLock(t) ==
  /\ Goto(t, "try_get_mu", "get_pop")
  /\ mu = NoThread
  /\ mu' = t
  /\ UNCHANGED <<role, queue, full, empty, elem, fresh, taken>>

\* mu_.TryLock fails: nothing is popped, and empty_.Unlock follows all the same.
TryGetMuBusy(t) ==
  /\ Goto(t, "try_get_mu", "empty_post")
  /\ mu # NoThread
  /\ UNCHANGED <<role, queue, mu, full, empty, elem, fresh, taken>>

-----------------------------------------------------------------------------
\* The steps of a call under way, up to its return.
Continue(t) ==
  \/ EmptyLock(t) \/ PutMuLock(t) \/ PutInQueue(t) \/ FullUnlock(t)
  \/ FullLock(t) \/ GetMuLock(t) \/ GetFromQueue(t) \/ GetFromEmptyQueue(t)
  \/ EmptyUnlock(t)
  \/ TryPutMuLock(t) \/ TryPutMuBusy(t) \/ TryGetMuLock(t) \/ TryGetMuBusy(t)

Begin(t) == BeginPut(t) \/ BeginGet(t) \/ BeginTryPut(t) \/ BeginTryGet(t)

Defined == \A t \in Threads : pc[t] # "undefined"

Next == Defined /\ \E t \in Threads : Begin(t) \/ Continue(t)

Spec == Init /\ [][Next]_vars

\* Threads run: a call that can proceed does.  The program's consumers
\* (IndexAgent::Run, FileWatcherRequestWorker::Run) call Get in an endless
\* loop; producers call Put when there is something to put, or never.
FairSpec ==
  /\ Spec
  /\ \A t \in Threads : WF_vars(Defined /\ Continue(t)) /\ WF_vars(Defined /\ BeginGet(t))

-----------------------------------------------------------------------------
(* Properties.                                                             *)

TypeOK ==
  /\ role \in Roles
  /\ queue \in Seq(Values) /\ taken \in Seq(Values)
  /\ mu \in Threads \cup {NoThread}
  /\ full \in Nat /\ empty \in Nat
  /\ pc \in [Threads -> PCs]
  /\ elem \in [Threads -> Values \cup {NoValue}]
  /\ fresh \in SUBSET Values

NobodyCalls(op) == \A t \in Threads : op \notin role[t]

\* Threads on their way from a full_ token to the pop (or owing the post of
\* full_ after a push), and the mirror image for empty_.
FullSide == {"get_mu", "try_get_mu", "get_pop", "full_post"}
EmptySide == {"put_mu", "try_put_mu", "put_push", "empty_post"}

Count(S) == Cardinality({t \in Threads : pc[t] \in S})

\* Elements no token of full_ stands for: a TryGet that finds mu_ busy adds
\* one, a TryPut that finds it busy takes one away (a token without element).
Stranded == Len(queue) - full - Count(FullSide)

\* Whatever mix of the four operations runs, no token is made or lost: those
\* of the two semaphores and those the threads carry add up to Capacity.
TokensConserved ==
  Defined => full + empty + Count(FullSide) + Count(EmptySide) = Capacity

\* In a program that never calls TryPut, a token of full_ always stands for an
\* element: no interleaving of Put, Get and TryGet pops an empty deque.
NeverPopsEmpty == NobodyCalls("TryPut") => Defined

\* In a program that never calls TryGet, a token of empty_ always stands for
\* a free slot: the deque never holds more than Capacity elements, whatever
\* Put, Get and TryPut interleave.
WithinCapacity == NobodyCalls("TryGet") => Len(queue) <= Capacity

\* Nobody is between taking a token of one semaphore and posting the other.
Quiescent == \A t \in Threads : pc[t] \in {"idle", "empty_wait", "full_wait"}

\* With Put and Get alone no wakeup is lost: once all calls have returned or
\* wait, a Get waits (with no token to take) only on an empty deque, and a Put
\* waits only on a full one.
NoLostWakeup ==
  /\ NobodyCalls("TryPut") /\ NobodyCalls("TryGet") /\ Quiescent
  => /\ full = 0 <=> queue = <<>>
     /\ empty = 0 <=> Len(queue) = Capacity

\* Whatever mix of the four operations the threads call, a value that is put
\* comes out once and in order.
Channel == INSTANCE FifoChannel WITH items <- queue
FifoOrder == Channel!Spec

\* With Put and Get alone, and a consumer that keeps calling Get, every value
\* that is put is eventually taken.
EveryValueTaken ==
  \A v \in Values :
    /\ NobodyCalls("TryPut") /\ NobodyCalls("TryGet")
    /\ \E t \in Threads : "Get" \in role[t]
    /\ v \in Channel!ElementsOf(queue)
    ~> v \in Channel!ElementsOf(taken)
=============================================================================
