----------------------------- MODULE IndexQueue -----------------------------
(***************************************************************************)
(* IndexAgent (indexagent.cc) at the end of the queue of index requests.   *)
(* Its producers are the inotify thread and the FileWatcherRequestWorker,  *)
(* which Put a copy of a file name (filewatcher.cc); the agent Gets one    *)
(* request, drains the rest with TryGet, runs the indexer on the batch,    *)
(* loads what the indexer wrote into the local tables, frees the names and *)
(* starts again.  The queue is the fine-grained one of PCQueue: the agent  *)
(* and the producers interleave between semaphore and mutex calls.         *)
(*                                                                         *)
(* Abstracted: the file a request names (a request is a value), the        *)
(* indexer's output (the set of requests it was run on), sorting and       *)
(* removing duplicates of the batch (a batch is used as a set there).      *)
(***************************************************************************)
EXTENDS PCQueue

CONSTANTS Agent,            \* the IndexAgent thread
          IndexerMayFail    \* system() may return a non-zero status

Outputs == {"definition", "callgraph"}   \* def_file and callgraph_file

ASSUME IndexQueueAssumption ==
  /\ Agent \in Threads
  /\ IndexerMayFail \in BOOLEAN
  /\ Roles = {[t \in Threads |-> IF t = Agent THEN {"Get", "TryGet"} ELSE {"Put"}]}

VARIABLES stage,       \* where Run() and GetRequests() of the agent are
          batch,       \* file_list, in the order it was filled
          output,      \* the tags files the last Index() produced
          loaded,      \* per table: the requests whose tags were loaded into it
          freed        \* requests whose name DoneRequests has deleted

agentVars == <<stage, batch, output, loaded, freed>>
allVars == <<vars, agentVars>>

Stages == {"get", "drain", "index", "update", "done"}

IQInit ==
  /\ Init
  /\ stage = "get" /\ batch = <<>> /\ output = {}
  /\ loaded = [o \in Outputs |-> {}]
  /\ freed = {}

BatchSet == Channel!ElementsOf(batch)

\* A producer's step.
Produce(t) == t # Agent /\ (BeginPut(t) \/ Continue(t)) /\ UNCHANGED agentVars

\* Blocking Get of the first request of a batch.
GetFirst == stage = "get" /\ BeginGet(Agent) /\ UNCHANGED agentVars

\* The loop's TryGet, when full_.TryLock succeeds.
TryNext == stage = "drain" /\ BeginTryGet(Agent) /\ UNCHANGED agentVars

\* Get or TryGet pops a request: the batch grows and the loop goes on.
Collect ==
  /\ GetFromQueue(Agent)
  /\ batch' = Append(batch, Head(queue))
  /\ stage' = "drain"
  /\ UNCHANGED <<output, loaded, freed>>

\* TryGet returns false: no token of full_, or mu_ was busy.
DrainNoToken ==
  /\ stage = "drain" /\ pc[Agent] = "idle" /\ full = 0
  /\ stage' = "index"
  /\ UNCHANGED <<vars, batch, output, loaded, freed>>

DrainBusy ==
  /\ TryGetMuBusy(Agent)
  /\ stage' = "index"
  /\ UNCHANGED <<batch, output, loaded, freed>>

\* The other steps inside Get and TryGet.  (Nobody calls TryPut here, so a Get
\* never pops an empty deque: theorem PopsAreSafe of PCQueueProofs.)
QueueStep ==
  /\ \/ FullLock(Agent) \/ GetMuLock(Agent) \/ TryGetMuLock(Agent)
     \/ EmptyUnlock(Agent)
  /\ UNCHANGED agentVars

\* Index(): a failing indexer leaves the name of its output file empty.
Index ==
  /\ stage = "index" /\ pc[Agent] = "idle"
  /\ output' \in IF IndexerMayFail THEN SUBSET Outputs ELSE {Outputs}
  /\ stage' = "update"
  /\ UNCHANGED <<vars, batch, loaded, freed>>

\* UpdateLocalServer() for both tables: a file that does not exist is skipped.
Update ==
  /\ stage = "update"
  /\ loaded' = [o \in Outputs |-> IF o \in output THEN loaded[o] \cup BatchSet ELSE loaded[o]]
  /\ stage' = "done"
  /\ UNCHANGED <<vars, batch, output, freed>>

\* Mutant of DoneRequests: the list is not cleared.
DoneRequestsKeepsList ==
  /\ stage = "done"
  /\ freed' = freed \cup BatchSet
  /\ output' = {}
  /\ stage' = "get"
  /\ UNCHANGED <<vars, loaded, batch>>

\* Mutant of DoneRequests: the loop starts at the second name.
DoneRequestsSkipsFirst ==
  /\ stage = "done"
  /\ freed' = freed \cup Channel!ElementsOf(Tail(batch))
  /\ batch' = <<>> /\ output' = {}
  /\ stage' = "get"
  /\ UNCHANGED <<vars, loaded>>

\* DoneRequests(): free the names, delete the tags files, empty the list.
DoneRequests ==
  /\ stage = "done"
  /\ freed' = freed \cup BatchSet
  /\ batch' = <<>> /\ output' = {}
  /\ stage' = "get"
  /\ UNCHANGED <<vars, loaded>>

AgentStep ==
  \/ GetFirst \/ TryNext \/ Collect \/ DrainNoToken \/ DrainBusy \/ QueueStep
  \/ Index \/ Update \/ DoneRequests

IQNext == Defined /\ (AgentStep \/ \E t \in Threads : Produce(t))

IQSpec == IQInit /\ [][IQNext]_allVars

\* All threads run; a producer whose Put has begun goes on with it, but nobody
\* has to change a file.
IQFairSpec ==
  /\ IQSpec
  /\ WF_allVars(Defined /\ AgentStep)
  /\ \A t \in Threads \ {Agent} : WF_allVars(Defined /\ Continue(t) /\ UNCHANGED agentVars)

-----------------------------------------------------------------------------

IQTypeOK ==
  /\ TypeOK
  /\ stage \in Stages
  /\ batch \in Seq(Values)
  /\ output \in SUBSET Outputs
  /\ loaded \in [Outputs -> SUBSET Values]
  /\ freed \in SUBSET Values

\* A name is freed after it was indexed and never while it is queued or in the
\* batch, and no name is leaked: what the agent took is in its batch or freed.
NamesOwnedOnce ==
  /\ freed \cap (BatchSet \cup Channel!ElementsOf(queue)) = {}
  /\ Channel!ElementsOf(taken) = freed \cup BatchSet

\* The agent never sleeps through a Put: after any Put posts full_, a request
\* is taken, even when a TryGet of the agent threw a token away on the way.
PutWakesAgent ==
  \A n \in 0 .. Cardinality(Values) - 1 :
    (\E t \in Threads : pc[t] = "full_post") /\ Len(taken) = n ~> Len(taken) > n

\* A request the agent took is served and freed, so its loop never gets stuck.
TakenIsFreed ==
  \A v \in Values : v \in Channel!ElementsOf(taken) ~> v \in freed

\* indexagent.cc:92 "Try read everything else on the queue without blocking"
\* and indexagent.h:19-21: the agent indexes the requests of the queue.  A
\* request that is in the queue is eventually indexed.
EveryRequestIndexed ==
  \A v \in Values :
    v \in Channel!ElementsOf(queue) ~> v \in loaded["definition"]
=============================================================================
