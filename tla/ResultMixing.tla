---------------------------- MODULE ResultMixing ----------------------------
(***************************************************************************)
(* One query through the mixer: MixerRequestHandler::Execute on the main   *)
(* thread (mixerrequesthandler.cc), one RPC per service of the remote data *)
(* source, each with a thread of its own (datasource.cc,                   *)
(* socket_tags_service.cc, socket.cc), the ResultHolder of each source and *)
(* the ResultMixer that both report to (gtagsmixer.h, gtagsmixer.cc).      *)
(*                                                                         *)
(* Every object deletes itself ("delete this") after it released its       *)
(* mutex, so the model keeps the life of each object and the place of each *)
(* thread inside or after its critical section.  Taking a mutex and the    *)
(* body up to the next call are one step.                                  *)
(*                                                                         *)
(* Abstracted: a reply is who sent it and what the mixer can tell of it:   *)
(* "value" (it has a value list), "other" (it has none, or does not        *)
(* parse), "empty" (the server closed without a byte: still a result).     *)
(* A query for the pseudo-language "local" is left out.                    *)
(***************************************************************************)
EXTENDS Integers, Sequences, FiniteSets

CONSTANTS Conns,       \* TagsServiceUsers, also the names of their RPC threads
          Main,        \* the poll thread, which runs Execute
          NoThread     \* a holder's mu_ is free

Forms   == {"value", "other", "empty"}
Sources == {"LOCAL", "REMOTE"}
Threads == Conns \cup {Main}

ASSUME ResultMixingAssumption ==
  /\ IsFiniteSet(Conns)
  /\ Main \notin Conns
  /\ Sources \cap Conns = {}
  /\ NoThread \notin Threads

VARIABLES kind,        \* what Execute finds the command to be (never changes)
          hasLocal,    \* the corpus has a "local" data source (never changes)
          services,    \* services_ of the remote data source (never changes)
          stage,       \* where Execute is
          todo,        \* the services RemoteDataSource::GetTags still has to call
          running,     \* the RPCWaiter threads inside ps_->Loop()
          outcome,     \* how the RPC of each service ended
          pc,          \* where each thread is in a report
          call,        \* the report a thread is making: source and reply
          request,     \* the life of the DataSourceRequest
          answer       \* the responses handed to the client's callback

\* Per source, the ResultHolder: its life and its fields.
VARIABLES holder, num_waiting, used, mu

\* The ResultMixer: its life and its fields.
VARIABLES mixer, waiting_for, results, failures

rigid      == <<kind, hasLocal, services>>
rpcVars    == <<running, outcome>>
holderVars == <<holder, num_waiting, used, mu>>
mixerVars  == <<mixer, waiting_for, results, failures>>
vars == <<rigid, stage, todo, rpcVars, pc, call, request, answer, holderVars, mixerVars>>

Mix == INSTANCE MixedAnswer WITH
         asked   <- services,
         settled <- [s \in Sources |->
                       IF failures[s] THEN [from |-> "REMOTE", form |-> "failure"]
                       ELSE results[s]]

Failed  == Mix!Failed
Pending == Mix!Pending
Reply(src, form) == [from |-> src, form |-> form]
NilReply == Reply("LOCAL", "other")      \* the "()" that stands in for a failure

PCs    == {"idle", "enter", "mix", "free_mixer", "leave", "free_holder"}
Stages == {"execute", "remote", "local", "returned"}
Life   == {"none", "alive", "freed"}

Init ==
  /\ kind \in {"ping", "unmapped", "query"}
  /\ hasLocal \in BOOLEAN
  /\ services \in SUBSET Conns
  /\ stage = "execute" /\ todo = {} /\ running = {}
  /\ outcome = [c \in Conns |-> Pending]
  /\ pc = [t \in Threads |-> "idle"]
  /\ call = [t \in Threads |-> [src |-> "REMOTE", reply |-> Pending]]
  /\ request = "none" /\ answer = <<>>
  /\ holder = [s \in Sources |-> "none"]
  /\ num_waiting = [s \in Sources |-> 0]
  /\ used = [s \in Sources |-> FALSE]
  /\ mu = [s \in Sources |-> NoThread]
  /\ mixer = "none" /\ waiting_for = 2
  /\ results = [s \in Sources |-> Pending]
  /\ failures = [s \in Sources |-> FALSE]

Goto(t, from, to) == pc[t] = from /\ pc' = [pc EXCEPT ![t] = to]

NewHolder(s, num_conn) ==
  /\ holder' = [holder EXCEPT ![s] = "alive"]
  /\ num_waiting' = [num_waiting EXCEPT ![s] = num_conn]
  /\ UNCHANGED <<used, mu>>

-----------------------------------------------------------------------------
(* Execute, on the main thread.                                            *)

\* A ping, and a corpus, language or caller type without a source, is answered
\* on the spot through Done.
AnswerAtOnce ==
  /\ stage = "execute" /\ kind # "query"
  /\ answer' = Append(answer, <<Mix!Direct>>)
  /\ request' = IF kind = "ping" THEN "none" ELSE "freed"
  /\ stage' = "returned"
  /\ UNCHANGED <<rigid, todo, rpcVars, pc, call, holderVars, mixerVars>>

\* The request, the mixer and the remote holder are created; GetTags of the
\* remote data source starts to walk its services.
StartQuery ==
  /\ stage = "execute" /\ kind = "query"
  /\ request' = "alive" /\ mixer' = "alive"
  /\ NewHolder("REMOTE", Cardinality(services))
  /\ todo' = services
  /\ stage' = "remote"
  /\ UNCHANGED <<rigid, rpcVars, pc, call, answer, waiting_for, results, failures>>

\* PerformRPC returns a socket: the RPC gets a thread.
DispatchStarts(c) ==
  /\ stage = "remote" /\ pc[Main] = "idle" /\ c \in todo
  /\ todo' = todo \ {c}
  /\ running' = running \cup {c}
  /\ UNCHANGED <<rigid, stage, outcome, pc, call, request, answer, holderVars, mixerVars>>

\* The address does not resolve: RPCError runs on the main thread.
DispatchFails(c) ==
  /\ stage = "remote" /\ c \in todo
  /\ Goto(Main, "idle", "enter")
  /\ todo' = todo \ {c}
  /\ outcome' = [outcome EXCEPT ![c] = Failed]
  /\ call' = [call EXCEPT ![Main] = [src |-> "REMOTE", reply |-> Failed]]
  /\ UNCHANGED <<rigid, stage, running, request, answer, holderVars, mixerVars>>

\* RemoteDataSource::GetTags returns; the local tables answer the same request
\* in a holder of their own.
LocalAnswers ==
  /\ stage = "remote" /\ todo = {} /\ hasLocal
  /\ Goto(Main, "idle", "enter")
  /\ stage' = "local"
  /\ NewHolder("LOCAL", 1)
  /\ \E f \in Forms \ {"empty"} :
       call' = [call EXCEPT ![Main] = [src |-> "LOCAL", reply |-> Reply("LOCAL", f)]]
  /\ UNCHANGED <<rigid, todo, rpcVars, request, answer, mixerVars>>

\* Without local tables the mixer is told so, straight away.
NoLocalTables ==
  /\ stage = "remote" /\ todo = {} /\ ~hasLocal
  /\ Goto(Main, "idle", "mix")
  /\ stage' = "local"
  /\ call' = [call EXCEPT ![Main] = [src |-> "LOCAL", reply |-> Reply("LOCAL", "empty")]]
  /\ UNCHANGED <<rigid, todo, rpcVars, request, answer, holderVars, mixerVars>>

ExecuteReturns ==
  /\ stage = "local" /\ pc[Main] = "idle"
  /\ stage' = "returned"
  /\ UNCHANGED <<rigid, todo, rpcVars, pc, call, request, answer, holderVars, mixerVars>>

-----------------------------------------------------------------------------
(* The RPC of a service ends: its thread reports, then finishes.           *)

ThreadReports(c, r) ==
  /\ c \in running
  /\ running' = running \ {c}
  /\ Goto(c, "idle", "enter")
  /\ outcome' = [outcome EXCEPT ![c] = r]
  /\ call' = [call EXCEPT ![c] = [src |-> "REMOTE", reply |-> r]]
  /\ UNCHANGED <<rigid, stage, todo, request, answer, holderVars, mixerVars>>

\* The server closed the connection: whatever was received is the result.
DoneGetTags(c) == \E f \in Forms : ThreadReports(c, Reply(c, f))

\* connect() failed.
RPCError(c) == ThreadReports(c, Failed)

-----------------------------------------------------------------------------
(* ResultHolder::set_result and set_failure.                               *)

Src(t)      == call[t].src
Succeeds(t) == call[t].reply # Failed

SetWaiting(t, n) == num_waiting' = [num_waiting EXCEPT ![Src(t)] = n]
HoldMu(t)        == mu' = [mu EXCEPT ![Src(t)] = t]
ReleaseMu(t)     == mu' = [mu EXCEPT ![Src(t)] = NoThread]
OnlyHolder       == UNCHANGED <<rigid, stage, todo, rpcVars, call, request, answer, mixerVars>>

\* Mutant of SetResultFirst: a result goes on only when all the others are in.
SetResultFirstPatient(t) ==
  /\ Succeeds(t) /\ mu[Src(t)] = NoThread /\ ~used[Src(t)]
  /\ num_waiting[Src(t)] <= 1
  /\ Goto(t, "enter", "mix")
  /\ used' = [used EXCEPT ![Src(t)] = TRUE]
  /\ HoldMu(t)
  /\ UNCHANGED <<holder, num_waiting>> /\ OnlyHolder

\* The first result of the source: go on to the mixer, keeping mu_.
SetResultFirst(t) ==
  /\ Succeeds(t) /\ mu[Src(t)] = NoThread /\ ~used[Src(t)]
  /\ Goto(t, "enter", "mix")
  /\ used' = [used EXCEPT ![Src(t)] = TRUE]
  /\ HoldMu(t)
  /\ UNCHANGED <<holder, num_waiting>> /\ OnlyHolder

\* Mutant of SetResultLate: the last but one report already deletes the holder.
SetResultLateEager(t) ==
  /\ Succeeds(t) /\ mu[Src(t)] = NoThread /\ used[Src(t)]
  /\ LET left == num_waiting[Src(t)] - 1
     IN  /\ SetWaiting(t, left)
         /\ Goto(t, "enter", IF left > 1 THEN "idle" ELSE "free_holder")
  /\ UNCHANGED <<holder, used, mu>> /\ OnlyHolder

\* A later result is dropped; the last report of all goes on to "delete this".
SetResultLate(t) ==
  /\ Succeeds(t) /\ mu[Src(t)] = NoThread /\ used[Src(t)]
  /\ LET left == num_waiting[Src(t)] - 1
     IN  /\ SetWaiting(t, left)
         /\ Goto(t, "enter", IF left > 0 THEN "idle" ELSE "free_holder")
  /\ UNCHANGED <<holder, used, mu>> /\ OnlyHolder

\* Mutant of SetFailureEarly: a failure after a result is not counted.
SetFailureEarlyUncounted(t) ==
  /\ ~Succeeds(t) /\ mu[Src(t)] = NoThread
  /\ LET left == num_waiting[Src(t)] - (IF used[Src(t)] THEN 0 ELSE 1)
     IN  /\ left > 0 \/ used[Src(t)]
         /\ SetWaiting(t, left)
         /\ Goto(t, "enter", IF left > 0 THEN "idle" ELSE "free_holder")
  /\ UNCHANGED <<holder, used, mu>> /\ OnlyHolder

\* A failure is only counted, unless it is the last report.
SetFailureEarly(t) ==
  /\ ~Succeeds(t) /\ mu[Src(t)] = NoThread
  /\ LET left == num_waiting[Src(t)] - 1
     IN  /\ left > 0 \/ used[Src(t)]
         /\ SetWaiting(t, left)
         /\ Goto(t, "enter", IF left > 0 THEN "idle" ELSE "free_holder")
  /\ UNCHANGED <<holder, used, mu>> /\ OnlyHolder

\* Mutant of SetFailureLast: any failure is passed on, not only the last one.
SetFailureLastAny(t) ==
  /\ ~Succeeds(t) /\ mu[Src(t)] = NoThread /\ ~used[Src(t)]
  /\ Goto(t, "enter", "mix")
  /\ SetWaiting(t, num_waiting[Src(t)] - 1)
  /\ HoldMu(t)
  /\ UNCHANGED <<holder, used>> /\ OnlyHolder

\* Mutant of SetFailureLast: off by one in the count of the failures.
SetFailureLastOffByOne(t) ==
  /\ ~Succeeds(t) /\ mu[Src(t)] = NoThread
  /\ num_waiting[Src(t)] - 1 < 0 /\ ~used[Src(t)]
  /\ Goto(t, "enter", "mix")
  /\ SetWaiting(t, num_waiting[Src(t)] - 1)
  /\ HoldMu(t)
  /\ UNCHANGED <<holder, used>> /\ OnlyHolder

\* The last report is a failure and no result came before it: on to the mixer.
SetFailureLast(t) ==
  /\ ~Succeeds(t) /\ mu[Src(t)] = NoThread
  /\ num_waiting[Src(t)] - 1 <= 0 /\ ~used[Src(t)]
  /\ Goto(t, "enter", "mix")
  /\ SetWaiting(t, num_waiting[Src(t)] - 1)
  /\ HoldMu(t)
  /\ UNCHANGED <<holder, used>> /\ OnlyHolder

\* Back from the mixer: set_result counts its report, both release mu_.
LeaveHolder(t) ==
  /\ LET left == num_waiting[Src(t)] - (IF Succeeds(t) THEN 1 ELSE 0)
     IN  /\ SetWaiting(t, left)
         /\ Goto(t, "leave", IF left > 0 THEN "idle" ELSE "free_holder")
  /\ ReleaseMu(t)
  /\ UNCHANGED <<holder, used>> /\ OnlyHolder

FreeHolder(t) ==
  /\ Goto(t, "free_holder", "idle")
  /\ holder' = [holder EXCEPT ![Src(t)] = "freed"]
  /\ UNCHANGED <<num_waiting, used, mu>> /\ OnlyHolder

-----------------------------------------------------------------------------
(* ResultMixer::set_result and set_failure, with CheckIfDone and MixResult *)
(* under the mixer's mu_; Done answers the client and deletes the request. *)

\* MixResult, which looks at results_ and failures_.
MixResult(res, fail) ==
  LET valued == Mix!Valued(res["LOCAL"]) \o Mix!Valued(res["REMOTE"])
  IN  IF valued # <<>> THEN valued
      ELSE IF fail["REMOTE"] THEN <<Failed>> ELSE <<res["REMOTE"]>>

\* set_result clears the failure, set_failure makes the result "()".
SetMixer(t) ==
  /\ results' = [results EXCEPT ![Src(t)] = IF Succeeds(t) THEN call[t].reply ELSE NilReply]
  /\ failures' = [failures EXCEPT ![Src(t)] = ~Succeeds(t)]
  /\ waiting_for' = waiting_for - 1
  /\ UNCHANGED <<mixer, holderVars, rigid, stage, todo, rpcVars, call>>

\* Where a thread goes after the mixer's part: back into the holder, if it came
\* from one.
BackFrom(t) == IF mu[Src(t)] = t THEN "leave" ELSE "idle"

MixerWaits(t) ==
  /\ Goto(t, "mix", BackFrom(t))
  /\ SetMixer(t) /\ waiting_for' # 0
  /\ UNCHANGED <<request, answer>>

MixerDone(t) ==
  /\ Goto(t, "mix", "free_mixer")
  /\ SetMixer(t) /\ waiting_for' = 0
  /\ answer' = Append(answer, MixResult(results', failures'))
  /\ request' = "freed"

FreeMixer(t) ==
  /\ Goto(t, "free_mixer", BackFrom(t))
  /\ mixer' = "freed"
  /\ UNCHANGED <<rigid, stage, todo, rpcVars, call, request, answer, holderVars,
                 waiting_for, results, failures>>

-----------------------------------------------------------------------------

Execute == \/ AnswerAtOnce \/ StartQuery
           \/ LocalAnswers \/ NoLocalTables \/ ExecuteReturns
           \/ \E c \in Conns : DispatchStarts(c) \/ DispatchFails(c)

Report(t) == \/ SetResultFirst(t) \/ SetResultLate(t)
             \/ SetFailureEarly(t) \/ SetFailureLast(t)
             \/ LeaveHolder(t) \/ FreeHolder(t)
             \/ MixerWaits(t) \/ MixerDone(t) \/ FreeMixer(t)

RPCEnds(c) == DoneGetTags(c) \/ RPCError(c)

Next == \/ Execute
        \/ \E t \in Threads : Report(t)
        \/ \E c \in Conns : RPCEnds(c)

Spec == Init /\ [][Next]_vars

\* Threads run.  Nothing makes a server answer or close the connection, and no
\* RPC has a timeout, so RPCEnds has no fairness.
FairSpec == /\ Spec
            /\ WF_vars(Execute)
            /\ \A t \in Threads : WF_vars(Report(t))

-----------------------------------------------------------------------------
(* Properties.                                                             *)

Outcomes == Mix!Replies \cup {Pending, Failed}

TypeOK ==
  /\ kind \in {"ping", "unmapped", "query"} /\ hasLocal \in BOOLEAN
  /\ services \in SUBSET Conns
  /\ stage \in Stages /\ todo \in SUBSET services /\ running \in SUBSET services
  /\ outcome \in [Conns -> Outcomes]
  /\ pc \in [Threads -> PCs]
  /\ call \in [Threads -> [src : Sources, reply : Outcomes]]
  /\ request \in Life
  /\ answer \in Seq(Seq(Outcomes \cup {Mix!Direct}))
  /\ holder \in [Sources -> Life] /\ num_waiting \in [Sources -> Int]
  /\ used \in [Sources -> BOOLEAN] /\ mu \in [Sources -> Threads \cup {NoThread}]
  /\ mixer \in Life /\ waiting_for \in Int
  /\ results \in [Sources -> Outcomes] /\ failures \in [Sources -> BOOLEAN]

\* Whoever is about to use an object finds it alive: a holder lives until the
\* last of its connections has reported and left (those that may still report
\* included), the mixer until both sources have settled, the request until
\* Execute has given it to the local data source.
NothingUsedAfterDelete ==
  /\ \A t \in Threads :
       /\ pc[t] \in {"enter", "leave", "free_holder"} => holder[Src(t)] = "alive"
       /\ pc[t] \in {"mix", "free_mixer"} => mixer = "alive"
  /\ todo \cup running # {} => holder["REMOTE"] = "alive"
  /\ stage = "remote" => request = "alive"

\* Once every RPC has ended and every thread is done, all the objects of a
\* query that asked somebody are gone: none deletes itself too early, none is
\* forgotten.
NothingLeaks ==
  /\ stage = "returned" /\ services # {}
  /\ \A t \in Threads : pc[t] = "idle"
  /\ running = {}
  => /\ mixer # "alive" /\ request # "alive"
     /\ \A s \in Sources : holder[s] # "alive"

\* The client sees the promise of MixedAnswer: one response, mixed from a reply
\* (or the failure of all) of the remote side and the reply of the local side.
AnswersOnce == Mix!Spec

\* One service that answers is enough: the client has its response even if
\* another RPC hangs for ever.
FirstResultSuffices ==
  (\E c \in services : outcome[c] \notin {Pending, Failed}) ~> answer # <<>>

\* The failure of every service is an answer too.
AllFailuresAnswer ==
  (stage # "execute" /\ services # {} /\ \A c \in services : outcome[c] = Failed) ~> answer # <<>>
=============================================================================
