------------------------- MODULE ResultMixingProofs -------------------------
(***************************************************************************)
(* Theorems about ResultMixing, for any finite set of remote services: no  *)
(* holder, mixer or request is used after it deleted itself, all of them   *)
(* are deleted in the end, and what the client sees implements             *)
(* MixedAnswer.  The inductive invariant RMInv says who still owes each    *)
(* holder a report and who is about to delete it.                          *)
(***************************************************************************)
EXTENDS ResultMixing, FiniteSetTheorems, TLAPS

Inside == {"mix", "free_mixer", "leave"}

Started == kind = "query" /\ stage # "execute"

\* Threads and services whose report on source s is still to be counted.
Owes(t, s) == /\ call[t].src = s
              /\ \/ pc[t] = "enter"
                 \/ Succeeds(t) /\ pc[t] \in Inside

NotEnded(s) == IF s = "REMOTE" THEN todo \cup running ELSE {}
Owing(s)    == {t \in Threads : Owes(t, s)}
Awaited(s)  == NotEnded(s) \cup Owing(s)

\* The thread that made the last report and will delete the holder of s.
Finishes(t, s) == /\ call[t].src = s
                  /\ \/ pc[t] = "free_holder"
                     \/ ~Succeeds(t) /\ pc[t] \in Inside

\* Thread t is in the holder of s.
Visits(t, s) == call[t].src = s /\ pc[t] # "idle"

\* Without local tables the local side has no holder.
HasHolder(s) == s = "LOCAL" => hasLocal

Settled(s) == results[s] # Pending

\* Which report each thread can be making, and of which RPCs the outcome is
\* known.
CallsOK ==
  /\ \A c \in Conns :
       /\ outcome[c] \in {Pending, Failed} \cup [from : {c}, form : Forms]
       /\ pc[c] # "idle" => /\ c \in services \ (todo \cup running)
                            /\ outcome[c] # Pending
                            /\ call[c] = [src |-> "REMOTE", reply |-> outcome[c]]
       /\ Started /\ c \in services =>
            (outcome[c] = Pending <=> c \in todo \cup running)
       /\ ~Started => outcome[c] = Pending
  /\ pc[Main] # "idle" =>
       \/ /\ stage = "remote"
          /\ call[Main] = [src |-> "REMOTE", reply |-> Failed]
       \/ /\ stage = "local" /\ call[Main].src = "LOCAL"
          /\ call[Main].reply \in [from : {"LOCAL"}, form : Forms]
          /\ ~hasLocal => pc[Main] \in {"mix", "free_mixer"}
  /\ todo \cap running = {}
  /\ stage # "remote" => todo = {}
  /\ ~Started => running = {} /\ \A t \in Threads : pc[t] = "idle"
  /\ kind # "query" => stage \in {"execute", "returned"}

\* The count of a holder.
CountOK(s) == holder[s] = "alive" => num_waiting[s] = Cardinality(Awaited(s))

\* The mutex of a holder, and the one thread that may delete it.
HolderOK(s) ==
  /\ NotEnded(s) # {} => holder[s] = "alive"
  /\ \A t \in Threads :
       /\ Visits(t, s) => holder[s] = "alive"
       /\ mu[s] = t <=> Visits(t, s) /\ pc[t] \in Inside
       /\ Finishes(t, s) => Awaited(s) = {}
       /\ \A u \in Threads : Finishes(t, s) /\ Finishes(u, s) => t = u
  /\ holder[s] = "alive" =>
       \/ Awaited(s) # {}
       \/ \E t \in Threads : Finishes(t, s)
       \/ s = "REMOTE" /\ services = {}

\* A source is settled by the first result, or by the last failure; the reports
\* that come after find used_ set.
SettledOK(s) ==
  /\ Settled(s) => used[s] \/ Awaited(s) = {}
  /\ used[s] => Settled(s) \/ \E t \in Threads : pc[t] = "mix" /\ call[t].src = s
  /\ holder[s] = "freed" => Settled(s)
  /\ \A t \in Threads :
       /\ call[t].src = s /\ pc[t] = "mix" => ~Settled(s)
       /\ call[t].src = s /\ pc[t] \in {"free_mixer", "leave", "free_holder"} => Settled(s)
       /\ Visits(t, s) /\ pc[t] \in Inside => (Succeeds(t) <=> used[s])

\* The holder of s has not been created.
Fresh(s) == holder[s] = "none" /\ ~used[s] /\ mu[s] = NoThread

\* Before Execute has come to the local side it is untouched; when it has
\* returned that side is settled.
LocalOK ==
  /\ stage \in {"execute", "remote"} => ~Settled("LOCAL") /\ Fresh("LOCAL")
  /\ ~hasLocal => /\ Fresh("LOCAL")
                  /\ call[Main].src = "LOCAL" /\ pc[Main] = "mix" => ~Settled("LOCAL")
  /\ Started /\ stage # "remote" /\ pc[Main] \notin {"enter", "mix"} => Settled("LOCAL")
  /\ Started => holder["REMOTE"] # "none"

\* The mixer counts the sources that have not settled, and lives until the
\* thread that settled the last one deletes it.
MixerOK ==
  /\ waiting_for = (IF Settled("LOCAL") THEN 0 ELSE 1) + (IF Settled("REMOTE") THEN 0 ELSE 1)
  /\ Started /\ waiting_for # 0 => mixer = "alive"
  /\ ~Started => /\ ~Settled("LOCAL") /\ ~Settled("REMOTE")
                 /\ mixer = "none" /\ Fresh("REMOTE")
  /\ \A t \in Threads :
       /\ pc[t] = "free_mixer" => mixer = "alive" /\ waiting_for = 0
       /\ \A u \in Threads : pc[t] = "free_mixer" /\ pc[u] = "free_mixer" => t = u
  /\ mixer = "alive" => waiting_for # 0 \/ \E t \in Threads : pc[t] = "free_mixer"
  /\ Started => request = (IF waiting_for = 0 THEN "freed" ELSE "alive")
  /\ ~Started => request # "alive"

\* What the holders and the mixer know of the remote side is true.
RemoteOK ==
  /\ ~used["REMOTE"] =>
       \A c \in services : outcome[c] \in {Pending, Failed} \/ pc[c] = "enter"
  /\ failures["REMOTE"] => results["REMOTE"] = NilReply
  /\ ~failures["LOCAL"]
  /\ kind = "query" => (answer = <<>> <=> waiting_for # 0)
  /\ kind # "query" => (answer = <<>> <=> stage = "execute")

RMInv ==
  /\ TypeOK /\ CallsOK
  /\ \A s \in Sources : HasHolder(s) => CountOK(s) /\ HolderOK(s) /\ SettledOK(s)
  /\ LocalOK /\ MixerOK /\ RemoteOK

-----------------------------------------------------------------------------
(* Type correctness.                                                       *)

\* What MixResult makes of well-typed results is a sequence of outcomes.
LEMMA MixResultType ==
  ASSUME NEW res \in [Sources -> Outcomes], NEW fail
  PROVE  MixResult(res, fail) \in Seq(Outcomes)
  <1>1. ASSUME NEW r \in Outcomes PROVE Mix!Valued(r) \in Seq(Outcomes)
    BY <1>1 DEF Mix!Valued
  <1>2. res["LOCAL"] \in Outcomes /\ res["REMOTE"] \in Outcomes
    BY DEF Sources
  <1>3. Mix!Valued(res["LOCAL"]) \o Mix!Valued(res["REMOTE"]) \in Seq(Outcomes)
    BY <1>1, <1>2
  <1>4. <<Failed>> \in Seq(Outcomes) /\ <<res["REMOTE"]>> \in Seq(Outcomes)
    BY <1>2 DEF Outcomes
  <1>. QED BY <1>3, <1>4 DEF MixResult

(* ResultMixer::set_result and set_failure keep the types of the mixer.      *)
LEMMA SetMixerType ==
  ASSUME TypeOK, NEW t \in Threads, SetMixer(t)
  PROVE  results' \in [Sources -> Outcomes] /\ failures' \in [Sources -> BOOLEAN]
  <1>1. NilReply \in Outcomes
    BY DEF NilReply, Reply, Mix!Replies, Forms, Outcomes
  <1>2. Src(t) \in Sources /\ call[t].reply \in Outcomes
    BY DEF TypeOK, Src
  <1>. QED BY <1>1, <1>2 DEF TypeOK, SetMixer, Succeeds

\* Every step preserves the types.
LEMMA TypeStep == TypeOK /\ [Next]_vars => TypeOK'
  <1>. SUFFICES ASSUME TypeOK, [Next]_vars PROVE TypeOK'
    OBVIOUS
  <1>. USE DEF TypeOK, Goto, rigid, rpcVars, holderVars, mixerVars, Threads, Sources,
               PCs, Stages, Life, OnlyHolder, Src
  <1>0. /\ \A c \in Conns, f \in Forms : Reply(c, f) \in Outcomes
        /\ \A f \in Forms : Reply("LOCAL", f) \in Outcomes
        /\ "empty" \in Forms
        /\ Failed \in Outcomes
    BY DEF Reply, Mix!Replies, Forms, Outcomes
  <1>1. CASE AnswerAtOnce
    <2>1. <<Mix!Direct>> \in Seq(Outcomes \cup {Mix!Direct})
      OBVIOUS
    <2>. QED BY <1>1, <2>1 DEF AnswerAtOnce
  <1>2. CASE StartQuery
    <2>1. Cardinality(services) \in Nat
      BY ResultMixingAssumption, FS_Subset, FS_CardinalityType
    <2>. QED BY <1>2, <2>1 DEF StartQuery, NewHolder
  <1>3. ASSUME NEW c \in Conns, DispatchStarts(c) PROVE TypeOK'
    BY <1>3 DEF DispatchStarts
  <1>4. ASSUME NEW c \in Conns, DispatchFails(c) PROVE TypeOK'
    BY <1>4, <1>0 DEF DispatchFails
  <1>5. CASE LocalAnswers
    BY <1>5, <1>0 DEF LocalAnswers, NewHolder
  <1>6. CASE NoLocalTables
    BY <1>6, <1>0 DEF NoLocalTables
  <1>7. CASE ExecuteReturns
    BY <1>7 DEF ExecuteReturns
  <1>8. ASSUME NEW c \in Conns, NEW r \in Outcomes, ThreadReports(c, r) PROVE TypeOK'
    BY <1>8 DEF ThreadReports
  <1>9. ASSUME NEW c \in Conns, RPCEnds(c) PROVE TypeOK'
    BY <1>9, <1>8, <1>0 DEF RPCEnds, DoneGetTags, RPCError
  <1>10. ASSUME NEW t \in Threads, SetResultFirst(t) PROVE TypeOK'
    BY <1>10 DEF SetResultFirst, HoldMu
  <1>11. ASSUME NEW t \in Threads, SetResultLate(t) PROVE TypeOK'
    BY <1>11 DEF SetResultLate, SetWaiting
  <1>12. ASSUME NEW t \in Threads, SetFailureEarly(t) PROVE TypeOK'
    BY <1>12 DEF SetFailureEarly, SetWaiting
  <1>13. ASSUME NEW t \in Threads, SetFailureLast(t) PROVE TypeOK'
    BY <1>13 DEF SetFailureLast, SetWaiting, HoldMu
  <1>14. ASSUME NEW t \in Threads, LeaveHolder(t) PROVE TypeOK'
    BY <1>14 DEF LeaveHolder, SetWaiting, ReleaseMu
  <1>15. ASSUME NEW t \in Threads, FreeHolder(t) PROVE TypeOK'
    BY <1>15 DEF FreeHolder
  <1>16. ASSUME NEW t \in Threads, MixerWaits(t) PROVE TypeOK'
    <2>1. results' \in [Sources -> Outcomes] /\ failures' \in [Sources -> BOOLEAN]
      BY <1>16, SetMixerType DEF MixerWaits
    <2>2. pc' \in [Threads -> PCs]
      BY <1>16 DEF MixerWaits, BackFrom
    <2>. QED BY <1>16, <2>1, <2>2 DEF MixerWaits, SetMixer
  <1>17. ASSUME NEW t \in Threads, MixerDone(t) PROVE TypeOK'
    <2>1. results' \in [Sources -> Outcomes] /\ failures' \in [Sources -> BOOLEAN]
      BY <1>17, SetMixerType DEF MixerDone
    <2>2. MixResult(results', failures') \in Seq(Outcomes \cup {Mix!Direct})
      BY <2>1, MixResultType
    <2>. QED BY <1>17, <2>1, <2>2 DEF MixerDone, SetMixer
  <1>18. ASSUME NEW t \in Threads, FreeMixer(t) PROVE TypeOK'
    BY <1>18 DEF FreeMixer, BackFrom
  <1>19. CASE UNCHANGED vars
    BY <1>19 DEF vars
  <1>. QED BY <1>1, <1>2, <1>3, <1>4, <1>5, <1>6, <1>7, <1>9, <1>10, <1>11,
             <1>12, <1>13, <1>14, <1>15, <1>16, <1>17, <1>18, <1>19
           DEF Next, Execute, Report

-----------------------------------------------------------------------------
(* The reports under way.                                                  *)

\* How the RPC of c can end.
Ended(c) == {Failed} \cup [from : {c}, form : Forms]

(* What a service replies is one of the ends an RPC may have.                *)
LEMMA ReplyType ==
  ASSUME NEW c \in Conns
  PROVE  /\ \A f \in Forms : Reply(c, f) \in Ended(c)
         /\ Failed \in Ended(c)
         /\ Pending \notin Ended(c)
         /\ Ended(c) \subseteq Outcomes
  BY DEF Reply, Ended, Forms, Pending, Failed, Mix!Pending, Mix!Failed, Outcomes, Mix!Replies

(* A step keeps what is known of the RPCs: which were started and how each   *)
(* of them ended.                                                            *)
LEMMA CallsStep ==
  ASSUME RMInv, TypeOK', [Next]_vars
  PROVE  CallsOK'
  <1>. USE DEF RMInv, TypeOK, Goto, rigid, rpcVars, holderVars, mixerVars, Threads, Sources, OnlyHolder, Src, CallsOK, LocalOK, Started, Fresh
  <1>1. CASE AnswerAtOnce
    BY <1>1, ResultMixingAssumption DEF AnswerAtOnce
  <1>2. CASE StartQuery
    BY <1>2, ResultMixingAssumption DEF StartQuery, NewHolder
  <1>3. ASSUME NEW c \in Conns, DispatchStarts(c) PROVE CallsOK'
    BY <1>3, ResultMixingAssumption DEF DispatchStarts
  <1>4. ASSUME NEW c \in Conns, DispatchFails(c) PROVE CallsOK'
    BY <1>4, ReplyType, ResultMixingAssumption DEF DispatchFails, Ended
  <1>5. CASE LocalAnswers
    BY <1>5, ResultMixingAssumption DEF LocalAnswers, NewHolder, Reply
  <1>6. CASE NoLocalTables
    BY <1>6, ResultMixingAssumption DEF NoLocalTables, Reply, Forms
  <1>7. CASE ExecuteReturns
    BY <1>7, ResultMixingAssumption DEF ExecuteReturns
  <1>8. ASSUME NEW c \in Conns, NEW r \in Ended(c), ThreadReports(c, r) PROVE CallsOK'
    BY <1>8, ReplyType, ResultMixingAssumption DEF ThreadReports, Ended
  <1>9. ASSUME NEW c \in Conns, RPCEnds(c) PROVE CallsOK'
    BY <1>9, <1>8, ReplyType DEF RPCEnds, DoneGetTags, RPCError
  <1>10. ASSUME NEW t \in Threads, SetResultFirst(t) PROVE CallsOK'
    BY <1>10, ResultMixingAssumption DEF SetResultFirst, HoldMu
  <1>11. ASSUME NEW t \in Threads, SetResultLate(t) PROVE CallsOK'
    BY <1>11, ResultMixingAssumption DEF SetResultLate, SetWaiting
  <1>12. ASSUME NEW t \in Threads, SetFailureEarly(t) PROVE CallsOK'
    BY <1>12, ResultMixingAssumption DEF SetFailureEarly, SetWaiting
  <1>13. ASSUME NEW t \in Threads, SetFailureLast(t) PROVE CallsOK'
    BY <1>13, ResultMixingAssumption DEF SetFailureLast, SetWaiting, HoldMu
  <1>14. ASSUME NEW t \in Threads, LeaveHolder(t) PROVE CallsOK'
    BY <1>14, ResultMixingAssumption DEF LeaveHolder, SetWaiting, ReleaseMu
  <1>15. ASSUME NEW t \in Threads, FreeHolder(t) PROVE CallsOK'
    BY <1>15, ResultMixingAssumption DEF FreeHolder
  <1>16. ASSUME NEW t \in Threads, MixerWaits(t) PROVE CallsOK'
    BY <1>16, ResultMixingAssumption DEF MixerWaits, SetMixer, BackFrom
  <1>17. ASSUME NEW t \in Threads, MixerDone(t) PROVE CallsOK'
    BY <1>17, ResultMixingAssumption DEF MixerDone, SetMixer
  <1>18. ASSUME NEW t \in Threads, FreeMixer(t) PROVE CallsOK'
    BY <1>18, ResultMixingAssumption DEF FreeMixer, BackFrom
  <1>19. CASE UNCHANGED vars
    BY <1>19 DEF vars
  <1>. QED BY <1>1, <1>2, <1>3, <1>4, <1>5, <1>6, <1>7, <1>9, <1>10, <1>11, <1>12, <1>13, <1>14, <1>15, <1>16, <1>17, <1>18, <1>19
           DEF Next, Execute, Report

\* What a thread inside a report is reporting.
LEMMA CallFacts ==
  ASSUME RMInv, NEW t \in Threads, pc[t] # "idle"
  PROVE  /\ call[t].src \in Sources /\ call[t].reply \in Outcomes
         /\ call[t].reply # Pending /\ NilReply # Pending
         /\ t # Main => call[t].src = "REMOTE"
         /\ call[t].src = "LOCAL" => t = Main /\ Succeeds(t) /\ stage = "local"
         /\ Started
  BY ReplyType, ResultMixingAssumption
  DEF RMInv, TypeOK, CallsOK, Threads, Sources, Succeeds, Failed, Pending, Mix!Failed, Mix!Pending,
      Forms, NilReply, Reply, Started

\* The local side is untouched until Execute comes to it, and settled afterwards.
LEMMA LocalStep ==
  ASSUME RMInv, CallsOK', [Next]_vars
  PROVE  LocalOK'
  <1>. USE ResultMixingAssumption
       DEF RMInv, TypeOK, Goto, rigid, rpcVars, holderVars, mixerVars, Threads, Sources, OnlyHolder, Src, CallsOK, LocalOK, MixerOK, Started, Fresh, Settled, SettledOK, HasHolder
  <1>1. CASE AnswerAtOnce
    BY <1>1 DEF AnswerAtOnce
  <1>2. CASE StartQuery
    BY <1>2 DEF StartQuery, NewHolder
  <1>3. ASSUME NEW c \in Conns, DispatchStarts(c) PROVE LocalOK'
    BY <1>3 DEF DispatchStarts
  <1>4. ASSUME NEW c \in Conns, DispatchFails(c) PROVE LocalOK'
    BY <1>4 DEF DispatchFails
  <1>5. CASE LocalAnswers
    BY <1>5 DEF LocalAnswers, NewHolder
  <1>6. CASE NoLocalTables
    BY <1>6 DEF NoLocalTables
  <1>7. CASE ExecuteReturns
    BY <1>7 DEF ExecuteReturns
  <1>8. ASSUME NEW c \in Conns, NEW r \in Ended(c), ThreadReports(c, r) PROVE LocalOK'
    BY <1>8, ReplyType DEF ThreadReports
  <1>9. ASSUME NEW c \in Conns, RPCEnds(c) PROVE LocalOK'
    BY <1>9, <1>8, ReplyType DEF RPCEnds, DoneGetTags, RPCError
  <1>10. ASSUME NEW t \in Threads, SetResultFirst(t) PROVE LocalOK'
    BY <1>10, CallFacts DEF SetResultFirst, HoldMu
  <1>11. ASSUME NEW t \in Threads, SetResultLate(t) PROVE LocalOK'
    BY <1>11, CallFacts DEF SetResultLate, SetWaiting
  <1>12. ASSUME NEW t \in Threads, SetFailureEarly(t) PROVE LocalOK'
    BY <1>12, CallFacts DEF SetFailureEarly, SetWaiting
  <1>13. ASSUME NEW t \in Threads, SetFailureLast(t) PROVE LocalOK'
    BY <1>13, CallFacts DEF SetFailureLast, SetWaiting, HoldMu
  <1>14. ASSUME NEW t \in Threads, LeaveHolder(t) PROVE LocalOK'
    BY <1>14, CallFacts DEF LeaveHolder, SetWaiting, ReleaseMu
  <1>15. ASSUME NEW t \in Threads, FreeHolder(t) PROVE LocalOK'
    BY <1>15, CallFacts DEF FreeHolder
  <1>16. ASSUME NEW t \in Threads, MixerWaits(t) PROVE LocalOK'
    BY <1>16, CallFacts DEF MixerWaits, SetMixer, BackFrom
  <1>17. ASSUME NEW t \in Threads, MixerDone(t) PROVE LocalOK'
    BY <1>17, CallFacts DEF MixerDone, SetMixer
  <1>18. ASSUME NEW t \in Threads, FreeMixer(t) PROVE LocalOK'
    BY <1>18, CallFacts DEF FreeMixer, BackFrom
  <1>19. CASE UNCHANGED vars
    BY <1>19 DEF vars
  <1>. QED BY <1>1, <1>2, <1>3, <1>4, <1>5, <1>6, <1>7, <1>9, <1>10, <1>11, <1>12, <1>13, <1>14, <1>15, <1>16, <1>17, <1>18, <1>19
           DEF Next, Execute, Report

\* The mixer's count and the one thread that deletes it.
LEMMA MixerStep ==
  ASSUME RMInv, CallsOK', [Next]_vars
  PROVE  MixerOK'
  <1>. USE ResultMixingAssumption
       DEF RMInv, TypeOK, Goto, rigid, rpcVars, holderVars, mixerVars, Threads, Sources, OnlyHolder, Src, CallsOK, LocalOK, MixerOK, Started, Fresh, Settled, SettledOK, HasHolder, Succeeds
  <1>1. CASE AnswerAtOnce
    BY <1>1 DEF AnswerAtOnce
  <1>2. CASE StartQuery
    BY <1>2 DEF StartQuery, NewHolder
  <1>3. ASSUME NEW c \in Conns, DispatchStarts(c) PROVE MixerOK'
    BY <1>3 DEF DispatchStarts
  <1>4. ASSUME NEW c \in Conns, DispatchFails(c) PROVE MixerOK'
    BY <1>4 DEF DispatchFails
  <1>5. CASE LocalAnswers
    BY <1>5 DEF LocalAnswers, NewHolder
  <1>6. CASE NoLocalTables
    BY <1>6 DEF NoLocalTables
  <1>7. CASE ExecuteReturns
    BY <1>7 DEF ExecuteReturns
  <1>8. ASSUME NEW c \in Conns, NEW r \in Ended(c), ThreadReports(c, r) PROVE MixerOK'
    BY <1>8, ReplyType DEF ThreadReports
  <1>9. ASSUME NEW c \in Conns, RPCEnds(c) PROVE MixerOK'
    BY <1>9, <1>8, ReplyType DEF RPCEnds, DoneGetTags, RPCError
  <1>10. ASSUME NEW t \in Threads, SetResultFirst(t) PROVE MixerOK'
    BY <1>10, CallFacts DEF SetResultFirst, HoldMu
  <1>11. ASSUME NEW t \in Threads, SetResultLate(t) PROVE MixerOK'
    BY <1>11, CallFacts DEF SetResultLate, SetWaiting
  <1>12. ASSUME NEW t \in Threads, SetFailureEarly(t) PROVE MixerOK'
    BY <1>12, CallFacts DEF SetFailureEarly, SetWaiting
  <1>13. ASSUME NEW t \in Threads, SetFailureLast(t) PROVE MixerOK'
    BY <1>13, CallFacts DEF SetFailureLast, SetWaiting, HoldMu
  <1>14. ASSUME NEW t \in Threads, LeaveHolder(t) PROVE MixerOK'
    BY <1>14, CallFacts DEF LeaveHolder, SetWaiting, ReleaseMu
  <1>15. ASSUME NEW t \in Threads, FreeHolder(t) PROVE MixerOK'
    BY <1>15, CallFacts DEF FreeHolder
  <1>16. ASSUME NEW t \in Threads, MixerWaits(t) PROVE MixerOK'
    BY <1>16, CallFacts DEF MixerWaits, SetMixer, BackFrom
  <1>17. ASSUME NEW t \in Threads, MixerDone(t) PROVE MixerOK'
    BY <1>17, CallFacts DEF MixerDone, SetMixer
  <1>18. ASSUME NEW t \in Threads, FreeMixer(t) PROVE MixerOK'
    BY <1>18, CallFacts DEF FreeMixer, BackFrom
  <1>19. CASE UNCHANGED vars
    BY <1>19 DEF vars
  <1>. QED BY <1>1, <1>2, <1>3, <1>4, <1>5, <1>6, <1>7, <1>9, <1>10, <1>11, <1>12, <1>13, <1>14, <1>15, <1>16, <1>17, <1>18, <1>19
           DEF Next, Execute, Report

\* What is known of the remote side.
LEMMA RemoteStep ==
  ASSUME RMInv, CallsOK', [Next]_vars
  PROVE  RemoteOK'
  <1>. USE ResultMixingAssumption
       DEF RMInv, TypeOK, Goto, rigid, rpcVars, holderVars, mixerVars, Threads, Sources, OnlyHolder, Src, CallsOK, LocalOK, MixerOK, RemoteOK, Started, Fresh, Settled, SettledOK, HasHolder, Succeeds
  <1>1. CASE AnswerAtOnce
    BY <1>1 DEF AnswerAtOnce
  <1>2. CASE StartQuery
    BY <1>2 DEF StartQuery, NewHolder
  <1>3. ASSUME NEW c \in Conns, DispatchStarts(c) PROVE RemoteOK'
    BY <1>3 DEF DispatchStarts
  <1>4. ASSUME NEW c \in Conns, DispatchFails(c) PROVE RemoteOK'
    BY <1>4 DEF DispatchFails
  <1>5. CASE LocalAnswers
    BY <1>5 DEF LocalAnswers, NewHolder
  <1>6. CASE NoLocalTables
    BY <1>6 DEF NoLocalTables
  <1>7. CASE ExecuteReturns
    BY <1>7 DEF ExecuteReturns
  <1>8. ASSUME NEW c \in Conns, NEW r \in Ended(c), ThreadReports(c, r) PROVE RemoteOK'
    BY <1>8, ReplyType DEF ThreadReports
  <1>9. ASSUME NEW c \in Conns, RPCEnds(c) PROVE RemoteOK'
    BY <1>9, <1>8, ReplyType DEF RPCEnds, DoneGetTags, RPCError
  <1>10. ASSUME NEW t \in Threads, SetResultFirst(t) PROVE RemoteOK'
    BY <1>10, CallFacts DEF SetResultFirst, HoldMu
  <1>11. ASSUME NEW t \in Threads, SetResultLate(t) PROVE RemoteOK'
    BY <1>11, CallFacts DEF SetResultLate, SetWaiting
  <1>12. ASSUME NEW t \in Threads, SetFailureEarly(t) PROVE RemoteOK'
    BY <1>12, CallFacts DEF SetFailureEarly, SetWaiting
  <1>13. ASSUME NEW t \in Threads, SetFailureLast(t) PROVE RemoteOK'
    BY <1>13, CallFacts DEF SetFailureLast, SetWaiting, HoldMu
  <1>14. ASSUME NEW t \in Threads, LeaveHolder(t) PROVE RemoteOK'
    BY <1>14, CallFacts DEF LeaveHolder, SetWaiting, ReleaseMu
  <1>15. ASSUME NEW t \in Threads, FreeHolder(t) PROVE RemoteOK'
    BY <1>15, CallFacts DEF FreeHolder
  <1>16. ASSUME NEW t \in Threads, MixerWaits(t) PROVE RemoteOK'
    BY <1>16, CallFacts DEF MixerWaits, SetMixer, BackFrom
  <1>17. ASSUME NEW t \in Threads, MixerDone(t) PROVE RemoteOK'
    BY <1>17, CallFacts DEF MixerDone, SetMixer
  <1>18. ASSUME NEW t \in Threads, FreeMixer(t) PROVE RemoteOK'
    BY <1>18, CallFacts DEF FreeMixer, BackFrom
  <1>19. CASE UNCHANGED vars
    BY <1>19 DEF vars
  <1>. QED BY <1>1, <1>2, <1>3, <1>4, <1>5, <1>6, <1>7, <1>9, <1>10, <1>11, <1>12, <1>13, <1>14, <1>15, <1>16, <1>17, <1>18, <1>19
           DEF Next, Execute, Report

\* How a source settles.
LEMMA SettledStep ==
  ASSUME RMInv, CallsOK', [Next]_vars, NEW s \in Sources, HasHolder(s)
  PROVE  SettledOK(s)'
  <1>. USE ResultMixingAssumption
       DEF RMInv, TypeOK, Goto, rigid, rpcVars, holderVars, mixerVars, Threads, Sources, OnlyHolder, Src,
           CallsOK, LocalOK, MixerOK, Started, Fresh, Settled, SettledOK, HolderOK, HasHolder,
           Succeeds, Awaited, Owing, Owes, NotEnded, Visits, Finishes, Inside
  <1>1. CASE AnswerAtOnce
    BY <1>1 DEF AnswerAtOnce
  <1>2. CASE StartQuery
    BY <1>2 DEF StartQuery, NewHolder
  <1>3. ASSUME NEW c \in Conns, DispatchStarts(c) PROVE SettledOK(s)'
    BY <1>3 DEF DispatchStarts
  <1>4. ASSUME NEW c \in Conns, DispatchFails(c) PROVE SettledOK(s)'
    BY <1>4 DEF DispatchFails
  <1>5. CASE LocalAnswers
    BY <1>5 DEF LocalAnswers, NewHolder
  <1>6. CASE NoLocalTables
    BY <1>6 DEF NoLocalTables
  <1>7. CASE ExecuteReturns
    BY <1>7 DEF ExecuteReturns
  <1>8. ASSUME NEW c \in Conns, NEW r \in Ended(c), ThreadReports(c, r) PROVE SettledOK(s)'
    BY <1>8, ReplyType DEF ThreadReports
  <1>9. ASSUME NEW c \in Conns, RPCEnds(c) PROVE SettledOK(s)'
    BY <1>9, <1>8, ReplyType DEF RPCEnds, DoneGetTags, RPCError
  <1>10. ASSUME NEW t \in Threads, SetResultFirst(t) PROVE SettledOK(s)'
    BY <1>10, CallFacts DEF SetResultFirst, HoldMu
  <1>11. ASSUME NEW t \in Threads, SetResultLate(t) PROVE SettledOK(s)'
    BY <1>11, CallFacts DEF SetResultLate, SetWaiting
  <1>12. ASSUME NEW t \in Threads, SetFailureEarly(t) PROVE SettledOK(s)'
    BY <1>12, CallFacts DEF SetFailureEarly, SetWaiting
  <1>13. ASSUME NEW t \in Threads, SetFailureLast(t) PROVE SettledOK(s)'
    BY <1>13, CallFacts DEF SetFailureLast, SetWaiting, HoldMu
  <1>14. ASSUME NEW t \in Threads, LeaveHolder(t) PROVE SettledOK(s)'
    BY <1>14, CallFacts DEF LeaveHolder, SetWaiting, ReleaseMu
  <1>15. ASSUME NEW t \in Threads, FreeHolder(t) PROVE SettledOK(s)'
    BY <1>15, CallFacts DEF FreeHolder
  <1>16. ASSUME NEW t \in Threads, MixerWaits(t) PROVE SettledOK(s)'
    BY <1>16, CallFacts DEF MixerWaits, SetMixer, BackFrom
  <1>17. ASSUME NEW t \in Threads, MixerDone(t) PROVE SettledOK(s)'
    BY <1>17, CallFacts DEF MixerDone, SetMixer
  <1>18. ASSUME NEW t \in Threads, FreeMixer(t) PROVE SettledOK(s)'
    BY <1>18, CallFacts DEF FreeMixer, BackFrom
  <1>19. CASE UNCHANGED vars
    BY <1>19 DEF vars
  <1>. QED BY <1>1, <1>2, <1>3, <1>4, <1>5, <1>6, <1>7, <1>9, <1>10, <1>11, <1>12, <1>13, <1>14, <1>15, <1>16, <1>17, <1>18, <1>19
           DEF Next, Execute, Report

-----------------------------------------------------------------------------
(* The holders.                                                            *)

(* Those who owe a holder a report can be counted.                           *)
LEMMA AwaitedFinite ==
  ASSUME RMInv, NEW s \in Sources
  PROVE  /\ Cardinality(Awaited(s)) \in Nat
         /\ Cardinality(Awaited(s)) = 0 <=> Awaited(s) = {}
         /\ \A t \in Awaited(s) : Cardinality(Awaited(s) \ {t}) = Cardinality(Awaited(s)) - 1
         /\ \A t : t \notin Awaited(s) =>
              Cardinality(Awaited(s) \cup {t}) = Cardinality(Awaited(s)) + 1
  <1>1. IsFiniteSet(Threads)
    BY ResultMixingAssumption, FS_AddElement DEF Threads
  <1>2. Awaited(s) \subseteq Threads
    BY DEF Awaited, NotEnded, Owing, RMInv, TypeOK, Threads
  <1>3. IsFiniteSet(Awaited(s))
    BY <1>1, <1>2, FS_Subset
  <1>. QED BY <1>3, FS_CardinalityType, FS_EmptySet, FS_RemoveElement, FS_AddElement

\* What a thread that reads num_waiting_ learns from it.
LEMMA CountFacts ==
  ASSUME RMInv, NEW s \in Sources, HasHolder(s), holder[s] = "alive"
  PROVE  /\ num_waiting[s] \in Nat
         /\ num_waiting[s] = 0 <=> Awaited(s) = {}
         /\ \A t \in Awaited(s) : num_waiting[s] >= 1 /\ (num_waiting[s] = 1 <=> Awaited(s) = {t})
  <1>1. num_waiting[s] = Cardinality(Awaited(s))
    BY DEF RMInv, CountOK
  <1>2. ASSUME NEW t \in Awaited(s)
        PROVE  num_waiting[s] >= 1 /\ (num_waiting[s] = 1 <=> Awaited(s) = {t})
    <2>1. Cardinality(Awaited(s) \ {t}) = Cardinality(Awaited(s)) - 1
      BY AwaitedFinite
    <2>2. Awaited(s) \ {t} = {} <=> Awaited(s) = {t}
      OBVIOUS
    <2>3. /\ Cardinality(Awaited(s) \ {t}) \in Nat
          /\ Cardinality(Awaited(s) \ {t}) = 0 <=> Awaited(s) \ {t} = {}
      <3>1. IsFiniteSet(Awaited(s) \ {t})
        <4>1. IsFiniteSet(Threads)
          BY ResultMixingAssumption, FS_AddElement DEF Threads
        <4>2. Awaited(s) \ {t} \subseteq Threads
          BY DEF Awaited, NotEnded, Owing, RMInv, TypeOK, Threads
        <4>. QED BY <4>1, <4>2, FS_Subset
      <3>. QED BY <3>1, FS_CardinalityType, FS_EmptySet
    <2>. QED BY <1>1, <2>1, <2>2, <2>3, AwaitedFinite
  <1>. QED BY <1>1, <1>2, AwaitedFinite

\* A report that is counted, and no other step of a report, takes its thread
\* out of the awaited ones of its source.
Counts(t) == \/ SetResultLate(t) \/ SetFailureEarly(t) \/ SetFailureLast(t)
             \/ LeaveHolder(t) /\ Succeeds(t)

(* The report of a thread takes it, and only it, off those its holder waits  *)
(* for.                                                                      *)
LEMMA AwaitedShrinks ==
  ASSUME RMInv, NEW t \in Threads, Counts(t), NEW s \in Sources
  PROVE  /\ t \in Awaited(Src(t))
         /\ Awaited(s)' = IF s = Src(t) THEN Awaited(s) \ {t} ELSE Awaited(s)
         /\ num_waiting' = [num_waiting EXCEPT ![Src(t)] = @ - 1]
         /\ HasHolder(Src(t)) /\ holder[Src(t)] = "alive"
  <1>. USE ResultMixingAssumption, CallFacts
       DEF RMInv, TypeOK, CallsOK, LocalOK, Goto, rigid, rpcVars, Threads, Sources, OnlyHolder, Src,
           Succeeds, Awaited, Owing, Owes, NotEnded, SetWaiting, HasHolder, HolderOK, Visits, Inside
  <1>1. CASE SetResultLate(t)
    BY <1>1 DEF SetResultLate
  <1>2. CASE SetFailureEarly(t)
    BY <1>2 DEF SetFailureEarly
  <1>3. CASE SetFailureLast(t)
    BY <1>3 DEF SetFailureLast
  <1>4. CASE LeaveHolder(t) /\ Succeeds(t)
    BY <1>4 DEF LeaveHolder
  <1>. QED BY <1>1, <1>2, <1>3, <1>4 DEF Counts

\* A thread that releases the mutex of its holder for good either leaves others
\* to report or goes on to delete the holder.
LEMMA HolderLeft ==
  ASSUME RMInv, NEW t \in Threads, SetResultLate(t) \/ SetFailureEarly(t) \/ LeaveHolder(t),
         NEW s \in Sources, HasHolder(s)
  PROVE  HolderOK(s)'
  <1>. USE ResultMixingAssumption
  <1>1. /\ pc[t] \in {"enter", "leave"}
        /\ pc' = [pc EXCEPT ![t] = IF num_waiting'[Src(t)] > 0 THEN "idle" ELSE "free_holder"]
        /\ UNCHANGED <<holder, todo, running, call, hasLocal, services>>
        /\ mu' = IF pc[t] = "leave" THEN [mu EXCEPT ![Src(t)] = NoThread] ELSE mu
    BY DEF SetResultLate, SetFailureEarly, LeaveHolder, Goto, OnlyHolder, rigid, rpcVars,
           SetWaiting, ReleaseMu, Src, RMInv, TypeOK
  <1>2. /\ HasHolder(Src(t)) /\ holder[Src(t)] = "alive" /\ Src(t) \in Sources
        /\ Visits(t, Src(t))
    <2>1. mu["LOCAL"] = NoThread \/ hasLocal
      BY DEF RMInv, LocalOK, Fresh
    <2>. QED BY <1>1, <2>1, CallFacts DEF RMInv, HolderOK, Visits, HasHolder, Src, Sources, CallsOK
  <1>3. \A u \in Threads : u # t => (Owes(u, s)' <=> Owes(u, s)) /\ (Finishes(u, s)' <=> Finishes(u, s))
                                 /\ (Visits(u, s)' <=> Visits(u, s)) /\ pc'[u] = pc[u]
    BY <1>1 DEF Owes, Finishes, Visits, Succeeds, RMInv, TypeOK
  <1>6. /\ NotEnded(s)' # {} => holder'[s] = "alive"
        /\ \A u \in Threads : Visits(u, s)' => holder'[s] = "alive"
    <2>1. NotEnded(s)' = NotEnded(s)
      BY <1>1 DEF NotEnded
    <2>2. Visits(t, s)' => Visits(t, s)
      BY <1>1 DEF Visits
    <2>. QED BY <1>1, <1>3, <2>1, <2>2 DEF RMInv, HolderOK
  <1>7. \A u \in Threads : mu'[s] = u <=> Visits(u, s)' /\ pc'[u] \in Inside
    <2>1. pc'[t] \notin Inside
      BY <1>1 DEF Inside, RMInv, TypeOK
    <2>2. CASE pc[t] = "leave"
      <3>1. mu[Src(t)] = t /\ mu' = [mu EXCEPT ![Src(t)] = NoThread]
        BY <1>1, <1>2, <2>2 DEF RMInv, HolderOK, Inside
      <3>2. s # Src(t) => mu'[s] = mu[s] /\ mu[s] # t
        BY <1>2, <2>2, <3>1 DEF RMInv, TypeOK, HolderOK, Visits, Src
      <3>3. \A u \in Threads : u # t /\ s = Src(t) => ~(Visits(u, s) /\ pc[u] \in Inside)
        BY <3>1 DEF RMInv, HolderOK
      <3>4. s = Src(t) => mu'[s] = NoThread
        BY <3>1 DEF RMInv, TypeOK
      <3>5. ASSUME NEW u \in Threads, s = Src(t) PROVE mu'[s] # u
        BY <3>4, <3>5 DEF RMInv
      <3>. QED BY <1>3, <2>1, <3>2, <3>3, <3>5 DEF RMInv, HolderOK
    <2>3. CASE pc[t] = "enter"
      <3>1. mu' = mu /\ mu[s] # t
        BY <1>1, <2>3 DEF RMInv, HolderOK, Inside
      <3>. QED BY <1>3, <2>1, <3>1 DEF RMInv, HolderOK
    <2>. QED BY <1>1, <2>2, <2>3
  <1>4. CASE Counts(t)
    <2>1. /\ t \in Awaited(Src(t))
          /\ Awaited(s)' = IF s = Src(t) THEN Awaited(s) \ {t} ELSE Awaited(s)
          /\ num_waiting'[Src(t)] = num_waiting[Src(t)] - 1
      BY <1>2, <1>4, AwaitedShrinks DEF RMInv, TypeOK
    <2>2. /\ pc'[t] = "idle" => Awaited(Src(t)) # {t}
          /\ pc'[t] = "free_holder" => Awaited(Src(t)) = {t}
      BY <1>1, <1>2, <2>1, CountFacts DEF RMInv, TypeOK
    <2>3. \A u \in Threads : Finishes(u, s) /\ s = Src(t) => FALSE
      BY <1>2, <2>1 DEF RMInv, HolderOK
    <2>4. Finishes(t, s)' => s = Src(t) /\ Awaited(s)' = {}
      BY <1>1, <2>1, <2>2 DEF Finishes, Src, Inside, RMInv, TypeOK
    <2>5. \A u \in Threads : Finishes(u, s)' => Awaited(s)' = {}
      BY <1>3, <2>1, <2>3, <2>4 DEF RMInv, HolderOK
    <2>6. \A u, v \in Threads : Finishes(u, s)' /\ Finishes(v, s)' => u = v
      BY <1>3, <2>3, <2>4 DEF RMInv, HolderOK
    <2>7. holder'[s] = "alive" =>
            \/ Awaited(s)' # {} \/ \E u \in Threads : Finishes(u, s)'
            \/ s = "REMOTE" /\ services' = {}
      <3>1. CASE s = Src(t)
        <4>1. pc'[t] = "free_holder" => Finishes(t, s)'
          BY <1>1, <3>1 DEF Finishes, Src
        <4>2. pc'[t] \in {"idle", "free_holder"}
          BY <1>1 DEF RMInv, TypeOK
        <4>. QED BY <3>1, <4>1, <4>2, <2>1, <2>2
      <3>2. CASE s # Src(t)
        <4>1. ~Finishes(t, s)
          BY <3>2 DEF Finishes, Src
        <4>2. holder[s] = "alive" =>
                \/ Awaited(s) # {} \/ \E u \in Threads : Finishes(u, s)
                \/ s = "REMOTE" /\ services = {}
          BY DEF RMInv, HolderOK
        <4>. QED BY <3>2, <4>1, <4>2, <2>1, <1>1, <1>3
      <3>. QED BY <3>1, <3>2
    <2>. QED BY <1>6, <1>7, <2>5, <2>6, <2>7 DEF HolderOK
  <1>5. CASE ~Counts(t)
    <2>1. LeaveHolder(t) /\ ~Succeeds(t)
      BY <1>5 DEF Counts
    <2>2. Finishes(t, Src(t)) /\ pc[t] = "leave"
      BY <2>1 DEF LeaveHolder, Goto, Finishes, Src, Inside
    <2>3. Awaited(Src(t)) = {} /\ num_waiting'[Src(t)] = 0
      <3>1. Awaited(Src(t)) = {}
        BY <1>2, <2>2 DEF RMInv, HolderOK
      <3>2. num_waiting[Src(t)] = 0
        BY <1>2, <3>1, CountFacts
      <3>3. num_waiting' = [num_waiting EXCEPT ![Src(t)] = num_waiting[Src(t)] - 0]
        BY <2>1 DEF LeaveHolder, SetWaiting
      <3>. QED BY <1>2, <3>1, <3>2, <3>3 DEF RMInv, TypeOK
    <2>4. Awaited(s)' = Awaited(s) /\ (Finishes(t, s)' <=> Finishes(t, s))
      BY <1>1, <2>2, <2>3, <2>1 DEF Awaited, NotEnded, Owing, Owes, Finishes, Succeeds, RMInv, TypeOK
    <2>5. \A u \in Threads : Finishes(u, s)' <=> Finishes(u, s)
      BY <1>3, <2>4
    <2>. QED BY <1>1, <1>6, <1>7, <2>4, <2>5 DEF HolderOK, RMInv
  <1>. QED BY <1>4, <1>5

\* Nobody else is in a holder that is deleted.
LEMMA HolderFreed ==
  ASSUME RMInv, NEW t \in Threads, FreeHolder(t), NEW s \in Sources, HasHolder(s)
  PROVE  HolderOK(s)'
  <1>. USE ResultMixingAssumption
  <1>1. /\ pc[t] = "free_holder" /\ pc' = [pc EXCEPT ![t] = "idle"]
        /\ holder' = [holder EXCEPT ![Src(t)] = "freed"]
        /\ UNCHANGED <<todo, running, call, hasLocal, services, mu>>
    BY DEF FreeHolder, Goto, OnlyHolder, rigid, rpcVars
  <1>2. Finishes(t, Src(t)) /\ Src(t) \in Sources /\ HasHolder(Src(t))
    BY <1>1, CallFacts DEF Finishes, Src, RMInv, CallsOK, HasHolder
  <1>3. Awaited(Src(t)) = {} /\ \A u \in Threads : Finishes(u, Src(t)) => u = t
    BY <1>2 DEF RMInv, HolderOK
  <1>4. \A u \in Threads : u # t => ~Visits(u, Src(t))
    BY <1>3 DEF Visits, Awaited, Owing, Owes, Finishes, Inside, RMInv, TypeOK, PCs, Src
  <1>5. Awaited(s)' = Awaited(s)
    BY <1>1 DEF Awaited, NotEnded, Owing, Owes, Succeeds, RMInv, TypeOK, Inside
  <1>6. NotEnded(Src(t)) = {}
    BY <1>3 DEF Awaited
  <1>7. \A u \in Threads :
          /\ Finishes(u, s)' <=> Finishes(u, s) /\ u # t
          /\ Visits(u, s)' <=> Visits(u, s) /\ u # t
          /\ pc'[u] \in Inside <=> pc[u] \in Inside
    <2>1. ASSUME NEW u \in Threads, u # t
          PROVE  pc'[u] = pc[u] /\ call'[u] = call[u]
      BY <1>1, <2>1 DEF RMInv, TypeOK
    <2>2. pc'[t] = "idle" /\ call' = call /\ pc[t] = "free_holder"
      BY <1>1 DEF RMInv, TypeOK
    <2>3. ASSUME NEW u \in Threads, u # t
          PROVE  /\ Finishes(u, s)' <=> Finishes(u, s)
                 /\ Visits(u, s)' <=> Visits(u, s)
                 /\ pc'[u] \in Inside <=> pc[u] \in Inside
      BY <2>1, <2>3, <2>2 DEF Finishes, Visits, Succeeds
    <2>4. ~Finishes(t, s)' /\ ~Visits(t, s)' /\ pc'[t] \notin Inside /\ pc[t] \notin Inside
      BY <2>2 DEF Finishes, Visits, Inside
    <2>. QED BY <2>3, <2>4 DEF Finishes, Visits, Succeeds
  <1>8. CASE s = Src(t)
    <2>0. \A u \in Threads : u # t => ~Finishes(u, s) /\ ~Visits(u, s)
      BY <1>3, <1>4, <1>8
    <2>1. \A u \in Threads : ~Finishes(u, s)' /\ ~Visits(u, s)'
      BY <2>0, <1>7 DEF Finishes, Visits, Succeeds
    <2>2. holder'[s] = "freed" /\ NotEnded(s)' = {}
      BY <1>1, <1>2, <1>6, <1>8 DEF RMInv, TypeOK, NotEnded
    <2>3. \A u \in Threads : mu'[s] # u
      BY <1>1, <1>4, <1>8 DEF RMInv, HolderOK, Inside
    <2>. QED BY <2>1, <2>2, <2>3 DEF HolderOK
  <1>9. CASE s # Src(t)
    <2>1. ~Finishes(t, s) /\ ~Visits(t, s) /\ holder'[s] = holder[s] /\ NotEnded(s)' = NotEnded(s)
      BY <1>1, <1>2, <1>9 DEF Finishes, Visits, Src, RMInv, TypeOK, NotEnded
    <2>2. ASSUME NEW u \in Threads
          PROVE  (Finishes(u, s)' <=> Finishes(u, s)) /\ (Visits(u, s)' <=> Visits(u, s))
      <3>1. CASE u = t
        BY <1>7, <2>1, <3>1 DEF Finishes, Visits, Succeeds
      <3>2. CASE u # t
        BY <1>7, <3>2 DEF Finishes, Visits, Succeeds
      <3>. QED BY <3>1, <3>2
    <2>. QED BY <1>1, <1>5, <1>7, <2>1, <2>2 DEF HolderOK, RMInv
  <1>. QED BY <1>8, <1>9

\* The mutex of a holder and its deletion.
LEMMA HolderStep ==
  ASSUME RMInv, CallsOK', [Next]_vars, NEW s \in Sources, HasHolder(s)
  PROVE  HolderOK(s)'
  <1>11. ASSUME NEW t \in Threads, SetResultLate(t) PROVE HolderOK(s)'
    BY <1>11, HolderLeft
  <1>12. ASSUME NEW t \in Threads, SetFailureEarly(t) PROVE HolderOK(s)'
    BY <1>12, HolderLeft
  <1>14. ASSUME NEW t \in Threads, LeaveHolder(t) PROVE HolderOK(s)'
    BY <1>14, HolderLeft
  <1>15. ASSUME NEW t \in Threads, FreeHolder(t) PROVE HolderOK(s)'
    BY <1>15, HolderFreed
  <1>. USE ResultMixingAssumption
       DEF RMInv, TypeOK, Goto, rigid, rpcVars, holderVars, mixerVars, Threads, Sources, OnlyHolder, Src,
           CallsOK, LocalOK, MixerOK, Started, Fresh, HolderOK, HasHolder,
           Succeeds, Awaited, Owing, Owes, NotEnded, Visits, Finishes, Inside
  <1>1. CASE AnswerAtOnce
    BY <1>1 DEF AnswerAtOnce
  <1>2. CASE StartQuery
    BY <1>2 DEF StartQuery, NewHolder
  <1>3. ASSUME NEW c \in Conns, DispatchStarts(c) PROVE HolderOK(s)'
    BY <1>3 DEF DispatchStarts
  <1>4. ASSUME NEW c \in Conns, DispatchFails(c) PROVE HolderOK(s)'
    BY <1>4 DEF DispatchFails
  <1>5. CASE LocalAnswers
    BY <1>5 DEF LocalAnswers, NewHolder
  <1>6. CASE NoLocalTables
    BY <1>6 DEF NoLocalTables
  <1>7. CASE ExecuteReturns
    BY <1>7 DEF ExecuteReturns
  <1>8. ASSUME NEW c \in Conns, NEW r \in Ended(c), ThreadReports(c, r) PROVE HolderOK(s)'
    BY <1>8, ReplyType DEF ThreadReports
  <1>9. ASSUME NEW c \in Conns, RPCEnds(c) PROVE HolderOK(s)'
    BY <1>9, <1>8, ReplyType DEF RPCEnds, DoneGetTags, RPCError
  <1>10. ASSUME NEW t \in Threads, SetResultFirst(t) PROVE HolderOK(s)'
    BY <1>10, CallFacts, CountFacts DEF SetResultFirst, HoldMu
  <1>13. ASSUME NEW t \in Threads, SetFailureLast(t) PROVE HolderOK(s)'
    BY <1>13, CallFacts, CountFacts DEF SetFailureLast, SetWaiting, HoldMu
  <1>16. ASSUME NEW t \in Threads, MixerWaits(t) PROVE HolderOK(s)'
    BY <1>16, CallFacts, CountFacts DEF MixerWaits, SetMixer, BackFrom
  <1>17. ASSUME NEW t \in Threads, MixerDone(t) PROVE HolderOK(s)'
    BY <1>17, CallFacts, CountFacts DEF MixerDone, SetMixer
  <1>18. ASSUME NEW t \in Threads, FreeMixer(t) PROVE HolderOK(s)'
    BY <1>18, CallFacts, CountFacts DEF FreeMixer, BackFrom
  <1>19. CASE UNCHANGED vars
    BY <1>19 DEF vars
  <1>. QED BY <1>1, <1>2, <1>3, <1>4, <1>5, <1>6, <1>7, <1>9, <1>10, <1>11, <1>12, <1>13, <1>14, <1>15, <1>16, <1>17, <1>18, <1>19
           DEF Next, Execute, Report

\* Two sets that have c, and the same other elements, are the same.
LEMMA SameSet ==
  ASSUME NEW A, NEW B, NEW c, c \in A, c \in B, A \ {c} = B \ {c}
  PROVE  A = B
  <1>1. \A x \in A : x \in B
    <2>1. TAKE x \in A
    <2>2. x # c => x \in B \ {c}
      OBVIOUS
    <2>. QED BY <2>2
  <1>2. \A x \in B : x \in A
    <2>1. TAKE x \in B
    <2>2. x # c => x \in A \ {c}
      OBVIOUS
    <2>. QED BY <2>2
  <1>. QED BY <1>1, <1>2

\* Every step keeps the count of a holder: a report is counted when it is no
\* longer awaited, and an RPC that ends is awaited as a report.
LEMMA CountStep ==
  ASSUME RMInv, CallsOK', [Next]_vars, NEW s \in Sources, HasHolder(s)
  PROVE  CountOK(s)'
  <1>1. ASSUME NEW t \in Threads, Counts(t) PROVE CountOK(s)'
    <2>1. /\ t \in Awaited(Src(t))
          /\ Awaited(s)' = IF s = Src(t) THEN Awaited(s) \ {t} ELSE Awaited(s)
          /\ num_waiting' = [num_waiting EXCEPT ![Src(t)] = @ - 1]
      BY <1>1, AwaitedShrinks
    <2>2. holder' = holder
      BY <1>1 DEF Counts, SetResultLate, SetFailureEarly, SetFailureLast, LeaveHolder
    <2>3. holder[s] = "alive" => num_waiting[s] = Cardinality(Awaited(s))
      BY DEF RMInv, CountOK
    <2>4. CASE s = Src(t)
      <3>1. Cardinality(Awaited(s) \ {t}) = Cardinality(Awaited(s)) - 1
        BY <2>1, <2>4, AwaitedFinite
      <3>2. num_waiting'[s] = num_waiting[s] - 1
        BY <2>1, <2>4 DEF RMInv, TypeOK
      <3>. QED BY <2>1, <2>2, <2>3, <2>4, <3>1, <3>2 DEF CountOK
    <2>5. CASE s # Src(t)
      BY <2>1, <2>2, <2>3, <2>5 DEF CountOK, RMInv, TypeOK
    <2>. QED BY <2>4, <2>5
  <1>a. ASSUME NEW c \in Awaited(s), NEW m, m \notin Awaited(s)
        PROVE  Cardinality((Awaited(s) \ {c}) \cup {m}) = Cardinality(Awaited(s))
    <2>1. IsFiniteSet(Threads)
      BY ResultMixingAssumption, FS_AddElement DEF Threads
    <2>2. Awaited(s) \ {c} \subseteq Threads
      BY DEF Awaited, NotEnded, Owing, RMInv, TypeOK, Threads
    <2>3. IsFiniteSet(Awaited(s) \ {c})
      BY <2>1, <2>2, FS_Subset
    <2>4. Cardinality((Awaited(s) \ {c}) \cup {m}) = Cardinality(Awaited(s) \ {c}) + 1
      BY <1>a, <2>3, FS_AddElement
    <2>. QED BY <2>4, AwaitedFinite
  <1>2. ASSUME Awaited(s)' = Awaited(s), num_waiting'[s] = num_waiting[s],
               holder'[s] = "alive" => holder[s] = "alive"
        PROVE  CountOK(s)'
    BY <1>2 DEF RMInv, CountOK
  <1>. USE ResultMixingAssumption
       DEF RMInv, TypeOK, CallsOK, LocalOK, MixerOK, Started, Fresh, Goto, rigid, rpcVars, holderVars,
           Threads, Sources, OnlyHolder, Src, Succeeds
  <1>3. CASE AnswerAtOnce
    BY <1>3, <1>2 DEF AnswerAtOnce, Awaited, NotEnded, Owing, Owes
  <1>4. CASE StartQuery
    <2>1. CASE s = "REMOTE"
      <3>1. Awaited(s)' = services
        BY <1>4, <2>1 DEF StartQuery, Awaited, NotEnded, Owing, Owes, Inside
      <3>2. num_waiting'[s] = Cardinality(services)
        BY <1>4, <2>1 DEF StartQuery, NewHolder
      <3>. QED BY <3>1, <3>2 DEF CountOK
    <2>2. CASE s = "LOCAL"
      BY <1>4, <2>2 DEF StartQuery, NewHolder, CountOK
    <2>. QED BY <2>1, <2>2
  <1>5. ASSUME NEW c \in Conns, DispatchStarts(c) PROVE CountOK(s)'
    <2>1. Awaited(s)' = Awaited(s)
      BY <1>5 DEF DispatchStarts, Awaited, NotEnded, Owing, Owes
    <2>. QED BY <1>5, <1>2, <2>1 DEF DispatchStarts
  <1>6. ASSUME NEW c \in Conns, DispatchFails(c) PROVE CountOK(s)'
    <2>1. CASE s = "REMOTE"
      <3>1. c \in Awaited(s) /\ Main \notin Awaited(s)
        BY <1>6, <2>1 DEF DispatchFails, Awaited, NotEnded, Owing, Owes, Inside
      <3>2. Awaited(s)' = (Awaited(s) \ {c}) \cup {Main}
        BY <1>6, <2>1 DEF DispatchFails, Awaited, NotEnded, Owing, Owes, Inside
      <3>3. Cardinality((Awaited(s) \ {c}) \cup {Main}) = Cardinality(Awaited(s))
        BY <3>1, <1>a
      <3>6. Cardinality(Awaited(s)') = Cardinality(Awaited(s))
        BY <3>2, <3>3
      <3>. QED BY <1>6, <3>6 DEF DispatchFails, CountOK
    <2>2. CASE s = "LOCAL"
      <3>1. Awaited(s)' = Awaited(s)
        BY <1>6, <2>2 DEF DispatchFails, Awaited, NotEnded, Owing, Owes, Inside
      <3>. QED BY <1>6, <1>2, <3>1 DEF DispatchFails
    <2>. QED BY <2>1, <2>2
  <1>7. CASE LocalAnswers
    <2>1. CASE s = "LOCAL"
      <3>1. Awaited(s)' = {Main}
        BY <1>7, <2>1 DEF LocalAnswers, Awaited, NotEnded, Owing, Owes, Inside
      <3>2. Cardinality({Main}) = 1
        BY FS_Singleton
      <3>3. num_waiting'[s] = 1
        BY <1>7, <2>1 DEF LocalAnswers, NewHolder
      <3>. QED BY <3>1, <3>2, <3>3 DEF CountOK
    <2>2. CASE s = "REMOTE"
      <3>1. Awaited(s)' = Awaited(s)
        BY <1>7, <2>2 DEF LocalAnswers, Awaited, NotEnded, Owing, Owes, Inside
      <3>. QED BY <1>7, <1>2, <2>2, <3>1 DEF LocalAnswers, NewHolder
    <2>. QED BY <2>1, <2>2
  <1>8. CASE NoLocalTables
    <2>1. s = "REMOTE"
      BY <1>8 DEF NoLocalTables, HasHolder
    <2>2. Awaited(s)' = Awaited(s)
      BY <1>8, <2>1 DEF NoLocalTables, Awaited, NotEnded, Owing, Owes, Inside
    <2>. QED BY <1>8, <1>2, <2>2 DEF NoLocalTables
  <1>9. CASE ExecuteReturns
    BY <1>9, <1>2 DEF ExecuteReturns, Awaited, NotEnded, Owing, Owes
  <1>10. ASSUME NEW c \in Conns, NEW r \in Ended(c), ThreadReports(c, r) PROVE CountOK(s)'
    <2>1. CASE s = "REMOTE"
      <3>1. c \in Awaited(s) /\ c \in Awaited(s)'
        BY <1>10, <2>1 DEF ThreadReports, Awaited, NotEnded, Owing, Owes
      <3>2. Awaited(s)' \ {c} = Awaited(s) \ {c}
        BY <1>10, <2>1 DEF ThreadReports, Awaited, NotEnded, Owing, Owes
      <3>3. Awaited(s)' = Awaited(s)
        BY <3>1, <3>2, SameSet
      <3>. QED BY <1>10, <1>2, <3>3 DEF ThreadReports
    <2>2. CASE s = "LOCAL"
      <3>1. Awaited(s)' = Awaited(s)
        BY <1>10, <2>2 DEF ThreadReports, Awaited, NotEnded, Owing, Owes, Inside
      <3>. QED BY <1>10, <1>2, <3>1 DEF ThreadReports
    <2>. QED BY <2>1, <2>2
  <1>11. ASSUME NEW t \in Threads, SetResultFirst(t) PROVE CountOK(s)'
    <2>1. Awaited(s)' = Awaited(s)
      BY <1>11 DEF SetResultFirst, Awaited, NotEnded, Owing, Owes, Inside
    <2>. QED BY <1>11, <1>2, <2>1 DEF SetResultFirst
  <1>12. ASSUME NEW t \in Threads, LeaveHolder(t), ~Succeeds(t) PROVE CountOK(s)'
    <2>1. Awaited(s)' = Awaited(s)
      BY <1>12 DEF LeaveHolder, Awaited, NotEnded, Owing, Owes, Inside
    <2>2. num_waiting'[s] = num_waiting[s]
      BY <1>12 DEF LeaveHolder, SetWaiting
    <2>. QED BY <1>12, <1>2, <2>1, <2>2 DEF LeaveHolder
  <1>13. ASSUME NEW t \in Threads, FreeHolder(t) PROVE CountOK(s)'
    <2>1. Awaited(s)' = Awaited(s)
      BY <1>13 DEF FreeHolder, Awaited, NotEnded, Owing, Owes, Inside
    <2>. QED BY <1>13, <1>2, <2>1 DEF FreeHolder
  <1>14. ASSUME NEW t \in Threads, MixerWaits(t) \/ MixerDone(t) \/ FreeMixer(t) PROVE CountOK(s)'
    <2>1. /\ pc[t] \in {"mix", "free_mixer"}
          /\ \/ pc' = [pc EXCEPT ![t] = "leave"]
             \/ pc' = [pc EXCEPT ![t] = "free_mixer"]
             \/ pc' = [pc EXCEPT ![t] = "idle"] /\ mu[Src(t)] # t
          /\ UNCHANGED <<holder, num_waiting, call, todo, running>>
      BY <1>14 DEF MixerWaits, MixerDone, FreeMixer, SetMixer, BackFrom
    <2>2. mu[Src(t)] # t => Src(t) # s
      BY <2>1 DEF HolderOK, Visits, Inside
    <2>3. Awaited(s)' = Awaited(s)
      BY <2>1, <2>2 DEF Awaited, NotEnded, Owing, Owes, Inside
    <2>. QED BY <1>2, <2>1, <2>3
  <1>15. CASE UNCHANGED vars
    BY <1>15, <1>2 DEF vars, Awaited, NotEnded, Owing, Owes
  <1>16. ASSUME NEW c \in Conns, RPCEnds(c) PROVE CountOK(s)'
    BY <1>16, <1>10, ReplyType DEF RPCEnds, DoneGetTags, RPCError
  <1>. QED BY <1>1, <1>3, <1>4, <1>5, <1>6, <1>7, <1>8, <1>9, <1>11, <1>12, <1>13, <1>14, <1>15, <1>16
           DEF Next, Execute, Report, Counts

-----------------------------------------------------------------------------
(* The invariant and what follows from it.                                 *)

\* The query, the configuration and the corpus do not change under way.
LEMMA RigidStep ==
  ASSUME [Next]_vars
  PROVE  UNCHANGED rigid
  BY DEF Next, Execute, Report, RPCEnds, vars, rigid, OnlyHolder, AnswerAtOnce, StartQuery,
         DispatchStarts, DispatchFails, LocalAnswers, NoLocalTables, ExecuteReturns,
         ThreadReports, DoneGetTags, RPCError, SetResultFirst, SetResultLate, SetFailureEarly,
         SetFailureLast, LeaveHolder, FreeHolder, MixerWaits, MixerDone, SetMixer, FreeMixer

\* Before Execute runs nobody owes anything.
LEMMA InitInv == Init => RMInv
  <1>. SUFFICES ASSUME Init PROVE RMInv
    OBVIOUS
  <1>1. Pending \in Outcomes
    BY DEF Outcomes
  <1>2. TypeOK
    BY <1>1 DEF Init, TypeOK, Stages, Life, PCs, Sources
  <1>3. CallsOK
    BY ResultMixingAssumption DEF Init, CallsOK, Started, Threads
  <1>4. ASSUME NEW s \in Sources PROVE CountOK(s) /\ HolderOK(s) /\ SettledOK(s)
    BY <1>4, ResultMixingAssumption
       DEF Init, CountOK, HolderOK, SettledOK, Settled, NotEnded, Visits, Finishes, Inside, Threads
  <1>5. LocalOK
    BY ResultMixingAssumption DEF Init, LocalOK, Settled, Fresh, Started, Threads, Sources
  <1>6. MixerOK
    BY DEF Init, MixerOK, Settled, Fresh, Started, Threads, Sources
  <1>7. RemoteOK
    BY DEF Init, RemoteOK, Sources
  <1>. QED BY <1>2, <1>3, <1>4, <1>5, <1>6, <1>7 DEF RMInv

\* Every step keeps it.
LEMMA InvStep == RMInv /\ [Next]_vars => RMInv'
  <1>. SUFFICES ASSUME RMInv, [Next]_vars PROVE RMInv'
    OBVIOUS
  <1>1. TypeOK'
    BY TypeStep DEF RMInv
  <1>2. CallsOK'
    BY <1>1, CallsStep
  <1>3. ASSUME NEW s \in Sources, HasHolder(s)'
        PROVE  CountOK(s)' /\ HolderOK(s)' /\ SettledOK(s)'
    <2>1. HasHolder(s)
      BY <1>3, RigidStep DEF HasHolder, rigid
    <2>. QED BY <1>2, <2>1, CountStep, HolderStep, SettledStep
  <1>4. LocalOK' /\ MixerOK' /\ RemoteOK'
    BY <1>2, LocalStep, MixerStep, RemoteStep
  <1>. QED BY <1>1, <1>2, <1>3, <1>4 DEF RMInv

\* The inductive invariant: the counts, the mutexes and the lives of the holders
\* and of the mixer agree with the reports that are still to come.
THEOREM RMInvariance == Spec => []RMInv
  BY InitInv, InvStep, PTL DEF Spec

\* All variables keep their types.
THEOREM TypeCorrect == Spec => []TypeOK
  <1>1. RMInv => TypeOK
    BY DEF RMInv
  <1>. QED BY <1>1, RMInvariance, PTL

\* Whatever the order of the reports, no thread enters, leaves or deletes a
\* holder or the mixer after its "delete this", and the request lives until the
\* local data source has had it.
THEOREM NoUseAfterDelete == Spec => []NothingUsedAfterDelete
  <1>1. ASSUME RMInv PROVE NothingUsedAfterDelete
    <2>1. ASSUME NEW t \in Threads, pc[t] \in {"enter", "leave", "free_holder"}
          PROVE  holder[Src(t)] = "alive"
      <3>1. HasHolder(Src(t)) /\ Src(t) \in Sources /\ Visits(t, Src(t))
        BY <1>1, <2>1, CallFacts DEF RMInv, CallsOK, Src, Visits, HasHolder
      <3>. QED BY <1>1, <3>1 DEF RMInv, HolderOK
    <2>2. ASSUME NEW t \in Threads, pc[t] = "mix" PROVE mixer = "alive"
      <3>1. call[t].src \in Sources /\ Started /\ (call[t].src = "LOCAL" => t = Main)
        BY <1>1, <2>2, CallFacts
      <3>2. ~Settled(call[t].src)
        BY <1>1, <2>2, <3>1 DEF RMInv, SettledOK, HasHolder, LocalOK
      <3>. QED BY <1>1, <3>1, <3>2 DEF RMInv, MixerOK, Sources
    <2>3. ASSUME NEW t \in Threads, pc[t] = "free_mixer" PROVE mixer = "alive"
      BY <1>1, <2>3 DEF RMInv, MixerOK
    <2>4. todo \cup running # {} => holder["REMOTE"] = "alive"
      BY <1>1 DEF RMInv, HolderOK, NotEnded, HasHolder, Sources
    <2>5. stage = "remote" => request = "alive"
      <3>1. stage = "remote" => Started /\ ~Settled("LOCAL")
        BY <1>1 DEF RMInv, CallsOK, LocalOK, Started
      <3>2. ~Settled("LOCAL") => waiting_for # 0
        BY <1>1 DEF RMInv, MixerOK, Settled
      <3>. QED BY <1>1, <3>1, <3>2 DEF RMInv, MixerOK
    <2>. QED BY <2>1, <2>2, <2>3, <2>4, <2>5 DEF NothingUsedAfterDelete
  <1>. QED BY <1>1, RMInvariance, PTL

\* When the last RPC has ended and every thread is done, the holders, the mixer
\* and the request are deleted.
THEOREM NoLeaks == Spec => []NothingLeaks
  <1>1. ASSUME RMInv PROVE NothingLeaks
    <2>. SUFFICES ASSUME stage = "returned", services # {}, running = {},
                         \A t \in Threads : pc[t] = "idle"
                  PROVE  /\ mixer # "alive" /\ request # "alive"
                         /\ \A s \in Sources : holder[s] # "alive"
      BY DEF NothingLeaks
    <2>1. ASSUME NEW s \in Sources, holder[s] = "alive" PROVE FALSE
      <3>1. HasHolder(s)
        BY <1>1, <2>1 DEF RMInv, LocalOK, Fresh, HasHolder
      <3>2. todo = {}
        BY <1>1 DEF RMInv, CallsOK
      <3>3. Awaited(s) = {}
        BY <3>2 DEF Awaited, NotEnded, Owing, Owes, Inside
      <3>4. ~\E t \in Threads : Finishes(t, s)
        BY DEF Finishes, Inside
      <3>. QED BY <1>1, <2>1, <3>1, <3>3, <3>4 DEF RMInv, HolderOK
    <2>2. CASE Started
      <3>1. holder["REMOTE"] = "freed"
        BY <1>1, <2>1, <2>2 DEF RMInv, LocalOK, TypeOK, Life, Sources
      <3>2. Settled("REMOTE")
        BY <1>1, <3>1 DEF RMInv, SettledOK, HasHolder, Sources
      <3>3. Settled("LOCAL")
        BY <1>1, <2>2 DEF RMInv, LocalOK, Threads
      <3>. QED BY <1>1, <2>1, <2>2, <3>2, <3>3 DEF RMInv, MixerOK
    <2>3. CASE ~Started
      BY <1>1, <2>1, <2>3 DEF RMInv, MixerOK
    <2>. QED BY <2>2, <2>3
  <1>. QED BY <1>1, RMInvariance, PTL

-----------------------------------------------------------------------------
(* Refinement of MixedAnswer.                                              *)

\* What each source has settled on, as the abstract specification sees it.
Seen == [s \in Sources |-> IF failures[s] THEN Failed ELSE results[s]]

absVars == <<services, outcome, Seen, answer>>

\* A source that has not settled is seen as pending, one that has is not.
LEMMA SeenFacts ==
  ASSUME RMInv, NEW s \in Sources
  PROVE  Seen[s] = Pending <=> ~Settled(s)
  BY DEF RMInv, RemoteOK, Seen, Settled, Sources, Failed, Pending, Mix!Failed, Mix!Pending,
         NilReply, Reply

\* What the abstract specification sees of the mixer's two arrays.
View(res, fail) == [s \in Sources |-> IF fail[s] THEN Failed ELSE res[s]]

\* The mixer answers what the abstract specification mixes from the two sources.
LEMMA MixResultSeen ==
  ASSUME NEW res, NEW fail, ~fail["LOCAL"], fail["REMOTE"] => res["REMOTE"] = NilReply
  PROVE  MixResult(res, fail) = Mix!Mixed(View(res, fail))
  <1>. DEFINE V == View(res, fail)
  <1>1. V["LOCAL"] = res["LOCAL"]
    BY DEF View, Sources
  <1>2. V["REMOTE"] = IF fail["REMOTE"] THEN Failed ELSE res["REMOTE"]
    BY DEF View, Sources
  <1>. HIDE DEF V
  <1>3. CASE fail["REMOTE"]
    <2>1. Mix!Valued(NilReply) = <<>> /\ Mix!Valued(Failed) = <<>>
      BY DEF Mix!Valued, NilReply, Reply, Failed, Mix!Failed
    <2>2. MixResult(res, fail) = Mix!Mixed(V)
      BY <1>1, <1>2, <1>3, <2>1 DEF MixResult, Mix!Mixed
    <2>. QED BY <2>2 DEF V
  <1>4. CASE ~fail["REMOTE"]
    <2>2. MixResult(res, fail) = Mix!Mixed(V)
      BY <1>1, <1>2, <1>4 DEF MixResult, Mix!Mixed
    <2>. QED BY <2>2 DEF V
  <1>. QED BY <1>3, <1>4

\* A report that reaches the mixer settles its source.
LEMMA SettleStep ==
  ASSUME RMInv, RMInv', NEW t \in Threads, MixerWaits(t) \/ MixerDone(t)
  PROVE  \/ Mix!SettleOnReply \/ Mix!SettleOnFailure \/ Mix!SettleLocal
  <1>. DEFINE r == call[t].reply
  <1>1. /\ pc[t] = "mix" /\ SetMixer(t)
        /\ \/ waiting_for' # 0 /\ UNCHANGED answer
           \/ waiting_for' = 0 /\ answer' = Append(answer, MixResult(results', failures'))
    BY DEF MixerWaits, MixerDone, Goto
  <1>2. /\ Src(t) \in Sources /\ Started /\ r # Pending /\ r \in Outcomes
        /\ Src(t) = "LOCAL" => t = Main /\ r # Failed
    BY <1>1, CallFacts DEF Src, Succeeds
  <1>3. ~Settled(Src(t))
    BY <1>1, <1>2 DEF RMInv, SettledOK, HasHolder, LocalOK, Src
  <1>4. answer = <<>>
    <2>1. waiting_for # 0
      BY <1>2, <1>3 DEF RMInv, MixerOK, Sources, Settled
    <2>. QED BY <1>2, <2>1 DEF RMInv, RemoteOK, Started
  <1>5. Seen[Src(t)] = Pending
    BY <1>2, <1>3, SeenFacts
  <1>6. Seen' = [Seen EXCEPT ![Src(t)] = r]
    <2>1. ASSUME NEW s \in Sources
          PROVE  Seen'[s] = [Seen EXCEPT ![Src(t)] = r][s]
      BY <1>1, <1>2 DEF Seen, SetMixer, Succeeds, RMInv, TypeOK
    <2>. QED BY <2>1 DEF Seen
  <1>7. waiting_for' = 0 <=> \A s \in Sources : Seen'[s] # Pending
    <2>1. \A s \in Sources : Seen'[s] = Pending <=> ~Settled(s)'
      BY SeenFacts, <1>1 DEF RMInv, RemoteOK, Seen, Settled, Sources, Failed, Pending,
         Mix!Failed, Mix!Pending, NilReply, Reply
    <2>2. waiting_for' = 0 <=> Settled("LOCAL")' /\ Settled("REMOTE")'
      BY DEF RMInv, MixerOK, Settled
    <2>. QED BY <2>1, <2>2 DEF Sources
  <1>8. answer' = IF \E s \in Sources : Seen'[s] = Pending THEN <<>> ELSE <<Mix!Mixed(Seen')>>
    <2>1. MixResult(results', failures') = Mix!Mixed(Seen')
      <3>1. ~failures'["LOCAL"] /\ (failures'["REMOTE"] => results'["REMOTE"] = NilReply)
        BY DEF RMInv, RemoteOK
      <3>2. Seen' = View(results', failures')
        BY DEF Seen, View
      <3>3. MixResult(results', failures') = Mix!Mixed(View(results', failures'))
        BY <3>1, MixResultSeen
      <3>. QED BY <3>2, <3>3
    <2>. QED BY <1>1, <1>4, <1>7, <2>1
  <1>9. UNCHANGED <<services, outcome>>
    BY <1>1 DEF SetMixer, rigid, rpcVars
  <1>10. /\ Seen = [s \in Sources |-> IF failures[s] THEN [from |-> "REMOTE", form |-> "failure"]
                                      ELSE results[s]]
         /\ Seen' = [s \in Sources |-> IF failures[s] THEN [from |-> "REMOTE", form |-> "failure"]
                                       ELSE results[s]]'
         /\ Mix!Sources = Sources /\ Mix!Pending = Pending
    BY DEF Seen, Failed, Mix!Failed, Mix!Sources, Sources, Pending
  <1>11. CASE Src(t) = "LOCAL"
    <2>1. t = Main /\ call[Main].src = "LOCAL"
      BY <1>2, <1>11 DEF Src
    <2>2. r \in [from : {"LOCAL"}, form : Forms]
      BY <1>1, <2>1 DEF RMInv, CallsOK
    <2>3. PICK f \in Forms : r = [from |-> "LOCAL", form |-> f]
      BY <2>2
    <2>4. Mix!Settle("LOCAL", [from |-> "LOCAL", form |-> f])
      BY <1>4, <1>5, <1>6, <1>8, <1>9, <1>10, <1>11, <2>3 DEF Mix!Settle
    <2>. QED BY <2>4 DEF Mix!SettleLocal
  <1>12. CASE Src(t) = "REMOTE" /\ r = Failed
    <2>1. ~used["REMOTE"] /\ mu["REMOTE"] = t /\ holder["REMOTE"] = "alive"
      BY <1>1, <1>12, <1>2 DEF RMInv, HolderOK, SettledOK, HasHolder, Sources, Src, Visits, Inside, Succeeds
    <2>2. Awaited("REMOTE") = {}
      BY <1>1, <1>12, <1>2 DEF RMInv, HolderOK, HasHolder, Sources, Src, Finishes, Inside, Succeeds
    <2>3. ASSUME NEW c \in services PROVE outcome[c] = Failed
      <3>1. c \in Conns /\ c \notin todo \cup running
        BY <2>2 DEF Awaited, NotEnded, RMInv, TypeOK
      <3>2. outcome[c] # Pending
        BY <1>2, <3>1 DEF RMInv, CallsOK
      <3>3. pc[c] = "enter" => c \in Awaited("REMOTE")
        <4>1. pc[c] = "enter" => call[c] = [src |-> "REMOTE", reply |-> outcome[c]]
          BY <3>1 DEF RMInv, CallsOK
        <4>2. pc[c] = "enter" => call[c].src = "REMOTE"
          BY <4>1
        <4>. QED BY <3>1, <4>2 DEF Awaited, Owing, Owes, Threads
      <3>4. pc[c] # "enter"
        BY <2>2, <3>3
      <3>5. outcome[c] \in {Pending, Failed}
        BY <2>1, <3>4 DEF RMInv, RemoteOK
      <3>. QED BY <3>2, <3>5
    <2>4. Mix!Settle("REMOTE", Mix!Failed)
      BY <1>4, <1>5, <1>6, <1>8, <1>9, <1>10, <1>12 DEF Mix!Settle, Failed
    <2>. QED BY <2>3, <2>4 DEF Mix!SettleOnFailure, Failed
  <1>13. CASE Src(t) = "REMOTE" /\ r # Failed
    <2>1. t \in Conns
      BY <1>1, <1>13 DEF RMInv, CallsOK, Src, Threads
    <2>2. t \in services /\ r = outcome[t]
      <3>1. pc[t] # "idle"
        BY <1>1
      <3>2. t \in services /\ call[t] = [src |-> "REMOTE", reply |-> outcome[t]]
        BY <2>1, <3>1 DEF RMInv, CallsOK
      <3>. QED BY <3>2
    <2>3. outcome[t] \notin {Mix!Pending, Mix!Failed}
      BY <1>2, <1>13, <2>2 DEF Failed, Pending
    <2>4. Mix!SettleOnReply
      BY <1>4, <1>5, <1>6, <1>8, <1>9, <1>10, <1>13, <2>2, <2>3 DEF Mix!SettleOnReply, Mix!Settle
    <2>. QED BY <2>4
  <1>. QED BY <1>2, <1>11, <1>12, <1>13 DEF Sources

\* Every step maps to a step of MixedAnswer or changes nothing it sees.
LEMMA AbstractStep ==
  ASSUME RMInv, RMInv', [Next]_vars
  PROVE  Mix!Next \/ UNCHANGED absVars
  <1>. USE DEF absVars, Seen, rigid, rpcVars, mixerVars, holderVars, OnlyHolder
  <1>1. CASE AnswerAtOnce
    <2>1. answer = <<>> /\ answer' = <<<<Mix!Direct>>>> /\ ~Settled("LOCAL") /\ ~Settled("REMOTE")
      BY <1>1 DEF AnswerAtOnce, RMInv, RemoteOK, MixerOK, Started
    <2>2. \A s \in Sources : Seen[s] = Pending
      BY <2>1, SeenFacts DEF Sources
    <2>3. Seen = [s \in Sources |-> Pending]
      BY <2>2
    <2>. QED BY <1>1, <2>1, <2>3
           DEF AnswerAtOnce, Mix!Next, Mix!AnswerDirectly, Mix!Sources, Sources, Pending, Failed, Mix!Failed
  <1>2. CASE StartQuery \/ LocalAnswers \/ NoLocalTables \/ ExecuteReturns
    BY <1>2 DEF StartQuery, LocalAnswers, NoLocalTables, ExecuteReturns
  <1>3. ASSUME NEW c \in Conns, DispatchStarts(c) PROVE UNCHANGED absVars
    BY <1>3 DEF DispatchStarts
  <1>4. ASSUME NEW c \in Conns, c \in todo \cup running, NEW r \in Ended(c),
               outcome' = [outcome EXCEPT ![c] = r], UNCHANGED <<services, answer, results, failures>>
        PROVE  Mix!Next
    <2>1. c \in services /\ outcome[c] = Pending
      BY <1>4 DEF RMInv, TypeOK, CallsOK, Started
    <2>2. Mix!Respond(c)
      BY <1>4, <2>1 DEF Mix!Respond, Ended, Failed, Pending
    <2>. QED BY <2>2 DEF Mix!Next
  <1>5. ASSUME NEW c \in Conns, DispatchFails(c) PROVE Mix!Next
    BY <1>4, <1>5, ReplyType DEF DispatchFails
  <1>6. ASSUME NEW c \in Conns, RPCEnds(c) PROVE Mix!Next
    <2>1. PICK r \in Ended(c) : ThreadReports(c, r)
      BY <1>6, ReplyType DEF RPCEnds, DoneGetTags, RPCError
    <2>. QED BY <1>4, <2>1 DEF ThreadReports
  <1>7. ASSUME NEW t \in Threads, MixerWaits(t) \/ MixerDone(t) PROVE Mix!Next
    BY <1>7, SettleStep DEF Mix!Next
  <1>8. ASSUME NEW t \in Threads,
               \/ SetResultFirst(t) \/ SetResultLate(t) \/ SetFailureEarly(t) \/ SetFailureLast(t)
               \/ LeaveHolder(t) \/ FreeHolder(t) \/ FreeMixer(t)
        PROVE  UNCHANGED absVars
    BY <1>8 DEF SetResultFirst, SetResultLate, SetFailureEarly, SetFailureLast, LeaveHolder,
                FreeHolder, FreeMixer
  <1>9. CASE UNCHANGED vars
    BY <1>9 DEF vars
  <1>. QED BY <1>1, <1>2, <1>3, <1>5, <1>6, <1>7, <1>8, <1>9 DEF Next, Execute, Report

\* The client gets the one response MixedAnswer promises: mixed from a reply a
\* service really sent, or the failure of all of them, and the local reply.
THEOREM ImplementsMixedAnswer == Spec => AnswersOnce
  <1>1. Init => Mix!Init
    BY DEF Init, Mix!Init, Mix!Sources, Sources, Pending
  <1>2. RMInv /\ RMInv' /\ [Next]_vars => [Mix!Next]_absVars
    BY AbstractStep
  <1>3. [Mix!Next]_absVars
        <=> [Mix!Next]_<<services, outcome,
                         [s \in Sources |-> IF failures[s]
                                            THEN [from |-> "REMOTE", form |-> "failure"]
                                            ELSE results[s]], answer>>
    BY DEF absVars, Seen, Failed, Mix!Failed
  <1>. QED BY <1>1, <1>2, <1>3, RMInvariance, PTL DEF Spec, AnswersOnce, Mix!Spec
=============================================================================
