---------------------------- MODULE MixedAnswer ----------------------------
(***************************************************************************)
(* What the mixer promises for one query: the remote side settles on a     *)
(* reply that one of the services asked really sent, or on a failure,      *)
(* which takes the failure of every service asked; the local side settles  *)
(* on one reply; when both have settled the client is answered, once, with *)
(* the two mixed.  Threads, locks and the life of the objects are the      *)
(* business of the detailed module ResultMixing.                           *)
(***************************************************************************)
EXTENDS Naturals, Sequences

CONSTANTS Conns,       \* the remote services there are
          Forms        \* what a reply can look like; "value": it has a value list

Sources == {"LOCAL", "REMOTE"}
Replies == [from : Conns \cup {"LOCAL"}, form : Forms]
Failed  == [from |-> "REMOTE", form |-> "failure"]
Pending == [from |-> "REMOTE", form |-> "pending"]
Direct  == [from |-> "LOCAL", form |-> "direct"]

VARIABLES asked,       \* the services of the source the query maps to
          outcome,     \* per service: Pending, Failed or the reply it sent
          settled,     \* per source: Pending or what it settled on
          answer       \* the responses given to the client

Init == /\ asked \in SUBSET Conns
        /\ outcome = [c \in Conns |-> Pending]
        /\ settled = [s \in Sources |-> Pending]
        /\ answer = <<>>

Valued(r) == IF r.form = "value" THEN <<r>> ELSE <<>>

\* The value lists of the sources that have one, joined local first; failing
\* that, the error or the raw reply of the remote side.
Mixed(s) ==
  LET valued == Valued(s["LOCAL"]) \o Valued(s["REMOTE"])
  IN  IF valued # <<>> THEN valued ELSE <<s["REMOTE"]>>

Settle(src, r) ==
  /\ answer = <<>> /\ settled[src] = Pending
  /\ settled' = [settled EXCEPT ![src] = r]
  /\ answer' = IF \E s \in Sources : settled'[s] = Pending
               THEN <<>>
               ELSE <<Mixed(settled')>>
  /\ UNCHANGED <<asked, outcome>>

\* A service that was asked answers or fails, once.
Respond(c) == /\ c \in asked /\ outcome[c] = Pending
              /\ \/ outcome' = [outcome EXCEPT ![c] = Failed]
                 \/ \E f \in Forms : outcome' = [outcome EXCEPT ![c] = [from |-> c, form |-> f]]
              /\ UNCHANGED <<asked, settled, answer>>

SettleOnReply == \E c \in asked : /\ outcome[c] \notin {Pending, Failed}
                                  /\ Settle("REMOTE", outcome[c])

SettleOnFailure == /\ \A c \in asked : outcome[c] = Failed
                   /\ Settle("REMOTE", Failed)

SettleLocal == \E f \in Forms : Settle("LOCAL", [from |-> "LOCAL", form |-> f])

\* A ping, or a query no source is configured for, asks nobody.
AnswerDirectly == /\ answer = <<>> /\ settled = [s \in Sources |-> Pending]
                  /\ answer' = <<<<Direct>>>>
                  /\ UNCHANGED <<asked, outcome, settled>>

Next == \/ \E c \in Conns : Respond(c)
        \/ SettleOnReply \/ SettleOnFailure \/ SettleLocal \/ AnswerDirectly

Spec == Init /\ [][Next]_<<asked, outcome, settled, answer>>
=============================================================================
