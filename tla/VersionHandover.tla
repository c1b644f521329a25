--------------------------- MODULE VersionHandover ---------------------------
(* The hand-over between mixer processes: CheckSingleInstance and main of    *)
(* gtagsmixermain.cc with the version service (socket_version_service.cc).   *)
(* A starting process asks whoever holds the version port for its version;   *)
(* it gives up when that one is at least as new, otherwise it tells it to    *)
(* shut down, and then starts services of its own.  Each service binds its   *)
(* port on a thread of its own, and CHECKs that the port was free.           *)
(*                                                                           *)
(* A remote call is the connection, which picks the process that holds the   *)
(* port, and its end, which is the answer or the death of that process.      *)
EXTENDS Naturals, FiniteSets

CONSTANTS Starters,    \* processes that may start
          Incumbent,   \* the process that may serve from the beginning
          Nobody,      \* the owner of a free port
          Versions     \* the versions a process can have

ASSUME VersionHandoverAssumption ==
  /\ Incumbent \notin Starters
  /\ Nobody \notin Starters \cup {Incumbent}
  /\ Versions \subseteq Nat \ {0}

Procs == Starters \cup {Incumbent}
Ports == {"port", "version_port", "rpc_port"}

VARIABLES
  version,   \* kTagsMixerVersion of each process
  replace,   \* its flag --replace
  indexing,  \* its flag --enable_local_indexing
  stage,     \* its place in main
  callee,    \* the process its present remote call has reached
  owner      \* kernel: the process listening on each port

flags == <<version, replace, indexing>>
vars == <<flags, stage, callee, owner>>

Wanted(p) == IF indexing[p] THEN Ports ELSE Ports \ {"rpc_port"}

Serving(p) == stage[p] = "start" /\ \A port \in Wanted(p) : owner[port] = p

(* A process that is not there from the beginning or never starts is gone.   *)
Init ==
  /\ version \in [Procs -> Versions]
  /\ replace \in [Procs -> BOOLEAN]
  /\ indexing \in [Procs -> BOOLEAN]
  /\ stage \in {s \in [Procs -> {"ask", "start", "gone"}] :
                  /\ \A p \in Starters : s[p] # "start"
                  /\ s[Incumbent] # "ask"}
  /\ callee = [p \in Procs |-> Nobody]
  /\ owner = [port \in Ports |->
                IF stage[Incumbent] = "start" /\ port \in Wanted(Incumbent)
                THEN Incumbent ELSE Nobody]

Goto(p, next) == stage' = [stage EXCEPT ![p] = next]

Released(p) == [port \in Ports |-> IF owner[port] = p THEN Nobody ELSE owner[port]]

(* The process ends, and the kernel closes its listeners.                    *)
End(p) == Goto(p, "gone") /\ owner' = Released(p)

-----------------------------------------------------------------------------
(* A remote call to the version port: refused when nobody listens there.     *)
Refused(p) ==
  /\ stage[p] \in {"ask", "tell"}
  /\ owner["version_port"] = Nobody
  /\ Goto(p, "start")
  /\ UNCHANGED <<flags, callee, owner>>

Call(p) ==
  /\ stage[p] \in {"ask", "tell"}
  /\ owner["version_port"] # Nobody
  /\ callee' = [callee EXCEPT ![p] = owner["version_port"]]
  /\ Goto(p, IF stage[p] = "ask" THEN "asked" ELSE "told")
  /\ UNCHANGED <<flags, owner>>

(* Mutant of Cut: a call that ends without an answer makes the process exit. *)
CutExits(p) ==
  /\ stage[p] \in {"asked", "told"}
  /\ stage[callee[p]] = "gone"
  /\ callee' = [callee EXCEPT ![p] = Nobody]
  /\ End(p)
  /\ UNCHANGED flags

(* Mutant of Cut: a call that stood and ended without an answer is not       *)
(* reported.                                                                 *)
CutUnnoticed(p) ==
  /\ stage[p] = "asked"
  /\ stage[callee[p]] = "gone"
  /\ callee' = [callee EXCEPT ![p] = Nobody]
  /\ Goto(p, "start")
  /\ UNCHANGED <<flags, owner>>

(* The callee dies before it has answered.  The end of the stream is an      *)
(* empty answer: for GET_VERSION version 0, older than any, so that the      *)
(* process goes on to shut down whoever holds the port by then; SHUT_DOWN    *)
(* takes it for done.  A connection reset before connect has returned fails, *)
(* and no instance was detected.                                             *)
Cut(p) ==
  /\ stage[p] \in {"asked", "told"}
  /\ stage[callee[p]] = "gone"
  /\ callee' = [callee EXCEPT ![p] = Nobody]
  /\ \/ stage[p] = "asked" /\ Goto(p, "tell")
     \/ Goto(p, "start")
  /\ UNCHANGED <<flags, owner>>

(* Mutant of Answered: an instance of the same version is shut down too.     *)
AnsweredOnlyNewerStays(p) ==
  /\ stage[p] = "asked"
  /\ stage[callee[p]] = "start"
  /\ callee' = [callee EXCEPT ![p] = Nobody]
  /\ IF ~replace[p] /\ version[callee[p]] > version[p]
     THEN End(p)
     ELSE Goto(p, "tell") /\ UNCHANGED owner
  /\ UNCHANGED flags

(* GET_VERSION is answered: the process exits unless it is newer or replaces.*)
Answered(p) ==
  /\ stage[p] = "asked"
  /\ stage[callee[p]] = "start"
  /\ callee' = [callee EXCEPT ![p] = Nobody]
  /\ IF ~replace[p] /\ version[callee[p]] >= version[p]
     THEN End(p)
     ELSE Goto(p, "tell") /\ UNCHANGED owner
  /\ UNCHANGED flags

(* SHUT_DOWN is received: the connection is closed, so that the other side   *)
(* goes on, and exit is called.                                              *)
ShutDown(p) ==
  /\ stage[p] = "told"
  /\ stage[callee[p]] = "start"
  /\ stage' = [stage EXCEPT ![p] = "start", ![callee[p]] = "exiting"]
  /\ callee' = [callee EXCEPT ![p] = Nobody]
  /\ UNCHANGED <<flags, owner>>

(* exit is done.                                                             *)
Exit(p) ==
  /\ stage[p] = "exiting"
  /\ End(p)
  /\ UNCHANGED <<flags, callee>>

(* A service creates its listener; the threads of a process that is in exit  *)
(* still run.                                                                *)
Bind(p) ==
  /\ stage[p] \in {"start", "exiting"}
  /\ \E port \in Wanted(p) :
       /\ owner[port] = Nobody
       /\ owner' = [owner EXCEPT ![port] = p]
  /\ UNCHANGED <<flags, stage, callee>>

(* The port is taken: the CHECK ends the process.                            *)
BindFails(p) ==
  /\ stage[p] \in {"start", "exiting"}
  /\ \E port \in Wanted(p) : owner[port] \notin {Nobody, p}
  /\ End(p)
  /\ UNCHANGED <<flags, callee>>

Step(p) ==
  \/ Refused(p) \/ Call(p) \/ Cut(p) \/ Answered(p) \/ ShutDown(p)
  \/ Exit(p) \/ Bind(p) \/ BindFails(p)

Next == \E p \in Procs : Step(p)

Spec == Init /\ [][Next]_vars

(* Every process is scheduled, and so is the version service of its callee.  *)
FairSpec == Spec /\ \A p \in Procs : WF_vars(Step(p))

-----------------------------------------------------------------------------
(* An instance is not disturbed by starters that are no newer and were not   *)
(* told to replace it, however many there are and whatever they find.        *)
UpToDateStays ==
  [][/\ Serving(Incumbent)
     /\ \A p \in Starters : ~replace[p] /\ version[p] <= version[Incumbent]
     => Serving(Incumbent)']_vars

(* No starter hangs: it serves or is gone in the end, also when the instance *)
(* it talks to is shut down by another one in the middle of the call.        *)
EveryStarterSettles == \A p \in Starters : <>[](Serving(p) \/ stage[p] = "gone")

(* A starter that is left alone before it has found an instance serves: the  *)
(* death of the one it was talking to does not make it give up.              *)
SurvivorServes ==
  \A p \in Starters :
    /\ stage[p] \in {"ask", "asked", "tell", "told"}
    /\ \A q \in Procs \ {p} : stage[q] = "gone"
    ~> Serving(p)

(* gtagsmixermain.cc:51 says of --replace: "replace any existing instance    *)
(* of gtagsmixer".  A starter that shuts the old instance down takes its     *)
(* place.                                                                    *)
ReplacementServes == \A p \in Starters : stage[p] = "tell" ~> Serving(p)
=============================================================================
