------------------------ MODULE VersionHandoverProofs ------------------------
(* Theorem about VersionHandover, for any number of starters and any         *)
(* versions: an instance that is up to date is never disturbed.              *)
EXTENDS VersionHandover, TLAPS

(* No starter is newer than the incumbent or told to replace it.             *)
UpToDate == \A p \in Starters : ~replace[p] /\ version[p] <= version[Incumbent]

(* An incumbent that serves is all a starter ever finds: nobody gets past    *)
(* the answer to its question, so nobody tells it to go or binds a port.     *)
Undisturbed ==
  /\ Serving(Incumbent)
  /\ \A p \in Starters : /\ stage[p] \in {"ask", "asked", "gone"}
                         /\ stage[p] = "asked" => callee[p] = Incumbent

VHInv ==
  /\ stage \in [Procs -> {"ask", "asked", "tell", "told", "start", "exiting", "gone"}]
  /\ callee \in [Procs -> Procs \cup {Nobody}]
  /\ owner \in [Ports -> Procs \cup {Nobody}]
  /\ \A p \in Procs : stage[p] \in {"asked", "told"} => callee[p] # Nobody
  /\ stage[Incumbent] \in {"start", "exiting", "gone"}
  /\ UpToDate /\ stage[Incumbent] = "start" => Undisturbed

-----------------------------------------------------------------------------
(* At first an incumbent serves or is gone.                                  *)
LEMMA InitInv == Init => VHInv
<1> SUFFICES ASSUME Init PROVE VHInv
  OBVIOUS
<1>1. /\ stage \in [Procs -> {"ask", "start", "gone"}]
      /\ \A p \in Starters : stage[p] # "start"
      /\ stage[Incumbent] # "ask"
      /\ Incumbent \in Procs /\ Starters \subseteq Procs
  BY DEF Init, Procs
<1>2. /\ stage[Incumbent] \in {"start", "gone"}
      /\ \A p \in Starters : stage[p] \in {"ask", "gone"}
  BY <1>1
<1>3. callee = [p \in Procs |-> Nobody]
  BY DEF Init
<1>4. owner = [port \in Ports |->
                IF stage[Incumbent] = "start" /\ port \in Wanted(Incumbent)
                THEN Incumbent ELSE Nobody]
  BY DEF Init
<1>5. Wanted(Incumbent) \subseteq Ports
  BY DEF Wanted
<1>6. stage[Incumbent] = "start" => Undisturbed
  BY <1>2, <1>4, <1>5 DEF Undisturbed, Serving
<1>7. owner \in [Ports -> Procs \cup {Nobody}]
  BY <1>1, <1>4
<1> QED
  BY <1>1, <1>2, <1>3, <1>6, <1>7 DEF VHInv

(* The types of a step.                                                      *)
LEMMA StepTypes ==
  ASSUME VHInv, NEW p \in Procs, Step(p)
  PROVE  /\ stage' \in [Procs -> {"ask", "asked", "tell", "told", "start", "exiting", "gone"}]
         /\ callee' \in [Procs -> Procs \cup {Nobody}]
         /\ owner' \in [Ports -> Procs \cup {Nobody}]
         /\ \A q \in Procs : stage'[q] \in {"asked", "told"} => callee'[q] # Nobody
         /\ stage'[Incumbent] \in {"start", "exiting", "gone"}
<1>0. Incumbent \in Procs /\ Starters \subseteq Procs /\ Nobody \notin Procs
  BY VersionHandoverAssumption DEF Procs
<1>1. CASE Refused(p)
  BY <1>0, <1>1 DEF VHInv, Refused, Goto
<1>2. CASE Call(p)
  <2>1. owner["version_port"] \in Procs
    BY <1>2 DEF VHInv, Call, Ports
  <2> QED
    BY <1>0, <1>2, <2>1 DEF VHInv, Call, Goto
<1>3. CASE Cut(p)
  BY <1>0, <1>3 DEF VHInv, Cut, Goto
<1>4. CASE Answered(p)
  BY <1>0, <1>4 DEF VHInv, Answered, Goto, End, Released
<1>5. CASE ShutDown(p)
  <2>1. callee[p] \in Procs
    BY <1>5 DEF VHInv, ShutDown
  <2>2. p # Incumbent
    BY <1>5 DEF VHInv, ShutDown
  <2> QED
    BY <1>0, <1>5, <2>1, <2>2 DEF VHInv, ShutDown
<1>6. CASE Exit(p)
  BY <1>0, <1>6 DEF VHInv, Exit, Goto, End, Released
<1>7. CASE Bind(p)
  BY <1>0, <1>7 DEF VHInv, Bind
<1>8. CASE BindFails(p)
  BY <1>0, <1>8 DEF VHInv, BindFails, Goto, End, Released
<1> QED
  BY <1>1, <1>2, <1>3, <1>4, <1>5, <1>6, <1>7, <1>8 DEF Step

(* Nobody brings an incumbent that is gone back.                             *)
LEMMA IncumbentNotBack ==
  ASSUME VHInv, NEW p \in Procs, Step(p), stage'[Incumbent] = "start"
  PROVE  stage[Incumbent] = "start"
<1>1. CASE p = Incumbent
  BY VersionHandoverAssumption, <1>1
  DEF Procs, VHInv, Step, Refused, Call, Cut, Answered, ShutDown, Exit, Bind, BindFails, Goto,
      End
<1>2. CASE p # Incumbent
  BY VersionHandoverAssumption, <1>2
  DEF Procs, VHInv, Step, Refused, Call, Cut, Answered, ShutDown, Exit, Bind, BindFails, Goto,
      End
<1> QED
  BY <1>1, <1>2

(* No step disturbs the incumbent.                                           *)
LEMMA StepUndisturbed ==
  ASSUME VHInv, NEW p \in Procs, Step(p), UpToDate, stage[Incumbent] = "start"
  PROVE  Undisturbed'
<1>0. /\ Incumbent \in Procs /\ Starters \subseteq Procs /\ Nobody \notin Procs
      /\ Incumbent \notin Starters
  BY VersionHandoverAssumption DEF Procs
<1>2. Undisturbed
  BY DEF VHInv
<1>3. "version_port" \in Wanted(Incumbent)
  BY DEF Wanted, Ports
<1>4. owner["version_port"] = Incumbent
  BY <1>2, <1>3 DEF Undisturbed, Serving
<1>5. Wanted(Incumbent) \subseteq Ports /\ Wanted(Incumbent)' = Wanted(Incumbent)
  BY DEF Wanted, Step, Refused, Call, Cut, Answered, ShutDown, Exit, Bind, BindFails, flags
<1>6. ASSUME p = Incumbent PROVE FALSE
  <2>1. ~Refused(p) /\ ~Call(p) /\ ~Cut(p) /\ ~Answered(p) /\ ~ShutDown(p) /\ ~Exit(p)
    BY <1>6 DEF Refused, Call, Cut, Answered, ShutDown, Exit
  <2>2. \A port \in Wanted(p) : owner[port] = p
    BY <1>2, <1>6 DEF Undisturbed, Serving
  <2>3. ~Bind(p) /\ ~BindFails(p)
    BY <1>0, <1>6, <2>2 DEF Bind, BindFails
  <2> QED
    BY <2>1, <2>3 DEF Step
<1>7. p \in Starters
  BY <1>6 DEF Procs
<1>8. stage[p] \in {"ask", "asked"} /\ (stage[p] = "asked" => callee[p] = Incumbent)
  BY <1>2, <1>7 DEF Undisturbed, Step, Refused, Call, Cut, Answered, ShutDown, Exit, Bind,
                    BindFails
<1>9. CASE Call(p)
  BY <1>0, <1>2, <1>4, <1>5, <1>7, <1>8, <1>9
  DEF VHInv, Undisturbed, Serving, Call, Goto
<1>10. CASE Answered(p)
  <2>1. End(p)
    BY <1>7, <1>8, <1>10 DEF UpToDate, Answered
  <2>2. owner' = Released(p) /\ stage' = [stage EXCEPT ![p] = "gone"]
        /\ callee' = [callee EXCEPT ![p] = Nobody]
    BY <1>10, <2>1 DEF Answered, End, Goto
  <2>3. \A port \in Wanted(Incumbent) : owner'[port] = Incumbent
    BY <1>0, <1>2, <1>5, <1>7, <2>2 DEF Undisturbed, Serving, Released
  <2> QED
    BY <1>0, <1>2, <1>5, <1>7, <2>2, <2>3 DEF VHInv, Undisturbed, Serving
<1>11. ~Refused(p) /\ ~Cut(p) /\ ~ShutDown(p) /\ ~Exit(p) /\ ~Bind(p) /\ ~BindFails(p)
  BY <1>0, <1>4, <1>8 DEF Refused, Cut, ShutDown, Exit, Bind, BindFails
<1> QED
  BY <1>9, <1>10, <1>11 DEF Step

(* Every step keeps the invariant.                                           *)
LEMMA StepInv == VHInv /\ [Next]_vars => VHInv'
<1>1. ASSUME VHInv, NEW p \in Procs, Step(p) PROVE VHInv'
  <2>1. UNCHANGED flags
    BY <1>1 DEF Step, Refused, Call, Cut, Answered, ShutDown, Exit, Bind, BindFails
  <2>2. UpToDate' => UpToDate
    BY <2>1 DEF UpToDate, flags
  <2>3. UpToDate' /\ stage'[Incumbent] = "start" => Undisturbed'
    BY <1>1, <2>2, IncumbentNotBack, StepUndisturbed
  <2> QED
    BY <1>1, <2>3, StepTypes DEF VHInv
<1>2. ASSUME VHInv, UNCHANGED vars PROVE VHInv'
  BY <1>2 DEF VHInv, UpToDate, Undisturbed, Serving, Wanted, vars, flags
<1> QED
  BY <1>1, <1>2 DEF Next

(* An instance is not disturbed by starters that are no newer and were not   *)
(* told to replace it, however many there are and however their calls,       *)
(* deaths and binds interleave.                                              *)
THEOREM UpToDateInstanceStays == Spec => UpToDateStays
<1>1. VHInv /\ [Next]_vars
      => [/\ Serving(Incumbent)
          /\ \A p \in Starters : ~replace[p] /\ version[p] <= version[Incumbent]
          => Serving(Incumbent)']_vars
  <2> SUFFICES ASSUME VHInv, [Next]_vars, Serving(Incumbent), UpToDate
               PROVE  Serving(Incumbent)' \/ UNCHANGED vars
    BY DEF UpToDate
  <2>1. ASSUME NEW p \in Procs, Step(p) PROVE Serving(Incumbent)'
    BY <2>1, StepUndisturbed DEF Serving, Undisturbed
  <2> QED
    BY <2>1 DEF Next
<1> QED
  BY <1>1, InitInv, StepInv, PTL DEF Spec, UpToDateStays
=============================================================================
