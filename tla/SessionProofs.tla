---------------------------- MODULE SessionProofs ----------------------------
(* Proofs of the invariants of Session.  Those about answers and requests    *)
(* rest on three facts about the codec, which TLC evaluates for the          *)
(* questions and tables of its runs: MixerForwardsLists, RequestsAreUsable   *)
(* and AnswersAreReadable.  They are hypotheses of the theorems that use     *)
(* them.                                                                     *)
EXTENDS Session, FiniteSetTheorems, SequenceTheorems, WellFoundedInduction, TLAPS

-----------------------------------------------------------------------------
(* The servers of the list: gtags.py tries each one before it gives up.      *)

(* The servers that failed the client are those before the current one, or   *)
(* all of them.                                                              *)
ManagerOK ==
  /\ call = [pc |-> call.pc, question |-> call.question, id |-> call.id,
             retries |-> call.retries, outcome |-> call.outcome, held |-> call.held,
             cut |-> call.cut]
  /\ manager = [current |-> manager.index, index |-> manager.index, launched |-> manager.launched]
  /\ manager.index \in 0 .. Len(Hosts)
  /\ failed \subseteq 1 .. Len(Hosts)
  /\ 1 .. manager.index - 1 \subseteq failed

(* What the steps keep: the failed servers fit the manager, and none was     *)
(* passed over.                                                              *)
FailInv == ManagerOK /\ NoServerSkipped

(* What gtags.py reads from an answer is never NoAvailableServer.            *)
LEMMA OutcomeKind ==
  ASSUME NEW q, NEW text
  PROVE  Returned(q, text).kind # "NoAvailableServer"
<1>1. ASSUME NEW response PROVE Outcome(response).kind # "NoAvailableServer"
  BY DEF Outcome
<1> QED
  BY <1>1 DEF Returned

(* There is a server to ask.                                                 *)
LEMMA HostsSeq == Len(Hosts) \in Nat \ {0} /\ DOMAIN Hosts = 1 .. Len(Hosts)
BY SessionAssumption

(* No call of the client has failed before the first one.                    *)
LEMMA FailInit == Init => FailInv
<1> SUFFICES ASSUME Init PROVE FailInv
  OBVIOUS
<1>1. manager = [current |-> 0, index |-> 0, launched |-> FALSE] /\ call = NoCall /\ failed = {}
  BY DEF Init
<1>2. ManagerOK
  <2>1. 0 \in 0 .. Len(Hosts) /\ 1 .. 0 - 1 = {}
    BY HostsSeq
  <2>2. call = [pc |-> call.pc, question |-> call.question, id |-> call.id,
             retries |-> call.retries, outcome |-> call.outcome, held |-> call.held,
             cut |-> call.cut]
    BY <1>1 DEF NoCall
  <2> QED
    BY <1>1, <2>1, <2>2 DEF ManagerOK
<1>3. NoServerSkipped
  BY <1>1 DEF NoServerSkipped, NoCall
<1> QED
  BY <1>2, <1>3 DEF FailInv

(* next_server, when all servers up to the current one failed: it takes the  *)
(* next, or all have failed.                                                 *)
LEMMA FailNext ==
  ASSUME FailInv, NextServer, failed' = failed \cup ({manager.index} \ {0}),
         1 .. manager.index \subseteq failed'
  PROVE  FailInv'
<1> USE DEF FailInv, ManagerOK, NoServerSkipped
<1> DEFINE i == manager.index
<1>1. i \in Nat /\ Len(Hosts) \in Nat \ {0} /\ i <= Len(Hosts) /\ failed' \subseteq 1 .. Len(Hosts)
  BY HostsSeq
<1>2. 1 .. i \subseteq failed'
  BY <1>1
<1>3. CASE Len(Hosts) <= i
  <2>1. call' = Ended("NoAvailableServer") /\ manager' = manager
    BY <1>3 DEF NextServer
  <2>2. failed' = 1 .. Len(Hosts)
    BY <1>1, <1>2, <1>3
  <2> QED
    BY <1>1, <1>2, <2>1, <2>2, HostsSeq DEF Ended
<1>4. CASE ~(Len(Hosts) <= i)
  <2>1. /\ manager' = [manager EXCEPT !.current = i + 1, !.index = i + 1]
        /\ call' = [call EXCEPT !.pc = "connect", !.id = 0]
    BY <1>4 DEF NextServer
  <2>2. manager' = [current |-> i + 1, index |-> i + 1, launched |-> manager.launched]
    BY <2>1
  <2>3. call'.outcome = call.outcome
    BY <2>1
  <2>4. NoServerSkipped'
    <3> SUFFICES ASSUME call.outcome.kind = "NoAvailableServer" PROVE failed' = DOMAIN Hosts
      BY <2>3
    <3>1. failed = 1 .. Len(Hosts)
      BY HostsSeq
    <3> QED
      BY <3>1, <1>1, HostsSeq
  <2>5. i + 1 \in 0 .. Len(Hosts) /\ 1 .. (i + 1) - 1 \subseteq failed'
    BY <1>1, <1>2, <1>4
  <2>6. call' = [pc |-> call'.pc, question |-> call'.question, id |-> call'.id,
             retries |-> call'.retries, outcome |-> call'.outcome, held |-> call'.held,
             cut |-> call'.cut]
    BY <2>1
  <2> QED
    BY <1>1, <2>2, <2>4, <2>5, <2>6
<1> QED
  BY <1>3, <1>4

(* An answer ends the call with something other than NoAvailableServer.      *)
LEMMA FailAnswered ==
  ASSUME FailInv, UNCHANGED <<manager, failed>>, NEW text, NEW held, NEW cut,
         Answered(text, held, cut)
  PROVE  FailInv'
BY OutcomeKind DEF FailInv, ManagerOK, NoServerSkipped, Answered

(* Every step keeps the order in which the servers are tried.                *)
LEMMA FailStep == FailInv /\ [Next]_vars => FailInv'
<1> SUFFICES ASSUME FailInv, [Next]_vars PROVE FailInv'
  OBVIOUS
<1> USE DEF FailInv
<1>0. ASSUME UNCHANGED <<manager, call, failed>> PROVE FailInv'
  BY <1>0 DEF ManagerOK, NoServerSkipped
<1>1. CASE Ask
  BY <1>1 DEF Ask, ManagerOK, NoServerSkipped, NoCall
<1>2. CASE SelectedServer
  <2>1. manager.index = 0 /\ NextServer /\ failed' = failed
    BY <1>2 DEF SelectedServer, ManagerOK
  <2>2. failed' = failed \cup ({manager.index} \ {0}) /\ 1 .. manager.index \subseteq failed'
    BY <2>1
  <2> HIDE DEF FailInv
  <2> QED
    BY <2>1, <2>2, FailNext
<1>3. CASE SendToServer
  BY <1>3 DEF SendToServer, ManagerOK, NoServerSkipped
<1>4. CASE FailOver
  <2>1. manager.current = manager.index /\ manager.index # 0
    BY <1>4 DEF FailOver, ManagerOK
  <2>2. failed' = failed \cup ({manager.index} \ {0}) /\ NextServer
    BY <1>4, <2>1 DEF FailOver
  <2>3. 1 .. manager.index \subseteq failed'
    BY <2>1, <2>2 DEF ManagerOK
  <2> HIDE DEF FailInv
  <2> QED
    BY <2>2, <2>3, FailNext
<1>5. CASE LaunchMixer
  <2>1. /\ manager' = [manager EXCEPT !.launched = TRUE]
        /\ call' = call /\ failed' = failed
    BY <1>5 DEF LaunchMixer
  <2>2. manager' = [current |-> manager.index, index |-> manager.index, launched |-> TRUE]
    <3>1. PICK i, l : manager = [current |-> i, index |-> i, launched |-> l]
      BY DEF ManagerOK
    <3> QED
      BY <2>1, <3>1
  <2> QED
    BY <2>1, <2>2 DEF ManagerOK, NoServerSkipped
<1>6. CASE SendToMixer
  BY <1>6 DEF SendToMixer, ManagerOK, NoServerSkipped
<1>7. CASE Retry
  BY <1>7 DEF Retry, ManagerOK, NoServerSkipped, Ended
<1>8. CASE \E h \in Range(Hosts) : Output(h)
  <2>1. PICK h \in Range(Hosts) : Output(h)
    BY <1>8
  <2>2. UNCHANGED <<manager, failed>>
    BY <2>1 DEF Output
  <2>3. \/ UNCHANGED call
        \/ \E text, held, cut : Answered(text, held, cut)
    BY <2>1 DEF Output
  <2> QED
    BY <2>2, <2>3, <1>0, FailAnswered
<1>9. CASE \E h \in Range(Hosts) : Crash(h)
  <2>1. PICK h \in Range(Hosts) : Crash(h)
    BY <1>9
  <2>2. UNCHANGED <<manager, failed>>
    BY <2>1 DEF Crash
  <2>3. \/ UNCHANGED call
        \/ \E text, held, cut : Answered(text, held, cut)
    BY <2>1 DEF Crash
  <2> QED
    BY <2>2, <2>3, <1>0, FailAnswered
<1>10. CASE \E job \in mixer.jobs : MixerAnswers(job)
  <2>1. PICK job \in mixer.jobs : MixerAnswers(job)
    BY <1>10
  <2>2. UNCHANGED <<manager, failed>>
    BY <2>1 DEF MixerAnswers
  <2>3. \/ UNCHANGED call
        \/ \E text, held, cut : Answered(text, held, cut)
    BY <2>1 DEF MixerAnswers
  <2> QED
    BY <2>2, <2>3, <1>0, FailAnswered
<1>11. CASE UNCHANGED vars
  BY <1>0, <1>11 DEF vars
<1>12. CASE \E h \in Range(Hosts) :
              \/ OutputToNobody(h) \/ Restart(h)
              \/ \E n \in 0 .. Len(Head(server[h].queue).data) : Input(h, n)
              \/ \E text \in StrangeTexts[h] : StrangerConnects(h, text)
  BY <1>0, <1>12 DEF OutputToNobody, Restart, Input, StrangerConnects
<1>13. CASE \/ \E id \in strangers : StrangerLeaves(id)
            \/ MixerStarts
            \/ \E job \in mixer.jobs : MixerReads(job) \/ RPCEnds(job)
  BY <1>0, <1>13 DEF StrangerLeaves, MixerStarts, MixerReads, RPCEnds
<1> QED
  BY <1>1, <1>2, <1>3, <1>4, <1>5, <1>6, <1>7, <1>8, <1>9, <1>10, <1>11, <1>12, <1>13
     DEF Next, ClientStep, Rest

(* A call of gtags.py ends with NoAvailableServer only when every server of  *)
(* the list failed: next_server of ConnectionManager passes none over, for   *)
(* any number of servers.                                                    *)
THEOREM NoServersSkipped == Spec => []NoServerSkipped
<1>1. FailInv => NoServerSkipped
  BY DEF FailInv
<1> QED
  BY <1>1, FailInit, FailStep, PTL DEF Spec

-----------------------------------------------------------------------------
(* What the reader of sexpression.cc finds in a text it finds in every       *)
(* longer one.  First the characters of strings and tokens.                  *)

(* Every set of numbers has a least one.                                     *)
LEMMA LeastExists ==
  ASSUME NEW S \in SUBSET Nat, S # {}
  PROVE  \E x \in S : \A y \in S : x <= y
<1>1. \E x \in S : \A y \in S : <<y, x>> \notin OpToRel(<, Nat)
  BY NatLessThanWellFounded, WFMin
<1>2. PICK x \in S : \A y \in S : <<y, x>> \notin OpToRel(<, Nat)
  BY <1>1
<1>3. ASSUME NEW y \in S PROVE x <= y
  <2>1. x \in Nat /\ y \in Nat
    OBVIOUS
  <2>2. ~(y < x)
    BY <1>2, <2>1 DEF OpToRel
  <2> QED
    BY <2>1, <2>2
<1> QED
  BY <1>3

(* A set of numbers with 0 that has the next number of each has them all.    *)
LEMMA AllNumbers ==
  ASSUME NEW S, 0 \in S, \A k \in Nat : k \in S => k + 1 \in S
  PROVE  Nat \subseteq S
<1> SUFFICES ASSUME Nat \ S # {} PROVE FALSE
  OBVIOUS
<1>1. PICK k \in Nat \ S : \A i \in Nat \ S : k <= i
  BY LeastExists
<1>2. k # 0 /\ k - 1 \in Nat /\ ~(k <= k - 1) /\ (k - 1) + 1 = k
  BY <1>1
<1>3. k - 1 \in S
  BY <1>1, <1>2
<1> QED
  BY <1>1, <1>2, <1>3

-----------------------------------------------------------------------------
(* t begins with s.                                                          *)
Begins(t, s) == Len(s) <= Len(t) /\ \A i \in 1 .. Len(s) : t[i] = s[i]

(* What begins with a text has its characters.                               *)
LEMMA AtSame ==
  ASSUME NEW S, NEW s \in Seq(S), NEW t \in Seq(S), Begins(t, s), NEW i \in 1 .. Len(s)
  PROVE  At(t, i) = At(s, i)
BY DEF At, Begins

(* The end of a text is no space.                                            *)
LEMMA NotSpace == ~IsSpace(NUL)
BY DEF IsSpace, NUL

(* Behind a text there is its NUL.                                           *)
LEMMA AtEnd ==
  ASSUME NEW S, NEW s \in Seq(S)
  PROVE  At(s, Len(s) + 1) = NUL
BY DEF At

(* SkipWhitespace stops at the first character that is no space, at the      *)
(* latest behind the text.                                                   *)
LEMMA Skipped ==
  ASSUME NEW S, NEW s \in Seq(S), NEW i \in 1 .. Len(s) + 1
  PROVE  LET j == SkipWhitespace(s, i)
         IN /\ j \in i .. Len(s) + 1 /\ ~IsSpace(At(s, j))
            /\ \A k \in i .. j - 1 : IsSpace(At(s, k))
<1> DEFINE others == {j \in i .. Len(s) + 1 : ~IsSpace(At(s, j))}
<1>1. Len(s) + 1 \in others
  BY AtEnd, NotSpace
<1>2. others \in SUBSET Nat
  OBVIOUS
<1>3. PICK j \in others : \A k \in others : j <= k
  BY <1>1, <1>2, LeastExists
<1>4. \A k \in i .. j - 1 : IsSpace(At(s, k))
  <2> SUFFICES ASSUME NEW k \in i .. j - 1, ~IsSpace(At(s, k)) PROVE FALSE
    OBVIOUS
  <2>1. k \in others
    BY <1>3
  <2> QED
    BY <1>3, <2>1
<1>5. \E n \in i .. Len(s) + 1 : ~IsSpace(At(s, n)) /\ \A k \in i .. n - 1 : IsSpace(At(s, k))
  BY <1>3, <1>4
<1> QED
  BY <1>5 DEF SkipWhitespace

(* SkipWhitespace that stops within a text does the same in a longer one.    *)
LEMMA SkippedSame ==
  ASSUME NEW S, NEW s \in Seq(S), NEW t \in Seq(S), Begins(t, s),
         NEW i \in 1 .. Len(s) + 1, SkipWhitespace(s, i) <= Len(s)
  PROVE  SkipWhitespace(t, i) = SkipWhitespace(s, i)
<1> DEFINE m == SkipWhitespace(s, i)
<1> DEFINE n == SkipWhitespace(t, i)
<1>1. i \in 1 .. Len(t) + 1 /\ Len(s) \in Nat /\ Len(t) \in Nat /\ Len(s) <= Len(t)
  BY DEF Begins
<1>2. /\ m \in i .. Len(s) + 1 /\ ~IsSpace(At(s, m))
      /\ \A k \in i .. m - 1 : IsSpace(At(s, k))
  BY Skipped
<1>3. /\ n \in i .. Len(t) + 1 /\ ~IsSpace(At(t, n))
      /\ \A k \in i .. n - 1 : IsSpace(At(t, k))
  BY <1>1, Skipped
<1>4. m \in 1 .. Len(s)
  BY <1>1, <1>2
<1> HIDE DEF m, n
<1>5. ~(n < m)
  <2> SUFFICES ASSUME n < m PROVE FALSE
    OBVIOUS
  <2>1. n \in i .. m - 1 /\ n \in 1 .. Len(s)
    BY <1>1, <1>2, <1>3, <1>4
  <2> QED
    BY <1>2, <1>3, <2>1, AtSame
<1>6. ~(m < n)
  <2> SUFFICES ASSUME m < n PROVE FALSE
    OBVIOUS
  <2>1. m \in i .. n - 1
    BY <1>2, <1>3, <1>1
  <2> QED
    BY <1>2, <1>3, <1>4, <2>1, AtSame
<1>7. m = n
  BY <1>1, <1>2, <1>3, <1>5, <1>6
<1> QED
  BY <1>7 DEF m, n

-----------------------------------------------------------------------------
(* Reader.                                                                   *)
LEMMA UnescapeLocal ==
  ASSUME NEW S, NEW s \in Seq(S), NEW ends, NEW broken, NEW i \in 1 .. Len(s) + 1,
         NEW f, NEW g, \A j \in i + 1 .. Len(s) + 1 : f[j] = g[j]
  PROVE  Unescape(f, s, i, ends, broken) = Unescape(g, s, i, ends, broken)
<1> DEFINE j == IF At(s, i) = "\\" THEN i + 1 ELSE i
<1>1. CASE At(s, i) \notin ends /\ At(s, j) # NUL
  <2>1. j + 1 \in i + 1 .. Len(s) + 1
    BY <1>1 DEF At
  <2>2. f[j + 1] = g[j + 1]
    BY <2>1
  <2> QED
    BY <2>2 DEF Unescape
<1>2. CASE At(s, i) \in ends \/ At(s, j) = NUL
  BY <1>2 DEF Unescape
<1> QED
  BY <1>1, <1>2

(* f is what Reader computes, for the last k positions.                      *)
Reads(f, s, ends, broken, k) ==
  /\ f = [i \in 1 .. Len(s) + 1 |-> f[i]]
  /\ \A i \in 1 .. Len(s) + 1 : Len(s) + 1 - i < k => f[i] = Unescape(f, s, i, ends, broken)

(* Such an f can be made for one position more.                              *)
LEMMA ReadsMore ==
  ASSUME NEW S, NEW s \in Seq(S), NEW ends, NEW broken, NEW k \in Nat,
         NEW f, Reads(f, s, ends, broken, k)
  PROVE  \E g : Reads(g, s, ends, broken, k + 1)
<1> DEFINE n == Len(s) + 1 - k
<1> DEFINE g == [i \in 1 .. Len(s) + 1 |-> IF i = n THEN Unescape(f, s, i, ends, broken) ELSE f[i]]
<1>1. Len(s) \in Nat
  OBVIOUS
<1>2. ASSUME NEW i \in 1 .. Len(s) + 1, Len(s) + 1 - i < k + 1
      PROVE  g[i] = Unescape(g, s, i, ends, broken)
  <2>1. i \in Int /\ n \in Int /\ n <= i
    BY <1>1, <1>2
  <2>2. \A j \in i + 1 .. Len(s) + 1 : f[j] = g[j]
    BY <1>1, <2>1
  <2>3. Unescape(f, s, i, ends, broken) = Unescape(g, s, i, ends, broken)
    <3> HIDE DEF g
    <3> QED
      BY <2>2, UnescapeLocal
  <2>4. g[i] = Unescape(f, s, i, ends, broken)
    <3>1. CASE i = n
      BY <3>1
    <3>2. CASE i # n
      <4>1. Len(s) + 1 - i < k
        BY <1>1, <2>1, <3>2
      <4> QED
        BY <3>2, <4>1 DEF Reads
    <3> QED
      BY <3>1, <3>2
  <2> QED
    BY <2>3, <2>4
<1>3. g = [i \in 1 .. Len(s) + 1 |-> g[i]]
  OBVIOUS
<1> HIDE DEF g
<1>4. Reads(g, s, ends, broken, k + 1)
  BY <1>2, <1>3 DEF Reads
<1> QED
  BY <1>4

(* The definition of Reader holds: the CHOOSE behind its recursion finds a   *)
(* function.                                                                 *)
LEMMA ReaderIs ==
  ASSUME NEW S, NEW s \in Seq(S), NEW ends, NEW broken
  PROVE  \A i \in 1 .. Len(s) + 1 :
           Reader(s, ends, broken)[i] = Unescape(Reader(s, ends, broken), s, i, ends, broken)
<1> DEFINE Solved == {k \in Nat : \E f : Reads(f, s, ends, broken, k)}
<1>1. 0 \in Solved
  <2> DEFINE f == [i \in 1 .. Len(s) + 1 |-> i]
  <2>1. Len(s) \in Nat
    OBVIOUS
  <2>2. Reads(f, s, ends, broken, 0)
    BY <2>1 DEF Reads
  <2> QED
    BY <2>2
<1>2. ASSUME NEW k \in Nat, k \in Solved PROVE k + 1 \in Solved
  BY <1>2, ReadsMore
<1> HIDE DEF Solved
<1>3. Len(s) + 2 \in Nat /\ Nat \subseteq Solved
  BY <1>1, <1>2, AllNumbers
<1>4. PICK f : Reads(f, s, ends, broken, Len(s) + 2)
  BY <1>3 DEF Solved
<1>5. f = [i \in 1 .. Len(s) + 1 |-> Unescape(f, s, i, ends, broken)]
  BY <1>4 DEF Reads
<1>6. Reader(s, ends, broken)
        = [i \in 1 .. Len(s) + 1 |-> Unescape(Reader(s, ends, broken), s, i, ends, broken)]
  BY <1>5 DEF Reader
<1> QED
  BY <1>6

(* Where the reader of a text ends, and that it read nothing if it did not   *)
(* move.                                                                     *)
EndsAt(s, ends, r, i) ==
  r.got = "sexp" => /\ r.next \in i .. Len(s) + 1 /\ At(s, r.next) \in ends
                    /\ r.next = i => r.val = <<>>

(* A reader stops at one of its ends, and not before where it began.         *)
LEMMA ReaderEnds ==
  ASSUME NEW S, NEW s \in Seq(S), NEW ends, NEW broken, broken.got # "sexp",
         NEW i \in 1 .. Len(s) + 1
  PROVE  EndsAt(s, ends, Reader(s, ends, broken)[i], i)
<1> DEFINE L == Len(s) + 1
<1> DEFINE R(n) == Reader(s, ends, broken)[n]
<1> DEFINE Good == {k \in Nat : \A n \in 1 .. L : L - n < k => EndsAt(s, ends, R(n), n)}
<1>0. Len(s) \in Nat
  OBVIOUS
<1>1. 0 \in Good
  BY <1>0
<1>2. ASSUME NEW k \in Nat, k \in Good PROVE k + 1 \in Good
  <2> SUFFICES ASSUME NEW n \in 1 .. L, L - n < k + 1 PROVE EndsAt(s, ends, R(n), n)
    OBVIOUS
  <2> DEFINE j == IF At(s, n) = "\\" THEN n + 1 ELSE n
  <2>1. R(n) = Unescape(Reader(s, ends, broken), s, n, ends, broken)
    BY ReaderIs
  <2>2. CASE At(s, n) \in ends
    <3>1. R(n) = Got(<<>>, n)
      BY <2>1, <2>2 DEF Unescape
    <3> QED
      BY <3>1, <2>2, <1>0 DEF EndsAt, Got
  <2>3. CASE At(s, n) \notin ends /\ At(s, j) = NUL
    <3>1. R(n) = broken
      BY <2>1, <2>3 DEF Unescape
    <3> QED
      BY <3>1 DEF EndsAt
  <2>4. CASE At(s, n) \notin ends /\ At(s, j) # NUL
    <3>1. R(n) = Before(<<s[j]>>, R(j + 1))
      BY <2>1, <2>4 DEF Unescape
    <3>2. j + 1 \in n + 1 .. L
      BY <2>4, <1>0 DEF At
    <3>3. L - (j + 1) < k /\ j + 1 \in 1 .. L
      BY <3>2, <1>0
    <3>4. EndsAt(s, ends, R(j + 1), j + 1)
      BY <3>3, <1>2
    <3> HIDE DEF R, j
    <3>5. CASE R(j + 1).got = "sexp"
      <4>1. R(n).next = R(j + 1).next
        BY <3>1, <3>5 DEF Before, Got
      <4>2. R(n).next \in n + 1 .. Len(s) + 1 /\ At(s, R(n).next) \in ends
        BY <4>1, <3>4, <3>5, <3>2, <1>0 DEF EndsAt
      <4> QED
        BY <4>2, <1>0 DEF EndsAt
    <3>6. CASE R(j + 1).got # "sexp"
      BY <3>1, <3>6 DEF Before, EndsAt
    <3> QED
      BY <3>5, <3>6
  <2> QED
    BY <2>2, <2>3, <2>4
<1> HIDE DEF Good
<1>3. L \in Nat /\ L \in Good
  BY <1>0, <1>1, <1>2, AllNumbers
<1>4. L - i < L
  BY <1>0
<1> QED
  BY <1>3, <1>4 DEF Good

(* What ends within a text is read of every text that begins with it.        *)
LEMMA ReaderSame ==
  ASSUME NEW S, NEW s \in Seq(S), NEW t \in Seq(S), Begins(t, s),
         NEW ends, NEW broken, broken.got # "sexp",
         NEW i \in 1 .. Len(s) + 1,
         Reader(s, ends, broken)[i].got = "sexp", Reader(s, ends, broken)[i].next <= Len(s)
  PROVE  Reader(t, ends, broken)[i] = Reader(s, ends, broken)[i]
<1> DEFINE L == Len(s) + 1
<1> DEFINE R(n) == Reader(s, ends, broken)[n]
<1> DEFINE Q(n) == Reader(t, ends, broken)[n]
<1> DEFINE Good == {k \in Nat : \A n \in 1 .. L :
                      L - n < k /\ R(n).got = "sexp" /\ R(n).next <= Len(s) => Q(n) = R(n)}
<1>0. Len(s) \in Nat /\ Len(t) \in Nat /\ Len(s) <= Len(t)
  BY DEF Begins
<1>1. 0 \in Good
  BY <1>0
<1>2. ASSUME NEW k \in Nat, k \in Good PROVE k + 1 \in Good
  <2> SUFFICES ASSUME NEW n \in 1 .. L, L - n < k + 1, R(n).got = "sexp", R(n).next <= Len(s)
               PROVE  Q(n) = R(n)
    OBVIOUS
  <2> DEFINE j == IF At(s, n) = "\\" THEN n + 1 ELSE n
  <2>1. n \in 1 .. Len(t) + 1
    BY <1>0
  <2>2. R(n) = Unescape(Reader(s, ends, broken), s, n, ends, broken)
    BY ReaderIs
  <2>3. Q(n) = Unescape(Reader(t, ends, broken), t, n, ends, broken)
    BY <2>1, ReaderIs
  <2>4. EndsAt(s, ends, R(n), n)
    BY ReaderEnds
  <2>5. n \in 1 .. Len(s) /\ At(t, n) = At(s, n)
    BY <2>4, <1>0, AtSame DEF EndsAt
  <2>6. CASE At(s, n) \in ends
    BY <2>2, <2>3, <2>5, <2>6 DEF Unescape
  <2>7. CASE At(s, n) \notin ends /\ At(s, j) = NUL
    <3>1. R(n) = broken
      BY <2>2, <2>7 DEF Unescape
    <3> QED
      BY <3>1
  <2>8. CASE At(s, n) \notin ends /\ At(s, j) # NUL
    <3>1. R(n) = Before(<<s[j]>>, R(j + 1))
      BY <2>2, <2>8 DEF Unescape
    <3>2. j \in 1 .. Len(s) /\ j + 1 \in n + 1 .. L /\ j + 1 \in 1 .. L
      BY <2>8, <2>5, <1>0 DEF At
    <3>3. At(t, j) = At(s, j) /\ t[j] = s[j]
      BY <3>2, AtSame DEF Begins
    <3>4. Q(n) = Before(<<s[j]>>, Q(j + 1))
      BY <2>3, <2>5, <2>8, <3>3 DEF Unescape
    <3>5. L - (j + 1) < k
      BY <3>2, <1>0
    <3> HIDE DEF R, Q, j
    <3>6. R(j + 1).got = "sexp" /\ R(j + 1).next = R(n).next
      BY <3>1 DEF Before, Got
    <3>7. Q(j + 1) = R(j + 1)
      BY <1>2, <3>2, <3>5, <3>6
    <3> QED
      BY <3>1, <3>4, <3>7
  <2> QED
    BY <2>6, <2>7, <2>8
<1> HIDE DEF Good
<1>3. L \in Nat /\ L \in Good
  BY <1>0, <1>1, <1>2, AllNumbers
<1>4. L - i < L
  BY <1>0
<1> QED
  BY <1>3, <1>4 DEF Good

-----------------------------------------------------------------------------
(* What a step of the parser needs of the later ones.                        *)

(* The parser.                                                               *)
Rank(s, b, a) == 2 * (Len(s) + 1 - a) + (IF b THEN 1 ELSE 0)
(* What is read from a on ends behind a and not behind the text.             *)
Follows(s, r, a) == r.got = "sexp" => r.next \in a + 1 .. Len(s) + 1

(* An unquoted token has a character at least.                               *)
LEMMA TokenFollows ==
  ASSUME NEW S, NEW s \in Seq(S), NEW i \in 1 .. Len(s) + 1, NEW token, NEW ends,
         EndsAt(s, ends, token, i)
  PROVE  LET r == ParseUnquotedToken(token, s, i)
         IN r.got = "sexp" => /\ token.got = "sexp" /\ r.next = token.next
                              /\ r.next \in i + 1 .. Len(s) + 1
<1> DEFINE r == ParseUnquotedToken(token, s, i)
<1> SUFFICES ASSUME r.got = "sexp"
             PROVE  /\ token.got = "sexp" /\ r.next = token.next
                    /\ r.next \in i + 1 .. Len(s) + 1
  OBVIOUS
<1>1. token.got = "sexp" /\ token.val # <<>> /\ r.next = token.next
  <2>1. CASE token.got # "sexp" \/ token.val = <<>>
    BY <2>1 DEF ParseUnquotedToken, Dead
  <2>2. CASE token.got = "sexp" /\ token.val # <<>>
    BY <2>2 DEF ParseUnquotedToken, Got, Nothing
  <2> QED
    BY <2>1, <2>2
<1>2. Len(s) \in Nat
  OBVIOUS
<1> HIDE DEF r
<1> QED
  BY <1>1, <1>2 DEF EndsAt

(* A quoted string or symbol has its two quotes at least.                    *)
LEMMA DelimitedFollows ==
  ASSUME NEW S, NEW s \in Seq(S), NEW i \in 1 .. Len(s), NEW delimiter, delimiter # NUL
  PROVE  LET read == Reader(s, {delimiter}, Nothing)[i + 1]
             r == FillWithDelimitedString(Delimited(s, i + 1, delimiter), delimiter)
         IN r.got = "sexp" => /\ read.got = "sexp" /\ r.next = read.next + 1
                              /\ r.next \in i + 1 .. Len(s) + 1
<1> DEFINE read == Reader(s, {delimiter}, Nothing)[i + 1]
<1> DEFINE r == FillWithDelimitedString(Delimited(s, i + 1, delimiter), delimiter)
<1> SUFFICES ASSUME r.got = "sexp"
             PROVE  read.got = "sexp" /\ r.next = read.next + 1 /\ r.next \in i + 1 .. Len(s) + 1
  OBVIOUS
<1>1. read.got = "sexp" /\ r.next = read.next + 1
  BY DEF FillWithDelimitedString, Delimited, Characters, Got
<1>2. i + 1 \in 1 .. Len(s) + 1 /\ Len(s) \in Nat /\ Nothing.got # "sexp"
  BY DEF Nothing
<1>3. EndsAt(s, {delimiter}, read, i + 1)
  BY <1>2, ReaderEnds
<1> HIDE DEF read, r
<1>4. read.next \in i + 1 .. Len(s)
  BY <1>1, <1>2, <1>3 DEF EndsAt, At
<1> QED
  BY <1>1, <1>2, <1>4

(* A list is read on from where its item ended only.                         *)
LEMMA RestSame ==
  ASSUME NEW f, NEW g, NEW item,
         item.got = "sexp" => f[<<TRUE, item.next>>] = g[<<TRUE, item.next>>]
  PROVE  AndTheRest(f, item) = AndTheRest(g, item)
BY DEF AndTheRest

(* A list is read on behind its item.                                        *)
LEMMA RestFollows ==
  ASSUME NEW s, Len(s) \in Nat, NEW f, NEW d \in 1 .. Len(s) + 1, NEW item,
         Follows(s, item, d),
         item.got = "sexp" => Follows(s, f[<<TRUE, item.next>>], item.next)
  PROVE  Follows(s, AndTheRest(f, item), d)
<1> DEFINE rest == f[<<TRUE, item.next>>]
<1>1. CASE item.got = "sexp" /\ rest.got = "sexp"
  <2>1. AndTheRest(f, item).next = rest.next
    BY <1>1 DEF AndTheRest, InList
  <2> QED
    BY <1>1, <2>1 DEF Follows
<1>2. CASE item.got = "sexp" /\ rest.got # "sexp"
  BY <1>2 DEF AndTheRest, Follows
<1>3. CASE item.got # "sexp"
  BY <1>3 DEF AndTheRest, Follows
<1> QED
  BY <1>1, <1>2, <1>3

(* f and g agree on what comes later.                                        *)
Later(f, g, s, b, a) ==
  \A c \in BOOLEAN, d \in 1 .. Len(s) + 1 :
    Rank(s, c, d) < Rank(s, b, a) => f[<<c, d>>] = g[<<c, d>>] /\ Follows(s, f[<<c, d>>], d)

(* They read the same now.                                                   *)
SameNext(f, g, s, b, a) ==
  ParseNext(f, s, b, a) = ParseNext(g, s, b, a) /\ Follows(s, ParseNext(f, s, b, a), a)

(* ParseNext needs the parser at later positions only, and reads a character *)
(* at least or passes from the list to its first item.                       *)
LEMMA NextLocal ==
  ASSUME NEW S, NEW s \in Seq(S), NEW f, NEW g, NEW b \in BOOLEAN, NEW a \in 1 .. Len(s) + 1,
         Later(f, g, s, b, a)
  PROVE  SameNext(f, g, s, b, a)
<1> SUFFICES ASSUME \A c \in BOOLEAN, d \in 1 .. Len(s) + 1 : Rank(s, c, d) < Rank(s, b, a) =>
                      f[<<c, d>>] = g[<<c, d>>] /\ Follows(s, f[<<c, d>>], d)
             PROVE  /\ ParseNext(f, s, b, a) = ParseNext(g, s, b, a)
                    /\ Follows(s, ParseNext(f, s, b, a), a)
  BY DEF Later, SameNext
<1> DEFINE i == SkipWhitespace(s, a)
<1>0. Len(s) \in Nat
  OBVIOUS
<1>1. i \in a .. Len(s) + 1 /\ i \in 1 .. Len(s) + 1
  BY Skipped
<1> HIDE DEF i
<1>2. ASSUME NEW d \in a + 1 .. Len(s) + 1
      PROVE  f[<<TRUE, d>>] = g[<<TRUE, d>>] /\ Follows(s, f[<<TRUE, d>>], d)
  <2>1. Rank(s, TRUE, d) < Rank(s, b, a) /\ d \in 1 .. Len(s) + 1
    BY <1>0 DEF Rank
  <2> QED
    BY <2>1
<1>3. ASSUME b = TRUE, NEW d \in a .. Len(s) + 1
      PROVE  f[<<FALSE, d>>] = g[<<FALSE, d>>] /\ Follows(s, f[<<FALSE, d>>], d)
  <2>1. Rank(s, FALSE, d) < Rank(s, b, a) /\ d \in 1 .. Len(s) + 1
    BY <1>0, <1>3 DEF Rank
  <2> QED
    BY <2>1
<1>4. CASE b = TRUE
  <2>1. ParseNext(f, s, b, a) = ParseItems(f, s, i) /\ ParseNext(g, s, b, a) = ParseItems(g, s, i)
    BY <1>4 DEF ParseNext, i
  <2>2. ASSUME NEW d \in a .. Len(s) + 1
        PROVE  /\ AndTheRest(f, f[<<FALSE, d>>]) = AndTheRest(g, g[<<FALSE, d>>])
               /\ Follows(s, AndTheRest(f, f[<<FALSE, d>>]), a)
    <3>0. d \in 1 .. Len(s) + 1
      BY <1>0
    <3>1. f[<<FALSE, d>>] = g[<<FALSE, d>>] /\ Follows(s, f[<<FALSE, d>>], d)
      BY <1>3, <1>4
    <3>2. ASSUME NEW e \in d + 1 .. Len(s) + 1
          PROVE  f[<<TRUE, e>>] = g[<<TRUE, e>>] /\ Follows(s, f[<<TRUE, e>>], e)
      <4>1. e \in a + 1 .. Len(s) + 1
        BY <1>0
      <4> QED
        BY <4>1, <1>2
    <3> DEFINE item == f[<<FALSE, d>>]
    <3>5. Follows(s, item, d)
      BY <3>1
    <3> HIDE DEF item
    <3>7. ASSUME item.got = "sexp"
          PROVE  /\ f[<<TRUE, item.next>>] = g[<<TRUE, item.next>>]
                 /\ Follows(s, f[<<TRUE, item.next>>], item.next)
      <4>1. item.next \in d + 1 .. Len(s) + 1
        BY <3>5, <3>7 DEF Follows
      <4> QED
        BY <4>1, <3>2
    <3>8. AndTheRest(f, item) = AndTheRest(g, item)
      BY <3>7, RestSame
    <3>6. AndTheRest(f, item) = AndTheRest(g, item) /\ Follows(s, AndTheRest(f, item), d)
      BY <1>0, <3>0, <3>5, <3>7, <3>8, RestFollows
    <3>3. /\ AndTheRest(f, f[<<FALSE, d>>]) = AndTheRest(g, f[<<FALSE, d>>])
          /\ Follows(s, AndTheRest(f, f[<<FALSE, d>>]), d)
      BY <3>6 DEF item
    <3>4. Follows(s, AndTheRest(f, f[<<FALSE, d>>]), a)
      BY <3>3, <1>0 DEF Follows
    <3> QED
      BY <3>1, <3>3, <3>4
  <2>3. CASE At(s, i) = ")"
    <3>1. i \in 1 .. Len(s)
      BY <2>3, <1>0, <1>1 DEF At, NUL
    <3>2. ParseItems(f, s, i) = InList(<<>>, FALSE, i + 1) /\ ParseItems(g, s, i) = ParseItems(f, s, i)
      BY <2>3 DEF ParseItems
    <3> QED
      BY <2>1, <3>1, <3>2, <1>0, <1>1 DEF Follows, InList
  <2>4. CASE At(s, i) = "." /\ IsSpace(At(s, i + 1))
    <3>1. i + 2 \in a + 1 .. Len(s) + 1
      BY <2>4, <1>0, <1>1, NotSpace DEF At
    <3>2. f[<<TRUE, i + 2>>] = g[<<TRUE, i + 2>>] /\ Follows(s, f[<<TRUE, i + 2>>], i + 2)
      BY <3>1, <1>2
    <3>3. ParseItems(f, s, i) = Dotted(f[<<TRUE, i + 2>>]) /\ ParseItems(g, s, i) = Dotted(g[<<TRUE, i + 2>>])
      BY <2>4 DEF ParseItems
    <3>4. Dotted(f[<<TRUE, i + 2>>]).got = "sexp" => /\ f[<<TRUE, i + 2>>].got = "sexp"
                                                 /\ Dotted(f[<<TRUE, i + 2>>]).next = f[<<TRUE, i + 2>>].next
      BY DEF Dotted, InList
    <3> QED
      BY <2>1, <3>1, <3>2, <3>3, <3>4, <1>0 DEF Follows
  <2>5. CASE At(s, i) = "." /\ ~IsSpace(At(s, i + 1))
    <3>1. i + 1 \in a .. Len(s) + 1
      BY <2>5, <1>0, <1>1 DEF At, NUL
    <3>2. /\ ParseItems(f, s, i) = AndTheRest(f, f[<<FALSE, i + 1>>])
          /\ ParseItems(g, s, i) = AndTheRest(g, g[<<FALSE, i + 1>>])
      BY <2>5 DEF ParseItems
    <3> QED
      BY <2>1, <2>2, <3>1, <3>2
  <2>6. CASE At(s, i) \notin {")", "."}
    <3>2. /\ ParseItems(f, s, i) = AndTheRest(f, f[<<FALSE, i>>])
          /\ ParseItems(g, s, i) = AndTheRest(g, g[<<FALSE, i>>])
      BY <2>6 DEF ParseItems
    <3> QED
      BY <2>1, <2>2, <1>1, <3>2
  <2> QED
    BY <2>3, <2>4, <2>5, <2>6
<1>5. CASE b = FALSE
  <2>1. ParseNext(f, s, b, a) = ParseSexp(f, s, i) /\ ParseNext(g, s, b, a) = ParseSexp(g, s, i)
    BY <1>5 DEF ParseNext, i
  <2>2. CASE At(s, i) = "("
    <3>1. i + 1 \in a + 1 .. Len(s) + 1
      BY <2>2, <1>0, <1>1 DEF At, NUL
    <3>2. f[<<TRUE, i + 1>>] = g[<<TRUE, i + 1>>] /\ Follows(s, f[<<TRUE, i + 1>>], i + 1)
      BY <3>1, <1>2
    <3>3. ParseSexp(f, s, i) = ParseList(f[<<TRUE, i + 1>>]) /\ ParseSexp(g, s, i) = ParseList(g[<<TRUE, i + 1>>])
      BY <2>2 DEF ParseSexp, NUL
    <3>4. ParseList(f[<<TRUE, i + 1>>]).got = "sexp" =>
             f[<<TRUE, i + 1>>].got = "sexp" /\ ParseList(f[<<TRUE, i + 1>>]).next = f[<<TRUE, i + 1>>].next
      BY DEF ParseList, Got
    <3> QED
      BY <2>1, <3>1, <3>2, <3>3, <3>4, <1>0 DEF Follows
  <2>3. ASSUME NEW delimiter, delimiter \in {"\"", "|"}, At(s, i) = delimiter
        PROVE  /\ ParseNext(f, s, b, a) = ParseNext(g, s, b, a)
               /\ Follows(s, ParseNext(f, s, b, a), a)
    <3>0. delimiter # NUL
      BY <2>3 DEF NUL
    <3>4. At(s, i) # NUL
      BY <2>3, <3>0
    <3>1. i \in 1 .. Len(s)
      BY <3>4, <1>0, <1>1 DEF At
    <3>2. /\ ParseSexp(f, s, i) = FillWithDelimitedString(Delimited(s, i + 1, delimiter), delimiter)
          /\ ParseSexp(g, s, i) = ParseSexp(f, s, i)
      BY <2>3 DEF ParseSexp, NUL
    <3>3. ParseSexp(f, s, i).got = "sexp" => ParseSexp(f, s, i).next \in i + 1 .. Len(s) + 1
      BY <3>0, <3>1, <3>2, DelimitedFollows
    <3>5. Follows(s, ParseSexp(f, s, i), a)
      BY <3>3, <1>0, <1>1 DEF Follows
    <3> QED
      BY <2>1, <3>2, <3>5
  <2>4. CASE At(s, i) = NUL
    <3>1. ParseSexp(f, s, i) = Nothing /\ ParseSexp(g, s, i) = Nothing
      BY <2>4 DEF ParseSexp, NUL
    <3> QED
      BY <2>1, <3>1 DEF Follows, Nothing
  <2>5. CASE At(s, i) \notin {"(", "\"", "|", NUL}
    <3>1. /\ ParseSexp(f, s, i) = ParseUnquotedToken(Token(s, i), s, i)
          /\ ParseSexp(g, s, i) = ParseSexp(f, s, i)
      BY <2>5 DEF ParseSexp
    <3>2. EndsAt(s, {" ", "\t", "\n", "\r", ")", NUL}, Token(s, i), i)
      BY <1>1, ReaderEnds DEF Token, Characters, Dead
    <3>3. ParseSexp(f, s, i).got = "sexp" => ParseSexp(f, s, i).next \in i + 1 .. Len(s) + 1
      BY <3>1, <3>2, <1>1, TokenFollows
    <3> QED
      BY <2>1, <3>1, <3>3, <1>0, <1>1 DEF Follows
  <2> QED
    BY <2>2, <2>3, <2>4, <2>5
<1> QED
  BY <1>4, <1>5

-----------------------------------------------------------------------------
(* The parser is what its definition says.                                   *)

(* Where a parser may be: in a list or not, at a position.                   *)
Parts(s) == BOOLEAN \X (1 .. Len(s) + 1)

(* f is what Parser computes, for the parts of rank less than k.             *)
Parses(f, s, k) ==
  /\ f = [part \in Parts(s) |-> f[part]]
  /\ \A b \in BOOLEAN, a \in 1 .. Len(s) + 1 :
       Rank(s, b, a) < k => /\ f[<<b, a>>] = ParseNext(f, s, b, a)
                            /\ Follows(s, f[<<b, a>>], a)

(* The ranks are bounded.                                                    *)
LEMMA RankNat ==
  ASSUME NEW s, Len(s) \in Nat, NEW b \in BOOLEAN, NEW a \in 1 .. Len(s) + 1
  PROVE  Rank(s, b, a) \in Nat /\ Rank(s, b, a) < 2 * Len(s) + 2
BY DEF Rank

(* Such an f can be made for one rank more.                                  *)
LEMMA ParsesMore ==
  ASSUME NEW S, NEW s \in Seq(S), NEW k \in Nat, NEW f, Parses(f, s, k)
  PROVE  \E g : Parses(g, s, k + 1)
<1> DEFINE g == [part \in Parts(s) |-> IF Rank(s, part[1], part[2]) = k
                                       THEN ParseNext(f, s, part[1], part[2]) ELSE f[part]]
<1>0. Len(s) \in Nat
  OBVIOUS
<1>1. ASSUME NEW b \in BOOLEAN, NEW a \in 1 .. Len(s) + 1
      PROVE  g[<<b, a>>] = IF Rank(s, b, a) = k THEN ParseNext(f, s, b, a) ELSE f[<<b, a>>]
  BY DEF Parts
<1>2. g = [part \in Parts(s) |-> g[part]]
  OBVIOUS
<1> HIDE DEF g
<1>3. ASSUME NEW b \in BOOLEAN, NEW a \in 1 .. Len(s) + 1, Rank(s, b, a) < k + 1
      PROVE  g[<<b, a>>] = ParseNext(g, s, b, a) /\ Follows(s, g[<<b, a>>], a)
  <2>1. ASSUME NEW c \in BOOLEAN, NEW d \in 1 .. Len(s) + 1, Rank(s, c, d) < Rank(s, b, a)
        PROVE  f[<<c, d>>] = g[<<c, d>>] /\ Follows(s, f[<<c, d>>], d)
    <3>1. Rank(s, c, d) \in Nat /\ Rank(s, b, a) \in Nat
      BY <1>0, RankNat
    <3>2. Rank(s, c, d) < k /\ Rank(s, c, d) # k
      BY <1>3, <2>1, <3>1
    <3>3. f[<<c, d>>] = g[<<c, d>>]
      BY <1>1, <3>2
    <3>4. Follows(s, f[<<c, d>>], d)
      BY <3>2 DEF Parses
    <3> QED
      BY <3>3, <3>4
  <2>2. SameNext(f, g, s, b, a)
    <3>1. Later(f, g, s, b, a)
      BY <2>1 DEF Later
    <3> QED
      BY <3>1, NextLocal
  <2>3. g[<<b, a>>] = ParseNext(f, s, b, a)
    <3>1. CASE Rank(s, b, a) = k
      BY <1>1, <3>1
    <3>2. CASE Rank(s, b, a) # k
      <4>1. Rank(s, b, a) < k
        BY <1>0, <1>3, <3>2, RankNat
      <4> QED
        BY <1>1, <3>2, <4>1 DEF Parses
    <3> QED
      BY <3>1, <3>2
  <2> QED
    BY <2>2, <2>3 DEF SameNext
<1>4. Parses(g, s, k + 1)
  BY <1>2, <1>3 DEF Parses
<1> QED
  BY <1>4

(* The definition of Parser holds: what the reader of sexpression.cc returns *)
(* is ParseNext of what it returns for the rest.                             *)
LEMMA ParserIs ==
  ASSUME NEW S, NEW s \in Seq(S), NEW b \in BOOLEAN, NEW a \in 1 .. Len(s) + 1
  PROVE  Parser(s)[<<b, a>>] = ParseNext(Parser(s), s, b, a)
<1> DEFINE Solved == {k \in Nat : \E f : Parses(f, s, k)}
<1>0. Len(s) \in Nat
  OBVIOUS
<1>1. 0 \in Solved
  <2> DEFINE f == [part \in Parts(s) |-> 0]
  <2>1. f = [part \in Parts(s) |-> f[part]]
    OBVIOUS
  <2> HIDE DEF f
  <2>2. Parses(f, s, 0)
    BY <1>0, <2>1, RankNat DEF Parses
  <2> QED
    BY <2>2
<1>2. ASSUME NEW k \in Nat, k \in Solved PROVE k + 1 \in Solved
  BY <1>2, ParsesMore
<1> HIDE DEF Solved
<1>3. 2 * Len(s) + 2 \in Nat /\ Nat \subseteq Solved
  BY <1>0, <1>1, <1>2, AllNumbers
<1>4. PICK f : Parses(f, s, 2 * Len(s) + 2)
  BY <1>3 DEF Solved
<1>5. ASSUME NEW part \in Parts(s)
      PROVE  f[part] = ParseNext(f, s, part[1], part[2])
  <2>1. PICK c \in BOOLEAN, d \in 1 .. Len(s) + 1 : part = <<c, d>>
    BY DEF Parts
  <2>2. f[<<c, d>>] = ParseNext(f, s, c, d)
    BY <1>0, <1>4, RankNat DEF Parses
  <2> QED
    BY <2>1, <2>2
<1>6. f = [part \in Parts(s) |-> ParseNext(f, s, part[1], part[2])]
  BY <1>4, <1>5 DEF Parses
<1>7. Parser(s) = [part \in Parts(s) |-> ParseNext(Parser(s), s, part[1], part[2])]
  BY <1>6 DEF Parser, Parts
<1>8. <<b, a>> \in Parts(s)
  BY DEF Parts
<1> QED
  BY <1>7, <1>8

(* An expression ends behind its beginning, within its text.                 *)
LEMMA ParserFollows ==
  ASSUME NEW S, NEW s \in Seq(S), NEW b \in BOOLEAN, NEW a \in 1 .. Len(s) + 1
  PROVE  Follows(s, Parser(s)[<<b, a>>], a)
<1> DEFINE P(c, d) == Parser(s)[<<c, d>>]
<1> DEFINE Good == {k \in Nat : \A c \in BOOLEAN, d \in 1 .. Len(s) + 1 :
                      Rank(s, c, d) < k => Follows(s, P(c, d), d)}
<1>0. Len(s) \in Nat
  OBVIOUS
<1>1. 0 \in Good
  BY <1>0, RankNat
<1>2. ASSUME NEW k \in Nat, k \in Good PROVE k + 1 \in Good
  <2> SUFFICES ASSUME NEW c \in BOOLEAN, NEW d \in 1 .. Len(s) + 1, Rank(s, c, d) < k + 1
               PROVE  Follows(s, P(c, d), d)
    OBVIOUS
  <2>1. ASSUME NEW x \in BOOLEAN, NEW y \in 1 .. Len(s) + 1, Rank(s, x, y) < Rank(s, c, d)
        PROVE  Parser(s)[<<x, y>>] = Parser(s)[<<x, y>>] /\ Follows(s, Parser(s)[<<x, y>>], y)
    <3>1. Rank(s, x, y) \in Nat /\ Rank(s, c, d) \in Nat
      BY <1>0, RankNat
    <3>2. Rank(s, x, y) < k
      BY <2>1, <3>1
    <3> QED
      BY <1>2, <3>2
  <2>2. Follows(s, ParseNext(Parser(s), s, c, d), d)
    <3>1. Later(Parser(s), Parser(s), s, c, d)
      BY <2>1 DEF Later
    <3>2. SameNext(Parser(s), Parser(s), s, c, d)
      BY <3>1, NextLocal
    <3> QED
      BY <3>2 DEF SameNext
  <2> QED
    BY <2>2, ParserIs
<1> HIDE DEF Good
<1>3. 2 * Len(s) + 2 \in Nat /\ 2 * Len(s) + 2 \in Good
  BY <1>0, <1>1, <1>2, AllNumbers
<1> QED
  BY <1>0, <1>3, RankNat DEF Good

-----------------------------------------------------------------------------
(* The parser reads the same in a longer text.                               *)

(* A list that was read had its item read and then its rest.                 *)
LEMMA RestIs ==
  ASSUME NEW f, NEW item, AndTheRest(f, item).got = "sexp"
  PROVE  /\ item.got = "sexp" /\ f[<<TRUE, item.next>>].got = "sexp"
         /\ AndTheRest(f, item).next = f[<<TRUE, item.next>>].next
<1>1. item.got = "sexp"
  BY DEF AndTheRest
<1>2. f[<<TRUE, item.next>>].got = "sexp"
  BY <1>1 DEF AndTheRest
<1> QED
  BY <1>1, <1>2 DEF AndTheRest, InList

(* A list that was read had its item read.                                   *)
LEMMA ItemRead ==
  ASSUME NEW f, NEW item, AndTheRest(f, item).got = "sexp"
  PROVE  item.got = "sexp"
BY DEF AndTheRest

(* A token that ends within a text is the same in a longer one.              *)
LEMMA TokenSame ==
  ASSUME NEW S, NEW s \in Seq(S), NEW t \in Seq(S), Begins(t, s), NEW i \in 1 .. Len(s),
         NEW token, token.next \in i .. Len(s)
  PROVE  ParseUnquotedToken(token, t, i) = ParseUnquotedToken(token, s, i)
<1>1. SubSeq(t, i, token.next - 1) = SubSeq(s, i, token.next - 1)
  BY DEF Begins
<1> QED
  BY <1>1 DEF ParseUnquotedToken

(* The parser does not look behind the expression it read.                   *)
LEMMA SkippedWithin ==
  ASSUME NEW S, NEW s \in Seq(S), NEW b \in BOOLEAN, NEW a \in 1 .. Len(s) + 1,
         Parser(s)[<<b, a>>].got = "sexp"
  PROVE  SkipWhitespace(s, a) \in a .. Len(s)
<1> DEFINE i == SkipWhitespace(s, a)
<1>0. Len(s) \in Nat
  OBVIOUS
<1>1. i \in a .. Len(s) + 1
  BY Skipped
<1> SUFFICES ASSUME i = Len(s) + 1 PROVE FALSE
  BY <1>0, <1>1
<1>2. At(s, i) = NUL
  BY AtEnd
<1>3. Parser(s)[<<b, a>>] = ParseNext(Parser(s), s, b, a)
  BY ParserIs
<1> HIDE DEF i
<1>4. CASE b = TRUE
  <2>0. Parser(s)[<<b, a>>] = ParseItems(Parser(s), s, i)
    BY <1>3, <1>4 DEF ParseNext, i
  <2>1. Parser(s)[<<b, a>>] = AndTheRest(Parser(s), Parser(s)[<<FALSE, i>>])
    <3>1. At(s, i) \notin {")", "."}
      BY <1>2 DEF NUL
    <3> QED
      BY <2>0, <3>1 DEF ParseItems
  <2>2. Parser(s)[<<FALSE, i>>].got = "sexp"
    <3>1. AndTheRest(Parser(s), Parser(s)[<<FALSE, i>>]).got = "sexp"
      BY <2>1
    <3> QED
      BY <3>1, ItemRead
  <2>3. Follows(s, Parser(s)[<<FALSE, i>>], i)
    <3>1. i \in 1 .. Len(s) + 1 /\ FALSE \in BOOLEAN
      BY <1>0
    <3> QED
      BY <3>1, ParserFollows
  <2> QED
    BY <1>0, <2>2, <2>3 DEF Follows
<1>5. CASE b = FALSE
  <2>0. Parser(s)[<<b, a>>] = ParseSexp(Parser(s), s, i)
    BY <1>3, <1>5 DEF ParseNext, i
  <2>1. ParseSexp(Parser(s), s, i) = Nothing
    BY <1>2 DEF ParseSexp, NUL
  <2> QED
    BY <2>0, <2>1 DEF Nothing
<1> QED
  BY <1>4, <1>5

(* What is read within s is read so within t.                                *)
Same(s, t, b, a) ==
  (Parser(s)[<<b, a>>].got = "sexp" /\ Parser(s)[<<b, a>>].next <= Len(s))
    => Parser(t)[<<b, a>>] = Parser(s)[<<b, a>>]

(* The items of a list.                                                      *)
LEMMA RestSameWithin ==
  ASSUME NEW S, NEW s \in Seq(S), NEW t \in Seq(S), NEW d \in 1 .. Len(s) + 1,
         Same(s, t, FALSE, d), \A e \in d + 1 .. Len(s) + 1 : Same(s, t, TRUE, e),
         AndTheRest(Parser(s), Parser(s)[<<FALSE, d>>]).got = "sexp",
         AndTheRest(Parser(s), Parser(s)[<<FALSE, d>>]).next <= Len(s)
  PROVE  /\ d < Len(s)
         /\ AndTheRest(Parser(t), Parser(t)[<<FALSE, d>>])
              = AndTheRest(Parser(s), Parser(s)[<<FALSE, d>>])
<1> DEFINE item == Parser(s)[<<FALSE, d>>]
<1> DEFINE rest == Parser(s)[<<TRUE, item.next>>]
<1>0. Len(s) \in Nat
  OBVIOUS
<1>1. item.got = "sexp" /\ rest.got = "sexp" /\ rest.next <= Len(s)
  BY RestIs
<1>2. Follows(s, item, d)
  BY ParserFollows
<1>3. item.next \in d + 1 .. Len(s) + 1
  BY <1>1, <1>2 DEF Follows
<1>4. Follows(s, rest, item.next)
  <2>1. item.next \in 1 .. Len(s) + 1
    BY <1>0, <1>3
  <2> HIDE DEF item
  <2> QED
    BY <2>1, ParserFollows
<1>5. rest.next \in item.next + 1 .. Len(s) + 1
  BY <1>1, <1>4 DEF Follows
<1>6. item.next <= Len(s) /\ d < Len(s)
  BY <1>0, <1>1, <1>3, <1>5
<1>7. Parser(t)[<<FALSE, d>>] = item
  BY <1>1, <1>6 DEF Same
<1>8. Parser(t)[<<TRUE, item.next>>] = rest
  <2>1. Same(s, t, TRUE, item.next)
    BY <1>3
  <2> QED
    BY <2>1, <1>1 DEF Same
<1>9. AndTheRest(Parser(t), item) = AndTheRest(Parser(s), item)
  BY <1>8, RestSame
<1> QED
  BY <1>6, <1>7, <1>9

(* One step of ParseNext reads the same in a longer text.                    *)
LEMMA NextSame ==
  ASSUME NEW S, NEW s \in Seq(S), NEW t \in Seq(S), Begins(t, s),
         NEW b \in BOOLEAN, NEW a \in 1 .. Len(s) + 1,
         \A c \in BOOLEAN, d \in 1 .. Len(s) + 1 : Rank(s, c, d) < Rank(s, b, a) => Same(s, t, c, d)
  PROVE  Same(s, t, b, a)
<1> DEFINE P == Parser(s)
<1> DEFINE Q == Parser(t)
<1> DEFINE i == SkipWhitespace(s, a)
<1> SUFFICES ASSUME P[<<b, a>>].got = "sexp", P[<<b, a>>].next <= Len(s)
             PROVE  Q[<<b, a>>] = P[<<b, a>>]
  BY DEF Same
<1>0. Len(s) \in Nat /\ Len(t) \in Nat /\ Len(s) <= Len(t) /\ a \in 1 .. Len(t) + 1
  BY DEF Begins
<1>1. i \in a .. Len(s) /\ i \in 1 .. Len(s)
  BY <1>0, SkippedWithin
<1>2. SkipWhitespace(t, a) = i
  BY <1>0, <1>1, SkippedSame
<1>3. P[<<b, a>>] = ParseNext(P, s, b, a)
  BY ParserIs
<1>4. Q[<<b, a>>] = ParseNext(Q, t, b, a)
  BY <1>0, ParserIs
<1>5. At(t, i) = At(s, i)
  BY <1>1, AtSame
<1>6. \A d \in a + 1 .. Len(s) + 1 : Same(s, t, TRUE, d)
  <2> SUFFICES ASSUME NEW d \in a + 1 .. Len(s) + 1 PROVE Same(s, t, TRUE, d)
    OBVIOUS
  <2>1. Rank(s, TRUE, d) < Rank(s, b, a) /\ d \in 1 .. Len(s) + 1
    BY <1>0 DEF Rank
  <2> QED
    BY <2>1
<1>7. ASSUME b = TRUE, NEW d \in a .. Len(s) + 1
      PROVE  Same(s, t, FALSE, d) /\ d \in 1 .. Len(s) + 1
  <2>1. Rank(s, FALSE, d) < Rank(s, b, a) /\ d \in 1 .. Len(s) + 1
    BY <1>0, <1>7 DEF Rank
  <2> QED
    BY <2>1
<1> HIDE DEF P, Q, i
<1>8. CASE b = TRUE
  <2>1. P[<<b, a>>] = ParseItems(P, s, i) /\ Q[<<b, a>>] = ParseItems(Q, t, i)
    BY <1>2, <1>3, <1>4, <1>8 DEF ParseNext, i
  <2>2. ASSUME NEW d \in a .. Len(s) + 1, P[<<b, a>>] = AndTheRest(P, P[<<FALSE, d>>])
        PROVE  d < Len(s) /\ AndTheRest(Q, Q[<<FALSE, d>>]) = AndTheRest(P, P[<<FALSE, d>>])
    <3>1. Same(s, t, FALSE, d) /\ d \in 1 .. Len(s) + 1
      BY <1>7, <1>8
    <3>2. \A e \in d + 1 .. Len(s) + 1 : Same(s, t, TRUE, e)
      <4> SUFFICES ASSUME NEW e \in d + 1 .. Len(s) + 1 PROVE Same(s, t, TRUE, e)
        OBVIOUS
      <4>1. e \in a + 1 .. Len(s) + 1
        BY <1>0
      <4> QED
        BY <4>1, <1>6
    <3>3. /\ AndTheRest(Parser(s), Parser(s)[<<FALSE, d>>]).got = "sexp"
          /\ AndTheRest(Parser(s), Parser(s)[<<FALSE, d>>]).next <= Len(s)
      BY <2>2 DEF P
    <3>4. d < Len(s)
      BY <3>1, <3>2, <3>3, RestSameWithin
    <3>5. AndTheRest(Parser(t), Parser(t)[<<FALSE, d>>])
            = AndTheRest(Parser(s), Parser(s)[<<FALSE, d>>])
      BY <3>1, <3>2, <3>3, RestSameWithin
    <3> QED
      BY <3>4, <3>5 DEF P, Q
  <2>3. CASE At(s, i) = ")"
    BY <2>1, <2>3, <1>5 DEF ParseItems
  <2>4. CASE At(s, i) = "." /\ IsSpace(At(s, i + 1))
    <3>1. i + 1 \in 1 .. Len(s) /\ i + 2 \in a + 1 .. Len(s) + 1
      BY <2>4, <1>0, <1>1, NotSpace DEF At
    <3>2. At(t, i + 1) = At(s, i + 1)
      BY <3>1, AtSame
    <3>3. P[<<b, a>>] = Dotted(P[<<TRUE, i + 2>>]) /\ Q[<<b, a>>] = Dotted(Q[<<TRUE, i + 2>>])
      BY <2>1, <2>4, <3>2, <1>5 DEF ParseItems
    <3>4. P[<<TRUE, i + 2>>].got = "sexp" /\ P[<<TRUE, i + 2>>].next <= Len(s)
      BY <3>3 DEF Dotted, InList
    <3>5. Same(s, t, TRUE, i + 2)
      BY <3>1, <1>6
    <3> QED
      BY <3>3, <3>4, <3>5 DEF Same, P, Q
  <2>5. CASE At(s, i) = "." /\ ~IsSpace(At(s, i + 1))
    <3>1. P[<<b, a>>] = AndTheRest(P, P[<<FALSE, i + 1>>])
      BY <2>1, <2>5 DEF ParseItems
    <3>2. i + 1 \in a .. Len(s) + 1
      BY <1>0, <1>1
    <3>3. i + 1 < Len(s) /\ AndTheRest(Q, Q[<<FALSE, i + 1>>]) = AndTheRest(P, P[<<FALSE, i + 1>>])
      BY <2>2, <3>1, <3>2
    <3>4. At(t, i + 1) = At(s, i + 1)
      <4>1. i + 1 \in 1 .. Len(s)
        BY <3>3, <1>0, <1>1
      <4> QED
        BY <4>1, AtSame
    <3>5. Q[<<b, a>>] = AndTheRest(Q, Q[<<FALSE, i + 1>>])
      BY <2>1, <2>5, <3>4, <1>5 DEF ParseItems
    <3> QED
      BY <3>1, <3>3, <3>5
  <2>6. CASE At(s, i) \notin {")", "."}
    <3>1. P[<<b, a>>] = AndTheRest(P, P[<<FALSE, i>>]) /\ Q[<<b, a>>] = AndTheRest(Q, Q[<<FALSE, i>>])
      BY <2>1, <2>6, <1>5 DEF ParseItems
    <3>2. i \in a .. Len(s) + 1
      BY <1>0, <1>1
    <3> QED
      BY <2>2, <3>1, <3>2
  <2> QED
    BY <2>3, <2>4, <2>5, <2>6
<1>9. CASE b = FALSE
  <2>1. P[<<b, a>>] = ParseSexp(P, s, i) /\ Q[<<b, a>>] = ParseSexp(Q, t, i)
    BY <1>2, <1>3, <1>4, <1>9 DEF ParseNext, i
  <2>2. CASE At(s, i) = "("
    <3>1. i + 1 \in a + 1 .. Len(s) + 1
      BY <1>0, <1>1
    <3>2. P[<<b, a>>] = ParseList(P[<<TRUE, i + 1>>]) /\ Q[<<b, a>>] = ParseList(Q[<<TRUE, i + 1>>])
      BY <2>1, <2>2, <1>5 DEF ParseSexp, NUL
    <3>3. P[<<TRUE, i + 1>>].got = "sexp" /\ P[<<TRUE, i + 1>>].next <= Len(s)
      BY <3>2 DEF ParseList, Got
    <3>4. Same(s, t, TRUE, i + 1)
      BY <3>1, <1>6
    <3> QED
      BY <3>2, <3>3, <3>4 DEF Same, P, Q
  <2>3. ASSUME NEW delimiter, delimiter \in {"\"", "|"}, At(s, i) = delimiter
        PROVE  Q[<<b, a>>] = P[<<b, a>>]
    <3> DEFINE R == Reader(s, {delimiter}, Nothing)[i + 1]
    <3>1. delimiter # NUL
      BY <2>3 DEF NUL
    <3>2. /\ P[<<b, a>>] = FillWithDelimitedString(Delimited(s, i + 1, delimiter), delimiter)
          /\ Q[<<b, a>>] = FillWithDelimitedString(Delimited(t, i + 1, delimiter), delimiter)
      BY <2>1, <2>3, <1>5 DEF ParseSexp, NUL
    <3>3. R.got = "sexp" /\ P[<<b, a>>].next = R.next + 1 /\ P[<<b, a>>].next \in i + 1 .. Len(s) + 1
      BY <1>1, <3>1, <3>2, DelimitedFollows
    <3>4. i + 1 \in 1 .. Len(s) + 1 /\ Nothing.got # "sexp"
      BY <1>0, <1>1 DEF Nothing
    <3>5. R.next <= Len(s)
      <4>1. EndsAt(s, {delimiter}, R, i + 1)
        BY <3>4, ReaderEnds
      <4>2. R.next \in Nat
        BY <3>3, <4>1, <1>0, <1>1 DEF EndsAt
      <4> QED
        BY <3>3, <4>2, <1>0
    <3>6. Reader(t, {delimiter}, Nothing)[i + 1] = R
      BY <3>3, <3>4, <3>5, ReaderSame
    <3>7. Delimited(t, i + 1, delimiter) = Delimited(s, i + 1, delimiter)
      BY <3>6 DEF Delimited, Characters
    <3> QED
      BY <3>2, <3>7
  <2>4. CASE At(s, i) = NUL
    <3>1. ParseSexp(P, s, i) = Nothing
      BY <2>4 DEF ParseSexp, NUL
    <3> QED
      BY <2>1, <3>1 DEF Nothing
  <2>5. CASE At(s, i) \notin {"(", "\"", "|", NUL}
    <3> DEFINE ends == {" ", "\t", "\n", "\r", ")", NUL}
    <3>1. /\ P[<<b, a>>] = ParseUnquotedToken(Token(s, i), s, i)
          /\ Q[<<b, a>>] = ParseUnquotedToken(Token(t, i), t, i)
      BY <2>1, <2>5, <1>5 DEF ParseSexp
    <3>2. i \in 1 .. Len(s) + 1 /\ Dead.got # "sexp"
      BY <1>0, <1>1 DEF Dead
    <3>8. Token(s, i) = Reader(s, ends, Dead)[i] /\ Token(t, i) = Reader(t, ends, Dead)[i]
      BY DEF Token, Characters
    <3> HIDE DEF ends
    <3>3. EndsAt(s, ends, Token(s, i), i)
      BY <3>2, <3>8, ReaderEnds
    <3>9. ParseUnquotedToken(Token(s, i), s, i).got = "sexp"
      BY <3>1
    <3>4. /\ Token(s, i).got = "sexp" /\ Token(s, i).next = P[<<b, a>>].next
          /\ P[<<b, a>>].next \in i + 1 .. Len(s) + 1
      BY <3>1, <3>2, <3>3, <3>9, TokenFollows
    <3>5. Token(s, i).next \in i .. Len(s)
      BY <3>4, <1>0, <1>1
    <3>6. Token(t, i) = Token(s, i)
      <4>1. Reader(s, ends, Dead)[i].got = "sexp" /\ Reader(s, ends, Dead)[i].next <= Len(s)
        BY <3>4, <3>5, <3>8, <1>0
      <4> QED
        BY <3>2, <3>8, <4>1, ReaderSame
    <3>7. ParseUnquotedToken(Token(s, i), t, i) = ParseUnquotedToken(Token(s, i), s, i)
      BY <3>5, <1>1, TokenSame
    <3> QED
      BY <3>1, <3>6, <3>7
  <2> QED
    BY <2>2, <2>3, <2>4, <2>5
<1> QED
  BY <1>8, <1>9

(* What is behind an expression does not change what is read.                *)
LEMMA ParsePrefix ==
  ASSUME NEW S, NEW s \in Seq(S), NEW t \in Seq(S), Begins(t, s),
         Parse(s).got = "sexp", Parse(s).next <= Len(s)
  PROVE  Parse(t) = Parse(s)
<1> DEFINE Good == {k \in Nat : \A c \in BOOLEAN, d \in 1 .. Len(s) + 1 :
                      Rank(s, c, d) < k => Same(s, t, c, d)}
<1>0. Len(s) \in Nat
  OBVIOUS
<1>1. 0 \in Good
  BY <1>0, RankNat
<1>2. ASSUME NEW k \in Nat, k \in Good PROVE k + 1 \in Good
  <2> SUFFICES ASSUME NEW c \in BOOLEAN, NEW d \in 1 .. Len(s) + 1, Rank(s, c, d) < k + 1
               PROVE  Same(s, t, c, d)
    OBVIOUS
  <2>1. ASSUME NEW x \in BOOLEAN, NEW y \in 1 .. Len(s) + 1, Rank(s, x, y) < Rank(s, c, d)
        PROVE  Same(s, t, x, y)
    <3>1. Rank(s, x, y) \in Nat /\ Rank(s, c, d) \in Nat
      BY <1>0, RankNat
    <3>2. Rank(s, x, y) < k
      BY <2>1, <3>1
    <3> QED
      BY <1>2, <3>2
  <2> QED
    BY <2>1, NextSame
<1> HIDE DEF Good
<1>3. 2 * Len(s) + 2 \in Nat /\ 2 * Len(s) + 2 \in Good
  BY <1>0, <1>1, <1>2, AllNumbers
<1>4. 1 \in 1 .. Len(s) + 1 /\ Rank(s, FALSE, 1) < 2 * Len(s) + 2
  BY <1>0 DEF Rank
<1>5. Same(s, t, FALSE, 1)
  BY <1>3, <1>4 DEF Good
<1> QED
  BY <1>5 DEF Same, Parse

-----------------------------------------------------------------------------
(* The types of the variables, and what the texts, jobs and connections of a *)
(* session have to do with each other.                                       *)

(* The line of a question, what the mixer makes of a line, and what it sends *)
(* the server.                                                               *)
LineOf(q) == MakeCommand(q) \o <<"\r", "\n">>
(* What the mixer understands of a line.                                     *)
Understanding(line) == MixerExecute(Parse(Front(line)))
(* What it sends the server for it.                                          *)
Again(line) == Append(Understanding(line).text, "\n")

(* A sequence.                                                               *)
IsSeq(s) == s \in Seq(Range(s))

(* What a connection brings, from whom.                                      *)
Brings(u, conn) ==
  /\ conn.id \in Nat \ {0}
  /\ \/ /\ conn.from = "client" /\ ~u.useMixer
        /\ \E q \in Range(u.questions) : conn.data = LineOf(q)
     \/ /\ conn.from = "mixer" /\ u.useMixer
        /\ \E q \in Range(u.questions) : Forwarded(q).got = "request" /\ conn.data = Written(q)
     \/ conn.from = "stranger" /\ conn.data \in UNION Range(StrangeTexts)

(* A server: what it has taken in is what its connection brought.            *)
ServerOK(u, s) ==
  /\ DOMAIN s = {"pc", "conn", "queue", "buf", "cut", "table", "held"}
  /\ s.pc \in {"accept", "output", "died", "down"}
  /\ IsSeq(s.queue) /\ \A conn \in Range(s.queue) : Brings(u, conn)
  /\ s.conn = Nobody \/ Brings(u, s.conn)
  /\ IsSeq(s.buf) /\ {s.table, s.held} \subseteq HeldTables
  /\ s.pc \in {"output", "died"} => Brings(u, s.conn)

(* What a server executed is what the query says by itself, if it closes the *)
(* comment it opens.                                                         *)
Taken(s) ==
  (s.pc \in {"output", "died"} /\ ~s.cut) =>
    /\ IsPrefix(Command(s.conn.data), UpToNUL(s.buf))
    /\ Closed(Command(s.conn.data)) =>
         \A held \in HeldTables : Execute(s.buf, held) = Execute(Command(s.conn.data), held)

(* The fields of a job of the mixer.                                         *)
Shape(job) == DOMAIN job = {"id", "pc", "line", "rpc", "local", "held", "cut", "answer"}

(* A job of the mixer: it came from a question of the user, and waits for a  *)
(* server only while its pc says so.                                         *)
JobOK(u, job) ==
  /\ Shape(job) /\ job.id \in Nat \ {0} /\ job.rpc \in Nat
  /\ job.pc \in {"line", "rpc", "mixed"} /\ (job.pc # "rpc" => job.rpc = 0)
  /\ u.useMixer /\ \E q \in Range(u.questions) : job.line = LineOf(q)

(* A call of the client: it has a number exactly while it waits.             *)
CallOK(u, c) ==
  /\ DOMAIN c = {"pc", "question", "id", "retries", "outcome", "held", "cut"}
  /\ c.pc \in {"idle", "connect", "wait", "done"}
  /\ IF c.pc = "wait" THEN c.id \in Nat \ {0} ELSE c.id = 0
  /\ c.pc # "idle" => c.question \in Range(u.questions)

(* The mixer.                                                                *)
MixerOK(u, m) ==
  /\ DOMAIN m = {"pc", "local", "jobs"} /\ m.local \in BOOLEAN
  /\ IsFiniteSet(m.jobs) /\ \A job \in m.jobs : JobOK(u, job)

(* The servers.                                                              *)
ServersOK(u, all) ==
  /\ DOMAIN all = Range(Hosts) /\ all = [h \in Range(Hosts) |-> all[h]]
  /\ \A h \in Range(Hosts) : ServerOK(u, all[h])

(* The counters that bound the runs.                                         *)
CountOK(u, c) == c.calls \in 0 .. Len(u.questions) /\ DOMAIN c = {"calls", "strangers", "crashes"}

(* The types of all variables, and where the texts on the connections come   *)
(* from.                                                                     *)
TypeOK ==
  /\ user \in Users /\ CallOK(user, call) /\ MixerOK(user, mixer) /\ ServersOK(user, server)
  /\ IsFiniteSet(strangers) /\ CountOK(user, count)

(* ... and no request of gtags.py ends it.                                   *)
Harmless(s) == s.pc = "died" => s.cut \/ s.conn.from = "stranger"
(* A server that executed what it should, and that was ended by the request  *)
(* of a stranger or by a part of one only.                                   *)
Sound(s) == Taken(s) /\ (RequestsAreUsable => Harmless(s))

(* All servers are sound.                                                    *)
AllSound(u, all) == ServersOK(u, all) /\ \A h \in Range(Hosts) : Sound(all[h])

(* The connections of a server, served or waiting.                           *)
Conns(s) == Range(s.queue) \cup {s.conn}

(* The numbers of connections tell whose they are.                           *)
Linked ==
  /\ \A h \in Range(Hosts) : \A conn \in Conns(server[h]) :
       /\ (conn.from = "client" /\ conn.id = call.id) => conn.data = Line
       /\ \A job \in mixer.jobs :
            (conn.from = "mixer" /\ conn.id = job.rpc) => conn.data = Again(job.line)
  /\ \A job \in mixer.jobs : job.id = call.id => job.line = Line

(* The part of an answer that the mixer's local index gave.                  *)
Mine(job) ==
  \E local \in BOOLEAN :
    /\ job.local = LocalPart(Understanding(job.line), local).text
    /\ job.held = LocalPart(Understanding(job.line), local).held

(* A job has what an answer to its line needs, and then the answer.          *)
RightAnswer(u, job) ==
  /\ job.pc = "line" => job.held = <<>>
  /\ job.pc # "mixed" => job.cut = FALSE
  /\ job.pc = "rpc" => Understanding(job.line).got = "request" /\ Mine(job)
  /\ (job.pc = "mixed" /\ ~job.cut) =>
        \A q \in Range(u.questions) : job.line = LineOf(q) =>
           IsAnswer(Returned(q, job.answer), q, job.held, TRUE)

-----------------------------------------------------------------------------
(* A new number is one that nothing has.                                     *)

(* Intervals are finite.                                                     *)
LEMMA Interval == ASSUME NEW n \in Nat PROVE IsFiniteSet(1 .. n) /\ Cardinality(1 .. n) = n
BY FS_Interval

(* A sequence has finitely many elements.                                    *)
LEMMA RangeFinite ==
  ASSUME NEW S, NEW s \in Seq(S)
  PROVE  IsFiniteSet(Range(s))
<1>1. Len(s) \in Nat /\ s \in [1 .. Len(s) -> S] /\ DOMAIN s = 1 .. Len(s)
  BY LenProperties
<1>2. s \in Surjection(1 .. Len(s), Range(s))
  BY <1>1 DEF Range, Surjection
<1>3. IsFiniteSet(1 .. Len(s))
  BY <1>1, Interval
<1> QED
  BY <1>2, <1>3, FS_Surjection

(* A function on a finite set has finitely many values.                      *)
LEMMA FunFinite ==
  ASSUME NEW S, IsFiniteSet(S), NEW f, DOMAIN f = S, f = [x \in S |-> f[x]]
  PROVE  IsFiniteSet({f[x] : x \in S})
<1>1. f \in Surjection(S, {f[x] : x \in S})
  BY DEF Surjection
<1> QED
  BY <1>1, FS_Surjection

(* A union of finitely many finite sets.                                     *)
LEMMA UnionFinite ==
  ASSUME NEW n \in Nat, NEW f, \A i \in 1 .. n : IsFiniteSet(f[i])
  PROVE  IsFiniteSet(UNION {f[i] : i \in 1 .. n})
<1> DEFINE U(k) == UNION {f[i] : i \in 1 .. k}
<1> DEFINE Good == {k \in Nat : k <= n => IsFiniteSet(U(k))}
<1>1. 0 \in Good
  <2>1. U(0) = {}
    OBVIOUS
  <2> QED
    BY <2>1, FS_EmptySet
<1>2. ASSUME NEW k \in Nat, k \in Good PROVE k + 1 \in Good
  <2> SUFFICES ASSUME k + 1 <= n PROVE IsFiniteSet(U(k + 1))
    OBVIOUS
  <2>1. U(k + 1) = U(k) \cup f[k + 1]
    <3>1. ASSUME NEW x \in U(k + 1) PROVE x \in U(k) \cup f[k + 1]
      OBVIOUS
    <3>2. ASSUME NEW x \in U(k) \cup f[k + 1] PROVE x \in U(k + 1)
      OBVIOUS
    <3> HIDE DEF U
    <3> QED
      BY <3>1, <3>2
  <2>2. IsFiniteSet(U(k)) /\ IsFiniteSet(f[k + 1])
    BY <1>2
  <2> HIDE DEF U
  <2> QED
    <3>1. IsFiniteSet(U(k) \cup f[k + 1])
      BY <2>2, FS_Union
    <3> QED
      BY <2>1, <3>1
<1> HIDE DEF U
<1>3. n \in Good
  <2> HIDE DEF Good
  <2> QED
    BY <1>1, <1>2, AllNumbers
<1>4. IsFiniteSet(U(n))
  BY <1>3
<1> QED
  BY <1>4 DEF U

(* There is always a number that is not used.                                *)
LEMMA LeastFree ==
  ASSUME NEW used, IsFiniteSet(used)
  PROVE  LET free == (1 .. Cardinality(used) + 1) \ used
             id == CHOOSE n \in free : \A other \in free : n <= other
         IN id \in Nat \ {0} /\ id \notin used
<1> DEFINE k == Cardinality(used)
<1> DEFINE free == (1 .. k + 1) \ used
<1>1. k \in Nat /\ k + 1 \in Nat
  BY FS_CardinalityType
<1>2. free # {}
  <2> SUFFICES ASSUME 1 .. k + 1 \subseteq used PROVE FALSE
    OBVIOUS
  <2>1. Cardinality(1 .. k + 1) = k + 1
    BY <1>1, Interval
  <2>2. Cardinality(1 .. k + 1) <= k
    BY FS_Subset
  <2> HIDE DEF k
  <2> QED
    BY <2>1, <2>2, <1>1
<1>3. free \in SUBSET Nat /\ free \subseteq 1 .. k + 1 /\ free \cap used = {}
  BY <1>1
<1> HIDE DEF free
<1>4. \E n \in free : \A other \in free : n <= other
  BY <1>2, <1>3, LeastExists
<1> DEFINE id == CHOOSE n \in free : \A other \in free : n <= other
<1>5. id \in free
  BY <1>4
<1>7. id \in Nat \ {0} /\ id \notin used
  <2> HIDE DEF id
  <2> QED
    BY <1>1, <1>3, <1>5
<1> QED
  BY <1>7 DEF free

(* The connections that wait have finitely many numbers.                     *)
LEMMA QueueIds ==
  ASSUME TypeOK, NEW h \in Range(Hosts)
  PROVE  IsFiniteSet({conn.id : conn \in Range(server[h].queue)})
<1> DEFINE Q == Range(server[h].queue)
<1> DEFINE f == [conn \in Q |-> conn.id]
<1>1. IsFiniteSet(Q)
  BY RangeFinite DEF TypeOK, ServersOK, ServerOK, IsSeq
<1>2. f \in Surjection(Q, {conn.id : conn \in Q})
  BY DEF Surjection
<1> HIDE DEF Q, f
<1>3. IsFiniteSet({conn.id : conn \in Q})
  BY <1>1, <1>2, FS_Surjection
<1> QED
  BY <1>3 DEF Q

(* The jobs of the mixer have finitely many numbers.                         *)
LEMMA JobIds ==
  ASSUME TypeOK
  PROVE  IsFiniteSet({job.id : job \in mixer.jobs}) /\ IsFiniteSet({job.rpc : job \in mixer.jobs})
<1> DEFINE J == mixer.jobs
<1> DEFINE f == [job \in J |-> job.id]
<1> DEFINE g == [job \in J |-> job.rpc]
<1>1. IsFiniteSet(J)
  BY DEF TypeOK, MixerOK
<1>2. f \in Surjection(J, {job.id : job \in J}) /\ g \in Surjection(J, {job.rpc : job \in J})
  BY DEF Surjection
<1> HIDE DEF J, f, g
<1>3. IsFiniteSet({job.id : job \in J})
  BY <1>1, <1>2, FS_Surjection
<1>4. IsFiniteSet({job.rpc : job \in J})
  BY <1>1, <1>2, FS_Surjection
<1> QED
  BY <1>3, <1>4 DEF J

(* The connections of all servers have finitely many numbers.                *)
LEMMA ServerIds ==
  ASSUME TypeOK
  PROVE  /\ IsFiniteSet({server[h].conn.id : h \in Range(Hosts)})
         /\ IsFiniteSet(UNION {{conn.id : conn \in Range(server[h].queue)} : h \in Range(Hosts)})
<1> DEFINE H == Range(Hosts)
<1> DEFINE f == [h \in H |-> server[h].conn.id]
<1> DEFINE g == [i \in 1 .. Len(Hosts) |-> {conn.id : conn \in Range(server[Hosts[i]].queue)}]
<1> DEFINE Ids(h) == {conn.id : conn \in Range(server[h].queue)}
<1>0. Hosts \in Seq(Range(Hosts)) /\ Len(Hosts) \in Nat /\ DOMAIN Hosts = 1 .. Len(Hosts)
  BY SessionAssumption
<1>1. IsFiniteSet(H)
  BY <1>0, RangeFinite
<1>2. f \in Surjection(H, {server[h].conn.id : h \in H})
  BY DEF Surjection
<1>3. IsFiniteSet({server[h].conn.id : h \in H})
  <2> HIDE DEF H, f
  <2> QED
    BY <1>1, <1>2, FS_Surjection
<1>4. \A i \in 1 .. Len(Hosts) : IsFiniteSet(g[i])
  <2> SUFFICES ASSUME NEW i \in 1 .. Len(Hosts) PROVE IsFiniteSet(g[i])
    OBVIOUS
  <2>1. Hosts[i] \in Range(Hosts)
    BY <1>0 DEF Range
  <2>2. IsFiniteSet(Ids(Hosts[i]))
    BY <2>1, QueueIds
  <2> QED
    BY <2>2
<1>5. IsFiniteSet(UNION {g[i] : i \in 1 .. Len(Hosts)})
  <2> HIDE DEF g
  <2> QED
    BY <1>0, <1>4, UnionFinite
<1>6. UNION {g[i] : i \in 1 .. Len(Hosts)} = UNION {Ids(h) : h \in H}
  <2>1. \A i \in 1 .. Len(Hosts) : g[i] = Ids(Hosts[i])
    OBVIOUS
  <2> HIDE DEF g, Ids
  <2> QED
    BY <1>0, <2>1 DEF Range
<1> QED
  BY <1>3, <1>5, <1>6

(* A new connection has a number of its own.                                 *)
LEMMA NewIdFresh ==
  ASSUME TypeOK
  PROVE  /\ NewId \in Nat \ {0} /\ NewId # call.id
         /\ \A job \in mixer.jobs : job.id # NewId /\ job.rpc # NewId
         /\ \A h \in Range(Hosts) : \A conn \in Conns(server[h]) : conn.id # NewId
<1> DEFINE A == {job.id : job \in mixer.jobs}
<1> DEFINE B == {job.rpc : job \in mixer.jobs}
<1> DEFINE C == {server[h].conn.id : h \in Range(Hosts)}
<1> DEFINE D == UNION {{conn.id : conn \in Range(server[h].queue)} : h \in Range(Hosts)}
<1> DEFINE used == {call.id} \cup strangers \cup A \cup B \cup C \cup D
<1>1. IsFiniteSet(used)
  <2>1. IsFiniteSet(A) /\ IsFiniteSet(B) /\ IsFiniteSet(C) /\ IsFiniteSet(D)
    BY JobIds, ServerIds
  <2>2. IsFiniteSet({call.id}) /\ IsFiniteSet(strangers)
    BY FS_Singleton DEF TypeOK
  <2> HIDE DEF A, B, C, D
  <2>3. IsFiniteSet({call.id} \cup strangers)
    BY <2>2, FS_Union
  <2>4. IsFiniteSet({call.id} \cup strangers \cup A)
    BY <2>1, <2>3, FS_Union
  <2>5. IsFiniteSet({call.id} \cup strangers \cup A \cup B)
    BY <2>1, <2>4, FS_Union
  <2>6. IsFiniteSet({call.id} \cup strangers \cup A \cup B \cup C)
    BY <2>1, <2>5, FS_Union
  <2> QED
    BY <2>1, <2>6, FS_Union
<1>2. NewId \in Nat \ {0} /\ NewId \notin used
  <2> DEFINE free == (1 .. Cardinality(used) + 1) \ used
  <2> DEFINE id == CHOOSE n \in free : \A other \in free : n <= other
  <2>1. NewId = id
    BY DEF NewId
  <2>2. id \in Nat \ {0} /\ id \notin used
    <3> HIDE DEF used
    <3> QED
      BY <1>1, LeastFree
  <2> HIDE DEF used, id
  <2> QED
    BY <2>1, <2>2
<1> DEFINE id == NewId
<1> HIDE DEF id
<1>3. id \in Nat \ {0} /\ id \notin used
  BY <1>2 DEF id
<1>4. id # call.id /\ \A job \in mixer.jobs : job.id # id /\ job.rpc # id
  BY <1>3
<1>5. ASSUME NEW h \in Range(Hosts), NEW conn \in Conns(server[h]) PROVE conn.id # id
  <2>1. CASE conn = server[h].conn
    BY <1>3, <2>1
  <2>2. CASE conn \in Range(server[h].queue)
    BY <1>3, <2>2
  <2> QED
    BY <1>5, <2>1, <2>2 DEF Conns
<1> QED
  BY <1>3, <1>4, <1>5 DEF id

-----------------------------------------------------------------------------
(* What a server finds in its buffer: the request that came, up to the NUL   *)
(* that took the place of its \r, or, for a line without one, also what is   *)
(* left of earlier requests.                                                 *)

(* A text cut behind its end is the text.                                    *)
LEMMA WholeSub ==
  ASSUME NEW S, NEW s \in Seq(S)
  PROVE  SubSeq(s, 1, Len(s)) = s
BY SubSeqFull

(* A part of a sequence from its start.                                      *)
LEMMA StartOf ==
  ASSUME NEW S, NEW s \in Seq(S), NEW n \in 0 .. Len(s)
  PROVE  /\ SubSeq(s, 1, n) \in Seq(S) /\ Len(SubSeq(s, 1, n)) = n
         /\ \A i \in 1 .. n : SubSeq(s, 1, n)[i] = s[i]
<1>1. Len(s) \in Nat /\ \A i \in 1 .. n : s[i] \in S
  BY ElementOfSeq
<1> QED
  BY <1>1, SubSeqProperties

(* The string ends before the first NUL, or with the buffer.                 *)
LEMMA UpTo ==
  ASSUME NEW S, NEW buf \in Seq(S)
  PROVE  \E n \in 0 .. Len(buf) :
           /\ UpToNUL(buf) = SubSeq(buf, 1, n)
           /\ \A i \in 1 .. n : buf[i] # NUL
           /\ n < Len(buf) => buf[n + 1] = NUL
<1> DEFINE ends == {i \in DOMAIN buf : buf[i] = NUL}
<1>0. DOMAIN buf = 1 .. Len(buf) /\ Len(buf) \in Nat
  BY LenProperties
<1>1. CASE ends = {}
  <2>1. UpToNUL(buf) = buf
    BY <1>1 DEF UpToNUL
  <2>2. SubSeq(buf, 1, Len(buf)) = buf
    BY WholeSub
  <2>3. \A i \in 1 .. Len(buf) : buf[i] # NUL
    BY <1>0, <1>1
  <2>4. Len(buf) \in 0 .. Len(buf) /\ ~(Len(buf) < Len(buf))
    BY <1>0
  <2> QED
    BY <2>1, <2>2, <2>3, <2>4
<1>2. CASE ends # {}
  <2> DEFINE e == CHOOSE i \in ends : \A j \in ends : i <= j
  <2>1. UpToNUL(buf) = SubSeq(buf, 1, e - 1)
    BY <1>2 DEF UpToNUL
  <2>2. ends \in SUBSET Nat
    BY <1>0
  <2>3. e \in ends /\ \A j \in ends : e <= j
    <3> HIDE DEF ends
    <3>1. \E i \in ends : \A j \in ends : i <= j
      BY <1>2, <2>2, LeastExists
    <3> QED
      BY <3>1
  <2> HIDE DEF e
  <2>4. e \in 1 .. Len(buf) /\ buf[e] = NUL
    BY <1>0, <2>3
  <2>5. e - 1 \in 0 .. Len(buf) /\ (e - 1) + 1 = e
    BY <1>0, <2>4
  <2>6. \A i \in 1 .. e - 1 : buf[i] # NUL
    BY <1>0, <2>3, <2>4
  <2> QED
    BY <2>1, <2>4, <2>5, <2>6
<1> QED
  BY <1>1, <1>2

(* The buffer after some bytes were received: they stand at its begin, but   *)
(* the \r before the last \n became a NUL.                                   *)
LEMMA ReceivedIs ==
  ASSUME NEW S, NUL \in S, NEW buf \in Seq(S), NEW bytes \in Seq(S)
  PROVE  /\ Received(buf, bytes) \in Seq(S) /\ Len(Received(buf, bytes)) >= Len(bytes)
         /\ \A i \in 1 .. Len(bytes) :
              Received(buf, bytes)[i] = IF EndsLine(bytes) /\ i = Len(bytes) - 1 THEN NUL ELSE bytes[i]
<1> DEFINE n == Len(bytes)
<1> DEFINE first == IF EndsLine(bytes) THEN [bytes EXCEPT ![n - 1] = NUL] ELSE bytes
<1> DEFINE rest == SubSeq(buf, n + 1, Len(buf))
<1>0. n \in Nat /\ Len(buf) \in Nat
  OBVIOUS
<1>1. EndsLine(bytes) => n - 1 \in 1 .. n
  BY <1>0 DEF EndsLine
<1>2. /\ first \in Seq(S) /\ Len(first) = n
      /\ \A i \in 1 .. n : first[i] = IF EndsLine(bytes) /\ i = n - 1 THEN NUL ELSE bytes[i]
  <2>1. CASE EndsLine(bytes)
    BY <1>1, <2>1, ExceptSeq
  <2>2. CASE ~EndsLine(bytes)
    BY <2>2
  <2> QED
    BY <2>1, <2>2
<1>3. rest \in Seq(S)
  <2>1. \A i \in n + 1 .. Len(buf) : buf[i] \in S
    BY <1>0, ElementOfSeq
  <2> QED
    BY <1>0, <2>1, SubSeqProperties
<1>4. Received(buf, bytes) = first \o rest
  BY DEF Received
<1> HIDE DEF first, rest
<1>5. /\ first \o rest \in Seq(S) /\ Len(first \o rest) = Len(first) + Len(rest)
      /\ \A i \in 1 .. Len(first) + Len(rest) :
           (first \o rest)[i] = IF i <= Len(first) THEN first[i] ELSE rest[i - Len(first)]
  <2>1. first \in Seq(S) /\ rest \in Seq(S)
    BY <1>2, <1>3
  <2> QED
    BY ONLY <2>1, ConcatProperties
<1>6. Len(rest) \in Nat
  BY <1>3
<1>7. \A i \in 1 .. n : (first \o rest)[i] = first[i]
  <2> HIDE DEF n
  <2> QED
    BY <1>0, <1>2, <1>5, <1>6
<1> QED
  BY <1>0, <1>2, <1>4, <1>5, <1>6, <1>7

(* A line: what follows its end is not seen.                                 *)
LEMMA Stripped ==
  ASSUME NEW buf, IsSeq(buf), NEW data, IsText(data), EndsLine(data)
  PROVE  UpToNUL(Received(buf, data)) = Command(data)
<1> DEFINE S == Range(buf) \cup Range(data) \cup {NUL}
<1> DEFINE R == Received(buf, data)
<1> DEFINE n == Len(data)
<1>0. NUL \in S /\ buf \in Seq(S) /\ data \in Seq(S)
  BY SeqMonotonic DEF IsSeq, IsText
<1>1. n \in Nat /\ n >= 2 /\ \A i \in 1 .. n : data[i] # NUL
  <2>1. data \in Seq(Range(data)) /\ DOMAIN data = 1 .. n /\ n \in Nat
    BY DEF IsText
  <2>2. \A i \in DOMAIN data : data[i] \in Range(data)
    BY DEF Range
  <2> QED
    BY <2>1, <2>2 DEF EndsLine, IsText
<1> HIDE DEF S
<1>2. R \in Seq(S) /\ Len(R) >= n /\ Len(R) \in Nat
  BY <1>0, ReceivedIs
<1>3. \A i \in 1 .. n : R[i] = IF i = n - 1 THEN NUL ELSE data[i]
  BY <1>0, ReceivedIs
<1> HIDE DEF R
<1>4. PICK m \in 0 .. Len(R) : /\ UpToNUL(R) = SubSeq(R, 1, m)
                               /\ \A i \in 1 .. m : R[i] # NUL
                               /\ m < Len(R) => R[m + 1] = NUL
  BY <1>2, UpTo
<1>5. m = n - 2
  <2>1. R[n - 1] = NUL
    BY <1>1, <1>3
  <2>2. ~(m >= n - 1)
    BY <1>1, <1>4, <2>1
  <2>3. ~(m < n - 2)
    <3> SUFFICES ASSUME m < n - 2 PROVE FALSE
      OBVIOUS
    <3>1. m + 1 \in 1 .. n /\ m + 1 # n - 1 /\ m < Len(R)
      BY <1>1, <1>2
    <3> QED
      BY <1>1, <1>3, <1>4, <3>1
  <2> QED
    BY <1>1, <1>2, <2>2, <2>3
<1>6. SubSeq(R, 1, n - 2) = SubSeq(data, 1, n - 2)
  <2>1. n - 2 \in 0 .. Len(R) /\ n - 2 \in 0 .. Len(data)
    BY <1>1, <1>2
  <2>2. /\ SubSeq(R, 1, n - 2) \in Seq(S) /\ Len(SubSeq(R, 1, n - 2)) = n - 2
        /\ \A i \in 1 .. n - 2 : SubSeq(R, 1, n - 2)[i] = R[i]
    BY <1>2, <2>1, StartOf
  <2>3. /\ SubSeq(data, 1, n - 2) \in Seq(S) /\ Len(SubSeq(data, 1, n - 2)) = n - 2
        /\ \A i \in 1 .. n - 2 : SubSeq(data, 1, n - 2)[i] = data[i]
    BY <1>0, <2>1, StartOf
  <2>4. \A i \in 1 .. n - 2 : R[i] = data[i]
    BY <1>1, <1>3
  <2> QED
    BY <2>2, <2>3, <2>4, SeqEqual
<1> QED
  BY <1>4, <1>5, <1>6 DEF Command, R

(* A line without \r: what follows it is what buf_ had there.                *)
LEMMA Kept ==
  ASSUME NEW buf, IsSeq(buf), NEW data, IsText(data), ~EndsLine(data)
  PROVE  LET t == UpToNUL(Received(buf, data))
             S == Range(buf) \cup Range(data) \cup {NUL}
         IN t \in Seq(S) /\ data \in Seq(S) /\ Begins(t, data) /\ IsPrefix(data, t)
<1> DEFINE S == Range(buf) \cup Range(data) \cup {NUL}
<1> DEFINE R == Received(buf, data)
<1> DEFINE t == UpToNUL(R)
<1> DEFINE n == Len(data)
<1>0. NUL \in S /\ buf \in Seq(S) /\ data \in Seq(S)
  BY SeqMonotonic DEF IsSeq, IsText
<1>1. n \in Nat /\ \A i \in 1 .. n : data[i] # NUL
  <2>1. data \in Seq(Range(data)) /\ DOMAIN data = 1 .. n /\ n \in Nat
    BY DEF IsText
  <2>2. \A i \in DOMAIN data : data[i] \in Range(data)
    BY DEF Range
  <2> QED
    BY <2>1, <2>2 DEF IsText
<1> SUFFICES t \in Seq(S) /\ data \in Seq(S) /\ Begins(t, data) /\ IsPrefix(data, t)
  OBVIOUS
<1> HIDE DEF S
<1>2. R \in Seq(S) /\ Len(R) >= n /\ Len(R) \in Nat
  BY <1>0, ReceivedIs
<1>3. \A i \in 1 .. n : R[i] = data[i]
  BY <1>0, ReceivedIs
<1> HIDE DEF R
<1>4. PICK m \in 0 .. Len(R) : /\ UpToNUL(R) = SubSeq(R, 1, m)
                               /\ \A i \in 1 .. m : R[i] # NUL
                               /\ m < Len(R) => R[m + 1] = NUL
  BY <1>2, UpTo
<1>5. m >= n
  <2> SUFFICES ASSUME m < n PROVE FALSE
    BY <1>1, <1>2
  <2>1. m + 1 \in 1 .. n /\ m < Len(R)
    BY <1>1, <1>2
  <2> QED
    BY <1>1, <1>3, <1>4, <2>1
<1>6. t \in Seq(S) /\ Len(t) = m /\ \A i \in 1 .. m : t[i] = R[i]
  BY <1>2, <1>4, StartOf
<1>7. Begins(t, data)
  BY <1>1, <1>3, <1>5, <1>6 DEF Begins
<1>8. SubSeq(t, 1, n) = data
  <2>1. n \in 0 .. Len(t) /\ \A i \in 1 .. n : t[i] = data[i]
    BY <1>1, <1>7 DEF Begins
  <2> HIDE DEF t
  <2>2. /\ SubSeq(t, 1, n) \in Seq(S) /\ Len(SubSeq(t, 1, n)) = n
        /\ \A i \in 1 .. n : SubSeq(t, 1, n)[i] = t[i]
    BY <1>6, <2>1, StartOf
  <2> QED
    BY <1>0, <2>1, <2>2, SeqEqual
<1>9. IsPrefix(data, t)
  BY <1>0, <1>1, <1>5, <1>6, <1>8, WholeSub DEF IsPrefix
<1> QED
  BY <1>0, <1>6, <1>7, <1>9

-----------------------------------------------------------------------------
(* A C string: the memory up to its NUL. Whoever reads no further executes   *)
(* the same whatever is behind it; OpcodeExecute reads further only when a   *)
(* comment is open.                                                          *)

(* U is the string at the start of a memory.                                 *)
StringOf(U, memory) ==
  /\ Len(U) <= Len(memory)
  /\ \A i \in 1 .. Len(U) : U[i] = memory[i] /\ U[i] # NUL
  /\ Len(U) < Len(memory) => memory[Len(U) + 1] = NUL

(* UpToNUL is the string at the start of a memory, ...                       *)
LEMMA UpToString ==
  ASSUME NEW S, NEW memory \in Seq(S)
  PROVE  UpToNUL(memory) \in Seq(S) /\ StringOf(UpToNUL(memory), memory)
<1>1. PICK n \in 0 .. Len(memory) : /\ UpToNUL(memory) = SubSeq(memory, 1, n)
                                    /\ \A i \in 1 .. n : memory[i] # NUL
                                    /\ n < Len(memory) => memory[n + 1] = NUL
  BY UpTo
<1> DEFINE U == SubSeq(memory, 1, n)
<1>2. U \in Seq(S) /\ Len(U) = n /\ \A i \in 1 .. n : U[i] = memory[i]
  BY StartOf
<1> HIDE DEF U
<1>3. StringOf(U, memory)
  BY <1>1, <1>2 DEF StringOf
<1> QED
  BY <1>1, <1>2, <1>3 DEF U

(* ... and the only one.                                                     *)
LEMMA OneString ==
  ASSUME NEW S, NEW memory \in Seq(S), NEW U \in Seq(S), StringOf(U, memory)
  PROVE  UpToNUL(memory) = U
<1> DEFINE V == UpToNUL(memory)
<1>1. V \in Seq(S) /\ StringOf(V, memory)
  BY UpToString
<1> HIDE DEF V
<1>2. Len(U) \in Nat /\ Len(V) \in Nat /\ Len(memory) \in Nat
  BY <1>1
<1>3. ~(Len(U) < Len(V))
  <2> SUFFICES ASSUME Len(U) < Len(V) PROVE FALSE
    OBVIOUS
  <2>1. Len(U) + 1 \in 1 .. Len(V) /\ Len(U) < Len(memory)
    BY <1>1, <1>2 DEF StringOf
  <2> QED
    BY <1>1, <2>1 DEF StringOf
<1>4. ~(Len(V) < Len(U))
  <2> SUFFICES ASSUME Len(V) < Len(U) PROVE FALSE
    OBVIOUS
  <2>1. Len(V) + 1 \in 1 .. Len(U) /\ Len(V) < Len(memory)
    BY <1>1, <1>2 DEF StringOf
  <2> QED
    BY <1>1, <2>1 DEF StringOf
<1>5. Len(V) = Len(U)
  BY <1>2, <1>3, <1>4
<1>6. \A i \in 1 .. Len(V) : V[i] = U[i]
  BY <1>1, <1>5 DEF StringOf
<1> QED
  BY <1>1, <1>5, <1>6, SeqEqual DEF V

(* A string has no NUL to stop at.                                           *)
LEMMA StringTwice ==
  ASSUME NEW S, NEW memory \in Seq(S)
  PROVE  UpToNUL(UpToNUL(memory)) = UpToNUL(memory)
<1> DEFINE U == UpToNUL(memory)
<1>1. U \in Seq(S) /\ StringOf(U, memory)
  BY UpToString
<1> HIDE DEF U
<1>2. StringOf(U, U)
  BY <1>1 DEF StringOf
<1> QED
  BY <1>1, <1>2, OneString DEF U

(* The string from a later position on, as long as it begins in the string.  *)
LEMMA StringFrom ==
  ASSUME NEW S, NEW memory \in Seq(S), NEW start \in Nat \ {0},
         start <= Len(UpToNUL(memory)) + 1
  PROVE  UpToNUL(SubSeq(memory, start, Len(memory)))
           = UpToNUL(SubSeq(UpToNUL(memory), start, Len(UpToNUL(memory))))
<1> DEFINE U == UpToNUL(memory)
<1> DEFINE M == SubSeq(memory, start, Len(memory))
<1> DEFINE V == SubSeq(U, start, Len(U))
<1>1. U \in Seq(S) /\ StringOf(U, memory) /\ start <= Len(U) + 1
  BY UpToString
<1> HIDE DEF U
<1>2. Len(U) \in Nat /\ Len(memory) \in Nat /\ Len(U) <= Len(memory) /\ start \in Int
  BY <1>1 DEF StringOf
<1>3. /\ M \in Seq(S) /\ Len(M) = Len(memory) - start + 1
      /\ \A i \in 1 .. Len(memory) - start + 1 : M[i] = memory[start + i - 1]
  <2>1. \A i \in start .. Len(memory) : memory[i] \in S
    BY <1>2, ElementOfSeq
  <2> QED
    BY <1>1, <1>2, <2>1, SubSeqProperties
<1>4. /\ V \in Seq(S) /\ Len(V) = Len(U) - start + 1
      /\ \A i \in 1 .. Len(U) - start + 1 : V[i] = U[start + i - 1]
  <2>1. \A i \in start .. Len(U) : U[i] \in S
    BY <1>1, <1>2, ElementOfSeq
  <2> QED
    BY <1>1, <1>2, <2>1, SubSeqProperties
<1> HIDE DEF M, V
<1>5. ASSUME NEW i \in 1 .. Len(V) PROVE V[i] = M[i] /\ V[i] # NUL
  <2>1. start + i - 1 \in 1 .. Len(U) /\ i \in 1 .. Len(memory) - start + 1
    BY <1>2, <1>4
  <2> QED
    BY <1>1, <1>3, <1>4, <2>1 DEF StringOf
<1>6. StringOf(V, M)
  <2>1. Len(V) <= Len(M)
    BY <1>2, <1>3, <1>4
  <2>2. ASSUME Len(V) < Len(M) PROVE M[Len(V) + 1] = NUL
    <3>1. Len(U) < Len(memory) /\ Len(V) + 1 \in 1 .. Len(memory) - start + 1
          /\ start + (Len(V) + 1) - 1 = Len(U) + 1
      BY <1>1, <1>2, <1>3, <1>4, <2>2
    <3> QED
      BY <1>1, <1>3, <3>1 DEF StringOf
  <2> QED
    BY <1>5, <2>1, <2>2 DEF StringOf
<1>7. StringOf(V, V)
  BY <1>4, <1>5 DEF StringOf
<1>8. UpToNUL(M) = V /\ UpToNUL(V) = V
  BY <1>3, <1>4, <1>6, <1>7, OneString
<1> QED
  BY <1>8 DEF M, V, U

(* What is behind a string is not executed, unless a comment is left open.   *)
LEMMA ExecuteString ==
  ASSUME NEW S, NEW memory \in Seq(S), Closed(UpToNUL(memory)), NEW table
  PROVE  Execute(memory, table) = Execute(UpToNUL(memory), table)
<1> DEFINE U == UpToNUL(memory)
<1>1. U \in Seq(S) /\ StringOf(U, memory) /\ UpToNUL(U) = U
  BY UpToString, StringTwice
<1>2. \A start \in Nat \ {0} : start <= Len(U) + 1 =>
        UpToNUL(SubSeq(memory, start, Len(memory))) = UpToNUL(SubSeq(U, start, Len(U)))
  BY StringFrom
<1>3. Closed(U)
  OBVIOUS
<1>4. Execute(memory, table) =
        IF At(memory, 1) = "(" THEN ExecuteQuery(TranslateInput(Parse(U)), table)
                               ELSE OpcodeExecute(memory, table)
  BY DEF Execute
<1> HIDE DEF U
<1>5. Len(U) \in Nat /\ Len(memory) \in Nat /\ DOMAIN U = 1 .. Len(U)
      /\ DOMAIN memory = 1 .. Len(memory) /\ Len(U) <= Len(memory)
  BY <1>1 DEF StringOf
<1>6. At(memory, 1) = At(U, 1)
  <2>1. CASE Len(U) = 0
    <3>1. At(U, 1) = NUL
      BY <1>5, <2>1 DEF At
    <3>2. At(memory, 1) = NUL
      BY <1>1, <1>5, <2>1 DEF At, StringOf
    <3> QED
      BY <3>1, <3>2
  <2>2. CASE Len(U) # 0
    <3>1. 1 \in 1 .. Len(U) /\ 1 \in 1 .. Len(memory)
      BY <1>5, <2>2
    <3> QED
      BY <1>1, <1>5, <3>1 DEF At, StringOf
  <2> QED
    BY <2>1, <2>2
<1> DEFINE RestOf(m, start) == UpToNUL(SubSeq(m, start, Len(m)))
<1> DEFINE Ends(m) == {i \in 2 .. Len(m) : m[i] = "#"}
<1> DEFINE End(m) == CHOOSE i \in Ends(m) : \A j \in Ends(m) : i <= j
<1> DEFINE Of(line) == Opcode(At(line, 1), SubSeq(line, 2, Len(line)), table)
<1>7. ASSUME NEW m
      PROVE  /\ At(m, 1) # "#" => OpcodeExecute(m, table) = Of(RestOf(m, 1))
             /\ (At(m, 1) = "#" /\ Ends(m) # {}) =>
                  OpcodeExecute(m, table) = Of(RestOf(m, 1 + End(m)))
  BY DEF OpcodeExecute
<1>8. \A start \in Nat \ {0} : start <= Len(U) + 1 => RestOf(memory, start) = RestOf(U, start)
  BY <1>2
<1> HIDE DEF RestOf, Of
<1>9. OpcodeExecute(memory, table) = OpcodeExecute(U, table)
  <2>1. CASE At(U, 1) # "#"
    <3>1. 1 \in Nat \ {0} /\ 1 <= Len(U) + 1
      BY <1>5
    <3>2. RestOf(memory, 1) = RestOf(U, 1)
      BY <1>8, <3>1
    <3> QED
      BY <1>6, <1>7, <2>1, <3>2
  <2>2. CASE At(U, 1) = "#"
    <3>1. Ends(U) # {}
      BY <1>3, <2>2 DEF Closed
    <3>2. Ends(U) \in SUBSET Nat
      BY <1>5
    <3>3. PICK e \in Ends(U) : \A j \in Ends(U) : e <= j
      <4> HIDE DEF Ends
      <4> QED
        BY <3>1, <3>2, LeastExists
    <3>4. e \in 2 .. Len(U) /\ U[e] = "#"
      OBVIOUS
    <3>5. e \in Ends(memory)
      BY <1>1, <1>5, <3>4 DEF StringOf
    <3>6. ASSUME NEW j \in Ends(memory) PROVE e <= j
      <4>1. CASE j <= Len(U)
        <5>1. j \in Ends(U)
          BY <1>1, <1>5, <4>1 DEF StringOf
        <5> QED
          BY <3>3, <5>1
      <4>2. CASE ~(j <= Len(U))
        BY <1>5, <3>4, <4>2
      <4> QED
        BY <4>1, <4>2
    <3>7. ASSUME NEW m, e \in Ends(m), \A j \in Ends(m) : e <= j
          PROVE  End(m) = e
      <4>1. End(m) \in Ends(m) /\ \A j \in Ends(m) : End(m) <= j
        <5> HIDE DEF Ends
        <5> QED
          BY <3>7
      <4> HIDE DEF End
      <4>2. End(m) <= e /\ e <= End(m)
        BY <3>7, <4>1
      <4>3. End(m) \in Int /\ e \in Int
        BY <3>4, <4>1
      <4> QED
        BY <4>2, <4>3
    <3>8. End(U) = e /\ End(memory) = e /\ Ends(memory) # {}
      <4> HIDE DEF Ends, End
      <4> QED
        BY <3>3, <3>5, <3>6, <3>7
    <3>9. 1 + e \in Nat \ {0} /\ 1 + e <= Len(U) + 1
      BY <1>5, <3>4
    <3> HIDE DEF Ends, End
    <3> QED
      BY <1>6, <1>7, <1>8, <2>2, <3>1, <3>8, <3>9
  <2> QED
    BY <2>1, <2>2
<1>10. Execute(U, table) =
         IF At(U, 1) = "(" THEN ExecuteQuery(TranslateInput(Parse(U)), table)
                           ELSE OpcodeExecute(U, table)
  BY <1>1 DEF Execute
<1> QED
  BY <1>4, <1>6, <1>9, <1>10 DEF U

(* A text is a string.                                                       *)
LEMMA TextString ==
  ASSUME NEW text, IsText(text)
  PROVE  UpToNUL(text) = text
<1>1. text \in Seq(Range(text)) /\ DOMAIN text = 1 .. Len(text) /\ Len(text) \in Nat
  BY DEF IsText
<1>2. \A i \in 1 .. Len(text) : text[i] # NUL
  BY <1>1 DEF IsText, Range
<1>3. StringOf(text, text)
  BY <1>1, <1>2 DEF StringOf
<1> QED
  BY <1>1, <1>3, OneString

(* A buffer stays a sequence.                                                *)
LEMMA ReceivedSeq ==
  ASSUME NEW buf, IsSeq(buf), NEW S, NEW bytes \in Seq(S)
  PROVE  IsSeq(Received(buf, bytes))
<1> DEFINE T == Range(buf) \cup S \cup {NUL}
<1>1. NUL \in T /\ buf \in Seq(T) /\ bytes \in Seq(T)
  BY SeqMonotonic DEF IsSeq
<1> HIDE DEF T
<1>2. Received(buf, bytes) \in Seq(T)
  BY <1>1, ReceivedIs
<1> QED
  BY <1>2, SeqOfRange DEF IsSeq

-----------------------------------------------------------------------------
(* What is left of earlier requests changes nothing: a line of gtags.py ends *)
(* at its NUL, and a list of the mixer is read up to its parenthesis.        *)

(* The line of a question is a line, and the mixer gets its text.            *)
LEMMA LineText ==
  ASSUME NEW u \in Users, NEW q \in Range(u.questions)
  PROVE  /\ IsText(LineOf(q)) /\ EndsLine(LineOf(q))
         /\ Command(LineOf(q)) = MakeCommand(q)
         /\ Front(LineOf(q)) = Append(MakeCommand(q), "\r")
<1> DEFINE m == MakeCommand(q)
<1> DEFINE n == Len(m)
<1> DEFINE S == Range(m) \cup {"\r", "\n"}
<1> DEFINE line == m \o <<"\r", "\n">>
<1>1. m \in Seq(Range(m)) /\ NUL \notin Range(m)
  BY SessionAssumption DEF NewLine, IsText
<1> HIDE DEF m
<1>2. m \in Seq(S) /\ n \in Nat /\ <<"\r", "\n">> \in Seq(S)
  BY <1>1, SeqMonotonic
<1>3. /\ line \in Seq(S) /\ Len(line) = n + 2
      /\ \A i \in 1 .. n : line[i] = m[i]
      /\ line[n + 1] = "\r" /\ line[n + 2] = "\n"
  BY <1>2
<1> HIDE DEF line
<1>4. IsText(line)
  <2>1. Range(line) \subseteq S
    BY <1>3, RangeOfSeq
  <2>2. NUL \notin S
    BY <1>1 DEF NUL
  <2> QED
    BY <1>3, <2>1, <2>2, SeqOfRange DEF IsText
<1>5. EndsLine(line)
  <2>1. SubSeq(line, n + 1, n + 2) = <<"\r", "\n">>
    <3> DEFINE e == SubSeq(line, n + 1, n + 2)
    <3>1. \A i \in n + 1 .. n + 2 : line[i] \in S
      BY <1>2, <1>3, ElementOfSeq
    <3>2. /\ e \in Seq(S) /\ Len(e) = 2
          /\ \A i \in 1 .. 2 : e[i] = line[n + 1 + i - 1]
      <4>1. n + 1 \in Int /\ n + 2 \in Int /\ n + 1 <= n + 2
            /\ (n + 2) - (n + 1) + 1 = 2
        BY <1>2
      <4> HIDE DEF n
      <4> QED
        BY <3>1, <4>1, SubSeqProperties
    <3>3. e[1] = "\r" /\ e[2] = "\n"
      <4>1. e[1] = line[n + 1 + 1 - 1] /\ e[2] = line[n + 1 + 2 - 1]
        BY <3>2
      <4>2. n + 1 + 1 - 1 = n + 1 /\ n + 1 + 2 - 1 = n + 2
        BY <1>2
      <4> HIDE DEF e
      <4> QED
        BY <1>3, <4>1, <4>2
    <3> HIDE DEF e
    <3>4. <<"\r", "\n">> \in Seq(S) /\ Len(<<"\r", "\n">>) = 2
      BY <1>2
    <3>5. \A i \in 1 .. 2 : e[i] = <<"\r", "\n">>[i]
      BY <3>3
    <3>6. e = <<"\r", "\n">>
      BY <3>2, <3>4, <3>5, SeqEqual
    <3> QED
      BY <3>6 DEF e
  <2> QED
    BY <1>2, <1>3, <2>1 DEF EndsLine
<1>6. Command(line) = m
  <2>1. Command(line) = SubSeq(line, 1, n)
    BY <1>2, <1>3, <1>5 DEF Command
  <2>2. n \in 0 .. Len(line)
    BY <1>2, <1>3
  <2>3. /\ SubSeq(line, 1, n) \in Seq(S) /\ Len(SubSeq(line, 1, n)) = n
        /\ \A i \in 1 .. n : SubSeq(line, 1, n)[i] = line[i]
    BY <1>3, <2>2, StartOf
  <2> QED
    BY <1>2, <1>3, <2>1, <2>3, SeqEqual
<1>7. Front(line) = Append(m, "\r")
  <2>1. Front(line) = SubSeq(line, 1, n + 1)
    BY <1>2, <1>3 DEF Front
  <2>2. n + 1 \in 0 .. Len(line)
    BY <1>2, <1>3
  <2>3. /\ SubSeq(line, 1, n + 1) \in Seq(S) /\ Len(SubSeq(line, 1, n + 1)) = n + 1
        /\ \A i \in 1 .. n + 1 : SubSeq(line, 1, n + 1)[i] = line[i]
    BY <1>3, <2>2, StartOf
  <2>4. /\ Append(m, "\r") \in Seq(S) /\ Len(Append(m, "\r")) = n + 1
        /\ \A i \in 1 .. n : Append(m, "\r")[i] = m[i]
        /\ Append(m, "\r")[n + 1] = "\r"
    BY <1>2
  <2>5. \A i \in 1 .. n + 1 : line[i] = Append(m, "\r")[i]
    BY <1>2, <1>3, <2>4
  <2> QED
    BY <2>1, <2>3, <2>4, <2>5, SeqEqual
<1> QED
  BY <1>4, <1>5, <1>6, <1>7 DEF LineOf, line, m

(* What the mixer makes of a question's line is what MixerForwardsLists      *)
(* speaks of.                                                                *)
LEMMA SameForwarded ==
  ASSUME NEW u \in Users, NEW q \in Range(u.questions)
  PROVE  Understanding(LineOf(q)) = Forwarded(q) /\ Again(LineOf(q)) = Written(q)
<1>1. Front(LineOf(q)) = Append(MakeCommand(q), "\r")
  BY LineText
<1>2. Understanding(LineOf(q)) = Forwarded(q)
  BY <1>1 DEF Understanding, Forwarded
<1> QED
  BY <1>2 DEF Again, Written

(* What begins with a parenthesis has no comment.                            *)
LEMMA NewClosed ==
  ASSUME NEW text, NewLine(text)
  PROVE  Closed(text) /\ At(text, 1) = "("
<1>1. text \in Seq(Range(text)) /\ text # <<>> /\ text[1] = "("
  BY DEF NewLine, IsText
<1>2. 1 \in DOMAIN text
  BY <1>1
<1> QED
  BY <1>1, <1>2 DEF Closed, At

(* What is executed is what was sent, whatever buf_ held.                    *)
LEMMA TakenWhole ==
  ASSUME MixerForwardsLists, NEW u \in Users, NEW conn, Brings(u, conn), conn.data # <<>>,
         NEW buf, IsSeq(buf), NEW held
  PROVE  /\ IsPrefix(Command(conn.data), UpToNUL(Received(buf, conn.data)))
         /\ Closed(Command(conn.data)) =>
              Execute(Received(buf, conn.data), held) = Execute(Command(conn.data), held)
<1> DEFINE data == conn.data
<1> DEFINE memory == Received(buf, data)
<1> DEFINE text == UpToNUL(memory)
<1>0. ASSUME IsText(data) PROVE IsSeq(memory)
  BY <1>0, ReceivedSeq DEF IsText
<1>1. CASE IsText(data) /\ EndsLine(data)
  <2>1. text = Command(data)
    BY <1>1, Stripped
  <2>2. IsPrefix(Command(data), Command(data))
    <3>1. Len(data) \in Nat /\ Len(data) >= 2 /\ data \in Seq(Range(data))
      BY <1>1 DEF IsText, EndsLine
    <3>2. Len(data) - 2 \in 0 .. Len(data)
      BY <3>1
    <3>3. Command(data) \in Seq(Range(data))
      BY <1>1, <3>1, <3>2, StartOf DEF Command
    <3> HIDE DEF data
    <3>4. Len(Command(data)) \in Nat
      BY <3>3
    <3> QED
      BY <3>4 DEF IsPrefix
  <2>3. ASSUME Closed(text) PROVE Execute(memory, held) = Execute(text, held)
    <3>1. memory \in Seq(Range(memory))
      BY <1>0, <1>1 DEF IsSeq
    <3> HIDE DEF memory
    <3> QED
      BY <2>3, <3>1, ExecuteString
  <2> QED
    BY <2>1, <2>2, <2>3
<1>2. CASE conn.from = "mixer"
  <2>1. PICK q \in Range(u.questions) : Forwarded(q).got = "request" /\ data = Written(q)
    BY <1>2 DEF Brings
  <2>2. u.useMixer
    BY <1>2 DEF Brings
  <2>3. OneList(data)
    BY <2>1, <2>2 DEF MixerForwardsLists
  <2>4. IsText(data) /\ ~EndsLine(data) /\ Command(data) = data /\ At(data, 1) = "("
    BY <2>3, NewClosed DEF OneList, NewLine, Command
  <2> DEFINE S == Range(buf) \cup Range(data) \cup {NUL}
  <2>5. text \in Seq(S) /\ data \in Seq(S) /\ Begins(text, data) /\ IsPrefix(data, text)
    BY <2>4, Kept
  <2>6. memory \in Seq(Range(memory))
    BY <1>0, <2>4 DEF IsSeq
  <2>7. UpToNUL(text) = text /\ UpToNUL(data) = data
    <3> HIDE DEF memory, data
    <3> QED
      BY <2>4, <2>6, StringTwice, TextString
  <2>8. Closed(text) => Execute(memory, held) = Execute(text, held)
    <3> HIDE DEF memory
    <3> QED
      BY <2>6, ExecuteString
  <2> HIDE DEF text, S, data, memory
  <2>9. Parse(text) = Parse(data)
    BY <2>3, <2>5, ParsePrefix DEF OneList
  <2>10. At(text, 1) = "("
    <3>1. data # <<>> /\ Len(data) \in Nat
      BY <2>3, <2>5 DEF OneList, NewLine
    <3>2. 1 \in 1 .. Len(data)
      BY <2>5, <3>1
    <3> QED
      BY <2>4, <2>5, <3>2, AtSame
  <2>11. Closed(text)
    BY <2>10 DEF Closed
  <2>12. Execute(text, held) = Execute(data, held)
    BY <2>4, <2>7, <2>9, <2>10 DEF Execute
  <2> QED
    BY <2>4, <2>5, <2>8, <2>11, <2>12 DEF text, data, memory
<1>3. CASE conn.from = "client"
  <2>1. PICK q \in Range(u.questions) : data = LineOf(q)
    BY <1>3 DEF Brings
  <2>2. IsText(data) /\ EndsLine(data)
    BY <2>1, LineText
  <2> QED
    BY <2>2, <1>1
<1>4. CASE conn.from = "stranger"
  <2>1. data \in UNION Range(StrangeTexts)
    BY <1>4 DEF Brings
  <2> HIDE DEF data
  <2>2. data # <<>>
    BY DEF data
  <2>3. IsText(data) /\ EndsLine(data)
    BY <2>1, <2>2, SessionAssumption
  <2> QED
    BY <2>3, <1>1 DEF data, memory, text
<1> QED
  BY <1>2, <1>3, <1>4 DEF Brings

(* A request of gtags.py has no comment, ...                                 *)
LEMMA RequestClosed ==
  ASSUME MixerForwardsLists, NEW u \in Users, NEW conn, Brings(u, conn),
         conn.from \in {"client", "mixer"}
  PROVE  /\ Closed(Command(conn.data))
         /\ conn.from = "mixer" => Command(conn.data) = conn.data
<1>1. CASE conn.from = "mixer"
  <2>1. PICK q \in Range(u.questions) : Forwarded(q).got = "request" /\ conn.data = Written(q)
    BY <1>1 DEF Brings
  <2>2. u.useMixer
    BY <1>1 DEF Brings
  <2>3. NewLine(Written(q)) /\ ~EndsLine(Written(q))
    BY <2>1, <2>2 DEF MixerForwardsLists, OneList
  <2>4. Command(Written(q)) = Written(q)
    BY <2>3 DEF Command
  <2> QED
    BY <2>1, <2>3, <2>4, NewClosed
<1>2. CASE conn.from = "client"
  <2>1. PICK q \in Range(u.questions) : conn.data = LineOf(q)
    BY <1>2 DEF Brings
  <2>2. Command(LineOf(q)) = MakeCommand(q) /\ NewLine(MakeCommand(q))
    BY LineText, SessionAssumption
  <2> QED
    BY <1>2, <2>1, <2>2, NewClosed
<1> QED
  BY <1>1, <1>2

(* ... and ends no server.                                                   *)
LEMMA RequestHarmless ==
  ASSUME RequestsAreUsable, MixerForwardsLists,
         NEW u \in Users, NEW conn, Brings(u, conn), conn.from \in {"client", "mixer"},
         NEW held \in HeldTables
  PROVE  Execute(Command(conn.data), held).got # "dead"
<1>1. CASE conn.from = "mixer"
  <2>1. PICK q \in Range(u.questions) : Forwarded(q).got = "request" /\ conn.data = Written(q)
    BY <1>1 DEF Brings
  <2>2. u.useMixer
    BY <1>1 DEF Brings
  <2>3. Command(Written(q)) = Written(q)
    BY <1>1, <2>1, RequestClosed
  <2> QED
    BY <2>1, <2>2, <2>3 DEF RequestsAreUsable
<1>2. CASE conn.from = "client"
  <2>1. PICK q \in Range(u.questions) : conn.data = LineOf(q)
    BY <1>2 DEF Brings
  <2>2. ~u.useMixer
    BY <1>2 DEF Brings
  <2>3. Command(LineOf(q)) = MakeCommand(q)
    BY LineText
  <2> QED
    BY <2>1, <2>2, <2>3 DEF RequestsAreUsable
<1> QED
  BY <1>1, <1>2

-----------------------------------------------------------------------------
(* The steps of the servers.                                                 *)

(* One server changes, and the others stay.                                  *)
LEMMA UpdateOK ==
  ASSUME NEW u, NEW all, ServersOK(u, all), NEW h \in Range(Hosts), NEW s, ServerOK(u, s)
  PROVE  ServersOK(u, [all EXCEPT ![h] = s])
<1> DEFINE new == [all EXCEPT ![h] = s]
<1>1. DOMAIN new = Range(Hosts) /\ new = [g \in Range(Hosts) |-> new[g]]
  BY DEF ServersOK
<1>2. ASSUME NEW g \in Range(Hosts) PROVE ServerOK(u, new[g])
  BY DEF ServersOK
<1> QED
  BY <1>1, <1>2 DEF ServersOK

(* A connection is added to a queue.                                         *)
LEMMA QueueOK ==
  ASSUME NEW u, NEW s, ServerOK(u, s), NEW conn, Brings(u, conn)
  PROVE  ServerOK(u, [s EXCEPT !.queue = Append(@, conn)])
<1> DEFINE q == s.queue
<1> DEFINE new == [s EXCEPT !.queue = Append(q, conn)]
<1>1. q \in Seq(Range(q)) /\ \A c \in Range(q) : Brings(u, c)
  BY DEF ServerOK, IsSeq
<1>2. Append(q, conn) \in Seq(Range(q) \cup {conn})
  BY <1>1
<1>3. IsSeq(Append(q, conn)) /\ Range(Append(q, conn)) \subseteq Range(q) \cup {conn}
  BY <1>2, SeqOfRange, RangeOfSeq DEF IsSeq
<1>4. \A c \in Range(Append(q, conn)) : Brings(u, c)
  BY <1>1, <1>3
<1>5. new.queue = Append(q, conn)
  BY DEF ServerOK
<1>6. /\ DOMAIN new = DOMAIN s /\ new.pc = s.pc /\ new.conn = s.conn /\ new.buf = s.buf
      /\ new.table = s.table /\ new.held = s.held
  BY DEF ServerOK
<1> HIDE DEF new
<1>7. ServerOK(u, new)
  BY <1>3, <1>4, <1>5, <1>6 DEF ServerOK
<1> QED
  BY <1>7 DEF new

(* The first connection of a queue, and the others.                          *)
LEMMA HeadOK ==
  ASSUME NEW u, NEW s, ServerOK(u, s), s.queue # <<>>
  PROVE  /\ Brings(u, Head(s.queue)) /\ Head(s.queue) \in Range(s.queue)
         /\ IsSeq(Tail(s.queue)) /\ Range(Tail(s.queue)) \subseteq Range(s.queue)
         /\ \A conn \in Range(Tail(s.queue)) : Brings(u, conn)
<1> DEFINE q == s.queue
<1>1. q \in Seq(Range(q)) /\ \A c \in Range(q) : Brings(u, c)
  BY DEF ServerOK, IsSeq
<1>2. Head(q) \in Range(q) /\ Tail(q) \in Seq(Range(q))
  BY <1>1, HeadTailProperties
<1>3. IsSeq(Tail(q)) /\ Range(Tail(q)) \subseteq Range(q)
  BY <1>2, SeqOfRange, RangeOfSeq DEF IsSeq
<1> QED
  BY <1>1, <1>2, <1>3

(* What a connection brings is a text, without a NUL in it.                  *)
LEMMA BringsText ==
  ASSUME MixerForwardsLists, NEW u \in Users, NEW conn, Brings(u, conn), conn.data # <<>>
  PROVE  IsText(conn.data)
<1>1. CASE conn.from = "mixer"
  <2>1. PICK q \in Range(u.questions) : Forwarded(q).got = "request" /\ conn.data = Written(q)
    BY <1>1 DEF Brings
  <2>2. u.useMixer
    BY <1>1 DEF Brings
  <2> QED
    BY <2>1, <2>2 DEF MixerForwardsLists, OneList, NewLine
<1>2. CASE conn.from = "client"
  <2>1. PICK q \in Range(u.questions) : conn.data = LineOf(q)
    BY <1>2 DEF Brings
  <2> QED
    BY <2>1, LineText
<1>3. CASE conn.from = "stranger"
  <2>1. conn.data \in UNION Range(StrangeTexts)
    BY <1>3 DEF Brings
  <2> QED
    BY <2>1, SessionAssumption
<1> QED
  BY <1>1, <1>2, <1>3 DEF Brings

(* What a connection brings is a sequence.                                   *)
LEMMA BringsSeq ==
  ASSUME MixerForwardsLists, NEW u \in Users, NEW conn, Brings(u, conn)
  PROVE  conn.data \in Seq(Range(conn.data)) /\ Len(conn.data) \in Nat
<1>1. CASE conn.data = <<>>
  BY <1>1, SeqOfRange
<1>2. CASE conn.data # <<>>
  BY <1>2, BringsText DEF IsText
<1> QED
  BY <1>1, <1>2

(* What a server's table may hold, it holds after a request as well.         *)
LEMMA ExecutedHeld ==
  ASSUME NEW held \in HeldTables, NEW command, NEW file, NEW text,
         Executed(command, file, held, text).got # "dead"
  PROVE  Executed(command, file, held, text).table \in HeldTables
<1>1. CASE command \notin Loading
  <2>1. Executed(command, file, held, text) = [got |-> "answer", text |-> text, table |-> held]
    BY <1>1 DEF Executed
  <2> QED
    BY <2>1
<1>2. CASE command \in Loading /\ file \notin DOMAIN TagFiles
  <2>1. Executed(command, file, held, text) = Dead
    BY <1>2 DEF Executed
  <2> QED
    BY <2>1 DEF Dead
<1>3. CASE command \in Loading /\ file \in DOMAIN TagFiles
  <2>1. Executed(command, file, held, text)
          = [got |-> "answer", text |-> text, table |-> Loaded(command, TagFiles[file], held)]
    BY <1>3 DEF Executed
  <2>2. TagFiles[file] \in Range(TagFiles)
    BY <1>3 DEF Range
  <2>3. Loaded(command, TagFiles[file], held) \in HeldTables
    BY <1>3, <2>2, SessionAssumption
  <2> QED
    BY <2>1, <2>3
<1> QED
  BY <1>1, <1>2, <1>3

(* What a server holds after a request is one of the tables it may hold.     *)
LEMMA TableHeld ==
  ASSUME NEW memory, NEW held \in HeldTables, Execute(memory, held).got # "dead"
  PROVE  Execute(memory, held).table \in HeldTables
<1>1. CASE \E command, file, text : Execute(memory, held) = Executed(command, file, held, text)
  BY <1>1, ExecutedHeld
<1>2. CASE Execute(memory, held) = Dead
  BY <1>2 DEF Dead
<1>3. CASE At(memory, 1) = "("
  <2> DEFINE query == TranslateInput(Parse(UpToNUL(memory)))
  <2>1. Execute(memory, held) = ExecuteQuery(query, held)
    BY <1>3 DEF Execute
  <2> HIDE DEF query
  <2>2. \/ ExecuteQuery(query, held) = Dead
        \/ ExecuteQuery(query, held) = Executed(query.val.command, query.val.file, held,
             SexpExecute(query.val, held, Range(held)))
    BY DEF ExecuteQuery
  <2> QED
    BY <1>1, <1>2, <2>1, <2>2
<1>4. CASE At(memory, 1) # "("
  <2>1. Execute(memory, held) = OpcodeExecute(memory, held)
    BY <1>4 DEF Execute
  <2>2. OpcodeExecute(memory, held) = Dead \/ \E opcode, key : OpcodeExecute(memory, held) = Opcode(opcode, key, held)
    BY DEF OpcodeExecute
  <2>3. \A opcode, key : \E command, text : Opcode(opcode, key, held) = Executed(command, key, held, text)
    BY DEF Opcode
  <2> QED
    BY <1>1, <1>2, <2>1, <2>2, <2>3
<1> QED
  BY <1>3, <1>4

(* A server takes a request in.                                              *)
LEMMA InputTakes ==
  ASSUME MixerForwardsLists, TypeOK, NEW h \in Range(Hosts), server[h].queue # <<>>,
         NEW n \in 0 .. Len(Head(server[h].queue).data), Input(h, n)
  PROVE  \E s : /\ server' = [server EXCEPT ![h] = s]
                /\ ServerOK(user, s) /\ Taken(s) /\ Conns(s) \subseteq Conns(server[h])
                /\ RequestsAreUsable => Harmless(s)
<1> DEFINE s == server[h]
<1> DEFINE conn == Head(s.queue)
<1> DEFINE got == IF n < kMaxTagLen THEN n ELSE kMaxTagLen
<1> DEFINE bytes == SubSeq(conn.data, 1, got)
<1> DEFINE buf == Received(s.buf, bytes)
<1> DEFINE served == [s EXCEPT !.conn = conn, !.queue = Tail(@), !.buf = buf, !.held = s.table,
                   !.cut = got = 0 \/ got < Len(conn.data)]
<1> DEFINE done == Execute(buf, s.table)
<1> DEFINE new == IF done.got = "dead" THEN [served EXCEPT !.pc = "died"]
                  ELSE [served EXCEPT !.pc = "output", !.table = done.table]
<1>0. ServerOK(user, s) /\ user \in Users
  BY DEF TypeOK, ServersOK
<1>1. server' = [server EXCEPT ![h] = new]
  BY DEF Input
<1>2. Brings(user, conn) /\ Range(Tail(s.queue)) \subseteq Range(s.queue) /\ conn \in Range(s.queue)
      /\ IsSeq(Tail(s.queue)) /\ \A c \in Range(Tail(s.queue)) : Brings(user, c)
  BY <1>0, HeadOK
<1>3. conn.data \in Seq(Range(conn.data)) /\ Len(conn.data) \in Nat
  BY <1>0, <1>2, BringsSeq
<1>4. kMaxTagLen \in Nat \ {0} /\ got \in 0 .. Len(conn.data)
  <2>1. kMaxTagLen \in Nat \ {0}
    BY SessionAssumption
  <2> HIDE DEF conn
  <2> QED
    BY <1>3, <2>1 DEF conn
<1>5. bytes \in Seq(Range(conn.data))
  BY <1>3, <1>4, StartOf
<1>6. IsSeq(buf)
  <2>1. IsSeq(s.buf)
    BY <1>0 DEF ServerOK
  <2> HIDE DEF bytes, s
  <2> QED
    BY <1>5, <2>1, ReceivedSeq
<1>7. /\ DOMAIN new = DOMAIN s /\ new.conn = conn /\ new.queue = Tail(s.queue) /\ new.buf = buf
      /\ new.held = s.table /\ new.cut = (got = 0 \/ got < Len(conn.data))
      /\ new.pc \in {"output", "died"} /\ (new.table = s.table \/ (done.got # "dead" /\ new.table = done.table))
      /\ new.pc = "died" => done.got = "dead"
  <2>1. DOMAIN s = {"pc", "conn", "queue", "buf", "cut", "table", "held"}
    BY <1>0 DEF ServerOK
  <2> HIDE DEF done, buf, conn, got, s
  <2>2. /\ DOMAIN served = DOMAIN s /\ served.conn = conn /\ served.queue = Tail(s.queue)
        /\ served.buf = buf /\ served.held = s.table /\ served.table = s.table
        /\ served.cut = (got = 0 \/ got < Len(conn.data))
    BY <2>1
  <2> HIDE DEF served
  <2>3. CASE done.got = "dead"
    <3>1. new = [served EXCEPT !.pc = "died"]
      BY <2>3
    <3> QED
      BY <2>1, <2>2, <2>3, <3>1
  <2>4. CASE done.got # "dead"
    <3>1. new = [served EXCEPT !.pc = "output", !.table = done.table]
      BY <2>4
    <3> HIDE DEF new
    <3> QED
      BY <2>1, <2>2, <2>4, <3>1
  <2> QED
    BY <2>3, <2>4
<1> HIDE DEF new, served
<1>8. ServerOK(user, new)
  <2>1. s.table \in HeldTables
    BY <1>0 DEF ServerOK
  <2>2. done.got # "dead" => done.table \in HeldTables
    <3> HIDE DEF buf, s
    <3> QED
      BY <2>1, TableHeld
  <2> HIDE DEF s, buf, conn, done
  <2>3. new.table \in HeldTables
    BY <1>7, <2>1, <2>2
  <2> QED
    BY <1>0, <1>2, <1>6, <1>7, <2>1, <2>3 DEF ServerOK
<1>9. Conns(new) \subseteq Conns(s)
  <2> HIDE DEF s, conn
  <2> QED
    BY <1>2, <1>7 DEF Conns
<1>10. ASSUME ~new.cut, NEW held
       PROVE  /\ conn.data # <<>> /\ buf = Received(s.buf, conn.data)
              /\ IsPrefix(Command(conn.data), UpToNUL(buf))
              /\ Closed(Command(conn.data)) =>
                   Execute(buf, held) = Execute(Command(conn.data), held)
  <2>1. got = Len(conn.data) /\ got # 0
    <3> HIDE DEF got, conn
    <3>1. ~(got = 0 \/ got < Len(conn.data))
      BY <1>7, <1>10
    <3> QED
      BY <1>3, <1>4, <3>1
  <2>2. bytes = conn.data
    BY <1>3, <2>1, WholeSub
  <2>3. conn.data # <<>>
    <3> HIDE DEF conn, got
    <3> QED
      BY <2>1
  <2>4. IsSeq(s.buf)
    BY <1>0 DEF ServerOK
  <2>5. buf = Received(s.buf, conn.data)
    BY <2>2
  <2> HIDE DEF s, conn, buf
  <2> QED
    BY <1>0, <1>2, <2>3, <2>4, <2>5, TakenWhole
<1>11. Taken(new)
  <2> HIDE DEF s, conn, buf
  <2> QED
    BY <1>7, <1>10 DEF Taken
<1>12. ASSUME RequestsAreUsable, new.pc = "died", ~new.cut, new.conn.from # "stranger"
       PROVE  FALSE
  <2>1. s.table \in HeldTables
    BY <1>0 DEF ServerOK
  <2>2. conn.from \in {"client", "mixer"}
    <3> HIDE DEF conn
    <3> QED
      BY <1>2, <1>7, <1>12 DEF Brings
  <2>3. done = Execute(Command(conn.data), s.table)
    <3>1. Closed(Command(conn.data))
      <4> HIDE DEF conn
      <4> QED
        BY <1>0, <1>2, <2>2, RequestClosed
    <3> HIDE DEF conn, buf
    <3> QED
      BY <1>10, <1>12, <3>1
  <2>4. done.got = "dead"
    BY <1>7, <1>12
  <2> HIDE DEF s, conn, done
  <2> QED
    BY <1>0, <1>2, <1>12, <2>1, <2>2, <2>3, <2>4, RequestHarmless
<1> QED
  BY <1>1, <1>8, <1>9, <1>11, <1>12 DEF Harmless

(* One server changes and is sound, and the others stay.                     *)
LEMMA UpdateSound ==
  ASSUME NEW u, NEW all, AllSound(u, all), NEW h \in Range(Hosts), NEW s, ServerOK(u, s), Sound(s)
  PROVE  AllSound(u, [all EXCEPT ![h] = s])
<1> DEFINE new == [all EXCEPT ![h] = s]
<1>1. ServersOK(u, new)
  BY UpdateOK DEF AllSound
<1>2. ASSUME NEW g \in Range(Hosts) PROVE Sound(new[g])
  BY DEF AllSound, ServersOK
<1> QED
  BY <1>1, <1>2 DEF AllSound

(* A server that has no request has nothing to answer for.                   *)
LEMMA IdleSound ==
  ASSUME NEW s, s.pc \in {"accept", "down"}
  PROVE  Sound(s)
BY DEF Sound, Taken, Harmless

(* A server with one more connection is sound.                               *)
LEMMA ConnectSound ==
  ASSUME AllSound(user, server), NEW h \in Range(Hosts), NEW from, NEW line, Connect(h, from, line),
         Brings(user, [id |-> NewId, from |-> from, data |-> line])
  PROVE  AllSound(user, server')
<1> DEFINE conn == [id |-> NewId, from |-> from, data |-> line]
<1> DEFINE s == server[h]
<1> DEFINE new == [s EXCEPT !.queue = Append(@, conn)]
<1>1. server' = [server EXCEPT ![h] = new]
  BY DEF Connect
<1>2. ServerOK(user, s) /\ Sound(s)
  BY DEF AllSound, ServersOK
<1> HIDE DEF conn, s
<1>3. ServerOK(user, new)
  BY <1>2, QueueOK DEF conn
<1>4. /\ new.pc = s.pc /\ new.conn = s.conn /\ new.buf = s.buf /\ new.cut = s.cut
  BY <1>2 DEF ServerOK
<1> HIDE DEF new
<1>5. Sound(new)
  BY <1>2, <1>4 DEF Sound, Taken, Harmless
<1> QED
  BY <1>1, <1>3, <1>5, UpdateSound

(* A server that closed its connection is sound.                             *)
LEMMA FinishedSound ==
  ASSUME AllSound(user, server), NEW h \in Range(Hosts)
  PROVE  AllSound(user, Finished(h))
<1> DEFINE s == server[h]
<1>1. ServerOK(user, s)
  BY DEF AllSound, ServersOK
<1> HIDE DEF s
<1> DEFINE a == [s EXCEPT !.pc = "accept", !.conn = Nobody, !.held = s.table, !.cut = FALSE]
<1>2. ServerOK(user, a) /\ a.pc = "accept"
  BY <1>1 DEF ServerOK
<1>3. Finished(h) = [server EXCEPT ![h] = a]
  BY DEF Finished, s
<1> HIDE DEF a
<1>4. Sound(a)
  BY <1>2, IdleSound
<1>5. AllSound(user, [server EXCEPT ![h] = a])
  BY <1>2, <1>4, UpdateSound
<1> QED
  BY <1>3, <1>5

(* A server that starts, or was killed, has no connections.                  *)
LEMMA StartedSound ==
  ASSUME NEW u, NEW h \in Range(Hosts), NEW garbage, IsSeq(garbage),
         NEW s, \/ s = Started(h, garbage)
                \/ s = [Started(h, garbage) EXCEPT !.pc = "down"]
  PROVE  ServerOK(u, s) /\ Sound(s) /\ Conns(s) = {Nobody}
<1>1. IsSeq(<<>>) /\ Range(<<>>) = {}
  BY DEF IsSeq, Range
<1>2. Tables[h] \in HeldTables
  <2>1. h \in DOMAIN Tables
    BY SessionAssumption
  <2>2. Tables[h] \in Range(Tables)
    BY <2>1 DEF Range
  <2> QED
    BY <2>2, SessionAssumption
<1>3. /\ DOMAIN s = {"pc", "conn", "queue", "buf", "cut", "table", "held"}
      /\ s.pc \in {"accept", "down"} /\ s.conn = Nobody /\ s.queue = <<>> /\ s.buf = garbage
      /\ s.table = Tables[h] /\ s.held = Tables[h]
  BY DEF Started
<1>4. ServerOK(u, s)
  BY <1>1, <1>2, <1>3 DEF ServerOK
<1>5. Sound(s)
  BY <1>3, IdleSound
<1>6. Conns(s) = {Nobody}
  BY <1>1, <1>3 DEF Conns
<1> QED
  BY <1>4, <1>5, <1>6

(* A server that was killed is sound: it has no connections.                 *)
LEMMA KilledSound ==
  ASSUME AllSound(user, server), NEW h \in Range(Hosts)
  PROVE  AllSound(user, Killed(h))
<1> DEFINE s == [Started(h, <<>>) EXCEPT !.pc = "down"]
<1>1. IsSeq(<<>>)
  BY DEF IsSeq, Range
<1>2. ServerOK(user, s) /\ Sound(s)
  BY <1>1, StartedSound
<1>3. Killed(h) = [server EXCEPT ![h] = s]
  BY DEF Killed
<1> HIDE DEF s
<1>4. AllSound(user, [server EXCEPT ![h] = s])
  BY <1>2, UpdateSound
<1> QED
  BY <1>3, <1>4

(* A server that was started is sound, whatever its buffer holds.            *)
LEMMA BegunSound ==
  ASSUME NEW u, NEW h \in Range(Hosts), NEW garbage \in Garbage[h]
  PROVE  /\ ServerOK(u, Started(h, garbage)) /\ Sound(Started(h, garbage))
         /\ Conns(Started(h, garbage)) = {Nobody}
<1>1. IsSeq(garbage)
  <2>1. h \in DOMAIN Garbage
    BY SessionAssumption
  <2>2. garbage \in UNION Range(Garbage)
    BY <2>1 DEF Range
  <2> QED
    BY <2>2, SessionAssumption DEF IsSeq
<1> QED
  BY <1>1, StartedSound

(* There is a first server.                                                  *)
LEMMA FirstHost == Host(1) \in Range(Hosts)
<1>1. 1 \in DOMAIN Hosts
  BY HostsSeq
<1> QED
  BY <1>1 DEF Host, Range

(* The first server has a table.                                             *)
LEMMA FirstTable == Tables[Host(1)] \in HeldTables
<1>1. Host(1) \in DOMAIN Tables
  BY FirstHost, SessionAssumption
<1>2. Tables[Host(1)] \in Range(Tables)
  BY <1>1 DEF Range
<1> QED
  BY <1>2, SessionAssumption

(* The server the client is at is one of the list.                           *)
LEMMA CurrentHost ==
  ASSUME ManagerOK, manager.current # 0
  PROVE  Host(manager.current) \in Range(Hosts)
<1>1. manager.current \in 1 .. Len(Hosts)
  <2>1. manager.current = manager.index /\ manager.index \in 0 .. Len(Hosts)
    BY DEF ManagerOK
  <2> QED
    BY <2>1
<1> QED
  BY <1>1, HostsSeq DEF Host, Range

(* The job of the mixer and its line.                                        *)
LEMMA JobLine ==
  ASSUME TypeOK, NEW job \in mixer.jobs
  PROVE  \E q \in Range(user.questions) :
           /\ job.line = LineOf(q) /\ Understanding(job.line) = Forwarded(q)
           /\ Again(job.line) = Written(q)
<1>1. PICK q \in Range(user.questions) : job.line = LineOf(q)
  BY DEF TypeOK, MixerOK, JobOK
<1>2. user \in Users
  BY DEF TypeOK
<1> QED
  BY <1>1, <1>2, SameForwarded

(* The connection of an RPC brings what the mixer wrote for a question.      *)
LEMMA AskedBrings ==
  ASSUME TypeOK, NEW job \in mixer.jobs, Understanding(job.line).got = "request"
  PROVE  Brings(user, [id |-> NewId, from |-> "mixer", data |-> Again(job.line)])
<1>1. PICK q \in Range(user.questions) :
           /\ Understanding(job.line) = Forwarded(q) /\ Again(job.line) = Written(q)
  BY JobLine
<1>2. user.useMixer
  BY DEF TypeOK, MixerOK, JobOK
<1>3. NewId \in Nat \ {0}
  BY NewIdFresh
<1> DEFINE id == NewId
<1> HIDE DEF id
<1>4. Brings(user, [id |-> id, from |-> "mixer", data |-> Again(job.line)])
  BY <1>1, <1>2, <1>3 DEF Brings, id
<1> QED
  BY <1>4 DEF id

(* The connection of gtags.py brings the line of its question.               *)
LEMMA ClientBrings ==
  ASSUME TypeOK, call.pc = "connect", ~useMixer
  PROVE  Brings(user, [id |-> NewId, from |-> "client", data |-> Line])
<1>1. call.question \in Range(user.questions) /\ Line = LineOf(call.question)
  BY DEF TypeOK, CallOK, Line, LineOf
<1>2. NewId \in Nat \ {0}
  BY NewIdFresh
<1> DEFINE id == NewId
<1> HIDE DEF id
<1>4. Brings(user, [id |-> id, from |-> "client", data |-> Line])
  BY <1>1, <1>2 DEF Brings, id, useMixer
<1> QED
  BY <1>4 DEF id

(* The connection of a stranger brings its line.                             *)
LEMMA StrangerBrings ==
  ASSUME TypeOK, NEW h \in Range(Hosts), NEW text \in StrangeTexts[h]
  PROVE  Brings(user, [id |-> NewId, from |-> "stranger", data |-> text])
<1>1. h \in DOMAIN StrangeTexts
  BY SessionAssumption
<1>2. text \in UNION Range(StrangeTexts)
  BY <1>1 DEF Range
<1>3. NewId \in Nat \ {0}
  BY NewIdFresh
<1> DEFINE id == NewId
<1> HIDE DEF id
<1>4. Brings(user, [id |-> id, from |-> "stranger", data |-> text])
  BY <1>2, <1>3 DEF Brings, id
<1> QED
  BY <1>4 DEF id

(* At first the servers are sound.                                           *)
LEMMA ServersInit ==
  ASSUME Init
  PROVE  AllSound(user, server)
<1>1. DOMAIN server = Range(Hosts) /\ server = [h \in Range(Hosts) |-> server[h]]
  BY DEF Init
<1>2. ASSUME NEW h \in Range(Hosts) PROVE ServerOK(user, server[h]) /\ Sound(server[h])
  <2>1. PICK garbage \in Garbage[h] : server[h] = Started(h, garbage)
    BY DEF Init
  <2> QED
    BY <2>1, BegunSound
<1> QED
  BY <1>1, <1>2 DEF AllSound, ServersOK

(* A job the mixer reads.                                                    *)
LEMMA ReadsSound ==
  ASSUME TypeOK, AllSound(user, server), NEW job \in mixer.jobs, MixerReads(job)
  PROVE  AllSound(user, server')
<1> DEFINE request == Understanding(job.line)
<1>1. CASE UNCHANGED server
  BY <1>1
<1>2. CASE request.got = "request" /\ Connect(Host(1), "mixer", Append(request.text, "\n"))
  <2>1. Connect(Host(1), "mixer", Again(job.line))
    BY <1>2 DEF Again
  <2> QED
    BY <1>2, <2>1, AskedBrings, FirstHost, ConnectSound
<1> QED
  BY <1>1, <1>2 DEF MixerReads, Understood, Understanding

(* Every step keeps the servers sound: each takes the request of its         *)
(* connection whole and executes nothing else, whatever requests it read     *)
(* before.                                                                   *)
LEMMA ServersStep ==
  ASSUME MixerForwardsLists, ManagerOK, TypeOK, AllSound(user, server), [Next]_vars
  PROVE  AllSound(user, server')
<1>1. CASE UNCHANGED server
  BY <1>1
<1>2. CASE SendToServer
  <2>1. Host(manager.current) \in Range(Hosts)
    BY <1>2, CurrentHost DEF SendToServer
  <2> QED
    BY <1>2, <2>1, ClientBrings, ConnectSound DEF SendToServer
<1>3. ASSUME NEW h \in Range(Hosts), server[h].queue # <<>>,
             NEW n \in 0 .. Len(Head(server[h].queue).data), Input(h, n)
      PROVE  AllSound(user, server')
  <2>1. PICK s : /\ server' = [server EXCEPT ![h] = s]
                 /\ ServerOK(user, s) /\ Taken(s)
                 /\ RequestsAreUsable => Harmless(s)
    BY <1>3, InputTakes
  <2> QED
    BY <2>1, UpdateSound DEF Sound
<1>4. ASSUME NEW h \in Range(Hosts), Output(h) \/ OutputToNobody(h) \/ Crash(h)
      PROVE  AllSound(user, server')
  BY <1>4, FinishedSound, KilledSound DEF Output, OutputToNobody, Crash
<1>5. ASSUME NEW h \in Range(Hosts), Restart(h)
      PROVE  AllSound(user, server')
  <2>1. PICK garbage \in Garbage[h] : server' = [server EXCEPT ![h] = Started(h, garbage)]
    BY <1>5 DEF Restart
  <2>2. ServerOK(user, Started(h, garbage)) /\ Sound(Started(h, garbage))
    BY BegunSound
  <2> HIDE DEF Started
  <2> QED
    BY <1>5, <2>1, <2>2, UpdateSound
<1>6. ASSUME NEW h \in Range(Hosts), NEW text \in StrangeTexts[h], StrangerConnects(h, text)
      PROVE  AllSound(user, server')
  BY <1>6, StrangerBrings, ConnectSound DEF StrangerConnects
<1>7. ASSUME NEW job \in mixer.jobs, MixerReads(job) PROVE AllSound(user, server')
  BY <1>7, ReadsSound
<1>8. CASE \/ Ask \/ SelectedServer \/ FailOver \/ LaunchMixer \/ SendToMixer \/ Retry
           \/ \E id \in strangers : StrangerLeaves(id)
           \/ MixerStarts
           \/ \E job \in mixer.jobs : RPCEnds(job) \/ MixerAnswers(job)
           \/ Rest \/ UNCHANGED vars
  BY <1>1, <1>8 DEF Ask, SelectedServer, FailOver, LaunchMixer, SendToMixer, Retry, StrangerLeaves,
       MixerStarts, RPCEnds, MixerAnswers, Rest, vars
<1> QED
  BY <1>2, <1>3, <1>4, <1>5, <1>6, <1>7, <1>8 DEF Next, ClientStep

-----------------------------------------------------------------------------
(* The steps of the client.                                                  *)

(* The questions of the user are a sequence.                                 *)
LEMMA UserQuestions ==
  ASSUME TypeOK
  PROVE  user.questions \in Seq(Range(user.questions)) /\ user.useMixer \in BOOLEAN
BY SessionAssumption DEF TypeOK

(* The client waits for whoever answers it.                                  *)
LEMMA WaitsFor ==
  ASSUME TypeOK, call.id # 0
  PROVE  call.pc = "wait" /\ call.question \in Range(user.questions)
BY DEF TypeOK, CallOK

(* A call that was answered.                                                 *)
LEMMA AnsweredOK ==
  ASSUME TypeOK, call.id # 0, NEW text, NEW held, NEW cut, Answered(text, held, cut)
  PROVE  CallOK(user, call')
<1>1. call.pc = "wait" /\ call.question \in Range(user.questions)
  BY WaitsFor
<1> DEFINE new == Returned(call.question, text)
<1> HIDE DEF new
<1>2. call' = [call EXCEPT !.pc = "done", !.id = 0, !.held = held, !.cut = cut, !.outcome = new]
  BY DEF Answered, new
<1> QED
  BY <1>1, <1>2 DEF TypeOK, CallOK

(* A call that ended with an error.                                          *)
LEMMA EndedOK ==
  ASSUME TypeOK, call.pc # "idle", NEW kind, call' = Ended(kind)
  PROVE  CallOK(user, call')
BY DEF TypeOK, CallOK, Ended

(* A call that is tried at another server.                                   *)
LEMMA TriedOK ==
  ASSUME TypeOK, call.pc # "idle", NEW n,
         call' = [call EXCEPT !.pc = "connect", !.id = 0, !.retries = n]
  PROVE  CallOK(user, call')
BY DEF TypeOK, CallOK

(* A call after next_server.                                                 *)
LEMMA NextServerOK ==
  ASSUME TypeOK, call.pc # "idle", NextServer
  PROVE  CallOK(user, call')
<1>1. CASE call' = Ended("NoAvailableServer")
  BY <1>1, EndedOK
<1>2. CASE call' = [call EXCEPT !.pc = "connect", !.id = 0]
  BY <1>2 DEF TypeOK, CallOK
<1> QED
  BY <1>1, <1>2 DEF NextServer

(* Whoever has a connection of the client or of the mixer has a number.      *)
LEMMA OpenClient ==
  ASSUME TypeOK, NEW h \in Range(Hosts), server[h].pc = "output", Open(server[h].conn)
  PROVE  /\ server[h].conn.id \in Nat \ {0}
         /\ server[h].conn.from = "client" => server[h].conn.id = call.id /\ call.id # 0
         /\ server[h].conn.from = "mixer" =>
              \E job \in mixer.jobs : job.rpc = server[h].conn.id
<1>1. Brings(user, server[h].conn)
  BY DEF TypeOK, ServersOK, ServerOK
<1>2. server[h].conn.id \in Nat \ {0}
  BY <1>1 DEF Brings
<1>3. CASE server[h].conn.from = "client"
  BY <1>2, <1>3 DEF Open
<1>4. CASE server[h].conn.from = "mixer"
  BY <1>2, <1>4 DEF Open
<1>5. CASE server[h].conn.from = "stranger"
  BY <1>2, <1>5 DEF Open
<1> QED
  BY <1>1, <1>2, <1>3, <1>4, <1>5 DEF Brings

(* Every step keeps the type of the call and of the counters.                *)
LEMMA CallStep ==
  ASSUME TypeOK, [Next]_vars
  PROVE  CallOK(user, call') /\ CountOK(user, count')
<1>0. CallOK(user, call) /\ CountOK(user, count)
  BY DEF TypeOK
<1>1. CASE Ask
  <2>1. /\ user.questions \in Seq(Range(user.questions))
        /\ count.calls \in 0 .. Len(user.questions) /\ count.calls < Len(user.questions)
    BY <1>0, <1>1, UserQuestions DEF Ask, CountOK
  <2>2. count.calls + 1 \in 1 .. Len(user.questions)
    BY <2>1
  <2>3. user.questions[count.calls + 1] \in Range(user.questions)
    BY <2>1, <2>2, ElementOfSeq
  <2>4. count' = [count EXCEPT !.calls = @ + 1]
    BY <1>1 DEF Ask
  <2>5. CountOK(user, count') /\ count'.calls = count.calls + 1
    BY <1>0, <2>2, <2>4 DEF CountOK
  <2>6. call' = [NoCall EXCEPT !.pc = "connect", !.question = user.questions[count.calls + 1]]
    BY <1>1, <2>5 DEF Ask
  <2>7. CallOK(user, call')
    BY <2>3, <2>6 DEF CallOK, NoCall
  <2> QED
    BY <2>5, <2>7
<1>2. CASE SelectedServer \/ FailOver
  <2>1. call.pc # "idle" /\ NextServer /\ UNCHANGED count
    BY <1>2 DEF SelectedServer, FailOver
  <2> QED
    BY <1>0, <2>1, NextServerOK
<1>3. CASE SendToServer \/ SendToMixer
  <2>1. NewId \in Nat \ {0}
    BY NewIdFresh
  <2>2. call.pc = "connect" /\ call' = [call EXCEPT !.pc = "wait", !.id = NewId] /\ UNCHANGED count
    BY <1>3 DEF SendToServer, SendToMixer
  <2> QED
    BY <1>0, <2>1, <2>2 DEF CallOK
<1>4. CASE Retry
  <2>1. call.pc # "idle" /\ UNCHANGED count
    BY <1>4 DEF Retry
  <2>2. \/ call' = Ended("socket.error")
        \/ call' = [call EXCEPT !.pc = "connect", !.id = 0, !.retries = call.retries + 1]
    BY <1>4 DEF Retry
  <2> QED
    BY <1>0, <2>1, <2>2, EndedOK, TriedOK
<1>5. ASSUME NEW h \in Range(Hosts), Output(h) PROVE CallOK(user, call') /\ UNCHANGED count
  <2>1. server[h].pc = "output" /\ Open(server[h].conn) /\ UNCHANGED count
    BY <1>5 DEF Output
  <2>2. \/ UNCHANGED call
        \/ /\ server[h].conn.from = "client"
           /\ Answered(Answer(h), server[h].held, server[h].cut)
    BY <1>5 DEF Output
  <2> QED
    BY <1>0, <2>1, <2>2, OpenClient, AnsweredOK
<1>6. ASSUME NEW h \in Range(Hosts), Crash(h)
      PROVE  CallOK(user, call') /\ count'.calls = count.calls /\ DOMAIN count' = DOMAIN count
  <2>1. count' = [count EXCEPT !.crashes = @ + 1]
    BY <1>6 DEF Crash
  <2>2. \/ UNCHANGED call
        \/ /\ server[h].pc = "output" /\ Open(server[h].conn) /\ server[h].conn.from = "client"
           /\ Answered(Half(Answer(h)), <<>>, server[h].cut)
    BY <1>6 DEF Crash
  <2>3. CallOK(user, call')
    BY <1>0, <2>2, OpenClient, AnsweredOK
  <2> QED
    BY <1>0, <2>1, <2>3 DEF CountOK
<1>7. ASSUME NEW job \in mixer.jobs, MixerAnswers(job) PROVE CallOK(user, call') /\ UNCHANGED count
  <2>1. job.id \in Nat \ {0}
    BY DEF TypeOK, MixerOK, JobOK
  <2>2. /\ UNCHANGED count
        /\ UNCHANGED call \/ (call.id = job.id /\ Answered(job.answer, job.held, job.cut))
    BY <1>7 DEF MixerAnswers
  <2> QED
    BY <1>0, <2>1, <2>2, AnsweredOK
<1>8. CASE \E h \in Range(Hosts) : \E text \in StrangeTexts[h] : StrangerConnects(h, text)
  <2>1. UNCHANGED call /\ count' = [count EXCEPT !.strangers = @ + 1]
    BY <1>8 DEF StrangerConnects
  <2> QED
    BY <1>0, <2>1 DEF CountOK
<1>9. CASE \/ LaunchMixer \/ MixerStarts \/ Rest \/ UNCHANGED vars
           \/ \E id \in strangers : StrangerLeaves(id)
           \/ \E job \in mixer.jobs : RPCEnds(job) \/ MixerReads(job)
           \/ \E h \in Range(Hosts) : OutputToNobody(h) \/ Restart(h)
           \/ \E h \in Range(Hosts), n \in Nat : Input(h, n)
  BY <1>0, <1>9 DEF LaunchMixer, StrangerLeaves, MixerStarts, RPCEnds, MixerReads, Rest, vars,
       OutputToNobody, Restart, Input
<1>10. ASSUME NEW h \in Range(Hosts), NEW n \in 0 .. Len(Head(server[h].queue).data), Input(h, n)
       PROVE  UNCHANGED <<call, count>>
  BY <1>10 DEF Input
<1> QED
  BY <1>0, <1>1, <1>2, <1>3, <1>4, <1>5, <1>6, <1>7, <1>8, <1>9, <1>10 DEF Next, ClientStep, CountOK

-----------------------------------------------------------------------------
(* The steps of the mixer.                                                   *)

(* A job changes, and the others stay.                                       *)
LEMMA JobsOK ==
  ASSUME NEW u, NEW m, MixerOK(u, m), NEW jobs, NEW job, NEW new, JobOK(u, new),
         jobs \subseteq (m.jobs \ {job}) \cup {new}
  PROVE  MixerOK(u, [m EXCEPT !.jobs = jobs])
<1>1. IsFiniteSet(m.jobs \ {job})
  BY FS_RemoveElement DEF MixerOK
<1>2. IsFiniteSet((m.jobs \ {job}) \cup {new})
  BY <1>1, FS_AddElement
<1>3. IsFiniteSet(jobs)
  BY <1>2, FS_Subset
<1>4. \A j \in jobs : JobOK(u, j)
  BY DEF MixerOK
<1> DEFINE n == [m EXCEPT !.jobs = jobs]
<1>5. DOMAIN n = DOMAIN m /\ n.pc = m.pc /\ n.local = m.local /\ n.jobs = jobs
  BY DEF MixerOK
<1> HIDE DEF n
<1>6. MixerOK(u, n)
  BY <1>3, <1>4, <1>5 DEF MixerOK
<1> QED
  BY <1>6 DEF n

(* A job that was mixed has its type.                                        *)
LEMMA MixedOK ==
  ASSUME TypeOK, NEW job \in mixer.jobs, NEW text, NEW failure, NEW held, NEW cut,
         mixer' = [mixer EXCEPT !.jobs = Mixed(job, text, failure, held, cut)]
  PROVE  MixerOK(user, mixer')
<1> DEFINE answer == MixResult(<<job.local, text>>, failure)
<1> HIDE DEF answer
<1> DEFINE new == [job EXCEPT !.pc = "mixed", !.rpc = 0, !.held = @ \o held, !.cut = cut,
                      !.answer = answer]
<1>1. MixerOK(user, mixer) /\ JobOK(user, job)
  BY DEF TypeOK, MixerOK
<1>2. JobOK(user, new)
  BY <1>1 DEF JobOK, Shape
<1>3. Mixed(job, text, failure, held, cut) = (mixer.jobs \ {job}) \cup {new}
  BY DEF Mixed, answer
<1> HIDE DEF new
<1> QED
  BY <1>1, <1>2, <1>3, JobsOK

(* The mixer reads a line: the jobs keep their type, and a request of the    *)
(* client does not end it.                                                   *)
LEMMA ReadsOK ==
  ASSUME TypeOK, NEW job \in mixer.jobs, MixerReads(job)
  PROVE  /\ MixerOK(user, mixer')
         /\ (RequestsAreUsable /\ mixer.pc # "dead") => mixer'.pc # "dead"
<1> DEFINE request == Understanding(job.line)
<1> DEFINE mine == LocalPart(request, mixer.local)
<1>0. MixerOK(user, mixer) /\ JobOK(user, job) /\ NewId \in Nat
  BY NewIdFresh DEF TypeOK, MixerOK
<1>1. Understood(job, request)
  BY DEF MixerReads, Understanding
<1>2. ASSUME RequestsAreUsable PROVE request.got # "dead"
  <2>1. PICK q \in Range(user.questions) : request = Forwarded(q)
    BY JobLine
  <2>2. user \in Users /\ user.useMixer
    BY <1>0 DEF TypeOK, JobOK
  <2>3. Tables[Host(1)] \in HeldTables
    BY FirstTable
  <2> QED
    BY <1>2, <2>1, <2>2, <2>3 DEF RequestsAreUsable
<1>3. /\ mixer'.jobs = {} /\ mixer' = [mixer EXCEPT !.pc = "dead", !.jobs = {}]
      /\ request.got = "dead"
      => MixerOK(user, mixer')
  BY <1>0, FS_EmptySet DEF MixerOK
<1>4. ASSUME NEW new, JobOK(user, new),
             mixer' = [mixer EXCEPT !.jobs = (mixer.jobs \ {job}) \cup {new}]
      PROVE  MixerOK(user, mixer') /\ mixer'.pc = mixer.pc
  <2>1. MixerOK(user, mixer')
    BY <1>0, <1>4, JobsOK
  <2>2. mixer'.pc = mixer.pc
    BY <1>0, <1>4 DEF MixerOK
  <2> QED
    BY <2>1, <2>2
<1> HIDE DEF request, mine
<1>5. JobOK(user, [job EXCEPT !.pc = "mixed", !.answer = request.text])
  <2>1. job.pc = "line" /\ job.rpc = 0
    BY <1>0 DEF MixerReads, JobOK
  <2> QED
    BY <1>0, <2>1 DEF JobOK, Shape
<1> DEFINE asked == [job EXCEPT !.pc = "rpc", !.local = mine.text, !.held = mine.held]
<1>6. ASSUME NEW rpc \in Nat PROVE JobOK(user, [asked EXCEPT !.rpc = rpc])
  <2>1. JobOK(user, asked) /\ asked.pc = "rpc"
    BY <1>0 DEF JobOK, Shape
  <2> HIDE DEF asked
  <2> QED
    BY <2>1 DEF JobOK, Shape
<1>7. JobOK(user, [asked EXCEPT !.rpc = NewId]) /\ JobOK(user, [asked EXCEPT !.rpc = 0])
  BY <1>0, <1>6
<1>8. CASE request.got = "dead"
  <2>1. mixer' = [mixer EXCEPT !.pc = "dead", !.jobs = {}]
    BY <1>1, <1>8 DEF Understood
  <2>2. mixer'.jobs = {}
    BY <1>0, <2>1 DEF MixerOK
  <2> QED
    BY <1>2, <1>3, <1>8, <2>1, <2>2
<1>9. CASE request.got \notin {"dead", "request"}
  <2>1. mixer' = [mixer EXCEPT !.jobs =
                    (mixer.jobs \ {job}) \cup {[job EXCEPT !.pc = "mixed", !.answer = request.text]}]
    BY <1>1, <1>9 DEF Understood
  <2> QED
    BY <1>4, <1>5, <2>1
<1>10. CASE request.got = "request"
  <2>1. \/ mixer' = [mixer EXCEPT !.jobs = (mixer.jobs \ {job}) \cup {[asked EXCEPT !.rpc = NewId]}]
        \/ mixer' = [mixer EXCEPT !.jobs = (mixer.jobs \ {job}) \cup {[asked EXCEPT !.rpc = 0]}]
    BY <1>1, <1>10 DEF Understood, mine
  <2> HIDE DEF asked
  <2> QED
    BY <1>4, <1>7, <2>1
<1> QED
  BY <1>8, <1>9, <1>10

(* A server's answer, whole or half, that the mixer takes for a result of an *)
(* RPC.                                                                      *)
Takes(h, job, text, held) ==
  /\ server[h].conn.from = "mixer" /\ server[h].pc = "output" /\ job.rpc = server[h].conn.id
  /\ \/ text = Answer(h) /\ held = server[h].held
     \/ text = Half(Answer(h)) /\ held = <<>>
  /\ mixer' = [mixer EXCEPT !.jobs = Mixed(job, text, FALSE, held, server[h].cut)]

(* A step of a server changes the mixer only by an answer or a half of one.  *)
LEMMA AnswerMixes ==
  ASSUME TypeOK, NEW h \in Range(Hosts), Output(h) \/ Crash(h)
  PROVE  UNCHANGED mixer \/ \E job \in mixer.jobs : \E text, held : Takes(h, job, text, held)
<1> SUFFICES ASSUME ~UNCHANGED mixer
             PROVE  \E job \in mixer.jobs : \E text, held : Takes(h, job, text, held)
  OBVIOUS
<1> DEFINE job == CHOOSE j \in mixer.jobs : j.rpc = server[h].conn.id
<1>1. CASE Output(h)
  <2>1. /\ server[h].pc = "output" /\ Open(server[h].conn) /\ server[h].conn.from = "mixer"
        /\ mixer' = [mixer EXCEPT !.jobs =
                       Mixed(job, Answer(h), FALSE, server[h].held, server[h].cut)]
    BY <1>1 DEF Output
  <2>2. job \in mixer.jobs /\ job.rpc = server[h].conn.id
    BY <2>1, OpenClient
  <2> HIDE DEF job
  <2>3. Takes(h, job, Answer(h), server[h].held)
    BY <2>1, <2>2 DEF Takes
  <2> QED
    BY <2>2, <2>3
<1>2. CASE Crash(h)
  <2>1. /\ server[h].pc = "output" /\ Open(server[h].conn) /\ server[h].conn.from = "mixer"
        /\ mixer' = [mixer EXCEPT !.jobs =
                       Mixed(job, Half(Answer(h)), FALSE, <<>>, server[h].cut)]
    BY <1>2 DEF Crash
  <2>2. job \in mixer.jobs /\ job.rpc = server[h].conn.id
    BY <2>1, OpenClient
  <2> HIDE DEF job
  <2>3. Takes(h, job, Half(Answer(h)), <<>>)
    BY <2>1, <2>2 DEF Takes
  <2> QED
    BY <2>2, <2>3
<1> QED
  BY <1>1, <1>2

(* Every step keeps the type of the mixer, and no request ends it.           *)
LEMMA MixerStep ==
  ASSUME TypeOK, [Next]_vars
  PROVE  /\ MixerOK(user, mixer')
         /\ (RequestsAreUsable /\ mixer.pc # "dead") => mixer'.pc # "dead"
<1>0. MixerOK(user, mixer)
  BY DEF TypeOK
<1>1. CASE LaunchMixer
  <2>1. mixer' = [mixer EXCEPT !.pc = "starting"]
    BY <1>1 DEF LaunchMixer
  <2> QED
    BY <1>0, <2>1 DEF MixerOK
<1>2. CASE SendToMixer
  <2> DEFINE new == [id |-> NewId, pc |-> "line", line |-> Line, rpc |-> 0,
                     local |-> <<>>, held |-> <<>>, cut |-> FALSE, answer |-> <<>>]
  <2>1. mixer' = [mixer EXCEPT !.jobs = @ \cup {new}]
    BY <1>2 DEF SendToMixer
  <2>2. NewId \in Nat \ {0}
    BY NewIdFresh
  <2>3. user.useMixer /\ call.question \in Range(user.questions) /\ Line = LineOf(call.question)
    BY <1>2 DEF SendToMixer, useMixer, TypeOK, CallOK, Line, LineOf
  <2>4. JobOK(user, new)
    BY <2>2, <2>3 DEF JobOK, Shape
  <2> HIDE DEF new
  <2>5. IsFiniteSet(mixer.jobs \cup {new})
    BY <1>0, FS_AddElement DEF MixerOK
  <2> QED
    BY <1>0, <2>1, <2>4, <2>5 DEF MixerOK
<1>3. CASE MixerStarts
  <2>1. mixer' = [mixer EXCEPT !.pc = "up"]
    BY <1>3 DEF MixerStarts
  <2> QED
    BY <1>0, <2>1 DEF MixerOK
<1>4. ASSUME NEW job \in mixer.jobs, NEW text, NEW failure, NEW held, NEW cut,
             mixer' = [mixer EXCEPT !.jobs = Mixed(job, text, failure, held, cut)]
      PROVE  MixerOK(user, mixer') /\ mixer'.pc = mixer.pc
  <2>1. mixer'.pc = mixer.pc
    BY <1>0, <1>4 DEF MixerOK
  <2> QED
    BY <1>4, <2>1, MixedOK
<1>5. ASSUME NEW h \in Range(Hosts), Output(h) \/ Crash(h)
      PROVE  MixerOK(user, mixer') /\ mixer'.pc = mixer.pc
  <2>1. CASE UNCHANGED mixer
    BY <1>0, <2>1
  <2>2. ASSUME NEW job \in mixer.jobs, NEW text, NEW held, Takes(h, job, text, held)
        PROVE  MixerOK(user, mixer') /\ mixer'.pc = mixer.pc
    <3>1. mixer' = [mixer EXCEPT !.jobs = Mixed(job, text, FALSE, held, server[h].cut)]
      BY <2>2 DEF Takes
    <3> QED
      BY <1>4, <3>1
  <2> QED
    BY <1>5, <2>1, <2>2, AnswerMixes
<1>6. ASSUME NEW job \in mixer.jobs, RPCEnds(job)
      PROVE  MixerOK(user, mixer') /\ mixer'.pc = mixer.pc
  <2>1. PICK failure \in BOOLEAN :
          mixer' = [mixer EXCEPT !.jobs = Mixed(job, <<>>, failure, <<>>, FALSE)]
    BY <1>6 DEF RPCEnds
  <2> QED
    BY <1>4, <2>1
<1>7. ASSUME NEW job \in mixer.jobs, MixerAnswers(job)
      PROVE  MixerOK(user, mixer') /\ mixer'.pc = mixer.pc
  <2>1. mixer' = [mixer EXCEPT !.jobs = @ \ {job}]
    BY <1>7 DEF MixerAnswers
  <2>2. IsFiniteSet(mixer.jobs \ {job})
    BY <1>0, FS_RemoveElement DEF MixerOK
  <2> QED
    BY <1>0, <2>1, <2>2 DEF MixerOK
<1>8. ASSUME NEW h \in Range(Hosts), OutputToNobody(h) \/ Restart(h) PROVE UNCHANGED mixer
  BY <1>8 DEF OutputToNobody, Restart
<1>9. ASSUME NEW h \in Range(Hosts), NEW n \in 0 .. Len(Head(server[h].queue).data), Input(h, n)
      PROVE  UNCHANGED mixer
  BY <1>9 DEF Input
<1>10. ASSUME NEW h \in Range(Hosts), NEW text \in StrangeTexts[h], StrangerConnects(h, text)
       PROVE  UNCHANGED mixer
  BY <1>10 DEF StrangerConnects
<1>11. CASE \/ Ask \/ SelectedServer \/ SendToServer \/ FailOver \/ Retry
            \/ Rest \/ UNCHANGED vars \/ \E id \in strangers : StrangerLeaves(id)
  <2>1. UNCHANGED mixer
    BY <1>11 DEF Ask, SelectedServer, SendToServer, FailOver, Retry, Rest, vars, StrangerLeaves
  <2> QED
    BY <1>0, <2>1
<1> QED
  BY <1>0, <1>1, <1>2, <1>3, <1>5, <1>6, <1>7, <1>8, <1>9, <1>10, <1>11, ReadsOK
     DEF Next, ClientStep

(* The user stays, and there are finitely many strangers.                    *)
LEMMA StrangersStep ==
  ASSUME TypeOK, [Next]_vars
  PROVE  IsFiniteSet(strangers') /\ UNCHANGED user
<1>0. IsFiniteSet(strangers)
  BY DEF TypeOK
<1>1. \/ UNCHANGED strangers
      \/ \E id : strangers' = strangers \ {id}
      \/ strangers' = strangers \cup {NewId}
  BY DEF Next, ClientStep, Ask, SelectedServer, SendToServer, FailOver, LaunchMixer, SendToMixer,
       Retry, Rest, vars, StrangerLeaves, StrangerConnects, Output, OutputToNobody, Crash, Restart,
       Input, MixerStarts, MixerReads, RPCEnds, MixerAnswers
<1>2. UNCHANGED user
  BY DEF Next, ClientStep, Ask, SelectedServer, SendToServer, FailOver, LaunchMixer, SendToMixer,
       Retry, Rest, vars, StrangerLeaves, StrangerConnects, Output, OutputToNobody, Crash, Restart,
       Input, MixerStarts, MixerReads, RPCEnds, MixerAnswers
<1> QED
  BY <1>0, <1>1, <1>2, FS_AddElement, FS_RemoveElement

-----------------------------------------------------------------------------
(* The first inductive invariant and what it implies.                        *)

(* The inductive invariant behind UnderstandsWhatWasSent and                 *)
(* GoodRequestsHarmless.                                                     *)
SessionInv ==
  /\ FailInv /\ TypeOK /\ AllSound(user, server)
  /\ RequestsAreUsable => mixer.pc # "dead"

(* It holds at first.                                                        *)
LEMMA SessionInit == Init => SessionInv
<1> SUFFICES ASSUME Init PROVE SessionInv
  OBVIOUS
<1>1. user \in Users
  BY DEF Init
<1>2. CallOK(user, call)
  BY DEF Init, CallOK, NoCall
<1>3. MixerOK(user, mixer) /\ mixer.pc # "dead"
  <2>1. mixer \in [pc : {"off"}, local : {FALSE, useMixer}, jobs : {{}}]
    BY DEF Init
  <2>2. useMixer \in BOOLEAN
    BY <1>1, SessionAssumption DEF useMixer
  <2>3. mixer.pc = "off" /\ mixer.local \in BOOLEAN /\ mixer.jobs = {}
        /\ DOMAIN mixer = {"pc", "local", "jobs"}
    BY <2>1, <2>2
  <2> QED
    BY <2>3, FS_EmptySet DEF MixerOK
<1>4. AllSound(user, server)
  BY ServersInit
<1>5. IsFiniteSet(strangers)
  BY FS_EmptySet DEF Init
<1>6. CountOK(user, count)
  <2>1. user.questions \in Seq(Range(user.questions))
    BY <1>1, SessionAssumption
  <2>2. count = [calls |-> 0, strangers |-> 0, crashes |-> 0]
    BY DEF Init
  <2>3. 0 \in 0 .. Len(user.questions)
    BY <2>1
  <2> QED
    BY <2>2, <2>3 DEF CountOK
<1> QED
  BY <1>1, <1>2, <1>3, <1>4, <1>5, <1>6, FailInit DEF SessionInv, TypeOK, AllSound

(* Every step keeps it, given what the mixer makes of the questions.         *)
LEMMA SessionStep ==
  ASSUME MixerForwardsLists
  PROVE  SessionInv /\ [Next]_vars => SessionInv'
<1> SUFFICES ASSUME SessionInv, [Next]_vars PROVE SessionInv'
  OBVIOUS
<1>1. /\ FailInv /\ ManagerOK /\ TypeOK /\ AllSound(user, server)
      /\ RequestsAreUsable => mixer.pc # "dead"
  BY DEF SessionInv, FailInv
<1>2. FailInv'
  BY <1>1, FailStep
<1>3. AllSound(user, server')
  BY <1>1, ServersStep
<1>4. CallOK(user, call') /\ CountOK(user, count')
  BY <1>1, CallStep
<1>5. MixerOK(user, mixer') /\ (RequestsAreUsable /\ mixer.pc # "dead") => mixer'.pc # "dead"
  BY <1>1, MixerStep
<1>6. IsFiniteSet(strangers') /\ user' = user
  BY <1>1, StrangersStep
<1>7. user' \in Users /\ MixerOK(user, mixer')
  BY <1>1, <1>6, MixerStep DEF TypeOK
<1>8. TypeOK'
  BY <1>3, <1>4, <1>6, <1>7 DEF TypeOK, AllSound
<1>9. AllSound(user, server)'
  BY <1>3, <1>6
<1> QED
  BY <1>1, <1>2, <1>5, <1>7, <1>8, <1>9 DEF SessionInv

(* It implies UnderstandsWhatWasSent.                                        *)
LEMMA SoundUnderstands ==
  ASSUME SessionInv
  PROVE  UnderstandsWhatWasSent
<1> SUFFICES ASSUME NEW h \in Range(Hosts), server[h].pc \in {"output", "died"}, ~server[h].cut,
                    Closed(Command(server[h].conn.data))
             PROVE  /\ IsPrefix(Command(server[h].conn.data), UpToNUL(server[h].buf))
                    /\ Execute(server[h].buf, server[h].held)
                         = Execute(Command(server[h].conn.data), server[h].held)
  BY DEF UnderstandsWhatWasSent
<1>1. Taken(server[h])
  BY DEF SessionInv, AllSound, Sound
<1>2. server[h].held \in HeldTables
  BY DEF SessionInv, TypeOK, ServersOK, ServerOK
<1> QED
  BY <1>1, <1>2 DEF Taken

(* What a server executes is the query that its connection brought, whatever *)
(* garbage its buffer holds behind it, for any queries of any clients,       *)
(* provided that what the mixer writes is a list (MixerForwardsLists). A     *)
(* query that was received in part is excepted, and one of the old protocol  *)
(* that opens a comment and leaves it open: OpcodeExecute looks for its end  *)
(* behind the end of the string, and executes what it finds there.           *)
THEOREM SentIsUnderstood ==
  ASSUME MixerForwardsLists
  PROVE  Spec => []UnderstandsWhatWasSent
<1>1. Init => SessionInv
  BY SessionInit
<1>2. SessionInv /\ [Next]_vars => SessionInv'
  BY SessionStep
<1>3. SessionInv => UnderstandsWhatWasSent
  BY SoundUnderstands
<1> QED
  BY <1>1, <1>2, <1>3, PTL DEF Spec

(* No request that gtags.py writes, or the mixer again for it, ends a server *)
(* by a CHECK or the mixer by an expression it cannot use, whatever stood in *)
(* the buffers before, provided none does so by itself (RequestsAreUsable):  *)
(* a server that ended so had the request of a stranger, or a part of one.   *)
THEOREM RequestsAreHarmless ==
  ASSUME MixerForwardsLists, RequestsAreUsable
  PROVE  Spec => []GoodRequestsHarmless
<1>1. Init => SessionInv
  BY SessionInit
<1>2. SessionInv /\ [Next]_vars => SessionInv'
  BY SessionStep
<1>3. SessionInv => GoodRequestsHarmless
  BY DEF SessionInv, AllSound, Sound, Harmless, GoodRequestsHarmless
<1> QED
  BY <1>1, <1>2, <1>3, PTL DEF Spec

-----------------------------------------------------------------------------
(* Which job a call waits for, and which connection a job waits for.         *)

(* The call is over, or as it was, or has a new number.                      *)
CallKept == call'.id = 0 \/ (call'.id = call.id /\ Line' = Line) \/ call'.id = NewId

(* Every connection was there before, or is new and has a new number.        *)
ConnsKept ==
  \A h \in Range(Hosts) : \A conn \in Conns(server'[h]) :
    \/ conn \in Conns(server[h])
    \/ conn.from \in {"nobody", "stranger"}
    \/ conn.id = NewId /\ conn.from = "client" /\ conn.data = Line'
    \/ /\ conn.id = NewId /\ conn.from = "mixer"
       /\ \A job \in mixer'.jobs : job.rpc = NewId => conn.data = Again(job.line)

(* Every job has the numbers and the line it had, or a new number.           *)
JobsKept ==
  \A new \in mixer'.jobs :
    /\ \/ new.rpc \in {0, NewId}
       \/ \E old \in mixer.jobs : new.rpc = old.rpc /\ new.line = old.line
    /\ \/ new.id = NewId /\ new.line = Line'
       \/ \E old \in mixer.jobs : new.id = old.id /\ new.line = old.line

(* Numbers link the calls, jobs and connections that belong together, when   *)
(* each of them stays as it was or takes a number that nothing else has.     *)
LEMMA LinkedKept ==
  ASSUME TypeOK, Linked, CallKept, ConnsKept, JobsKept
  PROVE  Linked'
<1> USE DEF CallKept, ConnsKept, JobsKept
<1> DEFINE id == NewId
<1>1. /\ id \in Nat \ {0} /\ id # call.id
      /\ \A job \in mixer.jobs : job.id # id /\ job.rpc # id
      /\ \A h \in Range(Hosts) : \A conn \in Conns(server[h]) : conn.id # id
  BY NewIdFresh
<1>2. ASSUME NEW h \in Range(Hosts), NEW conn \in Conns(server[h]), conn.from \in {"client", "mixer"}
      PROVE  conn.id # 0
  <2>1. ServerOK(user, server[h])
    BY DEF TypeOK, ServersOK
  <2>2. conn = Nobody \/ Brings(user, conn)
    BY <2>1 DEF Conns, ServerOK
  <2>3. conn # Nobody
    BY <1>2 DEF Nobody
  <2> QED
    BY <2>2, <2>3 DEF Brings
<1> HIDE DEF id
<1>3. ASSUME NEW h \in Range(Hosts), NEW conn \in Conns(server'[h]),
             conn.from = "client", conn.id = call'.id
      PROVE  conn.data = Line'
  <2>1. CASE conn \in Conns(server[h])
    <3>1. conn.id # 0 /\ conn.id # id
      BY <1>1, <1>2, <1>3, <2>1
    <3>2. call'.id = call.id /\ Line' = Line
      BY <1>3, <3>1 DEF id
    <3> QED
      BY <1>3, <2>1, <3>2 DEF Linked
  <2>2. CASE conn \notin Conns(server[h])
    BY <1>3, <2>2
  <2> QED
    BY <2>1, <2>2
<1>4. ASSUME NEW h \in Range(Hosts), NEW conn \in Conns(server'[h]), NEW job \in mixer'.jobs,
             conn.from = "mixer", conn.id = job.rpc
      PROVE  conn.data = Again(job.line)
  <2>1. CASE conn \in Conns(server[h])
    <3>1. conn.id # 0 /\ conn.id # id
      BY <1>1, <1>2, <1>4, <2>1
    <3>2. PICK old \in mixer.jobs : job.rpc = old.rpc /\ job.line = old.line
      BY <1>4, <3>1 DEF id
    <3> QED
      BY <1>4, <2>1, <3>2 DEF Linked
  <2>2. CASE conn \notin Conns(server[h])
    BY <1>4, <2>2
  <2> QED
    BY <2>1, <2>2
<1>5. ASSUME NEW job \in mixer'.jobs, job.id = call'.id
      PROVE  job.line = Line'
  <2>1. CASE \E old \in mixer.jobs : job.id = old.id /\ job.line = old.line
    <3>1. PICK old \in mixer.jobs : job.id = old.id /\ job.line = old.line
      BY <2>1
    <3>2. old.id # 0 /\ old.id # id
      BY <1>1 DEF TypeOK, MixerOK, JobOK
    <3>3. call'.id = call.id /\ Line' = Line
      BY <1>5, <3>1, <3>2 DEF id
    <3> QED
      BY <1>5, <3>1, <3>3 DEF Linked
  <2>2. CASE job.line = Line'
    BY <2>2
  <2> QED
    BY <2>1, <2>2
<1> QED
  BY <1>3, <1>4, <1>5 DEF Linked

-----------------------------------------------------------------------------
(* The connections of a server whose state changes.                          *)
LEMMA ConnectConns ==
  ASSUME TypeOK, NEW h \in Range(Hosts), NEW from, NEW line, Connect(h, from, line),
         NEW g \in Range(Hosts), NEW conn \in Conns(server'[g])
  PROVE  \/ conn \in Conns(server[g])
         \/ conn = [id |-> NewId, from |-> from, data |-> line]
<1> DEFINE new == [id |-> NewId, from |-> from, data |-> line]
<1> DEFINE s == server[h]
<1>1. server' = [server EXCEPT ![h] = [s EXCEPT !.queue = Append(@, new)]]
  BY DEF Connect
<1> HIDE DEF new
<1>2. CASE g = h
  <2>1. ServerOK(user, s)
    BY DEF TypeOK, ServersOK
  <2> DEFINE n == [s EXCEPT !.queue = Append(s.queue, new)]
  <2>2. server'[g] = n
    BY <1>1, <1>2 DEF TypeOK, ServersOK
  <2>3. n.conn = s.conn /\ n.queue = Append(s.queue, new)
    BY <2>1 DEF ServerOK
  <2>4. s.queue \in Seq(Range(s.queue))
    BY <2>1 DEF ServerOK, IsSeq
  <2> HIDE DEF s, n
  <2>5. Append(s.queue, new) \in Seq(Range(s.queue) \cup {new})
    BY <2>4
  <2>6. Range(Append(s.queue, new)) \subseteq Range(s.queue) \cup {new}
    BY <2>5, RangeOfSeq
  <2>7. conn \in Conns(s) \/ conn = new
    BY <2>2, <2>3, <2>6 DEF Conns
  <2> QED
    BY <1>2, <2>7 DEF s, new
<1>3. CASE g # h
  <2>1. server'[g] = server[g]
    BY <1>1, <1>3 DEF TypeOK, ServersOK
  <2> QED
    BY <2>1
<1> QED
  BY <1>2, <1>3

(* Every other step of a server has no connection that was not there.        *)
LEMMA OtherConns ==
  ASSUME MixerForwardsLists, TypeOK, NEW h \in Range(Hosts),
         \/ server' = Finished(h)
         \/ OutputToNobody(h) \/ Crash(h) \/ Restart(h)
         \/ /\ server[h].queue # <<>>
            /\ \E n \in 0 .. Len(Head(server[h].queue).data) : Input(h, n),
         NEW g \in Range(Hosts), NEW conn \in Conns(server'[g])
  PROVE  conn \in Conns(server[g]) \/ conn = Nobody
<1> DEFINE s == server[h]
<1>0. ServerOK(user, s)
  BY DEF TypeOK, ServersOK
<1>1. ASSUME NEW new, server' = [server EXCEPT ![h] = new], Conns(new) \subseteq Conns(s) \cup {Nobody}
      PROVE  conn \in Conns(server[g]) \/ conn = Nobody
  <2>1. server'[g] = IF g = h THEN new ELSE server[g]
    BY <1>1 DEF TypeOK, ServersOK
  <2> QED
    BY <1>1, <2>1
<1>2. Range(<<>>) = {}
  BY DEF Range
<1> HIDE DEF s
<1> DEFINE a == [s EXCEPT !.pc = "accept", !.conn = Nobody, !.held = s.table, !.cut = FALSE]
<1> DEFINE b == [Started(h, <<>>) EXCEPT !.pc = "down"]
<1>3. a.queue = s.queue /\ a.conn = Nobody
  BY <1>0 DEF ServerOK
<1>4. Conns(a) \subseteq Conns(s) \cup {Nobody}
  <2> HIDE DEF a
  <2> QED
    BY <1>3 DEF Conns
<1>5. Conns(b) \subseteq {Nobody}
  <2>1. IsSeq(<<>>)
    BY <1>2 DEF IsSeq
  <2> QED
    BY <2>1, StartedSound
<1>6. server' = Finished(h) => server' = [server EXCEPT ![h] = a]
  BY DEF Finished, s
<1>7. OutputToNobody(h) => server' = Finished(h) \/ server' = Killed(h)
  BY DEF OutputToNobody
<1>8. Crash(h) => server' = Killed(h)
  BY DEF Crash
<1>9. server' = Killed(h) => server' = [server EXCEPT ![h] = b]
  BY DEF Killed
<1> HIDE DEF a, b
<1>10. CASE server' = Finished(h) \/ OutputToNobody(h) \/ Crash(h)
  <2>1. server' = [server EXCEPT ![h] = a] \/ server' = [server EXCEPT ![h] = b]
    BY <1>6, <1>7, <1>8, <1>9, <1>10
  <2> QED
    BY <1>1, <1>4, <1>5, <2>1
<1>11. CASE Restart(h)
  <2>1. PICK garbage \in Garbage[h] : server' = [server EXCEPT ![h] = Started(h, garbage)]
    BY <1>11 DEF Restart
  <2>2. Conns(Started(h, garbage)) \subseteq {Nobody}
    BY BegunSound
  <2> HIDE DEF Started
  <2> QED
    BY <1>1, <2>1, <2>2
<1>12. CASE /\ server[h].queue # <<>>
            /\ \E n \in 0 .. Len(Head(server[h].queue).data) : Input(h, n)
  <2>1. PICK new : server' = [server EXCEPT ![h] = new] /\ Conns(new) \subseteq Conns(server[h])
    BY <1>12, InputTakes
  <2> QED
    BY <1>1, <2>1 DEF s
<1> QED
  BY <1>10, <1>11, <1>12

(* Every step ends the call, leaves it as it was, or gives it a new number.  *)
LEMMA CallKeptStep ==
  ASSUME TypeOK, [Next]_vars
  PROVE  CallKept
<1>0. DOMAIN call = {"pc", "question", "id", "retries", "outcome", "held", "cut"}
  BY DEF TypeOK, CallOK
<1>1. CASE Ask
  BY <1>1 DEF Ask, NoCall, CallKept
<1>2. ASSUME NEW kind, call' = Ended(kind) PROVE CallKept
  BY <1>0, <1>2 DEF Ended, CallKept
<1>3. ASSUME NEW text, NEW held, NEW cut, Answered(text, held, cut) PROVE CallKept
  <2> DEFINE new == Returned(call.question, text)
  <2> HIDE DEF new
  <2>1. call' = [call EXCEPT !.pc = "done", !.id = 0, !.held = held, !.cut = cut, !.outcome = new]
    BY <1>3 DEF Answered, new
  <2> QED
    BY <1>0, <2>1 DEF CallKept
<1>4. CASE NextServer
  <2>1. CASE call' = Ended("NoAvailableServer")
    BY <1>2, <2>1
  <2>2. CASE call' = [call EXCEPT !.pc = "connect", !.id = 0]
    BY <1>0, <2>2 DEF CallKept
  <2> QED
    BY <1>4, <2>1, <2>2 DEF NextServer
<1>5. CASE SendToServer \/ SendToMixer
  BY <1>0, <1>5 DEF SendToServer, SendToMixer, CallKept
<1>6. CASE Retry
  <2>1. CASE call' = Ended("socket.error")
    BY <1>2, <2>1
  <2>2. CASE call' = [call EXCEPT !.pc = "connect", !.id = 0, !.retries = call.retries + 1]
    BY <1>0, <2>2 DEF CallKept
  <2> QED
    BY <1>6, <2>1, <2>2 DEF Retry
<1>7. CASE UNCHANGED call
  BY <1>7 DEF CallKept, Line
<1>8. ASSUME NEW h \in Range(Hosts), Output(h) \/ Crash(h) PROVE CallKept
  <2>1. UNCHANGED call \/ \E text, held, cut : Answered(text, held, cut)
    BY <1>8 DEF Output, Crash
  <2> QED
    BY <1>3, <1>7, <2>1
<1>9. ASSUME NEW job \in mixer.jobs, MixerAnswers(job) PROVE CallKept
  <2>1. UNCHANGED call \/ \E text, held, cut : Answered(text, held, cut)
    BY <1>9 DEF MixerAnswers
  <2> QED
    BY <1>3, <1>7, <2>1
<1>10. ASSUME NEW h \in Range(Hosts), NEW n \in 0 .. Len(Head(server[h].queue).data), Input(h, n)
      PROVE  UNCHANGED call
  BY <1>10 DEF Input
<1>11. CASE \/ LaunchMixer \/ MixerStarts \/ Rest \/ UNCHANGED vars
            \/ \E id \in strangers : StrangerLeaves(id)
            \/ \E job \in mixer.jobs : RPCEnds(job) \/ MixerReads(job)
            \/ \E h \in Range(Hosts) : \/ OutputToNobody(h) \/ Restart(h)
                                       \/ \E text \in StrangeTexts[h] : StrangerConnects(h, text)
  <2>1. UNCHANGED call
    BY <1>11 DEF LaunchMixer, MixerStarts, Rest, vars, StrangerLeaves, RPCEnds, MixerReads,
         OutputToNobody, Restart, StrangerConnects
  <2> QED
    BY <1>7, <2>1
<1> QED
  BY <1>1, <1>4, <1>5, <1>6, <1>7, <1>8, <1>9, <1>10, <1>11
     DEF Next, ClientStep, SelectedServer, FailOver

(* A read line becomes a job that asks with a new number, if it asks.        *)
LEMMA ReadJobs ==
  ASSUME TypeOK, NEW job \in mixer.jobs, MixerReads(job), NEW new \in mixer'.jobs
  PROVE  \/ new \in mixer.jobs
         \/ new.id = job.id /\ new.line = job.line /\ new.rpc \in {0, NewId}
<1>0. MixerOK(user, mixer) /\ JobOK(user, job) /\ job.pc = "line" /\ job.rpc = 0
  BY DEF TypeOK, MixerOK, JobOK, MixerReads
<1> DEFINE request == Understanding(job.line)
<1> DEFINE mine == LocalPart(request, mixer.local)
<1>1. Understood(job, request)
  BY DEF MixerReads, Understanding
<1> HIDE DEF request, mine
<1> DEFINE a == [job EXCEPT !.pc = "mixed", !.answer = request.text]
<1> DEFINE b == [job EXCEPT !.pc = "rpc", !.local = mine.text, !.held = mine.held]
<1> DEFINE c == [b EXCEPT !.rpc = NewId]
<1> DEFINE d == [b EXCEPT !.rpc = 0]
<1>2. \/ mixer' = [mixer EXCEPT !.pc = "dead", !.jobs = {}]
      \/ mixer' = [mixer EXCEPT !.jobs = (mixer.jobs \ {job}) \cup {a}]
      \/ mixer' = [mixer EXCEPT !.jobs = (mixer.jobs \ {job}) \cup {c}]
      \/ mixer' = [mixer EXCEPT !.jobs = (mixer.jobs \ {job}) \cup {d}]
  BY <1>1 DEF Understood, mine
<1>3. a.id = job.id /\ a.line = job.line /\ a.rpc = 0
  BY <1>0 DEF JobOK, Shape
<1>4. DOMAIN b = DOMAIN job /\ b.id = job.id /\ b.line = job.line
  BY <1>0 DEF JobOK, Shape
<1> HIDE DEF b
<1>5. c.id = job.id /\ c.line = job.line /\ c.rpc = NewId
  BY <1>0, <1>4 DEF JobOK, Shape
<1>6. d.id = job.id /\ d.line = job.line /\ d.rpc = 0
  BY <1>0, <1>4 DEF JobOK, Shape
<1> HIDE DEF a, c, d
<1>7. \/ mixer'.jobs = {} \/ mixer'.jobs = (mixer.jobs \ {job}) \cup {a}
      \/ mixer'.jobs = (mixer.jobs \ {job}) \cup {c} \/ mixer'.jobs = (mixer.jobs \ {job}) \cup {d}
  BY <1>0, <1>2 DEF MixerOK
<1> QED
  BY <1>3, <1>5, <1>6, <1>7

(* The job that Mixed makes of one.                                          *)
MixedFrom(new, job, text, failure, held, cut) ==
  /\ new.id = job.id /\ new.line = job.line /\ new.rpc = 0 /\ new.pc = "mixed"
  /\ new.held = job.held \o held /\ new.cut = cut
  /\ new.answer = MixResult(<<job.local, text>>, failure)

(* The jobs after one of them was mixed.                                     *)
LEMMA MixedJobs ==
  ASSUME TypeOK, NEW job \in mixer.jobs, NEW text, NEW failure, NEW held, NEW cut,
         mixer' = [mixer EXCEPT !.jobs = Mixed(job, text, failure, held, cut)],
         NEW new \in mixer'.jobs
  PROVE  new \in mixer.jobs \/ MixedFrom(new, job, text, failure, held, cut)
<1>0. MixerOK(user, mixer) /\ JobOK(user, job)
  BY DEF TypeOK, MixerOK
<1> DEFINE answer == MixResult(<<job.local, text>>, failure)
<1> HIDE DEF answer
<1> DEFINE a == [job EXCEPT !.pc = "mixed", !.rpc = 0, !.held = @ \o held, !.cut = cut,
                    !.answer = answer]
<1>1. Mixed(job, text, failure, held, cut) = (mixer.jobs \ {job}) \cup {a}
  BY DEF Mixed, answer
<1>2. /\ a.id = job.id /\ a.line = job.line /\ a.rpc = 0 /\ a.pc = "mixed"
      /\ a.held = job.held \o held /\ a.cut = cut /\ a.answer = answer
  BY <1>0 DEF JobOK, Shape
<1> HIDE DEF a
<1>3. mixer'.jobs = (mixer.jobs \ {job}) \cup {a}
  BY <1>0, <1>1 DEF MixerOK
<1> QED
  BY <1>2, <1>3 DEF answer, MixedFrom

(* Every step leaves the jobs as they were, drops some, or gives one a new   *)
(* number for its RPC or its call.                                           *)
LEMMA JobsKeptStep ==
  ASSUME TypeOK, [Next]_vars
  PROVE  JobsKept
<1>0. MixerOK(user, mixer)
  BY DEF TypeOK
<1>1. CASE mixer'.jobs \subseteq mixer.jobs
  BY <1>1 DEF JobsKept
<1>2. CASE SendToMixer
  <2> DEFINE new == [id |-> NewId, pc |-> "line", line |-> Line, rpc |-> 0,
                     local |-> <<>>, held |-> <<>>, cut |-> FALSE, answer |-> <<>>]
  <2>1. mixer' = [mixer EXCEPT !.jobs = @ \cup {new}]
    BY <1>2 DEF SendToMixer
  <2>2. mixer'.jobs = mixer.jobs \cup {new}
    BY <1>0, <2>1 DEF MixerOK
  <2>3. Line' = Line
    <3>1. call'.question = call.question
      BY <1>2 DEF SendToMixer, TypeOK, CallOK
    <3> QED
      BY <3>1 DEF Line
  <2>4. new.id = NewId /\ new.line = Line' /\ new.rpc = 0
    BY <2>3
  <2> HIDE DEF new
  <2> QED
    BY <2>2, <2>4 DEF JobsKept
<1>3. ASSUME NEW job \in mixer.jobs, MixerReads(job) PROVE JobsKept
  BY <1>3, ReadJobs DEF JobsKept
<1>4. ASSUME NEW job \in mixer.jobs, NEW text, NEW failure, NEW held, NEW cut,
             mixer' = [mixer EXCEPT !.jobs = Mixed(job, text, failure, held, cut)]
      PROVE  JobsKept
  <2>1. ASSUME NEW new \in mixer'.jobs
        PROVE  new \in mixer.jobs \/ (new.id = job.id /\ new.line = job.line /\ new.rpc = 0)
    <3>1. new \in mixer.jobs \/ MixedFrom(new, job, text, failure, held, cut)
      BY <1>4, <2>1, MixedJobs
    <3> QED
      BY <3>1 DEF MixedFrom
  <2> QED
    BY <2>1 DEF JobsKept
<1>5. ASSUME NEW h \in Range(Hosts), Output(h) \/ Crash(h) PROVE JobsKept
  <2>1. CASE UNCHANGED mixer
    BY <1>1, <2>1
  <2>2. ASSUME NEW job \in mixer.jobs, NEW text, NEW held, Takes(h, job, text, held)
        PROVE  JobsKept
    <3>1. mixer' = [mixer EXCEPT !.jobs = Mixed(job, text, FALSE, held, server[h].cut)]
      BY <2>2 DEF Takes
    <3> QED
      BY <1>4, <3>1
  <2> QED
    BY <1>5, <2>1, <2>2, AnswerMixes
<1>6. ASSUME NEW job \in mixer.jobs, RPCEnds(job) PROVE JobsKept
  <2>1. PICK failure \in BOOLEAN :
          mixer' = [mixer EXCEPT !.jobs = Mixed(job, <<>>, failure, <<>>, FALSE)]
    BY <1>6 DEF RPCEnds
  <2> QED
    BY <1>4, <2>1
<1>7. CASE LaunchMixer \/ MixerStarts \/ \E job \in mixer.jobs : MixerAnswers(job)
  <2>1. \/ mixer' = [mixer EXCEPT !.pc = "starting"] \/ mixer' = [mixer EXCEPT !.pc = "up"]
        \/ \E job : mixer' = [mixer EXCEPT !.jobs = @ \ {job}]
    BY <1>7 DEF LaunchMixer, MixerStarts, MixerAnswers
  <2>2. mixer'.jobs \subseteq mixer.jobs
    BY <1>0, <2>1 DEF MixerOK
  <2> QED
    BY <1>1, <2>2
<1>8. CASE UNCHANGED mixer
  BY <1>1, <1>8
<1>9. ASSUME NEW h \in Range(Hosts), NEW n \in 0 .. Len(Head(server[h].queue).data), Input(h, n)
      PROVE  UNCHANGED mixer
  BY <1>9 DEF Input
<1>10. CASE \/ Ask \/ SelectedServer \/ SendToServer \/ FailOver \/ Retry
            \/ Rest \/ UNCHANGED vars \/ \E id \in strangers : StrangerLeaves(id)
            \/ \E h \in Range(Hosts) : \/ OutputToNobody(h) \/ Restart(h)
                                       \/ \E text \in StrangeTexts[h] : StrangerConnects(h, text)
  <2>1. UNCHANGED mixer
    BY <1>10 DEF Ask, SelectedServer, SendToServer, FailOver, Retry, Rest, vars, StrangerLeaves,
         OutputToNobody, Restart, StrangerConnects
  <2> QED
    BY <1>8, <2>1
<1> QED
  BY <1>2, <1>3, <1>5, <1>6, <1>7, <1>8, <1>9, <1>10 DEF Next, ClientStep

(* A read line: the new connection brings what the new job asks.             *)
LEMMA ReadConns ==
  ASSUME TypeOK, NEW job \in mixer.jobs, MixerReads(job)
  PROVE  ConnsKept
<1> DEFINE request == Understanding(job.line)
<1>1. CASE UNCHANGED server
  BY <1>1 DEF ConnsKept
<1>2. CASE request.got = "request" /\ Connect(Host(1), "mixer", Append(request.text, "\n"))
  <2>1. Connect(Host(1), "mixer", Again(job.line))
    BY <1>2 DEF Again
  <2> SUFFICES ASSUME NEW g \in Range(Hosts), NEW conn \in Conns(server'[g])
               PROVE  \/ conn \in Conns(server[g])
                      \/ /\ conn.id = NewId /\ conn.from = "mixer"
                         /\ \A j \in mixer'.jobs : j.rpc = NewId => conn.data = Again(j.line)
    BY DEF ConnsKept
  <2>2. \/ conn \in Conns(server[g])
        \/ conn = [id |-> NewId, from |-> "mixer", data |-> Again(job.line)]
    BY <2>1, FirstHost, ConnectConns
  <2>3. ASSUME NEW j \in mixer'.jobs, j.rpc = NewId PROVE j.line = job.line
    <3>1. j \notin mixer.jobs
      BY <2>3, NewIdFresh
    <3> QED
      BY <3>1, ReadJobs
  <2> QED
    BY <2>2, <2>3
<1> QED
  BY <1>1, <1>2 DEF MixerReads, Understood, Understanding

(* Every step leaves the connections as they were, drops some, or makes one  *)
(* with a new number.                                                        *)
LEMMA ConnsKeptStep ==
  ASSUME MixerForwardsLists, ManagerOK, TypeOK, [Next]_vars
  PROVE  ConnsKept
<1>1. CASE UNCHANGED server
  BY <1>1 DEF ConnsKept
<1>2. CASE SendToServer
  <2>1. Connect(Host(manager.current), "client", Line) /\ Host(manager.current) \in Range(Hosts)
    BY <1>2, CurrentHost DEF SendToServer
  <2>2. Line' = Line
    <3>1. call'.question = call.question
      BY <1>2 DEF SendToServer, TypeOK, CallOK
    <3> QED
      BY <3>1 DEF Line
  <2> SUFFICES ASSUME NEW g \in Range(Hosts), NEW conn \in Conns(server'[g])
               PROVE  \/ conn \in Conns(server[g])
                      \/ conn.id = NewId /\ conn.from = "client" /\ conn.data = Line'
    BY DEF ConnsKept
  <2>3. \/ conn \in Conns(server[g])
        \/ conn = [id |-> NewId, from |-> "client", data |-> Line]
    BY <2>1, ConnectConns
  <2> QED
    BY <2>2, <2>3
<1>3. ASSUME NEW h \in Range(Hosts), NEW text \in StrangeTexts[h], StrangerConnects(h, text)
      PROVE  ConnsKept
  <2>1. Connect(h, "stranger", text)
    BY <1>3 DEF StrangerConnects
  <2> SUFFICES ASSUME NEW g \in Range(Hosts), NEW conn \in Conns(server'[g])
               PROVE  conn \in Conns(server[g]) \/ conn.from = "stranger"
    BY DEF ConnsKept
  <2>2. \/ conn \in Conns(server[g])
        \/ conn = [id |-> NewId, from |-> "stranger", data |-> text]
    BY <2>1, ConnectConns
  <2> QED
    BY <2>2
<1>4. ASSUME NEW h \in Range(Hosts),
             \/ server' = Finished(h)
             \/ OutputToNobody(h) \/ Crash(h) \/ Restart(h)
             \/ /\ server[h].queue # <<>>
                /\ \E n \in 0 .. Len(Head(server[h].queue).data) : Input(h, n)
      PROVE  ConnsKept
  <2> SUFFICES ASSUME NEW g \in Range(Hosts), NEW conn \in Conns(server'[g])
               PROVE  conn \in Conns(server[g]) \/ conn.from = "nobody"
    BY DEF ConnsKept
  <2>1. conn \in Conns(server[g]) \/ conn = Nobody
    BY <1>4, OtherConns
  <2> QED
    BY <2>1 DEF Nobody
<1>5. ASSUME NEW h \in Range(Hosts), Output(h) PROVE ConnsKept
  <2>1. server' = Finished(h)
    BY <1>5 DEF Output
  <2> QED
    BY <1>4, <2>1
<1>6. CASE \/ Ask \/ SelectedServer \/ FailOver \/ LaunchMixer \/ SendToMixer \/ Retry
           \/ \E id \in strangers : StrangerLeaves(id)
           \/ MixerStarts
           \/ \E job \in mixer.jobs : RPCEnds(job) \/ MixerAnswers(job)
           \/ Rest \/ UNCHANGED vars
  <2>1. UNCHANGED server
    BY <1>6 DEF Ask, SelectedServer, FailOver, LaunchMixer, SendToMixer, Retry, StrangerLeaves,
       MixerStarts, RPCEnds, MixerAnswers, Rest, vars
  <2> QED
    BY <1>1, <2>1
<1>7. ASSUME NEW h \in Range(Hosts),
             \/ Output(h) \/ OutputToNobody(h) \/ Crash(h) \/ Restart(h)
             \/ /\ server[h].pc = "accept" /\ server[h].queue # <<>>
                /\ \E n \in 0 .. Len(Head(server[h].queue).data) : Input(h, n)
             \/ \E text \in StrangeTexts[h] : StrangerConnects(h, text)
      PROVE  ConnsKept
  BY <1>3, <1>4, <1>5, <1>7
<1>8. ASSUME NEW job \in mixer.jobs, MixerReads(job) PROVE ConnsKept
  BY <1>8, ReadConns
<1> QED
  BY <1>2, <1>6, <1>7, <1>8 DEF Next, ClientStep

(* Every step keeps the links.                                               *)
LEMMA LinkedStep ==
  ASSUME MixerForwardsLists, SessionInv, Linked, [Next]_vars
  PROVE  Linked'
<1>1. TypeOK /\ ManagerOK
  BY DEF SessionInv, FailInv
<1>2. CallKept
  BY <1>1, CallKeptStep
<1>3. ConnsKept
  BY <1>1, ConnsKeptStep
<1>4. JobsKept
  BY <1>1, JobsKeptStep
<1> QED
  BY <1>1, <1>2, <1>3, <1>4, LinkedKept

-----------------------------------------------------------------------------
(* Answers: from the server to the client, and through the mixer.            *)

(* What a server answers an uncut request.                                   *)
LEMMA AnswerIs ==
  ASSUME SessionInv, NEW h \in Range(Hosts), server[h].pc = "output", ~server[h].cut
  PROVE  /\ server[h].held \in HeldTables
         /\ (MixerForwardsLists /\ server[h].conn.from \in {"client", "mixer"}) =>
              Answer(h) = Execute(Command(server[h].conn.data), server[h].held).text
<1>1. Taken(server[h])
  BY DEF SessionInv, AllSound, Sound
<1>2. server[h].held \in HeldTables /\ Brings(user, server[h].conn) /\ user \in Users
  BY DEF SessionInv, TypeOK, ServersOK, ServerOK
<1>3. (MixerForwardsLists /\ server[h].conn.from \in {"client", "mixer"}) =>
         Closed(Command(server[h].conn.data))
  BY <1>2, RequestClosed
<1> QED
  BY <1>1, <1>2, <1>3 DEF Taken, Answer

(* A client's answer, whole or half.                                         *)
LEMMA ClientRight ==
  ASSUME MixerForwardsLists, AnswersAreReadable, SessionInv, Linked, NEW h \in Range(Hosts),
         server[h].pc = "output", Open(server[h].conn), server[h].conn.from = "client",
         ~server[h].cut
  PROVE  /\ IsAnswer(Returned(call.question, Answer(h)), call.question,
                     server[h].held, useMixer)
         /\ IsAnswer(Returned(call.question, Half(Answer(h))), call.question, <<>>, useMixer)
<1> DEFINE q == call.question
<1> DEFINE held == server[h].held
<1>1. TypeOK /\ user \in Users
  BY DEF SessionInv, TypeOK
<1>2. server[h].conn.id = call.id /\ call.id # 0
  BY <1>1, OpenClient
<1>3. q \in Range(user.questions)
  BY <1>1, <1>2, WaitsFor
<1>4. Brings(user, server[h].conn)
  BY <1>1 DEF TypeOK, ServersOK, ServerOK
<1>5. ~user.useMixer
  BY <1>4 DEF Brings
<1>6. server[h].conn.data = LineOf(q)
  BY <1>2 DEF Linked, Conns, Line, LineOf
<1>7. Command(server[h].conn.data) = MakeCommand(q)
  BY <1>1, <1>3, <1>6, LineText
<1>8. Answer(h) = Execute(MakeCommand(q), held).text /\ held \in HeldTables
  BY <1>4, <1>7, AnswerIs
<1> HIDE DEF q, held
<1> DEFINE answer == Execute(MakeCommand(q), held).text
<1>9. /\ IsAnswer(Returned(q, answer), q, held, user.useMixer)
      /\ IsAnswer(Returned(q, Half(answer)), q, <<>>, user.useMixer)
  BY <1>1, <1>3, <1>5, <1>8 DEF AnswersAreReadable
<1> QED
  BY <1>8, <1>9 DEF q, held, useMixer

(* What the mixer joins, of a server's answer or of none.                    *)
LEMMA JoinedRight ==
  ASSUME AnswersAreReadable, NEW u \in Users, u.useMixer, NEW q \in Range(u.questions),
         NEW held \in HeldTables, Forwarded(q).got = "request", NEW local \in BOOLEAN
  PROVE  /\ IsAnswer(Returned(q, MixResult(<<LocalPart(Forwarded(q), local).text,
                                             Execute(Written(q), held).text>>, FALSE)),
                     q, LocalPart(Forwarded(q), local).held \o held, TRUE)
         /\ IsAnswer(Returned(q, MixResult(<<LocalPart(Forwarded(q), local).text,
                                             Half(Execute(Written(q), held).text)>>, FALSE)),
                     q, LocalPart(Forwarded(q), local).held \o <<>>, TRUE)
         /\ \A failure \in BOOLEAN :
              IsAnswer(Returned(q, MixResult(<<LocalPart(Forwarded(q), local).text, <<>> >>, failure)),
                       q, LocalPart(Forwarded(q), local).held \o <<>>, TRUE)
<1>1. u.useMixer = TRUE
  BY SessionAssumption
<1> QED
  BY <1>1 DEF AnswersAreReadable

(* What the mixer answers itself, when it sends no server a request, is an   *)
(* answer.                                                                   *)
LEMMA NotForwardedRight ==
  ASSUME AnswersAreReadable, NEW u \in Users, u.useMixer, NEW q \in Range(u.questions),
         Forwarded(q).got # "request"
  PROVE  IsAnswer(Returned(q, Forwarded(q).text), q, <<>>, TRUE)
<1>1. u.useMixer = TRUE
  BY SessionAssumption
<1>2. Tables[Host(1)] \in HeldTables
  BY FirstTable
<1> QED
  BY <1>1, <1>2 DEF AnswersAreReadable

(* A read line becomes an answered job or one that asks.                     *)
LEMMA ReadRight ==
  ASSUME AnswersAreReadable, TypeOK, NEW job \in mixer.jobs, RightAnswer(user, job),
         MixerReads(job), NEW new \in mixer'.jobs, new \notin mixer.jobs
  PROVE  RightAnswer(user, new)
<1>0. MixerOK(user, mixer) /\ JobOK(user, job) /\ job.pc = "line" /\ user \in Users
  BY DEF TypeOK, MixerOK, JobOK, MixerReads
<1> DEFINE request == Understanding(job.line)
<1> DEFINE mine == LocalPart(request, mixer.local)
<1>1. Understood(job, request)
  BY DEF MixerReads, Understanding
<1>2. job.held = <<>> /\ job.cut = FALSE
  BY <1>0 DEF RightAnswer
<1> DEFINE a == [job EXCEPT !.pc = "mixed", !.answer = request.text]
<1> DEFINE b == [job EXCEPT !.pc = "rpc", !.local = mine.text, !.held = mine.held]
<1> DEFINE c == [b EXCEPT !.rpc = NewId]
<1> DEFINE d == [b EXCEPT !.rpc = 0]
<1>3. ASSUME request.got # "request" PROVE RightAnswer(user, a)
  <2>1. /\ a.pc = "mixed" /\ a.held = <<>> /\ a.line = job.line /\ a.answer = request.text
    <3> HIDE DEF request
    <3> QED
      BY <1>0, <1>2 DEF JobOK, Shape
  <2>2. ASSUME NEW q \in Range(user.questions), job.line = LineOf(q)
        PROVE  IsAnswer(Returned(q, request.text), q, <<>>, TRUE)
    <3>1. request = Forwarded(q)
      BY <1>0, <2>2, SameForwarded
    <3>2. user.useMixer
      BY <1>0 DEF JobOK
    <3> HIDE DEF request
    <3> QED
      BY <1>0, <1>3, <3>1, <3>2, NotForwardedRight
  <2> HIDE DEF a, request
  <2> QED
    BY <2>1, <2>2 DEF RightAnswer
<1>4. ASSUME request.got = "request", NEW r, NEW e, e = [b EXCEPT !.rpc = r]
      PROVE  RightAnswer(user, e)
  <2>1. /\ e.pc = "rpc" /\ e.line = job.line /\ e.cut = FALSE
        /\ e.local = mine.text /\ e.held = mine.held
    <3> HIDE DEF mine
    <3>1. /\ DOMAIN b = DOMAIN job /\ b.pc = "rpc" /\ b.line = job.line /\ b.cut = FALSE
          /\ b.local = mine.text /\ b.held = mine.held
      BY <1>0, <1>2 DEF JobOK, Shape
    <3> HIDE DEF b
    <3> QED
      BY <1>0, <1>4, <3>1 DEF JobOK, Shape
  <2>2. mixer.local \in BOOLEAN
    BY <1>0 DEF MixerOK
  <2>3. Mine(e)
    BY <2>1, <2>2 DEF Mine
  <2> HIDE DEF mine, b
  <2> QED
    BY <1>4, <2>1, <2>3 DEF RightAnswer
<1> HIDE DEF request, mine
<1>5. \/ mixer' = [mixer EXCEPT !.pc = "dead", !.jobs = {}]
      \/ request.got # "request" /\ mixer' = [mixer EXCEPT !.jobs = (mixer.jobs \ {job}) \cup {a}]
      \/ request.got = "request" /\ mixer' = [mixer EXCEPT !.jobs = (mixer.jobs \ {job}) \cup {c}]
      \/ request.got = "request" /\ mixer' = [mixer EXCEPT !.jobs = (mixer.jobs \ {job}) \cup {d}]
  BY <1>1 DEF Understood, mine
<1> HIDE DEF a, b
<1>6. request.got = "request" => RightAnswer(user, c) /\ RightAnswer(user, d)
  BY <1>4
<1> HIDE DEF c, d
<1>7. \/ mixer'.jobs = {}
      \/ request.got # "request" /\ mixer'.jobs = (mixer.jobs \ {job}) \cup {a}
      \/ request.got = "request" /\ mixer'.jobs = (mixer.jobs \ {job}) \cup {c}
      \/ request.got = "request" /\ mixer'.jobs = (mixer.jobs \ {job}) \cup {d}
  BY <1>0, <1>5 DEF MixerOK
<1> QED
  BY <1>3, <1>6, <1>7

(* What an RPC brought, or that it brought nothing, is joined.               *)
LEMMA MixedRight ==
  ASSUME AnswersAreReadable, TypeOK, NEW job \in mixer.jobs, RightAnswer(user, job),
         job.pc = "rpc", NEW text, NEW failure \in BOOLEAN, NEW held, NEW cut,
         ~cut => \/ text = <<>> /\ held = <<>>
                 \/ /\ failure = FALSE /\ held \in HeldTables
                    /\ text = Execute(Again(job.line), held).text
                 \/ /\ failure = FALSE /\ held = <<>>
                    /\ \E table \in HeldTables : text = Half(Execute(Again(job.line), table).text),
         NEW new, MixedFrom(new, job, text, failure, held, cut)
  PROVE  RightAnswer(user, new)
<1> USE DEF MixedFrom
<1> SUFFICES ASSUME ~cut, NEW q \in Range(user.questions), job.line = LineOf(q)
             PROVE  IsAnswer(Returned(q, new.answer), q, new.held, TRUE)
  BY DEF RightAnswer
<1>1. user \in Users /\ user.useMixer
  BY DEF TypeOK, MixerOK, JobOK
<1>2. Understanding(job.line) = Forwarded(q) /\ Again(job.line) = Written(q)
  BY <1>1, SameForwarded
<1>3. Forwarded(q).got = "request"
  BY <1>2 DEF RightAnswer
<1>4. PICK local \in BOOLEAN : /\ job.local = LocalPart(Forwarded(q), local).text
                               /\ job.held = LocalPart(Forwarded(q), local).held
  BY <1>2 DEF RightAnswer, Mine
<1>5. CASE text = <<>> /\ held = <<>>
  <2>1. Tables[Host(1)] \in HeldTables
    BY FirstTable
  <2>2. IsAnswer(Returned(q, MixResult(<<LocalPart(Forwarded(q), local).text, <<>> >>, failure)),
                 q, LocalPart(Forwarded(q), local).held \o <<>>, TRUE)
    BY <1>1, <1>3, <2>1, JoinedRight
  <2> QED
    BY <1>4, <1>5, <2>2
<1>6. CASE failure = FALSE /\ held \in HeldTables /\ text = Execute(Again(job.line), held).text
  <2>1. IsAnswer(Returned(q, MixResult(<<LocalPart(Forwarded(q), local).text,
                                         Execute(Written(q), held).text>>, FALSE)),
                 q, LocalPart(Forwarded(q), local).held \o held, TRUE)
    BY <1>1, <1>3, <1>6, JoinedRight
  <2> QED
    BY <1>2, <1>4, <1>6, <2>1
<1>7. ASSUME NEW table \in HeldTables, failure = FALSE, held = <<>>,
             text = Half(Execute(Again(job.line), table).text)
      PROVE  IsAnswer(Returned(q, new.answer), q, new.held, TRUE)
  <2>1. IsAnswer(Returned(q, MixResult(<<LocalPart(Forwarded(q), local).text,
                                         Half(Execute(Written(q), table).text)>>, FALSE)),
                 q, LocalPart(Forwarded(q), local).held \o <<>>, TRUE)
    BY <1>1, <1>3, JoinedRight
  <2> QED
    BY <1>2, <1>4, <1>7, <2>1
<1> QED
  BY <1>5, <1>6, <1>7

(* The answer of a server to the mixer.                                      *)
LEMMA OutputRight ==
  ASSUME MixerForwardsLists, AnswersAreReadable, SessionInv, Linked,
         \A job \in mixer.jobs : RightAnswer(user, job),
         NEW h \in Range(Hosts), Output(h) \/ Crash(h), NEW new \in mixer'.jobs
  PROVE  RightAnswer(user, new)
<1>0. TypeOK
  BY DEF SessionInv
<1>1. CASE new \in mixer.jobs
  BY <1>1
<1>2. CASE new \notin mixer.jobs
  <2> DEFINE s == server[h]
  <2>1. ~UNCHANGED mixer
    BY <1>2
  <2>2. PICK job \in mixer.jobs : \E text, held : Takes(h, job, text, held)
    BY <1>0, <2>1, AnswerMixes
  <2>3. PICK text, held : Takes(h, job, text, held)
    BY <2>2
  <2>4. /\ s.conn.from = "mixer" /\ s.pc = "output" /\ job.rpc = s.conn.id
        /\ \/ text = Answer(h) /\ held = s.held
           \/ text = Half(Answer(h)) /\ held = <<>>
        /\ mixer' = [mixer EXCEPT !.jobs = Mixed(job, text, FALSE, held, s.cut)]
    BY <2>3 DEF Takes
  <2>5. Brings(user, s.conn)
    BY <1>0, <2>4 DEF TypeOK, ServersOK, ServerOK
  <2>6. job.pc = "rpc"
    BY <1>0, <2>4, <2>5 DEF Brings, TypeOK, MixerOK, JobOK
  <2>7. s.conn.data = Again(job.line)
    BY <2>4 DEF Linked, Conns
  <2>8. Command(s.conn.data) = s.conn.data
    BY <1>0, <2>4, <2>5, RequestClosed DEF TypeOK
  <2>9. ~s.cut => s.held \in HeldTables /\ Answer(h) = Execute(Again(job.line), s.held).text
    BY <2>4, <2>7, <2>8, AnswerIs
  <2>10. MixedFrom(new, job, text, FALSE, held, s.cut)
    <3> HIDE DEF s
    <3> QED
      BY <1>0, <1>2, <2>4, MixedJobs
  <2> HIDE DEF s
  <2> QED
    BY <1>0, <2>4, <2>6, <2>9, <2>10, MixedRight
<1> QED
  BY <1>1, <1>2

(* An RPC that ends without a server leaves the job the local part, which is *)
(* an answer.                                                                *)
LEMMA EndsRight ==
  ASSUME AnswersAreReadable, TypeOK, \A job \in mixer.jobs : RightAnswer(user, job),
         NEW job \in mixer.jobs, RPCEnds(job), NEW new \in mixer'.jobs
  PROVE  RightAnswer(user, new)
<1>1. PICK failure \in BOOLEAN :
        mixer' = [mixer EXCEPT !.jobs = Mixed(job, <<>>, failure, <<>>, FALSE)]
  BY DEF RPCEnds
<1>2. new \in mixer.jobs \/ MixedFrom(new, job, <<>>, failure, <<>>, FALSE)
  BY <1>1, MixedJobs
<1>3. job.pc = "rpc"
  BY DEF RPCEnds
<1>4. CASE new \in mixer.jobs
  BY <1>4
<1>5. CASE MixedFrom(new, job, <<>>, failure, <<>>, FALSE)
  BY <1>3, <1>5, MixedRight
<1> QED
  BY <1>2, <1>4, <1>5

(* Every step leaves each job of the mixer with a right answer to its line.  *)
LEMMA JobsRightStep ==
  ASSUME MixerForwardsLists, AnswersAreReadable, SessionInv, Linked,
         \A job \in mixer.jobs : RightAnswer(user, job), [Next]_vars
  PROVE  \A new \in mixer'.jobs : RightAnswer(user, new)
<1> DEFINE Goal == \A new \in mixer'.jobs : RightAnswer(user, new)
<1>0. TypeOK /\ MixerOK(user, mixer)
  BY DEF SessionInv, TypeOK
<1>1. CASE mixer'.jobs \subseteq mixer.jobs
  BY <1>1
<1>2. CASE SendToMixer
  <2> DEFINE new == [id |-> NewId, pc |-> "line", line |-> Line, rpc |-> 0,
                     local |-> <<>>, held |-> <<>>, cut |-> FALSE, answer |-> <<>>]
  <2>1. mixer' = [mixer EXCEPT !.jobs = @ \cup {new}]
    BY <1>2 DEF SendToMixer
  <2>2. mixer'.jobs = mixer.jobs \cup {new}
    BY <1>0, <2>1 DEF MixerOK
  <2>3. RightAnswer(user, new)
    BY DEF RightAnswer
  <2> HIDE DEF new
  <2> QED
    BY <2>2, <2>3
<1>3. ASSUME NEW job \in mixer.jobs, MixerReads(job) PROVE Goal
  BY <1>0, <1>3, ReadRight
<1>4. ASSUME NEW h \in Range(Hosts), Output(h) \/ Crash(h) PROVE Goal
  BY <1>4, OutputRight
<1>5. ASSUME NEW job \in mixer.jobs, RPCEnds(job) PROVE Goal
  BY <1>0, <1>5, EndsRight
<1>7. CASE LaunchMixer \/ MixerStarts \/ \E job \in mixer.jobs : MixerAnswers(job)
  <2>1. \/ mixer' = [mixer EXCEPT !.pc = "starting"] \/ mixer' = [mixer EXCEPT !.pc = "up"]
        \/ \E job : mixer' = [mixer EXCEPT !.jobs = @ \ {job}]
    BY <1>7 DEF LaunchMixer, MixerStarts, MixerAnswers
  <2>2. mixer'.jobs \subseteq mixer.jobs
    BY <1>0, <2>1 DEF MixerOK
  <2> QED
    BY <1>1, <2>2
<1>8. CASE UNCHANGED mixer
  BY <1>1, <1>8
<1>9. ASSUME NEW h \in Range(Hosts), NEW n \in 0 .. Len(Head(server[h].queue).data), Input(h, n)
      PROVE  UNCHANGED mixer
  BY <1>9 DEF Input
<1>10. CASE \/ Ask \/ SelectedServer \/ SendToServer \/ FailOver \/ Retry
            \/ Rest \/ UNCHANGED vars \/ \E id \in strangers : StrangerLeaves(id)
            \/ \E h \in Range(Hosts) : \/ OutputToNobody(h) \/ Restart(h)
                                       \/ \E text \in StrangeTexts[h] : StrangerConnects(h, text)
  <2>1. UNCHANGED mixer
    BY <1>10 DEF Ask, SelectedServer, SendToServer, FailOver, Retry, Rest, vars, StrangerLeaves,
         OutputToNobody, Restart, StrangerConnects
  <2> QED
    BY <1>8, <2>1
<1> QED
  BY <1>2, <1>3, <1>4, <1>5, <1>7, <1>8, <1>9, <1>10 DEF Next, ClientStep

(* A call that ends without tags, or goes on.                                *)
LEMMA NoTagsRight ==
  ASSUME TypeOK, \/ call'.pc # "done"
                 \/ \E kind \in {"NoAvailableServer", "socket.error"} : call' = Ended(kind)
  PROVE  AnswersWhatWasAsked'
<1>1. ASSUME NEW kind \in {"NoAvailableServer", "socket.error"}, call' = Ended(kind)
      PROVE  call'.outcome.kind # "tags"
  <2>1. call'.outcome = [kind |-> kind]
    BY <1>1 DEF Ended, TypeOK, CallOK
  <2> QED
    BY <1>1, <2>1
<1> QED
  BY <1>1 DEF AnswersWhatWasAsked, IsAnswer

(* A call that takes a right answer returns what was held.                   *)
LEMMA AnsweredRight ==
  ASSUME TypeOK, UNCHANGED user, NEW text, NEW held, NEW cut, Answered(text, held, cut),
         ~cut => IsAnswer(Returned(call.question, text), call.question, held, useMixer)
  PROVE  AnswersWhatWasAsked'
<1> DEFINE outcome == Returned(call.question, text)
<1> HIDE DEF outcome
<1>1. call' = [call EXCEPT !.pc = "done", !.id = 0, !.held = held, !.cut = cut,
                 !.outcome = outcome]
  BY DEF Answered, outcome
<1>2. /\ call'.question = call.question /\ call'.held = held /\ call'.cut = cut
      /\ call'.outcome = outcome
  BY <1>1 DEF TypeOK, CallOK
<1>3. useMixer' = useMixer
  BY DEF useMixer
<1>4. ~cut => IsAnswer(outcome, call.question, held, useMixer)
  BY DEF outcome
<1> QED
  BY <1>2, <1>3, <1>4 DEF AnswersWhatWasAsked

(* Every step leaves the call with what was held for its question: the       *)
(* answer it takes is that of its own job or connection.                     *)
LEMMA AnswersStep ==
  ASSUME MixerForwardsLists, AnswersAreReadable, SessionInv, Linked, AnswersWhatWasAsked,
         \A job \in mixer.jobs : RightAnswer(user, job), [Next]_vars
  PROVE  AnswersWhatWasAsked'
<1>0. TypeOK /\ CallOK(user, call) /\ user' = user
  BY StrangersStep DEF SessionInv, TypeOK
<1>1. CASE UNCHANGED call
  BY <1>0, <1>1 DEF AnswersWhatWasAsked, useMixer
<1>2. CASE Ask \/ SendToServer \/ SendToMixer
  <2>1. call'.pc # "done"
    BY <1>0, <1>2 DEF Ask, SendToServer, SendToMixer, NoCall, CallOK
  <2> QED
    BY <1>0, <2>1, NoTagsRight
<1>3. CASE SelectedServer \/ FailOver \/ Retry
  <2>1. \/ \E kind \in {"NoAvailableServer", "socket.error"} : call' = Ended(kind)
        \/ call' = [call EXCEPT !.pc = "connect", !.id = 0]
        \/ call' = [call EXCEPT !.pc = "connect", !.id = 0, !.retries = @ + 1]
    BY <1>3 DEF SelectedServer, FailOver, Retry, NextServer
  <2>2. (\E kind \in {"NoAvailableServer", "socket.error"} : call' = Ended(kind)) \/ call'.pc # "done"
    BY <1>0, <2>1 DEF CallOK
  <2> QED
    BY <1>0, <2>2, NoTagsRight
<1>4. ASSUME NEW h \in Range(Hosts), Output(h) PROVE AnswersWhatWasAsked'
  <2>1. server[h].pc = "output" /\ Open(server[h].conn)
    BY <1>4 DEF Output
  <2>2. \/ UNCHANGED call
        \/ /\ server[h].conn.from = "client"
           /\ Answered(Answer(h), server[h].held, server[h].cut)
    BY <1>4 DEF Output
  <2>3. CASE /\ server[h].conn.from = "client"
             /\ Answered(Answer(h), server[h].held, server[h].cut)
    BY <1>0, <2>1, <2>3, ClientRight, AnsweredRight
  <2> QED
    BY <1>1, <2>2, <2>3
<1>5. ASSUME NEW h \in Range(Hosts), Crash(h) PROVE AnswersWhatWasAsked'
  <2>1. CASE UNCHANGED call
    BY <1>1, <2>1
  <2>2. CASE /\ server[h].pc = "output" /\ server[h].conn.from = "client" /\ Open(server[h].conn)
             /\ Answered(Half(Answer(h)), <<>>, server[h].cut)
    BY <1>0, <2>2, ClientRight, AnsweredRight
  <2> QED
    BY <1>5, <2>1, <2>2 DEF Crash
<1>6. ASSUME NEW job \in mixer.jobs, MixerAnswers(job) PROVE AnswersWhatWasAsked'
  <2>1. CASE call.id # job.id
    BY <1>1, <1>6, <2>1 DEF MixerAnswers
  <2>2. CASE call.id = job.id
    <3>1. Answered(job.answer, job.held, job.cut) /\ job.pc = "mixed"
      BY <1>6, <2>2 DEF MixerAnswers
    <3>2. job.id # 0 /\ user.useMixer
      BY <1>0 DEF TypeOK, MixerOK, JobOK
    <3>3. call.question \in Range(user.questions)
      BY <1>0, <2>2, <3>2, WaitsFor
    <3>4. job.line = LineOf(call.question)
      BY <2>2 DEF Linked, Line, LineOf
    <3>5. ~job.cut => IsAnswer(Returned(call.question, job.answer), call.question, job.held, TRUE)
      BY <3>1, <3>3, <3>4 DEF RightAnswer
    <3>6. useMixer = TRUE
      BY <1>0, <3>2, UserQuestions DEF useMixer
    <3> QED
      BY <1>0, <3>1, <3>5, <3>6, AnsweredRight
  <2> QED
    BY <2>1, <2>2
<1>7. ASSUME NEW h \in Range(Hosts), NEW n \in 0 .. Len(Head(server[h].queue).data), Input(h, n)
      PROVE  UNCHANGED call
  BY <1>7 DEF Input
<1>9. ASSUME NEW h \in Range(Hosts), \/ OutputToNobody(h) \/ Restart(h)
                                     \/ \E text \in StrangeTexts[h] : StrangerConnects(h, text)
      PROVE  AnswersWhatWasAsked'
  BY <1>1, <1>9 DEF OutputToNobody, Restart, StrangerConnects
<1>10. ASSUME NEW h \in Range(Hosts),
              \/ Output(h) \/ OutputToNobody(h) \/ Crash(h) \/ Restart(h)
              \/ /\ server[h].pc = "accept" /\ server[h].queue # <<>>
                 /\ \E n \in 0 .. Len(Head(server[h].queue).data) : Input(h, n)
              \/ \E text \in StrangeTexts[h] : StrangerConnects(h, text)
       PROVE  AnswersWhatWasAsked'
  BY <1>1, <1>4, <1>5, <1>7, <1>9, <1>10
<1>11. ASSUME NEW job \in mixer.jobs, MixerReads(job) \/ RPCEnds(job) \/ MixerAnswers(job)
       PROVE  AnswersWhatWasAsked'
  <2>1. CASE MixerReads(job) \/ RPCEnds(job)
    BY <1>1, <2>1 DEF MixerReads, RPCEnds
  <2> QED
    BY <1>6, <1>11, <2>1
<1>12. CASE LaunchMixer \/ MixerStarts \/ Rest \/ UNCHANGED vars
            \/ \E id \in strangers : StrangerLeaves(id)
  <2>1. UNCHANGED call
    BY <1>12 DEF LaunchMixer, MixerStarts, Rest, vars, StrangerLeaves
  <2> QED
    BY <1>1, <2>1
<1> QED
  BY <1>2, <1>3, <1>10, <1>11, <1>12 DEF Next, ClientStep

(* The inductive invariant behind AnswersWhatWasAsked.                       *)
AnswerInv ==
  /\ SessionInv /\ Linked /\ AnswersWhatWasAsked
  /\ \A job \in mixer.jobs : RightAnswer(user, job)

(* It holds at first.                                                        *)
LEMMA AnswerInit == Init => AnswerInv
<1> SUFFICES ASSUME Init PROVE AnswerInv
  OBVIOUS
<1>1. SessionInv
  BY SessionInit
<1>2. mixer.jobs = {} /\ call = NoCall
  BY DEF Init
<1>3. AnswersWhatWasAsked
  BY <1>2 DEF AnswersWhatWasAsked, NoCall
<1>4. Linked
  <2>1. ASSUME NEW h \in Range(Hosts), NEW conn \in Conns(server[h]) PROVE conn.from = "nobody"
    <3>1. PICK garbage \in Garbage[h] : server[h] = Started(h, garbage)
      BY DEF Init
    <3>2. Conns(server[h]) = {Nobody}
      BY <3>1, BegunSound
    <3> QED
      BY <2>1, <3>2 DEF Nobody
  <2> QED
    BY <1>2, <2>1 DEF Linked
<1> QED
  BY <1>1, <1>2, <1>3, <1>4 DEF AnswerInv

(* Every step keeps it.                                                      *)
LEMMA AnswerStep ==
  ASSUME MixerForwardsLists, AnswersAreReadable
  PROVE  AnswerInv /\ [Next]_vars => AnswerInv'
<1> SUFFICES ASSUME AnswerInv, [Next]_vars PROVE AnswerInv'
  OBVIOUS
<1> USE DEF AnswerInv
<1>1. SessionInv'
  BY SessionStep
<1>2. Linked'
  BY LinkedStep
<1>3. AnswersWhatWasAsked'
  BY AnswersStep
<1>4. \A new \in mixer'.jobs : RightAnswer(user, new)
  BY JobsRightStep
<1>5. user' = user
  BY StrangersStep DEF SessionInv
<1> QED
  BY <1>1, <1>2, <1>3, <1>4, <1>5

(* The tags a call of gtags.py returns are those the server that answered    *)
(* held for its question when it executed it, behind those of the mixer's    *)
(* local index, in order and unchanged, for any servers, crashes, strangers  *)
(* and left-over bytes, provided that whole and half answers to the          *)
(* questions are read so (AnswersAreReadable) and the mixer sends lists      *)
(* (MixerForwardsLists).                                                     *)
THEOREM CallsAreAnswered ==
  ASSUME MixerForwardsLists, AnswersAreReadable
  PROVE  Spec => []AnswersWhatWasAsked
<1>1. Init => AnswerInv
  BY AnswerInit
<1>2. AnswerInv /\ [Next]_vars => AnswerInv'
  BY AnswerStep
<1>3. AnswerInv => AnswersWhatWasAsked
  BY DEF AnswerInv
<1> QED
  BY <1>1, <1>2, <1>3, PTL DEF Spec

=============================================================================
