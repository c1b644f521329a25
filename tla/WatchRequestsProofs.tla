------------------------- MODULE WatchRequestsProofs -------------------------
(* Theorems about WatchRequests, for any tree, any requests and any queue:   *)
(* the excludes of a request hold for its directories and for no others; and *)
(* the watcher's map, its watches and what it puts on the index queue are as *)
(* they should, whatever the two threads and the file system do meanwhile.   *)
EXTENDS WatchRequests, SequenceTheorems, FiniteSetTheorems, TLAPS

(* The commands the worker has yet to take, in the queue or not put yet.     *)
Coming ==
  [i \in 1 .. Len(commands) + Len(pushing) |->
     IF i <= Len(commands) THEN commands[i] ELSE pushing[i - Len(commands)]]

ComingLen == Len(commands) + Len(pushing)

Adds(c, n) == c.code = "EXCLUDE" /\ c.arg.name = n
Removes(c, n) == c.code = "REMOVE_EXCLUDE" /\ c.arg.name = n

(* The name n will be excluded when the worker comes to command i of cs, if  *)
(* the names of ex are now.                                                  *)
Forced(ex, cs, n, i) ==
  \/ n \in ex /\ \A m \in 1 .. i - 1 : ~Removes(cs[m], n)
  \/ \E k \in 1 .. i - 1 : Adds(cs[k], n) /\ \A m \in k + 1 .. i - 1 : ~Removes(cs[m], n)

(* Each directory meets the excludes of its request, and none is left after  *)
(* the last command.                                                         *)
Bracketed(ex, cs, len) ==
  /\ \A i \in 1 .. len : cs[i].code \in {"ADD", "REMOVE"} =>
       \A n : Forced(ex, cs, n, i) <=> n \in Names(cs[i].request)
  /\ \A n : ~Forced(ex, cs, n, len + 1)

Args == UNION {{r.dirs[i] : i \in DOMAIN r.dirs} \cup {r.excludes[i] : i \in DOMAIN r.excludes} :
               r \in Requests}

(* The directories they ask for.                                             *)
Asked == UNION {{r.dirs[i] : i \in DOMAIN r.dirs} : r \in Requests}

Commands ==
  {c \in [code : {"EXCLUDE", "REMOVE_EXCLUDE", "ADD", "REMOVE"}, arg : Args,
          request : Requests] :
     c.code \in {"ADD", "REMOVE"} => c.arg \in Asked}

WRInv ==
  /\ commands \in Seq(Commands) /\ pushing \in Seq(Commands)
  /\ pc = [t \in {Inotify, Worker} |-> pc[t]]
  /\ Bracketed(excludes, Coming, ComingLen)
  /\ pc[Worker] # "idle" => excludes = Names(command.request)

-----------------------------------------------------------------------------
(* What is true of a prefix of the commands does not depend on the rest.     *)
LEMMA ForcedPrefix ==
  ASSUME NEW ex, NEW cs, NEW ds, NEW n, NEW i \in Nat,
         \A m \in 1 .. i - 1 : cs[m] = ds[m]
  PROVE  Forced(ex, cs, n, i) <=> Forced(ex, ds, n, i)
BY DEF Forced

(* After a command was taken and its effect is in ex.                        *)
LEMMA ForcedTail ==
  ASSUME NEW ex, NEW fx, NEW cs, NEW ds, NEW n, NEW i \in Nat \ {0},
         \A m \in 1 .. i - 1 : ds[m] = cs[m + 1],
         n \in fx <=> (Adds(cs[1], n) \/ (n \in ex /\ ~Removes(cs[1], n)))
  PROVE  Forced(fx, ds, n, i) <=> Forced(ex, cs, n, i + 1)
<1>1. ASSUME Forced(fx, ds, n, i) PROVE Forced(ex, cs, n, i + 1)
  <2>1. CASE n \in fx /\ \A m \in 1 .. i - 1 : ~Removes(ds[m], n)
    <3>1. \A m \in 2 .. i : ~Removes(cs[m], n)
      <4>1. ASSUME NEW m \in 2 .. i PROVE ~Removes(cs[m], n)
        <5>1. m - 1 \in 1 .. i - 1 /\ ds[m - 1] = cs[(m - 1) + 1] /\ (m - 1) + 1 = m
          OBVIOUS
        <5> QED
          BY <2>1, <5>1
      <4> QED
        BY <4>1
    <3>2. CASE Adds(cs[1], n)
      <4>1. 1 \in 1 .. (i + 1) - 1 /\ 1 + 1 .. (i + 1) - 1 = 2 .. i
        OBVIOUS
      <4> QED
        BY <3>1, <3>2, <4>1 DEF Forced
    <3>3. CASE n \in ex /\ ~Removes(cs[1], n)
      <4>1. ASSUME NEW m \in 1 .. (i + 1) - 1 PROVE ~Removes(cs[m], n)
        <5>1. m = 1 \/ m \in 2 .. i
          OBVIOUS
        <5> QED
          BY <3>1, <3>3, <5>1
      <4> QED
        BY <3>3, <4>1 DEF Forced
    <3> QED
      BY <2>1, <3>2, <3>3
  <2>2. CASE \E k \in 1 .. i - 1 : Adds(ds[k], n) /\ \A m \in k + 1 .. i - 1 : ~Removes(ds[m], n)
    <3>1. PICK k \in 1 .. i - 1 : Adds(ds[k], n) /\ \A m \in k + 1 .. i - 1 : ~Removes(ds[m], n)
      BY <2>2
    <3>2. k + 1 \in 1 .. (i + 1) - 1 /\ Adds(cs[k + 1], n)
      BY <3>1
    <3>3. ASSUME NEW m \in (k + 1) + 1 .. (i + 1) - 1 PROVE ~Removes(cs[m], n)
      <4>1. m - 1 \in k + 1 .. i - 1 /\ m - 1 \in 1 .. i - 1 /\ (m - 1) + 1 = m
        OBVIOUS
      <4> QED
        BY <3>1, <4>1
    <3> QED
      BY <3>2, <3>3 DEF Forced
  <2> QED
    BY <1>1, <2>1, <2>2 DEF Forced
<1>2. ASSUME Forced(ex, cs, n, i + 1) PROVE Forced(fx, ds, n, i)
  <2>0. ASSUME NEW k \in Nat, \A m \in k + 2 .. i : ~Removes(cs[m], n)
        PROVE  \A m \in k + 1 .. i - 1 : ~Removes(ds[m], n)
    <3>1. ASSUME NEW m \in k + 1 .. i - 1 PROVE ~Removes(ds[m], n)
      <4>1. m + 1 \in k + 2 .. i /\ m \in 1 .. i - 1
        OBVIOUS
      <4> QED
        BY <2>0, <4>1
    <3> QED
      BY <3>1
  <2>a. (i + 1) - 1 = i
    OBVIOUS
  <2>1. CASE n \in ex /\ \A m \in 1 .. i : ~Removes(cs[m], n)
    <3>1. n \in fx
      BY <2>1
    <3>2. \A m \in 0 + 2 .. i : ~Removes(cs[m], n)
      BY <2>1
    <3>3. \A m \in 1 .. i - 1 : ~Removes(ds[m], n)
      BY <2>0, <3>2
    <3> QED
      BY <3>1, <3>3 DEF Forced
  <2>2. CASE \E k \in 1 .. i : Adds(cs[k], n) /\ \A m \in k + 1 .. i : ~Removes(cs[m], n)
    <3>1. PICK k \in 1 .. i : Adds(cs[k], n) /\ \A m \in k + 1 .. i : ~Removes(cs[m], n)
      BY <2>2
    <3>2. k - 1 \in Nat /\ \A m \in (k - 1) + 2 .. i : ~Removes(cs[m], n)
      BY <3>1
    <3>3. \A m \in (k - 1) + 1 .. i - 1 : ~Removes(ds[m], n)
      BY <2>0, <3>2
    <3>4. CASE k = 1
      <4>1. n \in fx
        BY <3>1, <3>4
      <4> QED
        BY <3>3, <3>4, <4>1 DEF Forced
    <3>5. CASE k # 1
      <4>1. k - 1 \in 1 .. i - 1 /\ (k - 1) + 1 = k
        BY <3>5
      <4>2. Adds(ds[k - 1], n)
        BY <3>1, <4>1
      <4> QED
        BY <3>3, <4>1, <4>2 DEF Forced
    <3> QED
      BY <3>4, <3>5
  <2> QED
    BY <1>2, <2>a, <2>1, <2>2 DEF Forced
<1> QED
  BY <1>1, <1>2

(* Taking the first command keeps the others bracketed.                      *)
LEMMA BracketedTail ==
  ASSUME NEW ex, NEW fx, NEW cs, NEW ds, NEW len \in Nat \ {0},
         Bracketed(ex, cs, len),
         \A m \in 1 .. len - 1 : ds[m] = cs[m + 1],
         \A n : n \in fx <=> (Adds(cs[1], n) \/ (n \in ex /\ ~Removes(cs[1], n)))
  PROVE  Bracketed(fx, ds, len - 1)
<1>1. ASSUME NEW i \in 1 .. len, NEW n
      PROVE  Forced(fx, ds, n, i) <=> Forced(ex, cs, n, i + 1)
  <2>1. i \in Nat \ {0} /\ \A m \in 1 .. i - 1 : ds[m] = cs[m + 1]
    OBVIOUS
  <2>2. n \in fx <=> (Adds(cs[1], n) \/ (n \in ex /\ ~Removes(cs[1], n)))
    OBVIOUS
  <2> QED
    BY <2>1, <2>2, ForcedTail
<1>2. ASSUME NEW i \in 1 .. len - 1, ds[i].code \in {"ADD", "REMOVE"}, NEW n
      PROVE  Forced(fx, ds, n, i) <=> n \in Names(ds[i].request)
  <2>1. i \in 1 .. len /\ i + 1 \in 1 .. len /\ ds[i] = cs[i + 1]
    OBVIOUS
  <2>2. Forced(ex, cs, n, i + 1) <=> n \in Names(cs[i + 1].request)
    BY <1>2, <2>1 DEF Bracketed
  <2> QED
    BY <1>1, <2>1, <2>2
<1>3. ASSUME NEW n PROVE ~Forced(fx, ds, n, (len - 1) + 1)
  <2>1. len \in 1 .. len /\ (len - 1) + 1 = len
    OBVIOUS
  <2>2. ~Forced(ex, cs, n, len + 1)
    BY DEF Bracketed
  <2> QED
    BY <1>1, <2>1, <2>2
<1> QED
  BY <1>2, <1>3 DEF Bracketed

(* Behind the len commands of cs, ds has those of r, with e excludes and d    *)
(* directories.                                                              *)
Brings(cs, ds, len, r, e, d) ==
  /\ \A m \in 1 .. len : ds[m] = cs[m]
  /\ \A j \in 1 .. e : /\ ds[len + j].code = "EXCLUDE"
                       /\ ds[len + j].arg = r.excludes[j]
  /\ \A j \in 1 .. d : /\ ds[len + e + j].code \in {"ADD", "REMOVE"}
                       /\ ds[len + e + j].request = r
  /\ \A j \in 1 .. e : /\ ds[len + e + d + j].code = "REMOVE_EXCLUDE"
                       /\ ds[len + e + d + j].arg = r.excludes[j]

(* A request brings its own brackets: behind the others, its excludes come   *)
(* before its directories, and are all undone after them.                    *)
LEMMA BracketedAppend ==
  ASSUME NEW ex, NEW cs, NEW ds, NEW r, NEW len \in Nat, NEW e \in Nat, NEW d \in Nat,
         Bracketed(ex, cs, len), DOMAIN r.excludes = 1 .. e,
         Brings(cs, ds, len, r, e, d)
  PROVE  Bracketed(ex, ds, len + e + d + e)
<1> DEFINE last == len + e + d + e
<1> USE DEF Brings
<1>1. ASSUME NEW n PROVE n \in Names(r) <=> \E j \in 1 .. e : r.excludes[j].name = n
  BY DEF Names
<1>2. ASSUME NEW m \in 1 .. last
      PROVE  \/ m \in 1 .. len /\ ds[m] = cs[m]
             \/ \E j \in 1 .. e : m = len + j /\ ds[m].code = "EXCLUDE" /\ ds[m].arg = r.excludes[j]
             \/ /\ m \in len + e + 1 .. len + e + d
                /\ ds[m].code \in {"ADD", "REMOVE"} /\ ds[m].request = r
             \/ \E j \in 1 .. e : m = len + e + d + j /\ ds[m].code = "REMOVE_EXCLUDE"
  <2>1. CASE m \in 1 .. len
    BY <2>1
  <2>2. CASE m \in len + 1 .. len + e
    <3>1. PICK j \in 1 .. e : m = len + j
      <4>1. m - len \in 1 .. e /\ m = len + (m - len)
        BY <2>2
      <4> QED
        BY <4>1
    <3>2. ds[len + j].code = "EXCLUDE" /\ ds[len + j].arg = r.excludes[j]
      OBVIOUS
    <3> QED
      BY <3>1, <3>2
  <2>3. CASE m \in len + e + 1 .. len + e + d
    <3>1. m - (len + e) \in 1 .. d /\ m = len + e + (m - (len + e))
      BY <2>3
    <3> QED
      BY <2>3, <3>1
  <2>4. CASE m \in len + e + d + 1 .. last
    <3>1. PICK j \in 1 .. e : m = len + e + d + j
      <4>1. m - (len + e + d) \in 1 .. e /\ m = len + e + d + (m - (len + e + d))
        BY <2>4
      <4> QED
        BY <4>1
    <3>2. ds[len + e + d + j].code = "REMOVE_EXCLUDE"
      OBVIOUS
    <3> QED
      BY <3>1, <3>2
  <2> QED
    BY <2>1, <2>2, <2>3, <2>4
<1>3. ASSUME NEW n, NEW i \in len + 1 .. last + 1, Forced(ex, ds, n, i)
      PROVE  \E k \in len + 1 .. len + e : /\ k < i /\ Adds(ds[k], n) /\ n \in Names(r)
                                           /\ \A m \in k + 1 .. i - 1 : ~Removes(ds[m], n)
  <2>1. ~Forced(ex, cs, n, len + 1)
    BY DEF Bracketed
  <2>2. (len + 1) - 1 = len
    OBVIOUS
  <2>3. n \notin ex \/ \E m \in 1 .. len : Removes(cs[m], n)
    BY <2>1, <2>2 DEF Forced
  <2>4. PICK k \in 1 .. i - 1 : Adds(ds[k], n) /\ \A m \in k + 1 .. i - 1 : ~Removes(ds[m], n)
    <3>1. ASSUME n \in ex, \A m \in 1 .. i - 1 : ~Removes(ds[m], n) PROVE FALSE
      <4>1. PICK m \in 1 .. len : Removes(cs[m], n)
        BY <2>3, <3>1
      <4>2. m \in 1 .. i - 1 /\ ds[m] = cs[m]
        OBVIOUS
      <4> QED
        BY <3>1, <4>1, <4>2
    <3> QED
      BY <1>3, <3>1 DEF Forced
  <2>5. k \notin 1 .. len
    <3>1. ASSUME k \in 1 .. len PROVE FALSE
      <4>1. ASSUME NEW m \in k + 1 .. len PROVE ~Removes(cs[m], n)
        <5>1. m \in k + 1 .. i - 1 /\ m \in 1 .. len
          BY <3>1
        <5> QED
          BY <2>4, <5>1
      <4>2. Adds(cs[k], n)
        BY <2>4, <3>1
      <4> QED
        BY <2>1, <2>2, <3>1, <4>1, <4>2 DEF Forced
    <3> QED
      BY <3>1
  <2>6. k \in 1 .. last /\ ds[k].code = "EXCLUDE"
    BY <2>4 DEF Adds
  <2>7. PICK j \in 1 .. e : k = len + j /\ ds[k].arg = r.excludes[j]
    BY <1>2, <2>5, <2>6
  <2>8. n \in Names(r)
    BY <1>1, <2>4, <2>7 DEF Adds
  <2>9. k \in len + 1 .. len + e /\ k < i
    BY <2>4, <2>7
  <2> QED
    BY <2>4, <2>8, <2>9
<1>4. ASSUME NEW i \in 1 .. last, ds[i].code \in {"ADD", "REMOVE"}, NEW n
      PROVE  Forced(ex, ds, n, i) <=> n \in Names(ds[i].request)
  <2>1. CASE i \in 1 .. len
    <3>1. Forced(ex, cs, n, i) <=> n \in Names(cs[i].request)
      BY <1>4, <2>1 DEF Bracketed
    <3>2. i \in Nat /\ \A m \in 1 .. i - 1 : ds[m] = cs[m]
      BY <2>1
    <3> QED
      BY <2>1, <3>1, <3>2, ForcedPrefix
  <2>2. CASE i \notin 1 .. len
    <3>1. i \in len + e + 1 .. len + e + d /\ ds[i].request = r
      BY <1>2, <1>4, <2>2
    <3>2. ASSUME n \in Names(r) PROVE Forced(ex, ds, n, i)
      <4>1. PICK j \in 1 .. e : r.excludes[j].name = n
        BY <1>1, <3>2
      <4>2. len + j \in 1 .. i - 1 /\ Adds(ds[len + j], n)
        BY <3>1, <4>1 DEF Adds
      <4>3. ASSUME NEW m \in (len + j) + 1 .. i - 1 PROVE ~Removes(ds[m], n)
        <5>1. m \in 1 .. last /\ m \notin 1 .. len
          BY <3>1
        <5>2. m < i /\ i <= len + e + d
          BY <3>1
        <5>3. ~\E l \in 1 .. e : m = len + e + d + l
          BY <5>2
        <5>4. ds[m].code \in {"EXCLUDE", "ADD", "REMOVE"}
          <6>1. \/ \E l \in 1 .. e : m = len + l /\ ds[m].code = "EXCLUDE"
                \/ ds[m].code \in {"ADD", "REMOVE"}
            BY <1>2, <5>1, <5>3
          <6> QED
            BY <6>1
        <5> QED
          BY <5>4 DEF Removes
      <4> QED
        BY <4>2, <4>3 DEF Forced
    <3>3. ASSUME Forced(ex, ds, n, i) PROVE n \in Names(r)
      <4>1. i \in len + 1 .. last + 1
        BY <3>1
      <4> QED
        BY <1>3, <3>3, <4>1
    <3> QED
      BY <3>1, <3>2, <3>3
  <2> QED
    BY <2>1, <2>2
<1>5. ASSUME NEW n, Forced(ex, ds, n, last + 1) PROVE FALSE
  <2>1. last + 1 \in len + 1 .. last + 1 /\ (last + 1) - 1 = last
    OBVIOUS
  <2>2. PICK k \in len + 1 .. len + e : /\ n \in Names(r)
                                        /\ \A m \in k + 1 .. last : ~Removes(ds[m], n)
    BY <1>3, <1>5, <2>1
  <2>3. PICK j \in 1 .. e : r.excludes[j].name = n
    BY <1>1, <2>2
  <2>4. len + e + d + j \in k + 1 .. last /\ Removes(ds[len + e + d + j], n)
    BY <2>3 DEF Removes
  <2> QED
    BY <2>2, <2>4
<1> QED
  BY <1>4, <1>5 DEF Bracketed

-----------------------------------------------------------------------------
(* The elements of a concatenation.                                          *)
LEMMA ConcatParts ==
  ASSUME NEW a \in Seq(Commands), NEW b \in Seq(Commands)
  PROVE  /\ a \o b \in Seq(Commands) /\ Len(a \o b) = Len(a) + Len(b)
         /\ \A i \in 1 .. Len(a) : (a \o b)[i] = a[i]
         /\ \A i \in 1 .. Len(b) : (a \o b)[Len(a) + i] = b[i]
<1>1. /\ a \o b \in Seq(Commands) /\ Len(a) \in Nat /\ Len(b) \in Nat
      /\ Len(a \o b) = Len(a) + Len(b)
  BY ConcatProperties
<1> QED
  BY <1>1, ConcatProperties

(* At first nothing is to come.                                              *)
LEMMA WRInitInv == WRInit => WRInv
<1> SUFFICES ASSUME WRInit PROVE WRInv
  OBVIOUS
<1>1. commands = <<>> /\ pushing = <<>> /\ excludes = {}
  BY DEF WRInit, FWInit
<1>2. pc = [t \in {Inotify, Worker} |-> IF t = Inotify THEN "read" ELSE "idle"]
  BY DEF WRInit, FWInit
<1>3. pc = [t \in {Inotify, Worker} |-> pc[t]] /\ pc[Worker] = "idle"
  BY <1>2 DEF Inotify, Worker
<1>4. ComingLen = 0
  BY <1>1 DEF ComingLen
<1>5. \A n : ~Forced(excludes, Coming, n, 0 + 1)
  BY <1>1 DEF Forced
<1>6. Bracketed(excludes, Coming, ComingLen)
  BY <1>4, <1>5 DEF Bracketed
<1> QED
  BY <1>1, <1>3, <1>6 DEF WRInv

(* The service thread brings the commands of a request.                      *)
LEMMA HandleReceivedInv ==
  ASSUME WRInv, NEW r \in Requests, HandleReceived(r)
  PROVE  WRInv'
<1> DEFINE e == Len(r.excludes)
           d == Len(r.dirs)
           len == Len(commands)
           E == CommandsOf(r, "EXCLUDE", r.excludes)
           D == CommandsOf(r, r.code, r.dirs)
           R == CommandsOf(r, "REMOVE_EXCLUDE", r.excludes)
<1>1. /\ pushing = <<>> /\ commands \in Seq(Commands) /\ commands' = commands
      /\ pushing' = E \o D \o R /\ excludes' = excludes /\ pc' = pc /\ command' = command
  BY DEF WRInv, HandleReceived, Push, watchVars, threadVars
<1>2. /\ e \in Nat /\ d \in Nat /\ len \in Nat
      /\ DOMAIN r.excludes = 1 .. e /\ DOMAIN r.dirs = 1 .. d
      /\ r.code \in {"ADD", "REMOVE"}
  <2>1. /\ r.excludes \in Seq({r.excludes[i] : i \in DOMAIN r.excludes})
        /\ r.dirs \in Seq({r.dirs[i] : i \in DOMAIN r.dirs})
        /\ r.code \in {"ADD", "REMOVE"}
    BY WatchRequestsAssumption
  <2> QED
    BY <1>1, <2>1
<1>3. /\ \A i \in 1 .. e : r.excludes[i] \in Args
      /\ \A i \in 1 .. d : r.dirs[i] \in Args
  BY <1>2 DEF Args
<1>4. /\ E = [i \in 1 .. e |-> [code |-> "EXCLUDE", arg |-> r.excludes[i], request |-> r]]
      /\ D = [i \in 1 .. d |-> [code |-> r.code, arg |-> r.dirs[i], request |-> r]]
      /\ R = [i \in 1 .. e |-> [code |-> "REMOVE_EXCLUDE", arg |-> r.excludes[i], request |-> r]]
  BY <1>2 DEF CommandsOf
<1> HIDE DEF e, d, len, E, D, R
<1>5. E \in Seq(Commands) /\ D \in Seq(Commands) /\ R \in Seq(Commands)
  <2>1. \A i \in 1 .. d : r.dirs[i] \in Asked
    BY <1>2 DEF Asked
  <2>2. \A i \in 1 .. e : E[i] \in Commands /\ R[i] \in Commands
    BY <1>3, <1>4 DEF Commands
  <2>3. \A i \in 1 .. d : D[i] \in Commands
    BY <1>2, <1>3, <1>4, <2>1 DEF Commands
  <2>4. E \in [1 .. e -> Commands] /\ R \in [1 .. e -> Commands]
    BY <1>4, <2>2
  <2>5. D \in [1 .. d -> Commands]
    BY <1>4, <2>3
  <2> HIDE DEF Commands
  <2>6. \A n \in Nat : \A f \in [1 .. n -> Commands] : f \in Seq(Commands)
    OBVIOUS
  <2> QED
    BY <1>2, <2>4, <2>5, <2>6
<1>6. Len(E) = e /\ Len(D) = d /\ Len(R) = e
  BY <1>2, <1>4
<1>a. /\ E \o D \in Seq(Commands) /\ Len(E \o D) = e + d
      /\ \A j \in 1 .. e : (E \o D)[j] = E[j]
      /\ \A j \in 1 .. d : (E \o D)[e + j] = D[j]
  <2>1. E \o D \in Seq(Commands) /\ Len(E \o D) = Len(E) + Len(D)
    BY <1>5, ConcatParts
  <2>2. \A j \in 1 .. Len(E) : (E \o D)[j] = E[j]
    BY <1>5, ConcatParts
  <2>3. \A j \in 1 .. Len(D) : (E \o D)[Len(E) + j] = D[j]
    BY <1>5, ConcatParts
  <2> QED
    BY <1>6, <2>1, <2>2, <2>3
<1> DEFINE ED == E \o D
<1>b. pushing' = ED \o R
  BY <1>1
<1>c. /\ ED \in Seq(Commands) /\ Len(ED) = e + d
      /\ \A j \in 1 .. e : ED[j] = E[j]
      /\ \A j \in 1 .. d : ED[e + j] = D[j]
  BY <1>a
<1> HIDE DEF ED
<1>d. /\ pushing' \in Seq(Commands) /\ Len(pushing') = (e + d) + e
      /\ \A j \in 1 .. e + d : pushing'[j] = ED[j]
      /\ \A j \in 1 .. e : pushing'[(e + d) + j] = R[j]
  <2>1. ED \o R \in Seq(Commands) /\ Len(ED \o R) = Len(ED) + Len(R)
    BY <1>5, <1>c, ConcatParts
  <2>2. \A j \in 1 .. Len(ED) : (ED \o R)[j] = ED[j]
    BY <1>5, <1>c, ConcatParts
  <2>3. \A j \in 1 .. Len(R) : (ED \o R)[Len(ED) + j] = R[j]
    BY <1>5, <1>c, ConcatParts
  <2> QED
    BY <1>6, <1>b, <1>c, <2>1, <2>2, <2>3
<1>7. pushing' \in Seq(Commands) /\ Len(pushing') = e + d + e
  BY <1>d
<1>8. /\ \A j \in 1 .. e : pushing'[j] = E[j]
      /\ \A j \in 1 .. d : pushing'[e + j] = D[j]
      /\ \A j \in 1 .. e : pushing'[e + d + j] = R[j]
  BY <1>2, <1>c, <1>d
<1>9. ComingLen = len /\ ComingLen' = len + e + d + e
  BY <1>1, <1>2, <1>7 DEF ComingLen, len
<1>10. /\ \A m \in 1 .. len : Coming'[m] = Coming[m]
       /\ \A j \in 1 .. e + d + e : Coming'[len + j] = pushing'[j]
  <2>1. Coming = [i \in 1 .. len |-> commands[i]]
    BY <1>1, <1>2 DEF Coming, len
  <2>2. Coming' = [i \in 1 .. len + (e + d + e) |->
                     IF i <= len THEN commands[i] ELSE pushing'[i - len]]
    BY <1>1, <1>7, <1>9 DEF Coming, len
  <2>3. \A m \in 1 .. len : Coming'[m] = commands[m]
    BY <1>2, <2>2
  <2>4. ASSUME NEW j \in 1 .. e + d + e PROVE Coming'[len + j] = pushing'[j]
    <3>1. len + j \in 1 .. len + (e + d + e) /\ ~(len + j <= len) /\ (len + j) - len = j
      BY <1>2
    <3> QED
      BY <2>2, <3>1
  <2> QED
    BY <2>1, <2>3, <2>4
<1>11. \A j \in 1 .. e : Coming'[len + j] = E[j]
  BY <1>2, <1>8, <1>10
<1>12. \A j \in 1 .. d : Coming'[len + e + j] = D[j]
  <2>1. ASSUME NEW j \in 1 .. d PROVE Coming'[len + e + j] = D[j]
    <3>1. e + j \in 1 .. e + d + e /\ len + e + j = len + (e + j)
      BY <1>2
    <3> QED
      BY <1>8, <1>10, <3>1
  <2> QED
    BY <2>1
<1>13. \A j \in 1 .. e : Coming'[len + e + d + j] = R[j]
  <2>1. ASSUME NEW j \in 1 .. e PROVE Coming'[len + e + d + j] = R[j]
    <3>1. e + d + j \in 1 .. e + d + e /\ len + e + d + j = len + (e + d + j)
      BY <1>2
    <3> QED
      BY <1>8, <1>10, <3>1
  <2> QED
    BY <2>1
<1>14. Bracketed(excludes, Coming, len)
  BY <1>9 DEF WRInv
<1>15. \A j \in 1 .. e : /\ Coming'[len + j].code = "EXCLUDE"
                         /\ Coming'[len + j].arg = r.excludes[j]
  BY <1>4, <1>11
<1>16. \A j \in 1 .. d : /\ Coming'[len + e + j].code \in {"ADD", "REMOVE"}
                         /\ Coming'[len + e + j].request = r
  <2>1. \A j \in 1 .. d : D[j].code = r.code /\ D[j].request = r
    BY <1>4
  <2> QED
    BY <1>2, <1>12, <2>1
<1>17. \A j \in 1 .. e : /\ Coming'[len + e + d + j].code = "REMOVE_EXCLUDE"
                         /\ Coming'[len + e + d + j].arg = r.excludes[j]
  BY <1>4, <1>13
<1>18. Brings(Coming, Coming', len, r, e, d)
  BY <1>10, <1>15, <1>16, <1>17 DEF Brings
<1>19. Bracketed(excludes, Coming', len + e + d + e)
  <2>1. len \in Nat /\ e \in Nat /\ d \in Nat /\ DOMAIN r.excludes = 1 .. e
    BY <1>2
  <2> QED
    BY <1>14, <1>18, <2>1, BracketedAppend
<1> QED
  BY <1>1, <1>7, <1>9, <1>19 DEF WRInv

(* It puts them on the queue one by one.                                     *)
LEMMA PushDirectoryInv ==
  ASSUME WRInv, PushDirectory
  PROVE  WRInv'
<1>1. /\ commands \in Seq(Commands) /\ pushing \in Seq(Commands) /\ pushing # <<>>
      /\ commands' = Append(commands, Head(pushing)) /\ pushing' = Tail(pushing)
      /\ excludes' = excludes /\ pc' = pc /\ command' = command
  BY DEF WRInv, PushDirectory, watchVars, threadVars
<1>2. commands' \in Seq(Commands) /\ pushing' \in Seq(Commands)
  BY <1>1
<1>3. /\ Len(commands') = Len(commands) + 1 /\ Len(pushing') = Len(pushing) - 1
      /\ Len(commands) \in Nat /\ Len(pushing) \in Nat \ {0}
  BY <1>1
<1>4. ComingLen' = ComingLen
  BY <1>3 DEF ComingLen
<1>5. ASSUME NEW i \in 1 .. Len(commands) + Len(pushing)
      PROVE  (IF i <= Len(commands') THEN commands'[i] ELSE pushing'[i - Len(commands')])
             = (IF i <= Len(commands) THEN commands[i] ELSE pushing[i - Len(commands)])
  <2>1. CASE i <= Len(commands)
    BY <1>1, <1>3, <2>1
  <2>2. CASE i = Len(commands) + 1
    BY <1>1, <1>3, <2>2
  <2>3. CASE i > Len(commands) + 1
    BY <1>1, <1>3, <2>3
  <2> QED
    BY <1>3, <2>1, <2>2, <2>3
<1>6. Len(commands') + Len(pushing') = Len(commands) + Len(pushing)
  BY <1>3
<1>7. Coming' = Coming
  BY <1>5, <1>6, Zenon DEF Coming
<1> QED
  BY <1>1, <1>2, <1>4, <1>7 DEF WRInv

(* The worker takes the first.                                               *)
LEMMA TakeBrackets ==
  ASSUME WRInv, NEW codes, Take(codes),
         \A n : n \in excludes' <=> \/ Adds(Head(commands), n)
                                    \/ n \in excludes /\ ~Removes(Head(commands), n)
  PROVE  /\ commands' \in Seq(Commands) /\ pushing' \in Seq(Commands)
         /\ Bracketed(excludes', Coming', ComingLen')
<1>1. /\ commands \in Seq(Commands) /\ pushing \in Seq(Commands) /\ commands # <<>>
      /\ commands' = Tail(commands) /\ pushing' = pushing
  BY DEF WRInv, Take
<1>2. /\ Len(commands) \in Nat \ {0} /\ Len(pushing) \in Nat
      /\ Len(commands') = Len(commands) - 1
      /\ commands' \in Seq(Commands)
  BY <1>1
<1>3. ComingLen \in Nat \ {0} /\ ComingLen' = ComingLen - 1
  BY <1>1, <1>2 DEF ComingLen
<1>4. Coming[1] = Head(commands)
  BY <1>1, <1>2 DEF Coming
<1>5. ASSUME NEW m \in 1 .. ComingLen - 1 PROVE Coming'[m] = Coming[m + 1]
  BY <1>1, <1>2, <1>5 DEF Coming, ComingLen
<1>6. Bracketed(excludes, Coming, ComingLen)
  BY DEF WRInv
<1>7. \A n : n \in excludes' <=> \/ Adds(Coming[1], n)
                                 \/ n \in excludes /\ ~Removes(Coming[1], n)
  BY <1>4
<1>8. Bracketed(excludes', Coming', ComingLen - 1)
  BY <1>3, <1>5, <1>6, <1>7, BracketedTail
<1> QED
  BY <1>1, <1>2, <1>3, <1>8

(* A name is excluded from here on.                                         *)
LEMMA AddExcludeInv ==
  ASSUME WRInv, AddExclude
  PROVE  WRInv'
<1>1. /\ Take({"EXCLUDE"}) /\ Head(commands).code = "EXCLUDE"
      /\ excludes' = excludes \cup {Head(commands).arg.name} /\ pc' = pc
      /\ pc[Worker] = "idle"
  BY DEF AddExclude, Take, threadVars
<1>2. \A n : n \in excludes' <=> \/ Adds(Head(commands), n)
                                 \/ n \in excludes /\ ~Removes(Head(commands), n)
  BY <1>1 DEF Adds, Removes
<1> QED
  BY <1>1, <1>2, TakeBrackets DEF WRInv

(* And no more from here on.                                                 *)
LEMMA RemoveExcludeInv ==
  ASSUME WRInv, RemoveExclude
  PROVE  WRInv'
<1>1. /\ Take({"REMOVE_EXCLUDE"}) /\ Head(commands).code = "REMOVE_EXCLUDE"
      /\ excludes' = excludes \ {Head(commands).arg.name} /\ pc' = pc
      /\ pc[Worker] = "idle"
  BY DEF RemoveExclude, Take, threadVars
<1>2. \A n : n \in excludes' <=> \/ Adds(Head(commands), n)
                                 \/ n \in excludes /\ ~Removes(Head(commands), n)
  BY <1>1 DEF Adds, Removes
<1> QED
  BY <1>1, <1>2, TakeBrackets DEF WRInv

(* A directory meets the names its request excludes.                         *)
LEMMA RunInv ==
  ASSUME WRInv, RunAdd \/ RunRemove
  PROVE  WRInv'
<1>1. /\ commands \in Seq(Commands) /\ commands # <<>>
      /\ Head(commands).code \in {"ADD", "REMOVE"} /\ command' = Head(commands)
      /\ \E codes : Take(codes)
  BY DEF WRInv, RunAdd, RunRemove, Take
<1>2. excludes' = excludes /\ \E from, to : Goto(Worker, from, to) \/ pc' = pc
  BY DEF RunAdd, RunRemove, AddDirectoryRecursive, RemoveDirectoryRecursive, watchVars, threadVars
<1>3. \A n : n \in excludes' <=> \/ Adds(Head(commands), n)
                                 \/ n \in excludes /\ ~Removes(Head(commands), n)
  BY <1>1, <1>2 DEF Adds, Removes
<1>4. /\ commands' \in Seq(Commands) /\ pushing' \in Seq(Commands)
      /\ Bracketed(excludes', Coming', ComingLen')
  BY <1>1, <1>3, TakeBrackets
<1>5. Coming[1] = Head(commands) /\ 1 \in 1 .. ComingLen
  <2>1. Len(commands) \in Nat \ {0} /\ Len(pushing) \in Nat
    BY <1>1 DEF WRInv
  <2> QED
    BY <1>1, <2>1 DEF Coming, ComingLen
<1>6. \A n : Forced(excludes, Coming, n, 1) <=> n \in Names(Head(commands).request)
  BY <1>1, <1>5 DEF WRInv, Bracketed
<1>7. \A n : Forced(excludes, Coming, n, 1) <=> n \in excludes
  BY DEF Forced
<1>8. excludes' = Names(command'.request)
  <2>1. \A n : n \in excludes' <=> n \in Names(command'.request)
    BY <1>1, <1>2, <1>6, <1>7
  <2> QED
    BY <2>1
<1>9. pc' = [t \in {Inotify, Worker} |-> pc'[t]]
  BY <1>2 DEF WRInv, Goto
<1> QED
  BY <1>4, <1>8, <1>9 DEF WRInv

(* The file system, the inotify thread and the steps of a scan or a removal  *)
(* leave the excludes alone, and start nothing.                              *)
LEMMA WatcherSteps ==
  ASSUME WRInv, FileSystem \/ InotifyThread \/ WorkerThread
  PROVE  /\ excludes' = excludes
         /\ pc' = [t \in {Inotify, Worker} |-> pc'[t]]
         /\ pc'[Worker] # "idle" => pc[Worker] # "idle"
<1>0. pc = [t \in {Inotify, Worker} |-> pc[t]] /\ Inotify # Worker
  BY DEF WRInv, Inotify, Worker
<1>1. CASE FileSystem
  BY <1>0, <1>1 DEF FileSystem, threadVars
<1>2. ASSUME NEW t \in {Inotify, Worker},
             AddInotifyWatch(t) \/ WatchFails(t) \/ StoreWatch(t) \/ RemoveInotifyWatch(t)
               \/ Unmap(t)
      PROVE  /\ excludes' = excludes
             /\ pc' = [u \in {Inotify, Worker} |-> pc'[u]]
             /\ pc'[Worker] # "idle" => pc[Worker] # "idle"
  BY <1>0, <1>2 DEF AddInotifyWatch, WatchFails, StoreWatch, RemoveInotifyWatch, Unmap, Goto,
                    Popped, threadVars
<1>3. CASE InotifyThread
  BY <1>0, <1>2, <1>3
  DEF InotifyThread, ReadEvent, FindBase, BaseUnknown, JoinFreedPath, TrackCreate, TrackDelete,
      DeletedUnknown, FindBaseToIndex, PutRequest, Goto, threadVars
<1>4. CASE WorkerThread
  BY <1>0, <1>2, <1>4
  DEF WorkerThread, ScanFile, ScanDone, ScanDir, ListSubDirs, SweepDone, Sweep, Popped, Goto
<1> QED
  BY <1>1, <1>3, <1>4

(* Every step keeps the invariant.                                           *)
LEMMA WRStepInv == WRInv /\ [WRNext]_wrVars => WRInv'
<1> SUFFICES ASSUME WRInv, [WRNext]_wrVars PROVE WRInv'
  OBVIOUS
<1>1. CASE (FileSystem \/ InotifyThread \/ WorkerThread) /\ UNCHANGED requestVars
  <2>1. UNCHANGED <<pushing, commands, command>>
    BY <1>1 DEF requestVars
  <2>2. Coming' = Coming /\ ComingLen' = ComingLen
    BY <2>1 DEF Coming, ComingLen
  <2> QED
    BY <1>1, <2>1, <2>2, WatcherSteps DEF WRInv
<1>2. CASE UNCHANGED wrVars
  BY <1>2 DEF WRInv, Coming, ComingLen, wrVars, watchVars, threadVars, requestVars
<1> QED
  BY <1>1, <1>2, HandleReceivedInv, PushDirectoryInv, AddExcludeInv, RemoveExcludeInv, RunInv
  DEF WRNext

(* While the worker is at the directories of a request, exactly the names    *)
(* that request excludes are excluded, whatever requests are around it in    *)
(* the queue; and none when it is idle with nothing queued.                  *)
THEOREM ExcludesAreLocal == WRSpec => []ExcludesLocal
<1>1. WRInv => ExcludesLocal
  <2> SUFFICES ASSUME WRInv, commands = <<>>, pushing = <<>> PROVE excludes = {}
    BY DEF WRInv, ExcludesLocal
  <2>1. ComingLen = 0
    BY DEF ComingLen
  <2>2. \A n : ~Forced(excludes, Coming, n, 0 + 1)
    BY <2>1 DEF WRInv, Bracketed
  <2>3. \A n : n \notin excludes
    BY <2>2 DEF Forced
  <2> QED
    BY <2>3
<1> QED
  BY <1>1, WRInitInv, WRStepInv, PTL DEF WRSpec

-----------------------------------------------------------------------------
(* The watcher: its maps, its two threads, the kernel and the file system.   *)

(* The strings that may name a directory to the watcher: what a request      *)
(* says, and what JoinPath makes.                                            *)
Inner == {p \in Paths : Len(p) > 1}
Spelled == Asked \cup Inner

(* A directory is named in one way only: nobody asks for a directory with a  *)
(* final slash and without, or with one for a directory in another.          *)
OneSpelling == \A a, b \in Spelled : Dir(a) = Dir(b) => a = b

PartNames == {""} \cup UNION {{p[i] : i \in DOMAIN p} : p \in Paths}
Events == [wd : Nat, op : {"mkdir", "rmdir", "file"}, name : PartNames, change : Nat]
Frames == [dir : Spelled, dirs : SUBSET Inner, file : BOOLEAN]

(* The directory event e is about, if m is what the descriptors were made for.*)
In(e, m) == Append(m[e.wd][1], e.name)

(* A path that was never deleted has been made at most once.                 *)
TreeOK ==
  /\ dirs \subseteq Paths /\ birth \in [Paths -> Nat] /\ changes \in Nat
  /\ \A p \in Paths : p \notin disturbed => birth[p] = IF p \in dirs THEN 1 ELSE 0

(* And the kernel still has the watch of it.                                 *)
KernelOK ==
  /\ made \in Seq(Paths \X Nat) /\ live \subseteq 1 .. Len(made)
  /\ \A w \in 1 .. Len(made) :
       made[w][1] \notin disturbed => w \in live /\ made[w][2] = 1 /\ made[w][1] \in dirs

(* An event is about a directory that may be; one of a deletion comes after  *)
(* it.                                                                       *)
EventOK(e, m, gone) ==
  /\ e \in Events /\ e.wd \in 1 .. Len(m)
  /\ e.op \in {"mkdir", "rmdir"} => In(e, m) \in Paths
  /\ e.op = "rmdir" => In(e, m) \in gone

EventsOK ==
  /\ events \in Seq(Events)
  /\ \A i \in 1 .. Len(events) : EventOK(events[i], made, disturbed)
  /\ pc[Inotify] \in {"track", "join", "index", "put"} => EventOK(event, made, disturbed)
  /\ pc[Inotify] \in {"track", "join"} => event.op \in {"mkdir", "rmdir"}

(* The maps f and g know what each descriptor was made for.                  *)
MapsOK(f, g, m, gone) ==
  /\ \A a \in DOMAIN f : /\ a \in Spelled /\ f[a] \in 1 .. Len(m) /\ m[f[a]][1] = Dir(a)
                         /\ Dir(a) \notin gone => f[a] \in DOMAIN g
  /\ \A w \in DOMAIN g : w \in 1 .. Len(m) /\ g[w] \in Spelled /\ Dir(g[w]) = m[w][1]

TwoWay(f, g) == \A a \in DOMAIN f : f[a] \in DOMAIN g /\ g[f[a]] = a

(* A thread adds a descriptor of its target, and removes one of a directory  *)
(* that was deleted or that a removal names.                                 *)
ThreadOK(t) ==
  /\ pc[t] \in {"watch", "store"} => target[t] \in Spelled
  /\ pc[t] = "store" => wd[t] \in 1 .. Len(made) /\ made[wd[t]][1] = Dir(target[t])
  /\ pc[t] \in {"rm_watch", "unmap"} => wd[t] \in 1 .. Len(made) /\ made[wd[t]][1] \in disturbed

(* The path the inotify thread is to join is in the map, unless deleted.     *)
JoinOK == pc[Inotify] \in {"join", "put"} /\ ~dangling => event.wd \in DOMAIN pathOf

(* The frames of a scan.                                                     *)
Removing == {"sweep", "rm_watch", "unmap"}
Adding == {"scan", "watch", "store"}

StackOK ==
  /\ stack \in Seq(Frames)
  /\ pc[Worker] \in Adding => stack # <<>>
  /\ pc[Worker] \in Removing \cup {"idle"} => stack = <<>>
  /\ pc[Worker] \in {"watch", "store"} => target[Worker] = Last(stack).dir

(* The scope of a removal.                                                   *)
SweepOK ==
  pc[Worker] \in Removing =>
    /\ \A w \in sweep : w \in 1 .. Len(made) /\ made[w][1] \in disturbed
    /\ target[Worker] # <<>> =>
         /\ target[Worker] \in Spelled
         /\ \A p \in Paths : StartsWith(p, Dir(target[Worker])) => p \in disturbed

ControlOK ==
  /\ pc = [t \in {Inotify, Worker} |-> pc[t]]
  /\ target = [t \in {Inotify, Worker} |-> target[t]]
  /\ wd = [t \in {Inotify, Worker} |-> wd[t]]
  /\ pc[Worker] \in {"idle"} \cup Adding \cup Removing

(* A directory to be watched is in the map, or somebody is about to see it.  *)
Mapped(f, p) == \E a \in DOMAIN f : Dir(a) = p
Announces(e, m, p) == e.op = "mkdir" /\ In(e, m) = p
Noticed(p) ==
  \/ Mapped(wdOf, p)
  \/ \E i \in 1 .. Len(events) : Announces(events[i], made, p)
  \/ pc[Inotify] \in {"track", "join"} /\ Announces(event, made, p)
  \/ pc[Inotify] \in {"watch", "store"} /\ Dir(target[Inotify]) = p
  \/ \E i \in 1 .. Len(stack) : Dir(stack[i].dir) = p

DueOK == \A p \in due : p \notin disturbed => Noticed(p)

(* A change to be indexed is, or its event is to come and will be understood.*)
Reports(e, g, m, c) == e.wd \in DOMAIN g /\ c = <<m[e.wd][1], e.change>>
Reported(c) ==
  \/ c \in queued
  \/ \E i \in 1 .. Len(events) : events[i].op = "file" /\ Reports(events[i], pathOf, made, c)
  \/ pc[Inotify] \in {"index", "put"} /\ Reports(event, pathOf, made, c)

OwedOK == \A c \in owed : c[1] \in disturbed \/ Reported(c)

FWInv ==
  /\ TreeOK /\ KernelOK /\ EventsOK
  /\ MapsOK(wdOf, pathOf, made, disturbed) /\ (OneSpelling => TwoWay(wdOf, pathOf))
  /\ ThreadOK(Inotify) /\ ThreadOK(Worker) /\ JoinOK
  /\ StackOK /\ SweepOK /\ ControlOK /\ DueOK /\ OwedOK

-----------------------------------------------------------------------------
(* A path has a last name, and is the directory of itself.                   *)
LEMMA PathFacts ==
  ASSUME NEW p \in Paths
  PROVE  /\ p \in Seq(PartNames) /\ Len(p) \in Nat \ {0}
         /\ Last(p) # NoName /\ Last(p) \in PartNames /\ Dir(p) = p
<1>1. p \in Seq({p[i] : i \in DOMAIN p}) /\ p # <<>>
  BY FileWatcherAssumption
<1>2. {p[i] : i \in DOMAIN p} \subseteq PartNames
  BY DEF PartNames
<1>3. p \in Seq(PartNames) /\ Len(p) \in Nat \ {0}
  BY <1>1, <1>2
<1>4. Len(p) \in 1 .. Len(p) /\ Last(p) = p[Len(p)]
  BY <1>3 DEF Last
<1>5. Last(p) # NoName
  BY <1>4, FileWatcherAssumption
<1> QED
  BY <1>3, <1>4, <1>5 DEF Dir

(* With a final slash it names the same directory.                           *)
LEMMA SlashFacts ==
  ASSUME NEW p \in Paths, NEW a, a = Append(p, NoName)
  PROVE  /\ Dir(a) = p /\ a \in Seq(PartNames \cup {NoName})
         /\ a # <<>> /\ Len(a) = Len(p) + 1 /\ a[Len(a)] = NoName
         /\ \A i \in 1 .. Len(p) : a[i] = p[i]
<1>1. p \in Seq(PartNames \cup {NoName}) /\ Len(p) \in Nat \ {0}
  BY PathFacts
<1>2. /\ a \in Seq(PartNames \cup {NoName}) /\ Len(a) = Len(p) + 1
      /\ a[Len(a)] = NoName /\ \A i \in 1 .. Len(p) : a[i] = p[i]
  BY <1>1
<1>3. Front(a) = p
  <2>1. Front(a) \in Seq(PartNames \cup {NoName}) /\ Len(Front(a)) = Len(p)
        /\ \A i \in 1 .. Len(p) : Front(a)[i] = a[i]
    BY <1>1, <1>2 DEF Front
  <2> QED
    BY <1>1, <1>2, <2>1, SeqEqual
<1> QED
  BY <1>1, <1>2, <1>3 DEF Dir, Last

(* Whatever names a directory to the watcher names one that may be.          *)
LEMMA SpelledFacts ==
  ASSUME NEW a \in Spelled
  PROVE  /\ Dir(a) \in Paths /\ a # <<>>
         /\ a = Dir(a) \/ a = Append(Dir(a), NoName)
<1>1. PICK p \in Paths : a \in {p, Append(p, NoName)}
  <2>1. CASE a \in Asked
    <3>1. PICK r \in Requests : \E i \in DOMAIN r.dirs : a = r.dirs[i]
      BY <2>1 DEF Asked
    <3> QED
      BY <3>1, WatchRequestsAssumption
  <2>2. CASE a \in Paths
    BY <2>2
  <2> QED
    BY <2>1, <2>2 DEF Spelled, Inner
<1>2. CASE a = p
  BY <1>2, PathFacts
<1>3. CASE a = Append(p, NoName)
  BY <1>3, SlashFacts
<1> QED
  BY <1>1, <1>2, <1>3

(* What JoinPath makes of the path of a directory and the name of one in it. *)
LEMMA JoinFacts ==
  ASSUME NEW a, NEW name, NEW p \in Paths, p = Append(Dir(a), name),
         Dir(a) \in Paths
  PROVE  JoinPath(a, name) = p /\ p \in Spelled /\ Dir(p) = p
<1>1. Dir(a) \in Seq(PartNames \cup {name}) /\ Len(Dir(a)) \in Nat \ {0}
  BY PathFacts
<1>2. Len(p) > 1
  BY <1>1
<1> QED
  BY <1>2, PathFacts DEF JoinPath, Spelled, Inner

(* A directory in another is its name behind the other's.                    *)
LEMMA Rejoined ==
  ASSUME NEW p \in Paths, Len(p) > 1
  PROVE  Front(p) \in Paths /\ Append(Front(p), Last(p)) = p
<1>1. p \in Seq(PartNames) /\ Len(p) \in Nat \ {0} /\ Last(p) \in PartNames
  BY PathFacts
<1>2. /\ Front(p) \in Seq(PartNames) /\ Len(Front(p)) = Len(p) - 1
      /\ \A i \in 1 .. Len(p) - 1 : Front(p)[i] = p[i]
  BY <1>1 DEF Front
<1>3. /\ Append(Front(p), Last(p)) \in Seq(PartNames)
      /\ Len(Append(Front(p), Last(p))) = Len(p)
      /\ \A i \in 1 .. Len(p) : Append(Front(p), Last(p))[i] = p[i]
  BY <1>1, <1>2 DEF Last
<1> QED
  BY <1>1, <1>3, FileWatcherAssumption, SeqEqual

(* The scope of a removal has the directory itself.                          *)
LEMMA SelfPrefix ==
  ASSUME NEW p \in Paths
  PROVE  StartsWith(p, p)
<1>1. p \in Seq(PartNames) /\ Len(p) \in Nat \ {0} /\ Last(p) = p[Len(p)]
  BY PathFacts DEF Last
<1>2. Len(p) \in 1 .. Len(p)
  BY <1>1
<1>3. <<p[Len(p)], p[Len(p)]>> \in NamePrefixes
  BY <1>2, FileWatcherAssumption
<1> QED
  BY <1>1, <1>3 DEF StartsWith, Front

(* What a prefix of the directory's name finds is in the scope, whatever     *)
(* slash either ends with.                                                   *)
LEMMA ScopeOfPrefix ==
  ASSUME NEW q \in Spelled, NEW d \in Spelled, StartsWith(q, d)
  PROVE  StartsWith(Dir(q), Dir(d))
<1> DEFINE x == Dir(q)
           y == Dir(d)
<1>1. /\ x \in Paths /\ y \in Paths
      /\ q = x \/ q = Append(x, NoName)
      /\ d = y \/ d = Append(y, NoName)
  BY SpelledFacts
<1> HIDE DEF x, y
<1>2. /\ x \in Seq(PartNames) /\ Len(x) \in Nat \ {0} /\ Last(x) = x[Len(x)]
      /\ y \in Seq(PartNames) /\ Len(y) \in Nat \ {0} /\ Last(y) = y[Len(y)]
  BY <1>1, PathFacts DEF Last
<1>3. SUFFICES /\ Len(y) <= Len(x)
               /\ \A i \in 1 .. Len(y) - 1 : x[i] = y[i]
               /\ <<y[Len(y)], x[Len(y)]>> \in NamePrefixes
  <2>0. ASSUME NEW z \in Seq(PartNames), NEW m \in Nat, m <= Len(z)
        PROVE  /\ SubSeq(z, 1, m) \in Seq(PartNames) /\ Len(SubSeq(z, 1, m)) = m
               /\ \A i \in 1 .. m : SubSeq(z, 1, m)[i] = z[i]
    BY <2>0
  <2>a. Len(y) - 1 \in Nat /\ Len(y) - 1 <= Len(x) /\ Len(y) - 1 <= Len(y)
    BY <1>2, <1>3
  <2>1. /\ SubSeq(x, 1, Len(y) - 1) \in Seq(PartNames)
        /\ Len(SubSeq(x, 1, Len(y) - 1)) = Len(y) - 1
        /\ \A i \in 1 .. Len(y) - 1 : SubSeq(x, 1, Len(y) - 1)[i] = x[i]
    BY <1>2, <2>0, <2>a
  <2>2. /\ Front(y) \in Seq(PartNames) /\ Len(Front(y)) = Len(y) - 1
        /\ \A i \in 1 .. Len(y) - 1 : Front(y)[i] = y[i]
    BY <1>2, <2>0, <2>a DEF Front
  <2>3. SubSeq(x, 1, Len(y) - 1) = Front(y)
    BY <1>2, <1>3, <2>1, <2>2, SeqEqual
  <2> QED
    BY <1>2, <1>3, <2>3 DEF StartsWith, x, y
<1>4. Len(y) \in 1 .. Len(y) /\ Len(x) \in 1 .. Len(x)
  BY <1>2
<1>5. Len(d) <= Len(q) /\ SubSeq(q, 1, Len(d) - 1) = Front(d)
      /\ <<Last(d), q[Len(d)]>> \in NamePrefixes
  BY DEF StartsWith
<1>6. /\ q \in Seq(PartNames \cup {NoName}) /\ Len(q) \in Nat \ {0}
      /\ d \in Seq(PartNames \cup {NoName}) /\ Len(d) \in Nat \ {0}
  <2>1. \A z \in Paths : z \in Seq(PartNames \cup {NoName}) /\ z # <<>>
    <3>1. \A z \in Paths : z \in Seq(PartNames) /\ Len(z) \in Nat \ {0}
      BY PathFacts
    <3> QED
      BY <3>1
  <2>2. \A z \in Paths : /\ Append(z, NoName) \in Seq(PartNames \cup {NoName})
                         /\ Append(z, NoName) # <<>>
    BY SlashFacts
  <2>3. q \in Seq(PartNames \cup {NoName}) /\ q # <<>>
    BY <1>1, <2>1, <2>2
  <2>4. d \in Seq(PartNames \cup {NoName}) /\ d # <<>>
    BY <1>1, <2>1, <2>2
  <2> QED
    BY <2>3, <2>4
<1>7. \A i \in 1 .. Len(d) - 1 : q[i] = d[i]
  <2>1. \A i \in 1 .. Len(d) - 1 : SubSeq(q, 1, Len(d) - 1)[i] = q[i]
    BY <1>5, <1>6
  <2>2. \A i \in 1 .. Len(d) - 1 : Front(d)[i] = d[i]
    BY <1>6 DEF Front
  <2> QED
    BY <1>5, <2>1, <2>2
<1>8. <<y[Len(y)], y[Len(y)]>> \in NamePrefixes /\ <<y[Len(y)], NoName>> \notin NamePrefixes
  BY <1>1, <1>4, FileWatcherAssumption
<1>9. \A i \in 1 .. Len(x) : q[i] = x[i]
  BY <1>1, <1>2, SlashFacts
<1>10. q = x => Len(q) = Len(x)
  OBVIOUS
<1>11. q = Append(x, NoName) => Len(q) = Len(x) + 1 /\ q[Len(x) + 1] = NoName
  BY <1>1, SlashFacts
<1>12. CASE d = Append(y, NoName)
  <2>1. Len(d) = Len(y) + 1 /\ \A i \in 1 .. Len(y) : d[i] = y[i]
    BY <1>1, <1>12, SlashFacts
  <2>2. Len(y) <= Len(x)
    BY <1>1, <1>2, <1>5, <1>6, <1>10, <1>11, <2>1
  <2>3. \A i \in 1 .. Len(y) : x[i] = y[i]
    BY <1>2, <1>6, <1>7, <1>9, <2>1, <2>2
  <2> QED
    BY <1>2, <1>4, <1>8, <2>2, <2>3
<1>13. CASE d = y
  <2>1. Len(y) <= Len(x)
    <3>1. ASSUME Len(y) = Len(x) + 1, q = Append(x, NoName) PROVE FALSE
      <4>1. Last(d) = y[Len(y)] /\ q[Len(d)] = NoName
        BY <1>2, <1>11, <1>13, <3>1
      <4> QED
        BY <1>5, <1>8, <4>1
    <3> QED
      BY <1>1, <1>2, <1>5, <1>6, <1>10, <1>11, <1>13, <3>1
  <2>2. \A i \in 1 .. Len(y) - 1 : x[i] = y[i]
    BY <1>2, <1>6, <1>7, <1>9, <1>13, <2>1
  <2>3. q[Len(d)] = x[Len(y)] /\ Last(d) = y[Len(y)]
    BY <1>2, <1>4, <1>9, <1>13, <2>1
  <2> QED
    BY <1>5, <2>1, <2>2, <2>3
<1> QED
  BY <1>1, <1>12, <1>13

(* A sequence of a finite set has each of its members.                       *)
LEMMA SetToSeqFacts ==
  ASSUME NEW S, IsFiniteSet(S)
  PROVE  /\ SetToSeq(S) \in Seq(S)
         /\ \A x \in S : \E i \in 1 .. Len(SetToSeq(S)) : SetToSeq(S)[i] = x
<1> DEFINE n == Cardinality(S)
           f == SetToSeq(S)
<1>1. n \in Nat /\ ExistsBijection(1 .. n, S)
  BY FS_CardinalityType
<1>2. \E g \in [1 .. n -> S] : IsInjective(g)
  BY <1>1 DEF ExistsBijection, Bijection, Injection
<1>3. f \in [1 .. n -> S] /\ IsInjective(f)
  BY <1>2 DEF SetToSeq
<1>4. f \in Injection(1 .. n, S)
  BY <1>3 DEF Injection
<1>5. Cardinality(1 .. n) = n
  BY <1>1, FS_Interval
<1>6. f \in Surjection(1 .. n, S)
  BY <1>4, <1>5, FS_Injection
<1>7. \A x \in S : \E i \in 1 .. n : f[i] = x
  BY <1>6 DEF Surjection
<1>8. f \in Seq(S) /\ Len(f) = n
  BY <1>1, <1>3
<1> QED
  BY <1>7, <1>8

(* The events of a change in directory d come behind the others, one for     *)
(* each watch on d.                                                          *)
LEMMA Notified ==
  ASSUME KernelOK, events \in Seq(Events), changes \in Nat,
         NEW d, NEW op \in {"mkdir", "rmdir", "file"}, NEW name \in PartNames,
         Notify(d, op, name)
  PROVE  /\ events' \in Seq(Events)
         /\ \A i \in 1 .. Len(events) : i \in 1 .. Len(events') /\ events'[i] = events[i]
         /\ \A i \in 1 .. Len(events') :
              \/ i \in 1 .. Len(events) /\ events'[i] = events[i]
              \/ \E w \in WatchesOn(d) :
                   events'[i] = [wd |-> w, op |-> op, name |-> name, change |-> changes + 1]
         /\ \A w \in WatchesOn(d) : \E i \in 1 .. Len(events') :
              events'[i] = [wd |-> w, op |-> op, name |-> name, change |-> changes + 1]
<1> DEFINE R(w) == [wd |-> w, op |-> op, name |-> name, change |-> changes + 1]
           S == {R(w) : w \in WatchesOn(d)}
           q == SetToSeq(S)
<1>1. IsFiniteSet(WatchesOn(d)) /\ \A w \in WatchesOn(d) : w \in Nat
  <2>1. Len(made) \in Nat
    BY DEF KernelOK
  <2>2. WatchesOn(d) \subseteq 1 .. Len(made)
    BY DEF WatchesOn, KernelOK
  <2>3. IsFiniteSet(1 .. Len(made))
    BY <2>1, FS_Interval
  <2>4. IsFiniteSet(WatchesOn(d))
    BY <2>2, <2>3, FS_Subset
  <2> QED
    BY <2>1, <2>2, <2>4
<1>2. IsFiniteSet(S)
  <2> DEFINE f == [w \in WatchesOn(d) |-> R(w)]
  <2>1. f \in Surjection(WatchesOn(d), S)
    BY DEF Surjection
  <2> HIDE DEF f, S
  <2> QED
    BY <1>1, <2>1, FS_Surjection
<1>3. S \subseteq Events
  BY <1>1 DEF Events
<1> HIDE DEF S
<1>4. q \in Seq(S) /\ \A x \in S : \E i \in 1 .. Len(q) : q[i] = x
  BY <1>2, SetToSeqFacts
<1>5. events' = events \o q
  BY DEF Notify, S
<1> HIDE DEF q
<1>6. q \in Seq(Events)
  BY <1>3, <1>4, SeqMonotonic
<1>7. /\ events' \in Seq(Events) /\ Len(events') = Len(events) + Len(q)
      /\ Len(events) \in Nat /\ Len(q) \in Nat
      /\ \A i \in 1 .. Len(events') :
           events'[i] = IF i <= Len(events) THEN events[i] ELSE q[i - Len(events)]
  BY <1>5, <1>6, ConcatProperties
<1>8. \A i \in 1 .. Len(events) : i \in 1 .. Len(events') /\ events'[i] = events[i]
  BY <1>7
<1>9. ASSUME NEW i \in 1 .. Len(events')
      PROVE  \/ i \in 1 .. Len(events) /\ events'[i] = events[i]
             \/ \E w \in WatchesOn(d) : events'[i] = R(w)
  <2>1. CASE i <= Len(events)
    BY <1>7, <2>1
  <2>2. CASE ~(i <= Len(events))
    <3>1. i - Len(events) \in 1 .. Len(q) /\ events'[i] = q[i - Len(events)]
      BY <1>7, <2>2
    <3>2. events'[i] \in S
      BY <1>4, <3>1
    <3> QED
      BY <3>2 DEF S
  <2> QED
    BY <2>1, <2>2
<1>10. ASSUME NEW w \in WatchesOn(d) PROVE \E i \in 1 .. Len(events') : events'[i] = R(w)
  <2>1. R(w) \in S
    BY DEF S
  <2>2. PICK j \in 1 .. Len(q) : q[j] = R(w)
    BY <1>4, <2>1
  <2>3. j + Len(events) \in 1 .. Len(events') /\ events'[j + Len(events)] = q[j]
    BY <1>7
  <2> QED
    BY <2>2, <2>3
<1> QED
  BY <1>7, <1>8, <1>9, <1>10

-----------------------------------------------------------------------------
(* What is true of an event stays true: descriptors are never made for       *)
(* another directory, and what was deleted once stays so.                    *)
Grew(m, n, gone, lost) ==
  /\ \A w \in 1 .. Len(m) : w \in 1 .. Len(n) /\ n[w] = m[w]
  /\ gone \subseteq lost

(* An event stays about the directory it was about.                          *)
LEMMA EventStays ==
  ASSUME NEW e, NEW m, NEW n, NEW gone, NEW lost, EventOK(e, m, gone), Grew(m, n, gone, lost)
  PROVE  EventOK(e, n, lost)
<1>1. In(e, n) = In(e, m)
  BY DEF EventOK, Grew, In
<1> QED
  BY <1>1 DEF EventOK, Grew

(* So with the maps.                                                         *)
LEMMA MapsStay ==
  ASSUME NEW f, NEW g, NEW m, NEW n, NEW gone, NEW lost, MapsOK(f, g, m, gone),
         Grew(m, n, gone, lost)
  PROVE  MapsOK(f, g, n, lost)
BY DEF MapsOK, Grew

(* And with a thread that does not move.                                     *)
LEMMA ThreadStays ==
  ASSUME NEW t \in {Inotify, Worker}, ThreadOK(t), Grew(made, made', disturbed, disturbed'),
         pc'[t] = pc[t], target'[t] = target[t], wd'[t] = wd[t]
  PROVE  ThreadOK(t)'
<1>1. CASE pc[t] = "store"
  BY <1>1 DEF ThreadOK, Grew
<1>2. CASE pc[t] \in {"rm_watch", "unmap"}
  BY <1>2 DEF ThreadOK, Grew
<1> QED
  BY <1>1, <1>2 DEF ThreadOK

(* So does the scope of a removal.                                           *)
LEMMA SweepStays ==
  ASSUME SweepOK, Grew(made, made', disturbed, disturbed'),
         pc'[Worker] \in Removing => pc[Worker] \in Removing,
         target'[Worker] = target[Worker], sweep' = sweep
  PROVE  SweepOK'
<1>1. CASE pc'[Worker] \in Removing
  <2>1. \A w \in sweep' : w \in 1 .. Len(made') /\ made'[w][1] \in disturbed'
    BY <1>1 DEF SweepOK, Grew
  <2>2. target'[Worker] # <<>> =>
         /\ target'[Worker] \in Spelled
         /\ \A p \in Paths : StartsWith(p, Dir(target'[Worker])) => p \in disturbed'
    BY <1>1 DEF SweepOK, Grew
  <2> QED
    BY <2>1, <2>2 DEF SweepOK
<1> QED
  BY <1>1 DEF SweepOK

(* The events in the kernel are good as long as no bad one is added.         *)
LEMMA EventsStay ==
  ASSUME EventsOK, Grew(made, made', disturbed, disturbed'), events' = events,
         event' = event, pc'[Inotify] \in {"track", "join"} => pc[Inotify] \in {"track", "join"},
         pc'[Inotify] \in {"index", "put"} => pc[Inotify] \in {"index", "put"}
  PROVE  EventsOK'
<1>1. \A i \in 1 .. Len(events) : EventOK(events[i], made', disturbed')
  BY EventStays DEF EventsOK
<1>2. pc[Inotify] \in {"track", "join", "index", "put"} => EventOK(event, made', disturbed')
  BY EventStays DEF EventsOK
<1> QED
  BY <1>1, <1>2 DEF EventsOK

(* What is noticed, and what is reported, as long as nobody moves.           *)
LEMMA NoticeStays ==
  ASSUME NEW p, Noticed(p), UNCHANGED <<pc, target, event, stack, wdOf, made>>,
         \A i \in 1 .. Len(events) : i \in 1 .. Len(events') /\ events'[i] = events[i]
  PROVE  Noticed(p)'
<1>1. CASE \E i \in 1 .. Len(events) : Announces(events[i], made, p)
  <2>1. PICK i \in 1 .. Len(events) : Announces(events[i], made, p)
    BY <1>1
  <2> QED
    BY <2>1 DEF Noticed
<1> QED
  BY <1>1 DEF Noticed

(* A change that is to be reported still is.                                 *)
LEMMA ReportStays ==
  ASSUME NEW c, Reported(c), UNCHANGED <<pc, event, pathOf, made, queued>>,
         \A i \in 1 .. Len(events) : i \in 1 .. Len(events') /\ events'[i] = events[i]
  PROVE  Reported(c)'
<1>1. CASE \E i \in 1 .. Len(events) :
             events[i].op = "file" /\ Reports(events[i], pathOf, made, c)
  <2>1. PICK i \in 1 .. Len(events) : events[i].op = "file" /\ Reports(events[i], pathOf, made, c)
    BY <1>1
  <2> QED
    BY <2>1 DEF Reported
<1> QED
  BY <1>1 DEF Reported

(* When only the file system moves, the maps and the threads stay as they    *)
(* are.                                                                      *)
LEMMA WatcherStays ==
  ASSUME FWInv, UNCHANGED <<mapVars, threadVars, made>>, disturbed \subseteq disturbed'
  PROVE  /\ MapsOK(wdOf, pathOf, made, disturbed)' /\ (OneSpelling => TwoWay(wdOf, pathOf)')
         /\ ThreadOK(Inotify)' /\ ThreadOK(Worker)' /\ JoinOK' /\ StackOK' /\ SweepOK'
         /\ ControlOK'
<1>1. Grew(made, made', disturbed, disturbed')
  BY DEF Grew
<1>2. MapsOK(wdOf, pathOf, made, disturbed)'
  BY <1>1, MapsStay DEF FWInv, mapVars
<1>3. OneSpelling => TwoWay(wdOf, pathOf)'
  BY DEF FWInv, mapVars
<1>4. ThreadOK(Inotify)' /\ ThreadOK(Worker)'
  BY <1>1, ThreadStays DEF FWInv, threadVars
<1>5. SweepOK'
  BY <1>1, SweepStays DEF FWInv, threadVars
<1>6. JoinOK' /\ StackOK' /\ ControlOK'
  BY DEF FWInv, threadVars, mapVars, JoinOK, StackOK, ControlOK
<1> QED
  BY <1>2, <1>3, <1>4, <1>5, <1>6

-----------------------------------------------------------------------------
(* What a change in directory d leaves to show: its events are good, and     *)
(* what was to come before still is.                                         *)
LEMMA ChangeKeepsInv ==
  ASSUME FWInv, NEW d, NEW op \in {"mkdir", "rmdir", "file"}, NEW name \in PartNames,
         Notify(d, op, name),
         UNCHANGED <<mapVars, threadVars, made, queued>>, disturbed \subseteq disturbed',
         op \in {"mkdir", "rmdir"} => Append(d, name) \in Paths,
         op = "rmdir" => Append(d, name) \in disturbed',
         TreeOK', KernelOK',
         \A p \in due' : p \notin due => op = "mkdir" /\ p = Append(d, name) /\ WatchesOn(d) # {},
         \A c \in owed' : c \notin owed => /\ op = "file" /\ c = <<d, changes + 1>>
                                           /\ \E w \in WatchesOn(d) : w \in DOMAIN pathOf
  PROVE  FWInv'
<1>1. /\ KernelOK /\ EventsOK /\ events \in Seq(Events) /\ changes \in Nat
      /\ Grew(made, made, disturbed, disturbed')
  BY DEF FWInv, EventsOK, TreeOK, Grew
<1>2. /\ events' \in Seq(Events)
      /\ \A i \in 1 .. Len(events) : i \in 1 .. Len(events') /\ events'[i] = events[i]
      /\ \A i \in 1 .. Len(events') :
           \/ i \in 1 .. Len(events) /\ events'[i] = events[i]
           \/ \E w \in WatchesOn(d) :
                events'[i] = [wd |-> w, op |-> op, name |-> name, change |-> changes + 1]
      /\ \A w \in WatchesOn(d) : \E i \in 1 .. Len(events') :
           events'[i] = [wd |-> w, op |-> op, name |-> name, change |-> changes + 1]
  BY <1>1, Notified
<1>3. \A w \in WatchesOn(d) : w \in 1 .. Len(made) /\ made[w][1] = d /\ w \in Nat
  <2>1. live \subseteq 1 .. Len(made) /\ Len(made) \in Nat
    BY <1>1 DEF KernelOK
  <2> QED
    BY <2>1 DEF WatchesOn
<1>4. EventsOK'
  <2>1. ASSUME NEW i \in 1 .. Len(events') PROVE EventOK(events'[i], made, disturbed')
    <3>1. CASE i \in 1 .. Len(events) /\ events'[i] = events[i]
      BY <1>1, <3>1, EventStays DEF EventsOK
    <3>2. ASSUME NEW w \in WatchesOn(d),
                 events'[i] = [wd |-> w, op |-> op, name |-> name, change |-> changes + 1]
          PROVE  EventOK(events'[i], made, disturbed')
      <4>1. /\ events'[i].wd = w /\ events'[i].op = op /\ events'[i].name = name
            /\ events'[i] \in Events
        BY <1>2, <3>2
      <4>2. In(events'[i], made) = Append(d, name)
        BY <1>3, <4>1 DEF In
      <4> QED
        BY <1>3, <4>1, <4>2 DEF EventOK
    <3> QED
      BY <1>2, <3>1, <3>2
  <2>2. pc[Inotify] \in {"track", "join", "index", "put"} => EventOK(event, made, disturbed')
    BY <1>1, EventStays DEF EventsOK
  <2> QED
    BY <1>1, <1>2, <2>1, <2>2 DEF EventsOK, threadVars
<1>5. DueOK'
  <2> SUFFICES ASSUME NEW p \in due', p \notin disturbed' PROVE Noticed(p)'
    BY DEF DueOK
  <2>1. CASE p \in due
    <3>1. Noticed(p)
      BY <2>1 DEF FWInv, DueOK
    <3> QED
      BY <1>2, <3>1, NoticeStays DEF threadVars, mapVars
  <2>2. CASE p \notin due
    <3>1. PICK w \in WatchesOn(d) : TRUE
      BY <2>2
    <3>2. PICK i \in 1 .. Len(events') :
            events'[i] = [wd |-> w, op |-> op, name |-> name, change |-> changes + 1]
      BY <1>2, <3>1
    <3>3. events'[i].wd = w /\ events'[i].op = "mkdir" /\ events'[i].name = name
      BY <2>2, <3>2
    <3>4. Announces(events'[i], made', p)
      BY <1>3, <2>2, <3>3 DEF Announces, In
    <3> QED
      BY <3>4 DEF Noticed
  <2> QED
    BY <2>1, <2>2
<1>6. OwedOK'
  <2> SUFFICES ASSUME NEW c \in owed', c[1] \notin disturbed' PROVE Reported(c)'
    BY DEF OwedOK
  <2>1. CASE c \in owed
    <3>1. Reported(c)
      BY <2>1 DEF FWInv, OwedOK
    <3> QED
      BY <1>2, <3>1, ReportStays DEF threadVars, mapVars
  <2>2. CASE c \notin owed
    <3>1. PICK w \in WatchesOn(d) : w \in DOMAIN pathOf
      BY <2>2
    <3>2. PICK i \in 1 .. Len(events') :
            events'[i] = [wd |-> w, op |-> op, name |-> name, change |-> changes + 1]
      BY <1>2, <3>1
    <3>3. events'[i].wd = w /\ events'[i].op = "file" /\ events'[i].change = changes + 1
      BY <2>2, <3>2
    <3>4. Reports(events'[i], pathOf', made', c)
      BY <1>3, <2>2, <3>1, <3>3 DEF Reports, mapVars
    <3> QED
      BY <3>3, <3>4 DEF Reported
  <2> QED
    BY <2>1, <2>2
<1> QED
  BY <1>4, <1>5, <1>6, WatcherStays DEF FWInv

(* The three changes of the file system.                                     *)
LEMMA MkdirInv ==
  ASSUME FWInv, NEW p \in Paths, Mkdir(p), UNCHANGED <<mapVars, threadVars, queued>>
  PROVE  FWInv'
<1>1. /\ TreeOK /\ KernelOK /\ p \notin dirs /\ Len(p) > 1 /\ Front(p) \in dirs
      /\ dirs' = dirs \cup {p} /\ birth' = [birth EXCEPT ![p] = @ + 1]
      /\ changes' = changes + 1 /\ disturbed' = disturbed
      /\ made' = made /\ live' = live /\ owed' = owed
      /\ due' = IF Monitored(Front(p)) THEN due \cup {p} ELSE due
      /\ Notify(Front(p), "mkdir", Last(p))
  BY DEF Mkdir, Change, FWInv
<1>2. Last(p) \in PartNames /\ Append(Front(p), Last(p)) = p
  BY <1>1, PathFacts, Rejoined
<1>3. TreeOK'
  <2>1. dirs' \subseteq Paths /\ birth' \in [Paths -> Nat] /\ changes' \in Nat
    BY <1>1 DEF TreeOK
  <2>2. ASSUME NEW q \in Paths, q \notin disturbed'
        PROVE  birth'[q] = IF q \in dirs' THEN 1 ELSE 0
    BY <1>1, <2>2 DEF TreeOK
  <2> QED
    BY <2>1, <2>2 DEF TreeOK
<1>4. KernelOK'
  BY <1>1 DEF KernelOK
<1>5. \A q \in due' : q \notin due => q = p /\ WatchesOn(Front(p)) # {}
  BY <1>1 DEF Monitored
<1> QED
  BY <1>1, <1>2, <1>3, <1>4, <1>5, ChangeKeepsInv

(* A directory goes: it is disturbed from now on.                            *)
LEMMA RmdirInv ==
  ASSUME FWInv, NEW p \in Paths, Rmdir(p), UNCHANGED <<mapVars, threadVars, queued>>
  PROVE  FWInv'
<1>1. /\ TreeOK /\ KernelOK /\ p \in dirs /\ Len(p) > 1
      /\ dirs' = dirs \ {p} /\ birth' = birth
      /\ changes' = changes + 1 /\ disturbed' = disturbed \cup {p}
      /\ made' = made /\ live' = live \ WatchesOn(p) /\ owed' = owed
      /\ due' = due \ {p}
      /\ Notify(Front(p), "rmdir", Last(p))
  BY DEF Rmdir, Change, FWInv
<1>2. Last(p) \in PartNames /\ Append(Front(p), Last(p)) = p
  BY <1>1, PathFacts, Rejoined
<1>3. TreeOK'
  BY <1>1 DEF TreeOK
<1>4. KernelOK'
  <2>1. \A w \in WatchesOn(p) : made[w][1] = p
    BY DEF WatchesOn
  <2> QED
    BY <1>1, <2>1 DEF KernelOK
<1> QED
  BY <1>1, <1>2, <1>3, <1>4, ChangeKeepsInv

(* A change of a file reports itself, if its directory is monitored.         *)
LEMMA ChangeFileInv ==
  ASSUME FWInv, NEW p \in Paths, ChangeFile(p), UNCHANGED <<mapVars, threadVars, queued>>
  PROVE  FWInv'
<1>1. /\ TreeOK /\ KernelOK /\ dirs' = dirs /\ birth' = birth
      /\ changes' = changes + 1 /\ disturbed' = disturbed
      /\ made' = made /\ live' = live /\ due' = due
      /\ owed' = IF Monitored(p) THEN owed \cup {<<p, changes + 1>>} ELSE owed
  BY DEF ChangeFile, Change, FWInv
<1>2. Notify(p, "file", "") /\ "" \in PartNames
  <2>1. "" \in PartNames
    BY Zenon DEF PartNames
  <2>2. Notify(p, "file", "")
    BY DEF ChangeFile
  <2> QED
    BY <2>1, <2>2
<1>3. TreeOK' /\ KernelOK'
  <2>1. TreeOK'
    BY <1>1 DEF TreeOK
  <2>2. KernelOK'
    BY <1>1 DEF KernelOK
  <2> QED
    BY <2>1, <2>2
<1>4. \A c \in owed' : c \notin owed => /\ c = <<p, changes + 1>>
                                        /\ \E w \in WatchesOn(p) : w \in DOMAIN pathOf
  BY <1>1 DEF Monitored
<1> QED
  BY <1>1, <1>2, <1>3, <1>4, ChangeKeepsInv

(* Every change of the file system keeps the invariant.                      *)
LEMMA FileSystemInv ==
  ASSUME FWInv, FileSystem
  PROVE  FWInv'
BY MkdirInv, RmdirInv, ChangeFileInv DEF FileSystem

-----------------------------------------------------------------------------
(* A step of the inotify thread is none of the worker's.                     *)
LEMMA WorkerUntouched ==
  ASSUME FWInv, Grew(made, made', disturbed, disturbed'), NEW to,
         pc' = [pc EXCEPT ![Inotify] = to],
         target' = [t \in {Inotify, Worker} |-> target'[t]], target'[Worker] = target[Worker],
         wd' = [t \in {Inotify, Worker} |-> wd'[t]], wd'[Worker] = wd[Worker],
         UNCHANGED <<stack, sweep>>
  PROVE  /\ ThreadOK(Worker)' /\ StackOK' /\ SweepOK' /\ ControlOK'
         /\ pc'[Inotify] = to /\ pc'[Worker] = pc[Worker]
<1>1. Inotify # Worker /\ pc = [t \in {Inotify, Worker} |-> pc[t]]
  BY DEF FWInv, ControlOK, Inotify, Worker
<1>2. pc'[Inotify] = to /\ pc'[Worker] = pc[Worker] /\ pc' = [t \in {Inotify, Worker} |-> pc'[t]]
  BY <1>1
<1>3. ThreadOK(Worker)'
  BY <1>2, ThreadStays DEF FWInv
<1>4. SweepOK'
  BY <1>2, SweepStays DEF FWInv
<1>5. StackOK'
  BY <1>2 DEF FWInv, StackOK
<1>6. ControlOK'
  BY <1>2 DEF FWInv, ControlOK
<1> QED
  BY <1>2, <1>3, <1>4, <1>5, <1>6

(* The inotify thread reads an event: it is in no buffer then, but in hand.  *)
LEMMA ReadEventInv ==
  ASSUME FWInv, ReadEvent
  PROVE  FWInv'
<1>1. /\ events \in Seq(Events) /\ events # <<>> /\ pc[Inotify] = "read"
      /\ event' = Head(events) /\ events' = Tail(events)
      /\ pc' = [pc EXCEPT ![Inotify] = IF Head(events).op = "file" THEN "index" ELSE "track"]
      /\ UNCHANGED <<fsVars, made, live, mapVars, target, wd, dangling, stack, sweep, queued,
                     due, owed, disturbed>>
  BY DEF ReadEvent, Goto, FWInv, EventsOK, history
<1>2. Grew(made, made', disturbed, disturbed')
  BY <1>1 DEF Grew
<1>3. /\ ThreadOK(Worker)' /\ StackOK' /\ SweepOK' /\ ControlOK'
      /\ pc'[Inotify] = IF event'.op = "file" THEN "index" ELSE "track"
  BY <1>1, <1>2, WorkerUntouched DEF FWInv, ControlOK
<1>4. /\ event' = events[1] /\ 1 \in 1 .. Len(events) /\ event' \in Events
      /\ events' \in Seq(Events) /\ Len(events') = Len(events) - 1 /\ Len(events) \in Nat
      /\ \A i \in 1 .. Len(events') : i + 1 \in 1 .. Len(events) /\ events'[i] = events[i + 1]
      /\ \A i \in 1 .. Len(events) : i # 1 => i - 1 \in 1 .. Len(events')
                                              /\ events'[i - 1] = events[i]
  BY <1>1
<1>5. EventsOK'
  <2>1. \A i \in 1 .. Len(events') : EventOK(events'[i], made', disturbed')
    BY <1>1, <1>4 DEF FWInv, EventsOK
  <2>2. EventOK(event', made', disturbed') /\ event'.op \in {"mkdir", "rmdir", "file"}
    BY <1>1, <1>4 DEF FWInv, EventsOK, Events
  <2> QED
    BY <1>3, <1>4, <2>1, <2>2 DEF EventsOK
<1>6. ThreadOK(Inotify)' /\ JoinOK'
  BY <1>3 DEF ThreadOK, JoinOK
<1>7. DueOK'
  <2> SUFFICES ASSUME NEW p \in due, p \notin disturbed PROVE Noticed(p)'
    BY <1>1 DEF DueOK
  <2>1. Noticed(p)
    BY DEF FWInv, DueOK
  <2>2. ASSUME NEW i \in 1 .. Len(events), Announces(events[i], made, p) PROVE Noticed(p)'
    <3>1. CASE i = 1
      <4>1. event'.op = "mkdir"
        BY <1>4, <2>2, <3>1 DEF Announces
      <4>2. pc'[Inotify] = "track" /\ Announces(event', made', p)
        BY <1>1, <1>3, <1>4, <2>2, <3>1, <4>1
      <4> QED
        BY <4>2 DEF Noticed
    <3>2. CASE i # 1
      <4>1. i - 1 \in 1 .. Len(events') /\ Announces(events'[i - 1], made', p)
        BY <1>1, <1>4, <2>2, <3>2
      <4> QED
        BY <4>1 DEF Noticed
    <3> QED
      BY <3>1, <3>2
  <2> QED
    BY <1>1, <2>1, <2>2 DEF Noticed, mapVars
<1>8. OwedOK'
  <2> SUFFICES ASSUME NEW c \in owed, c[1] \notin disturbed PROVE Reported(c)'
    BY <1>1 DEF OwedOK
  <2>1. Reported(c)
    BY DEF FWInv, OwedOK
  <2>2. ASSUME NEW i \in 1 .. Len(events), events[i].op = "file",
               Reports(events[i], pathOf, made, c)
        PROVE  Reported(c)'
    <3>1. CASE i = 1
      <4>1. pc'[Inotify] = "index" /\ Reports(event', pathOf', made', c)
        BY <1>1, <1>3, <1>4, <2>2, <3>1 DEF mapVars
      <4> QED
        BY <4>1 DEF Reported
    <3>2. CASE i # 1
      <4>1. i - 1 \in 1 .. Len(events') /\ events'[i - 1].op = "file"
            /\ Reports(events'[i - 1], pathOf', made', c)
        BY <1>1, <1>4, <2>2, <3>2 DEF mapVars
      <4> QED
        BY <4>1 DEF Reported
    <3> QED
      BY <3>1, <3>2
  <2> QED
    BY <1>1, <2>1, <2>2 DEF Reported
<1>9. TreeOK' /\ KernelOK'
  BY <1>1 DEF FWInv, TreeOK, KernelOK, fsVars
<1>10. MapsOK(wdOf, pathOf, made, disturbed)' /\ (OneSpelling => TwoWay(wdOf, pathOf)')
  BY <1>1 DEF FWInv, mapVars
<1> QED
  BY <1>3, <1>5, <1>6, <1>7, <1>8, <1>9, <1>10 DEF FWInv

(* A step of the inotify thread with the event it has in hand, which does    *)
(* not change the maps.                                                      *)
Handles(to) ==
  /\ pc[Inotify] \in {"track", "join", "index", "put"}
  /\ pc' = [pc EXCEPT ![Inotify] = to]
  /\ target' = [t \in {Inotify, Worker} |-> target'[t]] /\ target'[Worker] = target[Worker]
  /\ wd' = [t \in {Inotify, Worker} |-> wd'[t]] /\ wd'[Worker] = wd[Worker]
  /\ UNCHANGED <<fsVars, kernelVars, mapVars, event, stack, sweep, history>>

(* It gives up a directory it was told of only when that is in the map or    *)
(* its target, and a change only when that is queued.                        *)
Settles(to) ==
  /\ to \in {"track", "join"} => pc[Inotify] \in {"track", "join"}
  /\ queued \subseteq queued'
  /\ \A p : pc[Inotify] \in {"track", "join"} /\ Announces(event, made, p)
               => \/ to \in {"track", "join"}
                  \/ to \in {"watch", "store"} /\ Dir(target'[Inotify]) = p
                  \/ Mapped(wdOf, p)
  /\ \A c : pc[Inotify] \in {"index", "put"} /\ Reports(event, pathOf, made, c)
               => to \in {"index", "put"} \/ c \in queued'

(* A step in the middle of an event keeps it, if what the event was owed is  *)
(* settled or still to come.                                                 *)
LEMMA HandlingInv ==
  ASSUME FWInv, NEW to, Handles(to), Settles(to), ThreadOK(Inotify)', JoinOK'
  PROVE  FWInv'
<1> USE DEF Handles, Settles
<1>1. Grew(made, made', disturbed, disturbed')
  BY DEF Grew, kernelVars, history
<1>2. /\ ThreadOK(Worker)' /\ StackOK' /\ SweepOK' /\ ControlOK'
      /\ pc'[Inotify] = to
  BY <1>1, WorkerUntouched
<1>3. EventsOK'
  BY <1>2 DEF FWInv, EventsOK, kernelVars, history
<1>4. DueOK'
  <2> SUFFICES ASSUME NEW p \in due, p \notin disturbed PROVE Noticed(p)'
    BY DEF DueOK, history
  <2>1. Noticed(p)
    BY DEF FWInv, DueOK
  <2> QED
    BY <1>2, <2>1 DEF Noticed, kernelVars, mapVars
<1>5. OwedOK'
  <2> SUFFICES ASSUME NEW c \in owed, c[1] \notin disturbed PROVE Reported(c)'
    BY DEF OwedOK, history
  <2>1. Reported(c)
    BY DEF FWInv, OwedOK
  <2> QED
    BY <1>2, <2>1 DEF Reported, kernelVars, mapVars
<1>6. TreeOK' /\ KernelOK'
  BY DEF FWInv, TreeOK, KernelOK, fsVars, kernelVars, history
<1>7. MapsOK(wdOf, pathOf, made, disturbed)' /\ (OneSpelling => TwoWay(wdOf, pathOf)')
  BY DEF FWInv, mapVars, kernelVars, history
<1> QED
  BY <1>2, <1>3, <1>4, <1>5, <1>6, <1>7 DEF FWInv

(* The tracker and the index handler look up the directory of an event.      *)
LEMMA FindInv ==
  ASSUME FWInv, FindBase \/ FindBaseToIndex
  PROVE  FWInv'
<1>1. PICK to : /\ pc' = [pc EXCEPT ![Inotify] = to]
                /\ \/ pc[Inotify] = "track" /\ to = "join" /\ event.wd \in DOMAIN pathOf
                   \/ /\ pc[Inotify] = "index"
                      /\ to = IF event.wd \in DOMAIN pathOf THEN "put" ELSE "read"
                /\ UNCHANGED <<fsVars, kernelVars, mapVars, target, wd, event, stack, sweep,
                               queued, history>>
  BY DEF FindBase, FindBaseToIndex, Goto
<1>2. pc'[Inotify] = to
  BY <1>1 DEF FWInv, ControlOK
<1>3. ThreadOK(Inotify)' /\ JoinOK'
  BY <1>1, <1>2 DEF ThreadOK, JoinOK, mapVars
<1>4. Settles(to)
  BY <1>1 DEF Settles, Reports
<1>5. Handles(to)
  BY <1>1 DEF Handles, FWInv, ControlOK
<1> QED
  BY <1>3, <1>4, <1>5, HandlingInv

(* The directory an event is about, as the tracker names it.                 *)
LEMMA JoinedFacts ==
  ASSUME FWInv, pc[Inotify] = "join", ~dangling
  PROVE  /\ event.wd \in DOMAIN pathOf /\ EventOK(event, made, disturbed)
         /\ Joined = In(event, made) /\ Joined \in Spelled /\ Dir(Joined) = Joined
<1>1. /\ event.wd \in DOMAIN pathOf /\ EventOK(event, made, disturbed)
      /\ event.op \in {"mkdir", "rmdir"}
  BY DEF FWInv, JoinOK, EventsOK
<1>2. In(event, made) \in Paths
  BY <1>1 DEF EventOK
<1>3. Dir(pathOf[event.wd]) = made[event.wd][1] /\ pathOf[event.wd] \in Spelled
  BY <1>1 DEF FWInv, MapsOK
<1>4. In(event, made) = Append(Dir(pathOf[event.wd]), event.name)
  BY <1>3 DEF In
<1>5. Dir(pathOf[event.wd]) \in Paths
  BY <1>3, SpelledFacts
<1> QED
  BY <1>1, <1>2, <1>4, <1>5, JoinFacts DEF Joined

(* The tracker goes on to watch the directory that was made.                 *)
LEMMA TrackCreateInv ==
  ASSUME FWInv, TrackCreate
  PROVE  FWInv'
<1>1. PICK to : /\ to = IF Joined \in DOMAIN wdOf THEN "read" ELSE "watch"
                /\ pc[Inotify] = "join" /\ ~dangling /\ event.op = "mkdir"
                /\ pc' = [pc EXCEPT ![Inotify] = to]
                /\ target' = [target EXCEPT ![Inotify] = Joined]
                /\ UNCHANGED <<fsVars, kernelVars, mapVars, wd, event, dangling, stack, sweep,
                               queued, history>>
  BY DEF TrackCreate, Goto
<1>2. /\ target' = [t \in {Inotify, Worker} |-> target'[t]] /\ Inotify # Worker
      /\ target'[Worker] = target[Worker] /\ target'[Inotify] = Joined /\ pc'[Inotify] = to
  BY <1>1 DEF FWInv, ControlOK, Inotify, Worker
<1>3. Joined = In(event, made) /\ Joined \in Spelled /\ Dir(Joined) = Joined
  BY <1>1, JoinedFacts
<1>4. ThreadOK(Inotify)' /\ JoinOK'
  BY <1>1, <1>2, <1>3 DEF ThreadOK, JoinOK
<1>5. \A p : Announces(event, made, p) => \/ to \in {"watch", "store"} /\ Dir(target'[Inotify]) = p
                                         \/ Mapped(wdOf, p)
  BY <1>1, <1>2, <1>3 DEF Announces, Mapped
<1>6. Settles(to)
  BY <1>1, <1>5 DEF Settles
<1>7. Handles(to)
  BY <1>1, <1>2 DEF Handles, FWInv, ControlOK
<1> QED
  BY <1>4, <1>6, <1>7, HandlingInv

(* Or to forget the one that was deleted.                                    *)
LEMMA TrackDeleteInv ==
  ASSUME FWInv, TrackDelete
  PROVE  FWInv'
<1> DEFINE to == "rm_watch"
<1>1. /\ pc[Inotify] = "join" /\ ~dangling /\ event.op = "rmdir" /\ Joined \in DOMAIN wdOf
      /\ pc' = [pc EXCEPT ![Inotify] = to]
      /\ wd' = [wd EXCEPT ![Inotify] = wdOf[Joined]]
      /\ UNCHANGED <<fsVars, kernelVars, mapVars, target, event, dangling, stack, sweep,
                     queued, history>>
  BY DEF TrackDelete, Goto
<1>2. /\ wd' = [t \in {Inotify, Worker} |-> wd'[t]] /\ Inotify # Worker
      /\ wd'[Worker] = wd[Worker] /\ wd'[Inotify] = wdOf[Joined] /\ pc'[Inotify] = to
  BY <1>1 DEF FWInv, ControlOK, Inotify, Worker
<1>3. /\ Joined = In(event, made) /\ EventOK(event, made, disturbed) /\ Dir(Joined) = Joined
  BY <1>1, JoinedFacts
<1>4. wdOf[Joined] \in 1 .. Len(made) /\ made[wdOf[Joined]][1] \in disturbed
  BY <1>1, <1>3 DEF FWInv, MapsOK, EventOK
<1>5. ThreadOK(Inotify)' /\ JoinOK'
  BY <1>1, <1>2, <1>4 DEF ThreadOK, JoinOK, kernelVars, history
<1>6. \A p : ~Announces(event, made, p)
  BY <1>1 DEF Announces
<1>7. Settles(to)
  BY <1>1, <1>6 DEF Settles
<1>8. Handles(to)
  BY <1>1, <1>2 DEF Handles, FWInv, ControlOK
<1> HIDE DEF to
<1> QED
  BY <1>5, <1>7, <1>8, HandlingInv

(* The request is put under the directory's own path.                        *)
LEMMA PutRequestInv ==
  ASSUME FWInv, PutRequest
  PROVE  FWInv'
<1> DEFINE to == "read"
<1>1. /\ pc[Inotify] = "put" /\ ~dangling
      /\ pc' = [pc EXCEPT ![Inotify] = to]
      /\ queued' = queued \cup {<<Dir(pathOf[event.wd]), event.change>>}
      /\ UNCHANGED <<fsVars, kernelVars, mapVars, target, wd, event, dangling, stack, sweep,
                     history>>
  BY DEF PutRequest, Goto
<1>2. pc'[Inotify] = to
  BY <1>1 DEF FWInv, ControlOK
<1>3. ThreadOK(Inotify)' /\ JoinOK'
  BY <1>1, <1>2 DEF ThreadOK, JoinOK
<1>4. event.wd \in DOMAIN pathOf
  BY <1>1 DEF FWInv, JoinOK
<1>5. Dir(pathOf[event.wd]) = made[event.wd][1]
  BY <1>4 DEF FWInv, MapsOK
<1>6. \A c : Reports(event, pathOf, made, c) => c \in queued'
  BY <1>1, <1>5 DEF Reports
<1>7. Settles(to)
  BY <1>1, <1>6 DEF Settles
<1>8. Handles(to)
  BY <1>1 DEF Handles, FWInv, ControlOK
<1> HIDE DEF to
<1> QED
  BY <1>3, <1>7, <1>8, HandlingInv

(* A step that ends the process changes nothing else.                        *)
LEMMA EndsInv ==
  ASSUME FWInv, UNCHANGED <<fsVars, kernelVars, mapVars, threadVars, queued, history>>
  PROVE  FWInv'
<1>1. /\ TreeOK' /\ KernelOK' /\ EventsOK'
      /\ MapsOK(wdOf, pathOf, made, disturbed)' /\ (OneSpelling => TwoWay(wdOf, pathOf)')
  BY DEF FWInv, TreeOK, KernelOK, EventsOK, fsVars, kernelVars, mapVars, threadVars, history
<1>2. /\ ThreadOK(Inotify)' /\ ThreadOK(Worker)' /\ JoinOK' /\ StackOK' /\ SweepOK' /\ ControlOK'
  BY DEF FWInv, ThreadOK, JoinOK, StackOK, SweepOK, ControlOK, kernelVars, mapVars, threadVars,
         history
<1>3. DueOK' /\ OwedOK'
  BY DEF FWInv, DueOK, OwedOK, Noticed, Reported, kernelVars, mapVars, threadVars, history
<1> QED
  BY <1>1, <1>2, <1>3 DEF FWInv

-----------------------------------------------------------------------------
(* The other steps read no event and put none.  Descriptors are added, and   *)
(* directories disturbed.                                                    *)
NoEventRead ==
  /\ Grew(made, made', disturbed, disturbed')
  /\ UNCHANGED <<events, event, owed>> /\ queued \subseteq queued'
  /\ \/ pc'[Inotify] = pc[Inotify]
     \/ /\ pc[Inotify] \notin {"track", "join", "index", "put"}
        /\ pc'[Inotify] \notin {"track", "join", "index", "put"}

(* They forget a directory only when it is disturbed, and a target only when *)
(* it is in the map.                                                         *)
NothingLost ==
  /\ \A a \in DOMAIN wdOf : Dir(a) \notin disturbed' => a \in DOMAIN wdOf'
  /\ \A w \in DOMAIN pathOf : made[w][1] \notin disturbed' => w \in DOMAIN pathOf'
  /\ pc[Inotify] \in {"watch", "store"} =>
       \/ pc'[Inotify] \in {"watch", "store"} /\ target'[Inotify] = target[Inotify]
       \/ Mapped(wdOf', Dir(target[Inotify]))
  /\ \A i \in 1 .. Len(stack) :
       \/ Mapped(wdOf', Dir(stack[i].dir))
       \/ \E j \in 1 .. Len(stack') : stack'[j].dir = stack[i].dir
  /\ \A p \in due' : p \in due \/ \E j \in 1 .. Len(stack') : Dir(stack'[j].dir) = p

(* The directory of an event and that of its descriptor stay the same.       *)
LEMMA AboutStays ==
  ASSUME NEW e, NEW m, NEW n, NEW gone, NEW lost, EventOK(e, m, gone), Grew(m, n, gone, lost)
  PROVE  In(e, n) = In(e, m) /\ n[e.wd][1] = m[e.wd][1]
BY DEF EventOK, Grew, In

(* Such a step owes nothing new but what it puts on the stack.               *)
LEMMA QuietInv ==
  ASSUME FWInv, NoEventRead, NothingLost,
         TreeOK', KernelOK', MapsOK(wdOf, pathOf, made, disturbed)',
         OneSpelling => TwoWay(wdOf, pathOf)',
         ThreadOK(Inotify)', ThreadOK(Worker)', JoinOK', StackOK', SweepOK', ControlOK'
  PROVE  FWInv'
<1>1. EventsOK'
  BY EventsStay DEF NoEventRead, FWInv
<1>2. \A i \in 1 .. Len(events) : /\ In(events[i], made') = In(events[i], made)
                                  /\ made'[events[i].wd][1] = made[events[i].wd][1]
  BY AboutStays DEF NoEventRead, FWInv, EventsOK
<1>3. pc[Inotify] \in {"track", "join", "index", "put"} =>
        In(event, made') = In(event, made) /\ made'[event.wd][1] = made[event.wd][1]
  BY AboutStays DEF NoEventRead, FWInv, EventsOK
<1>4. DueOK'
  <2> SUFFICES ASSUME NEW p \in due', p \notin disturbed' PROVE Noticed(p)'
    BY DEF DueOK
  <2>1. CASE p \notin due
    BY <2>1 DEF NothingLost, Noticed
  <2>2. CASE p \in due
    <3>1. Noticed(p)
      BY <2>2 DEF FWInv, DueOK, NoEventRead, Grew
    <3>2. CASE Mapped(wdOf, p)
      BY <3>2 DEF NothingLost, Mapped, Noticed
    <3>3. CASE \E i \in 1 .. Len(events) : Announces(events[i], made, p)
      BY <1>2, <3>3 DEF NoEventRead, Announces, Noticed
    <3>4. CASE pc[Inotify] \in {"track", "join"} /\ Announces(event, made, p)
      BY <1>3, <3>4 DEF NoEventRead, Announces, Noticed
    <3>5. CASE pc[Inotify] \in {"watch", "store"} /\ Dir(target[Inotify]) = p
      BY <3>5 DEF NothingLost, Noticed
    <3>6. CASE \E i \in 1 .. Len(stack) : Dir(stack[i].dir) = p
      BY <3>6 DEF NothingLost, Noticed
    <3> QED
      BY <3>1, <3>2, <3>3, <3>4, <3>5, <3>6 DEF Noticed
  <2> QED
    BY <2>1, <2>2
<1>5. OwedOK'
  <2> SUFFICES ASSUME NEW c \in owed, c[1] \notin disturbed' PROVE Reported(c)'
    BY DEF OwedOK, NoEventRead
  <2>1. Reported(c)
    BY DEF FWInv, OwedOK, NoEventRead, Grew
  <2>2. CASE c \in queued
    BY <2>2 DEF NoEventRead, Reported
  <2>3. ASSUME NEW e, Reports(e, pathOf, made, c), made'[e.wd][1] = made[e.wd][1]
        PROVE  Reports(e, pathOf', made', c)
    BY <2>3 DEF NothingLost, Reports
  <2>4. CASE \E i \in 1 .. Len(events) :
               events[i].op = "file" /\ Reports(events[i], pathOf, made, c)
    BY <1>2, <2>3, <2>4 DEF NoEventRead, Reported
  <2>5. CASE pc[Inotify] \in {"index", "put"} /\ Reports(event, pathOf, made, c)
    BY <1>3, <2>3, <2>5 DEF NoEventRead, Reported
  <2> QED
    BY <2>1, <2>2, <2>4, <2>5 DEF Reported
<1> QED
  BY <1>1, <1>4, <1>5 DEF FWInv

(* A thread goes on: the other stays where it is.                            *)
LEMMA MovesControl ==
  ASSUME ControlOK, NEW t \in {Inotify, Worker}, NEW to, pc' = [pc EXCEPT ![t] = to],
         target' = [u \in {Inotify, Worker} |-> target'[u]],
         wd' = [u \in {Inotify, Worker} |-> wd'[u]],
         t = Worker => to \in {"idle"} \cup Adding \cup Removing
  PROVE  /\ ControlOK' /\ pc'[t] = to /\ \A u \in {Inotify, Worker} : u # t => pc'[u] = pc[u]
         /\ Inotify # Worker
<1>1. Inotify # Worker
  BY DEF Inotify, Worker
<1>2. pc'[t] = to /\ (\A u \in {Inotify, Worker} : u # t => pc'[u] = pc[u])
      /\ pc' = [u \in {Inotify, Worker} |-> pc'[u]]
  BY DEF ControlOK
<1> QED
  BY <1>1, <1>2 DEF ControlOK

(* The kernel has a watch for the directory, the one it made before or a new *)
(* one.                                                                      *)
LEMMA WatchMade ==
  ASSUME TreeOK, KernelOK, NEW t \in {Inotify, Worker}, Dir(target[t]) \in Paths,
         ControlOK, AddInotifyWatch(t)
  PROVE  /\ Grew(made, made', disturbed, disturbed') /\ KernelOK'
         /\ wd'[t] \in 1 .. Len(made') /\ made'[wd'[t]][1] = Dir(target[t])
         /\ wd' = [u \in {Inotify, Worker} |-> wd'[u]]
         /\ \A u \in {Inotify, Worker} : u # t => wd'[u] = wd[u]
<1> DEFINE d == Dir(target[t])
<1>1. d \in dirs /\ UNCHANGED <<fsVars, disturbed>>
  BY DEF AddInotifyWatch, history
<1>2. made \in Seq(Paths \X Nat) /\ Len(made) \in Nat /\ live \subseteq 1 .. Len(made)
  BY DEF KernelOK
<1>3. CASE WatchesOn(d) # {}
  <2>1. PICK w \in WatchesOn(d) : wd' = [wd EXCEPT ![t] = w]
    BY <1>3 DEF AddInotifyWatch
  <2>2. made' = made /\ live' = live
    BY <1>3 DEF AddInotifyWatch
  <2>3. w \in 1 .. Len(made) /\ made[w][1] = d
    BY <1>2 DEF WatchesOn
  <2>4. KernelOK'
    BY <1>1, <2>2 DEF KernelOK, fsVars
  <2>5. wd'[t] = w
    BY <2>1 DEF ControlOK
  <2> QED
    BY <1>1, <2>1, <2>2, <2>3, <2>4, <2>5 DEF Grew, ControlOK
<1>4. CASE WatchesOn(d) = {}
  <2>1. /\ made' = Append(made, <<d, birth[d]>>) /\ live' = live \cup {Len(made')}
        /\ wd' = [wd EXCEPT ![t] = Len(made')]
    BY <1>4 DEF AddInotifyWatch
  <2>2. birth[d] \in Nat /\ (d \notin disturbed => birth[d] = 1)
    BY <1>1 DEF TreeOK
  <2>3. <<d, birth[d]>> \in Paths \X Nat
    BY <2>2
  <2>4. /\ made' \in Seq(Paths \X Nat) /\ Len(made') = Len(made) + 1
        /\ made'[Len(made) + 1] = <<d, birth[d]>>
        /\ \A w \in 1 .. Len(made) : made'[w] = made[w]
    BY <1>2, <2>1, <2>3
  <2>5. Len(made') \in 1 .. Len(made') /\ made'[Len(made')][1] = d
        /\ made'[Len(made')][2] = birth[d]
    BY <1>2, <2>4
  <2>6. Grew(made, made', disturbed, disturbed')
    BY <1>1, <1>2, <2>4 DEF Grew
  <2>7. KernelOK'
    <3>1. live' \subseteq 1 .. Len(made')
      <4>1. 1 .. Len(made) \subseteq 1 .. Len(made')
        BY <1>2, <2>4
      <4> QED
        BY <1>2, <2>1, <2>5, <4>1
    <3>2. ASSUME NEW w \in 1 .. Len(made'), made'[w][1] \notin disturbed'
          PROVE  w \in live' /\ made'[w][2] = 1 /\ made'[w][1] \in dirs'
      <4>1. CASE w \in 1 .. Len(made)
        BY <1>1, <2>1, <2>4, <3>2, <4>1 DEF KernelOK, fsVars
      <4>2. CASE w = Len(made')
        BY <1>1, <2>1, <2>2, <2>5, <3>2, <4>2 DEF fsVars
      <4> QED
        BY <1>2, <2>4, <4>1, <4>2
    <3> QED
      BY <2>4, <3>1, <3>2 DEF KernelOK
  <2>8. wd'[t] = Len(made')
    BY <2>1 DEF ControlOK
  <2> QED
    BY <2>1, <2>5, <2>6, <2>7, <2>8 DEF ControlOK
<1> QED
  BY <1>3, <1>4

(* A thread adds a watch for its target.                                     *)
LEMMA AddInotifyWatchInv ==
  ASSUME FWInv, NEW t \in {Inotify, Worker}, AddInotifyWatch(t)
  PROVE  FWInv'
<1>1. /\ pc[t] = "watch" /\ pc' = [pc EXCEPT ![t] = "store"]
      /\ UNCHANGED <<fsVars, events, mapVars, target, event, dangling, stack, sweep, queued,
                     history>>
  BY DEF AddInotifyWatch, Goto
<1>2. TreeOK /\ KernelOK /\ ControlOK /\ ThreadOK(t)
  BY DEF FWInv
<1>3. target[t] \in Spelled /\ Dir(target[t]) \in Paths
  BY <1>1, <1>2, SpelledFacts DEF ThreadOK
<1>4. /\ Grew(made, made', disturbed, disturbed') /\ KernelOK'
      /\ wd'[t] \in 1 .. Len(made') /\ made'[wd'[t]][1] = Dir(target[t])
      /\ wd' = [u \in {Inotify, Worker} |-> wd'[u]]
      /\ \A u \in {Inotify, Worker} : u # t => wd'[u] = wd[u]
  BY <1>2, <1>3, WatchMade
<1>5. target' = [u \in {Inotify, Worker} |-> target'[u]]
  BY <1>1, <1>2 DEF ControlOK
<1>6. /\ ControlOK' /\ pc'[t] = "store" /\ \A u \in {Inotify, Worker} : u # t => pc'[u] = pc[u]
      /\ Inotify # Worker
  <2>1. "store" \in {"idle"} \cup Adding \cup Removing
    BY DEF Adding
  <2> QED
    BY <1>1, <1>2, <1>4, <1>5, <2>1, MovesControl
<1>7. TreeOK'
  BY <1>1, <1>2 DEF TreeOK, fsVars, history
<1>8. MapsOK(wdOf, pathOf, made, disturbed)' /\ (OneSpelling => TwoWay(wdOf, pathOf)')
  BY <1>1, <1>4, MapsStay DEF FWInv, mapVars
<1>9. ThreadOK(t)'
  BY <1>1, <1>3, <1>4, <1>6 DEF ThreadOK
<1>10. \A u \in {Inotify, Worker} : u # t => ThreadOK(u)'
  BY <1>1, <1>4, <1>6, ThreadStays DEF FWInv
<1>11. JoinOK'
  BY <1>1, <1>6 DEF FWInv, JoinOK, mapVars
<1>12. StackOK'
  BY <1>1, <1>6 DEF FWInv, StackOK, Adding, Removing
<1>13. SweepOK'
  BY <1>1, <1>4, <1>6, SweepStays DEF FWInv, Removing
<1>14. NoEventRead
  BY <1>1, <1>4, <1>6 DEF NoEventRead, history
<1>15. NothingLost
  BY <1>1, <1>6 DEF NothingLost, mapVars, history
<1> QED
  BY <1>4, <1>6, <1>7, <1>8, <1>9, <1>10, <1>11, <1>12, <1>13, <1>14, <1>15, QuietInv

(* The watch of a disturbed directory goes.                                  *)
LEMMA RemoveInotifyWatchInv ==
  ASSUME FWInv, NEW t \in {Inotify, Worker}, RemoveInotifyWatch(t)
  PROVE  FWInv'
<1>1. /\ pc[t] = "rm_watch" /\ pc' = [pc EXCEPT ![t] = "unmap"]
      /\ live' = live \ {wd[t]}
      /\ UNCHANGED <<fsVars, made, events, mapVars, target, wd, event, dangling, stack, sweep,
                     queued, history>>
  BY DEF RemoveInotifyWatch, Goto
<1>2. /\ KernelOK /\ ControlOK /\ ThreadOK(t)
      /\ Grew(made, made', disturbed, disturbed')
  BY <1>1 DEF FWInv, Grew, history
<1>3. wd[t] \in 1 .. Len(made) /\ made[wd[t]][1] \in disturbed
  BY <1>1, <1>2 DEF ThreadOK
<1>4. KernelOK'
  BY <1>1, <1>2, <1>3 DEF KernelOK, fsVars, history
<1>5. /\ target' = [u \in {Inotify, Worker} |-> target'[u]]
      /\ wd' = [u \in {Inotify, Worker} |-> wd'[u]]
  BY <1>1, <1>2 DEF ControlOK
<1>6. /\ ControlOK' /\ pc'[t] = "unmap" /\ \A u \in {Inotify, Worker} : u # t => pc'[u] = pc[u]
      /\ Inotify # Worker
  <2>1. "unmap" \in {"idle"} \cup Adding \cup Removing
    BY DEF Removing
  <2> QED
    BY <1>1, <1>2, <1>5, <2>1, MovesControl
<1>7. TreeOK'
  BY <1>1 DEF FWInv, TreeOK, fsVars, history
<1>8. MapsOK(wdOf, pathOf, made, disturbed)' /\ (OneSpelling => TwoWay(wdOf, pathOf)')
  BY <1>1, <1>2, MapsStay DEF FWInv, mapVars
<1>9. ThreadOK(t)'
  BY <1>1, <1>3, <1>6 DEF ThreadOK, history
<1>10. \A u \in {Inotify, Worker} : u # t => ThreadOK(u)'
  BY <1>1, <1>2, <1>6, ThreadStays DEF FWInv
<1>11. JoinOK'
  BY <1>1, <1>6 DEF FWInv, JoinOK, mapVars
<1>12. StackOK'
  BY <1>1, <1>6 DEF FWInv, StackOK, Adding, Removing
<1>13. SweepOK'
  BY <1>1, <1>2, <1>6, SweepStays DEF FWInv, Removing
<1>14. NoEventRead
  BY <1>1, <1>2, <1>6 DEF NoEventRead, history
<1>15. NothingLost
  BY <1>1, <1>6 DEF NothingLost, mapVars, history
<1> QED
  BY <1>4, <1>6, <1>7, <1>8, <1>9, <1>10, <1>11, <1>12, <1>13, <1>14, <1>15, QuietInv

(* Entering a path and its descriptor in the maps keeps them right; with one *)
(* spelling, also the one the inverse of the other.                          *)
LEMMA MapsAdd ==
  ASSUME NEW f, NEW g, NEW m, NEW gone, MapsOK(f, g, m, gone),
         NEW a \in Spelled, NEW w \in 1 .. Len(m), m[w][1] = Dir(a)
  PROVE  /\ MapsOK(Put(f, a, w), Put(g, w, a), m, gone)
         /\ OneSpelling /\ TwoWay(f, g) => TwoWay(Put(f, a, w), Put(g, w, a))
<1> DEFINE F == Put(f, a, w)
           G == Put(g, w, a)
<1>1. /\ DOMAIN F = DOMAIN f \cup {a} /\ F[a] = w
      /\ \A b \in DOMAIN f : b # a => F[b] = f[b]
      /\ DOMAIN G = DOMAIN g \cup {w} /\ G[w] = a
      /\ \A v \in DOMAIN g : v # w => G[v] = g[v]
  BY DEF Put
<1> HIDE DEF F, G
<1>2. MapsOK(F, G, m, gone)
  <2>1. ASSUME NEW b \in DOMAIN F
        PROVE  /\ b \in Spelled /\ F[b] \in 1 .. Len(m) /\ m[F[b]][1] = Dir(b)
               /\ Dir(b) \notin gone => F[b] \in DOMAIN G
    BY <1>1 DEF MapsOK
  <2>2. ASSUME NEW v \in DOMAIN G
        PROVE  v \in 1 .. Len(m) /\ G[v] \in Spelled /\ Dir(G[v]) = m[v][1]
    BY <1>1 DEF MapsOK
  <2> QED
    BY <2>1, <2>2 DEF MapsOK
<1>3. ASSUME OneSpelling, TwoWay(f, g), NEW b \in DOMAIN F PROVE F[b] \in DOMAIN G /\ G[F[b]] = b
  <2>1. CASE b = a
    BY <1>1, <2>1
  <2>2. CASE b # a
    <3>1. b \in DOMAIN f /\ F[b] = f[b] /\ f[b] \in DOMAIN g /\ g[f[b]] = b
      BY <1>1, <1>3, <2>2 DEF TwoWay
    <3>2. f[b] # w
      BY <1>3, <2>2, <3>1 DEF OneSpelling, MapsOK
    <3> QED
      BY <1>1, <3>1, <3>2
  <2> QED
    BY <2>1, <2>2
<1> QED
  BY <1>1, <1>2, <1>3 DEF TwoWay, F, G

(* So does removing a descriptor of a disturbed directory, which no other    *)
(* directory loses anything by.                                              *)
LEMMA MapsDrop ==
  ASSUME NEW f, NEW g, NEW m, NEW gone, MapsOK(f, g, m, gone),
         NEW w \in DOMAIN g, m[w][1] \in gone
  PROVE  /\ MapsOK(Drop(f, g[w]), Drop(g, w), m, gone)
         /\ TwoWay(f, g) => TwoWay(Drop(f, g[w]), Drop(g, w))
         /\ \A a : a \in DOMAIN f /\ Dir(a) \notin gone => a \in DOMAIN Drop(f, g[w])
<1> DEFINE F == Drop(f, g[w])
           G == Drop(g, w)
<1>1. /\ DOMAIN F = DOMAIN f \ {g[w]} /\ \A b \in DOMAIN F : F[b] = f[b]
      /\ DOMAIN G = DOMAIN g \ {w} /\ \A v \in DOMAIN G : G[v] = g[v]
  BY DEF Drop
<1> HIDE DEF F, G
<1>2. Dir(g[w]) = m[w][1]
  BY DEF MapsOK
<1>3. MapsOK(F, G, m, gone)
  <2>1. ASSUME NEW b \in DOMAIN F
        PROVE  /\ b \in Spelled /\ F[b] \in 1 .. Len(m) /\ m[F[b]][1] = Dir(b)
               /\ Dir(b) \notin gone => F[b] \in DOMAIN G
    BY <1>1 DEF MapsOK
  <2>2. ASSUME NEW v \in DOMAIN G
        PROVE  v \in 1 .. Len(m) /\ G[v] \in Spelled /\ Dir(G[v]) = m[v][1]
    BY <1>1 DEF MapsOK
  <2> QED
    BY <2>1, <2>2 DEF MapsOK
<1>4. TwoWay(f, g) => TwoWay(F, G)
  BY <1>1 DEF TwoWay
<1>5. \A a : a \in DOMAIN f /\ Dir(a) \notin gone => a \in DOMAIN F
  BY <1>1, <1>2
<1> QED
  BY <1>1, <1>3, <1>4, <1>5 DEF F, G

(* A sequence without its last element.                                      *)
LEMMA FrontFacts ==
  ASSUME NEW S, NEW q \in Seq(S), q # <<>>
  PROVE  /\ Front(q) \in Seq(S) /\ Len(q) \in Nat \ {0} /\ Len(Front(q)) = Len(q) - 1
         /\ \A i \in 1 .. Len(q) - 1 : Front(q)[i] = q[i]
<1>1. Len(q) \in Nat \ {0} /\ \A i \in 1 .. Len(q) : q[i] \in S
  OBVIOUS
<1>2. \A i \in 1 .. (Len(q) - 1) : q[i] \in S
  BY <1>1
<1>3. 1 \in Int /\ Len(q) - 1 \in Int
  BY <1>1
<1> DEFINE n == Len(q) - 1
<1> HIDE DEF n
<1>4. n \in Nat /\ \A i \in 1 .. n : q[i] \in S
  BY <1>1, <1>2 DEF n
<1>5. /\ SubSeq(q, 1, n) \in Seq(S) /\ Len(SubSeq(q, 1, n)) = n
      /\ \A i \in 1 .. n : SubSeq(q, 1, n)[i] = q[i]
  BY <1>4
<1> QED
  BY <1>1, <1>5 DEF Front, n

(* The worker is done with a frame.                                          *)
LEMMA PoppedFacts ==
  ASSUME StackOK, ControlOK, pc[Worker] \in Adding, Popped
  PROVE  \E to \in {"idle", "scan"} :
           /\ pc' = [pc EXCEPT ![Worker] = to]
           /\ stack' \in Seq(Frames) /\ (to = "idle" => stack' = <<>>)
           /\ to = "scan" => stack' # <<>>
           /\ \A i \in 1 .. Len(stack) : \/ stack[i] = Last(stack)
                                         \/ i \in 1 .. Len(stack') /\ stack'[i] = stack[i]
<1>1. /\ stack \in Seq(Frames) /\ Len(stack) \in Nat \ {0} /\ Last(stack) = stack[Len(stack)]
      /\ stack # <<>> /\ stack' = Front(stack)
      /\ pc' = [pc EXCEPT ![Worker] = IF Len(stack) = 1 THEN "idle" ELSE "scan"]
  BY DEF StackOK, Popped, Last
<1>2. /\ stack' \in Seq(Frames) /\ Len(stack') = Len(stack) - 1
      /\ \A i \in 1 .. Len(stack) - 1 : stack'[i] = stack[i]
  BY <1>1, FrontFacts
<1>3. \A i \in 1 .. Len(stack) : \/ stack[i] = Last(stack)
                                 \/ i \in 1 .. Len(stack') /\ stack'[i] = stack[i]
  BY <1>1, <1>2
<1>4. CASE Len(stack) = 1
  <2>1. stack' = <<>>
    BY <1>2, <1>4
  <2>2. pc' = [pc EXCEPT ![Worker] = "idle"]
    BY <1>1, <1>4
  <2> QED
    BY <1>2, <1>3, <2>1, <2>2
<1>5. CASE Len(stack) # 1
  <2>1. Len(stack') # 0
    BY <1>1, <1>2, <1>5
  <2>2. stack' # <<>>
    BY <1>2, <2>1
  <2>3. pc' = [pc EXCEPT ![Worker] = "scan"]
    BY <1>1, <1>5
  <2> QED
    BY <1>2, <1>3, <2>2, <2>3
<1> QED
  BY <1>4, <1>5

(* The watch is entered in the maps.                                         *)
LEMMA StoreWatchInv ==
  ASSUME FWInv, NEW t \in {Inotify, Worker}, StoreWatch(t)
  PROVE  FWInv'
<1>1. /\ pc[t] = "store"
      /\ wdOf' = Put(wdOf, target[t], wd[t]) /\ pathOf' = Put(pathOf, wd[t], target[t])
      /\ UNCHANGED <<fsVars, kernelVars, target, wd, event, dangling, sweep, queued, history>>
  BY DEF StoreWatch, MapAdd
<1>2. /\ KernelOK /\ ControlOK /\ ThreadOK(t) /\ StackOK
      /\ MapsOK(wdOf, pathOf, made, disturbed) /\ (OneSpelling => TwoWay(wdOf, pathOf))
      /\ Grew(made, made', disturbed, disturbed')
  BY <1>1 DEF FWInv, Grew, history, kernelVars
<1>3. /\ target[t] \in Spelled /\ wd[t] \in 1 .. Len(made) /\ made[wd[t]][1] = Dir(target[t])
  BY <1>1, <1>2 DEF ThreadOK
<1>4. /\ MapsOK(wdOf', pathOf', made, disturbed)
      /\ (OneSpelling => TwoWay(wdOf', pathOf'))
      /\ DOMAIN wdOf' = DOMAIN wdOf \cup {target[t]} /\ DOMAIN pathOf' = DOMAIN pathOf \cup {wd[t]}
  <2> DEFINE f == wdOf
             g == pathOf
             m == made
             a == target[t]
             w == wd[t]
             F == Put(f, a, w)
             G == Put(g, w, a)
  <2>1. MapsOK(F, G, m, disturbed)
    BY <1>2, <1>3, MapsAdd
  <2>2. OneSpelling => TwoWay(F, G)
    BY <1>2, <1>3, MapsAdd
  <2>3. DOMAIN F = DOMAIN f \cup {a} /\ DOMAIN G = DOMAIN g \cup {w}
    BY DEF Put
  <2>4. wdOf' = F /\ pathOf' = G
    BY <1>1
  <2> HIDE DEF F, G
  <2> QED
    BY <2>1, <2>2, <2>3, <2>4
<1>5. Mapped(wdOf', Dir(target[t]))
  BY <1>4 DEF Mapped
<1>6. PICK to \in {"read", "idle", "scan"} :
        /\ pc' = [pc EXCEPT ![t] = to] /\ (t = Worker => to # "read")
        /\ stack' \in Seq(Frames)
        /\ t = Inotify => to = "read" /\ stack' = stack
        /\ t = Worker /\ to = "idle" => stack' = <<>>
        /\ t = Worker /\ to = "scan" => stack' # <<>>
        /\ \A i \in 1 .. Len(stack) :
             \/ t = Worker /\ stack[i].dir = target[t]
             \/ i \in 1 .. Len(stack') /\ stack'[i] = stack[i]
  <2>1. CASE t = Inotify
    <3>1. pc' = [pc EXCEPT ![t] = "read"] /\ stack' = stack /\ Inotify # Worker
      BY <2>1 DEF StoreWatch, Goto, Inotify, Worker
    <3> QED
      BY <1>2, <2>1, <3>1 DEF StackOK
  <2>2. CASE t = Worker
    <3>1. Popped /\ pc[Worker] \in Adding /\ Inotify # Worker
      BY <1>1, <2>2 DEF StoreWatch, Adding, Inotify, Worker
    <3>2. Last(stack).dir = target[t]
      BY <1>1, <1>2, <2>2 DEF StackOK
    <3>3. PICK to \in {"idle", "scan"} :
            /\ pc' = [pc EXCEPT ![Worker] = to]
            /\ stack' \in Seq(Frames) /\ (to = "idle" => stack' = <<>>)
            /\ to = "scan" => stack' # <<>>
            /\ \A i \in 1 .. Len(stack) : \/ stack[i] = Last(stack)
                                          \/ i \in 1 .. Len(stack') /\ stack'[i] = stack[i]
      BY <1>2, <3>1, PoppedFacts
    <3> QED
      BY <2>2, <3>1, <3>2, <3>3
  <2> QED
    BY <2>1, <2>2
<1>7. /\ target' = [u \in {Inotify, Worker} |-> target'[u]]
      /\ wd' = [u \in {Inotify, Worker} |-> wd'[u]]
  BY <1>1, <1>2 DEF ControlOK
<1>8. /\ ControlOK' /\ pc'[t] = to /\ \A u \in {Inotify, Worker} : u # t => pc'[u] = pc[u]
      /\ Inotify # Worker
  <2>1. t = Worker => to \in {"idle"} \cup Adding \cup Removing
    BY <1>6 DEF Adding
  <2> QED
    BY <1>2, <1>6, <1>7, <2>1, MovesControl
<1>9. TreeOK' /\ KernelOK'
  BY <1>1 DEF FWInv, TreeOK, KernelOK, fsVars, kernelVars, history
<1>10. ThreadOK(t)'
  BY <1>6, <1>8 DEF ThreadOK
<1>11. \A u \in {Inotify, Worker} : u # t => ThreadOK(u)'
  BY <1>1, <1>2, <1>8, ThreadStays DEF FWInv
<1>12. JoinOK'
  BY <1>1, <1>4, <1>6, <1>8 DEF FWInv, JoinOK
<1>13. StackOK'
  <2>1. CASE t = Inotify
    BY <1>1, <1>2, <1>6, <1>8, <2>1 DEF StackOK
  <2>2. CASE t = Worker
    BY <1>1, <1>6, <1>8, <2>2 DEF StackOK, Adding, Removing
  <2> QED
    BY <2>1, <2>2
<1>14. SweepOK'
  <2>1. pc'[Worker] \in Removing => pc[Worker] \in Removing
    BY <1>6, <1>8 DEF Removing
  <2> QED
    BY <1>1, <1>2, <2>1, SweepStays DEF FWInv
<1>15. NoEventRead
  BY <1>1, <1>2, <1>6, <1>8 DEF NoEventRead, kernelVars, history
<1>16. NothingLost
  <2>1. \A i \in 1 .. Len(stack) : \/ Mapped(wdOf', Dir(stack[i].dir))
                                   \/ \E j \in 1 .. Len(stack') : stack'[j].dir = stack[i].dir
    BY <1>5, <1>6
  <2>2. pc[Inotify] \in {"watch", "store"} =>
           \/ pc'[Inotify] \in {"watch", "store"} /\ target'[Inotify] = target[Inotify]
           \/ Mapped(wdOf', Dir(target[Inotify]))
    BY <1>1, <1>5, <1>8
  <2> QED
    BY <1>1, <1>4, <2>1, <2>2 DEF NothingLost, history
<1>17. MapsOK(wdOf, pathOf, made, disturbed)' /\ (OneSpelling => TwoWay(wdOf, pathOf)')
  BY <1>1, <1>4 DEF kernelVars, history
<1> QED
  BY <1>8, <1>9, <1>10, <1>11, <1>12, <1>13, <1>14, <1>15, <1>16, <1>17, QuietInv

(* A descriptor of a disturbed directory goes from the maps.                 *)
LEMMA UnmapInv ==
  ASSUME FWInv, NEW t \in {Inotify, Worker}, Unmap(t)
  PROVE  FWInv'
<1>1. /\ pc[t] = "unmap" /\ MapRemove(wd[t])
      /\ UNCHANGED <<fsVars, kernelVars, target, wd, event, stack, sweep, queued, history>>
  BY DEF Unmap, Goto
<1> DEFINE to == IF t = Inotify THEN "read" ELSE "sweep"
<1>2. pc' = [pc EXCEPT ![t] = to]
  BY DEF Unmap, Goto
<1>3. /\ KernelOK /\ ControlOK /\ ThreadOK(t)
      /\ MapsOK(wdOf, pathOf, made, disturbed) /\ (OneSpelling => TwoWay(wdOf, pathOf))
      /\ Grew(made, made', disturbed, disturbed')
  BY <1>1 DEF FWInv, Grew, history, kernelVars
<1>4. wd[t] \in 1 .. Len(made) /\ made[wd[t]][1] \in disturbed
  BY <1>1, <1>3 DEF ThreadOK
<1>5. /\ MapsOK(wdOf', pathOf', made, disturbed)
      /\ (OneSpelling => TwoWay(wdOf', pathOf'))
      /\ \A a \in DOMAIN wdOf : Dir(a) \notin disturbed => a \in DOMAIN wdOf'
      /\ \A w \in DOMAIN pathOf : w # wd[t] => w \in DOMAIN pathOf'
      /\ pc[Inotify] \in {"join", "put"} /\ ~dangling'
           => ~dangling /\ (event.wd \in DOMAIN pathOf => event.wd \in DOMAIN pathOf')
  <2>1. CASE wd[t] \in DOMAIN pathOf
    <3>1. /\ wdOf' = Drop(wdOf, pathOf[wd[t]]) /\ pathOf' = Drop(pathOf, wd[t])
          /\ dangling' = (dangling \/ (pc[Inotify] \in {"join", "put"} /\ event.wd = wd[t]))
      BY <1>1, <2>1 DEF MapRemove
    <3>2. /\ MapsOK(wdOf', pathOf', made, disturbed)
          /\ (TwoWay(wdOf, pathOf) => TwoWay(wdOf', pathOf'))
          /\ \A a \in DOMAIN wdOf : Dir(a) \notin disturbed => a \in DOMAIN wdOf'
          /\ DOMAIN pathOf' = DOMAIN pathOf \ {wd[t]}
      <4>1. MapsOK(Drop(wdOf, pathOf[wd[t]]), Drop(pathOf, wd[t]), made, disturbed)
        BY <1>3, <1>4, <2>1, MapsDrop
      <4>2. TwoWay(wdOf, pathOf) => TwoWay(Drop(wdOf, pathOf[wd[t]]), Drop(pathOf, wd[t]))
        BY <1>3, <1>4, <2>1, MapsDrop
      <4>3. \A a : a \in DOMAIN wdOf /\ Dir(a) \notin disturbed
                     => a \in DOMAIN Drop(wdOf, pathOf[wd[t]])
        BY <1>3, <1>4, <2>1, MapsDrop
      <4>4. DOMAIN Drop(pathOf, wd[t]) = DOMAIN pathOf \ {wd[t]}
        BY DEF Drop
      <4> QED
        BY <3>1, <4>1, <4>2, <4>3, <4>4
    <3>3. pc[Inotify] \in {"join", "put"} /\ ~dangling' => ~dangling /\ event.wd # wd[t]
      BY <3>1
    <3> QED
      BY <1>3, <3>2, <3>3
  <2>2. CASE wd[t] \notin DOMAIN pathOf
    BY <1>1, <1>3, <2>2 DEF MapRemove, mapVars
  <2> QED
    BY <2>1, <2>2
<1>6. /\ target' = [u \in {Inotify, Worker} |-> target'[u]]
      /\ wd' = [u \in {Inotify, Worker} |-> wd'[u]]
  BY <1>1, <1>3 DEF ControlOK
<1>7. /\ ControlOK' /\ pc'[t] = to /\ \A u \in {Inotify, Worker} : u # t => pc'[u] = pc[u]
      /\ Inotify # Worker
  <2>1. t = Worker => to \in {"idle"} \cup Adding \cup Removing
    BY DEF Removing, Inotify, Worker
  <2> HIDE DEF to
  <2> QED
    BY <1>2, <1>3, <1>6, <2>1, MovesControl
<1>8. TreeOK' /\ KernelOK'
  BY <1>1 DEF FWInv, TreeOK, KernelOK, fsVars, kernelVars, history
<1>9. ThreadOK(t)'
  BY <1>7 DEF ThreadOK
<1>10. \A u \in {Inotify, Worker} : u # t => ThreadOK(u)'
  BY <1>1, <1>3, <1>7, ThreadStays DEF FWInv
<1>11. JoinOK'
  BY <1>1, <1>5, <1>7 DEF FWInv, JoinOK
<1>12. StackOK'
  BY <1>1, <1>7 DEF FWInv, StackOK, Adding, Removing
<1>13. SweepOK'
  <2>1. pc'[Worker] \in Removing => pc[Worker] \in Removing
    BY <1>1, <1>7 DEF Removing
  <2> QED
    BY <1>1, <1>3, <2>1, SweepStays DEF FWInv
<1>14. NoEventRead
  BY <1>1, <1>3, <1>7 DEF NoEventRead, kernelVars, history
<1>15. NothingLost
  <2>1. \A w \in DOMAIN pathOf : made[w][1] \notin disturbed' => w \in DOMAIN pathOf'
    BY <1>1, <1>4, <1>5 DEF history
  <2>2. pc[Inotify] \in {"watch", "store"} => pc'[Inotify] = pc[Inotify]
    BY <1>1, <1>7
  <2> QED
    BY <1>1, <1>5, <2>1, <2>2 DEF NothingLost, history
<1>16. MapsOK(wdOf, pathOf, made, disturbed)' /\ (OneSpelling => TwoWay(wdOf, pathOf)')
  BY <1>1, <1>5 DEF kernelVars, history
<1> QED
  BY <1>7, <1>8, <1>9, <1>10, <1>11, <1>12, <1>13, <1>14, <1>15, <1>16, QuietInv

-----------------------------------------------------------------------------
(* A step of the worker that leaves the file system, the kernel and the maps *)
(* alone is none of the inotify thread's.                                    *)
WorkerStep(to) ==
  /\ pc' = [pc EXCEPT ![Worker] = to] /\ to \in {"idle"} \cup Adding \cup Removing
  /\ target' = [u \in {Inotify, Worker} |-> target'[u]] /\ target'[Inotify] = target[Inotify]
  /\ wd' = [u \in {Inotify, Worker} |-> wd'[u]] /\ wd'[Inotify] = wd[Inotify]
  /\ UNCHANGED <<fsVars, kernelVars, mapVars, event, dangling, owed>>
  /\ queued \subseteq queued' /\ disturbed \subseteq disturbed'

FramesStay ==
  /\ \A i \in 1 .. Len(stack) :
       \/ Mapped(wdOf, Dir(stack[i].dir))
       \/ \E j \in 1 .. Len(stack') : stack'[j].dir = stack[i].dir
  /\ \A p \in due' : p \in due \/ \E j \in 1 .. Len(stack') : Dir(stack'[j].dir) = p

(* A step of the worker that loses no frame leaves the other thread alone.   *)
LEMMA WorkerStepInv ==
  ASSUME FWInv, NEW to, WorkerStep(to), FramesStay, ThreadOK(Worker)', StackOK', SweepOK'
  PROVE  FWInv'
<1>1. /\ pc' = [pc EXCEPT ![Worker] = to] /\ to \in {"idle"} \cup Adding \cup Removing
      /\ target' = [u \in {Inotify, Worker} |-> target'[u]] /\ target'[Inotify] = target[Inotify]
      /\ wd' = [u \in {Inotify, Worker} |-> wd'[u]] /\ wd'[Inotify] = wd[Inotify]
      /\ UNCHANGED <<fsVars, kernelVars, mapVars, event, dangling, owed>>
      /\ queued \subseteq queued' /\ disturbed \subseteq disturbed'
  BY DEF WorkerStep
<1>2. ControlOK /\ Grew(made, made', disturbed, disturbed')
  BY <1>1 DEF FWInv, Grew, kernelVars
<1>3. ControlOK' /\ pc'[Worker] = to /\ pc'[Inotify] = pc[Inotify] /\ Inotify # Worker
  <2>1. Worker \in {Inotify, Worker} /\ Inotify \in {Inotify, Worker} /\ Inotify # Worker
    BY DEF Inotify, Worker
  <2> QED
    BY <1>1, <1>2, <2>1, MovesControl
<1>4. TreeOK' /\ KernelOK'
  BY <1>1 DEF FWInv, TreeOK, KernelOK, fsVars, kernelVars
<1>5. MapsOK(wdOf, pathOf, made, disturbed)' /\ (OneSpelling => TwoWay(wdOf, pathOf)')
  BY <1>1, <1>2, MapsStay DEF FWInv, mapVars
<1>6. ThreadOK(Inotify)'
  BY <1>1, <1>2, <1>3, ThreadStays DEF FWInv
<1>7. JoinOK'
  BY <1>1, <1>3 DEF FWInv, JoinOK, mapVars
<1>8. NoEventRead
  BY <1>1, <1>2, <1>3 DEF NoEventRead, kernelVars
<1>9. NothingLost
  BY <1>1, <1>3 DEF NothingLost, FramesStay, mapVars
<1> QED
  BY <1>3, <1>4, <1>5, <1>6, <1>7, <1>8, <1>9, QuietInv

(* The frame of a directory that exists.                                     *)
LEMMA FrameFacts ==
  ASSUME TreeOK, NEW a \in Spelled
  PROVE  Frame(a) \in Frames /\ Frame(a).dir = a
<1> DEFINE D == {p \in dirs : Len(p) > 1 /\ Front(p) = Dir(a)}
           b == Dir(a) \in files
<1>1. D \in SUBSET Inner /\ b \in BOOLEAN
  BY DEF TreeOK, Inner
<1>2. Frame(a) = [dir |-> a, dirs |-> D, file |-> b]
  BY DEF Frame
<1> HIDE DEF D, b
<1>3. Frame(a) \in Frames
  <2>1. [dir |-> a, dirs |-> D, file |-> b] \in [dir : Spelled, dirs : SUBSET Inner, file : BOOLEAN]
    BY <1>1, Zenon
  <2> QED
    BY <1>2, <2>1, Zenon DEF Frames
<1>4. Frame(a).dir = a
  BY <1>2
<1> QED
  BY <1>3, <1>4

(* A scan starts with the frame of its directory.                            *)
LEMMA RunAddFrames ==
  ASSUME FWInv, NEW a \in Spelled, AddDirectoryRecursive(a)
  PROVE  FWInv'
<1>1. CASE Dir(a) \notin dirs
  <2>1. UNCHANGED <<fsVars, kernelVars, mapVars, threadVars, queued, history>>
    BY <1>1 DEF AddDirectoryRecursive, watchVars
  <2> QED
    BY <2>1, EndsInv
<1>2. CASE Dir(a) \in dirs
  <2> DEFINE to == "scan"
  <2>1. /\ pc[Worker] = "idle" /\ pc' = [pc EXCEPT ![Worker] = to]
        /\ stack' = <<Frame(a)>> /\ due' = due \cup {Dir(a)}
        /\ UNCHANGED <<fsVars, kernelVars, mapVars, target, wd, event, dangling, sweep, queued,
                       owed, disturbed>>
    BY <1>2 DEF AddDirectoryRecursive, Goto
  <2>2. ControlOK /\ StackOK /\ stack = <<>> /\ pc'[Worker] = to
    BY <2>1 DEF FWInv, StackOK, ControlOK, Removing
  <2>3. Frame(a) \in Frames /\ Frame(a).dir = a
    BY FrameFacts DEF FWInv
  <2>4. stack' \in Seq(Frames) /\ Len(stack') = 1 /\ stack'[1] = Frame(a) /\ stack' # <<>>
    BY <2>1, <2>3
  <2>5. StackOK'
    BY <2>2, <2>4 DEF StackOK, Removing
  <2>6. ThreadOK(Worker)' /\ SweepOK'
    BY <2>2 DEF ThreadOK, SweepOK, Removing
  <2>7. WorkerStep(to)
    BY <2>1, <2>2 DEF WorkerStep, ControlOK, Adding
  <2>8. FramesStay
    <3>1. 1 \in 1 .. Len(stack') /\ Dir(stack'[1].dir) = Dir(a)
      BY <2>3, <2>4
    <3>2. \A i \in 1 .. Len(stack) : FALSE
      BY <2>2
    <3> QED
      BY <2>1, <3>1, <3>2 DEF FramesStay
  <2> HIDE DEF to
  <2> QED
    BY <2>5, <2>6, <2>7, <2>8, WorkerStepInv
<1> QED
  BY <1>1, <1>2

(* The stack q with f as its top frame.                                      *)
Topped(q, f) == [q EXCEPT ![Len(q)] = f]

(* A frame of the same directory in place of the top one.                    *)
LEMMA ToppedFacts ==
  ASSUME NEW q \in Seq(Frames), q # <<>>, NEW f \in Frames, f.dir = Last(q).dir
  PROVE  /\ Topped(q, f) \in Seq(Frames) /\ Len(Topped(q, f)) = Len(q) /\ Topped(q, f) # <<>>
         /\ Last(Topped(q, f)) = f
         /\ \A i \in 1 .. Len(q) : /\ i \in 1 .. Len(Topped(q, f))
                                   /\ Topped(q, f)[i].dir = q[i].dir
<1> DEFINE r == Topped(q, f)
<1>0. r = [q EXCEPT ![Len(q)] = f]
  BY DEF Topped
<1> HIDE DEF r
<1>1. /\ Len(q) \in Nat \ {0} /\ Last(q) = q[Len(q)] /\ DOMAIN q = 1 .. Len(q)
      /\ Len(q) \in 1 .. Len(q)
  BY DEF Last
<1>2. r \in Seq(Frames) /\ Len(r) = Len(q)
  BY <1>0, <1>1
<1>3. r[Len(q)] = f /\ \A i \in 1 .. Len(q) : i # Len(q) => r[i] = q[i]
  BY <1>0, <1>1
<1>4. Last(r) = f /\ r # <<>>
  BY <1>1, <1>2, <1>3 DEF Last
<1>5. \A i \in 1 .. Len(q) : i \in 1 .. Len(r) /\ r[i].dir = q[i].dir
  BY <1>1, <1>2, <1>3
<1> QED
  BY <1>2, <1>4, <1>5 DEF r

(* The scan of a file changes its frame only.                                *)
LEMMA ScanFileInv ==
  ASSUME FWInv, ScanFile
  PROVE  FWInv'
<1> DEFINE to == "scan"
           f == [Top EXCEPT !.file = FALSE]
<1>1. /\ pc[Worker] = "scan" /\ pc' = [pc EXCEPT ![Worker] = to]
      /\ stack' = [stack EXCEPT ![Len(stack)] = f]
      /\ queued \subseteq queued'
      /\ UNCHANGED <<fsVars, kernelVars, mapVars, target, wd, event, dangling, sweep, history>>
  BY DEF ScanFile, SetTop, Goto
<1>2. /\ ControlOK /\ StackOK /\ pc'[Worker] = to
      /\ stack \in Seq(Frames) /\ stack # <<>>
  BY <1>1 DEF FWInv, StackOK, ControlOK, Adding
<1>3. f \in Frames /\ f.dir = Last(stack).dir
  <2>1. Top \in Frames /\ Top = Last(stack)
    BY <1>2 DEF Top, Last
  <2> HIDE DEF Top
  <2>2. f \in Frames
    BY <2>1, Zenon DEF Frames
  <2>3. f.dir = Top.dir
    BY <2>1 DEF Frames
  <2> QED
    BY <2>1, <2>2, <2>3
<1> HIDE DEF f
<1>4. /\ stack' \in Seq(Frames) /\ stack' # <<>> /\ Last(stack') = f
      /\ \A i \in 1 .. Len(stack) : i \in 1 .. Len(stack') /\ stack'[i].dir = stack[i].dir
  <2>1. stack' = Topped(stack, f)
    BY <1>1 DEF Topped
  <2> QED
    BY <1>2, <1>3, <2>1, ToppedFacts
<1>5. StackOK' /\ ThreadOK(Worker)' /\ SweepOK'
  BY <1>2, <1>4 DEF StackOK, ThreadOK, SweepOK, Removing
<1>6. WorkerStep(to)
  BY <1>1, <1>2 DEF WorkerStep, ControlOK, Adding, history
<1>7. FramesStay
  BY <1>1, <1>4 DEF FramesStay, history
<1> HIDE DEF to
<1> QED
  BY <1>5, <1>6, <1>7, WorkerStepInv

(* A directory found in the scan gets a frame of its own, unless it is       *)
(* excluded or gone.                                                         *)
LEMMA ScanDirInv ==
  ASSUME FWInv, NEW p \in Paths, ScanDir(p)
  PROVE  FWInv'
<1> DEFINE to == "scan"
           f == [Top EXCEPT !.dirs = @ \ {p}]
           rest == Topped(stack, f)
<1>1. /\ pc[Worker] = "scan" /\ pc' = [pc EXCEPT ![Worker] = to] /\ p \in Top.dirs
      /\ UNCHANGED <<fsVars, kernelVars, mapVars, target, wd, event, dangling, sweep, queued,
                     owed, disturbed>>
  BY DEF ScanDir, Goto
<1>2. /\ ControlOK /\ StackOK /\ pc'[Worker] = to /\ Top = Last(stack)
      /\ stack \in Seq(Frames) /\ stack # <<>> /\ Top \in Frames
  <2>1. ControlOK /\ StackOK /\ pc'[Worker] = to /\ stack \in Seq(Frames) /\ stack # <<>>
    BY <1>1 DEF FWInv, StackOK, ControlOK, Adding
  <2> QED
    BY <2>1 DEF Top, Last
<1>3. f \in Frames /\ f.dir = Last(stack).dir
  <2> DEFINE u == Top
  <2>1. u \in Frames /\ u = Last(stack)
    BY <1>2
  <2> HIDE DEF u
  <2>2. u.dirs \ {p} \in SUBSET Inner
    BY <2>1 DEF Frames
  <2>3. [u EXCEPT !.dirs = u.dirs \ {p}] \in Frames
    BY <2>1, <2>2, Zenon DEF Frames
  <2>4. [u EXCEPT !.dirs = u.dirs \ {p}].dir = u.dir
    BY <2>1 DEF Frames
  <2> QED
    BY <2>1, <2>3, <2>4 DEF u
<1>4. [stack EXCEPT ![Len(stack)].dirs = @ \ {p}] = rest
  BY <1>2 DEF Topped, Top, Last
<1>5. IF Last(p) \notin excludes /\ p \in dirs
      THEN stack' = Append(rest, Frame(p)) /\ due' = due \cup {p}
      ELSE stack' = rest /\ UNCHANGED due
  BY <1>4 DEF ScanDir
<1> HIDE DEF f
<1>6. /\ rest \in Seq(Frames) /\ rest # <<>>
      /\ \A i \in 1 .. Len(stack) : i \in 1 .. Len(rest) /\ rest[i].dir = stack[i].dir
  BY <1>2, <1>3, ToppedFacts
<1> HIDE DEF rest
<1>7. p \in Spelled /\ Dir(p) = p /\ Frame(p) \in Frames /\ Frame(p).dir = p
  <2>1. p \in Spelled
    BY <1>1, <1>2 DEF Frames, Spelled
  <2> QED
    BY <2>1, PathFacts, FrameFacts DEF FWInv
<1>8. /\ stack' \in Seq(Frames) /\ stack' # <<>>
      /\ \A i \in 1 .. Len(stack) : i \in 1 .. Len(stack') /\ stack'[i].dir = stack[i].dir
      /\ \A q \in due' : q \in due \/ \E j \in 1 .. Len(stack') : Dir(stack'[j].dir) = q
  <2>1. CASE stack' = rest /\ UNCHANGED due
    BY <1>6, <2>1
  <2>2. CASE stack' = Append(rest, Frame(p)) /\ due' = due \cup {p}
    <3>1. /\ stack' \in Seq(Frames) /\ Len(stack') = Len(rest) + 1 /\ Len(rest) \in Nat
          /\ stack'[Len(rest) + 1] = Frame(p)
          /\ \A i \in 1 .. Len(rest) : stack'[i] = rest[i]
      BY <1>6, <1>7, <2>2
    <3>2. Len(rest) + 1 \in 1 .. Len(stack') /\ Dir(stack'[Len(rest) + 1].dir) = p
      BY <1>7, <3>1
    <3>3. stack' # <<>>
      BY <3>1
    <3>4. \A i \in 1 .. Len(stack) : i \in 1 .. Len(stack') /\ stack'[i].dir = stack[i].dir
      BY <1>6, <3>1
    <3> QED
      BY <2>2, <3>1, <3>2, <3>3, <3>4
  <2> QED
    BY <1>5, <2>1, <2>2
<1>9. StackOK' /\ ThreadOK(Worker)' /\ SweepOK'
  BY <1>2, <1>8 DEF StackOK, ThreadOK, SweepOK, Removing
<1>10. WorkerStep(to)
  BY <1>1, <1>2 DEF WorkerStep, ControlOK, Adding
<1>11. FramesStay
  BY <1>8 DEF FramesStay
<1> HIDE DEF to
<1> QED
  BY <1>9, <1>10, <1>11, WorkerStepInv

(* The directory of the top frame is watched once its scan is over, unless   *)
(* it is in the map.                                                         *)
LEMMA ScanDoneInv ==
  ASSUME FWInv, ScanDone
  PROVE  FWInv'
<1>1. /\ pc[Worker] = "scan"
      /\ UNCHANGED <<fsVars, kernelVars, mapVars, wd, event, dangling, sweep, queued, history>>
  BY DEF ScanDone
<1>2. ControlOK /\ StackOK /\ stack \in Seq(Frames) /\ stack # <<>> /\ Inotify # Worker
  BY <1>1 DEF FWInv, StackOK, Adding, Inotify, Worker
<1>3. Len(stack) \in 1 .. Len(stack) /\ Top = stack[Len(stack)] /\ Top \in Frames
  BY <1>2 DEF Top, Last
<1>4. CASE Top.dir \in DOMAIN wdOf
  <2>1. Popped /\ target' = target
    BY <1>4 DEF ScanDone
  <2>2. PICK to \in {"idle", "scan"} :
          /\ pc' = [pc EXCEPT ![Worker] = to]
          /\ stack' \in Seq(Frames) /\ (to = "idle" => stack' = <<>>)
          /\ to = "scan" => stack' # <<>>
          /\ \A i \in 1 .. Len(stack) : \/ stack[i] = Last(stack)
                                        \/ i \in 1 .. Len(stack') /\ stack'[i] = stack[i]
    BY <1>1, <1>2, <2>1, PoppedFacts DEF Adding
  <2>3. pc'[Worker] = to
    BY <1>2, <2>2 DEF ControlOK
  <2>4. StackOK' /\ ThreadOK(Worker)' /\ SweepOK'
    BY <2>2, <2>3 DEF StackOK, ThreadOK, SweepOK, Adding, Removing
  <2>5. WorkerStep(to)
    BY <1>1, <1>2, <2>1, <2>2 DEF WorkerStep, ControlOK, Adding, history
  <2>6. FramesStay
    <3>1. Mapped(wdOf, Dir(Last(stack).dir))
      BY <1>4 DEF Mapped, Top
    <3> QED
      BY <1>1, <2>2, <3>1 DEF FramesStay, history
  <2> QED
    BY <2>4, <2>5, <2>6, WorkerStepInv
<1>5. CASE Top.dir \notin DOMAIN wdOf
  <2> DEFINE to == "watch"
  <2>1. /\ pc' = [pc EXCEPT ![Worker] = to] /\ target' = [target EXCEPT ![Worker] = Top.dir]
        /\ stack' = stack
    BY <1>5 DEF ScanDone, Goto
  <2>2. /\ pc'[Worker] = to /\ target'[Worker] = Top.dir /\ target'[Inotify] = target[Inotify]
        /\ target' = [u \in {Inotify, Worker} |-> target'[u]]
    BY <1>2, <2>1 DEF ControlOK
  <2>3. Top.dir \in Spelled /\ Top.dir = Last(stack).dir
    BY <1>3 DEF Frames, Top
  <2>4. StackOK' /\ ThreadOK(Worker)' /\ SweepOK'
    BY <1>2, <2>1, <2>2, <2>3 DEF StackOK, ThreadOK, SweepOK, Adding, Removing
  <2>5. WorkerStep(to)
    BY <1>1, <1>2, <2>1, <2>2 DEF WorkerStep, ControlOK, Adding, history
  <2>6. FramesStay
    BY <1>1, <2>1 DEF FramesStay, history
  <2> HIDE DEF to
  <2> QED
    BY <2>4, <2>5, <2>6, WorkerStepInv
<1> QED
  BY <1>4, <1>5

-----------------------------------------------------------------------------
(* From the removal of a directory on, what its name finds is disturbed.     *)
LEMMA RunRemoveSweep ==
  ASSUME FWInv, NEW a \in Spelled, RemoveDirectoryRecursive(a)
  PROVE  FWInv'
<1> DEFINE to == "sweep"
<1>1. /\ pc[Worker] = "idle" /\ pc' = [pc EXCEPT ![Worker] = to]
      /\ target' = [target EXCEPT ![Worker] = a]
      /\ sweep' = IF a \in DOMAIN wdOf THEN {wdOf[a]} ELSE {}
      /\ disturbed' = disturbed \cup {p \in Paths : StartsWith(p, Dir(a))}
      /\ UNCHANGED <<fsVars, kernelVars, mapVars, wd, event, dangling, stack, queued, due, owed>>
  BY DEF RemoveDirectoryRecursive, Goto
<1>2. /\ ControlOK /\ StackOK /\ MapsOK(wdOf, pathOf, made, disturbed)
      /\ pc'[Worker] = to /\ target'[Worker] = a
      /\ target'[Inotify] = target[Inotify]
      /\ target' = [u \in {Inotify, Worker} |-> target'[u]]
  BY <1>1 DEF FWInv, ControlOK, Inotify, Worker
<1>3. Dir(a) \in Paths /\ Dir(a) \in disturbed'
  BY <1>1, SpelledFacts, SelfPrefix
<1>4. \A w \in sweep' : w \in 1 .. Len(made') /\ made'[w][1] \in disturbed'
  BY <1>1, <1>2, <1>3 DEF MapsOK, kernelVars
<1>5. SweepOK'
  <2>1. \A p \in Paths : StartsWith(p, Dir(target'[Worker])) => p \in disturbed'
    BY <1>1, <1>2
  <2> QED
    BY <1>2, <1>4, <2>1 DEF SweepOK
<1>6. StackOK' /\ ThreadOK(Worker)'
  BY <1>1, <1>2 DEF StackOK, ThreadOK, Adding, Removing
<1>7. WorkerStep(to)
  BY <1>1, <1>2 DEF WorkerStep, ControlOK, Removing
<1>8. FramesStay
  BY <1>1 DEF FramesStay
<1> HIDE DEF to
<1> QED
  BY <1>5, <1>6, <1>7, <1>8, WorkerStepInv

(* What the map has below the directory is in its scope.                     *)
LEMMA ListSubDirsInv ==
  ASSUME FWInv, ListSubDirs
  PROVE  FWInv'
<1> DEFINE to == "sweep"
<1>1. /\ pc[Worker] = "sweep" /\ pc' = [pc EXCEPT ![Worker] = to] /\ target[Worker] # <<>>
      /\ sweep' = SubDirs(target[Worker]) /\ target' = [target EXCEPT ![Worker] = <<>>]
      /\ UNCHANGED <<fsVars, kernelVars, mapVars, wd, event, dangling, stack, queued, history>>
  BY DEF ListSubDirs, Goto
<1>2. /\ ControlOK /\ StackOK /\ MapsOK(wdOf, pathOf, made, disturbed)
      /\ pc'[Worker] = to /\ target'[Worker] = <<>>
      /\ target'[Inotify] = target[Inotify]
      /\ target' = [u \in {Inotify, Worker} |-> target'[u]]
  BY <1>1 DEF FWInv, ControlOK, Inotify, Worker
<1>3. /\ target[Worker] \in Spelled
      /\ \A p \in Paths : StartsWith(p, Dir(target[Worker])) => p \in disturbed
  BY <1>1 DEF FWInv, SweepOK, Removing
<1>4. ASSUME NEW w \in sweep' PROVE w \in 1 .. Len(made) /\ made[w][1] \in disturbed
  <2>1. PICK q \in DOMAIN wdOf : StartsWith(q, target[Worker]) /\ w = wdOf[q]
    BY <1>1 DEF SubDirs
  <2>2. q \in Spelled /\ w \in 1 .. Len(made) /\ made[w][1] = Dir(q)
    BY <1>2, <2>1 DEF MapsOK
  <2>3. Dir(q) \in Paths /\ StartsWith(Dir(q), Dir(target[Worker]))
    BY <1>3, <2>1, <2>2, SpelledFacts, ScopeOfPrefix
  <2> QED
    BY <1>3, <2>2, <2>3
<1>5. SweepOK'
  BY <1>1, <1>2, <1>4 DEF SweepOK, kernelVars, history
<1>6. StackOK' /\ ThreadOK(Worker)'
  BY <1>1, <1>2 DEF StackOK, ThreadOK, Adding, Removing
<1>7. WorkerStep(to)
  BY <1>1, <1>2 DEF WorkerStep, ControlOK, Removing, history
<1>8. FramesStay
  BY <1>1 DEF FramesStay, history
<1> HIDE DEF to
<1> QED
  BY <1>5, <1>6, <1>7, <1>8, WorkerStepInv

(* The descriptors of the scope are removed one by one.                      *)
LEMMA SweepInv ==
  ASSUME FWInv, NEW w \in sweep, Sweep(w)
  PROVE  FWInv'
<1> DEFINE to == "rm_watch"
<1>1. /\ pc[Worker] = "sweep" /\ pc' = [pc EXCEPT ![Worker] = to]
      /\ wd' = [wd EXCEPT ![Worker] = w] /\ sweep' = sweep \ {w}
      /\ UNCHANGED <<fsVars, kernelVars, mapVars, target, event, dangling, stack, queued, history>>
  BY DEF Sweep, Goto
<1>2. /\ ControlOK /\ StackOK /\ SweepOK /\ pc'[Worker] = to /\ wd'[Worker] = w
      /\ wd'[Inotify] = wd[Inotify] /\ wd' = [u \in {Inotify, Worker} |-> wd'[u]]
  BY <1>1 DEF FWInv, ControlOK, Inotify, Worker
<1>3. w \in 1 .. Len(made) /\ made[w][1] \in disturbed
  BY <1>1, <1>2 DEF SweepOK, Removing
<1>4. SweepOK'
  BY <1>1, <1>2 DEF SweepOK, Removing, kernelVars, history
<1>5. StackOK' /\ ThreadOK(Worker)'
  BY <1>1, <1>2, <1>3 DEF StackOK, ThreadOK, Adding, Removing, kernelVars, history
<1>6. WorkerStep(to)
  BY <1>1, <1>2 DEF WorkerStep, ControlOK, Removing, history
<1>7. FramesStay
  BY <1>1 DEF FramesStay, history
<1> HIDE DEF to
<1> QED
  BY <1>4, <1>5, <1>6, <1>7, WorkerStepInv

(* The end of a removal.                                                     *)
LEMMA SweepDoneInv ==
  ASSUME FWInv, SweepDone
  PROVE  FWInv'
<1> DEFINE to == "idle"
<1>1. /\ pc[Worker] = "sweep" /\ pc' = [pc EXCEPT ![Worker] = to]
      /\ UNCHANGED <<fsVars, kernelVars, mapVars, target, wd, event, dangling, stack, sweep,
                     queued, history>>
  BY DEF SweepDone, Goto
<1>2. ControlOK /\ StackOK /\ pc'[Worker] = to
  BY <1>1 DEF FWInv, ControlOK
<1>3. StackOK' /\ ThreadOK(Worker)' /\ SweepOK'
  BY <1>1, <1>2 DEF StackOK, ThreadOK, SweepOK, Adding, Removing
<1>4. WorkerStep(to)
  BY <1>1, <1>2 DEF WorkerStep, ControlOK, history
<1>5. FramesStay
  BY <1>1 DEF FramesStay, history
<1> HIDE DEF to
<1> QED
  BY <1>3, <1>4, <1>5, WorkerStepInv

-----------------------------------------------------------------------------
(* At first nothing is watched, and nothing was ever deleted.                *)
LEMMA FWInitInv == FWInit => FWInv
<1> SUFFICES ASSUME FWInit PROVE FWInv
  OBVIOUS
<1>1. /\ dirs \in InitialTrees /\ birth = [p \in Paths |-> IF p \in dirs THEN 1 ELSE 0]
      /\ changes = 0 /\ made = <<>> /\ live = {} /\ events = <<>>
      /\ wdOf = <<>> /\ pathOf = <<>> /\ stack = <<>> /\ disturbed = {} /\ due = {} /\ owed = {}
  BY DEF FWInit
<1>2. /\ pc = [t \in {Inotify, Worker} |-> pc[t]] /\ pc[Inotify] = "read" /\ pc[Worker] = "idle"
  BY DEF FWInit, Inotify, Worker
<1>3. /\ target = [t \in {Inotify, Worker} |-> <<>>] /\ wd = [t \in {Inotify, Worker} |-> 0]
  BY DEF FWInit
<1>4. TreeOK
  <2>1. dirs \subseteq Paths
    BY <1>1, FileWatcherAssumption
  <2> QED
    BY <1>1, <2>1 DEF TreeOK
<1>5. KernelOK
  BY <1>1 DEF KernelOK
<1>6. EventsOK
  BY <1>1, <1>2 DEF EventsOK
<1>7. DOMAIN wdOf = {} /\ DOMAIN pathOf = {}
  BY <1>1
<1>8. MapsOK(wdOf, pathOf, made, disturbed) /\ TwoWay(wdOf, pathOf)
  BY <1>7 DEF MapsOK, TwoWay
<1>9. ThreadOK(Inotify) /\ ThreadOK(Worker) /\ JoinOK
  BY <1>2 DEF ThreadOK, JoinOK
<1>10. StackOK /\ SweepOK
  BY <1>1, <1>2 DEF StackOK, SweepOK, Adding, Removing
<1>11. ControlOK
  BY <1>2, <1>3 DEF ControlOK
<1>12. DueOK /\ OwedOK
  BY <1>1 DEF DueOK, OwedOK
<1> QED
  BY <1>4, <1>5, <1>6, <1>8, <1>9, <1>10, <1>11, <1>12 DEF FWInv

(* Every step of the inotify thread keeps the invariant.                     *)
LEMMA InotifyThreadInv ==
  ASSUME FWInv, InotifyThread
  PROVE  FWInv'
<1>1. CASE BaseUnknown \/ JoinFreedPath \/ DeletedUnknown \/ WatchFails(Inotify)
  <2>1. UNCHANGED <<fsVars, kernelVars, mapVars, threadVars, queued, history>>
    BY <1>1 DEF BaseUnknown, JoinFreedPath, DeletedUnknown, WatchFails
  <2> QED
    BY <2>1, EndsInv
<1>2. CASE FindBase \/ FindBaseToIndex
  BY <1>2, FindInv
<1>3. CASE ReadEvent \/ TrackCreate \/ TrackDelete \/ PutRequest
  BY <1>3, ReadEventInv, TrackCreateInv, TrackDeleteInv, PutRequestInv
<1>4. CASE AddInotifyWatch(Inotify) \/ StoreWatch(Inotify)
  BY <1>4, AddInotifyWatchInv, StoreWatchInv
<1>5. CASE RemoveInotifyWatch(Inotify) \/ Unmap(Inotify)
  BY <1>5, RemoveInotifyWatchInv, UnmapInv
<1> QED
  BY <1>1, <1>2, <1>3, <1>4, <1>5 DEF InotifyThread

(* Every step of the worker in a scan or a removal keeps it.                 *)
LEMMA WorkerThreadInv ==
  ASSUME FWInv, WorkerThread
  PROVE  FWInv'
<1>1. CASE WatchFails(Worker)
  BY <1>1, EndsInv DEF WatchFails
<1>2. CASE ScanFile \/ ScanDone \/ \E p \in Paths : ScanDir(p)
  BY <1>2, ScanFileInv, ScanDoneInv, ScanDirInv
<1>3. CASE ListSubDirs \/ SweepDone \/ \E w \in sweep : Sweep(w)
  BY <1>3, ListSubDirsInv, SweepDoneInv, SweepInv
<1>4. CASE AddInotifyWatch(Worker) \/ StoreWatch(Worker)
  BY <1>4, AddInotifyWatchInv, StoreWatchInv
<1>5. CASE RemoveInotifyWatch(Worker) \/ Unmap(Worker)
  BY <1>5, RemoveInotifyWatchInv, UnmapInv
<1> QED
  BY <1>1, <1>2, <1>3, <1>4, <1>5 DEF WorkerThread

(* The steps of the service thread and the commands of the worker keep it:   *)
(* what the worker is told to add or remove is what a request says.          *)
LEMMA RequestInv ==
  ASSUME WRInv, FWInv, NEW r,
         HandleReceived(r) \/ PushDirectory \/ AddExclude \/ RemoveExclude \/ RunAdd \/ RunRemove
  PROVE  FWInv'
<1>1. CASE HandleReceived(r) \/ PushDirectory
  BY <1>1, EndsInv DEF HandleReceived, PushDirectory, watchVars
<1>2. CASE AddExclude \/ RemoveExclude
  BY <1>2, EndsInv DEF AddExclude, RemoveExclude
<1>3. CASE RunAdd \/ RunRemove
  <2>1. /\ commands \in Seq(Commands) /\ commands # <<>>
        /\ Head(commands).code \in {"ADD", "REMOVE"} /\ command' = Head(commands)
    BY <1>3 DEF WRInv, RunAdd, RunRemove, Take
  <2>2. Head(commands) \in Commands
    BY <2>1
  <2>3. command'.arg \in Spelled
    BY <2>1, <2>2 DEF Commands, Spelled
  <2> QED
    BY <1>3, <2>3, RunAddFrames, RunRemoveSweep DEF RunAdd, RunRemove
<1> QED
  BY <1>1, <1>2, <1>3

(* Every step keeps both invariants.                                         *)
LEMMA WRFWStep == WRInv /\ FWInv /\ [WRNext]_wrVars => WRInv' /\ FWInv'
<1> SUFFICES ASSUME WRInv, FWInv, [WRNext]_wrVars PROVE FWInv'
  BY WRStepInv
<1>1. CASE UNCHANGED wrVars
  BY <1>1, EndsInv DEF wrVars, watchVars
<1>2. CASE FileSystem \/ InotifyThread \/ WorkerThread
  BY <1>2, FileSystemInv, InotifyThreadInv, WorkerThreadInv
<1> QED
  BY <1>1, <1>2, RequestInv DEF WRNext

(* The invariant of the watcher, its two threads, the kernel and the file    *)
(* system, for any tree and any requests.                                    *)
THEOREM WatcherInvariant == WRSpec => []FWInv
<1>1. WRInit => WRInv /\ FWInv
  BY WRInitInv, FWInitInv DEF WRInit
<1> QED
  BY <1>1, WRFWStep, PTL DEF WRSpec

(* As long as nobody gives a directory two spellings, the two maps agree,    *)
(* whatever the inotify thread and the worker add and remove meanwhile, and  *)
(* a descriptor stands for the directory the kernel made it for.             *)
THEOREM PathMapIsSound == OneSpelling => (WRSpec => []PathMapSound)
<1>1. OneSpelling /\ FWInv => PathMapSound
  BY DEF FWInv, MapsOK, TwoWay, PathMapSound
<1> SUFFICES ASSUME OneSpelling PROVE WRSpec => []PathMapSound
  OBVIOUS
<1>2. FWInv => PathMapSound
  BY <1>1
<1> QED
  BY <1>2, WatcherInvariant, PTL

(* At rest no event and no frame is left to bring a directory into the map.  *)
LEMMA RestFacts ==
  ASSUME FWInv, AtRest
  PROVE  /\ events = <<>> /\ pc[Inotify] = "read" /\ pc[Worker] = "idle" /\ stack = <<>>
BY DEF AtRest, FWInv, StackOK

(* Once every event is handled and the worker is idle, each directory that a *)
(* scan visited or that was made in a monitored directory is watched, if it  *)
(* was never deleted and no removal names it.                                *)
THEOREM DirectoriesWatched == WRSpec => []WatchedAtRest
<1>1. FWInv => WatchedAtRest
  <2> SUFFICES ASSUME FWInv, AtRest, NEW p \in due, p \notin disturbed PROVE Watched(p)
    BY DEF WatchedAtRest
  <2>1. events = <<>> /\ pc[Inotify] = "read" /\ stack = <<>>
    BY RestFacts
  <2>2. Mapped(wdOf, p)
    BY <2>1 DEF FWInv, DueOK, Noticed
  <2>3. PICK a \in DOMAIN wdOf : Dir(a) = p
    BY <2>2 DEF Mapped
  <2> DEFINE w == wdOf[a]
  <2>4. a \in Spelled /\ w \in 1 .. Len(made) /\ made[w][1] = p /\ w \in DOMAIN pathOf
    BY <2>3 DEF FWInv, MapsOK
  <2>5. w \in live /\ made[w][2] = 1 /\ p \in dirs
    BY <2>4 DEF FWInv, KernelOK
  <2>6. made[w] \in Paths \X Nat
    BY <2>4 DEF FWInv, KernelOK
  <2>7. birth[p] = 1
    BY <2>5 DEF FWInv, TreeOK
  <2>8. made[w] = <<p, birth[p]>>
    BY <2>4, <2>5, <2>6, <2>7
  <2> QED
    BY <2>3, <2>4, <2>5, <2>8 DEF Watched, WatchesOn
<1> QED
  BY <1>1, WatcherInvariant, PTL

(* And each change of a file in a directory that was monitored at that       *)
(* moment has been put on the index queue, under its own path.               *)
THEOREM ChangesQueued == WRSpec => []ChangesQueuedAtRest
<1>1. FWInv => ChangesQueuedAtRest
  <2> SUFFICES ASSUME FWInv, AtRest, NEW c \in owed PROVE c[1] \in disturbed \/ c \in queued
    BY DEF ChangesQueuedAtRest
  <2>1. events = <<>> /\ pc[Inotify] = "read"
    BY RestFacts
  <2> QED
    BY <2>1 DEF FWInv, OwedOK, Reported
<1> QED
  BY <1>1, WatcherInvariant, PTL
=============================================================================
