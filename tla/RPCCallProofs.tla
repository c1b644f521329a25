---------------------------- MODULE RPCCallProofs ----------------------------
(* Theorems about RPCCall, for any number of pieces of command and reply:    *)
(* one report, no use after delete, and the whole reply.                     *)
EXTENDS RPCCall, TLAPS

(* The table of this poll server: one slot, of the only descriptor.          *)
Slots == [fd : {NoFd, Fd}, owner : Pollables \cup {NoPollable}, in : BOOLEAN, out : BOOLEAN]
Table == [slots : [1 .. 1 -> Slots], num : {0, 1}]

Owns(p, t) == t \in Table /\ t.num = 1 /\ t.slots[1].fd = Fd /\ t.slots[1].owner = p

(* The slot is p's, who lives and has not handed over.                       *)
Holds(p) ==
  /\ Owns(p, table)
  /\ life[p] = "alive"
  /\ report = None
  /\ step = "idle" \/ loop

(* The phases of a call: before it, the ClientSocket's, the RPCSocket's, and *)
(* after the report.                                                         *)
Before ==
  /\ thread = "calling" /\ step = "idle" /\ ~loop
  /\ table.num = 0
  /\ life = [s \in Pollables |-> "none"]
  /\ freed = [c \in Callbacks |-> 0]
  /\ report = None
  /\ peer = "none" /\ inbuf = 0

Connecting1 ==
  /\ thread = "looping"
  /\ Holds(Client) /\ life[RPC] = "none"
  /\ freed = [c \in Callbacks |-> 0]
  /\ peer \in {"fresh", "connecting", "established", "refused"} /\ inbuf = 0

Talking ==
  /\ thread = "looping"
  /\ Holds(RPC) /\ life[Client] = "deleted"
  /\ freed = [c \in Callbacks |-> IF c = "done" THEN 0 ELSE 1]
  /\ peer = "connected"

After ==
  /\ thread \in {"looping", "finished"} /\ ~loop
  /\ thread = "looping" => step \in {"out", "slot", "test", "left"}
  /\ table.num = 0
  /\ freed = [c \in Callbacks |-> 1]
  /\ peer \in {"none", "closed"}

(* Where the walk over the one slot may be.                                  *)
WalkOK ==
  /\ cursor \in {0, 1}
  /\ step \in {"in", "out"} => cursor = 1 /\ current = Fd
  /\ step \notin {"in", "out"} => current \in {Fd, NoFd}
  /\ step = "in" => table.num = 1
  /\ step = "slot" /\ cursor = 1 => table.num = 1
  /\ step = "left" => ~loop

(* What was sent has come, or is on its way; only a connection ends.         *)
StreamOK ==
  /\ sent \in Nat /\ wire \in Nat /\ inbuf \in Nat
  /\ ended \in {"no", "eof", "reset", "reset_seen"}
  /\ ended \in {"no", "eof"} => inbuf + wire = sent
  /\ ended # "no" => peer \in {"established", "connected", "closed"}

RPCInv ==
  /\ table \in Table
  /\ life \in [Pollables -> {"none", "alive", "deleted"}]
  /\ Before \/ Connecting1 \/ Talking \/ After
  /\ WalkOK
  /\ StreamOK
  /\ ~died
-----------------------------------------------------------------------------
(* The only descriptor is at slot 1 when there is one registration.          *)
LEMMA OneSlot ==
  ASSUME NEW p, NEW t, Owns(p, t)
  PROVE  LastIndexOf(t, Fd) = 1
<1>1. {i \in 1 .. t.num : t.slots[i].fd = Fd} = {1}
  BY DEF Owns
<1>2. (CHOOSE i \in {1} : \A j \in {1} : j <= i) = 1
  BY SMT
<1> QED
  BY <1>1, <1>2 DEF LastIndexOf

(* The ClientSocket takes the slot.                                          *)
LEMMA RegisterFirst ==
  ASSUME NEW t \in Table, t.num = 0
  PROVE  Owns(Client, Register(t, Client, Fd))
<1>1. {i \in 1 .. t.num : t.slots[i].fd = Fd} = {}
  BY SMT
<1>2. LastIndexOf(t, Fd) = 0
  BY <1>1 DEF LastIndexOf
<1>3. Len(t.slots) = 1
  BY DEF Table
<1>4. Register(t, Client, Fd)
      = [slots |-> [t.slots EXCEPT ![1].fd = Fd, ![1].owner = Client], num |-> 1]
  BY <1>2, <1>3 DEF Register
<1>5. Client \in Pollables
  BY RPCCallAssumption
<1> QED
  BY <1>4, <1>5 DEF Owns, Table, Slots

(* The RPCSocket takes it over, so that the ClientSocket's Unregister finds  *)
(* another owner.                                                            *)
LEMMA HandOver ==
  ASSUME NEW t, Owns(Client, t)
  PROVE  Owns(RPC, Unregister(Register(t, RPC, Fd), Client, Fd))
<1>1. LastIndexOf(t, Fd) = 1
  BY OneSlot
<1>2. Register(t, RPC, Fd)
      = [slots |-> [t.slots EXCEPT ![1].fd = Fd, ![1].owner = RPC], num |-> 1]
  BY <1>1 DEF Register, Owns
<1>3. RPC \in Pollables /\ RPC # Client
  BY RPCCallAssumption DEF RPC, Client
<1>4. Owns(RPC, Register(t, RPC, Fd))
  BY <1>2, <1>3 DEF Owns, Table, Slots
<1>5. ~IsRegistered(Register(t, RPC, Fd), Client, Fd)
  BY <1>3, <1>4, OneSlot DEF IsRegistered, Owns
<1> QED
  BY <1>4, <1>5 DEF Unregister

(* The owner leaves an empty table.                                          *)
LEMMA UnregisterOnly ==
  ASSUME NEW p, NEW t, Owns(p, t)
  PROVE  Unregister(t, p, Fd) \in Table /\ Unregister(t, p, Fd).num = 0
<1>1. LastIndexOf(t, Fd) = 1 /\ t.slots[1].owner = p /\ t.num = 1
  BY OneSlot DEF Owns
<1>2. Unregister(t, p, Fd)
      = [slots |-> [t.slots EXCEPT ![1] = [t.slots[1] EXCEPT !.in = FALSE, !.out = FALSE]],
         num |-> 0]
  BY <1>1 DEF Unregister, IsRegistered
<1>3. t.slots \in [1 .. 1 -> Slots]
  BY DEF Owns, Table
<1> DEFINE g == [t.slots EXCEPT ![1] = [t.slots[1] EXCEPT !.in = FALSE, !.out = FALSE]]
<1>4. g \in [1 .. 1 -> Slots]
  BY <1>3 DEF Slots
<1> HIDE DEF g
<1> QED
  BY <1>2, <1>4 DEF Table, g

(* poll(2) fills in two fields of a slot, and leaves the others.             *)
LEMMA FilledIn ==
  ASSUME NEW x \in Slots, NEW a \in BOOLEAN, NEW b \in BOOLEAN,
         NEW y, y = [x EXCEPT !.in = a, !.out = b]
  PROVE  y \in Slots /\ y.fd = x.fd /\ y.owner = x.owner
<1>1. y.fd = x.fd /\ y.owner = x.owner
  BY DEF Slots
<1>2. y \in Slots
  BY Zenon DEF Slots
<1> QED
  BY <1>1, <1>2

(* The same with what poll(2) fills in.                                      *)
LEMMA Polled ==
  ASSUME NEW x \in Slots, NEW X, NEW Y,
         NEW y, y = [x EXCEPT !.in = x.fd \in X, !.out = x.fd \in Y]
  PROVE  y \in Slots /\ y.fd = x.fd /\ y.owner = x.owner
<1> DEFINE a == x.fd \in X
           b == x.fd \in Y
<1>1. (x.fd \in X) \in BOOLEAN /\ (x.fd \in Y) \in BOOLEAN
  BY SMT
<1>2. a \in BOOLEAN /\ b \in BOOLEAN
  BY <1>1
<1>3. y = [x EXCEPT !.in = a, !.out = b]
  OBVIOUS
<1>4. y.fd = x.fd /\ y.owner = x.owner
  BY DEF Slots
<1> HIDE DEF a, b
<1>5. y \in Slots
  BY <1>2, <1>3, FilledIn, Zenon
<1> QED
  BY <1>4, <1>5

(* The call has not begun.                                                   *)
LEMMA InitInv == RPCInit => RPCInv
<1> SUFFICES ASSUME RPCInit PROVE RPCInv
  OBVIOUS
<1>1. table \in Table
  BY DEF RPCInit, PollInit, Table, Slots, Unused
<1> QED
  BY <1>1 DEF RPCInit, PollInit, RPCInv, Before, WalkOK, StreamOK

(* Who is called in a slot is the one who holds it, and lives.               *)
LEMMA DueHolds ==
  ASSUME RPCInv, NEW p \in Pollables, ReadDue(p) \/ WriteDue(p)
  PROVE  /\ thread = "looping" /\ current = Fd /\ loop
         /\ step \in {"in", "out"} /\ cursor = 1
         /\ \/ p = Client /\ Connecting1
            \/ p = RPC /\ Talking
<1>1. step \in {"in", "out"} /\ cursor = 1 /\ current = Fd /\ table.num # 0
  BY DEF ReadDue, WriteDue, RPCInv, WalkOK
<1>2. table.slots[1].owner = p
  BY <1>1 DEF ReadDue, WriteDue
<1>3. Connecting1 \/ Talking
  BY <1>1 DEF RPCInv, Before, After
<1>4. ASSUME NEW q, Holds(q) PROVE q = p /\ loop
  BY <1>1, <1>2, <1>4 DEF Holds, Owns
<1> QED
  BY <1>1, <1>3, <1>4 DEF Connecting1, Talking

-----------------------------------------------------------------------------
(* One step of each part of the system at a time.                            *)
LEMMA BeginInv ==
  ASSUME RPCInv, PerformRPC \/ CannotResolve
  PROVE  RPCInv'
<1>0. Client \in Pollables /\ RPC \in Pollables /\ Client # RPC
  BY RPCCallAssumption DEF Client, RPC
<1>1. Before /\ WalkOK /\ StreamOK /\ ~died /\ table \in Table
      /\ life \in [Pollables -> {"none", "alive", "deleted"}]
  BY DEF RPCInv, PerformRPC, CannotResolve, Connecting1, Talking, After, Before
<1>2. CASE PerformRPC
  <2>1. Owns(Client, table')
    BY <1>1, <1>2, RegisterFirst DEF PerformRPC, Before
  <2>2. Connecting1'
    BY <1>0, <1>1, <1>2, <2>1 DEF PerformRPC, Before, Connecting1, Holds
  <2>3. table' \in Table /\ life' \in [Pollables -> {"none", "alive", "deleted"}] /\ ~died'
    BY <1>0, <1>1, <1>2, <2>1 DEF PerformRPC, Owns
  <2>4. WalkOK'
    BY <1>1, <1>2 DEF PerformRPC, WalkOK, Before
  <2>5. StreamOK'
    BY <1>1, <1>2 DEF PerformRPC, StreamOK, Before
  <2> QED
    BY <2>2, <2>3, <2>4, <2>5 DEF RPCInv
<1>3. CASE CannotResolve
  <2>1. freed' = [c \in Callbacks |-> 1]
    BY <1>1, <1>3 DEF CannotResolve, Before, Free
  <2>2. After'
    BY <1>1, <1>3, <2>1 DEF CannotResolve, Before, After, ForceLoopExit, netVars
  <2>3. WalkOK'
    BY <1>1, <1>3 DEF CannotResolve, Before, WalkOK, ForceLoopExit
  <2>4. StreamOK'
    BY <1>1, <1>3 DEF CannotResolve, StreamOK, netVars
  <2> QED
    BY <1>1, <1>3, <2>2, <2>3, <2>4 DEF CannotResolve, RPCInv, Before
<1> QED
  BY <1>2, <1>3

(* The kernel and the server: the callbacks do not know.                     *)
LEMMA ServerInv ==
  ASSUME RPCInv, Server
  PROVE  RPCInv'
<1>1. /\ UNCHANGED <<pollVars, thread, life, freed, died, unsent, inbuf, report>>
      /\ peer' = peer \/ (peer = "connecting" /\ peer' \in {"established", "refused"})
  BY DEF Server, Establish, Refuse, Reply, Hangup, Reset, Connecting, Serving
<1>2. StreamOK'
  BY <1>1 DEF RPCInv, StreamOK, Server, Establish, Refuse, Reply, Hangup, Reset, Connecting,
              Serving
<1> QED
  BY <1>1, <1>2 DEF RPCInv, Before, Connecting1, Talking, After, Holds, WalkOK, pollVars

(* A step of the loop that leaves the table alone and calls nobody.          *)
LEMMA WalkInv ==
  ASSUME RPCInv, thread = "looping", UNCHANGED callVars,
         EnterLoop \/ LeaveLoop \/ TakeSlot \/ NoWrite \/ EndWalk
  PROVE  RPCInv'
<1>1. table' = table /\ step' # "idle"
  BY DEF EnterLoop, LeaveLoop, TakeSlot, NoWrite, AfterSlot, EndWalk
<1>2. WalkOK'
  <2>1. CASE EnterLoop
    BY <2>1 DEF RPCInv, WalkOK, EnterLoop
  <2>2. CASE LeaveLoop
    BY <2>2 DEF RPCInv, WalkOK, LeaveLoop
  <2>3. CASE TakeSlot
    <3>1. Connecting1 \/ Talking
      BY <2>3 DEF RPCInv, WalkOK, TakeSlot, Before, After
    <3>2. table.slots[1].fd = Fd
      BY <3>1 DEF Connecting1, Talking, Holds, Owns
    <3> QED
      BY <2>3, <3>2 DEF RPCInv, WalkOK, TakeSlot
  <2>4. CASE NoWrite
    BY <2>4 DEF RPCInv, WalkOK, NoWrite, AfterSlot
  <2>5. CASE EndWalk
    BY <2>5 DEF RPCInv, WalkOK, EndWalk
  <2> QED
    BY <2>1, <2>2, <2>3, <2>4, <2>5
<1>3. StreamOK'
  BY DEF RPCInv, StreamOK, callVars, netVars
<1>4. step = "idle" \/ loop => loop'
  <2>1. CASE EnterLoop
    BY <2>1 DEF EnterLoop
  <2>2. CASE LeaveLoop \/ TakeSlot \/ NoWrite \/ EndWalk
    <3>1. loop' = loop /\ step # "idle"
      BY <2>2 DEF LeaveLoop, TakeSlot, NoWrite, EndWalk
    <3> QED
      BY <3>1, Zenon
  <2> QED
    BY <2>1, <2>2
<1>5. Connecting1 => Connecting1'
  BY <1>1, <1>4 DEF Connecting1, Holds, Owns, callVars, netVars
<1>6. Talking => Talking'
  BY <1>1, <1>4 DEF Talking, Holds, Owns, callVars, netVars
<1>7. After => After'
  BY DEF After, callVars, netVars, RPCInv, WalkOK,
         EnterLoop, LeaveLoop, TakeSlot, NoWrite, AfterSlot, EndWalk
<1> QED
  BY <1>1, <1>2, <1>3, <1>5, <1>6, <1>7 DEF RPCInv, Before, callVars

(* poll(2) returns.                                                          *)
LEMMA PollInv ==
  ASSUME RPCInv, thread = "looping", UNCHANGED callVars, Poll(Readable, Writable)
  PROVE  RPCInv'
<1>1. table \in Table /\ step = "test" /\ loop /\ step' = "slot" /\ loop' = loop
      /\ current' = current /\ cursor' = table.num
  BY DEF Poll, RPCInv
<1> DEFINE polled == [i \in DOMAIN table.slots |->
                      IF i <= table.num
                      THEN [table.slots[i] EXCEPT !.in  = table.slots[i].fd \in Readable,
                                                  !.out = table.slots[i].fd \in Writable]
                      ELSE table.slots[i]]
<1>2. /\ table' = [table EXCEPT !.slots = polled]
      /\ {i \in 1 .. table.num : polled[i].in \/ polled[i].out} # {}
  BY Zenon DEF Poll
<1>3. table.num = 1
  <2> HIDE DEF polled
  <2>1. table.num # 0
    BY <1>2
  <2> QED
    BY <1>1, <2>1 DEF Table
<1>4. DOMAIN table.slots = {1} /\ table.slots[1] \in Slots
  BY <1>1 DEF Table
<1>5. polled[1] = [table.slots[1] EXCEPT !.in  = table.slots[1].fd \in Readable,
                                         !.out = table.slots[1].fd \in Writable]
  <2>1. 1 \in DOMAIN table.slots /\ 1 <= table.num
    BY <1>3, <1>4
  <2> QED
    BY <2>1, Zenon
<1>6. polled[1] \in Slots /\ polled[1].fd = table.slots[1].fd
      /\ polled[1].owner = table.slots[1].owner
  <2> DEFINE x == table.slots[1]
  <2>1. polled[1] = [x EXCEPT !.in = x.fd \in Readable, !.out = x.fd \in Writable]
    BY <1>5
  <2>2. x \in Slots
    BY <1>4
  <2> HIDE DEF x, polled
  <2>3. ASSUME NEW y, y = polled[1]
        PROVE  y \in Slots /\ y.fd = x.fd /\ y.owner = x.owner
    <3>1. y = [x EXCEPT !.in = x.fd \in Readable, !.out = x.fd \in Writable]
      BY <2>1, <2>3
    <3>2. y \in Slots
      BY <2>2, <3>1, Polled, Zenon
    <3>3. y.fd = x.fd /\ y.owner = x.owner
      BY <2>2, <3>1 DEF Slots
    <3> QED
      BY <3>2, <3>3
  <2> QED
    BY <2>3 DEF x
<1>7. polled \in [1 .. 1 -> Slots]
  <2>1. DOMAIN polled = {1} /\ 1 .. 1 = {1}
    BY <1>4
  <2>2. polled = [i \in DOMAIN polled |-> polled[i]]
    BY Zenon
  <2> HIDE DEF polled
  <2> QED
    BY <1>6, <2>1, <2>2
<1> HIDE DEF polled
<1>8. table' \in Table /\ table'.num = 1 /\ table'.slots[1].fd = table.slots[1].fd
      /\ table'.slots[1].owner = table.slots[1].owner
  BY <1>1, <1>2, <1>3, <1>6, <1>7 DEF Table
<1>9. Connecting1 => Connecting1'
  BY <1>1, <1>8 DEF Connecting1, Holds, Owns, callVars, netVars
<1>10. Talking => Talking'
  BY <1>1, <1>8 DEF Talking, Holds, Owns, callVars, netVars
<1>11. WalkOK'
  BY <1>1, <1>3, <1>8 DEF RPCInv, WalkOK
<1>12. StreamOK'
  BY DEF RPCInv, StreamOK, callVars, netVars
<1> QED
  BY <1>1, <1>8, <1>9, <1>10, <1>11, <1>12 DEF RPCInv, Before, After, callVars

(* The connection is on its way, and the slot stays the ClientSocket's.      *)
LEMMA ClientInv ==
  ASSUME RPCInv, ConnectStarts \/ ClientReads
  PROVE  RPCInv'
<1>1. Client \in Pollables /\ Client # RPC
  BY RPCCallAssumption DEF Client, RPC
<1>2. Connecting1 /\ loop /\ cursor = 1 /\ current = Fd
  BY <1>1, DueHolds DEF ConnectStarts, ClientReads
<1>3. loop' = loop /\ table' = table
  BY DEF ConnectStarts, ClientReads
<1>4. Connecting1'
  BY <1>2, <1>3 DEF ConnectStarts, ClientReads, AfterRead, AfterWrite, AfterSlot, Connecting1, Holds,
              Owns, callVars, netVars
<1>5. WalkOK'
  BY <1>2, <1>3 DEF ConnectStarts, ClientReads, AfterRead, AfterWrite, AfterSlot, WalkOK, RPCInv
<1>6. StreamOK'
  BY DEF ConnectStarts, ClientReads, StreamOK, RPCInv, callVars, netVars
<1> QED
  BY <1>3, <1>4, <1>5, <1>6 DEF RPCInv, ConnectStarts, ClientReads, callVars

(* The hand-over: the callbacks PerformRPC made and the error callback go.   *)
LEMMA ConnectedInv ==
  ASSUME RPCInv, Connected
  PROVE  RPCInv'
<1>1. Client \in Pollables /\ RPC \in Pollables /\ Client # RPC
  BY RPCCallAssumption DEF Client, RPC
<1>2. Connecting1 /\ loop /\ cursor = 1 /\ current = Fd
  BY <1>1, DueHolds DEF Connected
<1>3. Owns(RPC, table')
  BY <1>2, HandOver DEF Connected, Connecting1, Holds
<1>4. freed' = [c \in Callbacks |-> IF c = "done" THEN 0 ELSE 1]
  BY <1>2 DEF Connected, Connecting1, Free, Callbacks
<1>5. life' = [life EXCEPT ![Client] = "deleted", ![RPC] = "alive"]
      /\ life \in [Pollables -> {"none", "alive", "deleted"}]
  BY DEF Connected, RPCInv
<1>6. Talking'
  BY <1>1, <1>2, <1>3, <1>4, <1>5
  DEF Connected, Talking, Connecting1, Holds, AfterWrite, AfterSlot
<1>7. WalkOK'
  BY <1>2, <1>3 DEF Connected, AfterWrite, AfterSlot, WalkOK, RPCInv, Owns
<1>8. StreamOK'
  BY DEF Connected, StreamOK, RPCInv
<1>9. ~died'
  BY <1>2 DEF Connected, MayUnregister
<1> QED
  BY <1>1, <1>3, <1>5, <1>6, <1>7, <1>8, <1>9 DEF RPCInv, Owns

(* The connection fails, and all four callbacks go.                          *)
LEMMA ConnectFailsInv ==
  ASSUME RPCInv, ConnectFails
  PROVE  RPCInv'
<1>1. Client \in Pollables /\ Client # RPC
  BY RPCCallAssumption DEF Client, RPC
<1>2. Connecting1 /\ thread = "looping" /\ cursor = 1 /\ current = Fd
  BY <1>1, DueHolds DEF ConnectFails
<1>3. table' \in Table /\ table'.num = 0
  BY <1>2, UnregisterOnly DEF ConnectFails, Connecting1, Holds
<1>4. freed' = [c \in Callbacks |-> 1]
  BY <1>2 DEF ConnectFails, Connecting1, Free
<1>5. After'
  BY <1>2, <1>3, <1>4 DEF ConnectFails, After, AfterWrite, AfterSlot, ForceLoopExit
<1>6. WalkOK'
  BY <1>2 DEF ConnectFails, AfterWrite, AfterSlot, WalkOK, RPCInv
<1>7. StreamOK'
  BY DEF ConnectFails, StreamOK, RPCInv
<1>8. ~died'
  BY <1>2 DEF ConnectFails, MayUnregister
<1>9. life' \in [Pollables -> {"none", "alive", "deleted"}]
  BY DEF ConnectFails, RPCInv
<1> QED
  BY <1>3, <1>5, <1>6, <1>7, <1>8, <1>9 DEF RPCInv

(* The command is written, or some of the reply comes.                       *)
LEMMA TalkInv ==
  ASSUME RPCInv, Send \/ ReceiveMore
  PROVE  RPCInv'
<1>1. Client \in Pollables /\ RPC \in Pollables /\ Client # RPC
  BY RPCCallAssumption DEF Client, RPC
<1>2. Talking /\ loop /\ cursor = 1 /\ current = Fd
  BY <1>1, DueHolds DEF Send, ReceiveMore
<1>3. loop' = loop /\ table' = table /\ died' = died /\ life' = life
  BY DEF Send, ReceiveMore
<1>4. Talking'
  BY <1>2, <1>3 DEF Send, ReceiveMore, AfterRead, AfterWrite, AfterSlot, Talking, Holds,
                    Owns, netVars
<1>5. WalkOK'
  BY <1>2, <1>3 DEF Send, ReceiveMore, AfterRead, AfterWrite, AfterSlot, WalkOK, RPCInv
<1>6. StreamOK'
  <2>1. CASE Send
    BY <2>1 DEF Send, StreamOK, RPCInv, netVars
  <2>2. CASE ReceiveMore
    BY <2>2 DEF ReceiveMore, StreamOK, RPCInv
  <2> QED
    BY <2>1, <2>2
<1> QED
  BY <1>3, <1>4, <1>5, <1>6 DEF RPCInv

(* The stream ends: the done callback goes last.                             *)
LEMMA ReceiveEndInv ==
  ASSUME RPCInv, ReceiveEnd
  PROVE  RPCInv'
<1>1. Client \in Pollables /\ RPC \in Pollables /\ Client # RPC
  BY RPCCallAssumption DEF Client, RPC
<1>2. Talking /\ thread = "looping" /\ cursor = 1 /\ current = Fd
  BY <1>1, DueHolds DEF ReceiveEnd
<1>3. table' \in Table /\ table'.num = 0
  BY <1>2, UnregisterOnly DEF ReceiveEnd, Talking, Holds
<1>4. freed' = [c \in Callbacks |-> 1]
  BY <1>2 DEF ReceiveEnd, Talking, Free
<1>5. After'
  BY <1>2, <1>3, <1>4 DEF ReceiveEnd, After, AfterRead, ForceLoopExit
<1>6. WalkOK'
  BY <1>2 DEF ReceiveEnd, AfterRead, WalkOK, RPCInv, ForceLoopExit
<1>7. StreamOK'
  BY DEF ReceiveEnd, StreamOK, RPCInv
<1>8. ~died'
  BY <1>2 DEF ReceiveEnd, MayUnregister
<1>9. life' \in [Pollables -> {"none", "alive", "deleted"}]
  BY DEF ReceiveEnd, RPCInv
<1> QED
  BY <1>3, <1>5, <1>6, <1>7, <1>8, <1>9 DEF RPCInv

(* The thread ends, and the poll server it deletes is empty.                 *)
LEMMA FinishInv ==
  ASSUME RPCInv, Finish
  PROVE  RPCInv'
<1>1. After
  BY DEF Finish, RPCInv, WalkOK, Before, Connecting1, Talking, Holds
<1>2. After' /\ ~died'
  BY <1>1 DEF Finish, After, pollVars, netVars
<1>3. WalkOK' /\ StreamOK'
  BY DEF Finish, RPCInv, WalkOK, StreamOK, pollVars, netVars
<1> QED
  BY <1>2, <1>3 DEF Finish, RPCInv, pollVars

(* The invariant is inductive.                                               *)
LEMMA StepInv ==
  ASSUME RPCInv, [RPCNext]_rpcVars
  PROVE  RPCInv'
<1>1. CASE PerformRPC \/ CannotResolve
  BY <1>1, BeginInv
<1>2. CASE LoopStep
  <2>1. thread = "looping" /\ UNCHANGED callVars
    BY <1>2 DEF LoopStep
  <2>2. CASE Poll(Readable, Writable)
    BY <2>1, <2>2, PollInv
  <2>3. CASE EnterLoop \/ LeaveLoop \/ TakeSlot \/ NoWrite \/ EndWalk
    BY <2>1, <2>3, WalkInv
  <2> QED
    BY <1>2, <2>2, <2>3 DEF LoopStep
<1>3. CASE ConnectStarts \/ ClientReads
  BY <1>3, ClientInv
<1>4. CASE Connected
  BY <1>4, ConnectedInv
<1>5. CASE ConnectFails
  BY <1>5, ConnectFailsInv
<1>6. CASE Send \/ ReceiveMore
  BY <1>6, TalkInv
<1>7. CASE ReceiveEnd
  BY <1>7, ReceiveEndInv
<1>8. CASE Finish
  BY <1>8, FinishInv
<1>9. CASE Server
  BY <1>9, ServerInv
<1>10. CASE UNCHANGED rpcVars
  BY <1>10 DEF rpcVars, pollVars, callVars, netVars, RPCInv, Before, Connecting1, Talking, After,
               Holds, WalkOK, StreamOK
<1> QED
  BY <1>1, <1>2, <1>3, <1>4, <1>5, <1>6, <1>7, <1>8, <1>9, <1>10 DEF RPCNext, WaiterThread

(* A call is always in one of its four phases, with a slot that belongs to   *)
(* the socket of the phase.                                                  *)
THEOREM CallInvariant == RPCSpec => []RPCInv
<1>1. RPCInit => RPCInv
  BY InitInv
<1>2. RPCInv /\ [RPCNext]_rpcVars => RPCInv'
  BY StepInv
<1> QED
  BY <1>1, <1>2, PTL DEF RPCSpec

-----------------------------------------------------------------------------
(* Whatever way the call takes, each of its four callbacks is run or deleted *)
(* once, and none is left when the thread ends: the holder has one report.   *)
THEOREM FreedOnce == RPCSpec => []CallbacksFreedOnce
<1>1. ASSUME RPCInv PROVE CallbacksFreedOnce
  BY <1>1 DEF RPCInv, CallbacksFreedOnce, Before, Connecting1, Talking, After
<1> QED
  BY <1>1, CallInvariant, PTL

(* The handlers the poll server calls are those of the socket that lives,    *)
(* although both sockets delete themselves in their handlers and the second  *)
(* takes the slot of the first; and no CHECK of the poll server fails.       *)
THEOREM CalledAlive == RPCSpec => []NothingUsedAfterDelete
<1>1. ASSUME RPCInv PROVE NothingUsedAfterDelete
  <2>1. ASSUME NEW s \in Pollables, ReadDue(s) \/ WriteDue(s) PROVE life[s] = "alive"
    BY <1>1, <2>1, DueHolds DEF Connecting1, Talking, Holds
  <2> QED
    BY <1>1, <2>1 DEF RPCInv, NothingUsedAfterDelete
<1> QED
  BY <1>1, CallInvariant, PTL

(* What the holder is told of a reply that the server ended by closing is    *)
(* the whole reply, in whatever pieces it came.                              *)
THEOREM ReplyIsWhole == RPCSpec => WholeReply
<1>1. ASSUME RPCInv, [RPCNext]_rpcVars
      PROVE  [ended = "eof" /\ report' # report => report' = Result(sent)]_rpcVars
  <2> SUFFICES ASSUME ended = "eof", report' # report
               PROVE  report' = Result(sent)
    BY DEF rpcVars
  <2>1. CASE ReceiveEnd
    <3>1. inbuf' = sent
      BY <1>1, <2>1 DEF ReceiveEnd, RPCInv, StreamOK
    <3> QED
      BY <2>1, <3>1 DEF ReceiveEnd
  <2>2. CASE CannotResolve
    BY <1>1, <2>2 DEF CannotResolve, RPCInv, StreamOK, Before, Connecting1, Talking, After
  <2>3. CASE ConnectFails
    BY <1>1, <2>3 DEF ConnectFails, RPCInv, StreamOK
  <2>4. ReceiveEnd \/ CannotResolve \/ ConnectFails
    BY <1>1 DEF RPCNext, WaiterThread, PerformRPC, LoopStep, ConnectStarts, Connected, ClientReads,
                Send, ReceiveMore, Finish, Server, rpcVars, callVars
  <2> QED
    BY <2>1, <2>2, <2>3, <2>4
<1> QED
  BY <1>1, CallInvariant, PTL DEF RPCSpec, WholeReply
=============================================================================
