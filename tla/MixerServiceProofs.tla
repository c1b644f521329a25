-------------------------- MODULE MixerServiceProofs --------------------------
(* Theorems about MixerService, for any number of clients and descriptors.   *)
(* A closed descriptor is given out again while the arrays of the poll       *)
(* server are walked and their slots move about.                             *)
EXTENDS MixerService, FiniteSetTheorems, SequenceTheorems, TLAPS

(* A slot of the arrays, and arrays in which a descriptor has one slot.      *)
Row == [fd : Fds \cup {NoFd}, owner : Pollables \cup {NoPollable}, in : BOOLEAN, out : BOOLEAN]

TableOK(t) ==
  /\ t \in [slots : Seq(Row), num : Nat]
  /\ 0 < Len(t.slots) /\ t.num <= Len(t.slots)
  /\ \A i, j \in 1 .. t.num : t.slots[i].fd = t.slots[j].fd => i = j

(* The poll server does not mix up its pollables: a slot is of a socket that *)
(* lives, under the descriptor the socket has.                               *)
SlotsOwned ==
  \A i \in 1 .. table.num :
    /\ table.slots[i].owner \in Pollables
    /\ Alive(table.slots[i].owner)
    /\ sock[table.slots[i].owner].fd = table.slots[i].fd

(* Nor does the kernel: sockets and open descriptors go together.            *)
KernelOwned ==
  /\ \A s \in Pollables \ {Phantom} : Alive(s) => sock[s].fd \in Fds /\ conn[sock[s].fd] = s
  /\ sock[Phantom].fd = NoFd
  /\ \A fd \in Fds \ Free : /\ conn[fd] \in Pollables \ {Phantom}
                             /\ Alive(conn[fd])
                             /\ sock[conn[fd]].fd = fd

(* A query is executed once: what is kept for its response is a living       *)
(* socket that has nothing to write yet.                                     *)
ClientOK(c) ==
  /\ c \in pending => Alive(c) /\ sock[c].inbuf = "executed" /\ sock[c].outbuf = 0
  /\ IF sock[c].inbuf = "executed" THEN said[c] = "line" /\ wire[c] = "nothing"
                                   ELSE sock[c].outbuf = 0
  /\ sock[c].inbuf = "line" => client[c] = "closed"
  /\ wire[c] = "line" => said[c] = "line"

(* A connection is accepted once.                                            *)
BacklogOK ==
  /\ backlog \in Seq(Clients)
  /\ \A i, j \in 1 .. Len(backlog) : backlog[i] = backlog[j] => i = j
  /\ \A i \in 1 .. Len(backlog) :
       sock[backlog[i]].life = "none" /\ client[backlog[i]] # "idle"
  /\ \A c \in Clients : client[c] = "idle" => sock[c].life = "none"

(* The walk: what is called in a slot is the owner of current_fd_.           *)
WalkOK ==
  /\ cursor \in Nat
  /\ step = "slot" => cursor <= table.num
  /\ step = "in" => cursor \in 1 .. table.num /\ table.slots[cursor].fd = current
  /\ step = "out" => /\ cursor \in 1 .. table.num + 1
                     /\ cursor <= table.num /\ table.slots[cursor].out
                          => table.slots[cursor].fd = current

(* The listener lives as long as the service runs.                           *)
StartOK ==
  /\ provider \in {"created", "servicing", "returned"}
  /\ provider = "created" => step = "idle" /\ ~Alive(Listener)
  /\ provider = "servicing" => Alive(Listener)

Words == {"nothing", "part", "line"}
SockRow == [life : Life, fd : Fds \cup {NoFd}, inbuf : Words \cup {"executed"}, outbuf : Nat]

TypesOK ==
  /\ sock \in [Pollables -> SockRow]
  /\ conn \in [Fds -> Pollables \cup {NoOne}]
  /\ client \in [Clients -> {"idle", "connected", "closed"}]
  /\ said \in [Clients -> Words] /\ wire \in [Clients -> Words]
  /\ pending \subseteq Clients

MSInv ==
  /\ TableOK(table) /\ TypesOK
  /\ SlotsOwned /\ KernelOwned
  /\ \A c \in Clients : ClientOK(c)
  /\ BacklogOK /\ WalkOK /\ StartOK
  /\ touched = {}

-----------------------------------------------------------------------------
(* The search finds the only slot of a descriptor.                           *)
LEMMA FoundAt ==
  ASSUME NEW t, TableOK(t), NEW i \in 1 .. t.num
  PROVE  LastIndexOf(t, t.slots[i].fd) = i
<1>1. {j \in 1 .. t.num : t.slots[j].fd = t.slots[i].fd} = {i}
  BY DEF TableOK
<1>2. i \in Int
  BY DEF TableOK
<1>3. (CHOOSE j \in {i} : \A k \in {i} : k <= j) = i
  BY <1>2
<1> QED
  BY <1>1, <1>3 DEF LastIndexOf

(* It finds nothing when there is none.                                      *)
LEMMA NotFound ==
  ASSUME NEW t, NEW d, \A i \in 1 .. t.num : t.slots[i].fd # d
  PROVE  LastIndexOf(t, d) = 0
<1>1. {i \in 1 .. t.num : t.slots[i].fd = d} = {}
  OBVIOUS
<1> QED
  BY <1>1 DEF LastIndexOf

(* A function on 1 .. n is a sequence of length n.                           *)
LEMMA IsSequence ==
  ASSUME NEW S, NEW n \in Nat, NEW f \in [1 .. n -> S]
  PROVE  f \in Seq(S) /\ Len(f) = n
<1>1. f \in Seq(S)
  BY SeqDef, Zenon
<1>2. DOMAIN f = 1 .. Len(f) /\ Len(f) \in Nat /\ DOMAIN f = 1 .. n
  BY <1>1
<1> QED
  BY <1>1, <1>2

(* Doubling the capacity keeps every slot.                                   *)
LEMMA Doubled ==
  ASSUME NEW q \in Seq(Row), NEW r, r = DoubleCapacity(q)
  PROVE  /\ r \in Seq(Row) /\ Len(r) = 2 * Len(q)
         /\ \A i \in 1 .. Len(q) : r[i] = q[i]
<1>1. Unused \in Row
  BY DEF Unused, Row
<1> DEFINE more == [i \in 1 .. Len(q) |-> Unused]
<1>2. more \in Seq(Row) /\ Len(more) = Len(q)
  BY <1>1, SeqDef
<1> HIDE DEF more
<1>3. r = q \o more
  BY DEF DoubleCapacity, more
<1>4. r \in Seq(Row) /\ Len(r) = Len(q) + Len(more)
  BY <1>2, <1>3, ConcatProperties
<1>5. \A i \in 1 .. Len(q) : r[i] = q[i]
  BY <1>2, <1>3, ConcatProperties
<1> QED
  BY <1>2, <1>4, <1>5

(* What a registration does to the arrays, new or not: the descriptor has a  *)
(* slot with its new owner, and the slots of the others stay what they are.  *)
Registering(t, u, p, d, k) ==
  /\ k \in 1 .. u.num /\ u.slots[k].fd = d /\ u.slots[k].owner = p
  /\ u.num \in {t.num, t.num + 1}
  /\ \A i \in 1 .. u.num :
       i # k => i <= t.num /\ u.slots[i] = t.slots[i] /\ t.slots[i].fd # d
  /\ \A i \in 1 .. t.num : u.slots[i].fd = t.slots[i].fd

(* A registration puts one slot into the arrays, and only it is changed.     *)
Written(q, k, p, d) == [q EXCEPT ![k].fd = d, ![k].owner = p]

(* What the table is like when one slot was given something else.            *)
LEMMA SlotWritten ==
  ASSUME NEW q \in Seq(Row), NEW k \in 1 .. Len(q),
         NEW p \in Pollables, NEW d \in Fds \cup {NoFd},
         NEW r, r = Written(q, k, p, d)
  PROVE  /\ r \in Seq(Row) /\ Len(r) = Len(q)
         /\ r[k].fd = d /\ r[k].owner = p
         /\ \A i \in 1 .. Len(q) : i # k => r[i] = q[i]
<1> DEFINE n == Len(q)
<1>1. n \in Nat /\ q \in [1 .. n -> Row]
  OBVIOUS
<1> HIDE DEF n
<1>2. r \in [1 .. n -> Row]
  BY <1>1 DEF Row, n, Written
<1>3. r[k].fd = d /\ r[k].owner = p
  BY <1>1 DEF Row, n, Written
<1>4. \A i \in 1 .. n : i # k => r[i] = q[i]
  BY <1>1 DEF n, Written
<1>5. r \in Seq(Row) /\ Len(r) = n
  BY <1>1, <1>2, IsSequence, Zenon
<1> QED
  BY <1>3, <1>4, <1>5 DEF n

(* Register, whether the descriptor was known or not.                        *)
LEMMA Registers ==
  ASSUME NEW t, TableOK(t), NEW p \in Pollables, NEW d \in Fds \cup {NoFd},
         NEW u, u = Register(t, p, d)
  PROVE  TableOK(u) /\ \E k \in 1 .. u.num : Registering(t, u, p, d, k)
<1>0. t.slots \in Seq(Row) /\ t.num \in Nat /\ 0 < Len(t.slots) /\ t.num <= Len(t.slots)
  BY DEF TableOK
<1>1. CASE \E i \in 1 .. t.num : t.slots[i].fd = d
  <2>1. PICK k \in 1 .. t.num : t.slots[k].fd = d
    BY <1>1
  <2>2. LastIndexOf(t, d) = k /\ k # 0
    BY <1>0, <2>1, FoundAt
  <2>3. u = [slots |-> Written(t.slots, k, p, d), num |-> t.num]
    BY <2>2 DEF Register, Written
  <2> DEFINE r == Written(t.slots, k, p, d)
  <2>4. u.slots = r /\ u.num = t.num /\ u = [slots |-> r, num |-> t.num]
        /\ r = Written(t.slots, k, p, d)
    BY <2>3
  <2> HIDE DEF r
  <2>5. /\ r \in Seq(Row) /\ Len(r) = Len(t.slots)
        /\ r[k].fd = d /\ r[k].owner = p
        /\ \A i \in 1 .. Len(t.slots) : i # k => r[i] = t.slots[i]
    <3>1. k \in 1 .. Len(t.slots)
      BY <1>0
    <3> QED
      BY <1>0, <2>4, <3>1, SlotWritten
  <2>6. \A i \in 1 .. t.num : r[i].fd = t.slots[i].fd
    BY <1>0, <2>1, <2>5
  <2>7. Registering(t, u, p, d, k)
    BY <1>0, <2>1, <2>4, <2>5, <2>6 DEF Registering, TableOK
  <2>8. TableOK(u)
    BY <1>0, <2>4, <2>5, <2>6 DEF TableOK
  <2> QED
    BY <2>4, <2>7, <2>8
<1>2. CASE \A i \in 1 .. t.num : t.slots[i].fd # d
  <2>1. LastIndexOf(t, d) = 0
    BY <1>2, NotFound
  <2> DEFINE k == t.num + 1
             room == IF t.num = Len(t.slots) THEN DoubleCapacity(t.slots) ELSE t.slots
             r == Written(room, k, p, d)
  <2>2. u = [slots |-> r, num |-> k]
        /\ r = Written(room, k, p, d)
    BY <2>1 DEF Register, Written
  <2>9. k = t.num + 1 /\ k \in Nat
    BY <1>0
  <2> HIDE DEF r, k
  <2>3. room \in Seq(Row) /\ k \in 1 .. Len(room) /\ \A i \in 1 .. t.num : room[i] = t.slots[i]
    <3>1. CASE t.num = Len(t.slots)
      <4>1. room = DoubleCapacity(t.slots)
        BY <3>1
      <4> HIDE DEF room
      <4> QED
        BY <1>0, <2>9, <3>1, <4>1, Doubled
    <3>2. CASE t.num # Len(t.slots)
      BY <1>0, <2>9, <3>2
    <3> QED
      BY <3>1, <3>2
  <2> HIDE DEF room
  <2>4. /\ r \in Seq(Row) /\ Len(r) = Len(room)
        /\ r[k].fd = d /\ r[k].owner = p
        /\ \A i \in 1 .. Len(room) : i # k => r[i] = room[i]
    BY <2>2, <2>3, SlotWritten
  <2>5. u.slots = r /\ u.num = k
    BY <2>2
  <2>6. \A i \in 1 .. t.num : r[i] = t.slots[i]
    BY <1>0, <2>3, <2>4, <2>9
  <2>7. Registering(t, u, p, d, k)
    <3>1. k \in 1 .. u.num /\ \A i \in 1 .. u.num : i # k => i \in 1 .. t.num
      BY <1>0, <2>5, <2>9
    <3> QED
      BY <1>0, <1>2, <2>4, <2>5, <2>6, <2>9, <3>1 DEF Registering
  <2>8. TableOK(u)
    <3>1. u \in [slots : Seq(Row), num : Nat]
      BY <2>2, <2>4, <2>9
    <3>2. 0 < Len(u.slots) /\ u.num <= Len(u.slots)
      BY <1>0, <2>3, <2>4, <2>5, <2>9
    <3>3. ASSUME NEW i \in 1 .. u.num, NEW j \in 1 .. u.num, u.slots[i].fd = u.slots[j].fd
          PROVE  i = j
      <4>1. \A m \in 1 .. u.num : m # k => m \in 1 .. t.num /\ r[m] = t.slots[m]
        BY <1>0, <2>5, <2>6, <2>9
      <4>2. i = k <=> j = k
        BY <1>2, <2>4, <2>5, <3>3, <4>1
      <4>3. i # k /\ j # k => i = j
        BY <2>5, <3>3, <4>1 DEF TableOK
      <4> QED
        BY <4>2, <4>3
    <3> QED
      BY <3>1, <3>2, <3>3 DEF TableOK
  <2> QED
    BY <1>0, <2>5, <2>7, <2>8, <2>9 DEF Registering
<1> QED
  BY <1>1, <1>2


(* Unregister moves the last slot into the vacated one and forgets what      *)
(* poll(2) said of it.                                                       *)
Silent(slot) == ~slot.out

Moved(r, q, i, n) == r = [q EXCEPT ![i] = [q[n] EXCEPT !.in = FALSE, !.out = FALSE]]

(* What it is like when its last slot moved into a vacated one.              *)
LEMMA SlotMoved ==
  ASSUME NEW q \in Seq(Row), NEW i \in 1 .. Len(q), NEW n \in 1 .. Len(q),
         NEW r, Moved(r, q, i, n)
  PROVE  /\ r \in Seq(Row) /\ Len(r) = Len(q)
         /\ r[i].fd = q[n].fd /\ r[i].owner = q[n].owner /\ Silent(r[i])
         /\ \A j \in 1 .. Len(q) : j # i => r[j] = q[j]
<1> DEFINE m == Len(q)
<1>1. m \in Nat /\ q \in [1 .. m -> Row] /\ i \in 1 .. m /\ n \in 1 .. m
  OBVIOUS
<1> HIDE DEF m
<1>2. r \in [1 .. m -> Row]
  BY <1>1 DEF Row, Moved
<1>3. r[i].fd = q[n].fd /\ r[i].owner = q[n].owner /\ ~r[i].out
  BY <1>1 DEF Row, Moved
<1>4. \A j \in 1 .. m : j # i => r[j] = q[j]
  BY <1>1 DEF Moved
<1>5. r \in Seq(Row) /\ Len(r) = m
  BY <1>1, <1>2, IsSequence, Zenon
<1> QED
  BY <1>3, <1>4, <1>5 DEF m, Silent

(* What an unregistration does to the arrays.                                *)
Unregistering(t, u, i) ==
  /\ u.num = t.num - 1
  /\ i \in 1 .. u.num => u.slots[i].fd = t.slots[t.num].fd /\ Silent(u.slots[i])
  /\ \A j \in 1 .. u.num : j # i => u.slots[j] = t.slots[j]
  /\ \A j \in 1 .. u.num : \E m \in 1 .. t.num :
       m # i /\ u.slots[j].fd = t.slots[m].fd /\ u.slots[j].owner = t.slots[m].owner

(* Unregister, called by the owner of slot i.                                *)
LEMMA Unregisters ==
  ASSUME NEW t, TableOK(t), NEW i \in 1 .. t.num,
         NEW u, u = Unregister(t, t.slots[i].owner, t.slots[i].fd)
  PROVE  TableOK(u) /\ Unregistering(t, u, i)
<1>0. t.slots \in Seq(Row) /\ t.num \in Nat /\ t.num <= Len(t.slots)
      /\ i \in 1 .. Len(t.slots) /\ t.num \in 1 .. Len(t.slots)
  BY DEF TableOK
<1>1. LastIndexOf(t, t.slots[i].fd) = i /\ i # 0
  BY <1>0, FoundAt
<1> DEFINE r == [t.slots EXCEPT ![i] = [t.slots[t.num] EXCEPT !.in = FALSE, !.out = FALSE]]
<1>2. u = [slots |-> r, num |-> t.num - 1]
  BY <1>1 DEF Unregister, IsRegistered
<1>3. Moved(r, t.slots, i, t.num)
  BY DEF Moved
<1> HIDE DEF r
<1>4. /\ r \in Seq(Row) /\ Len(r) = Len(t.slots)
      /\ r[i].fd = t.slots[t.num].fd /\ r[i].owner = t.slots[t.num].owner /\ Silent(r[i])
      /\ \A j \in 1 .. Len(t.slots) : j # i => r[j] = t.slots[j]
  <2> DEFINE q == t.slots
             n == t.num
  <2>1. q \in Seq(Row) /\ i \in 1 .. Len(q) /\ n \in 1 .. Len(q) /\ Moved(r, q, i, n)
    BY <1>0, <1>3
  <2> HIDE DEF q, n
  <2>2. /\ r \in Seq(Row) /\ Len(r) = Len(q)
        /\ r[i].fd = q[n].fd /\ r[i].owner = q[n].owner /\ Silent(r[i])
        /\ \A j \in 1 .. Len(q) : j # i => r[j] = q[j]
    BY <2>1, SlotMoved
  <2> QED
    BY <2>2 DEF q, n
<1>5. u.slots = r /\ u.num = t.num - 1 /\ 1 .. u.num = 1 .. (t.num - 1)
  BY <1>2
<1>6. \A j \in 1 .. u.num : j # i => r[j] = t.slots[j]
  BY <1>0, <1>4, <1>5
<1>7. ASSUME NEW j \in 1 .. u.num
      PROVE  LET m == IF j = i THEN t.num ELSE j
             IN m \in 1 .. t.num /\ m # i /\ r[j].fd = t.slots[m].fd
                /\ r[j].owner = t.slots[m].owner
  <2>1. CASE j = i
    BY <1>0, <1>4, <1>5, <2>1
  <2>2. CASE j # i
    BY <1>0, <1>5, <1>6, <2>2
  <2> QED
    BY <2>1, <2>2
<1>8. Unregistering(t, u, i)
  BY <1>4, <1>5, <1>6, <1>7 DEF Unregistering
<1>9. TableOK(u)
  <2>1. u \in [slots : Seq(Row), num : Nat] /\ 0 < Len(u.slots) /\ u.num <= Len(u.slots)
    BY <1>0, <1>2, <1>4, <1>5
  <2>2. ASSUME NEW j \in 1 .. u.num, NEW k \in 1 .. u.num, u.slots[j].fd = u.slots[k].fd
        PROVE  j = k
    <3>1. \A m, n \in 1 .. t.num : t.slots[m].fd = t.slots[n].fd => m = n
      BY DEF TableOK
    <3>2. (IF j = i THEN t.num ELSE j) = (IF k = i THEN t.num ELSE k)
      BY <1>5, <1>7, <2>2, <3>1
    <3> QED
      BY <1>0, <1>5, <3>2
  <2> QED
    BY <2>1, <2>2 DEF TableOK
<1> QED
  BY <1>8, <1>9

(* Unregister, whether the caller is registered or not: no slot of its is    *)
(* left, and every slot that is left was another's.                          *)
LEMMA UnregistersOwner ==
  ASSUME NEW t, TableOK(t), NEW p, NEW d,
         \A i \in 1 .. t.num : t.slots[i].owner = p => t.slots[i].fd = d,
         NEW u, u = Unregister(t, p, d)
  PROVE  /\ TableOK(u)
         /\ \A j \in 1 .. u.num : \E m \in 1 .. t.num :
              /\ t.slots[m].owner # p
              /\ u.slots[j].fd = t.slots[m].fd /\ u.slots[j].owner = t.slots[m].owner
<1>1. CASE \E i \in 1 .. t.num : t.slots[i].owner = p
  <2>1. PICK i \in 1 .. t.num : t.slots[i].owner = p /\ t.slots[i].fd = d
    BY <1>1
  <2>2. TableOK(u) /\ Unregistering(t, u, i)
    BY <2>1, Unregisters
  <2>3. \A m \in 1 .. t.num : m # i => t.slots[m].owner # p
    BY <2>1 DEF TableOK
  <2> QED
    BY <2>2, <2>3 DEF Unregistering
<1>2. CASE \A i \in 1 .. t.num : t.slots[i].owner # p
  <2>1. ~IsRegistered(t, p, d)
    <3>1. CASE \E i \in 1 .. t.num : t.slots[i].fd = d
      BY <1>2, <3>1, FoundAt DEF IsRegistered
    <3>2. CASE \A i \in 1 .. t.num : t.slots[i].fd # d
      BY <3>2, NotFound DEF IsRegistered
    <3> QED
      BY <3>1, <3>2
  <2>2. u = t
    BY <2>1 DEF Unregister
  <2> QED
    BY <1>2, <2>2
<1> QED
  BY <1>1, <1>2

-----------------------------------------------------------------------------
(* Nothing is registered, nobody is connected.                               *)
LEMMA InitInv == MSInit => MSInv
<1> SUFFICES ASSUME MSInit PROVE MSInv
  OBVIOUS
<1>1. TableOK(table) /\ table.num = 0
  <2>1. Unused \in Row
    BY DEF Unused, Row
  <2> DEFINE q == [i \in 1 .. InitialFds |-> Unused]
  <2>2. q \in [1 .. InitialFds -> Row] /\ InitialFds \in Nat \ {0}
    BY <2>1, MixerServiceAssumption
  <2> HIDE DEF q
  <2>3. q \in Seq(Row) /\ Len(q) = InitialFds
    BY <2>2, IsSequence
  <2>4. table = [slots |-> q, num |-> 0]
    BY DEF MSInit, PollInit, q
  <2> QED
    BY <2>2, <2>3, <2>4 DEF TableOK
<1>2. \A s \in Pollables : sock[s].life = "none" /\ sock[s].fd = NoFd
                           /\ sock[s].inbuf = "nothing" /\ sock[s].outbuf = 0
  BY DEF MSInit, NewSocket
<1>3. TypesOK
  <2>1. [NewSocket(NoFd) EXCEPT !.life = "none"]
        = [life |-> "none", fd |-> NoFd, inbuf |-> "nothing", outbuf |-> 0]
    BY DEF NewSocket
  <2>2. [life |-> "none", fd |-> NoFd, inbuf |-> "nothing", outbuf |-> 0] \in SockRow
    BY DEF SockRow, Life, Words
  <2>3. sock \in [Pollables -> SockRow]
    BY <2>1, <2>2 DEF MSInit
  <2> QED
    BY <2>3 DEF MSInit, TypesOK, Words
<1>4. Listener \in Pollables /\ Phantom \in Pollables /\ Clients \subseteq Pollables
  BY MixerServiceAssumption
<1>5. SlotsOwned /\ KernelOwned
  <2>1. SlotsOwned
    BY <1>1 DEF SlotsOwned
  <2>2. Fds \ Free = {}
    BY DEF MSInit, Free
  <2>3. KernelOwned
    BY <1>2, <1>4, <2>2 DEF KernelOwned, Alive
  <2> QED
    BY <2>1, <2>3
<1>6. \A c \in Clients : ClientOK(c)
  BY <1>2, <1>4 DEF ClientOK, MSInit
<1>7. BacklogOK
  BY <1>2, <1>4 DEF BacklogOK, MSInit
<1>8. WalkOK /\ StartOK
  BY <1>2, <1>4 DEF WalkOK, StartOK, MSInit, PollInit, Alive
<1> QED
  BY <1>1, <1>3, <1>5, <1>6, <1>7, <1>8 DEF MSInv, MSInit

(* Who is called in a slot is its owner, who lives, and the descriptor is    *)
(* the one the event was found on.                                           *)
LEMMA DueOwner ==
  ASSUME MSInv, NEW p \in Pollables, ReadDue(p) \/ WriteDue(p)
  PROVE  /\ cursor \in 1 .. table.num
         /\ table.slots[cursor].owner = p /\ table.slots[cursor].fd = current
         /\ Alive(p) /\ sock[p].fd = current
<1>1. cursor \in 1 .. table.num /\ table.slots[cursor].owner = p
  BY DEF ReadDue, WriteDue, MSInv, WalkOK
<1>2. table.slots[cursor].fd = current
  BY DEF ReadDue, WriteDue, MSInv, WalkOK
<1> QED
  BY <1>1, <1>2 DEF MSInv, SlotsOwned

(* A MixerSocket that is called is the one of its client.                    *)
LEMMA DueClient ==
  ASSUME MSInv, NEW c \in Clients, ReadDue(c) \/ WriteDue(c)
  PROVE  /\ cursor \in 1 .. table.num
         /\ table.slots[cursor].owner = c /\ table.slots[cursor].fd = current
         /\ Alive(c) /\ sock[c].fd = current
         /\ Peer(c) = c /\ sock[c].fd \in Fds /\ c \in Pollables \ {Phantom}
<1>1. c \in Pollables \ {Phantom}
  BY MixerServiceAssumption
<1>2. /\ cursor \in 1 .. table.num
      /\ table.slots[cursor].owner = c /\ table.slots[cursor].fd = current
      /\ Alive(c) /\ sock[c].fd = current
  BY <1>1, DueOwner
<1> QED
  BY <1>1, <1>2 DEF MSInv, KernelOwned, Peer

(* Ownership is a matter of the sockets' descriptors and lives only.         *)
LEMMA OwnedKept ==
  ASSUME MSInv, conn' = conn,
         \A s \in Pollables : sock'[s].life = sock[s].life /\ sock'[s].fd = sock[s].fd
  PROVE  KernelOwned' /\ (table' = table => SlotsOwned')
<1>1. Phantom \in Pollables
  BY MixerServiceAssumption
<1> QED
  BY <1>1 DEF MSInv, KernelOwned, SlotsOwned, Alive, Free

(* A free descriptor has no slot.                                            *)
LEMMA FreeUnregistered ==
  ASSUME MSInv, NEW fd \in Free
  PROVE  \A i \in 1 .. table.num : table.slots[i].fd # fd
<1> SUFFICES ASSUME NEW i \in 1 .. table.num, table.slots[i].fd = fd PROVE FALSE
  OBVIOUS
<1> DEFINE s == table.slots[i].owner
<1>1. s \in Pollables /\ Alive(s) /\ sock[s].fd = fd
  BY DEF MSInv, SlotsOwned
<1>2. fd \in Fds /\ conn[fd] = NoOne /\ fd # NoFd
  BY MixerServiceAssumption DEF Free, NoFd
<1> HIDE DEF s
<1>3. s # Phantom
  BY <1>1, <1>2 DEF MSInv, KernelOwned
<1>4. conn[fd] = s
  BY <1>1, <1>3 DEF MSInv, KernelOwned
<1> QED
  BY <1>1, <1>2, <1>4, MixerServiceAssumption

(* A new socket on a descriptor the kernel has given out.                    *)
LEMMA NewOwner ==
  ASSUME MSInv, NEW p \in Pollables \ {Phantom}, ~Alive(p), NEW fd \in Free,
         conn' = [conn EXCEPT ![fd] = p],
         sock' = [sock EXCEPT ![p] = NewSocket(fd)],
         table' = Register(table, p, fd)
  PROVE  /\ TableOK(table') /\ SlotsOwned' /\ KernelOwned'
         /\ table.num <= table'.num
         /\ \A i \in 1 .. table.num : table'.slots[i] = table.slots[i]
<1>1. fd \in Fds /\ conn[fd] = NoOne /\ fd # NoFd
  BY MixerServiceAssumption DEF Free, NoFd
<1>2. \A i \in 1 .. table.num : table.slots[i].fd # fd
  BY FreeUnregistered
<1>3. TableOK(table) /\ TypesOK /\ SlotsOwned /\ KernelOwned /\ Phantom \in Pollables
  BY MixerServiceAssumption DEF MSInv
<1>4. TableOK(table') /\ \E k \in 1 .. table'.num : Registering(table, table', p, fd, k)
  BY <1>1, <1>3, Registers
<1>5. PICK k \in 1 .. table'.num : Registering(table, table', p, fd, k)
  BY <1>4
<1>6. table.num \in Nat /\ table'.num \in Nat /\ k \notin 1 .. table.num
      /\ table.num <= table'.num
  <2>1. table.num \in Nat /\ table'.num \in Nat
    BY <1>3, <1>4 DEF TableOK
  <2>2. table'.num \in {table.num, table.num + 1}
    BY <1>5 DEF Registering
  <2>3. table'.slots[k].fd = fd /\ \A i \in 1 .. table.num : table'.slots[i].fd = table.slots[i].fd
    BY <1>5 DEF Registering
  <2> QED
    BY <1>2, <2>1, <2>2, <2>3
<1>7. \A i \in 1 .. table.num : table'.slots[i] = table.slots[i]
  BY <1>5, <1>6 DEF Registering
<1>8. /\ sock'[p].life = "alive" /\ sock'[p].fd = fd
      /\ \A s \in Pollables \ {p} : sock'[s] = sock[s]
  BY <1>3 DEF TypesOK, NewSocket
<1>9. KernelOwned'
  <2>1. \A s \in Pollables \ {Phantom, p} : Alive(s) => sock[s].fd # fd
    BY <1>1, <1>3, MixerServiceAssumption DEF KernelOwned
  <2>2. \A g \in Fds \ {fd} : conn'[g] = conn[g]
    BY <1>3 DEF TypesOK
  <2>3. conn'[fd] = p
    BY <1>1, <1>3 DEF TypesOK
  <2>4. ASSUME NEW s \in Pollables \ {Phantom}, sock'[s].life = "alive"
        PROVE  sock'[s].fd \in Fds /\ conn'[sock'[s].fd] = s
    BY <1>1, <1>3, <1>8, <2>1, <2>2, <2>3, <2>4 DEF KernelOwned, Alive
  <2>5. ASSUME NEW g \in Fds, conn'[g] # NoOne
        PROVE  conn'[g] \in Pollables \ {Phantom} /\ sock'[conn'[g]].life = "alive"
               /\ sock'[conn'[g]].fd = g
    <3>1. CASE g = fd
      BY <1>8, <2>3, <3>1
    <3>2. CASE g # fd
      BY <1>3, <1>8, <2>2, <2>5, <3>2 DEF KernelOwned, Alive, Free
    <3> QED
      BY <3>1, <3>2
  <2> QED
    BY <1>3, <1>8, <2>4, <2>5 DEF KernelOwned, Alive, Free
<1>10. SlotsOwned'
  <2> SUFFICES ASSUME NEW i \in 1 .. table'.num
               PROVE  /\ table'.slots[i].owner \in Pollables
                      /\ sock'[table'.slots[i].owner].life = "alive"
                      /\ sock'[table'.slots[i].owner].fd = table'.slots[i].fd
    BY DEF SlotsOwned, Alive
  <2>1. CASE i = k
    BY <1>5, <1>8, <2>1 DEF Registering
  <2>2. CASE i # k
    <3>1. i \in 1 .. table.num /\ table'.slots[i] = table.slots[i]
      BY <1>5, <1>6, <2>2 DEF Registering
    <3>2. table.slots[i].owner \in Pollables \ {p}
      BY <1>3, <3>1 DEF SlotsOwned
    <3> QED
      BY <1>3, <1>8, <3>1, <3>2 DEF SlotsOwned, Alive
  <2> QED
    BY <2>1, <2>2
<1> QED
  BY <1>4, <1>6, <1>7, <1>9, <1>10

(* An owner leaves, and its descriptor is closed.                            *)
LEMMA OwnerLeaves ==
  ASSUME MSInv, NEW p \in Pollables \ {Phantom}, Alive(p),
         conn' = [conn EXCEPT ![sock[p].fd] = NoOne],
         sock'[p].life = "deleted",
         \A s \in Pollables \ {p} : sock'[s] = sock[s],
         table' = Unregister(table, p, sock[p].fd)
  PROVE  TableOK(table') /\ SlotsOwned' /\ KernelOwned'
<1>1. TableOK(table) /\ TypesOK /\ SlotsOwned /\ KernelOwned
  BY DEF MSInv
<1>2. Phantom \in Pollables /\ NoOne \notin Pollables
  BY MixerServiceAssumption
<1>3. \A i \in 1 .. table.num : table.slots[i].owner = p => table.slots[i].fd = sock[p].fd
  BY <1>1 DEF SlotsOwned
<1>4. /\ TableOK(table')
      /\ \A j \in 1 .. table'.num : \E m \in 1 .. table.num :
           /\ table.slots[m].owner # p
           /\ table'.slots[j].fd = table.slots[m].fd
           /\ table'.slots[j].owner = table.slots[m].owner
  BY <1>1, <1>3, UnregistersOwner
<1>5. SlotsOwned'
  BY <1>1, <1>4 DEF SlotsOwned, Alive
<1>6. sock[p].fd \in Fds /\ conn[sock[p].fd] = p
  BY <1>1 DEF KernelOwned
<1>7. conn'[sock[p].fd] = NoOne /\ \A g \in Fds : g # sock[p].fd => conn'[g] = conn[g]
  BY <1>1, <1>6 DEF TypesOK
<1>8. KernelOwned'
  <2>1. ASSUME NEW s \in Pollables \ {Phantom}, sock'[s].life = "alive"
        PROVE  sock'[s].fd \in Fds /\ conn'[sock'[s].fd] = s
    <3>1. s # p /\ sock'[s] = sock[s]
      BY <2>1
    <3>2. sock[s].fd \in Fds /\ conn[sock[s].fd] = s
      BY <1>1, <2>1, <3>1 DEF KernelOwned, Alive
    <3> QED
      BY <1>6, <1>7, <3>1, <3>2
  <2>2. sock'[Phantom].fd = NoFd
    BY <1>1, <1>2 DEF KernelOwned
  <2>3. ASSUME NEW g \in Fds, conn'[g] # NoOne
        PROVE  conn'[g] \in Pollables \ {Phantom} /\ sock'[conn'[g]].life = "alive"
               /\ sock'[conn'[g]].fd = g
    <3>1. g # sock[p].fd /\ conn'[g] = conn[g]
      BY <1>7, <2>3
    <3>2. conn[g] \in Pollables \ {Phantom} /\ Alive(conn[g]) /\ sock[conn[g]].fd = g
      BY <1>1, <2>3, <3>1 DEF KernelOwned, Free
    <3>3. conn[g] # p
      BY <3>1, <3>2
    <3> QED
      BY <3>1, <3>2, <3>3 DEF Alive
  <2> QED
    BY <2>1, <2>2, <2>3 DEF KernelOwned, Alive, Free
<1> QED
  BY <1>4, <1>5, <1>8

-----------------------------------------------------------------------------
(* One lemma per action, or group of actions.  Start: the listener.          *)
LEMMA StartInv ==
  ASSUME MSInv, StartListener
  PROVE  MSInv'
<1>1. PICK fd \in Fds :
        /\ Lowest(fd)
        /\ conn' = [conn EXCEPT ![fd] = Listener]
        /\ sock' = [sock EXCEPT ![Listener] = NewSocket(fd)]
        /\ table' = Register(table, Listener, fd)
  BY DEF StartListener
<1>2. fd \in Free /\ ~Alive(Listener) /\ step = "idle"
  BY <1>1 DEF Lowest, StartListener, MSInv, StartOK
<1>3. Listener \in Pollables \ {Phantom} /\ Clients \subseteq Pollables \ {Listener}
  BY MixerServiceAssumption
<1>4. TableOK(table') /\ SlotsOwned' /\ KernelOwned'
  BY <1>1, <1>2, <1>3, NewOwner
<1>5. TypesOK /\ \A c \in Clients : sock'[c] = sock[c]
  BY <1>1, <1>3 DEF MSInv, TypesOK
<1>6. sock'[Listener].life = "alive"
  BY <1>1, <1>3, <1>5 DEF TypesOK, NewSocket
<1>7. TypesOK'
  <2>1. NewSocket(fd) \in SockRow
    BY DEF NewSocket, SockRow, Life, Words
  <2> QED
    BY <1>1, <1>3, <1>5, <2>1 DEF StartListener, TypesOK
<1>8. \A c \in Clients : ClientOK(c)'
  BY <1>5 DEF StartListener, MSInv, ClientOK, Alive
<1>9. BacklogOK'
  BY <1>5 DEF StartListener, MSInv, BacklogOK
<1>10. WalkOK' /\ StartOK'
  BY <1>2, <1>6 DEF StartListener, MSInv, WalkOK, StartOK, Alive
<1> QED
  BY <1>4, <1>7, <1>8, <1>9, <1>10 DEF MSInv, StartListener

(* The loop, but for poll(2) and the calls.                                  *)
LEMMA WalkInv ==
  ASSUME MSInv, UNCHANGED serviceVars, provider = "servicing",
         EnterLoop \/ LeaveLoop \/ TakeSlot \/ NoWrite \/ EndWalk
  PROVE  MSInv'
<1>1. table' = table
  BY DEF EnterLoop, LeaveLoop, TakeSlot, NoWrite, EndWalk
<1>2. KernelOwned' /\ SlotsOwned'
  BY <1>1, OwnedKept DEF serviceVars
<1>3. table.num \in Nat
  BY DEF MSInv, TableOK
<1>4. WalkOK'
  <2>1. CASE EnterLoop
    BY <2>1 DEF EnterLoop, MSInv, WalkOK
  <2>2. CASE LeaveLoop
    BY <2>2 DEF LeaveLoop, MSInv, WalkOK
  <2>3. CASE TakeSlot
    BY <1>3, <2>3 DEF TakeSlot, MSInv, WalkOK
  <2>4. CASE NoWrite
    BY <1>3, <2>4 DEF NoWrite, AfterSlot, MSInv, WalkOK
  <2>5. CASE EndWalk
    BY <2>5 DEF EndWalk, MSInv, WalkOK
  <2> QED
    BY <2>1, <2>2, <2>3, <2>4, <2>5
<1>5. StartOK'
  BY DEF MSInv, StartOK, Alive, serviceVars
<1>6. \A c \in Clients : ClientOK(c)'
  BY DEF MSInv, ClientOK, Alive, serviceVars
<1>7. BacklogOK' /\ TypesOK' /\ touched' = {}
  BY DEF MSInv, BacklogOK, TypesOK, serviceVars
<1> QED
  BY <1>1, <1>2, <1>4, <1>5, <1>6, <1>7 DEF MSInv

(* poll(2) fills in two fields of a slot, and leaves the others.             *)
LEMMA FilledIn ==
  ASSUME NEW x \in Row, NEW a \in BOOLEAN, NEW b \in BOOLEAN,
         NEW y, y = [x EXCEPT !.in = a, !.out = b]
  PROVE  y \in Row
  BY Zenon DEF Row

(* The same with what poll(2) fills in.                                      *)
LEMMA Polled ==
  ASSUME NEW x \in Row, NEW X, NEW Y,
         NEW y, y = [x EXCEPT !.in = x.fd \in X, !.out = x.fd \in Y]
  PROVE  y \in Row /\ y.fd = x.fd /\ y.owner = x.owner
<1> DEFINE a == x.fd \in X
           b == x.fd \in Y
<1>1. (x.fd \in X) \in BOOLEAN /\ (x.fd \in Y) \in BOOLEAN
  BY SMT
<1>2. a \in BOOLEAN /\ b \in BOOLEAN
  BY <1>1
<1>3. y = [x EXCEPT !.in = a, !.out = b]
  OBVIOUS
<1>4. y.fd = x.fd /\ y.owner = x.owner
  BY DEF Row
<1> HIDE DEF a, b
<1>5. y \in Row
  BY <1>2, <1>3, FilledIn, Zenon
<1> QED
  BY <1>4, <1>5

(* poll(2) leaves descriptors and owners.                                    *)
LEMMA PollTable ==
  ASSUME MSInv, Poll(Readable, Writable)
  PROVE  /\ TableOK(table') /\ table'.num = table.num
         /\ \A i \in 1 .. table.num : /\ table'.slots[i].fd = table.slots[i].fd
                                      /\ table'.slots[i].owner = table.slots[i].owner
<1> DEFINE polled == [i \in DOMAIN table.slots |->
                      IF i <= table.num
                      THEN [table.slots[i] EXCEPT !.in  = table.slots[i].fd \in Readable,
                                                  !.out = table.slots[i].fd \in Writable]
                      ELSE table.slots[i]]
           n == Len(table.slots)
<1>1. TableOK(table)
  BY DEF MSInv
<1>2. n \in Nat /\ DOMAIN table.slots = 1 .. n /\ \A i \in 1 .. n : table.slots[i] \in Row
  BY <1>1 DEF TableOK
<1>3. table' = [table EXCEPT !.slots = polled]
  BY Zenon DEF Poll
<1>4. DOMAIN polled = 1 .. n /\ polled = [i \in DOMAIN polled |-> polled[i]]
  BY <1>2, Zenon
<1>5. ASSUME NEW i \in 1 .. n
      PROVE  polled[i] \in Row /\ polled[i].fd = table.slots[i].fd
             /\ polled[i].owner = table.slots[i].owner
  <2>1. CASE i <= table.num
    <3> DEFINE x == table.slots[i]
    <3>1. polled[i] = [x EXCEPT !.in = x.fd \in Readable, !.out = x.fd \in Writable]
      BY <1>2, <2>1, Zenon
    <3>2. x \in Row
      BY <1>2
    <3> HIDE DEF x, polled
    <3>3. ASSUME NEW y, y = polled[i]
          PROVE  y \in Row /\ y.fd = x.fd /\ y.owner = x.owner
      <4>1. y = [x EXCEPT !.in = x.fd \in Readable, !.out = x.fd \in Writable]
        BY <3>1, <3>3
      <4>2. y \in Row
        BY <3>2, <4>1, Polled, Zenon
      <4>3. y.fd = x.fd /\ y.owner = x.owner
        BY <3>2, <4>1 DEF Row
      <4> QED
        BY <4>2, <4>3
    <3> QED
      BY <3>3 DEF x
  <2>2. CASE ~(i <= table.num)
    <3>1. polled[i] = table.slots[i]
      BY <1>2, <2>2, Zenon
    <3> HIDE DEF polled
    <3> QED
      BY <1>2, <3>1
  <2> QED
    BY <2>1, <2>2, Zenon
<1> HIDE DEF polled, n
<1>6. polled \in Seq(Row) /\ Len(polled) = n
  <2>1. polled \in [1 .. n -> Row]
    BY <1>4, <1>5
  <2> QED
    BY <1>2, <2>1, IsSequence
<1>7. table'.slots = polled /\ table'.num = table.num
      /\ table' \in [slots : Seq(Row), num : Nat]
  BY <1>1, <1>3, <1>6 DEF TableOK
<1>8. 0 < n /\ table.num \in Nat /\ table.num <= n
  BY <1>1 DEF TableOK, n
<1>9. \A i \in 1 .. table.num : /\ polled[i].fd = table.slots[i].fd
                               /\ polled[i].owner = table.slots[i].owner
  BY <1>2, <1>5, <1>8
<1> QED
  BY <1>1, <1>6, <1>7, <1>8, <1>9 DEF TableOK

(* poll(2) returns.                                                          *)
LEMMA PollInv ==
  ASSUME MSInv, UNCHANGED serviceVars, provider = "servicing", Poll(Readable, Writable)
  PROVE  MSInv'
<1>1. /\ TableOK(table') /\ table'.num = table.num
      /\ \A i \in 1 .. table.num : /\ table'.slots[i].fd = table.slots[i].fd
                                   /\ table'.slots[i].owner = table.slots[i].owner
  BY PollTable
<1>2. KernelOwned'
  BY OwnedKept DEF serviceVars
<1>3. SlotsOwned'
  BY <1>1 DEF MSInv, SlotsOwned, Alive, serviceVars
<1>4. WalkOK'
  <2>1. cursor' = table.num /\ step' = "slot"
    BY DEF Poll
  <2> QED
    BY <1>1, <2>1 DEF WalkOK, TableOK
<1>5. StartOK'
  BY DEF MSInv, StartOK, Alive, serviceVars
<1>6. \A c \in Clients : ClientOK(c)'
  BY DEF MSInv, ClientOK, Alive, serviceVars
<1>7. BacklogOK' /\ TypesOK' /\ touched' = {}
  BY DEF MSInv, BacklogOK, TypesOK, serviceVars
<1> QED
  BY <1>1, <1>2, <1>3, <1>4, <1>5, <1>6, <1>7 DEF MSInv

(* The first of the backlog leaves it.                                       *)
LEMMA HeadLeaves ==
  ASSUME BacklogOK, backlog # <<>>
  PROVE  /\ Head(backlog) \in Clients /\ sock[Head(backlog)].life = "none"
         /\ client[Head(backlog)] # "idle"
         /\ Tail(backlog) \in Seq(Clients)
         /\ \A i \in 1 .. Len(Tail(backlog)) :
              Tail(backlog)[i] # Head(backlog) /\ sock[Tail(backlog)[i]].life = "none"
              /\ client[Tail(backlog)[i]] # "idle"
         /\ \A i, j \in 1 .. Len(Tail(backlog)) :
              Tail(backlog)[i] = Tail(backlog)[j] => i = j
<1>1. backlog \in Seq(Clients) /\ Len(backlog) \in Nat /\ Len(backlog) # 0
  BY DEF BacklogOK
<1>2. Head(backlog) = backlog[1] /\ 1 \in 1 .. Len(backlog)
  BY <1>1
<1>3. /\ Tail(backlog) \in Seq(Clients) /\ Len(Tail(backlog)) = Len(backlog) - 1
      /\ \A i \in 1 .. Len(Tail(backlog)) : Tail(backlog)[i] = backlog[i + 1]
  BY <1>1, HeadTailProperties
<1>4. \A i \in 1 .. Len(Tail(backlog)) : i + 1 \in 1 .. Len(backlog) /\ i + 1 # 1
  BY <1>1, <1>3
<1>5. backlog[1] \in Clients
  BY <1>1, <1>2
<1>6. \A i \in 1 .. Len(Tail(backlog)) :
        Tail(backlog)[i] # Head(backlog) /\ sock[Tail(backlog)[i]].life = "none"
        /\ client[Tail(backlog)[i]] # "idle"
  BY <1>2, <1>3, <1>4 DEF BacklogOK
<1>7. ASSUME NEW i \in 1 .. Len(Tail(backlog)), NEW j \in 1 .. Len(Tail(backlog)),
             Tail(backlog)[i] = Tail(backlog)[j]
      PROVE  i = j
  <2>1. i + 1 = j + 1
    BY <1>3, <1>4, <1>7 DEF BacklogOK
  <2> QED
    BY <1>1, <1>3, <2>1
<1> QED
  BY <1>2, <1>3, <1>5, <1>6, <1>7 DEF BacklogOK

(* The listener accepts a connection.                                        *)
LEMMA AcceptInv ==
  ASSUME MSInv, Accept
  PROVE  MSInv'
<1> DEFINE b == Head(backlog)
<1>1. PICK fd \in Fds :
        /\ Lowest(fd)
        /\ conn' = [conn EXCEPT ![fd] = b]
        /\ sock' = [sock EXCEPT ![b] = NewSocket(fd)]
        /\ table' = Register(table, b, fd)
  BY DEF Accept
<1>2. /\ b \in Clients /\ sock[b].life = "none" /\ client[b] # "idle"
      /\ Tail(backlog) \in Seq(Clients)
      /\ \A i \in 1 .. Len(Tail(backlog)) :
           Tail(backlog)[i] # b /\ sock[Tail(backlog)[i]].life = "none"
           /\ client[Tail(backlog)[i]] # "idle"
      /\ \A i, j \in 1 .. Len(Tail(backlog)) : Tail(backlog)[i] = Tail(backlog)[j] => i = j
  BY HeadLeaves DEF MSInv, Accept
<1> HIDE DEF b
<1>3. b \in Pollables \ {Phantom, Listener} /\ ~Alive(b) /\ Clients \subseteq Pollables
      /\ Listener \in Pollables \ {Phantom}
  BY <1>2, MixerServiceAssumption DEF Alive
<1>4. fd \in Free
  BY <1>1 DEF Lowest
<1>5. /\ TableOK(table') /\ SlotsOwned' /\ KernelOwned'
      /\ table.num <= table'.num
      /\ \A i \in 1 .. table.num : table'.slots[i] = table.slots[i]
  BY <1>1, <1>3, <1>4, NewOwner
<1>6. /\ TypesOK /\ \A c \in Pollables : c # b => sock'[c] = sock[c]
      /\ sock'[b] = NewSocket(fd)
  BY <1>1, <1>3 DEF MSInv, TypesOK
<1>7. TypesOK'
  <2>1. NewSocket(fd) \in SockRow
    BY DEF NewSocket, SockRow, Life, Words
  <2> QED
    BY <1>1, <1>3, <1>6, <2>1 DEF Accept, TypesOK
<1>8. ASSUME NEW c \in Clients PROVE ClientOK(c)'
  <2>1. CASE c = b
    <3>1. c \notin pending /\ (wire[c] = "line" => said[c] = "line")
      BY <1>3, <2>1 DEF MSInv, ClientOK
    <3> QED
      BY <1>6, <2>1, <3>1 DEF Accept, ClientOK, NewSocket
  <2>2. CASE c # b
    BY <1>3, <1>6, <2>2 DEF Accept, MSInv, ClientOK, Alive
  <2> QED
    BY <2>1, <2>2
<1>9. BacklogOK'
  <2>1. backlog' = Tail(backlog) /\ client' = client
    BY DEF Accept
  <2>2. \A i \in 1 .. Len(Tail(backlog)) : Tail(backlog)[i] \in Clients
    BY <1>2
  <2>3. \A c \in Clients : client[c] = "idle" => sock'[c].life = "none"
    BY <1>2, <1>3, <1>6 DEF MSInv, BacklogOK
  <2> QED
    BY <1>2, <1>3, <1>6, <2>1, <2>2, <2>3 DEF BacklogOK
<1>10. WalkOK'
  <2>1. table.num \in Nat /\ table'.num \in Nat
    BY <1>5 DEF MSInv, TableOK
  <2>2. step = "in" /\ step' = "out" /\ cursor' = cursor /\ current' = current
    BY DEF Accept, AfterRead, ReadDue
  <2> QED
    BY <1>5, <2>1, <2>2 DEF MSInv, WalkOK
<1>11. StartOK'
  BY <1>3, <1>6 DEF Accept, ReadDue, AfterRead, MSInv, StartOK, Alive
<1> QED
  BY <1>5, <1>7, <1>8, <1>9, <1>10, <1>11 DEF MSInv, Accept

(* Accept fails, and the connection may be forgotten.                        *)
LEMMA AcceptFailsInv ==
  ASSUME MSInv, AcceptFails
  PROVE  MSInv'
<1>1. KernelOwned' /\ SlotsOwned'
  BY OwnedKept DEF AcceptFails
<1>2. BacklogOK'
  <2>1. client' = client /\ sock' = sock /\ backlog # <<>>
    BY DEF AcceptFails
  <2>2. CASE backlog' = backlog
    BY <2>1, <2>2 DEF MSInv, BacklogOK
  <2>3. CASE backlog' = Tail(backlog)
    <3>1. /\ Tail(backlog) \in Seq(Clients)
          /\ \A i \in 1 .. Len(Tail(backlog)) :
               sock[Tail(backlog)[i]].life = "none" /\ client[Tail(backlog)[i]] # "idle"
          /\ \A i, j \in 1 .. Len(Tail(backlog)) : Tail(backlog)[i] = Tail(backlog)[j] => i = j
      BY <2>1, HeadLeaves DEF MSInv
    <3> QED
      BY <2>1, <2>3, <3>1 DEF MSInv, BacklogOK
  <2> QED
    BY <2>2, <2>3 DEF AcceptFails
<1>3. WalkOK'
  <2>1. step = "in" /\ step' = "out" /\ cursor' = cursor /\ current' = current
        /\ table' = table /\ table.num \in Nat
    BY DEF AcceptFails, AfterRead, ReadDue, MSInv, TableOK
  <2> QED
    BY <2>1 DEF MSInv, WalkOK
<1>4. StartOK'
  BY DEF AcceptFails, ReadDue, AfterRead, MSInv, StartOK, Alive
<1>5. \A c \in Clients : ClientOK(c)'
  BY DEF AcceptFails, MSInv, ClientOK, Alive
<1>6. TypesOK' /\ touched' = {} /\ TableOK(table')
  BY DEF AcceptFails, MSInv, TypesOK
<1> QED
  BY <1>1, <1>2, <1>3, <1>4, <1>5, <1>6 DEF MSInv

(* Accept would block: the socket made for -1 belongs to no client.          *)
LEMMA PhantomInv ==
  ASSUME MSInv, AcceptWouldBlock
  PROVE  MSInv'
<1>1. Phantom \in Pollables /\ Clients \subseteq Pollables \ {Phantom} /\ Listener # Phantom
      /\ NoFd \notin Fds /\ Listener \in Pollables
  BY MixerServiceAssumption DEF NoFd
<1>2. TableOK(table) /\ TypesOK /\ SlotsOwned /\ KernelOwned
  BY DEF MSInv
<1>3. /\ \A s \in Pollables \ {Phantom} : sock'[s] = sock[s]
      /\ sock'[Phantom] = NewSocket(NoFd)
  BY <1>1, <1>2 DEF AcceptWouldBlock, TypesOK
<1>4. sock'[Phantom].life = "alive" /\ sock'[Phantom].fd = NoFd
  BY <1>3 DEF NewSocket
<1>5. TableOK(table') /\ \E k \in 1 .. table'.num : Registering(table, table', Phantom, NoFd, k)
  BY <1>1, <1>2, Registers DEF AcceptWouldBlock
<1>6. PICK k \in 1 .. table'.num : Registering(table, table', Phantom, NoFd, k)
  BY <1>5
<1>7. table.num \in Nat /\ table'.num \in Nat /\ table.num <= table'.num
  <2>1. table.num \in Nat /\ table'.num \in Nat
    BY <1>2, <1>5 DEF TableOK
  <2>2. table'.num \in {table.num, table.num + 1}
    BY <1>6 DEF Registering
  <2> QED
    BY <2>1, <2>2
<1>8. SlotsOwned'
  <2> SUFFICES ASSUME NEW i \in 1 .. table'.num
               PROVE  /\ table'.slots[i].owner \in Pollables
                      /\ sock'[table'.slots[i].owner].life = "alive"
                      /\ sock'[table'.slots[i].owner].fd = table'.slots[i].fd
    BY DEF SlotsOwned, Alive
  <2>1. CASE i = k
    BY <1>1, <1>4, <1>6, <2>1 DEF Registering
  <2>2. CASE i # k
    <3>1. i \in 1 .. table.num /\ table'.slots[i] = table.slots[i] /\ table.slots[i].fd # NoFd
      BY <1>6, <1>7, <2>2 DEF Registering
    <3>2. /\ table.slots[i].owner \in Pollables \ {Phantom}
          /\ sock[table.slots[i].owner].life = "alive"
          /\ sock[table.slots[i].owner].fd = table.slots[i].fd
      BY <1>2, <3>1 DEF SlotsOwned, KernelOwned, Alive
    <3> QED
      BY <1>3, <3>1, <3>2
  <2> QED
    BY <2>1, <2>2
<1>9. KernelOwned'
  BY <1>1, <1>2, <1>3, <1>4 DEF AcceptWouldBlock, KernelOwned, Alive, Free
<1>10. TypesOK'
  <2>1. NewSocket(NoFd) \in SockRow
    BY DEF NewSocket, SockRow, Life, Words
  <2> QED
    BY <1>1, <1>2, <2>1 DEF AcceptWouldBlock, TypesOK
<1>11. \A c \in Clients : ClientOK(c)'
  BY <1>1, <1>3 DEF AcceptWouldBlock, MSInv, ClientOK, Alive
<1>12. BacklogOK'
  BY <1>1, <1>3 DEF AcceptWouldBlock, MSInv, BacklogOK
<1>13. WalkOK'
  <2>1. \A i \in 1 .. table.num : table'.slots[i].fd = table.slots[i].fd
    BY <1>6 DEF Registering
  <2>2. step = "in" /\ step' = "out" /\ cursor' = cursor /\ current' = current
    BY DEF AcceptWouldBlock, AfterRead, ReadDue
  <2> QED
    BY <1>7, <2>1, <2>2 DEF MSInv, WalkOK
<1>14. StartOK'
  BY <1>1, <1>3 DEF AcceptWouldBlock, ReadDue, AfterRead, MSInv, StartOK, Alive
<1> QED
  BY <1>5, <1>8, <1>9, <1>10, <1>11, <1>12, <1>13, <1>14 DEF MSInv, AcceptWouldBlock

(* One client's socket changes, in its buffers.                              *)
LEMMA OneSocket ==
  ASSUME MSInv, NEW c \in Clients,
         sock' \in [Pollables -> SockRow],
         \A s \in Pollables \ {c} : sock'[s] = sock[s],
         sock'[c].life = sock[c].life, sock'[c].fd = sock[c].fd,
         conn' = conn, backlog' = backlog, client' = client, said' = said,
         \A d \in Clients \ {c} : (d \in pending' => d \in pending) /\ wire'[d] = wire[d],
         ClientOK(c)',
         provider' = provider, step' = step \/ step # "idle"
  PROVE  /\ KernelOwned' /\ (table' = table => SlotsOwned')
         /\ \A d \in Clients : ClientOK(d)'
         /\ BacklogOK' /\ StartOK'
<1>1. \A s \in Pollables : sock'[s].life = sock[s].life /\ sock'[s].fd = sock[s].fd
  OBVIOUS
<1>2. KernelOwned' /\ (table' = table => SlotsOwned')
  BY <1>1, OwnedKept
<1>3. Clients \subseteq Pollables /\ Listener \in Pollables
  BY MixerServiceAssumption
<1>4. ASSUME NEW d \in Clients, d # c PROVE ClientOK(d)'
  <2>1. ClientOK(d) /\ sock'[d] = sock[d] /\ (d \in pending' => d \in pending)
        /\ wire'[d] = wire[d]
    BY <1>3, <1>4 DEF MSInv
  <2> QED
    BY <2>1 DEF ClientOK, Alive
<1>5. BacklogOK'
  <2>1. \A j \in 1 .. Len(backlog) : backlog[j] \in Pollables
    BY <1>3 DEF MSInv, BacklogOK
  <2> QED
    BY <1>1, <1>3, <2>1 DEF MSInv, BacklogOK
<1>6. StartOK'
  BY <1>1, <1>3 DEF MSInv, StartOK, Alive
<1> QED
  BY <1>2, <1>4, <1>5, <1>6

(* What is received of a client that has not been executed yet.              *)
LEMMA ReceivedOK ==
  ASSUME MSInv, NEW c \in Clients, ReadDue(c)
  PROVE  /\ Received(c) \in Words \cup {"executed"}
         /\ Received(c) = "executed" <=> sock[c].inbuf = "executed"
         /\ Received(c) = "line" /\ client[c] # "closed" => said[c] = "line"
<1>1. Peer(c) = c /\ c \in Pollables
  BY DueClient, MixerServiceAssumption
<1>2. ClientOK(c) /\ wire[c] \in Words /\ sock[c] \in SockRow
  BY <1>1 DEF MSInv, TypesOK
<1> QED
  BY <1>1, <1>2 DEF ClientOK, Received, Words, SockRow

(* Only inbuf_ changes in a read that executes nothing.                      *)
LEMMA InbufSet ==
  ASSUME MSInv, NEW c \in Clients, ReadDue(c),
         sock' = [sock EXCEPT ![c].inbuf = Received(c)]
  PROVE  /\ sock' \in [Pollables -> SockRow]
         /\ \A s \in Pollables \ {c} : sock'[s] = sock[s]
         /\ sock'[c].life = sock[c].life /\ sock'[c].fd = sock[c].fd
         /\ sock'[c].inbuf = Received(c) /\ sock'[c].outbuf = sock[c].outbuf
<1>1. c \in Pollables /\ Received(c) \in Words \cup {"executed"}
      /\ sock \in [Pollables -> SockRow]
  BY ReceivedOK, MixerServiceAssumption DEF MSInv, TypesOK
<1> QED
  BY <1>1 DEF SockRow

(* Reads that leave the query where it is: the end, an error, a part.        *)
LEMMA InbufClient ==
  ASSUME MSInv, NEW c \in Clients, ReadDue(c),
         sock' = [sock EXCEPT ![c].inbuf = Received(c)],
         wire' = [wire EXCEPT ![c] = "nothing"],
         pending' = pending, said' = said, client' = client,
         client[c] = "closed" \/ Received(c) # "line"
  PROVE  ClientOK(c)'
<1>1. Peer(c) = c /\ Alive(c)
  BY DueClient
<1>2. ClientOK(c) /\ wire \in [Clients -> Words]
  BY DEF MSInv, TypesOK
<1>3. wire'[c] = "nothing"
  BY <1>2
<1>4. sock'[c].inbuf = Received(c) /\ sock'[c].outbuf = sock[c].outbuf
      /\ sock'[c].life = sock[c].life
  BY InbufSet
<1>5. Received(c) = "executed" <=> sock[c].inbuf = "executed"
  BY ReceivedOK
<1> QED
  BY <1>2, <1>3, <1>4, <1>5 DEF ClientOK, Alive

(* The end of the stream: the slot goes, the walk is still at it.            *)
LEMMA ReadEndInv ==
  ASSUME MSInv, NEW c \in Clients, ReadEnd(c)
  PROVE  MSInv'
<1>1. /\ cursor \in 1 .. table.num
      /\ table.slots[cursor].owner = c /\ table.slots[cursor].fd = current
      /\ Alive(c) /\ sock[c].fd = current
      /\ Peer(c) = c /\ c \in Pollables \ {Phantom}
  BY DueClient DEF ReadEnd
<1>2. TableOK(table) /\ table.num \in Nat
  BY DEF MSInv, TableOK
<1>3. TableOK(table') /\ Unregistering(table, table', cursor)
  BY <1>1, <1>2, Unregisters DEF ReadEnd
<1>4. /\ sock' \in [Pollables -> SockRow]
      /\ \A s \in Pollables \ {c} : sock'[s] = sock[s]
      /\ sock'[c].life = sock[c].life /\ sock'[c].fd = sock[c].fd
  BY InbufSet DEF ReadEnd
<1>5. ClientOK(c)'
  BY <1>1, InbufClient DEF ReadEnd
<1>6. wire' = [wire EXCEPT ![c] = "nothing"] /\ wire \in [Clients -> Words]
  BY <1>1 DEF ReadEnd, MSInv, TypesOK
<1>7. \A d \in Clients \ {c} : wire'[d] = wire[d]
  BY <1>6
<1>8. step = "in" /\ step' = "out" /\ cursor' = cursor /\ current' = current
  BY DEF ReadEnd, AfterRead, ReadDue
<1>9. /\ KernelOwned' /\ BacklogOK' /\ StartOK'
      /\ \A d \in Clients : ClientOK(d)'
  BY <1>4, <1>5, <1>7, <1>8, OneSocket DEF ReadEnd
<1>10. SlotsOwned'
  <2>1. \A s \in Pollables : sock'[s].life = sock[s].life /\ sock'[s].fd = sock[s].fd
    BY <1>4
  <2>2. \A j \in 1 .. table'.num : \E m \in 1 .. table.num :
          table'.slots[j].fd = table.slots[m].fd /\ table'.slots[j].owner = table.slots[m].owner
    BY <1>3 DEF Unregistering
  <2> QED
    BY <2>1, <2>2 DEF MSInv, SlotsOwned, Alive
<1>11. WalkOK'
  <2>1. table'.num = table.num - 1
        /\ (cursor \in 1 .. table'.num => ~table'.slots[cursor].out)
    BY <1>3 DEF Unregistering, Silent
  <2> QED
    BY <1>1, <1>2, <1>8, <2>1 DEF MSInv, WalkOK
<1>12. TypesOK'
  BY <1>4, <1>6 DEF ReadEnd, MSInv, TypesOK, Words
<1> QED
  BY <1>3, <1>9, <1>10, <1>11, <1>12 DEF MSInv, ReadEnd

(* The other reads keep the table.                                           *)
LEMMA ReadInv ==
  ASSUME MSInv, NEW c \in Clients, ReadFails(c) \/ ReadMore(c)
  PROVE  MSInv'
<1>1. /\ cursor \in 1 .. table.num /\ table.slots[cursor].fd = current
      /\ Peer(c) = c /\ c \in Pollables \ {Phantom}
  BY DueClient DEF ReadFails, ReadMore
<1>2. ReadDue(c) /\ step = "in" /\ step' = "out" /\ cursor' = cursor /\ current' = current
      /\ table' = table
  BY DEF ReadFails, ReadMore, AfterRead, ReadDue
<1>3. wire' = [wire EXCEPT ![c] = "nothing"] /\ wire \in [Clients -> Words]
      /\ sock \in [Pollables -> SockRow]
  BY <1>1 DEF ReadFails, ReadMore, MSInv, TypesOK
<1>4. wire'[c] = "nothing" /\ \A d \in Clients \ {c} : wire'[d] = wire[d]
  BY <1>3
<1>5. UNCHANGED <<loop, provider, touched, died, conn, backlog, client, said, got>>
  BY DEF ReadFails, ReadMore
<1>6. /\ sock' \in [Pollables -> SockRow]
      /\ \A s \in Pollables \ {c} : sock'[s] = sock[s]
      /\ sock'[c].life = sock[c].life /\ sock'[c].fd = sock[c].fd
      /\ \A d \in Clients \ {c} : d \in pending' => d \in pending
      /\ ClientOK(c)'
      /\ pending' \subseteq Clients
  <2>0. pending \subseteq Clients
    BY DEF MSInv, TypesOK
  <2>1. CASE sock' = [sock EXCEPT ![c].inbuf = Received(c)] /\ pending' = pending
             /\ (client[c] = "closed" \/ Received(c) # "line")
    <3>1. ClientOK(c)'
      BY <1>2, <1>3, <1>5, <2>1, InbufClient
    <3> QED
      BY <1>2, <2>0, <2>1, <3>1, InbufSet
  <2>2. CASE client[c] = "connected" /\ Received(c) = "line" /\ pending' = pending \cup {c}
             /\ sock' = [sock EXCEPT ![c].inbuf = "executed"]
    <3>1. said[c] = "line" /\ sock[c].inbuf # "executed" /\ ClientOK(c) /\ Alive(c)
      BY <1>2, <2>2, ReceivedOK, DueClient DEF MSInv
    <3>2. /\ sock' \in [Pollables -> SockRow]
          /\ \A s \in Pollables \ {c} : sock'[s] = sock[s]
          /\ sock'[c].life = sock[c].life /\ sock'[c].fd = sock[c].fd
          /\ sock'[c].inbuf = "executed" /\ sock'[c].outbuf = sock[c].outbuf
      BY <1>1, <1>3, <2>2 DEF SockRow
    <3>3. ClientOK(c)'
      BY <1>4, <1>5, <3>1, <3>2 DEF ClientOK, Alive
    <3> QED
      BY <2>0, <2>2, <3>2, <3>3
  <2>3. CASE client[c] = "connected" /\ Received(c) = "line" /\ pending' = pending
             /\ sock' = [sock EXCEPT ![c].inbuf = "executed", ![c].outbuf = @ + ResponseUnits]
    <3>1. said[c] = "line" /\ sock[c].inbuf # "executed" /\ ClientOK(c)
      BY <1>2, <2>3, ReceivedOK DEF MSInv
    <3>2. /\ sock' \in [Pollables -> SockRow]
          /\ \A s \in Pollables \ {c} : sock'[s] = sock[s]
          /\ sock'[c].life = sock[c].life /\ sock'[c].fd = sock[c].fd
          /\ sock'[c].inbuf = "executed"
      BY <1>1, <1>3, <2>3, MixerServiceAssumption DEF SockRow
    <3>3. ClientOK(c)'
      BY <1>4, <1>5, <2>3, <3>1, <3>2 DEF ClientOK, Alive
    <3> QED
      BY <2>0, <2>3, <3>2, <3>3
  <2> QED
    BY <1>1, <2>1, <2>2, <2>3 DEF ReadFails, ReadMore
<1>7. /\ KernelOwned' /\ SlotsOwned' /\ BacklogOK' /\ StartOK'
      /\ \A d \in Clients : ClientOK(d)'
  BY <1>2, <1>4, <1>5, <1>6, OneSocket
<1>8. WalkOK'
  BY <1>1, <1>2 DEF MSInv, WalkOK, TableOK
<1>9. TypesOK'
  BY <1>3, <1>5, <1>6 DEF MSInv, TypesOK, Words
<1> QED
  BY <1>2, <1>5, <1>7, <1>8, <1>9 DEF MSInv

(* A response that another thread brings finds its socket alive.             *)
LEMMA ResponseInv ==
  ASSUME MSInv, NEW c \in Clients, HandleMixerResponse(c)
  PROVE  MSInv'
<1>1. c \in pending /\ ClientOK(c) /\ Alive(c) /\ sock[c].inbuf = "executed"
      /\ sock[c].outbuf = 0 /\ c \in Pollables
  BY MixerServiceAssumption DEF HandleMixerResponse, MSInv, ClientOK
<1>2. sock' = [sock EXCEPT ![c].outbuf = @ + ResponseUnits] /\ touched' = touched
      /\ pending' = pending \ {c}
      /\ UNCHANGED <<pollVars, provider, died, conn, backlog, client, said, wire, got>>
  BY <1>1 DEF HandleMixerResponse
<1>3. /\ sock' \in [Pollables -> SockRow]
      /\ \A s \in Pollables \ {c} : sock'[s] = sock[s]
      /\ sock'[c].life = sock[c].life /\ sock'[c].fd = sock[c].fd
      /\ sock'[c].inbuf = "executed"
  BY <1>1, <1>2, MixerServiceAssumption DEF SockRow, MSInv, TypesOK
<1>4. ClientOK(c)'
  BY <1>1, <1>2, <1>3 DEF ClientOK
<1>5. /\ KernelOwned' /\ SlotsOwned' /\ BacklogOK' /\ StartOK'
      /\ \A d \in Clients : ClientOK(d)'
  BY <1>2, <1>3, <1>4, OneSocket DEF pollVars
<1>6. WalkOK' /\ TableOK(table')
  BY <1>2 DEF MSInv, WalkOK, pollVars
<1>7. TypesOK'
  BY <1>2, <1>3 DEF MSInv, TypesOK
<1> QED
  BY <1>2, <1>5, <1>6, <1>7 DEF MSInv

(* Nothing to write, or a part is written: the socket stays.                 *)
LEMMA WriteInv ==
  ASSUME MSInv, NEW c \in Clients, NothingToWrite(c) \/ WritePart(c)
  PROVE  MSInv'
<1>1. /\ cursor \in 1 .. table.num /\ c \in Pollables \ {Phantom} /\ Alive(c)
  BY DueClient DEF NothingToWrite, WritePart
<1>2. step = "out" /\ step' = "slot" /\ cursor' = cursor - 1 /\ table' = table
  BY DEF NothingToWrite, WritePart, AfterWrite, AfterSlot, WriteDue
<1>3. UNCHANGED <<loop, provider, pending, touched, died, conn, backlog, client, said, wire>>
  BY DEF NothingToWrite, WritePart, serviceVars
<1>4. sock \in [Pollables -> SockRow] /\ sock[c].outbuf \in Nat /\ ClientOK(c)
  BY <1>1 DEF MSInv, TypesOK, SockRow
<1>5. /\ sock' \in [Pollables -> SockRow]
      /\ \A s \in Pollables \ {c} : sock'[s] = sock[s]
      /\ sock'[c].life = sock[c].life /\ sock'[c].fd = sock[c].fd
      /\ ClientOK(c)'
  <2>1. CASE NothingToWrite(c)
    BY <1>3, <1>4, <2>1 DEF NothingToWrite, serviceVars, ClientOK, Alive
  <2>2. CASE WritePart(c)
    <3>1. PICK n \in 0 .. sock[c].outbuf - 1 : sock' = [sock EXCEPT ![c].outbuf = @ - n]
      BY <2>2 DEF WritePart
    <3>2. sock[c].outbuf - n \in Nat /\ sock[c].outbuf # 0
      BY <1>4, <3>1
    <3>3. /\ sock' \in [Pollables -> SockRow]
          /\ \A s \in Pollables \ {c} : sock'[s] = sock[s]
          /\ sock'[c].life = sock[c].life /\ sock'[c].fd = sock[c].fd
          /\ sock'[c].inbuf = sock[c].inbuf
      BY <1>1, <1>4, <3>1, <3>2 DEF SockRow
    <3>4. ClientOK(c)'
      BY <1>3, <1>4, <3>2, <3>3 DEF ClientOK
    <3> QED
      BY <3>3, <3>4
  <2> QED
    BY <2>1, <2>2
<1>6. /\ KernelOwned' /\ SlotsOwned' /\ BacklogOK' /\ StartOK'
      /\ \A d \in Clients : ClientOK(d)'
  BY <1>2, <1>3, <1>5, OneSocket
<1>7. WalkOK'
  BY <1>1, <1>2 DEF MSInv, WalkOK, TableOK
<1>8. TypesOK'
  BY <1>3, <1>5 DEF MSInv, TypesOK
<1> QED
  BY <1>2, <1>3, <1>6, <1>7, <1>8 DEF MSInv

(* The last byte is out: the socket closes, unregisters and deletes itself.  *)
LEMMA WriteAllInv ==
  ASSUME MSInv, NEW c \in Clients, WriteAll(c)
  PROVE  MSInv'
<1>1. /\ cursor \in 1 .. table.num
      /\ table.slots[cursor].owner = c /\ table.slots[cursor].fd = current
      /\ Alive(c) /\ sock[c].fd = current /\ sock[c].fd \in Fds
      /\ c \in Pollables \ {Phantom, Listener} /\ Clients \subseteq Pollables
      /\ Listener \in Pollables /\ NoOne \notin Pollables
  BY DueClient, MixerServiceAssumption DEF WriteAll
<1>2. /\ sock \in [Pollables -> SockRow] /\ ClientOK(c) /\ sock[c].outbuf > 0
      /\ sock[c].outbuf \in Nat
  BY <1>1 DEF MSInv, TypesOK, SockRow, WriteAll
<1>3. sock' = [sock EXCEPT ![c].life = "deleted", ![c].fd = NoFd, ![c].outbuf = 0]
      /\ conn' = [conn EXCEPT ![sock[c].fd] = NoOne]
      /\ table' = Unregister(table, c, sock[c].fd)
      /\ UNCHANGED <<loop, provider, pending, touched, backlog, client, said, wire>>
  BY DEF WriteAll
<1>4. /\ sock' \in [Pollables -> SockRow]
      /\ \A s \in Pollables \ {c} : sock'[s] = sock[s]
      /\ sock'[c].life = "deleted" /\ sock'[c].outbuf = 0
      /\ sock'[c].inbuf = sock[c].inbuf
  BY <1>1, <1>2, <1>3 DEF SockRow, Life
<1>5. TableOK(table') /\ SlotsOwned' /\ KernelOwned'
  BY <1>1, <1>3, <1>4, OwnerLeaves
<1>6. table'.num = table.num - 1
  BY <1>1, <1>3, Unregisters DEF MSInv, Unregistering
<1>7. ASSUME NEW d \in Clients PROVE ClientOK(d)'
  <2>1. CASE d = c
    BY <1>2, <1>3, <1>4, <2>1 DEF ClientOK
  <2>2. CASE d # c
    BY <1>1, <1>3, <1>4, <2>2 DEF MSInv, ClientOK, Alive
  <2> QED
    BY <2>1, <2>2
<1>8. BacklogOK'
  <2>1. \A j \in 1 .. Len(backlog) : backlog[j] \in Pollables \ {c}
    BY <1>1 DEF MSInv, BacklogOK, Alive
  <2>2. \A d \in Clients : client[d] = "idle" => d # c
    BY <1>1 DEF MSInv, BacklogOK, Alive
  <2> QED
    BY <1>1, <1>3, <1>4, <2>1, <2>2 DEF MSInv, BacklogOK
<1>9. step = "out" /\ step' = "slot" /\ cursor' = cursor - 1
  BY DEF WriteAll, AfterWrite, AfterSlot, WriteDue
<1>10. WalkOK'
  BY <1>1, <1>6, <1>9 DEF MSInv, WalkOK, TableOK
<1>11. StartOK'
  BY <1>1, <1>3, <1>4, <1>9 DEF MSInv, StartOK, Alive
<1>12. TypesOK'
  BY <1>1, <1>3, <1>4 DEF MSInv, TypesOK
<1> QED
  BY <1>3, <1>5, <1>7, <1>8, <1>10, <1>11, <1>12 DEF MSInv

(* Start returns: the listener is deleted, with the poll server.             *)
LEMMA FinishInv ==
  ASSUME MSInv, Finish
  PROVE  MSInv'
<1>1. /\ Listener \in Pollables \ {Phantom} /\ Clients \subseteq Pollables \ {Listener}
      /\ NoOne \notin Pollables
  BY MixerServiceAssumption
<1>2. Alive(Listener) /\ step = "left" /\ provider' = "returned"
  BY DEF Finish, MSInv, StartOK
<1>3. sock' = [sock EXCEPT ![Listener].life = "deleted", ![Listener].fd = NoFd]
      /\ conn' = [conn EXCEPT ![sock[Listener].fd] = NoOne]
      /\ table' = Unregister(table, Listener, sock[Listener].fd)
      /\ UNCHANGED <<current, cursor, step, loop, pending, touched, backlog, client, said, wire>>
  BY DEF Finish
<1>4. /\ sock' \in [Pollables -> SockRow]
      /\ \A s \in Pollables \ {Listener} : sock'[s] = sock[s]
      /\ sock'[Listener].life = "deleted"
  <2>1. sock \in [Pollables -> SockRow]
    BY DEF MSInv, TypesOK
  <2> QED
    BY <1>1, <1>3, <2>1 DEF SockRow, Life
<1>5. TableOK(table') /\ SlotsOwned' /\ KernelOwned'
  BY <1>1, <1>2, <1>3, <1>4, OwnerLeaves
<1>6. \A d \in Clients : sock'[d] = sock[d]
  BY <1>1, <1>4
<1>7. \A d \in Clients : ClientOK(d)'
  BY <1>3, <1>6 DEF MSInv, ClientOK, Alive
<1>8. BacklogOK'
  <2>1. \A j \in 1 .. Len(backlog) : backlog[j] \in Clients
    BY DEF MSInv, BacklogOK
  <2>2. \A j \in 1 .. Len(backlog) : sock'[backlog[j]] = sock[backlog[j]]
    BY <1>6, <2>1
  <2>3. BacklogOK
    BY DEF MSInv
  <2>4. backlog' = backlog /\ client' = client
    BY <1>3
  <2>5. \A c \in Clients : client'[c] = "idle" => sock'[c].life = "none"
    BY <1>6, <2>3, <2>4 DEF BacklogOK
  <2> QED
    BY <2>2, <2>3, <2>4, <2>5 DEF BacklogOK
<1>9. WalkOK' /\ StartOK'
  BY <1>2, <1>3 DEF MSInv, WalkOK, StartOK
<1>10. TypesOK'
  BY <1>1, <1>3, <1>4 DEF MSInv, TypesOK
<1> QED
  BY <1>3, <1>5, <1>7, <1>8, <1>9, <1>10 DEF MSInv

(* One connection of the backlog vanishes.                                   *)
LEMMA Removed ==
  ASSUME NEW S, NEW q \in Seq(S), NEW i \in 1 .. Len(q), NEW r, r = RemoveAt(q, i)
  PROVE  /\ r \in Seq(S) /\ Len(r) = Len(q) - 1
         /\ \A j \in 1 .. Len(r) : r[j] = q[IF j < i THEN j ELSE j + 1]
<1>1. Len(q) \in Nat /\ i \in Nat /\ i >= 1 /\ i <= Len(q)
  OBVIOUS
<1> DEFINE x == SubSeq(q, 1, i - 1)
           y == SubSeq(q, i + 1, Len(q))
<1>2. x \in Seq(S) /\ Len(x) = i - 1 /\ \A j \in 1 .. Len(x) : x[j] = q[j]
  <2>1. \A j \in 1 .. (i - 1) : q[j] \in S
    BY <1>1
  <2> QED
    BY <1>1, <2>1, SubSeqProperties
<1>3. y \in Seq(S) /\ Len(y) = Len(q) - i /\ \A j \in 1 .. Len(y) : y[j] = q[j + i]
  <2>1. \A j \in (i + 1) .. Len(q) : q[j] \in S
    BY <1>1
  <2> QED
    BY <1>1, <2>1, SubSeqProperties
<1>4. r = x \o y
  BY DEF RemoveAt
<1> HIDE DEF x, y
<1>5. /\ r \in Seq(S) /\ Len(r) = Len(x) + Len(y)
      /\ \A j \in 1 .. Len(x) + Len(y) : r[j] = IF j <= Len(x) THEN x[j] ELSE y[j - Len(x)]
  <2>1. r \in Seq(S)
    BY <1>2, <1>3, <1>4, ConcatProperties
  <2>2. Len(r) = Len(x) + Len(y)
    BY <1>2, <1>3, <1>4, ConcatProperties
  <2>3. \A j \in 1 .. Len(x) + Len(y) : r[j] = IF j <= Len(x) THEN x[j] ELSE y[j - Len(x)]
    BY <1>2, <1>3, <1>4
  <2> QED
    BY <2>1, <2>2, <2>3
<1>6. ASSUME NEW j \in 1 .. Len(r) PROVE r[j] = q[IF j < i THEN j ELSE j + 1]
  BY <1>1, <1>2, <1>3, <1>5
<1> QED
  BY <1>1, <1>2, <1>3, <1>5, <1>6

(* The clients, of whom the service knows nothing yet.                       *)
LEMMA ClientsInv ==
  ASSUME MSInv, NEW c \in Clients, Connect(c) \/ Send(c) \/ HangUp(c)
  PROVE  MSInv'
<1>1. UNCHANGED <<pollVars, provider, sock, pending, touched, died, conn, got>>
  BY DEF Connect, Send, HangUp
<1>2. KernelOwned' /\ SlotsOwned'
  BY <1>1, OwnedKept DEF pollVars
<1>3. WalkOK' /\ StartOK' /\ TableOK(table')
  BY <1>1 DEF MSInv, WalkOK, StartOK, Alive, pollVars
<1>4. TypesOK /\ BacklogOK /\ \A d \in Clients : ClientOK(d)
  BY DEF MSInv
<1>5. TypesOK'
  BY <1>1, <1>4 DEF Connect, Send, HangUp, TypesOK, Words
<1>6. ASSUME NEW d \in Clients PROVE ClientOK(d)'
  <2>1. CASE Connect(c) \/ HangUp(c)
    BY <1>1, <1>4, <2>1 DEF Connect, HangUp, ClientOK, Alive, TypesOK
  <2>2. CASE Send(c)
    BY <1>1, <1>4, <2>2 DEF Send, ClientOK, Alive, TypesOK
  <2> QED
    BY <2>1, <2>2
<1>7. BacklogOK'
  <2>1. CASE Connect(c)
    <3>1. c \in Clients /\ client[c] = "idle" /\ sock[c].life = "none"
          /\ \A j \in 1 .. Len(backlog) : backlog[j] # c
      BY <1>4, <2>1 DEF Connect, BacklogOK
    <3>2. /\ backlog' \in Seq(Clients) /\ Len(backlog') = Len(backlog) + 1
          /\ Len(backlog) \in Nat
          /\ \A j \in 1 .. Len(backlog) : backlog'[j] = backlog[j]
          /\ backlog'[Len(backlog')] = c
      BY <1>4, <2>1 DEF Connect, BacklogOK
    <3>3. client'[c] = "connected" /\ \A d \in Clients : d # c => client'[d] = client[d]
      BY <1>4, <2>1 DEF Connect, TypesOK
    <3>4. \A j \in 1 .. Len(backlog') :
            j \in 1 .. Len(backlog) \/ j = Len(backlog')
      BY <3>2
    <3>5. \A j \in 1 .. Len(backlog) : backlog[j] \in Clients
      BY <1>4 DEF BacklogOK
    <3>6. ASSUME NEW i \in 1 .. Len(backlog'), NEW j \in 1 .. Len(backlog'),
                 backlog'[i] = backlog'[j]
          PROVE  i = j
      BY <1>4, <3>1, <3>2, <3>4, <3>6 DEF BacklogOK
    <3>7. ASSUME NEW i \in 1 .. Len(backlog')
          PROVE  sock'[backlog'[i]].life = "none" /\ client'[backlog'[i]] # "idle"
      <4>1. CASE i \in 1 .. Len(backlog)
        <5>1. backlog'[i] = backlog[i] /\ backlog[i] \in Clients /\ backlog[i] # c
              /\ sock[backlog[i]].life = "none" /\ client[backlog[i]] # "idle"
          BY <1>4, <3>1, <3>2, <3>5, <4>1 DEF BacklogOK
        <5> QED
          BY <1>1, <3>3, <5>1
      <4>2. CASE i = Len(backlog')
        <5>1. backlog'[i] = c
          BY <3>2, <4>2
        <5>2. client'[c] # "idle" /\ sock'[c].life = "none"
          BY <1>1, <3>1, <3>3
        <5> QED
          BY <5>1, <5>2
      <4> QED
        BY <3>4, <4>1, <4>2
    <3>8. \A d \in Clients : client'[d] = "idle" => sock'[d].life = "none"
      BY <1>1, <1>4, <3>3 DEF BacklogOK
    <3> QED
      BY <3>2, <3>6, <3>7, <3>8 DEF BacklogOK
  <2>2. CASE Send(c)
    BY <1>1, <1>4, <2>2 DEF Send, BacklogOK
  <2>3. CASE HangUp(c)
    <3>1. client'[c] = "closed" /\ \A d \in Clients : d # c => client'[d] = client[d]
      BY <1>4, <2>3 DEF HangUp, TypesOK
    <3>2. \A d \in Clients : client'[d] = "idle" => client[d] = "idle"
      BY <3>1
    <3>3. CASE backlog' = backlog
      BY <1>1, <1>4, <3>1, <3>2, <3>3 DEF BacklogOK
    <3>4. CASE \E i \in DOMAIN backlog : backlog[i] = c /\ backlog' = RemoveAt(backlog, i)
      <4>1. PICK i \in 1 .. Len(backlog) : backlog' = RemoveAt(backlog, i)
        BY <1>4, <3>4 DEF BacklogOK
      <4>2. backlog \in Seq(Clients) /\ Len(backlog) \in Nat
        BY <1>4 DEF BacklogOK
      <4>3. /\ backlog' \in Seq(Clients) /\ Len(backlog') = Len(backlog) - 1
            /\ \A j \in 1 .. Len(backlog') : backlog'[j] = backlog[IF j < i THEN j ELSE j + 1]
        BY <4>1, <4>2, Removed
      <4>4. \A j \in 1 .. Len(backlog') : (IF j < i THEN j ELSE j + 1) \in 1 .. Len(backlog)
        BY <4>2, <4>3
      <4>5. \A j \in 1 .. Len(backlog') :
              sock'[backlog'[j]].life = "none" /\ client'[backlog'[j]] # "idle"
        <5>1. \A j \in 1 .. Len(backlog) :
                backlog[j] \in Clients /\ sock[backlog[j]].life = "none"
                /\ client[backlog[j]] # "idle"
          BY <1>4 DEF BacklogOK
        <5> QED
          BY <1>1, <3>2, <4>3, <4>4, <5>1
      <4>6. ASSUME NEW j \in 1 .. Len(backlog'), NEW k \in 1 .. Len(backlog'),
                   backlog'[j] = backlog'[k]
            PROVE  j = k
        <5>1. (IF j < i THEN j ELSE j + 1) = (IF k < i THEN k ELSE k + 1)
          <6>1. \A m, n \in 1 .. Len(backlog) : backlog[m] = backlog[n] => m = n
            BY <1>4 DEF BacklogOK
          <6>2. backlog[IF j < i THEN j ELSE j + 1] = backlog[IF k < i THEN k ELSE k + 1]
            BY <4>3, <4>6
          <6> QED
            BY <4>4, <6>1, <6>2
        <5> QED
          BY <4>2, <4>3, <5>1
      <4> QED
        BY <1>1, <1>4, <3>2, <4>3, <4>5, <4>6 DEF BacklogOK
    <3> QED
      BY <2>3, <3>3, <3>4 DEF HangUp
  <2> QED
    BY <2>1, <2>2, <2>3
<1> QED
  BY <1>1, <1>2, <1>3, <1>5, <1>6, <1>7 DEF MSInv

(* The invariant is inductive.                                               *)
LEMMA StepInv ==
  ASSUME MSInv, [MSNext]_msVars
  PROVE  MSInv'
<1>1. CASE StartListener
  BY <1>1, StartInv
<1>2. CASE LoopStep
  <2>1. provider = "servicing" /\ UNCHANGED serviceVars
    BY <1>2 DEF LoopStep
  <2>2. CASE Poll(Readable, Writable)
    BY <2>1, <2>2, PollInv
  <2>3. CASE EnterLoop \/ LeaveLoop \/ TakeSlot \/ NoWrite \/ EndWalk
    BY <2>1, <2>3, WalkInv
  <2> QED
    BY <1>2, <2>2, <2>3 DEF LoopStep
<1>3. CASE Accept
  BY <1>3, AcceptInv
<1>4. CASE AcceptFails
  BY <1>4, AcceptFailsInv
<1>5. CASE AcceptWouldBlock
  BY <1>5, PhantomInv
<1>6. ASSUME NEW s \in Clients, SocketStep(s)
      PROVE  MSInv'
  BY <1>6, ReadEndInv, ReadInv, WriteInv, WriteAllInv DEF SocketStep
<1>7. CASE Finish
  BY <1>7, FinishInv
<1>8. ASSUME NEW c \in Clients, Connect(c) \/ Send(c) \/ HangUp(c)
      PROVE  MSInv'
  BY <1>8, ClientsInv
<1>9. ASSUME NEW s \in Clients, HandleMixerResponse(s)
      PROVE  MSInv'
  BY <1>9, ResponseInv
<1>10. CASE Stop \/ UNCHANGED msVars
  <2>1. UNCHANGED <<table, current, cursor, step, provider, sock, pending, touched, conn, backlog,
                    client, said, wire>>
    BY <1>10 DEF Stop, msVars, pollVars, serviceVars
  <2>2. KernelOwned' /\ SlotsOwned'
    BY <2>1, OwnedKept
  <2>3. \A c \in Clients : ClientOK(c)'
    BY <2>1 DEF MSInv, ClientOK, Alive
  <2>4. BacklogOK' /\ WalkOK' /\ StartOK' /\ TypesOK' /\ TableOK(table')
    BY <2>1 DEF MSInv, BacklogOK, WalkOK, StartOK, TypesOK, Alive
  <2> QED
    BY <2>1, <2>2, <2>3, <2>4 DEF MSInv
<1> QED
  BY <1>1, <1>2, <1>3, <1>4, <1>5, <1>6, <1>7, <1>8, <1>9, <1>10 DEF MSNext, ServiceThread

(* The sockets, the slots of the poll server and the kernel's descriptors    *)
(* belong together at every step.                                            *)
THEOREM ServiceInvariant == MSSpec => []MSInv
<1>1. MSInit => MSInv
  BY InitInv
<1>2. MSInv /\ [MSNext]_msVars => MSInv'
  BY StepInv
<1> QED
  BY <1>1, <1>2, PTL DEF MSSpec

-----------------------------------------------------------------------------
(* Every open descriptor has one living socket, every living socket but the  *)
(* one made for -1 an open descriptor, and every registration is the only    *)
(* one of a living socket: with any number of clients that connect, hang up  *)
(* and are answered while the arrays are walked.                             *)
THEOREM Owned == MSSpec => []DescriptorsOwned
<1>1. ASSUME MSInv PROVE DescriptorsOwned
  <2>1. TableOK(table) /\ SlotsOwned /\ KernelOwned
    BY <1>1 DEF MSInv
  <2>2. Fds \subseteq Nat /\ NoFd \notin Fds
    BY MixerServiceAssumption DEF NoFd
  <2>3. ASSUME NEW fd \in Fds \ Free
        PROVE  Cardinality({s \in Pollables : Alive(s) /\ sock[s].fd = fd}) = 1
    <3>1. conn[fd] \in Pollables \ {Phantom} /\ Alive(conn[fd]) /\ sock[conn[fd]].fd = fd
      BY <2>1 DEF KernelOwned
    <3>2. ASSUME NEW s \in Pollables, Alive(s), sock[s].fd = fd PROVE s = conn[fd]
      <4>1. s # Phantom
        BY <2>1, <2>2, <3>2 DEF KernelOwned
      <4> QED
        BY <2>1, <3>2, <4>1 DEF KernelOwned
    <3>3. {s \in Pollables : Alive(s) /\ sock[s].fd = fd} = {conn[fd]}
      BY <3>1, <3>2
    <3> QED
      BY <3>3, FS_Singleton
  <2>4. \A s \in Pollables \ {Phantom} : Alive(s) => conn[sock[s].fd] = s
    BY <2>1 DEF KernelOwned
  <2>5. ASSUME NEW i \in 1 .. table.num
        PROVE  /\ Alive(table.slots[i].owner)
               /\ sock[table.slots[i].owner].fd = table.slots[i].fd
               /\ LastIndexOf(table, table.slots[i].fd) = i
    BY <2>1, FoundAt DEF SlotsOwned
  <2> QED
    BY <2>3, <2>4, <2>5 DEF DescriptorsOwned
<1> QED
  BY <1>1, ServiceInvariant, PTL

(* No callback uses a deleted socket, neither the walk of the poll server    *)
(* nor the response another thread brings after the client has hung up.      *)
THEOREM UsedAlive == MSSpec => []NothingUsedAfterDelete
<1>1. ASSUME MSInv PROVE NothingUsedAfterDelete
  <2>1. \A p \in Pollables : ReadDue(p) \/ WriteDue(p) => Alive(p)
    BY <1>1, DueOwner
  <2> QED
    BY <1>1, <2>1 DEF MSInv, NothingUsedAfterDelete
<1> QED
  BY <1>1, ServiceInvariant, PTL

(* The pollable that is called is registered for the descriptor the event    *)
(* was found on, although slots move while HandleRead runs.                  *)
THEOREM EventsReach == MSSpec => []EventReachesItsDescriptor
<1>1. ASSUME MSInv PROVE EventReachesItsDescriptor
  BY <1>1, DueOwner DEF EventReachesItsDescriptor
<1> QED
  BY <1>1, ServiceInvariant, PTL
=============================================================================
