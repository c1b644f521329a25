---------------------------- MODULE MixerService ----------------------------
(* The mixer service (socket_mixer_service.cc) on its poll server: a         *)
(* listener accepts clients, a MixerSocket per client reads one query line,  *)
(* hands it to MixerRequestHandler::Execute and writes the response, which   *)
(* another thread may bring at any time, then deletes itself.                *)
(*                                                                           *)
(* A client is an editor that connects once and sends one line, in one or    *)
(* two pieces; it may hang up at any moment.  A client also names the        *)
(* MixerSocket made for it.  Descriptors are small numbers the kernel gives  *)
(* out again once closed.                                                    *)
EXTENDS PollServer, SequencesExt

CONSTANTS Clients,        \* the editors
          Listener,       \* the ListenerSocket
          Phantom,        \* a MixerSocket made for accept's -1
          NoOne,          \* the peer of a free descriptor
          Fds,            \* the descriptors the process can have
          InitialFds,     \* the capacity PollServer is created with
          ResponseUnits   \* a response is written in at most so many pieces

ASSUME MixerServiceAssumption ==
  /\ Pollables = Clients \cup {Listener, Phantom}
  /\ Listener \notin Clients /\ Phantom \notin Clients /\ Listener # Phantom
  /\ NoOne \notin Pollables
  /\ Fds \subseteq Nat
  /\ InitialFds \in Nat \ {0} /\ ResponseUnits \in Nat \ {0}

VARIABLES
  provider,  \* the place in Start
  sock,      \* the sockets: life, fd_, inbuf_, and outbuf_ by its length
  pending,   \* the sockets whose response callback Execute keeps
  touched,   \* the sockets a callback used after their deletion
  died,      \* a CHECK ended the process
  conn,      \* kernel: the peer of each open descriptor
  backlog,   \* kernel: the connections not accepted yet
  client,    \* each client: idle, connected or closed
  said,      \* what each client has sent: nothing, part of a line, the line
  wire,      \* what of it was not received yet
  got        \* the response units each client received, by socket

serviceVars == <<provider, sock, pending, touched, died, conn, backlog,
                 client, said, wire, got>>
msVars == <<pollVars, serviceVars>>

Life == {"none", "alive", "deleted"}
Alive(s) == sock[s].life = "alive"

(* Clients make the run end when a CHECK fails.                              *)
Running == ~died

NewSocket(fd) == [life |-> "alive", fd |-> fd, inbuf |-> "nothing", outbuf |-> 0]

-----------------------------------------------------------------------------
MSInit ==
  /\ PollInit(InitialFds)
  /\ provider = "created"
  /\ sock = [s \in Pollables |-> [NewSocket(NoFd) EXCEPT !.life = "none"]]
  /\ pending = {}
  /\ touched = {}
  /\ died = FALSE
  /\ conn = [fd \in Fds |-> NoOne]
  /\ backlog = <<>>
  /\ client = [c \in Clients |-> "idle"]
  /\ said = [c \in Clients |-> "nothing"]
  /\ wire = [c \in Clients |-> "nothing"]
  /\ got = [c \in Clients |-> <<>>]

Free == {fd \in Fds : conn[fd] = NoOne}

(* The kernel hands out the lowest free descriptor.                          *)
Lowest(fd) == fd \in Free /\ \A other \in Free : fd <= other

(* ListenerSocket::Create; pollserver_ and servicing_ are set after it.      *)
StartListener ==
  /\ provider = "created"
  /\ \E fd \in Fds :
       /\ Lowest(fd)
       /\ conn' = [conn EXCEPT ![fd] = Listener]
       /\ sock' = [sock EXCEPT ![Listener] = NewSocket(fd)]
       /\ table' = Register(table, Listener, fd)
  /\ provider' = "servicing"
  /\ UNCHANGED <<current, cursor, todo, hadEvent, step, loop, pending,
                 touched, died, backlog, client, said, wire, got>>

(* Clients ------------------------------------------------------------------*)
Connect(c) ==
  /\ provider = "servicing"
  /\ client[c] = "idle"
  /\ client' = [client EXCEPT ![c] = "connected"]
  /\ backlog' = Append(backlog, c)
  /\ UNCHANGED <<pollVars, provider, sock, pending, touched, died, conn, said,
                 wire, got>>

Send(c) ==
  /\ client[c] = "connected"
  /\ said[c] # "line"
  /\ \E piece \in {"part", "line"} :
       /\ piece # said[c]
       /\ said' = [said EXCEPT ![c] = piece]
       /\ wire' = [wire EXCEPT ![c] = piece]
  /\ UNCHANGED <<pollVars, provider, sock, pending, touched, died, conn,
                 backlog, client, got>>

(* A client that hangs up before it is accepted may vanish from the backlog  *)
(* (accept(2)) or stay there.                                                *)
HangUp(c) ==
  /\ client[c] = "connected"
  /\ client' = [client EXCEPT ![c] = "closed"]
  /\ \/ UNCHANGED backlog
     \/ \E i \in DOMAIN backlog : backlog[i] = c /\ backlog' = RemoveAt(backlog, i)
  /\ UNCHANGED <<pollVars, provider, sock, pending, touched, died, conn, said,
                 wire, got>>

(* ListenerSocket::HandleRead ------------------------------------------------*)
Accept ==
  /\ ReadDue(Listener)
  /\ backlog # <<>>
  /\ \E fd \in Fds :
       /\ Lowest(fd)
       /\ conn' = [conn EXCEPT ![fd] = Head(backlog)]
       /\ sock' = [sock EXCEPT ![Head(backlog)] = NewSocket(fd)]
       /\ table' = Register(table, Head(backlog), fd)
  /\ backlog' = Tail(backlog)
  /\ AfterRead
  /\ UNCHANGED <<loop, provider, pending, touched, died, client, said, wire, got>>

(* accept fails for want of a descriptor, or because the connection was      *)
(* aborted: the early return.                                                *)
AcceptFails ==
  /\ ReadDue(Listener)
  /\ backlog # <<>>
  /\ Free = {} \/ client[Head(backlog)] = "closed"
  /\ backlog' = IF Free = {} THEN backlog ELSE Tail(backlog)
  /\ AfterRead
  /\ UNCHANGED <<table, loop, provider, sock, pending, touched, died, conn,
                 client, said, wire, got>>

(* accept would block: the early return is skipped and a socket is made for  *)
(* descriptor -1.                                                            *)
AcceptWouldBlock ==
  /\ ReadDue(Listener)
  /\ backlog = <<>>
  /\ sock' = [sock EXCEPT ![Phantom] = NewSocket(NoFd)]
  /\ table' = Register(table, Phantom, NoFd)
  /\ AfterRead
  /\ UNCHANGED <<loop, provider, pending, touched, died, conn, backlog,
                 client, said, wire, got>>

(* ConnectedSocket::HandleRead ----------------------------------------------*)
Peer(s) == conn[sock[s].fd]

Received(s) == IF wire[Peer(s)] = "nothing" THEN sock[s].inbuf ELSE wire[Peer(s)]

(* Mutant of ReadEnd: the disconnected socket deletes itself.                *)
ReadEndDeletes(s) ==
  /\ ReadDue(s)
  /\ client[Peer(s)] = "closed"
  /\ conn' = [conn EXCEPT ![sock[s].fd] = NoOne]
  /\ sock' = [sock EXCEPT ![s].life = "deleted"]
  /\ wire' = [wire EXCEPT ![Peer(s)] = "nothing"]
  /\ table' = Unregister(table, s, sock[s].fd)
  /\ died' = ~MayUnregister(sock[s].fd)
  /\ AfterRead
  /\ UNCHANGED <<loop, provider, pending, touched, backlog, client, said, got>>

(* recv reports the end of the stream: the socket is unregistered, and       *)
(* HandleDisconnected, which MixerSocket does not override, leaves it.       *)
ReadEnd(s) ==
  /\ ReadDue(s)
  /\ client[Peer(s)] = "closed"
  /\ sock' = [sock EXCEPT ![s].inbuf = Received(s)]
  /\ wire' = [wire EXCEPT ![Peer(s)] = "nothing"]
  /\ table' = Unregister(table, s, sock[s].fd)
  /\ died' = ~MayUnregister(sock[s].fd)
  /\ AfterRead
  /\ UNCHANGED <<loop, provider, pending, touched, conn, backlog, client,
                 said, got>>

(* recv reports an error other than EWOULDBLOCK: nothing else is done.       *)
ReadFails(s) ==
  /\ ReadDue(s)
  /\ client[Peer(s)] = "closed"
  /\ sock' = [sock EXCEPT ![s].inbuf = Received(s)]
  /\ wire' = [wire EXCEPT ![Peer(s)] = "nothing"]
  /\ AfterRead
  /\ UNCHANGED <<table, loop, provider, pending, touched, died, conn, backlog,
                 client, said, got>>

(* HandleReceived: nothing is done before the line is complete.  The line    *)
(* loses its '\n' and goes to Execute, which responds at once or later.      *)
ReadMore(s) ==
  /\ ReadDue(s)
  /\ s \in Clients
  /\ client[Peer(s)] = "connected"
  /\ wire' = [wire EXCEPT ![Peer(s)] = "nothing"]
  /\ IF Received(s) # "line"
     THEN /\ sock' = [sock EXCEPT ![s].inbuf = Received(s)]
          /\ UNCHANGED pending
     ELSE \/ /\ sock' = [sock EXCEPT ![s].inbuf = "executed"]
             /\ pending' = pending \cup {s}
          \/ /\ sock' = [sock EXCEPT ![s].inbuf = "executed",
                                     ![s].outbuf = @ + ResponseUnits]
             /\ UNCHANGED pending
  /\ AfterRead
  /\ UNCHANGED <<table, loop, provider, touched, died, conn, backlog, client,
                 said, got>>

(* HandleMixerResponse, on the thread of the last RPC to report.             *)
HandleMixerResponse(s) ==
  /\ s \in pending
  /\ pending' = pending \ {s}
  /\ IF Alive(s)
     THEN /\ sock' = [sock EXCEPT ![s].outbuf = @ + ResponseUnits]
          /\ UNCHANGED touched
     ELSE /\ touched' = touched \cup {s}
          /\ UNCHANGED sock
  /\ UNCHANGED <<pollVars, provider, died, conn, backlog, client, said, wire, got>>

(* ConnectedSocket::HandleWrite ---------------------------------------------*)
Deliver(s, n) ==
  got' = [got EXCEPT ![Peer(s)] = IF client[Peer(s)] = "closed" THEN @
                                  ELSE @ \o [i \in 1 .. n |-> s]]

NothingToWrite(s) ==
  /\ WriteDue(s)
  /\ Alive(s)
  /\ sock[s].outbuf = 0
  /\ AfterWrite
  /\ UNCHANGED <<table, loop, serviceVars>>

(* Mutant of WritePart: what was not written is forgotten too.               *)
WritePartClears(s) ==
  /\ WriteDue(s)
  /\ Alive(s)
  /\ \E n \in 1 .. sock[s].outbuf - 1 :
       /\ sock' = [sock EXCEPT ![s].outbuf = 0]
       /\ Deliver(s, n)
  /\ AfterWrite
  /\ UNCHANGED <<table, loop, provider, pending, touched, died, conn, backlog,
                 client, said, wire>>

(* write takes a part, or fails on a connection the peer has closed.         *)
WritePart(s) ==
  /\ WriteDue(s)
  /\ Alive(s)
  /\ \E n \in 0 .. sock[s].outbuf - 1 :
       /\ n = 0 => client[Peer(s)] = "closed"
       /\ sock' = [sock EXCEPT ![s].outbuf = @ - n]
       /\ Deliver(s, n)
  /\ AfterWrite
  /\ UNCHANGED <<table, loop, provider, pending, touched, died, conn, backlog,
                 client, said, wire>>

(* Mutant of WriteAll: HandleSent deletes the socket without closing it.     *)
WriteAllNoClose(s) ==
  /\ WriteDue(s)
  /\ Alive(s)
  /\ sock[s].outbuf > 0
  /\ Deliver(s, sock[s].outbuf)
  /\ table' = Unregister(table, s, sock[s].fd)
  /\ died' = ~MayUnregister(sock[s].fd)
  /\ sock' = [sock EXCEPT ![s].life = "deleted", ![s].fd = NoFd, ![s].outbuf = 0]
  /\ AfterWrite
  /\ UNCHANGED <<loop, conn, provider, pending, touched, backlog, client,
                 said, wire>>

(* The last byte is out: HandleSent closes the descriptor, unregisters and   *)
(* deletes the socket.                                                       *)
WriteAll(s) ==
  /\ WriteDue(s)
  /\ Alive(s)
  /\ sock[s].outbuf > 0
  /\ Deliver(s, sock[s].outbuf)
  /\ conn' = [conn EXCEPT ![sock[s].fd] = NoOne]
  /\ table' = Unregister(table, s, sock[s].fd)
  /\ died' = ~MayUnregister(sock[s].fd)
  /\ sock' = [sock EXCEPT ![s].life = "deleted", ![s].fd = NoFd, ![s].outbuf = 0]
  /\ AfterWrite
  /\ UNCHANGED <<loop, provider, pending, touched, backlog, client, said,
                 wire>>

(* Start and Stop ------------------------------------------------------------*)
Stop ==
  /\ provider = "servicing"
  /\ ForceLoopExit
  /\ UNCHANGED <<table, current, cursor, todo, hadEvent, step, provider, sock,
                 pending, touched, died, conn, backlog, client, said, wire,
                 got>>

(* After Loop: the listener is deleted, then the poll server, whose          *)
(* destructor CHECKs that nothing is registered any more.                    *)
Finish ==
  /\ provider = "servicing"
  /\ step = "left"
  /\ provider' = "returned"
  /\ conn' = [conn EXCEPT ![sock[Listener].fd] = NoOne]
  /\ sock' = [sock EXCEPT ![Listener].life = "deleted", ![Listener].fd = NoFd]
  /\ table' = Unregister(table, Listener, sock[Listener].fd)
  /\ died' = (~MayUnregister(sock[Listener].fd) \/ table'.num # 0)
  /\ UNCHANGED <<current, cursor, todo, hadEvent, step, loop, pending,
                 touched, backlog, client, said, wire, got>>

-----------------------------------------------------------------------------
Readable == {fd \in Fds : \/ conn[fd] = Listener /\ backlog # <<>>
                          \/ /\ conn[fd] \in Clients
                             /\ \/ wire[conn[fd]] # "nothing"
                                \/ client[conn[fd]] = "closed"}
Writable == {fd \in Fds : conn[fd] \in Clients}

LoopStep ==
  /\ provider = "servicing"
  /\ \/ EnterLoop \/ LeaveLoop
     \/ Poll(Readable, Writable) \/ TakeSlot \/ NoWrite \/ EndWalk
  /\ UNCHANGED serviceVars

SocketStep(s) ==
  \/ ReadEnd(s) \/ ReadFails(s) \/ ReadMore(s)
  \/ NothingToWrite(s) \/ WritePart(s) \/ WriteAll(s)

ServiceThread ==
  \/ StartListener
  \/ LoopStep
  \/ Accept \/ AcceptFails \/ AcceptWouldBlock
  \/ \E s \in Clients : SocketStep(s)
  \/ Finish

MSNext ==
  /\ Running
  /\ \/ ServiceThread
     \/ \E c \in Clients : Connect(c) \/ Send(c) \/ HangUp(c)
     \/ \E s \in Clients : HandleMixerResponse(s)
     \/ Stop

MSSpec == MSInit /\ [][MSNext]_msVars

(* The service thread is scheduled.  No client has to do anything, no        *)
(* response has to come.                                                     *)
MSFairSpec == MSSpec /\ WF_msVars(Running /\ ServiceThread)

-----------------------------------------------------------------------------
(* Type correctness: what every field may hold; the arrays never hold more   *)
(* registrations than they have room for.                                    *)
MSTypeOK ==
  /\ table.num \in 0 .. Len(table.slots)
  /\ \A i \in 1 .. table.num : /\ table.slots[i].fd \in Fds \cup {NoFd}
                                /\ table.slots[i].owner \in Pollables
  /\ current \in Fds \cup {NoFd}
  /\ cursor \in Nat /\ todo \in Nat
  /\ hadEvent \in BOOLEAN /\ loop \in BOOLEAN /\ died \in BOOLEAN
  /\ step \in {"idle", "test", "slot", "in", "out", "left"}
  /\ provider \in {"created", "servicing", "returned"}
  /\ sock \in [Pollables -> [life : Life, fd : Fds \cup {NoFd},
                             inbuf : {"nothing", "part", "line", "executed"},
                             outbuf : 0 .. ResponseUnits]]
  /\ pending \subseteq Clients /\ touched \subseteq Clients
  /\ conn \in [Fds -> Clients \cup {Listener, NoOne}]
  /\ client \in [Clients -> {"idle", "connected", "closed"}]

(* Every open descriptor has one living socket and every living socket, but  *)
(* the one made for -1, an open descriptor; every registration is the one of *)
(* a living socket under its own descriptor, and no descriptor has two.      *)
(* Sockets that delete themselves while the arrays are walked, and a kernel  *)
(* that gives their descriptors out again, could each break it.              *)
DescriptorsOwned ==
  /\ \A fd \in Fds \ Free :
       Cardinality({s \in Pollables : Alive(s) /\ sock[s].fd = fd}) = 1
  /\ \A s \in Pollables \ {Phantom} : Alive(s) => conn[sock[s].fd] = s
  /\ \A i \in 1 .. table.num : /\ Alive(table.slots[i].owner)
                                /\ sock[table.slots[i].owner].fd = table.slots[i].fd
                                /\ LastIndexOf(table, table.slots[i].fd) = i

(* A callback never uses a deleted socket: neither the poll server's walk,   *)
(* nor the response that another thread brings after the client has hung up. *)
NothingUsedAfterDelete ==
  /\ touched = {}
  /\ \A p \in Pollables : ReadDue(p) \/ WriteDue(p) => Alive(p)

(* An event found by poll reaches the descriptor it was found on: after      *)
(* HandleRead has moved slots about, HandleWrite is not called for another   *)
(* pollable that now stands in the slot.                                     *)
EventReachesItsDescriptor ==
  \A p \in Pollables : ReadDue(p) \/ WriteDue(p) => table.slots[cursor].fd = current

Stopped == step # "idle" /\ ~loop

(* A complete line of a client that stays is executed, whatever the other    *)
(* clients do, unless the service is stopped.                                *)
LineExecuted ==
  \A c \in Clients :
    said[c] = "line" ~> \/ sock[c].inbuf = "executed"
                        \/ client[c] = "closed"
                        \/ Stopped

(* A response that reached its socket is received by that socket's client,   *)
(* whole and once, also when write takes only a part of it.                  *)
ResponseDelivered ==
  \A c \in Clients :
    sock[c].outbuf > 0 ~> \/ got[c] = [i \in 1 .. ResponseUnits |-> c]
                          \/ client[c] = "closed"
                          \/ Stopped
=============================================================================
