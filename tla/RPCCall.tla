------------------------------- MODULE RPCCall -------------------------------
(* One RPC of the mixer to a tags server: SocketTagsServiceUser::GetTags     *)
(* (socket_tags_service.cc) creates a poll server and a ClientSocket         *)
(* (socket.cc) and leaves the loop to a thread of its own.  Once connected,  *)
(* the ClientSocket deletes itself and passes its descriptor to an           *)
(* RPCSocket, which sends the command, collects the reply until the server   *)
(* closes and then deletes itself.  ResultMixing takes from here that every  *)
(* RPC reports a result or a failure at most once.                           *)
EXTENDS PollServer

CONSTANTS CommandUnits,   \* the command is written in at most so many pieces
          ReplyUnits      \* the server sends at most so many pieces

Client == "client"   \* the ClientSocket
RPC == "rpc"         \* the RPCSocket
Fd == 0              \* the only descriptor

ASSUME RPCCallAssumption ==
  /\ {CommandUnits, ReplyUnits} \subseteq Nat \ {0}
  /\ Pollables = {Client, RPC}

(* The callbacks: the caller's DoneGetTags and RPCError, and the ones        *)
(* PerformRPC makes of RPCSocket::Create and RPCSocket::HandleError.  Each   *)
(* deletes itself when it has run.                                           *)
Callbacks == {"done", "error", "create", "handle_error"}

VARIABLES
  thread,    \* the caller, then the RPCWaiter: calling, looping, finished
  life,      \* the sockets: none, alive or deleted
  freed,     \* how often each callback was deleted or has run
  died,      \* a CHECK ended the process
  peer,      \* what has become of the connection on this side
  ended,     \* and on the server's: no, eof, reset, reset_seen
  unsent,    \* outbuf_ of the RPCSocket, by its length
  sent,      \* how much of the reply the server has sent
  wire,      \* how much of it was not received yet
  inbuf,     \* inbuf_ of the RPCSocket, by its length
  report     \* what the holder was told

netVars == <<peer, ended, sent, wire>>
callVars == <<thread, life, freed, died, netVars, unsent, inbuf, report>>
rpcVars == <<pollVars, callVars>>

None == [kind |-> "none", length |-> 0]
Result(n) == [kind |-> "result", length |-> n]
Failure == [kind |-> "failure", length |-> 0]

Open == peer \notin {"none", "closed"}

(* The callbacks in a set go, once more each.                                *)
Free(gone) == [c \in Callbacks |-> IF c \in gone THEN freed[c] + 1 ELSE freed[c]]

RPCInit ==
  /\ PollInit(1)
  /\ thread = "calling"
  /\ life = [s \in Pollables |-> "none"]
  /\ freed = [c \in Callbacks |-> 0]
  /\ died = FALSE
  /\ peer = "none" /\ ended = "no"
  /\ unsent = 0 /\ sent = 0 /\ wire = 0 /\ inbuf = 0
  /\ report = None

-----------------------------------------------------------------------------
(* The address is resolved: the ClientSocket registers its descriptor, and   *)
(* the loop becomes the thread's.                                            *)
PerformRPC ==
  /\ thread = "calling"
  /\ thread' = "looping"
  /\ life' = [life EXCEPT ![Client] = "alive"]
  /\ table' = Register(table, Client, Fd)
  /\ peer' = "fresh"
  /\ UNCHANGED <<current, cursor, todo, hadEvent, step, loop,
                 freed, died, unsent, ended, sent, wire, inbuf, report>>

(* It is not: the error is reported before PerformRPC returns NULL, and      *)
(* GetTags deletes the poll server.                                          *)
CannotResolve ==
  /\ thread = "calling"
  /\ thread' = "finished"
  /\ freed' = Free(Callbacks)
  /\ report' = Failure
  /\ died' = (table.num # 0)
  /\ ForceLoopExit
  /\ UNCHANGED <<table, current, cursor, todo, hadEvent, step, life, unsent,
                 inbuf, netVars>>

(* The kernel and the server -------------------------------------------------*)
Connecting == peer = "connecting" /\ UNCHANGED <<ended, sent, wire>>

Establish == Connecting /\ peer' = "established"

Refuse == Connecting /\ peer' = "refused"

Serving == peer \in {"established", "connected"} /\ ended = "no" /\ UNCHANGED peer

Reply ==
  /\ Serving
  /\ sent < ReplyUnits
  /\ sent' = sent + 1
  /\ wire' = wire + 1
  /\ UNCHANGED ended

Hangup == Serving /\ ended' = "eof" /\ UNCHANGED <<sent, wire>>

(* A reset loses what was not received.                                      *)
Reset == Serving /\ ended' = "reset" /\ wire' = 0 /\ UNCHANGED sent

Server ==
  /\ Establish \/ Refuse \/ Reply \/ Hangup \/ Reset
  /\ UNCHANGED <<pollVars, thread, life, freed, died, unsent, inbuf, report>>

(* ClientSocket::HandleWrite -------------------------------------------------*)
(* EINPROGRESS.                                                              *)
ConnectStarts ==
  /\ WriteDue(Client)
  /\ life[Client] = "alive"
  /\ peer = "fresh"
  /\ peer' = "connecting"
  /\ AfterWrite
  /\ UNCHANGED <<table, loop, thread, life, freed, died, unsent, ended, sent,
                 wire, inbuf, report>>

(* Mutant of Connected: RPCSocket::Create does not delete the error callback. *)
ConnectedKeepsError ==
  /\ WriteDue(Client)
  /\ life[Client] = "alive"
  /\ peer \in {"fresh", "established"} /\ ended # "reset"
  /\ peer' = "connected"
  /\ life' = [life EXCEPT ![Client] = "deleted", ![RPC] = "alive"]
  /\ freed' = Free({"create", "handle_error"})
  /\ unsent' = CommandUnits
  /\ table' = Unregister(Register(table, RPC, Fd), Client, Fd)
  /\ died' = ~MayUnregister(Fd)
  /\ AfterWrite
  /\ UNCHANGED <<loop, thread, ended, sent, wire, inbuf, report>>

(* connect succeeds and the ClientSocket deletes itself.  Its destructor     *)
(* creates the RPCSocket, whose registration takes over the slot, so that    *)
(* the Unregister of the base class finds another owner.                     *)
Connected ==
  /\ WriteDue(Client)
  /\ life[Client] = "alive"
  /\ peer \in {"fresh", "established"} /\ ended # "reset"
  /\ peer' = "connected"
  /\ life' = [life EXCEPT ![Client] = "deleted", ![RPC] = "alive"]
  /\ freed' = Free({"create", "error", "handle_error"})
  /\ unsent' = CommandUnits
  /\ table' = Unregister(Register(table, RPC, Fd), Client, Fd)
  /\ died' = ~MayUnregister(Fd)
  /\ AfterWrite
  /\ UNCHANGED <<loop, thread, ended, sent, wire, inbuf, report>>

(* connect fails: the destructor closes and unregisters, and the error       *)
(* callback reports the failure.                                             *)
ConnectFails ==
  /\ WriteDue(Client)
  /\ life[Client] = "alive"
  /\ peer \in {"fresh", "refused"} \/ ended = "reset"
  /\ peer' = "closed"
  /\ life' = [life EXCEPT ![Client] = "deleted"]
  /\ freed' = Free(Callbacks)
  /\ table' = Unregister(table, Client, Fd)
  /\ died' = ~MayUnregister(Fd)
  /\ report' = Failure
  /\ ForceLoopExit
  /\ AfterWrite
  /\ UNCHANGED <<thread, unsent, ended, sent, wire, inbuf>>

(* A ClientSocket has no HandleRead of its own.                              *)
ClientReads ==
  /\ ReadDue(Client)
  /\ life[Client] = "alive"
  /\ AfterRead
  /\ UNCHANGED <<table, loop, callVars>>

(* RPCSocket -----------------------------------------------------------------*)
Send ==
  /\ WriteDue(RPC)
  /\ life[RPC] = "alive"
  /\ \E n \in 0 .. unsent : unsent' = unsent - n
  /\ AfterWrite
  /\ UNCHANGED <<table, loop, thread, life, freed, died, inbuf, report,
                 netVars>>

(* recv ends with EWOULDBLOCK, or with the error of a reset connection,      *)
(* which is not reported: the next recv says the stream has ended.           *)
ReceiveMore ==
  /\ ReadDue(RPC)
  /\ life[RPC] = "alive"
  /\ ended \in {"no", "reset"}
  /\ ended' = IF ended = "reset" THEN "reset_seen" ELSE ended
  /\ inbuf' = inbuf + wire
  /\ wire' = 0
  /\ AfterRead
  /\ UNCHANGED <<table, loop, thread, life, freed, died, peer, unsent, sent,
                 report>>

(* Mutant of ReceiveEnd: the end of the stream is seen before the last data. *)
ReceiveEndEarly ==
  /\ ReadDue(RPC)
  /\ life[RPC] = "alive"
  /\ ended \in {"eof", "reset_seen"}
  /\ wire' = 0
  /\ UNCHANGED inbuf
  /\ peer' = "closed"
  /\ table' = Unregister(table, RPC, Fd)
  /\ died' = ~MayUnregister(Fd)
  /\ freed' = Free({"done"})
  /\ report' = Result(inbuf)
  /\ life' = [life EXCEPT ![RPC] = "deleted"]
  /\ ForceLoopExit
  /\ AfterRead
  /\ UNCHANGED <<thread, unsent, ended, sent>>

(* The stream ends: the RPCSocket unregisters, runs the done callback,       *)
(* deletes itself and closes.                                                *)
ReceiveEnd ==
  /\ ReadDue(RPC)
  /\ life[RPC] = "alive"
  /\ ended \in {"eof", "reset_seen"}
  /\ inbuf' = inbuf + wire
  /\ wire' = 0
  /\ peer' = "closed"
  /\ table' = Unregister(table, RPC, Fd)
  /\ died' = ~MayUnregister(Fd)
  /\ freed' = Free({"done"})
  /\ report' = Result(inbuf')
  /\ life' = [life EXCEPT ![RPC] = "deleted"]
  /\ ForceLoopExit
  /\ AfterRead
  /\ UNCHANGED <<thread, unsent, ended, sent>>

(* RPCWaiter::Run deletes the poll server after the loop.                    *)
Finish ==
  /\ thread = "looping"
  /\ step = "left"
  /\ thread' = "finished"
  /\ died' = (table.num # 0)
  /\ UNCHANGED <<pollVars, life, freed, unsent, inbuf, report, netVars>>

-----------------------------------------------------------------------------
Readable == IF Open /\ (peer = "refused" \/ ended # "no" \/ wire > 0)
            THEN {Fd} ELSE {}
Writable == IF Open /\ peer # "connecting" THEN {Fd} ELSE {}

LoopStep ==
  /\ thread = "looping"
  /\ \/ EnterLoop \/ LeaveLoop
     \/ Poll(Readable, Writable) \/ TakeSlot \/ NoWrite \/ EndWalk
  /\ UNCHANGED callVars

WaiterThread ==
  \/ PerformRPC \/ CannotResolve
  \/ LoopStep
  \/ ConnectStarts \/ Connected \/ ConnectFails \/ ClientReads
  \/ Send \/ ReceiveMore \/ ReceiveEnd
  \/ Finish

RPCNext == ~died /\ (WaiterThread \/ Server)

RPCSpec == RPCInit /\ [][RPCNext]_rpcVars

(* The thread is scheduled; the server need not do anything.                 *)
RPCFairSpec == RPCSpec /\ WF_rpcVars(~died /\ WaiterThread)

-----------------------------------------------------------------------------
(* Each of the four callbacks is run or deleted once: never twice, whatever  *)
(* way the call takes, and none is left when the thread ends.  So the holder *)
(* gets one report, and socket.h's promises that the callbacks "will be      *)
(* deleted automatically" hold.                                              *)
CallbacksFreedOnce ==
  \A c \in Callbacks : /\ freed[c] <= 1
                       /\ thread = "finished" => freed[c] = 1

(* No handler of a deleted socket runs although sockets delete themselves in *)
(* their handlers, and no CHECK of the poll server fails: the slot of the    *)
(* descriptor always belongs to the socket that lives, and it is empty when  *)
(* the poll server is deleted.                                               *)
NothingUsedAfterDelete ==
  /\ \A s \in Pollables : ReadDue(s) \/ WriteDue(s) => life[s] = "alive"
  /\ ~died

(* A reply that the server ends by closing is reported whole, however it was *)
(* cut up on its way and however little time the server left between the     *)
(* connection, the reply and the end (a reset connection promises nothing).  *)
WholeReply ==
  [][ended = "eof" /\ report' # report => report' = Result(sent)]_rpcVars

(* A call whose connection was refused, closed or reset is reported, and its *)
(* thread ends: the loop exit asked for inside a handler is not lost.        *)
EndedCallReports ==
  peer = "refused" \/ ended # "no" ~> report # None /\ thread = "finished"
=============================================================================
