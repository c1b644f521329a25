------------------------------- MODULE Session -------------------------------
(* One Python client (the TagsConnectionManager of gtags.py) against         *)
(* stand-alone tags servers (gtags.cc, socket_server.cc, tagsprofiler.cc),   *)
(* directly with failover, or through a mixer that asks the first of them.   *)
(* A server serves one connection after the other, on one thread, with one   *)
(* recv each and without a timeout; the client gives up after a while and    *)
(* goes on to the next server, or to its next try at the mixer.  Other       *)
(* clients of the servers come with requests of the old protocol, which may  *)
(* load tag files, or stay silent.  Servers may be killed and started again. *)
(*                                                                           *)
(* Abstracted: time is who gives up first (the 5 seconds of CONNECT_TIMEOUT  *)
(* and DATA_TIMEOUT); the mixer's sockets and threads, which MixerService,   *)
(* RPCCall and ResultMixing have.                                            *)
(* Bounds: the Users, MaxStrangers, MaxCrashes.                              *)
EXTENDS TagsProtocol, FiniteSets

CONSTANTS
  Hosts,          \* lang_to_server, in the order of add_server
  Users,          \* what users ask, without a mixer or with one
  StrangeTexts,   \* what other clients send, to each server
  Tables,         \* Tables[h]: the results in the tags file of a server
  LocalTable,     \* the results in the mixer's local index
  HeldTables,     \* all that a server's table may hold
  Garbage,        \* what memory may hold at the start from buf_ on, which is
                  \* not initialised, up to what cannot be read
  Backlog,        \* connections a server takes before it has served them
  kMaxTagLen,     \* Maximum length of a request
  Cuts,           \* where a request may come in two pieces
  MixerRetries,   \* MIXER_RETRIES
  MaxStrangers, MaxCrashes

IsText(text) == text \in Seq(Range(text)) /\ NUL \notin Range(text)

(* A line of the new protocol; the end of a line.                            *)
NewLine(text) == IsText(text) /\ text # <<>> /\ Head(text) = "("
EndsLine(text) == LET n == Len(text) IN n >= 2 /\ SubSeq(text, n - 1, n) = <<"\r", "\n">>

ASSUME SessionAssumption ==
  /\ Hosts \in Seq(Range(Hosts)) /\ Hosts # <<>> /\ IsInjective(Hosts)
  /\ {DOMAIN Tables, DOMAIN StrangeTexts, DOMAIN Garbage} = {Range(Hosts)}
  /\ {Backlog, kMaxTagLen, MixerRetries} \subseteq Nat \ {0}
  /\ {MaxStrangers, MaxCrashes} \subseteq Nat
  /\ Range(Tables) \subseteq HeldTables
  /\ \A held \in HeldTables : \A command \in Loading : \A new \in Range(TagFiles) :
       Loaded(command, new, held) \in HeldTables
  /\ \A u \in Users :
       /\ u.useMixer \in BOOLEAN /\ u.questions \in Seq(Range(u.questions))
       /\ \A q \in Range(u.questions) :
            NewLine(MakeCommand(q)) /\ (u.useMixer => q.command \notin Loading)
  /\ \A text \in UNION Range(StrangeTexts) : text = <<>> \/ (IsText(text) /\ EndsLine(text))
  /\ \A garbage \in UNION Range(Garbage) : garbage \in Seq(Range(garbage))

VARIABLES
  user,        \* what the user asks, one after the other, and whether use_mixer
               \* is set (and no proxy)
  manager,     \* current_server (an index), indexes, mixer_launched
  call,        \* the call: where it is, its connection, what came of it
  server,      \* each server: its connections, the memory from buf_ on, and
               \* its table, before the request (held) and now
  mixer,       \* the mixer: whether it runs, has a local index, its jobs
  strangers,   \* the open connections of other clients
  count,       \* how many calls, strangers, crashes
  failed       \* history: hosts that failed the client

vars == <<user, manager, call, server, mixer, strangers, count, failed>>

useMixer == user.useMixer
Nobody == [id |-> 0, from |-> "nobody", data |-> <<>>]
NoCall == [pc |-> "idle", question |-> [command |-> ""], id |-> 0,
           retries |-> 0, outcome |-> [kind |-> "none"], held |-> <<>>, cut |-> FALSE]
Started(h, garbage) ==
  [pc |-> "accept", conn |-> Nobody, queue |-> <<>>, buf |-> garbage, cut |-> FALSE,
   table |-> Tables[h], held |-> Tables[h]]
Host(i) == Hosts[i]

Init ==
  /\ user \in Users
  /\ manager = [current |-> 0, index |-> 0, launched |-> FALSE]
  /\ call = NoCall
  /\ \E garbage \in [Range(Hosts) -> UNION Range(Garbage)] :
       /\ \A h \in Range(Hosts) : garbage[h] \in Garbage[h]
       /\ server = [h \in Range(Hosts) |-> Started(h, garbage[h])]
  /\ mixer \in [pc : {"off"}, local : {FALSE, useMixer}, jobs : {{}}]
  /\ strangers = {}
  /\ count = [calls |-> 0, strangers |-> 0, crashes |-> 0]
  /\ failed = {}

Up(h) == server[h].pc \notin {"down", "died"}
Accessible(h) == Up(h) /\ Len(server[h].queue) < Backlog

(* A connection whose other end has not been closed.                         *)
Open(conn) ==
  \/ conn.from = "client" /\ conn.id = call.id
  \/ conn.from = "stranger" /\ conn.id \in strangers
  \/ conn.from = "mixer" /\ \E job \in mixer.jobs : job.rpc = conn.id

(* A number no connection has.                                               *)
NewId ==
  LET used == {call.id} \cup strangers \cup {job.id : job \in mixer.jobs}
                \cup {job.rpc : job \in mixer.jobs} \cup {server[h].conn.id : h \in Range(Hosts)}
                \cup UNION {{conn.id : conn \in Range(server[h].queue)} : h \in Range(Hosts)}
      free == (1 .. Cardinality(used) + 1) \ used
  IN CHOOSE id \in free : \A other \in free : id <= other

(* A new connection to a server, with all that will be sent on it.           *)
Connect(h, from, line) ==
  /\ Accessible(h)
  /\ server' = [server EXCEPT ![h].queue =
                  Append(@, [id |-> NewId, from |-> from, data |-> line])]

-----------------------------------------------------------------------------
(* The client.                                                               *)
Ask ==
  /\ call.pc \in {"idle", "done"} /\ count.calls < Len(user.questions)
  /\ count' = [count EXCEPT !.calls = @ + 1]
  /\ call' = [NoCall EXCEPT !.pc = "connect", !.question = user.questions[count'.calls]]
  /\ UNCHANGED <<user, manager, server, mixer, strangers, failed>>

Line == MakeCommand(call.question) \o <<"\r", "\n">>
Ended(kind) == [call EXCEPT !.pc = "done", !.id = 0, !.outcome = [kind |-> kind]]

(* Mutant of NextServer: the index is advanced before it is used.            *)
NextServerSkips ==
  IF Len(Hosts) <= manager.index + 1
  THEN call' = Ended("NoAvailableServer") /\ UNCHANGED manager
  ELSE /\ manager' = [manager EXCEPT !.current = manager.index + 2, !.index = @ + 1]
       /\ call' = [call EXCEPT !.pc = "connect", !.id = 0]

(* The next server becomes the current one; the last one stays it.           *)
NextServer ==
  IF Len(Hosts) <= manager.index
  THEN call' = Ended("NoAvailableServer") /\ UNCHANGED manager
  ELSE /\ manager' = [manager EXCEPT !.current = manager.index + 1, !.index = @ + 1]
       /\ call' = [call EXCEPT !.pc = "connect", !.id = 0]

(* The first call of all selects a server.                                   *)
SelectedServer ==
  /\ call.pc = "connect" /\ ~useMixer /\ manager.current = 0
  /\ NextServer
  /\ UNCHANGED <<user, server, mixer, strangers, count, failed>>

SendToServer ==
  /\ call.pc = "connect" /\ ~useMixer /\ manager.current # 0
  /\ Connect(Host(manager.current), "client", Line)
  /\ call' = [call EXCEPT !.pc = "wait", !.id = NewId]
  /\ UNCHANGED <<user, manager, mixer, strangers, count, failed>>

(* A socket.error, in connect or after it: a timeout is one.                 *)
FailOver ==
  /\ ~useMixer /\ manager.current # 0
  /\ \/ call.pc = "connect" /\ ~Accessible(Host(manager.current))
     \/ call.pc = "wait"
  /\ failed' = failed \cup {manager.current}
  /\ NextServer
  /\ UNCHANGED <<user, server, mixer, strangers, count>>

LaunchMixer ==
  /\ call.pc = "connect" /\ useMixer /\ ~manager.launched
  /\ manager' = [manager EXCEPT !.launched = TRUE]
  /\ mixer' = [mixer EXCEPT !.pc = "starting"]
  /\ UNCHANGED <<user, call, server, strangers, count, failed>>

SendToMixer ==
  /\ call.pc = "connect" /\ useMixer /\ manager.launched /\ mixer.pc = "up"
  /\ call' = [call EXCEPT !.pc = "wait", !.id = NewId]
  /\ mixer' = [mixer EXCEPT !.jobs = @ \cup
                 {[id |-> NewId, pc |-> "line", line |-> Line, rpc |-> 0,
                   local |-> <<>>, held |-> <<>>, cut |-> FALSE, answer |-> <<>>]}]
  /\ UNCHANGED <<user, manager, server, strangers, count, failed>>

(* Mutant of Retry: the tries are not counted.                               *)
RetryForever ==
  /\ useMixer /\ manager.launched
  /\ call.pc = "wait" \/ (call.pc = "connect" /\ mixer.pc # "up")
  /\ call' = [call EXCEPT !.pc = "connect", !.id = 0]
  /\ UNCHANGED <<user, manager, server, mixer, strangers, count, failed>>

Retry ==
  /\ useMixer /\ manager.launched
  /\ call.pc = "wait" \/ (call.pc = "connect" /\ mixer.pc # "up")
  /\ call' = IF call.retries + 1 < MixerRetries
             THEN [call EXCEPT !.pc = "connect", !.id = 0, !.retries = @ + 1]
             ELSE Ended("socket.error")
  /\ UNCHANGED <<user, manager, server, mixer, strangers, count, failed>>

(* What the client makes of all the bytes it got before the end.             *)
Returned(question, text) ==
  IF question.raw THEN [kind |-> "raw", text |-> text] ELSE Outcome(ParseSexpPy(text))

Answered(text, held, cut) ==
  call' = [call EXCEPT !.pc = "done", !.id = 0, !.held = held, !.cut = cut,
             !.outcome = Returned(call.question, text)]

-----------------------------------------------------------------------------
(* A tags server.                                                            *)
(* buf_ after a recv of bytes: a final \r\n is cut off, what was behind them *)
(* stays.                                                                    *)
Received(buf, bytes) ==
  LET n == Len(bytes)
  IN (IF EndsLine(bytes) THEN [bytes EXCEPT ![n - 1] = NUL] ELSE bytes)
       \o SubSeq(buf, n + 1, Len(buf))

(* One connection: its one recv waits for bytes, or for the other end to     *)
(* close, and takes what has come, at most kMaxTagLen.  Of no bytes at all,  *)
(* buf_ stays the request.  Then the request is executed; the process may    *)
(* end by a CHECK.                                                           *)
Input(h, n) ==
  LET s == server[h]
      conn == Head(s.queue)
      got == IF n < kMaxTagLen THEN n ELSE kMaxTagLen
      buf == Received(s.buf, SubSeq(conn.data, 1, got))
      served == [s EXCEPT !.conn = conn, !.queue = Tail(@), !.buf = buf, !.held = s.table,
                   !.cut = got = 0 \/ got < Len(conn.data)]
      Done(done) == IF done.got = "dead" THEN [served EXCEPT !.pc = "died"]
                    ELSE [served EXCEPT !.pc = "output", !.table = done.table]
  IN /\ conn.data # <<>> \/ ~Open(conn)
     /\ n = Len(conn.data) \/ (n \in Cuts /\ n < Len(conn.data))
     /\ server' = [server EXCEPT ![h] = Done(Execute(buf, s.table))]
     /\ UNCHANGED <<user, manager, call, mixer, strangers, count, failed>>

Answer(h) == Execute(server[h].buf, server[h].held).text

Finished(h) == [server EXCEPT ![h].pc = "accept", ![h].conn = Nobody,
                  ![h].held = server[h].table, ![h].cut = FALSE]

(* Mutant of Mixed: the remote answer comes first.                           *)
RemoteFirst(job, text, failure, held, cut) ==
  (mixer.jobs \ {job}) \cup
    {[job EXCEPT !.pc = "mixed", !.rpc = 0, !.held = @ \o held, !.cut = cut,
        !.answer = MixResult(<<text, job.local>>, failure)]}

(* What becomes of a job whose RPC ended: the local answer before the        *)
(* remote one.                                                               *)
Mixed(job, text, failure, held, cut) ==
  (mixer.jobs \ {job}) \cup
    {[job EXCEPT !.pc = "mixed", !.rpc = 0, !.held = @ \o held, !.cut = cut,
        !.answer = MixResult(<<job.local, text>>, failure)]}

Output(h) ==
  LET s == server[h]
      job == CHOOSE j \in mixer.jobs : j.rpc = s.conn.id
  IN /\ s.pc = "output" /\ Open(s.conn)
     /\ server' = Finished(h)
     /\ \/ /\ s.conn.from = "client"
           /\ Answered(Answer(h), s.held, s.cut)
           /\ UNCHANGED <<mixer, strangers>>
        \/ /\ s.conn.from = "mixer"
           /\ mixer' = [mixer EXCEPT !.jobs = Mixed(job, Answer(h), FALSE, s.held, s.cut)]
           /\ UNCHANGED <<call, strangers>>
        \/ /\ s.conn.from = "stranger"
           /\ strangers' = strangers \ {s.conn.id}
           /\ UNCHANGED <<call, mixer>>
     /\ UNCHANGED <<user, manager, count, failed>>

(* The memory of a process that was killed is gone.                          *)
Killed(h) == [server EXCEPT ![h] = [Started(h, <<>>) EXCEPT !.pc = "down"]]

(* The other end has closed: the answer is lost, or SIGPIPE ends the server. *)
OutputToNobody(h) ==
  /\ server[h].pc = "output" /\ ~Open(server[h].conn)
  /\ \/ server' = Finished(h)
     \/ server' = Killed(h)
  /\ UNCHANGED <<user, manager, call, mixer, strangers, count, failed>>

(* A server is killed; whoever waits for its answer may get a part of it     *)
(* before the connection ends, which the mixer takes for a result.           *)
Half(text) == SubSeq(text, 1, Len(text) \div 2)

Crash(h) ==
  LET s == server[h]
      job == CHOOSE j \in mixer.jobs : j.rpc = s.conn.id
  IN /\ Up(h) /\ count.crashes < MaxCrashes
     /\ count' = [count EXCEPT !.crashes = @ + 1]
     /\ server' = Killed(h)
     /\ \/ UNCHANGED <<call, mixer>>
        \/ /\ s.pc = "output" /\ s.conn.from = "client" /\ Open(s.conn)
           /\ Answered(Half(Answer(h)), <<>>, s.cut)
           /\ UNCHANGED mixer
        \/ /\ s.pc = "output" /\ s.conn.from = "mixer" /\ Open(s.conn)
           /\ mixer' = [mixer EXCEPT !.jobs = Mixed(job, Half(Answer(h)), FALSE, <<>>, s.cut)]
           /\ UNCHANGED call
     /\ UNCHANGED <<user, manager, strangers, failed>>

Restart(h) ==
  /\ server[h].pc = "down"
  /\ \E garbage \in Garbage[h] : server' = [server EXCEPT ![h] = Started(h, garbage)]
  /\ UNCHANGED <<user, manager, call, mixer, strangers, count, failed>>

-----------------------------------------------------------------------------
(* Other clients: one sends a request, or none for a while.                  *)
StrangerConnects(h, text) ==
  /\ count.strangers < MaxStrangers
  /\ Connect(h, "stranger", text)
  /\ strangers' = strangers \cup {NewId}
  /\ count' = [count EXCEPT !.strangers = @ + 1]
  /\ UNCHANGED <<user, manager, call, mixer, failed>>

StrangerLeaves(id) ==
  /\ strangers' = strangers \ {id}
  /\ UNCHANGED <<user, manager, call, server, mixer, count, failed>>

-----------------------------------------------------------------------------
(* The mixer.                                                                *)
MixerStarts ==
  /\ mixer.pc = "starting"
  /\ mixer' = [mixer EXCEPT !.pc = "up"]
  /\ UNCHANGED <<user, manager, call, server, strangers, count, failed>>

(* It reads a line, without its \n: it answers, dies of it, or asks the      *)
(* first host, and its own index.                                            *)
LocalPart(request, local) ==
  IF local THEN [text |-> LocalExecute(request.text, request.path, LocalTable),
                 held |-> SelectSeq(LocalTable, LAMBDA r : UnderPath(r, request.path))]
           ELSE [text |-> <<>>, held |-> <<>>]

Understood(job, request) ==
  LET Others == mixer.jobs \ {job}
      mine == LocalPart(request, mixer.local)
      asked == [job EXCEPT !.pc = "rpc", !.local = mine.text, !.held = mine.held]
  IN \/ /\ request.got # "request"
        /\ mixer' = IF request.got = "dead"
                    THEN [mixer EXCEPT !.pc = "dead", !.jobs = {}]
                    ELSE [mixer EXCEPT !.jobs =
                            Others \cup {[job EXCEPT !.pc = "mixed", !.answer = request.text]}]
        /\ UNCHANGED server
     \/ /\ request.got = "request"
        /\ Connect(Host(1), "mixer", Append(request.text, "\n"))
        /\ mixer' = [mixer EXCEPT !.jobs = Others \cup {[asked EXCEPT !.rpc = NewId]}]
     \/ /\ request.got = "request" /\ ~Accessible(Host(1))
        /\ mixer' = [mixer EXCEPT !.jobs = Others \cup {[asked EXCEPT !.rpc = 0]}]
        /\ UNCHANGED server

(* Mutant of MixerReads: the end of a line is taken for a character longer.  *)
MixerReadsShort(job) ==
  /\ mixer.pc = "up" /\ job.pc = "line"
  /\ Understood(job, MixerExecute(Parse(SubSeq(job.line, 1, Len(job.line) - 3))))
  /\ UNCHANGED <<user, manager, call, strangers, count, failed>>

MixerReads(job) ==
  /\ mixer.pc = "up" /\ job.pc = "line"
  /\ Understood(job, MixerExecute(Parse(Front(job.line))))
  /\ UNCHANGED <<user, manager, call, strangers, count, failed>>

(* The connection of an RPC is refused or reset, or ends before a byte came. *)
RPCEnds(job) ==
  /\ job.pc = "rpc"
  /\ \A h \in Range(Hosts) : Up(h) =>
       \A conn \in Range(server[h].queue) \cup {server[h].conn} : conn.id # job.rpc \/ job.rpc = 0
  /\ \E failure \in BOOLEAN :
       mixer' = [mixer EXCEPT !.jobs = Mixed(job, <<>>, failure, <<>>, FALSE)]
  /\ UNCHANGED <<user, manager, call, server, strangers, count, failed>>

MixerAnswers(job) ==
  /\ job.pc = "mixed"
  /\ mixer' = [mixer EXCEPT !.jobs = @ \ {job}]
  /\ IF call.id = job.id THEN Answered(job.answer, job.held, job.cut) ELSE UNCHANGED call
  /\ UNCHANGED <<user, manager, server, strangers, count, failed>>

-----------------------------------------------------------------------------
(* No more is asked.                                                         *)
Rest == call.pc \in {"idle", "done"} /\ count.calls = Len(user.questions) /\ UNCHANGED vars

ClientStep == SelectedServer \/ SendToServer \/ FailOver \/ LaunchMixer \/ SendToMixer \/ Retry

Next ==
  \/ Ask
  \/ ClientStep
  \/ \E h \in Range(Hosts) :
       \/ Output(h) \/ OutputToNobody(h)
       \/ Crash(h) \/ Restart(h)
       \/ /\ server[h].pc = "accept" /\ server[h].queue # <<>>
          /\ \E n \in 0 .. Len(Head(server[h].queue).data) : Input(h, n)
       \/ \E text \in StrangeTexts[h] : StrangerConnects(h, text)
  \/ \E id \in strangers : StrangerLeaves(id)
  \/ MixerStarts
  \/ \E job \in mixer.jobs : MixerReads(job) \/ RPCEnds(job) \/ MixerAnswers(job)
  \/ Rest

(* The timeouts of gtags.py end every wait of the client.                    *)
Spec == Init /\ [][Next]_vars /\ WF_vars(ClientStep)

-----------------------------------------------------------------------------
(* Properties.                                                               *)

Fields(r) == [k \in {"tag", "snippet", "filename", "lineno"} |-> r[k]]
Expected(question, held) ==
  LET found == Find(held, question.command, question.text)
  IN [i \in DOMAIN found |-> Fields(found[i])]

(* Characters that do not come back: gtags.py drops those that CEscape       *)
(* writes and its unescape_string does not know; and the mixer, which parses *)
(* \t as a t, loses the tabs as well.                                        *)
Lost(mixed) == {"'", "\n", "\r"} \cup (IF mixed THEN {"\t"} ELSE {})
Plain(r, mixed) ==
  (Range(r.tag) \cup Range(r.snippet) \cup Range(r.filename)) \cap Lost(mixed) = {}

(* What a call returns, asked question of what was held.                     *)
IsAnswer(outcome, question, held, mixed) ==
  LET expected == Expected(question, held)
  IN (/\ outcome.kind = "tags"
      /\ \A i \in DOMAIN expected : Plain(expected[i], mixed)) => outcome.tags = expected

(* The tags a call of gtags.py returns are those the server that answered    *)
(* held for the question when it executed it, in order and unchanged in      *)
(* every field, whatever quotes and backslashes they contain; through the    *)
(* mixer, behind those of the local index.  Results with a character that    *)
(* is lost are excepted, and requests the server took in part.               *)
AnswersWhatWasAsked ==
  call.pc = "done" /\ ~call.cut => IsAnswer(call.outcome, call.question, call.held, useMixer)

(* What a server executes is the query the connection it serves brought: the *)
(* bytes behind it in memory, those of earlier requests among them, change   *)
(* nothing, neither what is answered nor what is loaded.  Requests that came *)
(* in part are excepted, and those whose leading comment is left open.       *)
Command(data) == IF EndsLine(data) THEN SubSeq(data, 1, Len(data) - 2) ELSE data
Closed(text) == At(text, 1) = "#" => \E i \in 2 .. Len(text) : text[i] = "#"

UnderstandsWhatWasSent ==
  \A h \in Range(Hosts) :
    LET s == server[h]
    IN (s.pc \in {"output", "died"} /\ ~s.cut /\ Closed(Command(s.conn.data))) =>
         /\ IsPrefix(Command(s.conn.data), UpToNUL(s.buf))
         /\ Execute(s.buf, s.held) = Execute(Command(s.conn.data), s.held)

(* No request of gtags.py, written by it or again by the mixer, ends a       *)
(* server by a CHECK or the mixer by an expression it cannot use.            *)
GoodRequestsHarmless ==
  /\ \A h \in Range(Hosts) :
       server[h].pc = "died" => server[h].cut \/ server[h].conn.from = "stranger"
  /\ mixer.pc # "dead"

(* A call ends with NoAvailableServer only when every server of the list has *)
(* failed the client: next_server passes none over.                          *)
NoServerSkipped ==
  call.outcome.kind = "NoAvailableServer" => failed = DOMAIN Hosts

-----------------------------------------------------------------------------
(* What the properties rest on, for each question and table there is: facts  *)
(* about TagsProtocol alone.                                                 *)
Forwarded(q) == MixerExecute(Parse(Append(MakeCommand(q), "\r")))
Written(q) == Append(Forwarded(q).text, "\n")

(* A request that the mixer writes is one list on one line.                  *)
OneList(line) ==
  /\ NewLine(line) /\ ~EndsLine(line)
  /\ Parse(line).got = "sexp" /\ Parse(line).next <= Len(line)

MixerForwardsLists ==
  \A u \in Users : \A q \in Range(u.questions) :
    u.useMixer /\ Forwarded(q).got = "request" => OneList(Written(q))

(* No request ends a server or the mixer.                                    *)
RequestsAreUsable ==
  \A u \in Users : \A q \in Range(u.questions) : \A held \in HeldTables :
    IF u.useMixer
    THEN /\ Forwarded(q).got # "dead"
         /\ Forwarded(q).got = "request" => Execute(Written(q), held).got # "dead"
    ELSE Execute(MakeCommand(q), held).got # "dead"

(* A whole answer is read as what was held; half of one, and the mixer's     *)
(* without a server, as no more than that.                                   *)
AnswersAreReadable ==
  \A u \in Users : \A q \in Range(u.questions) : \A held \in HeldTables :
    LET Right(text, found) == IsAnswer(Returned(q, text), q, found, u.useMixer)
        Joined(local, text, failure, found) ==
          LET mine == LocalPart(Forwarded(q), local)
          IN Right(MixResult(<<mine.text, text>>, failure), mine.held \o found)
        answer == Execute(MakeCommand(q), held).text
    IN CASE ~u.useMixer -> Right(answer, held) /\ Right(Half(answer), <<>>)
         [] u.useMixer /\ Forwarded(q).got = "request" ->
              \A local \in BOOLEAN :
                /\ Joined(local, Execute(Written(q), held).text, FALSE, held)
                /\ Joined(local, Half(Execute(Written(q), held).text), FALSE, <<>>)
                /\ \A failure \in BOOLEAN : Joined(local, <<>>, failure, <<>>)
         [] OTHER -> Right(Forwarded(q).text, <<>>)

-----------------------------------------------------------------------------
(* Every call of gtags.py ends, with tags or with an error, also when the    *)
(* server it asks serves a silent client for ever.                           *)
EveryCallEnds == call.pc \in {"connect", "wait"} ~> call.pc = "done"

(* What strutil.h calls escaped, gtags.py reads: the tags of an answer have  *)
(* the text they have in the tags file.                                      *)
EveryCharacterArrives ==
  (call.pc = "done" /\ call.outcome.kind = "tags" /\ ~call.cut /\ ~useMixer)
    => call.outcome.tags = Expected(call.question, call.held)
=============================================================================
