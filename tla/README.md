# A verification project for google-gtags

GTags answers "where is this symbol defined / called" for editors. Its central
process is the *mixer* (`gtagsmixermain.cc`): it takes a query from an editor,
asks several remote tags servers at once, asks the table it keeps of the user's
own edited files, and mixes the answers into one. Around it stand the clients
(`gtags.py`), the stand-alone tags servers (`gtags.cc`) and the tag generators.
This directory models these programs in TLA+, model-checks the models with TLC
and proves the most important results with TLAPS.

## 1. Inventory

Threads of the mixer process: the main thread (poll loop of the mixer service),
one short-lived thread per RPC, the version service thread, the inotify thread,
the file watcher service thread, the `FileWatcherRequestWorker` and the
`IndexAgent`. A tags server and a client have one thread each.

| Part | State | Operations | Interacts with | Hard because | Correct when |
|---|---|---|---|---|---|
| Producer-consumer queue (`pcqueue.h`) | deque, mutex, semaphores `full_`, `empty_` | `Put`, `Get`, `TryPut`, `TryGet` | watcher, worker, agent | every semaphore and mutex call interleaves | each element once, in order; never an empty pop; no lost wakeup |
| Index agent (`indexagent.cc`) | batch of file names, two output files | `GetRequests`, `Index`, `UpdateLocalServer`, `DoneRequests` | queue, indexer process, local tables | indexer failures, ownership of names across threads | each name freed once; every request indexed; the table ends up fresh |
| Result mixing (`gtagsmixer.*`) | holder per source: count, used, mutex; mixer: count, results, failures | `set_result`, `set_failure`, `MixResult` | RPC threads, main thread, client callback | objects delete themselves under concurrent reports | one answer, no use after delete, no leak |
| Request handler, data sources (`mixerrequesthandler.*`, `datasource.*`) | the request of a query | `Execute`, `Done`, `GetTags` | mixing, RPC, local tables | uses the request while RPCs already answer; rewrites the query | answers every command once, and the question that was asked |
| Tags service RPC (`socket_tags_service.*`) | poll server and thread per RPC | `GetTags`, `DoneGetTags`, `RPCError` | sockets, holders | no timeout | each RPC reports once |
| Poll server (`pollserver.*`, `pollable.*`) | arrays of descriptors and pollables, `loop_`, `current_fd_` | `Register`, `Unregister`, `Loop`, `ForceLoopExit` | all sockets | handlers change the arrays while they are walked | an event reaches only the live owner of its descriptor |
| Sockets (`socket.*`) | descriptor, buffers, callbacks | `Create`, `HandleRead`, `HandleWrite`, `Close` | poll server, services | self-deletion inside handlers, descriptor handed from one object to another | every descriptor closed once, every callback run once |
| Mixer service (`socket_mixer_service.*`) | socket per client | `HandleReceived`, `HandleMixerResponse`, `HandleSent` | poll server, `Execute` | the response comes from another thread; the client may be gone | each client gets its own response |
| File watcher (`filewatcher.*`) | map of path and watch descriptor, exclude list | `AddDirectory(Recursive)`, `RemoveDirectory(Recursive)`, event handlers | kernel, queue, worker | kernel events are late, two threads share the map | every existing directory below an added one is watched |
| File watcher requests and service (`filewatcherrequesthandler.*`, `socket_filewatcher_service.*`) | command queue | `Push`, `Run`, `HandleReceived` | watcher, tables | one request is several queue entries | excludes hold for their request only |
| Tags table (`tagstable.*`, `symboltable.*`) | five indices over files and tags | load, update, unload, find | handlers | indices must agree through updates | the indices show exactly the loaded files |
| Tags request handlers (`tagsrequesthandler.*`) | the shared table, a mutex, two protocols | `Execute`, `Update`, `UnloadFilesInDir` | agent, worker, mixer, servers | three threads | an answer is what the table held at one moment |
| S-expressions (`sexpression*`, `iterators.h`, `strutil.*`) | none | `Parse`, `Repr`, assoc helpers | all protocols | four codecs, different escapes | what is read is what was written |
| Version service, hand-over (`socket_version_service.*`, `gtagsmixermain.cc`) | version, process life | `GetVersion`, `ShutDown` | a second process | old and new process overlap | one instance survives |
| Stand-alone server (`gtags.cc`, `socket_server.*`, `tagsprofiler.*`) | one connection, one buffer for all | accept, read, execute, write | tags table, clients, mixer | one `recv` per request, no timeout | executes what was sent, survives it |
| Client (`gtags.py`) | list of servers, current one, retries | commands, `next_server`, `send_to_server` | servers, mixer | failover while answers may be late | every call ends; no server is skipped; the tags are the server's |
| Settings, options, editor front ends | | | | sequential | |

## 2. Plan

Modules, in the order they were written; all are there.

1. **Queue**: `FifoChannel` (abstract) <- `PCQueue`; `IndexQueue` = `PCQueue` + index agent.
2. **Mixing**: `MixedAnswer` (abstract) <- `ResultMixing`.
3. `PollServer`; `MixerService` (poll server + listener + a socket per client) and
   `RPCCall` (poll server + client socket + RPC socket).
4. `VersionHandover` (two starters and a running instance).
5. `TagsRelation` (abstract) <- `TagsTable`; `LocalIndex` = `TagsTable` + mutex +
   queries + agent + generators + worker + watcher.
6. `FileWatcher`; `WatchRequests` = `FileWatcher` + command queue + worker.
7. `SExpression` (pure); `TagsProtocol` = `SExpression` + both protocols + the
   client's codec (pure); `Session` = `TagsProtocol` + client + servers + mixer.
8. Proofs: `IndexQueueProofs` (with those of `PCQueue`), `ResultMixingProofs`,
   `RPCCallProofs`, `MixerServiceProofs`, `LocalIndexProofs` (with those of
   `TagsTable`), `VersionHandoverProofs`, `WatchRequestsProofs` (with those of
   `FileWatcher`), `SessionProofs`.

Worth proving next: that `AgentPopsAreSafe` and the ownership of names carry over to
the queue of `LocalIndex`, which takes it as a sequence; for the maps of the watcher,
how far they agree when directories do have two spellings; that what `MakeCommand`
writes for any question is what `Parse` and `TranslateInput` read, which would prove
`RequestsAreUsable`. Worth modelling next: the second handler of
`--index_callgraph`, and a second line of a client of the mixer.

## 3. The modules and the code

### `FifoChannel`, `PCQueue`
`PCQueue` is `ProducerConsumerQueue<T>`. A thread's `pc` says between which two
calls it is; `EmptyLock`/`FullLock` wait on a semaphore, `PutMuLock`/`GetMuLock`
on the mutex, `PutInQueue`/`GetFromQueue` are the deque operation with the
release of the mutex, `FullUnlock`/`EmptyUnlock` the posts. `TryPutMuBusy` and
`TryGetMuBusy` are the failing `mu_.TryLock()` inside `TryPut`/`TryGet`, after
which the code posts the *other* semaphore all the same. `FifoChannel` is the
promise: a value once in is taken once, oldest first.

### `IndexQueue`
Extends `PCQueue` with the agent: `stage` is the place in `Run()`, `batch` is
`file_list`, `output` which tags files the indexer left, `loaded` what the tables
hold, `freed` the deleted names. Producers (`Produce`) are the inotify thread and
the request worker.

### `MixedAnswer`, `ResultMixing`
`ResultMixing` is one query: `Execute` on the main thread, an RPC thread per
service, a `ResultHolder` per source, the `ResultMixer`. `pc` of a thread: `enter`
(about to take the holder's mutex), `mix` (inside the holder, about to call the
mixer), `free_mixer` (about to delete the mixer), `leave` (back in the holder),
`free_holder` (about to delete the holder). Each object has a life `none`,
`alive`, `freed`, because the questions are about "delete this". `MixedAnswer` is
the promise to the client; `ResultMixing` maps `results`/`failures` to its
`settled`.

### `PollServer`
The arrays `fds_` and `pollables_` are `table.slots`, `num_fds_` is `table.num`;
slot i is index i - 1. `Register`, `Unregister`, `LastIndexOf` are operators on the
table, because a handler calls several of them in one step. `step` is the place
in `Loop`/`HandlePollEvents`: `test` (the loop condition), `slot` (next index of the
walk), `in` and `out` (the two tests of `revents`). A handler is one step of the
module that extends this one: guarded by `ReadDue(p)` or `WriteDue(p)`, completed
by `AfterRead` or `AfterWrite`. Between them the slot may have been vacated or
given to another pollable, which is what the walk has to survive.

### `MixerService`
`SocketMixerServiceProvider::Start` with its listener and a `MixerSocket` per
client. The kernel is modelled by what the code can see of it: descriptors are
small numbers, the lowest free one is handed out, a closed one is handed out
again; `accept` may find nothing (then the code makes a socket for descriptor -1,
`Phantom`); `recv` and `write` may take a part or fail. `HandleMixerResponse` is
the append to `outbuf_` by whichever RPC thread completes the query, at any time
after `Execute`, also when the client is gone.

### `RPCCall`
One `GetTags`: the `ClientSocket` connects, its destructor makes the `RPCSocket` on
the same descriptor, then the base class destructor unregisters; the
registration of the new object must survive that. The four one-shot callbacks are
counted (`freed`). This justifies what `ResultMixing` takes for granted: an RPC
reports at most once, and reports if its server ends the connection.

### `VersionHandover`
`CheckSingleInstance` and `main` of several processes. A remote call is two
steps: the connection, which picks the process that listens at that moment, and
its end (`Answered`, `ShutDown`, or `Cut` when that process died in between). To a
starter a `GET_VERSION` that was cut is an empty answer, hence version 0: it
goes on to `SHUT_DOWN` of whoever holds the version port by then. `Bind`
and `BindFails` are the service threads with their `CHECK(listener != NULL)`.

### `TagsRelation`, `TagsTable`
`TagsTable` is `map_` (all results), `filemap_` (`indexed`, `filemap`),
`findfilemap_` (entries per file), `fileset_`, `loaded_files_` and the heap of
`TagsResult` objects, whose addresses are used again. A tag file is read one
declaration per step between `ReloadTagFile`/`UpdateTagFile` and `EndOfTagFile`.
`Cut` is the cut at `max_results`. `TagsRelation` is the promise: a relation of
files and tags, in which a step replaces or removes whole files. `Content` is the
refinement mapping.

### `LocalIndex`
One `TagsTable` behind `mu_` of `LocalTagsRequestHandler` (`owner`), and everybody
who uses it. The poll thread looks up under the mutex (`Find`) and prints
(`PrintTagsResults`), or has a client's tag file loaded, declaration by declaration
(`LoadRequested`, `ReadDeclaration`, `LoadDone`). The agent takes names
(`GetRequests`), has the generators write a tag file of what is on disk *then*
(`Generate`, or `FailToGenerate` with a status or silently), and loads it later
(`Update`). The worker lists a directory, puts its files, and only then watches
it (`AddDirectoryRecursive`, `HandleImport`, `AddDirectory`), or removes its watches
and then unloads (`RemoveDirectoryRecursive`, `UnloadRemoved`). The watcher thread
turns events into names (`DoIndexing`, `PutNoticed`). A deletion is an event like
the others (`IndexEventHandler::HandleDelete`); the agent drops the name, because
the file is gone, and the table keeps what it had. `stale` and `excused` are
histories: what the code does not promise to show, and what it may keep.

### `FileWatcher`, `WatchRequests`
`FileWatcher` has the file system (`dirs`, `files`), the kernel's watches and events
(`made`, `live`, `events`), the map (`wdOf` is `pathname_to_wd_map_`, `pathOf` is
`wd_to_pathname_`) and two threads. `pc["inotify"]` is the place in
`ProcessEvents`: `track`, `join` (the tracker), `index`, `put` (the index handler).
`pc["worker"]` is the place in `AddDirectoryRecursive` (`scan`; `stack` holds its
frames) or `RemoveDirectoryRecursive` (`sweep`). Both threads share `AddDirectory`
(look up, `watch`, `store`) and `RemoveDirectory` (`rm_watch`, `unmap`), whose steps
interleave. The process ends where a `CHECK` fails or a freed path is joined.
`due`, `owed` and `disturbed` are histories for the properties. `WatchRequests` adds the
service thread, which turns a request into commands, the bounded command queue
and the worker's loop.

### `SExpression`, `TagsProtocol`
Pure operators on texts, which are sequences of characters (a word that needs no
escape stands for its letters as one character). `SExpression` is the parser on
characters and on tokens, the writer with `CEscape`, and the assoc helpers.
`TagsProtocol` is what a query becomes on its way: the Python client writes it,
the mixer parses it, looks up a source for its language and callers (`Sources`,
`Defaults`; without one it answers `Error`) and writes it again, a server executes it
in one of two protocols (`Execute`) and writes results, the mixer joins answers, the
client parses them. `Execute` takes what is in memory from a `char*` on, not a
string: the reader of lists stops at the NUL, the loop that looks for the end of a
comment (tagsrequesthandler.cc:101) does not. It returns the answer and the table
behind it: a reload replaces the table, an update the files it names (`Loaded`), and
a tag file that cannot be read ends the server. Each of the four codecs has the escapes that *its* code knows. Recursion
is by recursive functions and folds: the reader of strings and tokens (`Reader`) is a
function on positions, the parser (`Parser`) one on positions and on whether it is
inside a list, and the printer (`Repr`) one on the paths of an expression, so that
theorems can be stated about all of them.

### `Session`
One Python client, the stand-alone servers of its list, and a mixer. A server's
`buf` is the memory from `buf_` of `SocketIO` on: it keeps the bytes of earlier
requests behind those of the last `recv`, which may bring a part (`Cuts`) or nothing,
and is garbage at first, up to what cannot be read. Its `table` is what `Execute`
left, `held` what it was before the request that is being answered, so that an answer
is compared with what its server held *then*; `HeldTables` are all tables there may
be, closed under loads. `Execute` ends the server where a `CHECK` fails or a comment
runs on past the readable memory; `Crash` and `Restart` may come at any time, also
while an answer is on its way: the client, or the mixer, which takes it for a
result, then gets half of it. `Output` to a connection that is gone is lost or
raises `SIGPIPE` (`Killed`). `manager` is the `TagsConnectionManager`: `SelectedServer`,
`SendToServer`, `FailOver` (`next_server`), and `LaunchMixer`, `SendToMixer`, `Retry`
for the mixer. Other clients send any line that ends with `\r\n`, of either protocol,
which may load tag files or end the server, or they send nothing.
`UnderstandsWhatWasSent` compares what `Execute` makes of the whole memory, answer and
table, with what it makes of the query alone. It excepts requests that came in part,
and those that begin with a comment that is left open, because for them it is false:
`#e` executes the bytes behind the next `#` that an earlier request left. What remains
is not plain: a list that the mixer sends ends with `\n` only, so the
server's buffer goes on behind it with what earlier requests left. `MixerForwardsLists`,
`RequestsAreUsable` and `AnswersAreReadable` say what one question and one answer become
in the codecs, without any server, buffer or interleaving; `MCSession` assumes them
(`CodecsAgree`), so that TLC evaluates them for the questions and tables of the run.

## 4. Runs

| Run | Question | Bounds and why they are enough |
|---|---|---|
| `pcqueue` | Does any interleaving of the four operations lose, duplicate or reorder a value, pop an empty deque or lose a wakeup? | two producers, one consumer, three values, capacity two: the queue is empty, full and in between, and both posts can race with both waits; all four disciplines of who calls what |
| `indexqueue` | Does the agent own each name exactly once and keep serving? | same queue; the indexer may fail for either output |
| `indexqueue_loss` | Is every queued request indexed? **No**: see the findings | indexer never fails, so the loss is the queue's |
| `resultmixing` | Is the answer the promised one, with no use after delete and no leak, whatever the order of the reports? | three services (two reports before the last one, and one in between), every kind of command, with and without a local source |
| `mixerservice` | Does a descriptor always have one live owner, does an event reach the object it was for, is each line executed and each response delivered? | two clients besides the listener, so that the table (two slots at first) grows and the last slot moves into a vacated one while the walk goes on; three descriptors, used again; responses of two units, so that a write can be partial |
| `rpccall` | Does an RPC report once, with the whole reply, and free its callbacks once? | a command of two units and a reply of three, refused, closed or reset at any point; the only pollables are the two sockets |
| `handover` | Is an up-to-date instance left alone, and does every starter settle? | two starters and a running instance, two versions, all flags: a starter's callee can be shut down by the other |
| `handover_replace` | Does a starter that shuts the old instance down serve? **No**: see the findings | one starter suffices |
| `watchrequests` | Does the map stay two-way, do undisturbed directories stay watched and their changes get queued, and do excludes concern their request only? | four directories, two siblings whose names begin alike and one nested; three changes at any pace (a directory is deleted, made again and written to), two requests out of an ADD of the root, an ADD and a REMOVE of a part with an exclude, a command queue of two |
| `localindex` | With files that change, directories that come and go, clients that query and load, and an agent that updates: do the indices agree, is each answer true, is the table fresh at rest, do removed directories stay out, and can anybody deadlock? | two directories whose names begin alike with a file of the same base name each, two tags, three addresses and one result per declaration and tag, so that addresses are used again while another file is loaded; a queue of two, one change, two client requests, two commands: enough for a change during an import, a load between generation and update, and an unload while the agent has the file |
| `session` | Are the tags of a call those the answering server held; does each server execute what was sent and survive it; is no server passed over; does every call end? | two servers and the mixer; four users: a lookup, a ping and a lookup the mixer has no source for, through the mixer, and two questions in a row without it; tags and snippets with quotes, backslashes, tabs and parentheses; one other client, silent, with a comment and an update, or with a comment it leaves open; one crash; `recv`s that are cut or empty; a buffer of fifty characters and a byte behind it, garbage at first with an old `#!new` that shorter requests leave there, so that the open comment is met both with and without a `#` behind it: one loads a tag file nobody asked for, the other ends the server; 238 841 states |
| `session_escapes` | Does every character of a snippet arrive? **No**: see the findings | no faults; one question, one snippet with apostrophes |

Deadlock is checked in `localindex` and `session` (there `Rest` stands for the states
in which nobody has anything left to do); it is not where the system may rest
otherwise: nobody has to put a value, and a query ends.

Every property has a mutant of the code under it (in the modules, marked
*Mutant of*), which violates it. Refinements checked: `FifoOrder`
(`PCQueue` implements `FifoChannel`), `AnswersOnce` (`ResultMixing` implements
`MixedAnswer`), `ImplementsRelation` (`LocalIndex` implements `TagsRelation`).

### Findings
`EveryRequestIndexed`: `TryGet` (pcqueue.h:71) takes a token of `full_`, and if `mu_`
is busy posts `empty_` and returns: the token of an element still in the deque is
gone. The agent's blocking `Get` then sleeps although a request is queued, and if
no file changes any more it is never indexed. `PutWakesAgent` shows the limit of
the damage: any later `Put` wakes it.

`ReplacementServes`: a starting mixer that tells the old one to shut down goes on
as soon as the old one has closed the connection, but the old one's listeners
are released only when its `exit(0)` is done. If the new process binds before, its
own `CHECK` ends it, and the old one exits too: no mixer is left, although
`--replace` promises a replacement (gtagsmixermain.cc:51).

`EveryCharacterArrives`: `CEscape` writes an apostrophe as `\'` (strutil.cc:42);
`unescape_string` of gtags.py has no case for it and drops it, although strutil.h:31
names the escapes.

### Met on the way
Not runs of their own; the models have these behaviours unless said otherwise.

- *Watcher.* The tracker's `CHECK`s end the process when a directory is made and
  deleted before its event is read, when an excluded directory is deleted, and
  when an event of a directory just removed by a request is read (`WatchFails`,
  `DeletedUnknown`, `BaseUnknown`); `GetPathname` hands out a pointer that `Remove` may
  free before it is used (`JoinFreedPath`). Excludes are compared with bare names
  (filewatcher.cc:230), so the absolute path in the example of
  socket_filewatcher_service.cc:33 excludes nothing. A directory under two
  spellings (`d`, `d/`) shares one descriptor, of which a REMOVE leaves an entry.
- *Prefixes.* `UnloadFilesInDir("a")` unloads `ab/x` as well (tagstable.cc:366), though
  it is to unload "all files contained in dir" (tagstable.h:114); the watches are
  removed by the same prefix (filewatcher.cc:125), which is why `RemovedStayOut`
  holds all the same.
- *Hand-over.* A starter whose `GET_VERSION` is cut, because that instance was just shut
  down by another starter, tells whoever holds the port next to shut down, also an
  instance as new as itself, though gtagsmixermain.cc:139 gives up where the "running
  mixer is at least as up to date": `*success = (version != 0)`
  (socket_version_service.cc:111) tests the pointer, not the version. `SurvivorServes`
  and `EveryStarterSettles` hold all the same.
- *Generators.* local_gentags.py exits normally when etags fails; the agent then
  loads an empty file, and a `CHECK` ends the mixer, where indexagent.cc:160 logs a
  failure.
- *Queries.* `max_results` cuts before the filter on language and client path
  (`AnswersAreTrue` states exactly what may be missing); the filter compares the
  language as a prefix, and with the whole `current-file`.
- *Server.* One `recv` is taken for a request: of a part, the part and what earlier
  requests left behind it are executed; an empty one executes the last request
  again. A comment of the old protocol without its closing sharp (`#e`) runs past the
  NUL (tagsrequesthandler.cc:101): what follows the next `#` in the stale bytes is
  executed, or memory is read that is not there. A reload or update of a file that
  cannot be read fails a `CHECK`, though the code has a `nil` for it
  (tagsrequesthandler.cc:132, 347). Only `\r\n` ends a line, though the mixer sends `\n`. An attribute that is
  no list, or a `)` too many, fails a `CHECK`. There is no timeout, so a silent
  client blocks everybody, and `SIGPIPE` is not handled.
- *Mixer.* A reply that is cut midway is reported as a result, with the part that came
  (socket.cc:203); it cannot be read and adds nothing to the answer.
- *Client.* Apostrophes, `\n` and `\r` are dropped; tabs come back as `t` through the
  mixer; `get-supported-protocol-versions` through the mixer becomes `(12)`, because
  `JoinResults` puts no blanks; an `((error ...))` of the mixer raises `KeyError`. After
  `NoAvailableServer` the last server stays current, and earlier ones are not tried
  again. A failover may execute a command twice.

## 5. Fairness

Weak fairness of the steps of a thread inside a call: threads are scheduled, and
the semaphore or mutex steps of these models are enabled continuously while a
thread can take them (a mutex is held over one step only). Consumers call `Get`
in an endless loop. Nobody has to put a value, and **no RPC has to end**: the
code has no timeout.

`MixerService` and `RPCCall`: weak fairness of the service thread and of the
waiter thread, which loop in `poll`; clients, servers and the threads that bring
responses need not do anything. `VersionHandover`: weak fairness of every
process, which is scheduled and whose calls to a live callee are answered by the
callee's version thread. `Session`: weak fairness of `ClientStep` alone, because
gtags.py has timeouts on connect and on data (`CONNECT_TIMEOUT`, `DATA_TIMEOUT`); no
server, mixer or other client has to do anything, and `EveryCallEnds` holds all the
same. `LocalIndex` and `WatchRequests` state no fairness: their properties are
about what holds whenever they are at rest.

## 6. Proofs

`IndexQueueProofs`, first part, about `PCQueue` alone (any set of threads, any
capacity, any mix of operations). The inductive invariant counts tokens: those of the semaphores plus those threads
carry are `Capacity` (`TokensConserved`); without `TryPut` a `full_` token, in a
semaphore or in a thread, always has an element (`Stranded >= 0`), which is why
`NeverPopsEmpty` holds, and so on. The refinement of `FifoChannel` needs that a
value is in one place only.

Second part (any producers, requests, capacity). `UsesTheQueue`: each step of
the agent and its producers is a step of `PCQueue` or leaves it alone, so that all
of the above holds here. `NamesAreOwnedOnce` needs that no value is twice in the
deque or also taken (`Distinct`), that what was taken is the batch and the freed,
apart (`TakenSplit`), and that nobody but the agent is ever about to take
(`ProducersPut`); its pops are safe because nobody calls `TryPut`
(`AgentPopsAreSafe`).

`ResultMixingProofs` (any finite set of services). The invariant `RMInv` says
who still owes a holder a report (`Awaited`), that `num_waiting_` is their number
(`CountOK`), that only the thread that made the last report may delete the
holder (`HolderOK`), how a source settles (`SettledOK`) and that the mixer counts
the sources not settled (`MixerOK`). None of the safety properties is inductive
without the count. From it: `NoUseAfterDelete`, `NoLeaks`,
`ImplementsMixedAnswer`.

`RPCCallProofs` (commands and replies in any number of pieces). The invariant `RPCInv`
is a disjunction: before the call, `Connecting1` (the `ClientSocket` owns the slot),
`Talking` (the `RPCSocket` does, and three of the four callbacks are gone), `After`. The
step that matters is the first one's end: the `RPCSocket` registers the same
descriptor before the `ClientSocket` unregisters, which then finds another owner and
must leave the slot alone (`HandOver`). From it: `FreedOnce`, `CalledAlive` (with the
`CHECK`s of the poll server), `ReplyIsWhole`.

`MixerServiceProofs` (any clients, descriptors, capacities). Three parties know which
descriptor belongs to which socket: the slots of the poll server, the socket, and
the kernel, which gives closed descriptors out again. `MSInv` says that they agree,
one to one (`TableOK`, `SlotsOwned`, `KernelOwned`), that the walk calls the owner of
`current_fd_` although handlers double the arrays and move the last slot into a
vacated one (`WalkOK`), and that a socket whose response is still to come lives and
has nothing to write (`ClientOK`). Lemmas about `Register` and `Unregister` (`Registers`,
`Doubled`, ...) say which slots they leave alone. The client's part is needed because
what closes a socket is its own response or its own hang-up, and the other of the
two must find it alive or find its callback gone. From it: `Owned`, `UsedAlive`,
`EventsReach`.

`LocalIndexProofs`, first part, about `TagsTable` alone (any names, addresses, flags,
bounds). The invariant `TableOK`
says what each index holds in terms of the heap alone: `map_` the addresses in
use, `filemap_` those of its file or nothing without the flag, `findfilemap_` a
positive count just for files with results, and every result belongs to a loaded
file. No index determines another without the heap, so neither `ResultsOwned` nor
`IndicesAgree` is inductive. Each operator (`UnloadFiles`, `AddFile`, `Parsed`) has a
lemma about its fields, one about `TableOK` and one about its content; the last
give `ImplementsTheRelation`.

Second part (any clients, files, generators' failures). `UsesTheTable`: the
three threads touch the table only by its operations, under the mutex; with it
the three theorems about `TagsTable` hold of `LocalIndex`. `RemovedStaysOut` rests on
`AllAccounted`: a file in the table, *or on its way there* (an event, the noticed
name, the queue, the agent's batch), is watched, excused, being imported, or about
to be unloaded; and on `TagFileOwned`: an open tag file names only files of its
owner. The step that matters is `RemoveDirectoryRecursive`: watches go by a prefix
of the directory, files by a prefix of the file, and the first implies the second
(`PrefixOfFile`).

`AnswersAreTheTable`: while the poll thread prints, its results are still what the
query finds, because it has the mutex and no tag file is open (`PrintOK`). The
results found are then counted by file and tag (`FoundIsHeld`, `HeldIsCounted`), and
their number is the sum of these counts: `CountedByKey` maps each result to its key
and its rank under that key, one to one, so that no induction over the set is
needed.

`TableIsFreshAtRest`. Every file that is not stale is at one of
five stations (`Fresh`): its name waits, the agent has it, the tag file made says
what is on disk, the open tag file does, or the table shows it and no tag file
under way names it. Each station leads only to a later one or, by a change on
disk, back to the first.

`VersionHandoverProofs` (any starters and versions): `UpToDateStays`. That nobody
disturbs an instance in one step needs that nobody is past the question to it:
while it serves and no starter is newer or told to replace it, every starter asks,
waits for *its* answer, or is gone (`Undisturbed`), because it owns the version port.

`WatchRequestsProofs` (any tree, any requests): `ExcludesLocal`. The invariant
speaks of all commands to come, in the queue or not yet put: a name is excluded
when the worker comes to a command if the last command about it adds it
(`Forced`); each directory finds the names of its own request `Forced` and no
others, and none is after the last command (`Bracketed`). Taking the first
command and appending the commands of a request keep this; two requests that were
pushed at the same time would not, but there is one service thread.

The second part of `WatchRequestsProofs` is about the watcher itself (any tree, any
events, any removals). `FWInv` follows a directory and a change from the file system
to the maps and to the index queue:

- the tree and the kernel: a path that nobody ever deleted was made once, and its watch
  lives (`TreeOK`, `KernelOK`, `EventsOK`);
- the maps: an entry stands for the directory its descriptor was made for, and
  unless that was deleted it has a way back (`MapsOK`); what the threads are about to
  store, remove or join is right (`ThreadOK`, `JoinOK`);
- the worker: the frames of a scan and the directories of a sweep (`StackOK`, `SweepOK`);
- each directory that is due is in the map, on the stack of the scan, or announced by
  an event which is still to be handled (`Noticed`), and each change that is owed is queued
  or in an event whose descriptor the map still understands (`Reported`).

None of the three properties is inductive: while a scan runs and events wait, the maps
lag behind the tree, and a descriptor may be removed by one thread between the
other's look-up and its use. A removal takes entries by a prefix of their name, so it
also takes siblings whose names begin alike; that it takes nothing else, whatever
slash either name ends with, is `ScopeOfPrefix`.
At rest nothing is on the way, which leaves the map (`DirectoriesWatched`) and the
queue (`ChangesQueued`). That the two maps are inverse (`PathMapIsSound`) needs that no
directory has two spellings (`OneSpelling`): inotify gives `d` and `d/` the same
descriptor, `pathname_to_wd_map_` then has two entries for it, and a removal
leaves one of them. The other two theorems do not need it.

`SessionProofs` (any servers, users, questions, tables, garbage, crashes, strangers,
tag files and cuts). `NoServersSkipped` needs nothing else: the servers before the
current one have failed, or all have (`ManagerOK`).

`SentIsUnderstood` and `RequestsAreHarmless` are about a buffer that keeps what earlier
requests left. What was sent arrives at the begin of it (`ReceivedIs`). A line that ends
with `\r\n` ends at its NUL (`Stripped`), and a comment that is closed ends before it, so
that a stranger's line is understood as well, whatever it is (`ExecuteString`). An open
comment is excepted: there the theorem would be false. A list of the mixer has no
NUL; behind it the buffer goes on with anything (`Kept`), and it is understood all the same because the
parser stops at the parenthesis that closes it: `ParsePrefix`, *an expression that ends
within a text is read the same in every longer text*. To prove that of recursive
functions, `ReaderIs` and `ParserIs` first show that their definitions hold, by building
the functions rank by rank (`ReadsMore`, `ParsesMore`; the induction is over a set of
numbers, with `AllNumbers`), because every step of the parser looks only at
later positions, or from the list at its first item (`NextLocal`); a second
induction over the same ranks compares the two texts (`NextSame`). The invariant
`SessionInv` adds that each table is one of `HeldTables`, where each text comes from
(`Brings`: a connection brings the line of a question, what the mixer wrote for one, a
line of a stranger or nothing), and what came of it (`Taken`). Only a stranger, or a request that came in part, ends a server:
`RequestsAreUsable` says that a question does not, *for every table there may be*, because
loads change the tables between the requests.

`CallsAreAnswered` follows an answer back. `Linked` says that the job with the number of
a call has its line, and the connection with the number of a job's RPC brings what the
mixer wrote for that line; `LinkedKept` is the argument, that each step leaves a call, job or
connection as it was or gives it a number nothing else has (`NewIdFresh`). `AnswerInv`
adds `RightAnswer`: what a job already has, the local part or the mixed answer, is an
answer to its own line. `AnswersWhatWasAsked` alone is not inductive, since a
call can time out, be tried again at another server, and find the answer
of its first attempt under way; nor is it with the links only, since an answer is mixed in
one step and delivered in another.

What stays a hypothesis are the three facts about the codecs: what a *given* question
becomes, and what a *given* answer is read as. `SentIsUnderstood` has
`MixerForwardsLists`, `RequestsAreHarmless` also `RequestsAreUsable`, `CallsAreAnswered`
also `AnswersAreReadable`. They quantify over the questions and tables of the
constants, are not about behaviours, and TLC evaluates them on the session runs. That
they hold for every text would be an induction over texts; for some texts they do
not (see the findings), which is why `AnswersAreReadable` excepts the characters that are lost.

Assumptions: `PCQueueAssumption`, `IndexQueueAssumption` (second part only),
`ResultMixingAssumption`, `PollServerAssumption`, `RPCCallAssumption`,
`MixerServiceAssumption`, `TagsTableAssumption`, `LocalIndexAssumption`,
`VersionHandoverAssumption`, `FileWatcherAssumption`, `WatchRequestsAssumption`,
`SessionAssumption`: names are
distinct and of their kind, versions are numbers, paths are non-empty lists of names
with their parents, a query is one of the three lookups, the parts of a request
are lists, sizes are positive, texts are sequences without a NUL, what `MakeCommand` writes
begins with a parenthesis, other clients send lines that end with `\r\n` or nothing,
calls through the mixer load no tag file, `HeldTables` is closed under loads, and sets
are finite where they are counted. TLC evaluates them in the runs.

Only model-checked: liveness (`EveryValueTaken`, `PutWakesAgent`, `TakenIsFreed`,
`FirstResultSuffices`, `AllFailuresAnswer`, `LineExecuted`, `ResponseDelivered`,
`EndedCallReports`, `EveryStarterSettles`, `SurvivorServes`, `EveryCallEnds`;
liveness and ENABLED are out of TLAPS's reach), and what the codecs of `TagsProtocol`
make of a given text (`CodecsAgree`), an induction over data. Every other invariant
and action property of a passing run has its theorem.

## 7. Left out

Logging, the query log, clock readings and the profile; ranking of results by
distance of file names; queries for the pseudo-language `local`; the window in
which two threads share the static buffer of `CEscape`. In `MixerService`: an append
to `outbuf_` is one step (the code does it without a lock while the service thread
may send), a client sends one line (a second one would be executed too, and its
response could come to a socket that deleted itself after the first), `SIGPIPE`.
The poll server's loop callback, which nothing sets, and the timeout of `poll`. A
`Stop()` that comes before `Loop()` is lost (`pollserver.cc:109`): modelled, but no
property demands otherwise, since nothing in the programs calls `Stop`.

In `TagsTable`: header values, which no lookup uses (the default for callers is
reset by every load and read from a field that is never set for a call,
tagstable.cc:597), line numbers and snippets (`TagsProtocol` has them). In
`LocalIndex`: the watcher is the set of directories it watches, and the agent takes
the whole queue at once; `FileWatcher` and `IndexQueue` have the detail. The second
handler, for callers, which only `--index_callgraph` fills. In `FileWatcher`: moves
of directories (the tracker has no handler for them), links, a kernel queue that
overflows, directories whose names look like source files; the listing of a
directory is taken at once when it is opened. In `Session`: regular expressions are
texts that match themselves; time is who gives up first; proxies and
`remove_server`; `find-file`, which no client of the repository sends.

Not modelled: settings, flags and options (read once by one thread), the Vim and
Emacs front ends, what etags finds in a source file, `gentags.py` and `rtags.py`
(sequential programs without state), the thin wrappers of pthreads and of
callbacks. `PROJECT.json` lists each with its reason.
