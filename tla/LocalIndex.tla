----------------------------- MODULE LocalIndex -----------------------------
(* The local index of the mixer: one TagsTable behind the mutex of           *)
(* LocalTagsRequestHandler (tagsrequesthandler.cc), which three threads use. *)
(*   - the poll thread executes the queries of the mixer's clients;          *)
(*   - the IndexAgent (indexagent.cc) takes the names of changed files from  *)
(*     its queue, has the tag generators (local_gentags.py, etags_to_tags.py)*)
(*     write a tag file for them, and loads that file;                       *)
(*   - the FileWatcherRequestWorker adds directories to the watcher, which   *)
(*     imports their files, and removes them and unloads their files.        *)
(* The watcher thread turns the events of watched directories into names on  *)
(* the queue of the agent.                                                   *)
(*                                                                           *)
(* Abstracted: the watcher is the set of directories it watches (FileWatcher *)
(* has its threads and its map); the events of one file that wait together   *)
(* count as one; the queue is a FIFO (PCQueue) and the agent takes all of it *)
(* (IndexQueue has the single Gets).  Only the definition handler is there:  *)
(* without --index_callgraph the other one stays empty.  A generator reads   *)
(* its files at one moment: what each holds matters only by itself.          *)
(* Bounds: MaxChanges, MaxRequests (of clients) and MaxCommands (of the      *)
(* worker).                                                                  *)
EXTENDS TagsTable, SequencesExt

CONSTANTS
  Contents,    \* what a file may hold: how often each tag
  Disks,       \* what all files may hold at first
  Languages,   \* Languages[f]: what guess_language says of a file
  Queries,     \* what clients ask: command, argument, language, client path
  TagFiles,    \* the tag files clients name, as sequences of declarations
  Failures,    \* how the generators fail: with a status, or silently
  QueueSize, MaxChanges, MaxRequests, MaxCommands,
  Nobody       \* neither a thread nor a file

(* What stands in a tag file, of what matters here.                          *)
Declarations ==
  [kind : {"version", "header", "malformed"}] \cup [kind : {"deleted"}, file : Files]
  \cup [kind : {"file"}, file : Files, counts : Counts]

Threads == {"poll", "agent", "worker"}

ASSUME LocalIndexAssumption ==
  /\ Absent \notin Contents
  /\ TagFiles \subseteq Seq(Declarations)
  /\ Nobody \notin Threads \cup Files
  /\ Contents \subseteq Counts
  /\ Disks \subseteq [Files -> Contents \cup {Absent}]
  /\ Failures \subseteq {"status", "silent"}
  /\ \A q \in Queries : q.command \in {"lookup-tag-exact", "lookup-tag-prefix-regexp",
                                       "lookup-tags-in-file"}
  /\ QueueSize \in Nat \ {0}
  /\ MaxChanges \in Nat /\ MaxRequests \in Nat /\ MaxCommands \in Nat

VARIABLES
  disk,      \* what each file holds, or Absent
  changes,   \* how many changes there have been
  watched,   \* the directories the watcher watches
  events,    \* files with an inotify event that is not handled yet
  noticed,   \* the file the watcher thread is about to put, or Nobody
  queue,     \* the index request queue
  owner,     \* who holds mu_, or Nobody
  tagfile,   \* the declarations of the open tag file yet to be read
  agent,     \* the agent: pc, its files, the tag file made for them
  worker,    \* the worker: pc, its directory, the files to import
  poll,      \* the poll thread: pc, the query, the results found
  requests,  \* how many there have been
  commands,  \* how many there have been
  stale,     \* history: files the table need not show as they are
  excused    \* history: files that may be loaded though nobody watches them

diskVars == <<disk, changes>>
watchVars == <<watched, events, noticed>>
lockVars == <<owner, tagfile>>
histVars == <<stale, excused>>
boundVars == <<requests, commands>>
liVars == <<vars, diskVars, watchVars, queue, lockVars, agent, worker, poll,
            boundVars, histVars>>

FilesIn(d) == {f \in Files : HasPrefixString(f, d)}

(* The file is in one of the directories, which is what a watch is about.    *)
In(dirs, f) == \E d \in dirs : f = d \o <<"/">> \o Basename(f)

Watched(f) == In(watched, f)

LIInit ==
  /\ Init
  /\ disk \in Disks
  /\ changes = 0
  /\ watched = {} /\ events = {} /\ noticed = Nobody
  /\ queue = <<>>
  /\ owner = Nobody /\ tagfile = <<>>
  /\ agent = [pc |-> "get", files |-> {}, made |-> <<>>]
  /\ worker = [pc |-> "idle", dir |-> Nobody, todo |-> {}]
  /\ poll = [pc |-> "idle", query |-> Nobody, matches |-> {}, answer |-> Nobody]
  /\ requests = 0 /\ commands = 0
  /\ stale = Files /\ excused = {}

-----------------------------------------------------------------------------
(* The file system, while others run.  The index event handler listens to    *)
(* writes, creations and deletions: each is an event if the file is watched. *)
Change(f, content) ==
  /\ changes < MaxChanges /\ changes' = changes + 1
  /\ content # disk[f]
  /\ disk' = [disk EXCEPT ![f] = content]
  /\ IF Watched(f)
     THEN events' = events \cup {f} /\ UNCHANGED stale
     ELSE stale' = stale \cup {f} /\ UNCHANGED events
  /\ UNCHANGED <<vars, watched, noticed, queue, lockVars, agent, worker, poll,
                 boundVars, excused>>

(* The watcher thread handles an event whose watch it still knows.           *)
DoIndexing(f) ==
  /\ noticed = Nobody /\ f \in events
  /\ events' = events \ {f}
  /\ noticed' = f
  /\ UNCHANGED <<vars, diskVars, watched, queue, lockVars, agent, worker, poll,
                 boundVars, histVars>>

(* Put blocks while the queue is full.                                       *)
Put(f) ==
  /\ Len(queue) < QueueSize
  /\ queue' = Append(queue, f)
  /\ stale' = stale \ {f}

PutNoticed ==
  /\ noticed # Nobody
  /\ Put(noticed)
  /\ noticed' = Nobody
  /\ UNCHANGED <<vars, diskVars, watched, events, lockVars, agent, worker, poll,
                 boundVars, excused>>

-----------------------------------------------------------------------------
(* The mutex.                                                                *)
Lock(t) == owner = Nobody /\ owner' = t

Unlock(t) == owner = t /\ owner' = Nobody

Readable(decls) == decls # <<>> /\ Head(decls).kind = "version"

Open(decls) == tagfile' = IF Readable(decls) THEN Tail(decls) ELSE <<>>

(* The thread that loads a tag file reads its next declaration.              *)
ReadDeclaration(t) ==
  /\ owner = t /\ loading # "no" /\ tagfile # <<>>
  /\ tagfile' = Tail(tagfile)
  /\ LET decl == Head(tagfile)
     IN \/ decl.kind = "file" /\ ParseFileDeclaration(decl.file, decl.counts)
        \/ decl.kind = "deleted" /\ ParseDeletedDeclaration(decl.file)
        \/ decl.kind = "header" /\ ParseHeaderDeclaration(FALSE)
        \/ decl.kind = "malformed" /\ ParseHeaderDeclaration(TRUE)
  /\ UNCHANGED <<diskVars, watchVars, queue, owner, agent, worker, poll,
                 boundVars, histVars>>

CloseTagFile(t) ==
  /\ tagfile = <<>>
  /\ EndOfTagFile
  /\ Unlock(t)
  /\ UNCHANGED <<diskVars, watchVars, queue, tagfile, worker, boundVars, histVars>>

-----------------------------------------------------------------------------
(* The index agent.                                                          *)

(* Mutant of GetRequests: only the first of the waiting names is indexed.    *)
GetRequestsKeepsFirst ==
  /\ agent.pc = "get" /\ queue # <<>>
  /\ agent' = [pc |-> "index", files |-> {Head(queue)}, made |-> <<>>]
  /\ queue' = <<>>
  /\ UNCHANGED <<vars, diskVars, watchVars, lockVars, worker, poll, boundVars, histVars>>

GetRequests ==
  /\ agent.pc = "get" /\ queue # <<>>
  /\ agent' = [pc |-> "index", files |-> Range(queue), made |-> <<>>]
  /\ queue' = <<>>
  /\ UNCHANGED <<vars, diskVars, watchVars, lockVars, worker, poll, boundVars, histVars>>

(* What write_tags_file writes: a header, and each file that etags read.     *)
Written(fs) ==
  <<[kind |-> "version"], [kind |-> "header"]>>
  \o [i \in 1 .. Cardinality(fs) |->
        LET f == SetToSeq(fs)[i]
        IN [kind |-> "file", file |-> f, counts |-> disk[f]]]

(* The generators do their work: a file that is gone is left out.            *)
Generate ==
  /\ agent.pc = "index"
  /\ LET present == {f \in agent.files : disk[f] # Absent}
     IN /\ agent' = [agent EXCEPT !.pc = "update", !.made = Written(present)]
        /\ stale' = stale \cup (agent.files \ present)
  /\ UNCHANGED <<vars, diskVars, watchVars, queue, lockVars, worker, poll,
                 boundVars, excused>>

Idle == [pc |-> "get", files |-> {}, made |-> <<>>]

(* They fail.  With a status, the agent deletes the temporary file and there *)
(* is no update.  But when etags fails, local_gentags.py ends normally, and  *)
(* the temporary file is there, as empty as MakeTempFile made it.            *)
FailToGenerate(how) ==
  /\ agent.pc = "index"
  /\ agent' = IF how = "status" THEN Idle
                                ELSE [agent EXCEPT !.pc = "update", !.made = <<>>]
  /\ stale' = stale \cup agent.files
  /\ UNCHANGED <<vars, diskVars, watchVars, queue, lockVars, worker, poll,
                 boundVars, excused>>

Update ==
  /\ agent.pc = "update"
  /\ Lock("agent")
  /\ UpdateTagFile(Readable(agent.made))
  /\ Open(agent.made)
  /\ agent' = [agent EXCEPT !.pc = "load"]
  /\ UNCHANGED <<diskVars, watchVars, queue, worker, poll, boundVars, histVars>>

DoneRequests ==
  /\ agent.pc = "load"
  /\ CloseTagFile("agent")
  /\ agent' = Idle
  /\ UNCHANGED poll

-----------------------------------------------------------------------------
(* The worker.                                                               *)

(* AddDirectoryRecursive reads the directory, imports its files one by one,  *)
(* and only then watches it.                                                 *)
AddDirectoryRecursive(d) ==
  /\ worker.pc = "idle" /\ commands < MaxCommands
  /\ commands' = commands + 1
  /\ worker' = [pc |-> "import", dir |-> d,
                todo |-> {f \in Files : In({d}, f) /\ disk[f] # Absent}]
  /\ UNCHANGED <<vars, diskVars, watchVars, queue, lockVars, agent, poll,
                 requests, histVars>>

HandleImport(f) ==
  /\ worker.pc = "import" /\ f \in worker.todo
  /\ Put(f)
  /\ worker' = [worker EXCEPT !.todo = @ \ {f}]
  /\ UNCHANGED <<vars, diskVars, watchVars, lockVars, agent, poll, boundVars, excused>>

AddDirectory ==
  /\ worker.pc = "import" /\ worker.todo = {}
  /\ watched' = watched \cup {worker.dir}
  /\ worker' = [worker EXCEPT !.pc = "idle"]
  /\ UNCHANGED <<vars, diskVars, events, noticed, queue, lockVars, agent, poll,
                 boundVars, histVars>>

(* Mutant of RemoveDirectoryRecursive: the watch descriptors stay known, and *)
(* the events that wait are handled.                                         *)
RemoveKeepsDescriptors(d) ==
  /\ worker.pc = "idle" /\ commands < MaxCommands
  /\ commands' = commands + 1
  /\ watched' = {w \in watched : ~HasPrefixString(w, d)}
  /\ worker' = [pc |-> "unload", dir |-> d, todo |-> {}]
  /\ UNCHANGED <<vars, diskVars, events, noticed, queue, lockVars, agent, poll,
                 requests, histVars>>

(* The watches of a directory, and of those whose names begin with its name. *)
(* Events that still wait have an unknown descriptor now: DoIndexing drops   *)
(* them.                                                                     *)
RemoveDirectoryRecursive(d) ==
  /\ worker.pc = "idle" /\ commands < MaxCommands
  /\ commands' = commands + 1
  /\ watched' = {w \in watched : ~HasPrefixString(w, d)}
  /\ events' = {f \in events : In(watched', f)}
  /\ stale' = stale \cup (events \ events')
  /\ worker' = [pc |-> "unload", dir |-> d, todo |-> {}]
  /\ UNCHANGED <<vars, diskVars, noticed, queue, lockVars, agent, poll,
                 requests, excused>>

(* Names on their way to the agent, or with it.                              *)
Pending == {noticed} \cup Range(queue) \cup agent.files

(* Mutant of UnloadRemoved: without the mutex.                               *)
UnloadUnlocked ==
  /\ worker.pc = "unload"
  /\ UnloadFilesInDir(worker.dir)
  /\ stale' = stale \cup FilesIn(worker.dir)
  /\ excused' = (excused \ FilesIn(worker.dir)) \cup (Pending \cap FilesIn(worker.dir))
  /\ worker' = [worker EXCEPT !.pc = "idle"]
  /\ UNCHANGED <<diskVars, watchVars, queue, lockVars, agent, poll, boundVars>>

(* The worker unloads the files of the directory, with the mutex.            *)
UnloadRemoved ==
  /\ worker.pc = "unload"
  /\ owner = Nobody
  /\ UnloadFilesInDir(worker.dir)
  /\ stale' = stale \cup FilesIn(worker.dir)
  /\ excused' = (excused \ FilesIn(worker.dir)) \cup (Pending \cap FilesIn(worker.dir))
  /\ worker' = [worker EXCEPT !.pc = "idle"]
  /\ UNCHANGED <<diskVars, watchVars, queue, lockVars, agent, poll, boundVars>>

-----------------------------------------------------------------------------
(* The poll thread executes a query.                                         *)

(* LanguageClientTagsResultPredicate.                                        *)
Test(f, q) == /\ HasPrefixString(Languages[f], q.language)
              /\ HasPrefixString(f, q.client_path)

(* What the commands find, before max_results.                               *)
Found(q) ==
  CASE q.command = "lookup-tag-exact" -> FindTags(q.arg)
    [] q.command = "lookup-tag-prefix-regexp" -> FindRegexpTags(q.arg)
    [] q.command = "lookup-tags-in-file" ->
         IF fileindex THEN FindTagsByFile(q.arg) ELSE {}

Find(q) ==
  /\ poll.pc = "idle" /\ requests < MaxRequests
  /\ requests' = requests + 1
  /\ Lock("poll")
  /\ \E cut \in Cut(Found(q)) :
       poll' = [pc |-> "print", query |-> q, matches |-> cut, answer |-> Nobody]
  /\ UNCHANGED <<vars, diskVars, watchVars, queue, tagfile, agent, worker,
                 commands, histVars>>

(* How often the answer says that a file has a tag.                          *)
PrintTagsResults ==
  /\ poll.pc = "print"
  /\ poll' = [poll EXCEPT !.pc = "idle", !.matches = {},
                !.answer = [f \in Files |-> [t \in Tags |->
                   Cardinality({r \in poll.matches : /\ table.heap[r] = [tag |-> t, file |-> f]
                                                     /\ Test(f, poll.query)})]]]
  /\ Unlock("poll")
  /\ UNCHANGED <<vars, diskVars, watchVars, queue, tagfile, agent, worker,
                 boundVars, histVars>>

NamedIn(decls) == {decls[i].file : i \in {j \in DOMAIN decls :
                                             decls[j].kind \in {"file", "deleted"}}}

(* A client may have a tag file loaded instead of the table, or over it.     *)
LoadRequested(reload, decls) ==
  /\ poll.pc = "idle" /\ requests < MaxRequests
  /\ requests' = requests + 1
  /\ Lock("poll")
  /\ IF reload THEN ReloadTagFile(Readable(decls)) ELSE UpdateTagFile(Readable(decls))
  /\ Open(decls)
  /\ poll' = [poll EXCEPT !.pc = "load"]
  /\ stale' = IF reload THEN Files ELSE stale \cup NamedIn(decls)
  /\ excused' = excused \cup NamedIn(decls)
  /\ UNCHANGED <<diskVars, watchVars, queue, agent, worker, commands>>

LoadDone ==
  /\ poll.pc = "load"
  /\ CloseTagFile("poll")
  /\ poll' = [poll EXCEPT !.pc = "idle"]
  /\ UNCHANGED agent

-----------------------------------------------------------------------------
(* Nothing is left to do, and nobody is in the middle of something.          *)
AtRest ==
  /\ events = {} /\ noticed = Nobody /\ queue = <<>>
  /\ agent.pc = "get" /\ worker.pc = "idle" /\ poll.pc = "idle"

Rest == (AtRest \/ died # "no") /\ UNCHANGED liVars

Watching ==
  \/ \E f \in Files : \/ \E content \in Contents \cup {Absent} : Change(f, content)
                      \/ DoIndexing(f)
  \/ PutNoticed

Agent ==
  \/ GetRequests \/ Generate \/ Update \/ ReadDeclaration("agent") \/ DoneRequests
  \/ \E how \in Failures : FailToGenerate(how)

Work ==
  \/ \E d \in Dirs : AddDirectoryRecursive(d) \/ RemoveDirectoryRecursive(d)
  \/ \E f \in Files : HandleImport(f)
  \/ AddDirectory \/ UnloadRemoved

Poll ==
  \/ \E q \in Queries : Find(q)
  \/ PrintTagsResults
  \/ \E reload \in BOOLEAN, decls \in TagFiles : LoadRequested(reload, decls)
  \/ ReadDeclaration("poll") \/ LoadDone

LINext == (died = "no" /\ (Watching \/ Agent \/ Work \/ Poll)) \/ Rest

LISpec == LIInit /\ [][LINext]_liVars

-----------------------------------------------------------------------------
(* At rest the table shows each file as it is on disk, except those that     *)
(* were changed when nobody watched them, that the generators failed on or   *)
(* found gone, that were unloaded, or that a client loaded.                  *)
FreshAtRest ==
  AtRest /\ died = "no" => \A f \in Files \ stale : Content[f] = disk[f]

(* The files of a removed directory stay out of the table, except those whose*)
(* names were with the agent or on their way to it at the unload, or that a  *)
(* client loaded.                                                            *)
RemovedStayOut ==
  AtRest /\ died = "no" => \A f \in table.loaded : Watched(f) \/ f \in excused

(* How often a file has a tag, for a query that asks for it.                 *)
Asked(q, f, t) ==
  CASE q.command = "lookup-tag-exact" -> t = q.arg
    [] q.command = "lookup-tag-prefix-regexp" -> t \in q.arg
    [] q.command = "lookup-tags-in-file" -> fileindex /\ f = q.arg

Holds(q, f, t) == IF f \in table.loaded /\ Asked(q, f, t) THEN Content[f][t] ELSE 0

(* How much there is to find: <<p, i>> stands for the i-th time that file    *)
(* p[1] has tag p[2].                                                        *)
Total(q) ==
  Cardinality({e \in (Files \X Tags) \X (1 .. Cardinality(Results)) :
                 e[2] <= Holds(q, e[1][1], e[1][2])})

(* An answer is what the table holds at that moment, of the files the client *)
(* may see: nothing of a file that is being replaced, nothing deleted.  Only *)
(* when there are more than max_results in all may some be missing.          *)
AnswersAreTrue ==
  [][PrintTagsResults =>
       \A f \in Files, t \in Tags :
         LET held == IF Test(f, poll.query) THEN Holds(poll.query, f, t) ELSE 0
         IN /\ poll'.answer[f][t] <= held
            /\ Total(poll.query) <= MaxResults => poll'.answer[f][t] = held]_liVars

=============================================================================
