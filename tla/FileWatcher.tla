----------------------------- MODULE FileWatcher -----------------------------
(***************************************************************************)
(* InotifyFileWatcher, its map of paths and watch descriptors, and its two *)
(* event handlers DirectoryTracker and IndexEventHandler (filewatcher.cc). *)
(* Two threads use it: the inotify thread, which reads events, and the     *)
(* FileWatcherRequestWorker, which adds and removes trees of directories   *)
(* (WatchRequests).  The file system and the kernel's inotify go on at the *)
(* same time; each call of the watcher to them or to its locked map is a   *)
(* step of its own.                                                        *)
(*                                                                         *)
(* Abstracted: a path is a sequence of names.  A directory has at most one *)
(* file, whose name passes the extension filter and the prefix filter; the *)
(* names of directories do not.  The kernel never uses a watch descriptor  *)
(* again.  Nothing is moved, and there are no links.  The paths of the     *)
(* watcher are strings: one that ends with a slash has an empty last name. *)
(* Bound: MaxChanges, on the changes of the file system.                   *)
(***************************************************************************)
EXTENDS Integers, Sequences, SequencesExt

CONSTANTS Paths,        \* the paths a directory may have
          NoName,       \* the empty name
          NamePrefixes, \* <<a, b>>: the characters of name a begin name b
          InitialTrees, \* the directories there may be at first
          MaxChanges

ASSUME FileWatcherAssumption ==
  /\ \A p \in Paths : /\ p \in Seq({p[i] : i \in DOMAIN p}) /\ p # <<>>
                      /\ Len(p) > 1 => Front(p) \in Paths
  /\ \A p \in Paths : \A i \in 1 .. Len(p) : /\ p[i] # NoName
                                             /\ <<p[i], p[i]>> \in NamePrefixes
                                             /\ <<NoName, p[i]>> \in NamePrefixes
                                             /\ <<p[i], NoName>> \notin NamePrefixes
  /\ \A T \in InitialTrees : \A p \in T : p \in Paths /\ (Len(p) > 1 => Front(p) \in T)
  /\ MaxChanges \in Nat

Inotify == "inotify"
Worker == "worker"

VARIABLES
  dirs,      \* the directories that exist
  birth,     \* how often each path has been made
  files,     \* the directories whose file exists
  changes,   \* how many changes there have been
  made,      \* per watch descriptor: the directory it was made for
  live,      \* the descriptors whose watch the kernel has
  events,    \* inotify events not handled yet, in the kernel or event_buffer_
  wdOf,      \* pathname_to_wd_map_
  pathOf,    \* wd_to_pathname_
  excludes,  \* exclude_list_
  pc,        \* where each thread is
  target,    \* the argument of AddDirectory
  wd,        \* the descriptor being added or removed
  event,     \* the event being handled
  dangling,  \* the path GetPathname gave the inotify thread has been deleted
  stack,     \* frames of AddDirectoryRecursive: dir, and what is left of it
  sweep,     \* descriptors RemoveDirectoryRecursive has yet to remove
  queued,    \* the files put on the index queue: <<dir, change>>; 0: an import
  ended,     \* the process: no, check (a CHECK failed), undefined
  due,       \* history: directories the watcher was to watch
  owed,      \* history: the changes of files in monitored directories
  disturbed  \* history: directories once deleted, or in the scope of a removal

fsVars == <<dirs, birth, files, changes>>
kernelVars == <<made, live, events>>
mapVars == <<wdOf, pathOf>>
threadVars == <<pc, target, wd, event, dangling, stack, sweep>>
history == <<due, owed, disturbed>>
watchVars == <<fsVars, kernelVars, mapVars, excludes, threadVars, queued, ended,
               history>>

NoEvent == [wd |-> 0, op |-> "none", name |-> "", change |-> 0]

FWInit ==
  /\ dirs \in InitialTrees
  /\ birth = [p \in Paths |-> IF p \in dirs THEN 1 ELSE 0]
  /\ files = {} /\ changes = 0
  /\ made = <<>> /\ live = {} /\ events = <<>>
  /\ wdOf = <<>> /\ pathOf = <<>> /\ excludes = {}
  /\ pc = [t \in {Inotify, Worker} |-> IF t = Inotify THEN "read" ELSE "idle"]
  /\ target = [t \in {Inotify, Worker} |-> <<>>]
  /\ wd = [t \in {Inotify, Worker} |-> 0]
  /\ event = NoEvent /\ dangling = FALSE
  /\ stack = <<>> /\ sweep = {}
  /\ queued = {} /\ ended = "no"
  /\ due = {} /\ owed = {} /\ disturbed = {}

\* The directory a path of the watcher is of; JoinPath adds a slash if needed.
Dir(path) == IF Last(path) = NoName THEN Front(path) ELSE path
JoinPath(base, name) == Append(Dir(base), name)

Goto(t, from, to) == pc[t] = from /\ pc' = [pc EXCEPT ![t] = to]

-----------------------------------------------------------------------------
(* The file system and the kernel.                                         *)

WatchesOn(p) == {w \in live : made[w] = <<p, birth[p]>>}

\* The event of a change in directory d, if d is watched.
Notify(d, op, name) ==
  events' = events \o SetToSeq({[wd |-> w, op |-> op, name |-> name, change |-> changes + 1] :
                                w \in WatchesOn(d)})

\* What happens in directory p is seen: it is watched, and its events are
\* understood.
Monitored(p) == \E w \in WatchesOn(p) : w \in DOMAIN pathOf

Change == changes < MaxChanges /\ changes' = changes + 1

Mkdir(p) ==
  /\ Change
  /\ p \notin dirs /\ Len(p) > 1 /\ Front(p) \in dirs
  /\ dirs' = dirs \cup {p}
  /\ birth' = [birth EXCEPT ![p] = @ + 1]
  /\ Notify(Front(p), "mkdir", Last(p))
  /\ due' = IF Monitored(Front(p)) THEN due \cup {p} ELSE due
  /\ UNCHANGED <<files, made, live, owed, disturbed>>

\* The kernel removes the watch of a directory that goes.
Rmdir(p) ==
  /\ Change
  /\ p \in dirs \ files /\ Len(p) > 1
  /\ \A q \in dirs : Len(q) > 1 => Front(q) # p
  /\ dirs' = dirs \ {p}
  /\ live' = live \ WatchesOn(p)
  /\ Notify(Front(p), "rmdir", Last(p))
  /\ due' = due \ {p}
  /\ disturbed' = disturbed \cup {p}
  /\ UNCHANGED <<birth, files, made, owed>>

\* The file of p is made, modified or deleted.
ChangeFile(p) ==
  /\ Change
  /\ p \in dirs
  /\ files' \in {files \cup {p}} \cup (IF p \in files THEN {files \ {p}} ELSE {})
  /\ Notify(p, "file", "")
  /\ owed' = IF Monitored(p) THEN owed \cup {<<p, changes + 1>>} ELSE owed
  /\ UNCHANGED <<dirs, birth, made, live, due, disturbed>>

FileSystem ==
  /\ \E p \in Paths : Mkdir(p) \/ Rmdir(p) \/ ChangeFile(p)
  /\ UNCHANGED <<mapVars, excludes, threadVars, queued, ended>>

-----------------------------------------------------------------------------
(* PathnameWatchDescriptorMap.  Each call is under mutex_.                 *)

Put(f, k, v) == [x \in DOMAIN f \cup {k} |-> IF x = k THEN v ELSE f[x]]
Drop(f, k) == [x \in DOMAIN f \ {k} |-> f[x]]

MapAdd(p, w) ==
  /\ wdOf' = Put(wdOf, p, w)
  /\ pathOf' = Put(pathOf, w, p)

\* Mutant of MapRemove: the path stays in the first map.
MapRemoveHalf(w) ==
  IF w \in DOMAIN pathOf
  THEN /\ UNCHANGED wdOf
       /\ pathOf' = Drop(pathOf, w)
       /\ dangling' = (dangling \/ (pc[Inotify] \in {"join", "put"} /\ event.wd = w))
  ELSE UNCHANGED <<mapVars, dangling>>

\* Deletes the path, which the inotify thread may be about to join.
MapRemove(w) ==
  IF w \in DOMAIN pathOf
  THEN /\ wdOf' = Drop(wdOf, pathOf[w])
       /\ pathOf' = Drop(pathOf, w)
       /\ dangling' = (dangling \/ (pc[Inotify] \in {"join", "put"} /\ event.wd = w))
  ELSE UNCHANGED <<mapVars, dangling>>

\* var_strprefix: the characters of d begin those of p.
StartsWith(p, d) ==
  /\ Len(d) <= Len(p)
  /\ SubSeq(p, 1, Len(d) - 1) = Front(d)
  /\ <<Last(d), p[Len(d)]>> \in NamePrefixes

SubDirs(d) == {wdOf[p] : p \in {q \in DOMAIN wdOf : StartsWith(q, d)}}

-----------------------------------------------------------------------------
(* AddDirectory, after it did not find its target in the map: the watch,   *)
(* then the entry.  The worker returns to the frame below.                 *)

AddInotifyWatch(t) ==
  LET d == Dir(target[t])
  IN /\ Goto(t, "watch", "store")
     /\ d \in dirs
     /\ IF WatchesOn(d) # {}
        THEN /\ wd' = [wd EXCEPT ![t] = CHOOSE w \in WatchesOn(d) : TRUE]
             /\ UNCHANGED <<made, live>>
        ELSE /\ made' = Append(made, <<d, birth[d]>>)
             /\ live' = live \cup {Len(made')}
             /\ wd' = [wd EXCEPT ![t] = Len(made')]
     /\ UNCHANGED <<fsVars, events, mapVars, excludes, target, event, dangling,
                    stack, sweep, queued, ended, history>>

\* CHECK(wd >= 0): the directory is gone.
WatchFails(t) ==
  /\ pc[t] = "watch" /\ Dir(target[t]) \notin dirs
  /\ ended' = "check"
  /\ UNCHANGED <<fsVars, kernelVars, mapVars, excludes, threadVars, queued, history>>

\* Where AddDirectoryRecursive of the worker goes on when a frame is done.
Popped == /\ stack' = Front(stack)
          /\ pc' = [pc EXCEPT ![Worker] = IF Len(stack) = 1 THEN "idle" ELSE "scan"]

StoreWatch(t) ==
  /\ pc[t] = "store"
  /\ MapAdd(target[t], wd[t])
  /\ IF t = Inotify THEN Goto(t, "store", "read") /\ UNCHANGED stack ELSE Popped
  /\ UNCHANGED <<fsVars, kernelVars, excludes, target, wd, event, dangling, sweep,
                 queued, ended, history>>

(* RemoveDirectory: the watch, then the entry.                             *)
RemoveInotifyWatch(t) ==
  /\ Goto(t, "rm_watch", "unmap")
  /\ live' = live \ {wd[t]}
  /\ UNCHANGED <<fsVars, made, events, mapVars, excludes, target, wd, event,
                 dangling, stack, sweep, queued, ended, history>>

Unmap(t) ==
  /\ Goto(t, "unmap", IF t = Inotify THEN "read" ELSE "sweep")
  /\ MapRemove(wd[t])
  /\ UNCHANGED <<fsVars, kernelVars, excludes, target, wd, event, stack, sweep,
                 queued, ended, history>>

-----------------------------------------------------------------------------
(* The inotify thread: ProcessEvents hands each event to the tracker, which *)
(* has a filter for directories, then to the index handler, whose filters  *)
(* pass files only.                                                        *)

\* Mutant of ReadEvent: the offset goes past the next event.
ReadEventSkipsOne ==
  /\ events # <<>>
  /\ Goto(Inotify, "read", IF Head(events).op = "file" THEN "index" ELSE "track")
  /\ event' = Head(events)
  /\ events' = SubSeq(events, 3, Len(events))
  /\ UNCHANGED <<fsVars, made, live, mapVars, excludes, target, wd, dangling, stack,
                 sweep, queued, ended, history>>

ReadEvent ==
  /\ events # <<>>
  /\ Goto(Inotify, "read", IF Head(events).op = "file" THEN "index" ELSE "track")
  /\ event' = Head(events)
  /\ events' = Tail(events)
  /\ UNCHANGED <<fsVars, made, live, mapVars, excludes, target, wd, dangling, stack,
                 sweep, queued, ended, history>>

\* DirectoryTracker: GetPathname of the watch, with CHECK(base_path != NULL).
FindBase ==
  /\ event.wd \in DOMAIN pathOf
  /\ Goto(Inotify, "track", "join")
  /\ dangling' = FALSE
  /\ UNCHANGED <<fsVars, kernelVars, mapVars, excludes, target, wd, event, stack,
                 sweep, queued, ended, history>>

BaseUnknown ==
  /\ pc[Inotify] = "track" /\ event.wd \notin DOMAIN pathOf
  /\ ended' = "check"
  /\ UNCHANGED <<fsVars, kernelVars, mapVars, excludes, threadVars, queued, history>>

\* JoinPath reads the path outside the lock.
JoinFreedPath ==
  /\ pc[Inotify] \in {"join", "put"} /\ dangling
  /\ ended' = "undefined"
  /\ UNCHANGED <<fsVars, kernelVars, mapVars, excludes, threadVars, queued, history>>

Joined == JoinPath(pathOf[event.wd], event.name)

TrackCreate ==
  /\ pc[Inotify] = "join" /\ ~dangling /\ event.op = "mkdir"
  /\ Goto(Inotify, "join", IF Joined \in DOMAIN wdOf THEN "read" ELSE "watch")
  /\ target' = [target EXCEPT ![Inotify] = Joined]
  /\ UNCHANGED <<fsVars, kernelVars, mapVars, excludes, wd, event, dangling, stack,
                 sweep, queued, ended, history>>

\* Mutant of TrackDelete: the watch of the parent is removed.
TrackDeleteParent ==
  /\ Goto(Inotify, "join", "rm_watch")
  /\ ~dangling /\ event.op = "rmdir"
  /\ Joined \in DOMAIN wdOf
  /\ wd' = [wd EXCEPT ![Inotify] = event.wd]
  /\ UNCHANGED <<fsVars, kernelVars, mapVars, excludes, target, event, dangling,
                 stack, sweep, queued, ended, history>>

TrackDelete ==
  /\ Goto(Inotify, "join", "rm_watch")
  /\ ~dangling /\ event.op = "rmdir"
  /\ Joined \in DOMAIN wdOf
  /\ wd' = [wd EXCEPT ![Inotify] = wdOf[Joined]]
  /\ UNCHANGED <<fsVars, kernelVars, mapVars, excludes, target, event, dangling,
                 stack, sweep, queued, ended, history>>

\* CHECK(wd > 0): the directory that went was not watched.
DeletedUnknown ==
  /\ pc[Inotify] = "join" /\ ~dangling /\ event.op = "rmdir"
  /\ Joined \notin DOMAIN wdOf
  /\ ended' = "check"
  /\ UNCHANGED <<fsVars, kernelVars, mapVars, excludes, threadVars, queued, history>>

\* IndexEventHandler::DoIndexing; an unknown descriptor is only logged.
FindBaseToIndex ==
  /\ Goto(Inotify, "index", IF event.wd \in DOMAIN pathOf THEN "put" ELSE "read")
  /\ dangling' = FALSE
  /\ UNCHANGED <<fsVars, kernelVars, mapVars, excludes, target, wd, event, stack,
                 sweep, queued, ended, history>>

PutRequest ==
  /\ ~dangling
  /\ Goto(Inotify, "put", "read")
  /\ queued' = queued \cup {<<Dir(pathOf[event.wd]), event.change>>}
  /\ UNCHANGED <<fsVars, kernelVars, mapVars, excludes, target, wd, event, dangling,
                 stack, sweep, ended, history>>

InotifyThread ==
  \/ ReadEvent \/ FindBase \/ BaseUnknown \/ JoinFreedPath
  \/ TrackCreate \/ TrackDelete \/ DeletedUnknown
  \/ FindBaseToIndex \/ PutRequest
  \/ AddInotifyWatch(Inotify) \/ WatchFails(Inotify) \/ StoreWatch(Inotify)
  \/ RemoveInotifyWatch(Inotify) \/ Unmap(Inotify)

-----------------------------------------------------------------------------
(* The worker: AddDirectoryRecursive.  The entries of a directory are      *)
(* listed when it is opened and visited later.                             *)

Frame(path) ==
  [dir |-> path,
   dirs |-> {p \in dirs : Len(p) > 1 /\ Front(p) = Dir(path)},
   file |-> Dir(path) \in files]

\* Called with a directory that exists, or does not (opendir fails).
AddDirectoryRecursive(path) ==
  IF Dir(path) \in dirs
  THEN /\ Goto(Worker, "idle", "scan")
       /\ stack' = <<Frame(path)>>
       /\ due' = due \cup {Dir(path)}
       /\ UNCHANGED <<fsVars, kernelVars, mapVars, excludes, target, wd, event,
                      dangling, sweep, queued, ended, owed, disturbed>>
  ELSE pc[Worker] = "idle" /\ UNCHANGED watchVars

Top == Last(stack)
SetTop(frame) == stack' = [stack EXCEPT ![Len(stack)] = frame]

\* HandleImport, if the file is still there.
ScanFile ==
  /\ Goto(Worker, "scan", "scan")
  /\ Top.file
  /\ SetTop([Top EXCEPT !.file = FALSE])
  /\ queued' = IF Dir(Top.dir) \in files THEN queued \cup {<<Dir(Top.dir), 0>>}
                                      ELSE queued
  /\ UNCHANGED <<fsVars, kernelVars, mapVars, excludes, target, wd, event, dangling,
                 sweep, ended, history>>

ScanDir(p) ==
  /\ Goto(Worker, "scan", "scan")
  /\ p \in Top.dirs
  /\ LET rest == [stack EXCEPT ![Len(stack)].dirs = @ \ {p}]
     IN IF Last(p) \notin excludes /\ p \in dirs
        THEN stack' = Append(rest, Frame(p)) /\ due' = due \cup {p}
        ELSE stack' = rest /\ UNCHANGED due
  /\ UNCHANGED <<fsVars, kernelVars, mapVars, excludes, target, wd, event, dangling,
                 sweep, queued, ended, owed, disturbed>>

\* The scan is over: AddDirectory looks for the directory in the map.
ScanDone ==
  /\ pc[Worker] = "scan" /\ ~Top.file /\ Top.dirs = {}
  /\ IF Top.dir \in DOMAIN wdOf
     THEN Popped /\ UNCHANGED target
     ELSE /\ Goto(Worker, "scan", "watch")
          /\ target' = [target EXCEPT ![Worker] = Top.dir]
          /\ UNCHANGED stack
  /\ UNCHANGED <<fsVars, kernelVars, mapVars, excludes, wd, event, dangling, sweep,
                 queued, ended, history>>

(* RemoveDirectoryRecursive: the directory itself, if it is in the map;    *)
(* then whatever GetSubDirsWatchDescriptor finds.                          *)

RemoveDirectoryRecursive(d) ==
  /\ Goto(Worker, "idle", "sweep")
  /\ target' = [target EXCEPT ![Worker] = d]
  /\ sweep' = IF d \in DOMAIN wdOf THEN {wdOf[d]} ELSE {}
  /\ disturbed' = disturbed \cup {p \in Paths : StartsWith(p, Dir(d))}
  /\ UNCHANGED <<fsVars, kernelVars, mapVars, excludes, wd, event, dangling, stack,
                 queued, ended, due, owed>>

Sweep(w) ==
  /\ w \in sweep
  /\ Goto(Worker, "sweep", "rm_watch")
  /\ wd' = [wd EXCEPT ![Worker] = w]
  /\ sweep' = sweep \ {w}
  /\ UNCHANGED <<fsVars, kernelVars, mapVars, excludes, target, event, dangling, stack,
                 queued, ended, history>>

ListSubDirs ==
  /\ target[Worker] # <<>> /\ sweep = {}
  /\ Goto(Worker, "sweep", "sweep")
  /\ sweep' = SubDirs(target[Worker])
  /\ target' = [target EXCEPT ![Worker] = <<>>]
  /\ UNCHANGED <<fsVars, kernelVars, mapVars, excludes, wd, event, dangling, stack,
                 queued, ended, history>>

SweepDone ==
  /\ target[Worker] = <<>> /\ sweep = {}
  /\ Goto(Worker, "sweep", "idle")
  /\ UNCHANGED <<fsVars, kernelVars, mapVars, excludes, target, wd, event, dangling,
                 stack, sweep, queued, ended, history>>

\* The steps inside AddDirectoryRecursive and RemoveDirectoryRecursive.
WorkerThread ==
  \/ ScanFile \/ ScanDone \/ \E p \in Paths : ScanDir(p)
  \/ ListSubDirs \/ SweepDone \/ \E w \in sweep : Sweep(w)
  \/ AddInotifyWatch(Worker) \/ WatchFails(Worker) \/ StoreWatch(Worker)
  \/ RemoveInotifyWatch(Worker) \/ Unmap(Worker)

Running == ended = "no"

-----------------------------------------------------------------------------
(* Properties.                                                             *)

\* "PathnameWatchDescriptorMap is a two way map" (filewatcher.h): what the first
\* map says of a path, the second confirms, and the kernel made that descriptor
\* for the directory of that path.  So, whatever the two threads add and remove
\* meanwhile, a change is not attributed to another directory, and what
\* GetWatchDescriptor finds can be removed.  (As long as nobody gives a directory
\* two spellings: they share a descriptor, and Add forgets only the later one.)
PathMapSound ==
  /\ \A w \in DOMAIN pathOf : Dir(pathOf[w]) = made[w][1]
  /\ \A p \in DOMAIN wdOf : wdOf[p] \in DOMAIN pathOf /\ pathOf[wdOf[p]] = p

AtRest ==
  /\ Running /\ events = <<>>
  /\ pc[Inotify] = "read" /\ pc[Worker] = "idle"

Watched(p) ==
  \E path \in DOMAIN wdOf : Dir(path) = p /\ wdOf[path] \in WatchesOn(p) \cap DOMAIN pathOf

\* "DirectoryTrack keeps our directory watch list up to date" (filewatcher.h):
\* once every event is handled and the worker is idle, a directory that a scan
\* visited or that was made in a monitored directory is watched, and both maps
\* and the kernel agree on it: if it was never deleted and no removal names it,
\* no interleaving of the tracker and the worker, adding it or its neighbours at
\* the same time, loses it.
WatchedAtRest == AtRest => \A p \in due \ disturbed : Watched(p)

\* A change of a file in a directory that was monitored at that moment has been
\* put on the index queue, under its own path, once its event is handled: under
\* the same conditions.
ChangesQueuedAtRest ==
  AtRest => \A c \in owed : c[1] \in disturbed \/ c \in queued
=============================================================================
