---------------------------- MODULE WatchRequests ----------------------------
(***************************************************************************)
(* The file watcher service and its worker: a client's request             *)
(* (socket_filewatcher_service.cc) becomes a series of commands on a queue *)
(* (FileWatcherRequestHandler), which FileWatcherRequestWorker executes    *)
(* against the FileWatcher while the inotify thread handles events.        *)
(*                                                                         *)
(* Abstracted: the text of a request; malformed ones, which are skipped.   *)
(* The queue is a FIFO with a capacity (PCQueue shows it is, with Put and  *)
(* Get alone).  After a REMOVE the worker also unloads the files of the    *)
(* directory from both tables, which is TagsTable's UnloadFilesInDir.      *)
(* Bound: MaxRequests.                                                     *)
(***************************************************************************)
EXTENDS FileWatcher

CONSTANTS Requests,     \* what clients ask: code, dirs, excludes
          MaxRequests,
          QueueSize     \* of the command queue

(* A directory, and an exclude, which is the name of one, may have a final   *)
(* slash.                                                                    *)
ASSUME WatchRequestsAssumption ==
  /\ \A r \in Requests : /\ r.code \in {"ADD", "REMOVE"}
                         /\ r.dirs \in Seq({r.dirs[i] : i \in DOMAIN r.dirs})
                         /\ r.excludes \in Seq({r.excludes[i] : i \in DOMAIN r.excludes})
                         /\ \A i \in DOMAIN r.dirs :
                              \E p \in Paths : r.dirs[i] \in {p, Append(p, NoName)}
                         /\ \A i \in DOMAIN r.excludes : r.excludes[i].slash \in BOOLEAN
  /\ MaxRequests \in Nat /\ QueueSize \in Nat \ {0}

VARIABLES
  requests,   \* how many requests there have been
  pushing,    \* the commands the service thread has yet to put
  commands,   \* the command queue
  command     \* the last command the worker took

requestVars == <<requests, pushing, commands, command>>
wrVars == <<watchVars, requestVars>>

WRInit ==
  /\ FWInit
  /\ requests = 0
  /\ pushing = <<>> /\ commands = <<>>
  /\ command = [code |-> "none", arg |-> <<>>, request |-> <<>>]

(* The commands of one list of a request.  They remember the request for the *)
(* property below.                                                           *)
CommandsOf(r, code, args) ==
  [i \in DOMAIN args |-> [code |-> code, arg |-> args[i], request |-> r]]

\* Mutant of Push: the excludes are unregistered before the directories are done.
PushUnexcludesEarly(r) ==
  pushing' = CommandsOf(r, "EXCLUDE", r.excludes)
             \o CommandsOf(r, "REMOVE_EXCLUDE", r.excludes)
             \o CommandsOf(r, r.code, r.dirs)

Push(r) ==
  pushing' = CommandsOf(r, "EXCLUDE", r.excludes)
             \o CommandsOf(r, r.code, r.dirs)
             \o CommandsOf(r, "REMOVE_EXCLUDE", r.excludes)

\* The service thread handles one request at a time, to its last Put.
HandleReceived(r) ==
  /\ requests < MaxRequests
  /\ pushing = <<>>
  /\ Push(r)
  /\ requests' = requests + 1
  /\ UNCHANGED <<watchVars, commands, command>>

PushDirectory ==
  /\ pushing # <<>> /\ Len(commands) < QueueSize
  /\ commands' = Append(commands, Head(pushing))
  /\ pushing' = Tail(pushing)
  /\ UNCHANGED <<watchVars, requests, command>>

\* The worker takes the next command.
Take(codes) ==
  /\ pc[Worker] = "idle"
  /\ commands # <<>> /\ Head(commands).code \in codes
  /\ command' = Head(commands)
  /\ commands' = Tail(commands)
  /\ UNCHANGED <<requests, pushing>>

AddExclude ==
  /\ Take({"EXCLUDE"})
  /\ excludes' = excludes \cup {command'.arg.name}
  /\ UNCHANGED <<fsVars, kernelVars, mapVars, threadVars, queued, ended, history>>

\* Mutant of RemoveExclude: a final slash is not cut off.
RemoveExcludeKeepsSlash ==
  /\ Take({"REMOVE_EXCLUDE"})
  /\ excludes' = IF command'.arg.slash THEN excludes ELSE excludes \ {command'.arg.name}
  /\ UNCHANGED <<fsVars, kernelVars, mapVars, threadVars, queued, ended, history>>

RemoveExclude ==
  /\ Take({"REMOVE_EXCLUDE"})
  /\ excludes' = excludes \ {command'.arg.name}
  /\ UNCHANGED <<fsVars, kernelVars, mapVars, threadVars, queued, ended, history>>

RunAdd == Take({"ADD"}) /\ AddDirectoryRecursive(command'.arg)

RunRemove == Take({"REMOVE"}) /\ RemoveDirectoryRecursive(command'.arg)

WRNext ==
  /\ Running
  /\ \/ (FileSystem \/ InotifyThread \/ WorkerThread) /\ UNCHANGED requestVars
     \/ \E r \in Requests : HandleReceived(r)
     \/ PushDirectory \/ AddExclude \/ RemoveExclude \/ RunAdd \/ RunRemove

WRSpec == WRInit /\ [][WRNext]_wrVars

-----------------------------------------------------------------------------

Names(r) == {r.excludes[i].name : i \in DOMAIN r.excludes}

\* "These exclude commands are local to this request only"
\* (filewatcherrequesthandler.cc): while the worker scans or removes the
\* directories of a request, the watcher ignores exactly the names that request
\* excludes, with those of its neighbours in the queue already gone or yet to
\* come; and none once it is idle with nothing queued.
ExcludesLocal ==
  /\ pc[Worker] # "idle" => excludes = Names(command.request)
  /\ pc[Worker] = "idle" /\ commands = <<>> /\ pushing = <<>> => excludes = {}

=============================================================================
