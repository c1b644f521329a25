---------------------------- MODULE MCIndexQueue ----------------------------
(* The inotify thread and the request worker put file names, the agent     *)
(* takes them.                                                             *)
EXTENDS IndexQueue

CONSTANTS watcher, worker

MCRoles == {[t \in {watcher, worker, Agent} |->
               IF t = Agent THEN {"Get", "TryGet"} ELSE {"Put"}]}
=============================================================================
