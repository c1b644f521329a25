--------------------------- MODULE MCWatchRequests ---------------------------
(* A root with two directories whose names begin alike; the shorter name has *)
(* a directory in it.                                                        *)
EXTENDS WatchRequests

CONSTANTS r, s, st, t

MCPaths == {<<r>>, <<r, s>>, <<r, st>>, <<r, s, t>>}
MCNamePrefixes ==
  {<<n, n>> : n \in {r, s, st, t}} \cup {<<NoName, n>> : n \in {r, s, st, t, NoName}}
  \cup {<<s, st>>}

MCInitialTrees == {{<<r>>, <<r, s>>}}

(* Watch the tree; watch s without t; forget s, but t, which is forgotten    *)
(* all the same.                                                             *)
MCRequests ==
  {[code |-> "ADD", dirs |-> <<<<r>>>>, excludes |-> <<>>],
   [code |-> "ADD", dirs |-> <<<<r, s>>>>, excludes |-> <<[name |-> t, slash |-> TRUE]>>],
   [code |-> "REMOVE", dirs |-> <<<<r, s>>>>, excludes |-> <<[name |-> t, slash |-> FALSE]>>]}
=============================================================================
