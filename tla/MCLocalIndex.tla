---------------------------- MODULE MCLocalIndex ----------------------------
(* Instances of LocalIndex: two directories, the name of one beginning with  *)
(* that of the other, with a file each, of the same base name; two tags.     *)
EXTENDS LocalIndex

\* TLC!Permutations; its module has names of SequencesExt's.
T == INSTANCE TLC

f1 == <<"a", "/", "x">>
f2 == <<"a", "b", "/", "x">>
MCFiles == {f1, f2}
MCDirs == {<<"a">>, <<"a", "b">>}
MCTags == {"f", "g"}
MCContents == {[f |-> 1, g |-> 0], [f |-> 0, g |-> 1]}
(* Both files are there at first, or only the second.                        *)
MCDisks == {[x \in MCFiles |-> [f |-> 1, g |-> 0]],
            [x \in MCFiles |-> IF x = f1 THEN Absent ELSE [f |-> 1, g |-> 0]]}
MCLanguages == (f1 :> <<"c">>) @@ (f2 :> <<"c", "+">>)

MCQueries ==
  {[command |-> "lookup-tag-exact", arg |-> "f", language |-> <<"c">>, client_path |-> <<>>],
   [command |-> "lookup-tag-prefix-regexp", arg |-> MCTags, language |-> <<"c", "+">>, client_path |-> <<"a">>],
   [command |-> "lookup-tags-in-file", arg |-> f1, language |-> <<"c">>, client_path |-> f1]}

(* A tag file of an update, with a file and a deletion; and one with a header*)
(* after its files, which LoadTagFile refuses.                               *)
MCTagFiles ==
  {<<[kind |-> "version"], [kind |-> "file", file |-> f1, counts |-> [f |-> 1, g |-> 1]],
     [kind |-> "deleted", file |-> f2]>>,
   <<[kind |-> "version"], [kind |-> "deleted", file |-> f1], [kind |-> "header"]>>,
   <<[kind |-> "version"], [kind |-> "malformed"]>>}

Addresses == T!Permutations(Results)
=============================================================================
