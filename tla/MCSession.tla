------------------------------ MODULE MCSession ------------------------------
(* Two servers and a mixer.  Names and snippets have quotes, backslashes and *)
(* tabs; words stand for their letters.                                      *)
EXTENDS Session

R(tag, snippet, filename) ==
  [tag |-> tag, snippet |-> snippet, filename |-> filename, lineno |-> 12]

MCCorpusRoot == "google3"
MCHosts == <<"one", "two">>
Quoted == <<"a", "\\", "\"">>

MCTables == [h \in {"one", "two"} |->
  IF h = "one" THEN <<R(<<"b">>, <<"x", "\"", "\\", "\"">>, <<"f">>), R(Quoted, <<"\\", "\\">>, <<"g">>)>>
               ELSE <<R(<<"b">>, <<"\t", "b">>, <<"g">>)>>]
MCLocalTable ==
  <<R(Quoted, <<"(", ")">>, <<"/", "google3", "/", "f">>), R(<<"b">>, <<"x">>, <<"l">>)>>
MCTagFiles == [f \in {<<"new">>} |-> <<R(<<"b">>, <<"y">>, <<"f">>)>>]
MCSources == {<<<<"c++">>, FALSE>>}
MCDefaults == <<<<"c++">>, FALSE>>

Q(command, param, text, file, raw) ==
  [command |-> command, param |-> param, text |-> text, file |-> file,
   callers |-> FALSE, raw |-> raw]

(* The tables, and what the tag file makes of them.                          *)
Reachable(tables) ==
  tables \cup {Loaded(command, MCTagFiles[<<"new">>], table) : command \in Loading, table \in tables}
MCHeldTables == Reachable(Reachable(Range(MCTables)))

LookupTag == Q("lookup-tag-prefix-regexp", "tag", Quoted, <<"/", "google3", "/", "f">>, FALSE)
MCUsers ==
  {[useMixer |-> TRUE, questions |-> <<LookupTag>>],
   [useMixer |-> TRUE, questions |-> <<Q("ping", "", <<>>, <<>>, TRUE)>>],
   [useMixer |-> TRUE, questions |-> <<[LookupTag EXCEPT !.callers = TRUE]>>],
   [useMixer |-> FALSE, questions |->
      <<LookupTag, Q("lookup-tags-in-file", "file", <<"/", "google3", "/", "f">>, <<>>, FALSE)>>]}

(* Silence; a comment and an update; and a comment that is left open.        *)
MCStrangeTexts == [h \in {"one", "two"} |->
  IF h = "one" THEN {<<>>, <<"#", "c", "#", "+", "new", "\r", "\n">>, <<"#", "e", "\r", "\n">>}
               ELSE {}]

(* An old request for a reload where most requests overwrite it, and a byte  *)
(* behind buf_.                                                              *)
MCGarbage == [h \in {"one", "two"} |->
  IF h = "one" THEN {[i \in 1 .. 37 |-> ")"] \o <<"#", "!", "new", NUL>> \o [i \in 1 .. 10 |-> ")"]}
               ELSE {<<>>}]

(* Facts about the questions and tables of the run.                          *)
ASSUME CodecsAgree == MixerForwardsLists /\ RequestsAreUsable /\ AnswersAreReadable

(* With an apostrophe in a snippet.                                          *)
ApostropheTables == [h \in {"one", "two"} |-> <<R(<<"b">>, <<"'", "x", "'">>, <<"f">>)>>]
ApostropheHeld == Reachable(Reachable(Range(ApostropheTables)))
ApostropheUsers ==
  {[useMixer |-> FALSE, questions |-> <<Q("lookup-tag-exact", "tag", <<"b">>, <<>>, FALSE)>>]}
=============================================================================
