---------------------------- MODULE TagsProtocol ----------------------------
(* What the text of a query means on its way: a client writes it (gtags.py), *)
(* the mixer reads it and writes it again for the tags servers               *)
(* (mixerrequesthandler.cc), a server executes it on its table and writes an *)
(* answer (tagsrequesthandler.cc), the mixer joins the answers (gtagsmixer.  *)
(* cc), and the client reads the result.                                     *)
(* Abstracted: a table is the sequence of its results, and a tag file too,   *)
(* which names the files of its results; a regular expression is a text that *)
(* matches itself, at the start of a tag or anywhere in a snippet; the order *)
(* of the matches and their number (TagsTable has both); attributes that     *)
(* change no answer; offsets, which are printed as line numbers are; clock   *)
(* readings, the log, and the wording of the mixer's errors.                 *)
EXTENDS SExpression

CONSTANTS
  CorpusRoot,   \* --corpus_root, as one character of a path
  TagFiles,     \* the tag files that can be read, with their results
  Sources,      \* of the corpus: a <<language, callers>> for each data source
  Defaults      \* the settings for what a query does not say: such a pair

Concat(texts) == FlattenSeq(texts)
Quote(text) == <<"\"">> \o text \o <<"\"">>
Attribute(name, value) == <<"(", name, " ">> \o value \o <<")">>
Occurs(part, s) == \E i \in 1 .. Len(s) + 1 : IsPrefix(part, SubSeq(s, i, Len(s)))

-----------------------------------------------------------------------------
(* The client writes a query.                                                *)

StringLispRepr(text) ==
  Quote(Concat([i \in DOMAIN text |->
    IF text[i] \in {"\\", "\""} THEN <<"\\", text[i]>> ELSE <<text[i]>>]))

BooleanLispRepr(value) == IF value THEN <<"t">> ELSE <<"nil">>

(* The client's type and versions and the corpus are left out.               *)
MakeCommand(q) ==
  Concat(<<
    <<"(", q.command, " ">>,
    Attribute("language", StringLispRepr(<<"c++">>)), <<" ">>,
    Attribute("callers", BooleanLispRepr(q.callers)), <<" ">>,
    IF q.file = <<>> THEN <<>> ELSE Attribute("current-file", StringLispRepr(q.file)),
    IF q.param = "" THEN <<>>
                    ELSE <<" ">> \o Attribute(q.param, StringLispRepr(q.text)),
    <<")">> >>)

-----------------------------------------------------------------------------
(* A tags server executes a query.                                           *)
Query == [command |-> "ping", tag |-> <<>>, file |-> <<>>, callers |-> FALSE,
          language |-> <<"Unknown">>, comment |-> <<"(", ")">>]

Loading == {"reload-tags-file", "load-update-file"}
Commands == {"log", "get-server-version", "get-supported-protocol-versions",
             "lookup-tag-exact", "lookup-tag-prefix-regexp",
             "lookup-tag-snippet-regexp", "lookup-tags-in-file"} \cup Loading

(* One value of an attribute: what is named with the wrong type is passed    *)
(* over.  Rankings and the client's versions change no answer.               *)
SetValue(query, name, value) ==
  CASE value.type = "string" /\ name = <<"tag">>      -> [query EXCEPT !.tag = value.value]
    [] value.type = "string" /\ name = <<"language">> -> [query EXCEPT !.language = value.value]
    [] value.type = "string" /\ name \in {<<"file">>, <<"current-file">>} ->
         [query EXCEPT !.file = value.value]
    [] ~IsList(value) /\ value.type \notin {"string", "integer"} /\ name = <<"callers">> ->
         [query EXCEPT !.callers = TRUE]
    [] OTHER -> query

SetAttribute(query, attribute) ==
  LET SetValues(key, values) ==
        CASE key.type = "pair" -> query
          [] key.type # "pair" /\ Repr(key) = <<"message">> ->
               IF values = <<>> THEN query ELSE [query EXCEPT !.comment = Repr(Pairs(values, Nil))]
          [] OTHER -> FoldLeft(LAMBDA q, value : SetValue(q, Repr(key), value), query, values)
  IN SetValues(Head(Elements(attribute)), Tail(Elements(attribute)))

(* A query that cannot be read is a ping.  An attribute that is no list, or  *)
(* an empty one, ends the server.                                            *)
TranslateInput(sexpr) ==
  LET Default == [got |-> "query", val |-> Query]
      Named(name) == IF Len(name) = 1 /\ name[1] \in Commands
                     THEN [Query EXCEPT !.command = name[1]] ELSE Query
      Translated(command, attributes) ==
        CASE ~IsSymbol(command) -> Default
          [] \E i \in DOMAIN attributes : attributes[i] = Nil \/ ~IsList(attributes[i]) -> Dead
          [] OTHER -> [got |-> "query", val |-> FoldLeft(SetAttribute, Named(Repr(command)), attributes)]
  IN CASE sexpr.got = "dead" -> Dead
       [] sexpr.got = "sexp" /\ IsList(sexpr.val) /\ sexpr.val # Nil ->
            Translated(Head(sexpr.val.items), Tail(sexpr.val.items))
       [] OTHER -> Default

StripCorpusRoot(path) ==
  LET Root(i) == IsPrefix(<<"/", CorpusRoot, "/">>, SubSeq(path, i, Len(path)))
      found == {i \in DOMAIN path : Root(i)}
  IN IF found = {} THEN path
     ELSE SubSeq(path, (CHOOSE i \in found : \A j \in found : i <= j) + 3, Len(path))

Find(table, command, key) ==
  LET Matches(r) ==
        CASE command = "lookup-tag-exact"          -> r.tag = key
          [] command = "lookup-tag-prefix-regexp"  -> IsPrefix(key, r.tag)
          [] command = "lookup-tag-snippet-regexp" -> Occurs(key, r.snippet)
          [] command = "lookup-tags-in-file"       -> r.filename = StripCorpusRoot(key)
  IN SelectSeq(table, Matches)

PrintTagsResults(matches) ==
  LET Printed(r) == Concat(<< <<"(">>, Attribute("tag", Quote(CEscape(r.tag))), <<" ">>,
                    Attribute("snippet", Quote(CEscape(r.snippet))), <<" ">>,
                    Attribute("filename", Quote(CEscape(r.filename))), <<" ">>,
                    Attribute("lineno", FastItoa(r.lineno)), <<")", " ">> >>)
  IN <<"(">> \o Concat([i \in DOMAIN matches |-> Printed(matches[i])]) \o <<")">>

(* The value a command returns; shown are the results its predicate passes.  *)
Value(query, table, shown) ==
  CASE query.command \in {"ping", "log"} \cup Loading -> <<"t">>
    [] query.command = "get-server-version" -> <<"2">>
    [] query.command = "get-supported-protocol-versions" -> <<"(", "1", " ", "2", ")">>
    [] query.command = "lookup-tags-in-file" ->
         IF query.file = <<>> THEN <<"nil">>
         ELSE PrintTagsResults(SelectSeq(Find(table, query.command, query.file), LAMBDA r : r \in shown))
    [] OTHER ->
         PrintTagsResults(SelectSeq(Find(table, query.command, query.tag), LAMBDA r : r \in shown))

(* Before the value, the answer says when the server began and gives its     *)
(* sequence number; here it is always 0.                                     *)
SexpExecute(query, table, shown) ==
  Concat(<< <<"(">>, Attribute("sequence-number", <<"0">>), <<" ">>,
            Attribute("value", Value(query, table, shown)), <<")">> >>)

(* ReloadTagFile frees the table first; UpdateTagFile loads each file that   *)
(* is named anew.                                                            *)
Loaded(command, new, table) ==
  LET Unnamed(r) == \A i \in DOMAIN new : new[i].filename # r.filename
  IN IF command = "reload-tags-file" THEN new ELSE SelectSeq(table, Unnamed) \o new

(* The answer, and the table behind it: a tag file that cannot be read fails *)
(* a CHECK.                                                                  *)
Executed(command, file, table, text) ==
  CASE command \notin Loading -> [got |-> "answer", text |-> text, table |-> table]
    [] command \in Loading /\ file \notin DOMAIN TagFiles -> Dead
    [] OTHER -> [got |-> "answer", text |-> text,
                 table |-> Loaded(command, TagFiles[file], table)]

ExecuteQuery(query, table) ==
  IF query.got = "dead" THEN Dead
  ELSE Executed(query.val.command, query.val.file, table,
                SexpExecute(query.val, table, Range(table)))

(* The old protocol: an opcode, and the rest.                                *)
Opcodes == [opcode \in {"@", ":", "$", ";", "!", "+", "/"} |->
  CASE opcode = "@" -> "lookup-tags-in-file"
    [] opcode = ":" -> "lookup-tag-prefix-regexp"
    [] opcode = "$" -> "lookup-tag-snippet-regexp"
    [] opcode = ";" -> "lookup-tag-exact"
    [] opcode = "!" -> "reload-tags-file"
    [] opcode = "+" -> "load-update-file"
    [] opcode = "/" -> "ping"]

Opcode(opcode, key, table) ==
  LET EscapeQuotes(s) == Concat([i \in DOMAIN s |->
        IF s[i] \in {"\"", "\\"} THEN <<"\\", s[i]>> ELSE <<s[i]>>])
      Printed(r) == Concat(<< <<"(">>, Quote(r.tag), <<" ", ".", " ", "(">>,
                    Quote(EscapeQuotes(r.snippet)), <<" ">>, Quote(r.filename),
                    <<" ">>, FastItoa(r.lineno), <<")", ")", " ">> >>)
      Results(matches) ==
        <<"(">> \o Concat([i \in DOMAIN matches |-> Printed(matches[i])]) \o <<")">>
      command == IF opcode \in DOMAIN Opcodes THEN Opcodes[opcode] ELSE "none"
  IN Executed(command, key, table,
       CASE command = "none"                    -> <<"nil">>
         [] command \in {"ping"} \cup Loading -> <<"t">>
         [] OTHER                               -> Results(Find(table, command, key)))

(* Mutant of UpToNUL: the end of the string is not minded.                   *)
UpToNULNot(memory) == SelectSeq(memory, LAMBDA c : c # NUL)

(* What begins in memory, as a C string.                                     *)
UpToNUL(memory) ==
  LET ends == {i \in DOMAIN memory : memory[i] = NUL}
  IN IF ends = {} THEN memory
     ELSE SubSeq(memory, 1, (CHOOSE i \in ends : \A j \in ends : i <= j) - 1)

(* A comment between sharps comes before the opcode.  Its end is looked for  *)
(* behind the end of the string as well, in whatever is there: without one,  *)
(* up to memory that cannot be read.                                         *)
OpcodeExecute(memory, table) ==
  LET ends == {i \in 2 .. Len(memory) : memory[i] = "#"}
      From(start) == LET line == UpToNUL(SubSeq(memory, start, Len(memory)))
                     IN Opcode(At(line, 1), SubSeq(line, 2, Len(line)), table)
  IN CASE At(memory, 1) # "#"                  -> From(1)
       [] At(memory, 1) = "#" /\ ends = {}    -> Dead
       [] OTHER -> From(1 + CHOOSE i \in ends : \A j \in ends : i <= j)

(* SingleTableTagsRequestHandler::Execute on what is in memory from a char   *)
(* pointer on: the protocol is told by the first character.                  *)
Execute(memory, table) ==
  IF At(memory, 1) = "(" THEN ExecuteQuery(TranslateInput(Parse(UpToNUL(memory))), table)
                         ELSE OpcodeExecute(memory, table)

-----------------------------------------------------------------------------
(* The mixer.                                                                *)

Error == <<"(">> \o Attribute("error", <<"(">> \o Attribute("message", Quote(<<"failed">>)) \o <<")">>)
             \o <<")">>

(* What it makes of an expression: it answers a ping, and with an error what *)
(* it has no source for; it forwards the rest, written again; and it does    *)
(* not survive what it cannot read or use.                                   *)
MixerExecute(sexpr) ==
  LET Ping == [got |-> "answer", text |-> <<"(">> \o Attribute("value", <<"t">>) \o <<")">>]
      IsString(value) == value.got = "sexp" /\ value.val.type = "string"
      Source(language, callers) ==
        <<IF IsString(language) THEN language.val.value ELSE Defaults[1],
          IF callers.got = "sexp" THEN callers.val # Nil ELSE Defaults[2]>>
      Request(language, callers, file) ==
        CASE "dead" \in {language.got, callers.got, file.got} -> Dead
          [] "dead" \notin {language.got, callers.got, file.got}
             /\ Source(language, callers) \notin Sources -> [got |-> "answer", text |-> Error]
          [] OTHER -> [got |-> "request", text |-> Repr(sexpr.val),
                       path |-> IF IsString(file) THEN file.val.value ELSE <<>>]
      ValueOf(name) == AssocGet(sexpr.val, <<name>>)
  IN CASE sexpr.got # "sexp" -> Dead
       [] sexpr.got = "sexp" /\ sexpr.val = Nil -> Dead
       [] OTHER ->
            IF IsList(sexpr.val) /\ Head(Elements(sexpr.val)) = Symbol(<<"ping">>) THEN Ping
            ELSE Request(ValueOf("language"), ValueOf("callers"), ValueOf("current-file"))

(* The local handler: only results under the client's path.                  *)
UnderPath(r, path) == IsPrefix(path, r.filename)
LocalExecute(text, path, table) ==
  SexpExecute(TranslateInput(Parse(text)).val, table, {r \in Range(table) : UnderPath(r, path)})

(* ResultMixer::MixResult over the answers, local before remote.             *)
MixResult(results, failed) ==
  LET ValueOf(sexpr) == IF sexpr.got = "sexp" THEN AssocGet(sexpr.val, <<"value">>) ELSE Nothing
      JoinResults(items) == Concat([i \in DOMAIN items |-> Repr(items[i])])
      Values(text) == <<"(">> \o Attribute("value", <<"(">> \o text \o <<")">>) \o <<")">>
      Mix(values) ==
        CASE values # <<>> ->
               Values(JoinResults(Concat([i \in DOMAIN values |-> Elements(values[i].val)])))
          [] values = <<>> /\ failed -> Error
          [] OTHER -> Last(results)
  IN Mix(SelectSeq([i \in DOMAIN results |-> ValueOf(Parse(results[i]))],
                   LAMBDA value : value.got = "sexp" /\ IsList(value.val)))

-----------------------------------------------------------------------------
(* The client reads an answer.  A list is [type |-> "list", items].          *)
List(items) == [type |-> "list", items |-> items]

(* Of what a backslash may precede, gtags.py keeps three.                    *)
UnescapeString(s) ==
  LET read[i \in 1 .. Len(s) + 1] ==
        CASE i > Len(s) -> <<>>
          [] i <= Len(s) /\ s[i] # "\\" -> <<s[i]>> \o read[i + 1]
          [] OTHER -> (CASE s[i + 1] \in {"\\", "\""} -> <<s[i + 1]>>
                         [] s[i + 1] = "t"            -> <<"\t">>
                         [] OTHER                     -> <<>>) \o read[i + 2]
  IN read[1]

(* The end of a string that begins before from.                              *)
Closing(s, from) ==
  LET close[i \in from .. Len(s) + 2] ==
        CASE At(s, i) = "\\" -> close[i + 2]
          [] At(s, i) \in {"\"", NUL} -> i
          [] OTHER -> close[i + 1]
  IN close[from]

(* An expression, or the rest of a list.                                     *)
ParseSexpPy(s) ==
  LET Skip(from, skipped) ==
        CHOOSE j \in from .. Len(s) + 1 : /\ At(s, j) \notin skipped
                                          /\ \A k \in from .. j - 1 : s[k] \in skipped
      WhileIn(i, In(_)) ==
        CHOOSE j \in i .. Len(s) + 1 : ~In(At(s, j)) /\ \A k \in i .. j - 1 : In(s[k])
      Word(i, end, As(_)) == IF end = i THEN Nothing ELSE Got(As(SubSeq(s, i, end - 1)), end)
      String(i, end) ==
        IF end > Len(s) THEN Nothing ELSE Got(Str(UnescapeString(SubSeq(s, i + 1, end - 1))), end + 1)
      AsList(items) == IF items.got = "sexp" THEN Got(List(items.val), items.next) ELSE items
      parse[inList \in BOOLEAN, at \in 1 .. Len(s) + 1] ==
        LET Behind(item) == IF item.got = "sexp" THEN Before(<<item.val>>, parse[TRUE, item.next])
                                                 ELSE item
            Items(i) == CASE At(s, i) = NUL -> Nothing
                          [] At(s, i) = ")" -> Got(<<>>, i + 1)
                          [] OTHER          -> Behind(parse[FALSE, i])
            Sexp(i) ==
              CASE At(s, i) = NUL  -> Nothing
                [] At(s, i) = "("  -> AsList(parse[TRUE, i + 1])
                [] At(s, i) = "\"" -> String(i, Closing(s, i + 1))
                [] At(s, i) \in Range(Digits) ->
                     Word(i, WhileIn(i, LAMBDA c : c \in Range(Digits)), LAMBDA w : Int32(IntegerValue(w)))
                [] OTHER -> Word(i, WhileIn(i, LAMBDA c : c # NUL /\ IsSymbolChar(c)), Symbol)
        IN IF inList THEN Items(Skip(at, {" ", "."})) ELSE Sexp(Skip(at, {" "}))
  IN parse[FALSE, 1]

(* alist_to_dictionary: the last entry of a key counts.                      *)
Lookup(alist, key) ==
  LET Entry(entries) ==
        IF entries = <<>> THEN Nothing ELSE [got |-> "sexp", val |-> Last(entries).items[2]]
  IN Entry(SelectSeq(alist.items, LAMBDA e : e.items[1] = Symbol(<<key>>)))

(* do_gtags_command on the response: the list of tags, or the error the call *)
(* ends with.                                                                *)
Outcome(response) ==
  LET Tag(record) == [k \in {"tag", "snippet", "filename", "lineno"} |->
                        Lookup(record, k).val.value]
      Tags(value) ==
        CASE value.got = "nothing" -> [kind |-> "KeyError"]
          [] value.got = "sexp" /\ value.val.type # "list" -> [kind |-> "TypeError"]
          [] OTHER -> [kind |-> "tags",
                       tags |-> [i \in DOMAIN value.val.items |-> Tag(value.val.items[i])]]
  IN CASE response.got # "sexp" -> [kind |-> "UnparseableSexp"]
       [] response.got = "sexp" /\ response.val.type # "list" -> [kind |-> "TypeError"]
       [] OTHER -> Tags(Lookup(response.val, "value"))
=============================================================================
