---------------------------- MODULE SExpression -----------------------------
(* S-expressions and their text (sexpression.h, sexpression.cc, strutil.cc,  *)
(* sexpression_util.cc).  A text is a sequence of characters; a word that    *)
(* needs no escape may stand for its letters, as one character.              *)
EXTENDS Integers, SequencesExt

(* Pairs are taken together along their cdrs: the items, and the last cdr.   *)
Nil == [type |-> "nil"]
Pairs(items, tail) == [type |-> "pair", items |-> items, tail |-> tail]
Symbol(name) == [type |-> "symbol", name |-> name]
Str(value) == [type |-> "string", value |-> value]
Int32(value) == [type |-> "integer", value |-> value]

IsList(x) == x.type = "nil" \/ (x.type = "pair" /\ x.tail = Nil)
(* The last cdr may be a list itself.                                        *)
Improper(items, tail) ==
  IF tail.type = "pair" THEN Pairs(items \o tail.items, tail.tail) ELSE Pairs(items, tail)

IsSymbol(x) == x.type \in {"nil", "symbol"}

(* What const_iterator goes through: the tail of an improper list is not.    *)
Elements(x) == IF x.type = "pair" THEN x.items ELSE <<>>

-----------------------------------------------------------------------------
(* Characters and tokens.                                                    *)
Digits == <<"0", "1", "2", "3", "4", "5", "6", "7", "8", "9">>
IsSpace(c) == c \in {" ", "\t", "\n", "\r"}
IsSymbolChar(c) ==
  ~IsSpace(c) /\ c \notin {"\"", "#", "'", "(", ")", ",", ":", ";", "\\", "|"}  \* nor a backquote

(* A sign, and one to ten digits.                                            *)
IsIntToken(token) ==
  LET digits == IF token # <<>> /\ Head(token) = "-" THEN Tail(token) ELSE token
  IN Len(digits) \in 1 .. 10 /\ Range(digits) \subseteq Range(Digits)

IntegerValue(token) ==
  LET Add(value, c) == 10 * value + (CHOOSE i \in 1 .. 10 : Digits[i] = c) - 1
  IN IF Head(token) = "-" THEN -FoldLeft(Add, 0, Tail(token)) ELSE FoldLeft(Add, 0, token)

AllPeriods(token) == Range(token) \subseteq {"."}

-----------------------------------------------------------------------------
(* Printing.                                                                 *)
Escaped == {"\n", "\r", "\t", "\"", "'", "\\"}
Letter == ("\n" :> "n") @@ ("\r" :> "r") @@ ("\t" :> "t")
Escape(c) == <<"\\", IF c \in DOMAIN Letter THEN Letter[c] ELSE c>>
CEscape(s) ==
  FlattenSeq([i \in DOMAIN s |-> IF s[i] \in Escaped THEN Escape(s[i]) ELSE <<s[i]>>])

FastItoa(n) ==
  LET digits[m \in Nat] ==
        (IF m < 10 THEN <<>> ELSE digits[m \div 10]) \o <<Digits[(m % 10) + 1]>>
  IN IF n < 0 THEN <<"-">> \o digits[-n] ELSE digits[n]

NeedsQuoting(name) ==
  IsIntToken(name) \/ AllPeriods(name) \/ \E i \in DOMAIN name : ~IsSymbolChar(name[i])

(* The printed symbol: between bars only bars are escaped.                   *)
SymbolRepr(name) ==
  IF NeedsQuoting(name)
  THEN <<"|">> \o FlattenSeq([i \in DOMAIN name |-> IF name[i] = "|" THEN <<"\\", "|">>
                                                    ELSE <<name[i]>>]) \o <<"|">>
  ELSE name

(* What the printer comes to from x: the items of a pair, and behind them    *)
(* its last cdr.                                                             *)
Below(x, path) ==
  LET Part(y, i) == CASE y.type = "pair" /\ i \in DOMAIN y.items -> y.items[i]
                      [] y.type = "pair" /\ i = Len(y.items) + 1  -> y.tail
                      [] OTHER                                    -> Nil
  IN FoldLeft(Part, x, path)

Repr(x) ==
  LET repr[path \in Seq(Nat)] ==
        LET y == Below(x, path)
            Part(i) == repr[Append(path, i)]
        IN CASE y.type = "nil"     -> <<"nil">>
             [] y.type = "pair"    ->
                  <<"(">> \o Part(1)
                    \o FlattenSeq([i \in 1 .. Len(y.items) - 1 |-> <<" ">> \o Part(i + 1)])
                    \o (IF y.tail = Nil THEN <<>> ELSE <<" ", ".", " ">> \o Part(Len(y.items) + 1))
                    \o <<")">>
             [] y.type = "symbol"  -> SymbolRepr(y.name)
             [] y.type = "string"  -> <<"\"">> \o CEscape(y.value) \o <<"\"">>
             [] y.type = "integer" -> FastItoa(y.value)
  IN repr[<<>>]

-----------------------------------------------------------------------------
(* Parsing.  A parser gets the text and a position, and returns what it got  *)
(* and the position behind it; or nothing; or it ended the process, by a     *)
(* CHECK or by reading past the end of the text.                             *)
NUL == "NUL"
At(s, i) == IF i <= Len(s) THEN s[i] ELSE NUL

Got(x, next) == [got |-> "sexp", val |-> x, next |-> next]
Nothing == [got |-> "nothing"]
Dead == [got |-> "dead"]

SkipWhitespace(s, i) ==
  CHOOSE j \in i .. Len(s) + 1 : /\ ~IsSpace(At(s, j))
                                 /\ \A k \in i .. j - 1 : IsSpace(At(s, k))

(* More read before what was read.                                           *)
Before(items, rest) ==
  IF rest.got = "sexp" THEN Got(items \o rest.val, rest.next) ELSE rest

(* The characters up to one of the ends: a backslash gives the next one as   *)
(* it is.                                                                    *)
Unescape(read, s, i, ends, broken) ==
  LET j == IF At(s, i) = "\\" THEN i + 1 ELSE i
  IN CASE At(s, i) \in ends                       -> Got(<<>>, i)
       [] At(s, i) \notin ends /\ At(s, j) = NUL -> broken
       [] OTHER                                   -> Before(<<s[j]>>, read[j + 1])

Reader(s, ends, broken) ==
  LET read[i \in 1 .. Len(s) + 1] == Unescape(read, s, i, ends, broken)
  IN read
Characters(s, from, ends, broken) == Reader(s, ends, broken)[from]

Delimited(s, from, delimiter) ==
  LET read == Characters(s, from, {delimiter}, Nothing)
  IN IF read.got = "sexp" THEN Got(read.val, read.next + 1) ELSE read

Token(s, from) == Characters(s, from, {" ", "\t", "\n", "\r", ")", NUL}, Dead)

(* What a token is: its text may have escapes.                               *)
ParseUnquotedToken(token, text, from) ==
  CASE token.got # "sexp" \/ token.val = <<>> -> Dead
    [] token.got = "sexp" /\ token.val # <<>> ->
         CASE IsIntToken(token.val) /\ "\\" \notin Range(SubSeq(text, from, token.next - 1)) ->
                Got(Int32(IntegerValue(token.val)), token.next)
           [] token.val = <<"nil">> -> Got(Nil, token.next)
           [] AllPeriods(token.val) -> Nothing
           [] OTHER                 -> Got(Symbol(token.val), token.next)

FillWithDelimitedString(read, delimiter) ==
  IF read.got = "sexp"
  THEN Got(IF delimiter = "|" THEN Symbol(read.val) ELSE Str(read.val), read.next)
  ELSE read

(* A list of items; with a period, the last one is the last cdr.             *)
ParseList(list) ==
  CASE list.got # "sexp"                        -> list
    [] list.got = "sexp" /\ list.val = <<>>     -> Got(Nil, list.next)
    [] list.got = "sexp" /\ list.val # <<>>     ->
         Got(IF list.improper /\ Len(list.val) >= 2
             THEN Improper(Front(list.val), Last(list.val)) ELSE Pairs(list.val, Nil), list.next)

(* The rest of a list: its items, and whether a period stood between them.   *)
(* A period that no space follows is passed over.                            *)
InList(items, improper, next) ==
  [got |-> "sexp", val |-> items, improper |-> improper, next |-> next]

Dotted(rest) == IF rest.got = "sexp" THEN InList(rest.val, TRUE, rest.next) ELSE rest

AndTheRest(parse, item) ==
  LET Both(rest) ==
        IF rest.got = "sexp" THEN InList(<<item.val>> \o rest.val, rest.improper, rest.next) ELSE rest
  IN IF item.got = "sexp" THEN Both(parse[<<TRUE, item.next>>]) ELSE item

ParseItems(parse, s, i) ==
  CASE At(s, i) = ")" -> InList(<<>>, FALSE, i + 1)
    [] At(s, i) = "." -> IF IsSpace(At(s, i + 1)) THEN Dotted(parse[<<TRUE, i + 2>>])
                                                  ELSE AndTheRest(parse, parse[<<FALSE, i + 1>>])
    [] OTHER          -> AndTheRest(parse, parse[<<FALSE, i>>])

ParseSexp(parse, s, i) ==
  CASE At(s, i) = "("  -> ParseList(parse[<<TRUE, i + 1>>])
    [] At(s, i) = "\"" -> FillWithDelimitedString(Delimited(s, i + 1, "\""), "\"")
    [] At(s, i) = "|"  -> FillWithDelimitedString(Delimited(s, i + 1, "|"), "|")
    [] At(s, i) = NUL  -> Nothing
    [] OTHER           -> ParseUnquotedToken(Token(s, i), s, i)

ParseNext(parse, s, inList, at) ==
  IF inList THEN ParseItems(parse, s, SkipWhitespace(s, at))
            ELSE ParseSexp(parse, s, SkipWhitespace(s, at))

Parser(s) ==
  LET parse[part \in BOOLEAN \X (1 .. Len(s) + 1)] == ParseNext(parse, s, part[1], part[2])
  IN parse
Parse(s) == Parser(s)[<<FALSE, 1>>]

(* FileReader::IsDone.                                                       *)
IsDone(s, i) == At(s, SkipWhitespace(s, i)) = NUL

-----------------------------------------------------------------------------
(* SExpressionAssocGet: what follows the key in a list of lists.  An entry   *)
(* with nothing behind its key is read beyond its end.                       *)
AssocGet(x, key) ==
  LET Keyed(e) == IsList(e) /\ e # Nil /\ Elements(e)[1] = Symbol(key)
      Entry(found) == CASE found = <<>>              -> Nothing
                        [] found # <<>> /\ Len(found[1].items) = 1 -> Dead
                        [] OTHER -> [got |-> "sexp", val |-> found[1].items[2]]
  IN IF IsList(x) THEN Entry(SelectSeq(Elements(x), Keyed)) ELSE Nothing
=============================================================================
