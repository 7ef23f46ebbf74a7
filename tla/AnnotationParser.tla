-------------------------- MODULE AnnotationParser --------------------------
(***************************************************************************)
(* annotation/lexer.go and annotation/parser.go: the annotations of a doc  *)
(* comment.  A comment is a sequence of lines, a line a sequence of        *)
(* symbols: punctuation, "quote", "tick" (a backtick), "escape" (a         *)
(* backslash), "space", and words, each an identifier, a number or a       *)
(* character no token begins with.  Positions and messages are left out.   *)
(***************************************************************************)
EXTENDS Integers, Sequences, SequencesExt, FiniteSets, TLC

CONSTANTS
  Numbers,          \* numeric words: [kind, fits, val], kind "int", "float" or "error"
  maxNestingDepth

ASSUME DepthAssumption == maxNestingDepth \in Nat

Opening == {"(", "[", "{"}
Closing == {")", "]", "}"}
Punctuation == {"@", "=", ","} \cup Opening \cup Closing
Stray == {"escape", "!"}

\* What an escape may stand before; of the letters, "n".
Escapable == {"quote", "escape", "n"}

isIdentStart(s) ==
  s \notin Punctuation \cup Stray \cup DOMAIN Numbers \cup {"quote", "tick", "space", "nl"}

-----------------------------------------------------------------------------
(* The lexer: the token that begins at or after position p of a buffer.    *)

Token(kind, text, end) == [kind |-> kind, text |-> text, end |-> end]

\* The content of a literal; what is not a single word is opaque.
Content(s) == IF s = <<>> THEN "" ELSE IF Len(s) = 1 THEN s[1] ELSE "text"

lexQuotedString(buf, start) ==
  LET scan[p \in Nat] ==
        IF p > Len(buf) \/ buf[p] = "nl" THEN Token("error", "", p)
        ELSE IF buf[p] = "quote"
             THEN Token("string", Content(SubSeq(buf, start + 1, p - 1)), p + 1)
        ELSE IF buf[p] # "escape" THEN scan[p + 1]
        ELSE IF p < Len(buf) /\ buf[p + 1] \in Escapable THEN scan[p + 2]
        ELSE Token("error", "", p)
  IN scan[start + 1]

MinOf(S) == CHOOSE p \in S : \A q \in S : p <= q

closedAt(buf, start, ticks) ==
  IF ticks = {} THEN Token("error", "", Len(buf) + 1)
  ELSE Token("string", Content(SubSeq(buf, start + 1, MinOf(ticks) - 1)), MinOf(ticks) + 1)

lexRawString(buf, start) == closedAt(buf, start, {p \in start + 1 .. Len(buf) : buf[p] = "tick"})

skipSpace(buf, p) ==
  CHOOSE q \in p .. Len(buf) + 1 :
    /\ \A r \in p .. q - 1 : buf[r] \in {"space", "nl"}
    /\ q <= Len(buf) => buf[q] \notin {"space", "nl"}

\* The token whose first symbol is buf[p].
lexAt(buf, p) ==
  IF p > Len(buf) THEN Token("eof", "", p)
  ELSE IF buf[p] \in Punctuation THEN Token(buf[p], buf[p], p + 1)
  ELSE IF buf[p] = "quote" THEN lexQuotedString(buf, p)
  ELSE IF buf[p] = "tick" THEN lexRawString(buf, p)
  ELSE IF buf[p] \in DOMAIN Numbers THEN Token(Numbers[buf[p]].kind, buf[p], p + 1)
  ELSE IF isIdentStart(buf[p]) THEN Token("ident", buf[p], p + 1)
  ELSE Token("error", buf[p], p + 1)

next(buf, p) == lexAt(buf, skipSpace(buf, p))

\* tokenStream: every token of a buffer, the last one "eof"; from[p]: those at p.
stream(tok, from) == IF tok.kind = "eof" THEN <<tok>> ELSE <<tok>> \o from[tok.end]

tokenStream(buf) ==
  LET from[p \in Nat] == stream(next(buf, p), from)
  IN from[1]

\* Token i of a stream; after the last one "eof" is read again.
peek(toks, i) == toks[IF i > Len(toks) THEN Len(toks) ELSE i]

-----------------------------------------------------------------------------
(* The parser.                                                             *)

Syntax == "GOBANN001"
DuplicateArgument == "GOBANN008"

Parsed(val, end) == [code |-> "", val |-> val, end |-> end]
Rejected(code) == [code |-> code, val |-> <<>>, end |-> 0]
Ok(r) == r.code = ""

Scalar(kind, text) == [kind |-> kind, text |-> text]

\* A word by itself: true, false, null or an identifier.
wordValue(text) ==
  Scalar(CASE text \in {"true", "false"} -> "boolean"
           [] text = "null" -> "null"
           [] OTHER -> "identifier", text)

Item(more, code, end) == [more |-> more, code |-> code, end |-> end]

\* Plausible bug (mutant): what follows a comma is taken for the next item.
AfterItemNoTrailing(toks, p, close) ==
  Item(peek(toks, p).kind = ",", IF peek(toks, p).kind \in {close, ","} THEN "" ELSE Syntax, p + 1)

\* What follows an item that ends before token p: the list goes on at .end, or is
\* closed there; a comma may stand before the closing delimiter.
afterItem(toks, p, close) ==
  CASE peek(toks, p).kind = close -> Item(FALSE, "", p + 1)
    [] peek(toks, p).kind = "," /\ peek(toks, p + 1).kind = close -> Item(FALSE, "", p + 2)
    [] peek(toks, p).kind = "," /\ peek(toks, p + 1).kind # close -> Item(TRUE, "", p + 1)
    [] OTHER -> Item(FALSE, Syntax, p)

Closer(open) == CASE open = "(" -> ")" [] open = "[" -> "]" [] open = "{" -> "}"

prepend(entry, rest) == IF Ok(rest) THEN Parsed(<<entry>> \o rest.val, rest.end) ELSE rest

\* An item was read under a key: the list ends with it or goes on, rest[p] being
\* what is read from token p.
continue(entry, tail, rest) ==
  IF ~Ok(tail) THEN Rejected(tail.code)
  ELSE IF tail.more THEN prepend(entry, rest[tail.end])
  ELSE Parsed(<<entry>>, tail.end)

\* An item and the list after it; repeated: its key was there already.
listOf(toks, close, item, key, repeated, rest) ==
  IF ~Ok(item) THEN item
  ELSE IF repeated THEN Rejected(DuplicateArgument)
  ELSE continue([key |-> key, val |-> item.val], afterItem(toks, item.end, close), rest)

\* parseValue: the value that begins with tok, the one before token p.
valueOf(tok, p, list) ==
  CASE tok.kind \in {"string", "float"} -> Parsed(Scalar(tok.kind, tok.text), p)
    [] tok.kind = "int" /\ Numbers[tok.text].fits -> Parsed(Scalar("integer", tok.text), p)
    [] tok.kind = "ident" -> Parsed(wordValue(tok.text), p)
    [] tok.kind \in {"[", "{"} -> list
    [] OTHER -> Rejected(Syntax)

\* An array or an object of the items read; their keys are not looked at later.
composite(kind, items) ==
  IF Ok(items)
  THEN Parsed([kind |-> kind, elems |-> [i \in DOMAIN items.val |-> items.val[i].val]], items.end)
  ELSE items

PositionalKey == "value"
positionalKey(n) == IF n = 0 THEN PositionalKey ELSE PositionalKey \o ToString(n)

\* "name =" at token p, which an element of an array cannot have.
keyed(toks, open, p) == open # "[" /\ peek(toks, p).kind = "ident" /\ peek(toks, p + 1).kind = "="

keyAt(toks, open, p, n) == IF keyed(toks, open, p) THEN peek(toks, p).text ELSE positionalKey(n)

\* parseArguments, parseValue, parseArray and parseObject: what = "value" is a value
\* at token p, an opening delimiter the rest of the list it opened, with the keys
\* so far and the n items without a key.  A key given by name must be new; a
\* positional one replaces what it held.
parse(toks) ==
  LET of[what \in {"value"} \cup Opening, p \in Nat, depth \in Nat, keys \in SUBSET STRING, n \in Nat] ==
        LET named == keyed(toks, what, p)
            key == keyAt(toks, what, p, n)
            opened(open) == IF peek(toks, p + 1).kind = Closer(open) THEN Parsed(<<>>, p + 2)
                            ELSE of[open, p + 1, depth + 1, {}, 0]
        IN IF what = "value"
           THEN IF depth > maxNestingDepth THEN Rejected(Syntax)
                ELSE valueOf(peek(toks, p), p + 1,
                             composite(IF peek(toks, p).kind = "[" THEN "array" ELSE "object",
                                       opened(peek(toks, p).kind)))
           ELSE IF what = "{" /\ ~named THEN Rejected(Syntax)
           ELSE listOf(toks, Closer(what), of["value", IF named THEN p + 2 ELSE p, depth, {}, 0],
                       key, named /\ key \in keys,
                       [end \in Nat |-> of[what, end, depth, keys \cup {key}, IF named THEN n ELSE n + 1]])
  IN of

\* The arguments of an annotation whose name is token 2.
parseArguments(toks) ==
  IF peek(toks, 3).kind # "(" THEN Parsed(<<>>, 3)
  ELSE IF peek(toks, 4).kind = ")" THEN Parsed(<<>>, 5)
  ELSE parse(toks)["(", 4, 0, {}, 0]

NoAnnotation == [name |-> "", args |-> <<>>]

\* An annotation, a syntax error, or neither when text follows the arguments.
annotationOf(toks, args) ==
  LET put(f, arg) == (arg.key :> arg.val) @@ f
  IN IF ~Ok(args) THEN [ann |-> NoAnnotation, code |-> args.code]
     ELSE IF peek(toks, args.end).kind # "eof" THEN [ann |-> NoAnnotation, code |-> ""]
     ELSE [ann |-> [name |-> toks[2].text, args |-> FoldLeft(put, <<>>, args.val)], code |-> ""]

parseAnnotation(toks) ==
  IF peek(toks, 1).kind # "@" \/ peek(toks, 2).kind # "ident" THEN [ann |-> NoAnnotation, code |-> Syntax]
  ELSE annotationOf(toks, parseArguments(toks))

-----------------------------------------------------------------------------
(* The lines of one annotation.                                            *)

scanState == [depth |-> 0, opened |-> FALSE, inString |-> FALSE, inRaw |-> FALSE, escaped |-> FALSE]

feedRune(st, r) ==
  IF st.inRaw THEN [st EXCEPT !.inRaw = r # "tick"]
  ELSE IF st.inString
  THEN IF st.escaped THEN [st EXCEPT !.escaped = FALSE]
       ELSE [st EXCEPT !.escaped = r = "escape", !.inString = r # "quote"]
  ELSE CASE r = "quote" -> [st EXCEPT !.inString = TRUE]
         [] r = "tick" -> [st EXCEPT !.inRaw = TRUE]
         [] r \in Opening -> [st EXCEPT !.opened = TRUE, !.depth = @ + 1]
         [] r \in Closing -> [st EXCEPT !.depth = @ - 1]
         [] OTHER -> st

\* A quoted string ends with its line.
feed(st, line) == [FoldLeft(feedRune, st, line) EXCEPT !.inString = FALSE, !.escaped = FALSE]

complete(st) == ~st.inRaw /\ (~st.opened \/ st.depth <= 0)

startsAt(line, p) == p < Len(line) /\ line[p] = "@" /\ isIdentStart(line[p + 1])
isAnnotationStart(line) == startsAt(line, skipSpace(line, 1))

\* The last line of the annotation that starts at line i: where the delimiters
\* balance, or the end of the comment.
lastLine(lines, i) ==
  MinOf({j \in i .. Len(lines) :
           j = Len(lines) \/ complete(FoldLeft(feed, scanState, SubSeq(lines, i, j)))})

\* Plausible bug (mutant): the line after an annotation is skipped with it.
AfterNext(end) == end + 2

After(end) == end + 1

\* The lines i to j as one text.
Joined(lines, i, j) ==
  FoldLeft(LAMBDA buf, line : buf \o <<"nl">> \o line, lines[i], SubSeq(lines, i + 1, j))

\* What one annotation adds to those of the lines after it.
collect(one, rest) ==
  [anns |-> (IF one.ann = NoAnnotation THEN <<>> ELSE <<one.ann>>) \o rest.anns,
   codes |-> ({one.code} \ {""}) \cup rest.codes]

\* The annotation of lines i to end, and what the lines after it hold.
annotationLines(lines, i, end, from) ==
  collect(parseAnnotation(tokenStream(Joined(lines, i, end))), from[After(end)])

ParseComment(lines) ==
  LET from[i \in Nat] ==
        IF i > Len(lines) THEN [anns |-> <<>>, codes |-> {}]
        ELSE IF ~isAnnotationStart(lines[i]) THEN from[i + 1]
        ELSE annotationLines(lines, i, lastLine(lines, i), from)
  IN from[1]
=============================================================================
