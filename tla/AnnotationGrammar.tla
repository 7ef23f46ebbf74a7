-------------------------- MODULE AnnotationGrammar -------------------------
(***************************************************************************)
(* What the annotation language is, said without a parser: a sentence is   *)
(* derived when it can be cut into pieces that are, wherever the cuts are. *)
(* The two properties compare the declarations that a scan yields with it. *)
(***************************************************************************)
EXTENDS Pipeline

Blank(s, i, j) == \A k \in i .. j : s[k] = "space"

\* The ends of s[i .. j] without the space around it (i > j if there is nothing).
TrimStart(s, i, j) == CHOOSE k \in i .. j + 1 : Blank(s, i, k - 1) /\ (k <= j => s[k] # "space")
TrimEnd(s, i, j) == CHOOSE k \in i - 1 .. j : Blank(s, k + 1, j) /\ (k >= i => s[k] # "space")

\* s[k] follows an odd number of backslashes, counted back to position i.
Escaped(s, i, k) ==
  Cardinality({l \in i + 1 .. k - 1 : \A m \in l .. k - 1 : s[m] = "escape"}) % 2 = 1

Quoted(s, i, j) ==
  /\ i < j /\ s[i] = "quote" /\ s[j] = "quote" /\ ~Escaped(s, i, j)
  /\ \A k \in i + 1 .. j - 1 : /\ s[k] = "quote" => Escaped(s, i, k)
                               /\ Escaped(s, i, k) => s[k] \in Escapable
Raw(s, i, j) ==
  i < j /\ s[i] = "tick" /\ s[j] = "tick" /\ \A k \in i + 1 .. j - 1 : s[k] # "tick"

Word(s, i, j) ==
  /\ i = j
  /\ isIdentStart(s[i]) \/ (s[i] \in DOMAIN Numbers /\ (Numbers[s[i]].fits \/ Numbers[s[i]].kind = "float"))

\* s[i .. j] is a value, or a list of elements: of an array, the fields of an
\* object or arguments, n of them positional and keys taken before them.
Derived(s) ==
  LET is[what \in {"value", "elements", "fields", "arguments"}, i \in Int, j \in Int,
         depth \in Nat, keys \in SUBSET STRING, n \in Nat] ==
        LET a == TrimStart(s, i, j)
            b == TrimEnd(s, i, j)
            inside(open, list, close) ==
              /\ s[a] = open /\ s[b] = close
              /\ Blank(s, a + 1, b - 1) \/ is[list, a + 1, b - 1, depth + 1, {}, 0]
            element(k) ==
              LET eq == TrimStart(s, a + 1, k)
                  named == what # "elements" /\ a < k /\ isIdentStart(s[a]) /\ eq <= k /\ s[eq] = "="
                  key == IF named THEN s[a] ELSE positionalKey(n)
                  more(from) == is[what, from, j, depth, keys \cup {key}, IF named THEN n ELSE n + 1]
              IN /\ what = "fields" => named
                 /\ named => key \notin keys
                 /\ is["value", IF named THEN eq + 1 ELSE a, k, depth, {}, 0]
                 /\ k = j \/ Blank(s, k + 2, j) \/ more(k + 2)
        IN IF what = "value"
           THEN /\ depth <= maxNestingDepth /\ a <= b
                /\ \/ Word(s, a, b) \/ Quoted(s, a, b) \/ Raw(s, a, b)
                   \/ a < b /\ (inside("[", "elements", "]") \/ inside("{", "fields", "}"))
           ELSE a <= b /\ \E k \in a .. j : (k = j \/ s[k + 1] = ",") /\ element(k)
  IN is

\* A line is an annotation: a name right after the @, then nothing or arguments.
Sentence(s) ==
  LET a == TrimStart(s, 1, Len(s))
      b == TrimEnd(s, 1, Len(s))
      open == TrimStart(s, a + 2, b)
  IN /\ a < b /\ s[a] = "@" /\ isIdentStart(s[a + 1])
     /\ \/ open > b
        \/ /\ s[open] = "(" /\ s[b] = ")" /\ open < b
           /\ Blank(s, open + 1, b - 1) \/ Derived(s)["arguments", open + 1, b - 1, 0, {}, 0]

-----------------------------------------------------------------------------
(* Properties                                                              *)

\* What the scan found under a comment.
AnnotationsUnder(comment) ==
  LET found == {d \in Range(decls) : d.comment = comment}
  IN IF found = {} THEN <<>> ELSE (CHOOSE d \in found : TRUE).anns

\* The scanner reads the language, no more and no less: a line yields an
\* annotation exactly if the grammar derives it, and then the one it names.
GrammarExact ==
  phase = "discover" =>
    \A d \in {x \in ToSet(source.decls) : Len(x.comment) = 1} :
      LET line == d.comment[1]
          anns == AnnotationsUnder(d.comment)
      IN IF Sentence(line) THEN Len(anns) = 1 /\ anns[1].name = line[TrimStart(line, 1, Len(line)) + 1]
         ELSE anns = <<>>

\* A line that leaves nothing open; one that leaves only brackets open.
OpenAfter(line) ==
  LET outside == {i \in DOMAIN line : Cardinality({k \in 1 .. i - 1 : line[k] = "quote"}) % 2 = 0}
  IN Cardinality({i \in outside : line[i] \in Opening}) - Cardinality({i \in outside : line[i] \in Closing})
Plain(line) ==
  /\ "tick" \notin ToSet(line) /\ "escape" \notin ToSet(line)
  /\ Cardinality({i \in DOMAIN line : line[i] = "quote"}) % 2 = 0
AloneIn(line) == Plain(line) /\ OpenAfter(line) = 0

\* "Well-formed annotations are still returned even when siblings fail to parse":
\* when no line leaves anything open, the annotations of a comment are those of its lines, each as
\* if it stood alone; and an annotation broken inside its brackets is the same
\* annotation as on one line, with the lines after it untouched.
SiblingsKept ==
  phase = "discover" =>
    \A d \in {x \in ToSet(source.decls) : Len(x.comment) > 1} :
      LET lines == d.comment
          lone(line) == ParseComment(<<line>>).anns
          oneLine == <<lines[1] \o <<"space">> \o lines[2]>> \o SubSeq(lines, 3, Len(lines))
      IN /\ (\A i \in DOMAIN lines : AloneIn(lines[i])) =>
              AnnotationsUnder(lines) = FoldLeft(LAMBDA all, line : all \o lone(line), <<>>, lines)
         /\ Plain(lines[1]) /\ Plain(lines[2]) /\ OpenAfter(lines[1]) > 0 /\ isAnnotationStart(lines[1]) =>
              AnnotationsUnder(lines) = ParseComment(oneLine).anns
=============================================================================
