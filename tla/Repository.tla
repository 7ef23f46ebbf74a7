----------------------------- MODULE Repository -----------------------------
(***************************************************************************)
(* compiler/repository.go, sqlgen/ and generator/di/repository.go: the     *)
(* methods of generated repositories, from their annotation to the call    *)
(* that runs the statement.  SQL is a sequence of words, digits and the    *)
(* characters the code looks at; a reference is the sequence of its parts. *)
(***************************************************************************)
EXTENDS MethodDiscovery

CONSTANTS
  Elem,       \* slice type -> element type
  Structs,    \* struct types
  Scalars,    \* boolean, numeric and string types
  Integers    \* the integer types among them

-----------------------------------------------------------------------------
(* sqlgen                                                                  *)

Digits == {"1", "2"}
isNameStart(s) == s \notin Digits \cup {"'", ":", ".", "space"}
isNamePart(s) == isNameStart(s) \/ s \in Digits \cup {"."}

\* Plausible bug (mutant): a cast is not recognised.
NoCast(sql, i) == FALSE

isCast(sql, i) == sql[i] = ":" /\ i < Len(sql) /\ sql[i + 1] = ":"

isReference(sql, i) == sql[i] = ":" /\ i < Len(sql) /\ isNameStart(sql[i + 1])

\* scanName: the end of the name that starts at i, trailing dots trimmed.
nameEnd(sql, i) ==
  CHOOSE j \in i .. Len(sql) :
    /\ sql[j] # "." /\ \A k \in i .. j : isNamePart(sql[k])
    /\ \A l \in j + 1 .. Len(sql) : (\A k \in i .. l : isNamePart(sql[k])) => sql[l] = "."

Placeholder(dialect, k) ==
  CASE dialect = "postgres" -> "$" \o ToString(k)
    [] dialect = "sqlserver" -> "@p" \o ToString(k)
    [] dialect \in {"question", "mysql"} -> "?"
    [] OTHER -> dialect \o ToString(k)

DialectByName(name) ==
  CASE name \in {"", "postgres"} -> {"postgres"}
    [] name \in {"question", "sqlite"} -> {"question"}
    [] name = "mysql" -> {"mysql"}
    [] name \in {"sqlserver", "mssql"} -> {"sqlserver"}
    [] OTHER -> {}

\* The statement with placeholders, and the references in order.
Compile(sql, dialect) ==
  LET copy(s, rest) == [rest EXCEPT !.sql = s \o @]
      from[i \in Nat, inString \in BOOLEAN, n \in Nat] ==
        IF i > Len(sql) THEN [sql |-> <<>>, params |-> <<>>]
        ELSE IF inString
        THEN IF sql[i] = "'" /\ i < Len(sql) /\ sql[i + 1] = "'"
             THEN copy(<<"'", "'">>, from[i + 2, TRUE, n])
             ELSE copy(<<sql[i]>>, from[i + 1, sql[i] # "'", n])
        ELSE IF sql[i] = "'" THEN copy(<<"'">>, from[i + 1, TRUE, n])
        ELSE IF isCast(sql, i) THEN copy(<<":", ":">>, from[i + 2, FALSE, n])
        ELSE IF isReference(sql, i)
        THEN LET end == nameEnd(sql, i + 1)
                 rest == from[end + 1, FALSE, n + 1]
             IN [sql |-> <<Placeholder(dialect, n + 1)>> \o rest.sql,
                 params |-> <<SubSeq(sql, i + 1, end)>> \o rest.params]
        ELSE copy(<<sql[i]>>, from[i + 1, FALSE, n])
  IN from[1, FALSE, 0]

\* The parameter a reference names, and the field path after it.
baseLen(ref) == CHOOSE n \in 1 .. Len(ref) :
  "." \notin ToSet(SubSeq(ref, 1, n)) /\ (n < Len(ref) => ref[n + 1] = ".")
base(ref) == FoldLeft(LAMBDA name, part : name \o part, "", SubSeq(ref, 1, baseLen(ref)))
fieldOf(ref) == SubSeq(ref, baseLen(ref) + 1, Len(ref))

-----------------------------------------------------------------------------
(* Discovery                                                               *)

queryAnnotations == <<"Query", "Exec", "Batch", "Call">>

\* querySQL: the first of the annotations that has a statement.
querySQL(d) ==
  LET text(i) == UNION {stringArgValue(a, PositionalKey) : a \in Find(d, queryAnnotations[i])}
      first == {i \in DOMAIN queryAnnotations : text(i) # {} /\ \A j \in 1 .. i - 1 : text(j) = {}}
  IN {[annotation |-> queryAnnotations[i], sql |-> Chars[The(text(i), "")]] : i \in first}

resolveQueryKind(ann, sig) ==
  CASE ann = "Exec" -> "exec"
    [] ann = "Batch" -> "batch"
    [] ann = "Call" -> IF Len(sig.results) >= 2 THEN "read" ELSE "exec"
    [] ann = "Query" -> "read"

\* batchInfo: the only slice parameter.
sliceParams(sig) == {i \in 2 .. Len(sig.params) : sig.params[i].type \in DOMAIN Elem}
batchInfo(sig) == IF Cardinality(sliceParams(sig)) = 1 THEN sliceParams(sig) ELSE {}

rowType(ret) ==
  LET elem == IF ret \in DOMAIN Elem THEN Elem[ret] ELSE ret IN namedOf(elem)

ReturnShape(sig, kind) ==
  IF kind # "read" THEN [rowsAffected |-> Len(sig.results) = 2]
  ELSE [multi |-> sig.results[1] \in DOMAIN Elem, scalar |-> rowType(sig.results[1]) \in Scalars]

\* classifyReturn accepts the results.
classifyReturn(sig, kind) ==
  /\ returnsErrorLast(sig)
  /\ kind \in {"exec", "batch"} =>
       Len(sig.results) = 1 \/ (Len(sig.results) = 2 /\ sig.results[1] \in Integers)
  /\ kind = "read" =>
       Len(sig.results) = 2 /\ rowType(sig.results[1]) \in Structs \cup Scalars

paramNames(sig) == {sig.params[i].name : i \in DOMAIN sig.params} \ {""}

validateParams(sql, sig) ==
  \A i \in DOMAIN Compile(sql, "postgres").params :
    base(Compile(sql, "postgres").params[i]) \in paramNames(sig)

validQuery(d, q) ==
  LET kind == resolveQueryKind(q.annotation, d.sig)
  IN /\ takesContextFirst(d.sig) /\ classifyReturn(d.sig, kind)
     /\ kind = "batch" => batchInfo(d.sig) # {}

repositoryDecls(decls, app) ==
  {d \in methodsOf(decls) :
     \E c \in DOMAIN app : c = ComponentID[d.recv] /\ app[c].build = "repository"}

repositoryCodes(decls, app) ==
  UNION {IF querySQL(d) = {} THEN {"GOBREP003"}
         ELSE UNION {IF ~validQuery(d, q) THEN {"GOBREP001"}
                     ELSE IF validateParams(q.sql, d.sig) THEN {} ELSE {"GOBREP002"} : q \in querySQL(d)}
         : d \in repositoryDecls(decls, app)}

\* repositoryMethod for each method of repository c.
repositoryMethods(decls, c) ==
  LET method(d, q) ==
        LET kind == resolveQueryKind(q.annotation, d.sig)
        IN [name |-> d.name, sql |-> q.sql, kind |-> kind, sig |-> d.sig,
            shape |-> ReturnShape(d.sig, kind), batch |-> The(batchInfo(d.sig), 0)]
      own == {d \in methodsOf(decls) : ComponentID[d.recv] = c /\ \E q \in querySQL(d) : validQuery(d, q)}
  IN {method(d, The(querySQL(d), {})) : d \in own}

-----------------------------------------------------------------------------
(* Generation                                                              *)

ArgName(i) == "a" \o ToString(i - 1)

\* sqlArgs and batchSQLArgs: parameters are renamed by position, that of a batch
\* to the loop variable.
sqlArg(m, ref) ==
  LET named == {i \in DOMAIN m.sig.params : m.sig.params[i].name = base(ref)}
  IN [var |-> IF m.kind = "batch" /\ named = {m.batch} THEN "item"
              ELSE IF named = {} THEN base(ref) ELSE ArgName(CHOOSE i \in named : TRUE),
      field |-> fieldOf(ref)]

sqlArgs(m, refs) == [k \in DOMAIN refs |-> sqlArg(m, refs[k])]

\* The call that runs the statement and how its outcome becomes the result.
renderRepositoryMethod(m, dialect) ==
  LET compiled == Compile(m.sql, dialect)
      runs == IF m.kind # "read" THEN "ExecContext" ELSE IF m.shape.multi THEN "QueryContext" ELSE "QueryRowContext"
  IN [name |-> m.name, calls |-> runs, loops |-> m.kind = "batch", sql |-> compiled.sql,
      args |-> sqlArgs(m, compiled.params), shape |-> m.shape]

\* The code of each method.
renderRepository(queries, dialect) == [m \in queries |-> renderRepositoryMethod(m, dialect)]
=============================================================================
