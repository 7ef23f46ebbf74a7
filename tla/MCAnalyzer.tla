----------------------------- MODULE MCAnalyzer -----------------------------
(* Pipeline for TLC.  The sources come in families, each exhaustive about   *)
(* one question; the types are three structs, interfaces, an entity U and   *)
(* an error type.                                                           *)
EXTENDS AnnotationGrammar

Three == {"A", "B", "C"}
Pointer(t) == "*" \o t
TheComponentID == [A |-> 2, B |-> 4, C |-> 6, N |-> 8, R |-> 10] @@ ("N#x" :> 12)
ThePointee == FoldLeft(LAMBDA f, t : (Pointer(t) :> t) @@ f, <<>>, <<"A", "B", "C", "U", "Err">>)
MCInterfaces == {"I", "K", "R"}
TheMethodsOf == [I |-> {"Do", "Get"}, K |-> {"Other"}, R |-> {"M"}]
TheAssignable ==
  {<<t, t>> : t \in DOMAIN ThePointee \cup MCInterfaces \cup Three \cup {"error"}}
    \cup {<<"*A", "I">>, <<"*A", "K">>, <<"*B", "I">>, <<"*Err", "error">>}
TheNumbers ==
  [n \in {"0", "1", "2", "3", "4", "202", "250", "404"} |-> [kind |-> "int", fits |-> TRUE,
      val |-> CASE n = "0" -> 0 [] n = "1" -> 1 [] n = "2" -> 2 [] n = "3" -> 3 [] n = "4" -> 4
                [] n = "202" -> 202 [] n = "250" -> 250 [] n = "404" -> 404]]
    @@ ("99" :> [kind |-> "int", fits |-> FALSE, val |-> 0])
    @@ ("1.5" :> [kind |-> "float", fits |-> FALSE, val |-> 0])
    @@ ("9e" :> [kind |-> "error", fits |-> FALSE, val |-> 0])
TheDurations == ("1ms" :> 1) @@ ("2s" :> 20) @@ ("-1s" :> -10)
TheTimeUnits == [MILLISECONDS |-> 1, SECONDS |-> 10]
TheElem == ("[]U" :> "U") @@ ("[]*U" :> "*U") @@ ("[]int64" :> "int64")
MCStructs == Three \cup {"U"}
MCScalars == {"int64", "string"}
MCIntegers == {"int64"}

-----------------------------------------------------------------------------
(* Declarations                                                            *)

Q(text) == <<"quote", text, "quote">>
Texts(t) == <<"[">> \o Q(t) \o <<"]">>
KV(key, value) == <<key, "=">> \o value
Ann(name) == <<"@", name>>
AnnWith(name, inside) == <<"@", name, "(">> \o inside \o <<")">>

P(name, type) == [name |-> name, type |-> type]
Ctx == P("ctx", "context")
Sig(params, results) == [variadic |-> FALSE, params |-> params, results |-> results]
CtxErr == Sig(<<Ctx>>, <<"error">>)
TypeDecl(name, comment, shape, ctor) ==
  [target |-> "struct", name |-> name, comment |-> comment, shape |-> shape, ctor |-> ctor]
Struct(name, comment) == TypeDecl(name, comment, "empty", {})
Method(name, recv, comment, sig) ==
  [target |-> "method", name |-> name, recv |-> recv, comment |-> comment, sig |-> sig]
Root == Struct("Main", <<AnnWith("Application", KV("name", Q("app")))>>)

Source(list) ==
  [decls |-> <<Root>> \o list, active |-> {}, properties |-> <<>>, plugins |-> <<>>,
   strict |-> FALSE, dialect |-> ""]

\* Lines that are there if the condition holds.
If(cond, lines) == IF cond THEN lines ELSE <<>>

-----------------------------------------------------------------------------
(* Which component is built from which: every dependency of three services  *)
(* on the others and on the interface that two of them implement, with a    *)
(* choice of primaries and of an intercepted service.                       *)

ParamLists == [wants \in SUBSET {"*A", "*B", "*C", "I", "K"} |-> SetToSeq({P("p", w) : w \in wants})]
New(t, wants) == {Sig(ParamLists[wants], <<Pointer(t)>>)}
Wants(t) == SUBSET ({Pointer(u) : u \in Three \ {t}} \cup {"I"})
Interception == {<<"", FALSE>>, <<"A", TRUE>>, <<"A", FALSE>>, <<"C", TRUE>>}

DependencySources ==
  {Source([i \in 1 .. 3 |->
      LET t == <<"A", "B", "C">>[i]
      IN TypeDecl(t, <<IF x[2] THEN AnnWith("Service", KV("implements", Q("I"))) ELSE Ann("Service")>>
                       \o If(t \in primary, <<Ann("Primary")>>), "struct", New(t, <<a, b, c>>[i]))]
      \o If(x[1] # "", <<Method("Do", x[1], <<Ann("Timed")>>, CtxErr)>>)) :
    a \in Wants("A"), b \in Wants("B"), c \in Wants("C"), x \in Interception,
    primary \in {{}, {"A"}, {"A", "B"}}}

\* An intercepted service that implements two interfaces, its proxy only one, which
\* may not have the intercepted method.
InterfaceSources ==
  {Source(<<TypeDecl("A", <<AnnWith("Service", KV("implements", Q(i)))>> \o If(primary, <<Ann("Primary")>>),
                     "struct", New("A", {})),
            TypeDecl("B", <<Ann("Service")>>, "struct", New("B", b)),
            TypeDecl("C", <<Ann("Service")>>, "struct", New("C", c)),
            Method(m, "A", <<Ann("Timed")>>, CtxErr)>>) :
    i \in {"I", "K"}, m \in {"Do", "Other"}, primary \in BOOLEAN, b \in SUBSET {"*A", "*C", "I", "K"}, c \in SUBSET {"*A", "I", "K"}}

-----------------------------------------------------------------------------
(* Which component is kept: nut conditions on each other; profiles and      *)
(* properties under every choice of options.                                *)

AtMostOne(t) == {{}} \cup {{u} : u \in Three \ {t}}
OnNut(ann, S) == If(S # {}, <<AnnWith(ann, KV("type", Q(CHOOSE u \in S : TRUE)))>>)

NutSources ==
  {Source([i \in 1 .. 3 |->
      LET t == <<"A", "B", "C">>[i]
      IN Struct(t, <<Ann("Component")>> \o OnNut("ConditionalOnNut", <<x[1], y[1], z[1]>>[i])
                     \o OnNut("ConditionalOnMissingNut", <<x[2], y[2], z[2]>>[i])
                     \o If(prod /\ t = "A", <<AnnWith("Profile", Texts("prod"))>>))]) :
    x \in AtMostOne("A") \X AtMostOne("A"), y \in AtMostOne("B") \X AtMostOne("B"),
    z \in AtMostOne("C") \X {{}}, prod \in BOOLEAN}

OnProperty ==
  {<<>>,
   <<AnnWith("ConditionalOnProperty", KV("name", Q("cache")) \o <<",">> \o KV("havingValue", Q("on")))>>,
   <<AnnWith("ConditionalOnProperty", KV("name", Q("cache")) \o <<",">> \o KV("matchIfMissing", <<"true">>))>>}

OptionSources ==
  {[Source([i \in 1 .. 3 |->
      LET t == <<"A", "B", "C">>[i]
      IN Struct(t, <<AnnWith("Service", KV("implements", Q("I")))>> \o <<x, y, z>>[i]
                     \o If(t \in prod, <<AnnWith("Profile", <<"[">> \o Q("dev") \o <<",">> \o Q("prod") \o <<"]">>)>>)
                     \o If(t = "C" /\ "C" \in prod, OnNut("ConditionalOnNut", {"A"})))]
      \o <<Method("Do", "A", <<Ann("Traced")>>, CtxErr)>>)
    EXCEPT !.active = active, !.properties = properties] :
    x \in OnProperty, y \in OnProperty, z \in OnProperty, prod \in {{}, {"A"}, {"B", "C"}, Three},
    active \in {{}, {"prod"}}, properties \in {<<>>, [cache |-> "on"], [cache |-> "off"]}}

-----------------------------------------------------------------------------
(* How a component is declared                                              *)

Constructors ==
  {{}, {[Sig(<<P("b", "*B")>>, <<"*A">>) EXCEPT !.variadic = TRUE]}}
  \cup {{Sig(ps, rs)} :
    ps \in {<<>>, <<P("b", "*B")>>},
    rs \in {<<"*A">>, <<"*A", "error">>, <<"I">>, <<"*A", "*B">>, <<"*A", "*B", "error">>, <<>>}}

ComponentAnnotations ==
  {<<Ann(n)>> : n \in {"Component", "Service", "Repository", "RestController", "ControllerAdvice", "Configuration"}}
    \cup {<<AnnWith("Service", KV("implements", Q(n)))>> : n \in {"I", "Unknown"}}
    \cup {<<AnnWith("ConfigurationProperties", KV("prefix", Q("app")))>>,
          <<Ann("Component"), AnnWith("Repository", KV("name", Q("x")))>>,
          <<Ann("Unregistered")>>}

DeclarationSources ==
  {[Source(<<[TypeDecl("A", comment, shape[2], ctor) EXCEPT !.target = shape[1]],
              Struct("B", <<Ann("Service")>>)>>) EXCEPT !.strict = ctor = {}] :
    comment \in ComponentAnnotations, ctor \in Constructors,
    shape \in {<<"struct", "empty">>, <<"struct", "struct">>, <<"type", "other">>, <<"interface", "other">>}}

\* Nuts, whose ID has the nut's name, beside a service that wants what they provide.
NutLines == {<<Ann("Nut")>>, <<AnnWith("Nut", KV("name", Q("x")))>>, <<Ann("Nut"), Ann("Primary")>>,
             <<Ann("Nut"), AnnWith("Scope", Q("singleton"))>>}
ProviderSources ==
  {Source(<<[Method("N", "C", line, Sig(ps, rs)) EXCEPT !.target = target],
            TypeDecl("A", <<Ann("Service")>>, "struct", New("A", {"I"})),
            TypeDecl("C", <<Ann("Component")>>, "empty", New("C", {}))>>) :
    line \in NutLines, target \in {"function", "method"}, ps \in {<<>>, <<P("b", "*C")>>},
    rs \in {<<"I">>, <<"I", "error">>, <<"I", "I">>, <<>>}}

\* No root, one or two.
RootSources ==
  {[Source(<<Struct("A", <<Ann("Service")>>)>>) EXCEPT
      !.decls = [i \in 1 .. n |-> Root] \o @, !.strict = strict, !.dialect = name] :
    n \in 0 .. 1, strict \in BOOLEAN, name \in {"", "mysql", "mssql", "sqlite", "none"}}
  \cup {[Source(<<>>) EXCEPT !.decls = <<>>, !.strict = strict] : strict \in BOOLEAN}

\* What the wiring calls its variables.
Spellings == {"x", "X", "x2", "err", "type", "app", "-"}
TheLetters ==
  LET same(n) == [clean |-> n, lower |-> n, upper |-> n]
      pair(l, u, n) == [clean |-> n, lower |-> l, upper |-> u]
  IN [n \in Spellings \cup Three \cup {"N", "R", "AProxy", "BProxy"} |->
        CASE n \in {"x", "X"} -> pair("x", "X", n)
          [] n = "x2" -> pair("x2", "X2", n)
          [] n = "err" -> pair("err", "Err", n)
          [] n = "type" -> pair("type", "Type", n)
          [] n = "app" -> pair("app", "App", n)
          [] n = "-" -> same("")
          [] n = "A" -> pair("a", "A", n) [] n = "B" -> pair("b", "B", n) [] n = "C" -> pair("c", "C", n)
          [] n = "N" -> pair("n", "N", n) [] n = "R" -> pair("r", "R", n)
          [] n = "AProxy" -> pair("aProxy", "AProxy", n) [] n = "BProxy" -> pair("bProxy", "BProxy", n)]

NameSources ==
  {Source([i \in 1 .. 3 |->
      TypeDecl(<<"A", "B", "C">>[i], <<AnnWith("Service", KV("name", Q(<<x, y, z>>[i])))>>, "struct",
               {Sig(<<>>, <<<<"*A", "*B", "*C">>[i]>> \o If(z = "x", <<"error">>))})]) :
    x \in Spellings, y \in Spellings, z \in Spellings}

-----------------------------------------------------------------------------
(* What annotated methods add.                                              *)

\* Routes of a controller: two methods, with paths that may be one after joining.
Paths == {"", "/", "/x", "x/", "/x/"}
PathArg(text) == If(text # "", KV("path", Q(text)))
Mapping(ann, text) == IF text = "" THEN Ann(ann) ELSE AnnWith(ann, PathArg(text))
Handling == Sig(<<Ctx, P("req", "*U")>>, <<"*U", "error">>)

RouteSources ==
  {Source(<<Struct("A", <<Ann("RestController"), Mapping("RequestMapping", top)>>),
            Method("Get", "A", <<Mapping("GetMapping", x)>>, Handling),
            Method("Other", "A", <<Mapping(ann, y)>>, Handling)>>) :
    top \in Paths, x \in Paths, y \in Paths, ann \in {"GetMapping", "PostMapping"}}

\* One method on each kind of component, with its annotations and its signature.
MethodLines ==
  {<<Ann(n)>> : n \in nonRouteInterceptAnnotations \ {"Timeout"}}
  \cup {<<AnnWith("Timeout", Q(text))>> : text \in {"2s", "soon"}}
  \cup {<<AnnWith("Cacheable", KV("key", Q(key)))>> : key \in {"k", "k:#{id}", "k:#{ctx}"}}
  \cup {<<AnnWith("CacheEvict", KV("key", Q("k:#{id}"))), Ann("Timed")>>,
        <<AnnWith("Authorize", KV("roles", Texts("admin")))>>, <<AnnWith("RolesAllowed", Texts("admin"))>>,
        <<AnnWith("GetMapping", KV("status", <<"202">>)), AnnWith("Response", KV("status", <<"250">>))>>,
        <<AnnWith("Response", KV("status", <<"404">>)), AnnWith("Response", KV("status", <<"250">>)),
          Ann("DeleteMapping")>>,
        <<Ann("PutMapping"), AnnWith("Authorize", KV("roles", Texts("admin"))), AnnWith("Consumes", Texts("json"))>>,
        <<Ann("GetMapping"), AnnWith("RolesAllowed", Texts("admin"))>>, <<Ann("PutMapping"), Ann("PostMapping")>>,
        <<Ann("GetMapping"), AnnWith("Authorize", KV("permissions", Texts("write")))>>,
        <<Ann("GetMapping"), AnnWith("Authorize", KV("roles", Texts("admin")) \o <<",">> \o KV("mode", Q("all")))>>,
        <<Ann("ExceptionHandler")>>, <<Ann("ExceptionHandler"), AnnWith("ResponseStatus", <<"404">>)>>,
        <<Ann("PostConstruct")>>, <<Ann("PreDestroy")>>, <<Ann("Query")>>}
Signatures ==
  {CtxErr, Handling, Sig(<<>>, <<>>), Sig(<<Ctx, P("id", "string")>>, <<"*U", "error">>),
   Sig(<<Ctx, P("id", "*Err")>>, <<"*U", "error">>), Sig(<<Ctx, P("id", "error")>>, <<"error">>),
   Sig(<<P("id", "string")>>, <<"error">>), Sig(<<Ctx>>, <<"*U">>), Sig(<<Ctx>>, <<"*U", "*U", "error">>)}
Kinds ==
  {<<Ann(n)>> : n \in {"RestController", "ControllerAdvice", "Component", "Repository"}}
  \cup {<<AnnWith("Service", KV("implements", Q("I")))>>,
        <<Ann("ControllerAdvice"), AnnWith("Profile", Texts("prod"))>>}

MethodSources ==
  {Source(<<Struct("A", kind), Method("Do", "A", lines, sig)>>) :
    kind \in Kinds, lines \in MethodLines, sig \in Signatures}

\* Two advices, of which either may be constructed as the other's type, handle one
\* type or two for a controller that may have a route.
AdviceSources ==
  {Source(<<TypeDecl("A", <<Ann("ControllerAdvice")>>, "struct", {Sig(<<>>, <<x>>)}),
            TypeDecl("B", <<Ann("ControllerAdvice")>>, "struct", {Sig(<<>>, <<y>>)}),
            Method("One", "A", <<Ann("ExceptionHandler")>>, Sig(<<Ctx, P("err", "error")>>, <<"error">>)),
            Method("Two", "B", lines, Sig(<<Ctx, P("err", caught)>>, <<"*U", "error">>)),
            Struct("C", <<Ann("RestController")>>)>>
            \o If(routed, <<Method("Get", "C", <<Ann("GetMapping")>>, Handling)>>)) :
    x \in {"*A", "*B"}, y \in {"*A", "*B"}, lines \in {<<Ann("ExceptionHandler")>>, <<Ann("Timed")>>},
    caught \in {"*Err", "error"}, routed \in BOOLEAN}

\* Hooks of a service and of what it is built from, either of which may be dropped.
HookLine == {<<>>, <<Ann("PostConstruct")>>, <<Ann("PreDestroy")>>}
HookSources ==
  {Source(<<TypeDecl("A", <<Ann("Service")>> \o If("A" \in prod, <<AnnWith("Profile", Texts("prod"))>>),
                     "struct", New("A", {"*B"})),
            Struct("B", <<Ann("Service")>>),
            Method("One", "A", x, CtxErr), Method("Two", "A", y, CtxErr),
            Method("One", "B", z, CtxErr), Method("Two", "B", w, Sig(<<>>, <<>>))>>) :
    x \in HookLine, y \in HookLine, z \in HookLine, w \in HookLine, prod \in SUBSET {"A"}}

\* Rates in units, up to one that overflows.
Amount == {<<n>> : n \in {"0", "1", "2", "3", "4"}} \cup {Q(d) : d \in {"2s", "-1s", "soon"}}
ScheduleSources ==
  {Source(<<Struct("A", <<Ann("Component")>>),
            Method("Tick", "A", <<AnnWith("Scheduled", KV(key, rate) \o If(unit # "", <<",">> \o KV("timeUnit", <<unit>>))
                                      \o If(delay # <<>>, <<",">> \o KV("initialDelay", delay)))>>, sig)>>) :
    key \in {"fixedRate", "fixedDelay"}, rate \in Amount, unit \in {"", "SECONDS", "HOURS"},
    delay \in {<<>>, <<"1">>, Q("soon")}, sig \in {CtxErr, Handling}}

-----------------------------------------------------------------------------
(* Repositories: statements over quotes, colons, dots and a parameter, all   *)
(* methods of one repository.                                               *)

\* The k-th text of the given length over an alphabet.
Spelled(k, alphabet, length) ==
  [i \in 1 .. length |-> alphabet[((k \div Len(alphabet) ^ (i - 1)) % Len(alphabet)) + 1]]

\* Four symbols, then a reference that they may quote or turn into a cast.
SqlAlphabet == <<"'", ":", ".", "id", "space">>
Statement(k) == Spelled(k, SqlAlphabet, 4) \o <<":", "id">>
Statements == 1 .. 5 ^ 4
Legible(k) == \A i \in 1 .. 4 : Statement(k)[i] = "id" => Statement(k)[i + 1] # "id"
SqlNames == [k \in Statements |-> "sql" \o ToString(k)]
TheChars ==
  [t \in {SqlNames[k] : k \in Statements} |-> Statement(CHOOSE k \in Statements : SqlNames[k] = t)]
    @@ [k |-> <<"k">>, bad |-> <<"where", "space", ":", "other">>]
    @@ ("" :> <<>>) @@ ("/" :> <<"/">>) @@ ("/x" :> <<"/", "x">>) @@ ("x/" :> <<"x", "/">>) @@ ("/x/" :> <<"/", "x", "/">>)
    @@ ("k:#{id}" :> <<"k:", "#{", "id", "}">>) @@ ("k:#{ctx}" :> <<"k:", "#{", "ctx", "}">>)

Shapes ==
  {<<"Exec", Sig(<<Ctx, P("id", "string")>>, <<"error">>)>>,
   <<"Query", Sig(<<Ctx, P("n", "int64"), P("id", "string")>>, <<"[]U", "error">>)>>,
   <<"Batch", Sig(<<Ctx, P("id", "[]*U"), P("n", "int64")>>, <<"int64", "error">>)>>,
   <<"Batch", Sig(<<Ctx, P("n", "[]U"), P("id", "string")>>, <<"error">>)>>}
Interface(list) ==
  <<[TypeDecl("R", <<AnnWith("Repository", KV("generate", <<"true">>))>>, "other", {}) EXCEPT !.target = "interface"]>> \o list

Oracle == [name |-> "oracle", annotations |-> <<>>, dialects |-> {"oracle"}, panics |-> {},
           analyze |-> "none", generate |-> "none"]

Queries(n, shape) ==
  LET legible == SelectSeq([j \in 1 .. 125 |-> 125 * n + j], Legible)
  IN [i \in DOMAIN legible |->
        Method("M" \o ToString(i), "R", <<AnnWith(shape[1], Q(SqlNames[legible[i]]))>>, shape[2])]
RepositorySources ==
  {[Source(Interface(Queries(n, shape))) EXCEPT !.dialect = dialect, !.plugins = <<Oracle>>] :
    n \in 0 .. 4, shape \in Shapes, dialect \in {"", "oracle"}}

\* One method of every kind, with every result.
Results == {<<>>, <<"error">>, <<"*U", "error">>, <<"[]int64", "error">>, <<"int64", "error">>, <<"I", "error">>,
            <<"string", "error">>, <<"*U", "*U", "error">>, <<"*U">>}
QueryMethodSources ==
  {Source(Interface(<<Method("M", "R", lines, Sig(ps, rs))>>)) :
    lines \in {<<AnnWith(ann, Q(text))>> : ann \in ToSet(queryAnnotations), text \in {"k", "bad"}}
              \cup {<<AnnWith("Query", KV("file", Q("f")))>>, <<Ann("Timed")>>,
                    <<AnnWith("Query", KV("file", Q("f"))), AnnWith("Exec", Q("k")), AnnWith("Batch", Q("bad"))>>},
    ps \in {<<>>, <<Ctx>>, <<Ctx, P("other", "[]U")>>, <<Ctx, P("id", "string")>>}, rs \in Results}

-----------------------------------------------------------------------------
(* Plugins                                                                  *)

Does == {"none", "ok", "error", "panic"}
Own(name) == [name |-> name, def |-> Definition(Types, NoArgs, NoPositional)]
Defined(targets, codes) == [name |-> "Extra", def |-> [Definition(targets, NoArgs, NoPositional) EXCEPT !.validator = codes]]
Plugin(name, annotations, analyze, generate) ==
  [name |-> name, annotations |-> annotations, dialects |-> {"d"}, panics |-> {},
   analyze |-> analyze, generate |-> generate]
Extended(plugins, dialect) ==
  [Source(<<Struct("A", <<Ann("Service"), Ann("Extra")>>)>>) EXCEPT !.plugins = plugins, !.dialect = dialect]

PluginSources ==
  {Extended(<<Plugin("one", <<Own("Extra")>>, a, g), Plugin("two", <<>>, b, h)>>, "d") :
    a \in Does, b \in Does, g \in Does, h \in Does}
  \cup {Extended(<<Plugin("one", x, "ok", "ok"), Plugin("two", y, "ok", "ok")>>, dialect) :
    x \in {<<>>, <<Own("Extra")>>}, dialect \in {"", "none"},
    y \in {<<>>, <<Own("Extra")>>, <<Own("Service"), Own("")>>, <<Own("More"), Own("Extra")>>}}
  \cup {Extended(<<Plugin("one", <<Defined(targets, codes)>>, "ok", "ok")>>, "") :
    targets \in {{}, Types, {"method"}}, codes \in {{}, {"plugin's own"}, {"panic"}}}

\* Either of two plugins panics where nothing recovers it; only the second has "e".
PanicSources ==
  {Extended(<<[Plugin("one", <<>>, "ok", g) EXCEPT !.panics = x],
              [Plugin("two", <<Own("Extra")>>, "ok", "ok") EXCEPT !.panics = y, !.dialects = {"d", "e"}]>>, dialect) :
    x \in SUBSET {"annotations", "dialects"}, y \in SUBSET {"annotations", "dialects"},
    g \in {"ok", "panic"}, dialect \in {"", "d", "e", "none"}}

-----------------------------------------------------------------------------
(* Comments, many declarations to a source.                                 *)

Separators == {"(", ")", "[", "]", "{", "}", "=", ",", "space", "quote", "tick", "escape", "@"}
Readable(s) == \A i \in 1 .. Len(s) - 1 : s[i] \in Separators \/ s[i + 1] \in Separators
Commented(comments) == Source([k \in DOMAIN comments |-> Struct("X", comments[k])])
OneLiners(list) == LET legible == SelectSeq(list, Readable) IN Commented([k \in DOMAIN legible |-> <<legible[k]>>])

\* Every short argument list.
Symbols == <<")", "a", "1", "99", "1.5", "9e", "=", ",", "quote", "tick", "escape", "[", "{", "space">>
Brackets == <<")", "a", "=", ",", "quote", "[", "]", "space">>
ShortSources ==
  {OneLiners([k \in 1 .. Len(Symbols) ^ 2 |-> <<"@", "X", "(", c>> \o Spelled(k, Symbols, 2)]) : c \in ToSet(Symbols)}
    \cup {OneLiners([k \in 1 .. Len(Brackets) ^ 3 |-> <<"@", "X", "(", c>> \o Spelled(k, Brackets, 3)]) : c \in ToSet(Brackets)}

\* Every edit of longer ones.
Rich ==
  {<<"@", "X", "(", "a", "=", "[", "1", ",", "b", "]", ",", "c", ")">>,
   <<"@", "X", "(", "a", "=", "{", "b", "=", "1", ",", "c", "=", "2", "}", ")">>,
   <<"@", "X", "(", "[", "{", "b", "=", "[", "]", "}", ",", "1", "]", ")">>,
   <<"@", "X", "(", "quote", "a", "escape", "quote", ")", "quote", ",", ")">>,
   <<"@", "X", "(", "tick", "(", "quote", "tick", ",", "a", "=", "true", ")">>,
   <<"@", "X", "(", "value", "=", "1", ",", "2", ",", "value1", "=", "3", ")">>,
   <<"space", "@", "X", "space", "(", "space", "1", "space", ",", ")", "space">>}
EditSources ==
  {OneLiners(<<s>> \o [i \in 1 .. Len(s) - 1 |-> RemoveAt(s, i + 1)]) : s \in Rich}
    \cup {OneLiners([i \in 1 .. Len(s) - 1 |-> ReplaceAt(s, i + 1, c)]
                      \o [i \in 1 .. Len(s) |-> InsertAt(s, i + 1, c)]) :
           s \in Rich, c \in Separators \cup {"a", "1"}}

\* Every comment of three lines.
Lines == <<<<"@", "X">>, <<"@", "X", "space", "a">>, <<"@", "X", "(", "1", ")">>, <<"@", "X", "(", "a", "=">>,
           <<"1", ")">>, <<")">>, <<"@", "Y", "(", "quote", "(", "quote", ")">>, <<"@", "Y", "(", "]">>,
           <<"a">>, <<>>, <<"@", "X", "(", "quote", ")">>, <<"@", "X", "(", "tick", ")">>, <<"tick", ")">>>>
LineSources == {Commented([k \in 1 .. Len(Lines) ^ 2 |-> <<line>> \o Spelled(k, Lines, 2)]) : line \in ToSet(Lines)}

AllSources ==
  <<DependencySources, InterfaceSources, NutSources, OptionSources, DeclarationSources, ProviderSources, RootSources,
    NameSources, RouteSources, MethodSources, AdviceSources, HookSources, ScheduleSources, RepositorySources,
    QueryMethodSources, PluginSources, PanicSources, ShortSources, EditSources, LineSources>>

\* TLC evaluates these once and the constants they are given to at each use.
MCComponentID == TheComponentID
MCPointee == ThePointee
MCAssignable == TheAssignable
MCNumbers == TheNumbers
MCDurations == TheDurations
MCTimeUnits == TheTimeUnits
MCElem == TheElem
MCLetters == TheLetters
MCChars == TheChars
MCMethodsOf == TheMethodsOf
MCSources == AllSources
=============================================================================
