------------------------------ MODULE Pipeline ------------------------------
(***************************************************************************)
(* cli/cli.go analyzeCommon, cli/generate.go and plugin/registry.go: one   *)
(* run of goboot generate from the sources to the files it is about to     *)
(* write.  A plugin is [name, annotations, dialects, panics, analyze,      *)
(* generate], the last two what the call does: "none" (it has no such      *)
(* method), "ok", "error" or "panic"; panics names those of its methods    *)
(* "annotations" and "dialects" that panic.  Writing the files is in       *)
(* GobootCli.                                                              *)
(***************************************************************************)
EXTENDS Analyzer

VARIABLES
  ran,      \* <<method, plugin>> for every plugin method that was called
  wiring,   \* the generated wiring, if any
  files,    \* what is written
  crashed   \* a plugin's panic took the host down

vars == <<source, analysisVars, graphVars, ran, wiring, files, crashed>>

wiringFile == "zz_goboot_wiring.gen.go"

Init ==
  /\ AnalysisInit
  /\ phase = "plugins"
  /\ ran = {} /\ wiring = {} /\ files = {} /\ crashed = FALSE

\* Annotations is called on every plugin, and nothing recovers its panics.
annotationsPanic == \E p \in ToSet(source.plugins) : "annotations" \in p.panics

\* plugin.Registry.AnnotationRegistry
RegisterAnnotations ==
  /\ phase = "plugins" /\ ~annotationsPanic
  /\ diags' = ErrorsOf(catalogue.codes)
  /\ phase' = "scan"
  /\ UNCHANGED <<source, decls, app, routes, graphVars, ran, wiring, files, crashed>>

\* Nor those of a plugin's validator, which the scan asks about the well-formed
\* annotations: here one that reports "panic".
validatorsPanic ==
  source.plugins # <<>> /\ <<"error", "panic">> \in scanDiagnostics(catalogue.defs, source.decls)

Analyze ==
  /\ phase = "scan" => ~validatorsPanic
  /\ AnalyzeWith /\ UNCHANGED <<ran, wiring, files, crashed>>

-----------------------------------------------------------------------------
(* The host                                                                *)

\* Plausible bug (mutant): a panic ends the loop over the plugins.
CallUntilPanic(host, method, plugin, does, own) ==
  IF does = "none" \/ "GOBPLG003" \in host.codes THEN host
  ELSE [ran |-> host.ran \cup {<<method, plugin>>},
        codes |-> host.codes \cup (CASE does = "panic" -> {"GOBPLG003"} [] does = "error" -> {own} [] OTHER -> {})]

\* Plausible bug (mutant): diagnostics count under -strict only.
BlockingIfStrict(reported) == source.strict /\ reported # {}

\* safeAnalyze and safeGenerate: a panic becomes a diagnostic; own is the code an
\* error is reported under.
safeCall(host, method, plugin, does, own) ==
  IF does = "none" THEN host
  ELSE [ran |-> host.ran \cup {<<method, plugin>>},
        codes |-> host.codes \cup (CASE does = "panic" -> {"GOBPLG003"} [] does = "error" -> {own} [] OTHER -> {})]

\* One plugin after the other, in the order of their registration.
callPlugins(plugins, method, own) ==
  LET host[i \in 0 .. Len(plugins)] ==
        IF i = 0 THEN [ran |-> {}, codes |-> {}]
        ELSE safeCall(host[i - 1], method, plugins[i].name, plugins[i][method], own)
  IN host[Len(plugins)]

pluginAnalyze(plugins) == callPlugins(plugins, "analyze", "plugin's own")
pluginGenerate(plugins) == callPlugins(plugins, "generate", "GOBPLG003")

\* The plugins' dialects come before the built-in ones.
Dialect(name) ==
  IF \E p \in ToSet(source.plugins) : name \in p.dialects THEN {name} ELSE DialectByName(name)

\* Dialects is called on one plugin after the other until one has the name, and
\* nothing recovers its panics either.
dialectsPanic(name) ==
  \E i \in DOMAIN source.plugins :
    /\ "dialects" \in source.plugins[i].panics
    /\ \A j \in 1 .. i - 1 : name \notin source.plugins[j].dialects

\* printDiagnostics counts an error; under -strict, a warning too.
blocking(reported) == \E d \in reported : d[1] = "error" \/ source.strict

HostAnalyze ==
  LET host == pluginAnalyze(source.plugins)
  IN /\ phase = "host"
     /\ ran' = ran \cup host.ran
     /\ diags' = diags \cup ErrorsOf(host.codes)
     /\ phase' = IF blocking(diags') THEN "done" ELSE "generate"
     /\ UNCHANGED <<source, decls, app, routes, graphVars, wiring, files, crashed>>

GenerateWiring ==
  /\ phase = "generate" /\ ~dialectsPanic(source.dialect)
  /\ wiring' = IF search = "ordered"
               THEN UNION {Generate(app, order, routes, d) : d \in Dialect(source.dialect)} ELSE {}
  /\ phase' = IF wiring' = {} THEN "done" ELSE "contribute"
  /\ UNCHANGED <<source, decls, app, routes, diags, graphVars, ran, files, crashed>>

\* Plugin files, and then all files or none.
HostGenerate ==
  LET host == pluginGenerate(source.plugins)
  IN /\ phase = "contribute"
     /\ ran' = ran \cup host.ran
     /\ diags' = diags \cup ErrorsOf(host.codes)
     /\ files' = IF host.codes # {} THEN {}
                 ELSE {wiringFile} \cup {p.name : p \in {x \in ToSet(source.plugins) : x.generate = "ok"}}
     /\ phase' = "done"
     /\ UNCHANGED <<source, decls, app, routes, graphVars, wiring, crashed>>

\* AnnotationRegistry, the scan and Dialect, when a plugin panics in them: the
\* command ends there, with no diagnostic.
Crash ==
  /\ ~crashed
  /\ \/ phase = "plugins" /\ annotationsPanic
     \/ phase = "scan" /\ validatorsPanic
     \/ phase = "generate" /\ dialectsPanic(source.dialect)
  /\ crashed' = TRUE
  /\ UNCHANGED <<source, analysisVars, graphVars, ran, wiring, files>>

Done == (phase = "done" \/ crashed) /\ UNCHANGED vars

Next ==
  \/ RegisterAnnotations
  \/ Analyze
  \/ HostAnalyze
  \/ GenerateWiring
  \/ HostGenerate
  \/ Crash
  \/ Done

Spec == Init /\ [][Next]_vars

Loop == (NutRound \/ SearchStep \/ ReportCycle) /\ UNCHANGED <<ran, wiring, files, crashed>>

\* goboot generate is one sequential call: it goes on while it can.  This is weak
\* fairness of Next; the phases that are no loops can always go on, so for them
\* ENABLED, which takes TLC long to evaluate there, is not needed.
FairSpec ==
  /\ Spec
  /\ WF_vars(Loop)
  /\ []<>(phase \in {"nuts", "order", "done"} \/ crashed) \/ []<><<Next>>_vars

-----------------------------------------------------------------------------
(* Properties                                                              *)

\* Analysis and generation end on every source: rounds only remove, and the
\* search visits each node and edge once.
Terminates == <>(phase = "done" \/ crashed)

AnnotationsOf(d) == {d.anns[i].name : i \in DOMAIN d.anns}

\* Requests reach the methods with a mapping annotation of a struct that is a controller.
ControllerStruct(d) == \E x \in Range(decls) : x.target = "struct" /\ x.name = d.recv /\ Has(x, "RestController")
mappingAnnotations == {m.annotation : m \in ToSet(httpMappings)}
Served(d) == ControllerStruct(d) /\ AnnotationsOf(d) \cap mappingAnnotations # {}

\* What the annotations of a method ask of its component c: a proxy, a role at the
\* route, a route, a handler, a hook, a task or the statement of a query.  Only
\* structs are read as controllers, and only an interface whose implementation is
\* generated has queries.
Asks(d, c) ==
  AnnotationsOf(d) \cap UNION {
    interceptAnnotations,
    {"ExceptionHandler", "Scheduled", "PostConstruct", "PreDestroy"},
    IF ControllerStruct(d) THEN mappingAnnotations ELSE {},
    IF app[c].build = "repository" THEN ToSet(queryAnnotations) ELSE {}}

\* A route asks for one of its roles: all that an @Authorize of some roles asks for,
\* unless it names permissions too or wants all of its roles.
rolesOnly(a) ==
  arrayArg(a, "roles") # {} /\ arrayArg(a, "permissions") = {} /\ "all" \notin stringArgValue(a, "mode")
Enforces(route, a) == rolesOnly(a) /\ route.roles = arrayArg(a, "roles")

StatementOf(d, ann) == UNION {stringArgValue(a, PositionalKey) : a \in Find(d, ann)}

\* What the code passes over without a word, although it is asked for.  Of several
\* of a kind one counts: the first mapping, the first query with a statement, and
\* the last hook of a type.
Superseded(i, c) ==
  LET d == decls[i]
      earlierMapping(k) == \E j \in 1 .. k - 1 : Has(d, httpMappings[j].annotation)
      earlierStatement(k) == \E j \in 1 .. k - 1 : StatementOf(d, queryAnnotations[j]) # {}
  IN UNION {
       {httpMappings[k].annotation : k \in {x \in DOMAIN httpMappings : earlierMapping(x)}},
       {queryAnnotations[k] : k \in {x \in DOMAIN queryAnnotations :
                                       earlierStatement(x) \/ StatementOf(d, queryAnnotations[x]) = {}}},
       {ann \in {"PostConstruct", "PreDestroy"} : \E j \in ownMethods(decls, c, ann) : j > i}}

\* Interception of a method that the interface of its service does not declare
\* (generator/di/proxy.go:82); on a controller, @RolesAllowed and the caching
\* annotations, and @Authorize unless it stands on a method with a route and asks for
\* one of some roles and nothing else (compiler/routes.go:182).
Uninterceptable(d, c) ==
  LET outside == app[c].implements # NoType /\ d.name \notin MethodsOf[app[c].implements]
      atRoute == Served(d) /\ \A a \in Find(d, "Authorize") : rolesOnly(a)
  IN UNION {
       IF outside THEN interceptAnnotations ELSE {},
       IF app[c].kind = "controller" THEN {"RolesAllowed", "Cacheable", "CacheEvict"} ELSE {},
       IF app[c].kind = "controller" /\ ~atRoute THEN {"Authorize"} ELSE {}}

\* A handler of a type that another one handles, or without any route.
Undispatched(w, i) ==
  {"ExceptionHandler" : x \in {y \in {i} :
     w.routes = {} \/ \E j \in DOMAIN decls \ {i} :
       /\ decls[j] \in handlerDecls(decls) /\ decls[i] \in handlerDecls(decls)
       /\ decls[j].sig.params[2].type = decls[i].sig.params[2].type}}

Lost(w, i, c) == Superseded(i, c) \cup Uninterceptable(decls[i], c) \cup Undispatched(w, i)

\* The methods that what is generated calls for an annotation on a method of d's
\* type, the one of component c: for an interceptor, those of its proxy that have
\* it, and for @Authorize on a controller those whose route enforces it.
Wired(w, d, c, ann) ==
  LET atRoute == ann = "Authorize" /\ app[c].kind = "controller"
      own == {x \in w.routes : x.controller = c}
  IN CASE atRoute -> {r.handler : r \in {x \in own : \A a \in Find(d, ann) : Enforces(x, a)}}
       [] ann \in interceptAnnotations /\ ~atRoute ->
            UNION {{m \in DOMAIN w.proxies[p] : ann \in w.proxies[p][m]} : p \in DOMAIN w.proxies \cap {Proxy(c)}}
       [] ann = "ExceptionHandler" -> {h.name : h \in {x \in w.dispatcher : x.component \in adviceOf(app, d.recv)}}
       [] ann = "PostConstruct" -> {h.start : h \in {x \in ToSet(w.lifecycle) : x.component = c}}
       [] ann = "PreDestroy" -> {h.stop : h \in {x \in ToSet(w.lifecycle) : x.component = c}}
       [] ann = "Scheduled" -> {t.run : t \in {x \in w.tasks : x.component = c /\ x.interval > 0}}
       [] ann \in ToSet(queryAnnotations) ->
            {w.repositories[c][m].name : m \in {x \in DOMAIN w.repositories[c] :
               \E text \in StatementOf(d, ann) : x.sql = Chars[text]}}
       [] ann \in mappingAnnotations ->
            {r.handler : r \in {x \in own : \E m \in ToSet(httpMappings) : m.annotation = ann /\ m.method = x.method}}

\* Nothing more is lost on the way: in what is generated, every other annotation
\* that asks something of a method of a component that is kept has its call, and a
\* method of a component that was dropped has none.
WiredOrReported ==
  \A w \in wiring : \A i \in {j \in DOMAIN decls : decls[j].target = "method"} :
    LET d == decls[i]
        c == ComponentID[d.recv]
    IN IF c \in components
       THEN \A ann \in Asks(d, c) \ Lost(w, i, c) : d.name \in Wired(w, d, c, ann)
       ELSE /\ \A x \in ToSet(w.lifecycle) \cup w.tasks : x.component # c
            /\ \A r \in w.routes : r.controller # c
            /\ c \notin DOMAIN w.repositories /\ Proxy(c) \notin DOMAIN w.proxies

\* The k-th placeholder of a generated statement is bound to the parameter that
\* the k-th reference names: references are the names after a single colon
\* outside a literal, found here by counting quotes and colons backwards.
QuotesBefore(sql, i) == Cardinality({j \in 1 .. i - 1 : sql[j] = "'"})
ColonsBefore(sql, i) ==
  Cardinality({j \in 1 .. i - 1 : \A k \in j .. i - 1 : sql[k] = ":"})
References(sql) ==
  {i \in 1 .. Len(sql) - 1 : /\ sql[i] = ":" /\ isNameStart(sql[i + 1])
                             /\ QuotesBefore(sql, i) % 2 = 0 /\ ColonsBefore(sql, i) % 2 = 0}
Rank(S, i) == Cardinality({j \in S : j <= i})

QueriesBound ==
  \A w \in wiring : \A c \in DOMAIN w.repositories : \A m \in DOMAIN w.repositories[c] :
    LET out == w.repositories[c][m]
        refs == References(m.sql)
        dialect == CHOOSE d \in Dialect(source.dialect) : TRUE
        holders == SelectSeq(out.sql, LAMBDA s : s \notin ToSet(m.sql))
    IN /\ Len(out.args) = Cardinality(refs)
       /\ holders = [n \in 1 .. Cardinality(refs) |-> Placeholder(dialect, n)]
       /\ \A i \in refs : \E p \in DOMAIN m.sig.params :
            /\ m.sig.params[p].name = m.sql[i + 1]
            /\ out.args[Rank(refs, i)].var = IF m.kind = "batch" /\ p = m.batch THEN "item" ELSE ArgName(p)

\* A plugin cannot change the core annotations.  One that panics in Analyze or
\* Generate takes neither the host nor the others down: every plugin that analyzes
\* or generates is called whatever those before it did, and the panic is reported.
\* Only a panic in Annotations, Dialects or a validator ends the command, and before
\* anything is generated or written.
PluginsContained ==
  LET calls(method) == {<<method, p.name>> : p \in {x \in ToSet(source.plugins) : x[method] # "none"}}
      panics(method) == \E p \in ToSet(source.plugins) : p[method] = "panic"
  IN /\ \A n \in DOMAIN DefaultRegistry : catalogue.defs[n] = DefaultRegistry[n]
     /\ phase = "done" =>
          /\ ~crashed
          /\ calls("analyze") \subseteq ran
          /\ wiring # {} => calls("generate") \subseteq ran
          /\ panics("analyze") \/ (wiring # {} /\ panics("generate")) => <<"error", "GOBPLG003">> \in diags
     /\ crashed => /\ annotationsPanic \/ validatorsPanic \/ dialectsPanic(source.dialect)
                   /\ wiring = {} /\ files = {}

\* Nothing is written once an error has been reported, by whatever phase or
\* plugin, and under -strict no warning either.
WrittenOnlyWithoutErrors == files # {} => \A d \in diags : d[1] # "error" /\ ~source.strict

\* An analysis without errors ends in a wiring.
WiringFollows == phase = "done" /\ ~blocking(diags) /\ Dialect(source.dialect) # {} => wiring # {}

LocalsBefore(w, i) == {w.statements[j].local : j \in 1 .. i - 1}

ArgumentsInScope(w) ==
  \A i \in DOMAIN w.statements : ToSet(w.statements[i].args) \subseteq w.params \cup LocalsBefore(w, i)

NamesDistinct(w) ==
  \A i \in DOMAIN w.statements :
    /\ w.statements[i].local \notin LocalsBefore(w, i) \cup w.aliases
    /\ \A j \in 1 .. i - 1 : w.statements[j].field # w.statements[i].field

HandedToTheirProxies(w) ==
  \A i \in DOMAIN w.statements : \A j \in 1 .. i - 1 :
    w.statements[j].component \in Proxied /\ w.statements[j].local \in ToSet(w.statements[i].args) =>
      w.statements[i].component = Proxy(w.statements[j].component)

RoutesServed(w) ==
  /\ \A r \in w.routes : r.pattern[1] = "/" /\ r.controller \in components
  /\ \A r, q \in w.routes : SameRoute(r, q) => r = q

HooksFollowDependencies(w) ==
  \A i, j \in DOMAIN w.lifecycle :
    w.lifecycle[j].component \in DependsOn(w.lifecycle[i].component) => j < i

\* What an analysis without errors generates is sound: every component is
\* constructed, every argument of a constructor is a parameter or a variable
\* assigned before it, an intercepted service is handed to its own proxy only, no
\* two variables share a name or hide an import, no two routes are the same to
\* the mux, and a component's hooks are registered after those of everything it
\* depends on.
Generates ==
  /\ WiringFollows
  /\ \A w \in wiring :
       /\ {w.statements[i].component : i \in DOMAIN w.statements} = components
       /\ ArgumentsInScope(w) /\ NamesDistinct(w) /\ HandedToTheirProxies(w)
       /\ RoutesServed(w) /\ HooksFollowDependencies(w)
=============================================================================
