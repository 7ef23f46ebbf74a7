------------------------------ MODULE Analyzer ------------------------------
(***************************************************************************)
(* compiler/analyzer.go, AnalyzeWith: from the annotated declarations to   *)
(* the application model and its dependency graph.  A component is known   *)
(* by the rank of its ID, its proxy by the next number (the ID with        *)
(* "$proxy" appended sorts right after it).                                *)
(***************************************************************************)
EXTENDS WiringGenerator, DependencyGraph

CONSTANT Sources   \* families of source trees with the options of a goboot run (see Pipeline)

\* Whatever is declared, and the type of every method, has an ID, and so a rank;
\* methods have names; declarations, their annotations, plugins and what these
\* register are lists; Chars knows the paths.
ASSUME SourcesAssumption ==
  \A family \in DOMAIN Sources : \A s \in Sources[family] :
    LET ds == scanned(s.decls)
    IN /\ DOMAIN Discovered(ds) \subseteq {ComponentID[n] : n \in DOMAIN ComponentID}
       /\ s.decls \in Seq(ToSet(s.decls))
       /\ \A d \in Range(ds) : d.anns \in Seq(ToSet(d.anns))
       /\ \A d \in methodsOf(ds) : d.recv \in DOMAIN ComponentID /\ d.name # ""
       /\ \A d \in Range(ds) : \A ann \in {"RequestMapping"} \cup {m.annotation : m \in ToSet(httpMappings)} :
            LET text == Chars[The(stringArg(d, ann, "path"), "")] IN text \in Seq(ToSet(text))
       /\ s.plugins \in Seq(ToSet(s.plugins))
       /\ \A p \in ToSet(s.plugins) : p.annotations \in Seq(ToSet(p.annotations))

VARIABLES
  source,     \* [decls, active, properties, plugins, strict, dialect]
  phase,      \* the phase that comes next
  decls,      \* scan.Declarations
  app,        \* app.Components, by ID
  routes,     \* app.Routes
  diags       \* diagnostics, as <<severity, code>>

analysisVars == <<phase, decls, app, routes, diags>>

components == DOMAIN app
Proxy(c) == c + 1
IsProxy(n) == app[n].kind = "proxy"
Proxied == {c \in components : app[c].proxied}

\* The core annotations and those of the plugins.
catalogue == MergedRegistry(source.plugins)

ErrorsOf(codes) == {<<"error", code>> : code \in codes}

AnalysisInit ==
  /\ \E family \in DOMAIN Sources : source \in Sources[family]
  /\ decls = <<>> /\ app = <<>> /\ routes = {} /\ diags = {}
  /\ GraphInit

\* A phase that ends with the application app2 and reports codes.
Phase(from, to, app2, codes) ==
  /\ phase = from
  /\ phase' = to
  /\ app' = app2
  /\ diags' = diags \cup ErrorsOf(codes)
  /\ UNCHANGED <<source, decls, graphVars>>

-----------------------------------------------------------------------------
(* Plausible bugs (the manifest's mutants).                                *)

\* One pass over the nut conditions; or the loop never sees a quiet round.
OnePass(kept) == TRUE
NeverStable(kept) == FALSE

\* Only constructor parameters become edges, not a proxy's target.
DependsOnParams(n) == IF IsProxy(n) THEN {} ELSE {app[n].deps[i].to : i \in DOMAIN app[n].deps} \ {None}

\* An intercepted service is a candidate like any other.
BypassingCandidates(n, want) ==
  {c \in components \ {n} : <<app[c].provides, want>> \in Assignable}

-----------------------------------------------------------------------------
(* Loader.Load and discover                                                *)

Scan ==
  /\ phase = "scan"
  /\ decls' = scanned(source.decls)
  /\ diags' = diags \cup scanDiagnostics(catalogue.defs, source.decls)
  /\ phase' = "discover"
  /\ UNCHANGED <<source, app, routes, graphVars>>

Discover ==
  /\ phase = "discover"
  /\ app' = Discovered(decls)
  /\ diags' = diags \cup ErrorsOf(discoveryCodes(decls)) \cup appRoots(decls)
  /\ phase' = "profiles"
  /\ UNCHANGED <<source, decls, routes, graphVars>>

-----------------------------------------------------------------------------
(* conditions.go                                                           *)

profileActive(c) ==
  app[c].conditions.profiles = {} \/ app[c].conditions.profiles \cap source.active # {}

\* PropertyCondition.Holds; a condition with havingValue "" asks for presence.
Holds(p) ==
  IF p.name \in DOMAIN source.properties
  THEN p.havingValue = "" \/ source.properties[p.name] = p.havingValue
  ELSE p.matchIfMissing

propertiesHold(c) == \A p \in app[c].conditions.properties : Holds(p)

FilterByProfile ==
  /\ Phase("profiles", "nuts", Restrict(app, {c \in components : profileActive(c) /\ propertiesHold(c)}), {})
  /\ UNCHANGED routes

\* A component is called by its own name or by that of the type it provides.
typeProvided(name, self, remaining) ==
  \E c \in remaining \ {self} : name \in {app[c].name, namedOf(app[c].provides)}

nutConditionsHold(c, remaining) ==
  /\ \A t \in app[c].conditions.requiredNuts : typeProvided(t, c, remaining)
  /\ \A t \in app[c].conditions.absentNuts : ~typeProvided(t, c, remaining)

Unchanged(kept) == kept = components

\* One round of the loop: every component is judged against the same list.
NutRound ==
  LET kept == {c \in components : nutConditionsHold(c, components)}
  IN /\ Phase("nuts", IF Unchanged(kept) THEN "proxies" ELSE "nuts", Restrict(app, kept), {})
     /\ UNCHANGED routes

-----------------------------------------------------------------------------
(* proxy.go                                                                *)

\* discoverProxies, first loop: the methods of every component that is left.
WithIntercepted ==
  [c \in components |-> [app[c] EXCEPT !.intercepted = intercepted(decls, c, app[c].kind)]]

Implements(c) == <<app[c].provides, app[c].implements>> \in Assignable

Proxyable(a) == {c \in components : a[c].intercepted # {} /\ a[c].implements # NoType /\ Implements(c)}

buildProxy(c, t) ==
  [t EXCEPT !.name = namedOf(t.provides) \o "Proxy", !.kind = "proxy", !.provides = t.implements,
            !.build = "proxy", !.target = c, !.deps = <<[type |-> t.provides, to |-> c]>>,
            !.returnsError = FALSE, !.conditions = [profiles |-> {}, properties |-> {},
                                                     requiredNuts |-> {}, absentNuts |-> {}]]

unproxyableCodes(a, c) ==
  IF a[c].intercepted = {} THEN {}
  ELSE IF a[c].implements = NoType THEN {"GOBPRX002"}
  ELSE IF Implements(c) THEN {} ELSE {"GOBPRX003"}

proxyCodes(a) ==
  (UNION {unproxyableCodes(a, c) : c \in components})
    \cup (UNION {UNION {interceptedCodes(d) : d \in interceptedDecls(decls, c, a[c].kind)} : c \in components})

DiscoverProxies ==
  LET a == WithIntercepted
      targets == Proxyable(a)
  IN /\ Phase("proxies", "resolve",
              [n \in components \cup {Proxy(c) : c \in targets} |->
                 IF n \in components THEN [a[n] EXCEPT !.proxied = n \in targets]
                 ELSE buildProxy(n - 1, a[n - 1])],
              proxyCodes(a))
     /\ UNCHANGED routes

-----------------------------------------------------------------------------
(* resolver.go                                                             *)

resolutionCandidates(n, want) ==
  {c \in components \ ({n} \cup Proxied) : <<app[c].provides, want>> \in Assignable}

proxiedConcreteMatch(n, want) ==
  /\ want \notin Interfaces
  /\ \E c \in Proxied \ {n} : <<app[c].provides, want>> \in Assignable

filterPrimary(candidates) == {c \in candidates : app[c].primary}

IsSingleton(S) == \E x \in S : S = {x}

TheOnly(S) == CHOOSE x \in S : TRUE

\* What a dependency is bound to, None if it is not.
Binding(n, want) ==
  LET candidates == resolutionCandidates(n, want)
      primaries == filterPrimary(candidates)
  IN IF IsSingleton(candidates) THEN TheOnly(candidates)
     ELSE IF IsSingleton(primaries) THEN TheOnly(primaries)
     ELSE None

\* A proxy's dependency on its target is resolved already.
resolveDependency(n, dep) ==
  IF dep.to # None THEN dep
  ELSE [dep EXCEPT !.to = IF proxiedConcreteMatch(n, dep.type) THEN None ELSE Binding(n, dep.type)]

DependencyCode(n, want) ==
  IF proxiedConcreteMatch(n, want) THEN "GOBPRX001"
  ELSE IF resolutionCandidates(n, want) = {} THEN "GOBDI001"
  ELSE "GOBDI002"

dependencyCodes(n) ==
  {DependencyCode(n, d.type) : d \in {x \in ToSet(app[n].deps) : resolveDependency(n, x).to = None}}

Resolve ==
  /\ Phase("resolve", "routes",
           [n \in components |-> [app[n] EXCEPT !.deps = [i \in DOMAIN @ |-> resolveDependency(n, @[i])]]],
           UNION {dependencyCodes(n) : n \in components})
  /\ UNCHANGED routes

-----------------------------------------------------------------------------
(* The methods of the components that are left                             *)

DiscoverRoutes ==
  LET found == discoverRoutes(decls, app)
  IN Phase("routes", "handlers", app, found.codes) /\ routes' = found.routes

DiscoverExceptionHandlers ==
  /\ Phase("handlers", "lifecycle",
           [c \in components |-> [app[c] EXCEPT !.handlers = handlersOf(decls, app, c)]],
           exceptionCodes(decls, app))
  /\ UNCHANGED routes

DiscoverLifecycle ==
  /\ Phase("lifecycle", "scheduled",
           [c \in components |-> [app[c] EXCEPT !.post = hook(decls, c, "PostConstruct"),
                                                !.pre = hook(decls, c, "PreDestroy")]],
           lifecycleCodes(decls, app))
  /\ UNCHANGED routes

DiscoverScheduled ==
  /\ Phase("scheduled", "repositories",
           [c \in components |-> [app[c] EXCEPT !.scheduled = scheduledMethods(decls, c)]],
           scheduledCodes(decls, app))
  /\ UNCHANGED routes

\* collectDeclarations, which hands decls to the plugins, follows.
DiscoverRepositories ==
  /\ Phase("repositories", "graph",
           [c \in components |-> IF app[c].build = "repository"
                                 THEN [app[c] EXCEPT !.queries = repositoryMethods(decls, c)] ELSE app[c]],
           repositoryCodes(decls, app))
  /\ UNCHANGED routes

-----------------------------------------------------------------------------
(* graph.Build, ConstructionOrder and the cycle diagnostic                 *)

DependsOn(n) == {app[n].deps[i].to : i \in DOMAIN app[n].deps} \ {None}

BuildGraph ==
  /\ phase = "graph"
  /\ Build(components, [n \in components |-> DependsOn(n)])
  /\ phase' = "order"
  /\ UNCHANGED <<source, decls, app, routes, diags>>

SearchStep ==
  /\ phase = "order"
  /\ ConstructionOrder
  /\ UNCHANGED <<source, analysisVars>>

cycleDiagnostic == IF search = "cycle" THEN {"GOBDI005"} ELSE {}

ReportCycle ==
  /\ search \in {"ordered", "cycle"}
  /\ Phase("order", "host", app, cycleDiagnostic)
  /\ UNCHANGED routes

AnalyzeWith ==
  \/ Scan
  \/ Discover
  \/ FilterByProfile
  \/ NutRound
  \/ DiscoverProxies
  \/ Resolve
  \/ DiscoverRoutes
  \/ DiscoverExceptionHandlers
  \/ DiscoverLifecycle
  \/ DiscoverScheduled
  \/ DiscoverRepositories
  \/ BuildGraph
  \/ SearchStep
  \/ ReportCycle

-----------------------------------------------------------------------------
(* Properties                                                              *)

Selected == phase \notin {"plugins", "scan", "discover", "profiles", "nuts"}

\* "evaluated to a fixpoint": after the rounds, every condition of every
\* component that is kept holds of the components that are kept.
KeptConditionsHold ==
  Selected =>
    LET kept == {c \in components : ~IsProxy(c)}
    IN \A c \in kept : profileActive(c) /\ propertiesHold(c) /\ nutConditionsHold(c, kept)

Bound == Selected /\ phase \notin {"proxies", "resolve"}

\* "every consumer of the interface is rebound to the proxy": only its own proxy
\* is handed an intercepted component, whatever types and primaries there are.
ProxiesNotBypassed ==
  Bound =>
    \A n \in components : \A i \in DOMAIN app[n].deps :
      LET c == app[n].deps[i].to IN c \in Proxied => n = Proxy(c)
=============================================================================
