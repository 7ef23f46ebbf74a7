-------------------------- MODULE WiringGenerator ---------------------------
(***************************************************************************)
(* generator/di/di.go, proxy.go, http.go, imports.go, config.go and        *)
(* app.go: the wiring that is generated from an analyzed application, as   *)
(* the statements of buildComponents, the registrations of buildLifecycle  *)
(* and buildScheduler, the methods of the proxies and the handlers of the  *)
(* exception dispatcher.  The rendering of types and of the file is left   *)
(* out.                                                                    *)
(***************************************************************************)
EXTENDS Repository

CONSTANTS
  Letters,      \* text -> [clean, lower, upper]: its letters, first one lowered or raised
  AppPackage,   \* the name of the package the components are in
  MethodsOf     \* interface -> the names of its methods

goKeywords ==
  {"break", "case", "chan", "const", "continue", "default", "defer", "else", "fallthrough", "for",
   "func", "go", "goto", "if", "import", "interface", "map", "package", "range", "return",
   "select", "struct", "switch", "type", "var"}

avoidKeyword(name) == IF name \in goKeywords THEN name \o "_" ELSE name
sanitizeIdent(name) == Letters[name].clean
toLocalName(name) == IF sanitizeIdent(name) = "" THEN "component" ELSE avoidKeyword(Letters[name].lower)
toFieldName(name) == IF sanitizeIdent(name) = "" THEN "Component" ELSE Letters[name].upper

\* The candidate, or the candidate with the first number from 2 on that is free.
unique(candidate, used) ==
  LET numbered(i) == candidate \o ToString(i)
      free == {i \in 2 .. Cardinality(used) + 2 : numbered(i) \notin used}
  IN IF candidate \notin used THEN candidate
     ELSE numbered(CHOOSE i \in free : \A j \in free : i <= j)

\* One after the other, each kept clear of what is taken and of those before it.
uniqueNames(candidates, taken) ==
  LET names[i \in 0 .. Len(candidates)] ==
        IF i = 0 THEN <<>>
        ELSE LET before == names[i - 1]
             IN Append(before, unique(candidates[i], taken \cup ToSet(before)))
  IN names[Len(candidates)]

-----------------------------------------------------------------------------
(* features                                                                *)

HasLifecycle(c) == c.post # "" \/ c.pre # ""

detectFeatures(app, routes) ==
  {f \in {"config", "proxies", "repos", "routes", "lifecycle", "scheduled"} :
     \/ f = "routes" /\ routes # {}
     \/ \E c \in DOMAIN app :
          CASE f = "config" -> app[c].build = "config"
            [] f = "proxies" -> app[c].kind = "proxy"
            [] f = "repos" -> app[c].build = "repository"
            [] f = "lifecycle" -> HasLifecycle(app[c])
            [] f = "scheduled" -> app[c].scheduled # {}
            [] f = "routes" -> FALSE}

buildComponentsParams(features) ==
  UNION {CASE f = "config" -> {"configSource"}
           [] f = "proxies" -> {"proxyDeps"}
           [] f = "repos" -> {"dbProvider"}
           [] OTHER -> {} : f \in features}

\* renderApplication: NewApplication is emitted when something has to run.
emitsApplication(features) == features \cap {"routes", "lifecycle", "scheduled"} # {}

-----------------------------------------------------------------------------
(* imports                                                                 *)

\* The packages that imports.add registers before names are assigned: those of the
\* components, then those of the features.  A path is registered once; the order of
\* the features does not matter, since the names of their packages differ.
registered(app, order, features) ==
  LET If(needed, name) == IF needed THEN <<name>> ELSE <<>>
  IN If(order # <<>>, AppPackage)
       \o If(\E id \in ToSet(order) : app[id].returnsError, "fmt")
       \o If(features \cap {"routes", "proxies", "scheduled"} # {}, "runtime")
       \o If("routes" \in features, "http")
       \o If("config" \in features, "config")
       \o If("repos" \in features, "db")

\* What a local variable must not be called.
reserved(app, order, features) ==
  {"err", "out"} \cup buildComponentsParams(features)
    \cup ToSet(uniqueNames(registered(app, order, features), {}))

-----------------------------------------------------------------------------
(* buildComponents                                                         *)

\* The local variable and the field of each component, in construction order.
assignNames(app, order, taken) ==
  LET locals == uniqueNames([i \in DOMAIN order |-> toLocalName(app[order[i]].name)], taken)
      fields == uniqueNames([i \in DOMAIN order |-> toFieldName(app[order[i]].name)], {})
      place(id) == CHOOSE i \in DOMAIN order : order[i] = id
  IN [id \in ToSet(order) |-> [local |-> locals[place(id)], field |-> fields[place(id)]]]

constructorArgs(id, c, names) ==
  CASE c.kind = "proxy" -> <<names[c.target].local, "proxyDeps">>
    [] c.build = "config" -> <<"configSource">>
    [] c.build = "repository" -> <<"dbProvider">>
    [] OTHER -> [i \in DOMAIN c.deps |-> names[c.deps[i].to].local]

\* No statement can be rendered for a dependency that is not bound.
renderable(app, order) ==
  \A id \in ToSet(order) : \A i \in DOMAIN app[id].deps : app[id].deps[i].to \in ToSet(order)

renderConstructor(id, c, names) ==
  [component |-> id, local |-> names[id].local, field |-> names[id].field, build |-> c.build,
   args |-> constructorArgs(id, c, names), checksError |-> c.returnsError]

\* In construction order.
renderLifecycle(app, order) ==
  LET hooks[i \in 0 .. Len(order)] ==
        IF i = 0 THEN <<>>
        ELSE LET c == app[order[i]]
             IN IF HasLifecycle(c)
                THEN Append(hooks[i - 1], [component |-> order[i], start |-> c.post, stop |-> c.pre])
                ELSE hooks[i - 1]
  IN hooks[Len(order)]

\* One task per method, whose order makes no difference: each task runs on a
\* goroutine of its own.  A delay is passed on only if it is positive.
renderScheduler(app, order) ==
  LET task(id, m) == [component |-> id, run |-> m.name, interval |-> m.schedule.interval,
                      initialDelay |-> IF m.schedule.initialDelay > 0 THEN m.schedule.initialDelay ELSE 0]
  IN UNION {{task(id, m) : m \in app[id].scheduled} : id \in ToSet(order)}

\* A proxy has the methods of its interface, each with what is put around it: an
\* intercepted method that the interface does not declare is passed over.
renderProxyType(proxy) ==
  [m \in MethodsOf[proxy.implements] |-> UNION {x.advice : x \in {y \in proxy.intercepted : y.name = m}}]

renderProxies(app) ==
  [id \in {x \in DOMAIN app : app[x].kind = "proxy"} |-> renderProxyType(app[id])]

collectAdviceHandlers(app) ==
  UNION {{[component |-> c, name |-> h.name, catches |-> h.catches] : h \in app[c].handlers} :
           c \in {x \in DOMAIN app : app[x].kind = "advice"}}

\* Of the handlers of one type the dispatcher tries a single one (of several the
\* code takes the first by field and method name, here it is any), and there is no
\* dispatcher without routes.
renderExceptionDispatcher(app, routes) ==
  LET handlers == collectAdviceHandlers(app)
  IN IF routes = {} THEN {}
     ELSE {CHOOSE h \in handlers : h.catches = t : t \in {h.catches : h \in handlers}}

\* Nothing, or the sections of the file.
Generate(app, order, routes, dialect) ==
  LET features == detectFeatures(app, routes)
      names == assignNames(app, order, reserved(app, order, features))
  IN IF ~renderable(app, order) THEN {}
     ELSE {[params |-> buildComponentsParams(features),
            aliases |-> reserved(app, order, features),
            statements |-> [i \in DOMAIN order |-> renderConstructor(order[i], app[order[i]], names)],
            lifecycle |-> renderLifecycle(app, order),
            tasks |-> renderScheduler(app, order),
            repositories |-> [c \in {x \in DOMAIN app : app[x].build = "repository"} |->
                                renderRepository(app[c].queries, dialect)],
            proxies |-> renderProxies(app),
            routes |-> routes,
            dispatcher |-> renderExceptionDispatcher(app, routes),
            application |-> emitsApplication(features)]}
=============================================================================
