-------------------------- MODULE MethodDiscovery ---------------------------
(***************************************************************************)
(* compiler/proxy.go, routes.go, advice.go, lifecycle.go and scheduled.go: *)
(* what annotated methods add to the components of their receivers.        *)
(***************************************************************************)
EXTENDS Discovery

-----------------------------------------------------------------------------
(* Interception                                                            *)

nonRouteInterceptAnnotations ==
  {"Transactional", "Traced", "Timed", "Timeout", "Retry", "Logged", "Audit", "CircuitBreaker",
   "RateLimit", "Bulkhead"}
interceptAnnotations ==
  nonRouteInterceptAnnotations \cup {"Authorize", "RolesAllowed", "Cacheable", "CacheEvict"}

\* Plausible bug (mutant): what is enforced at the route triggers no proxy anywhere.
TriggersOfControllers(kind) == nonRouteInterceptAnnotations

triggers(kind) == IF kind = "controller" THEN nonRouteInterceptAnnotations ELSE interceptAnnotations

\* The intercepted methods of a type.
interceptedDecls(decls, c, kind) ==
  {d \in methodsOf(decls) : ComponentID[d.recv] = c /\ hasAny(d, triggers(kind))}

\* ParseCacheKey: the placeholders #{param} of a key.
keyParams(key) ==
  {Chars[key][i + 1] : i \in {j \in 1 .. Len(Chars[key]) - 2 :
                                Chars[key][j] = "#{" /\ Chars[key][j + 2] = "}"}}

\* A placeholder must name a parameter other than the context.
resolveCacheKey(key, sig) ==
  keyParams(key) \subseteq {sig.params[i].name : i \in 2 .. Len(sig.params)}

cacheKeys(d, advice) ==
  UNION {stringArg(d, ann, "key") : ann \in advice \cap {"Cacheable", "CacheEvict"}}

interceptable(sig) == takesContextFirst(sig) /\ returnsErrorLast(sig)

\* What the proxy puts around the method: every annotation but a @Timeout that is
\* no duration and a @Cacheable that has not exactly one value to cache.
Advice(d) ==
  {ann \in interceptAnnotations :
    /\ Has(d, ann)
    /\ ann = "Timeout" => \E a \in Find(d, ann) : stringArgValue(a, PositionalKey) \cap DOMAIN Durations # {}
    /\ ann = "Cacheable" => Len(d.sig.results) = 2}

interceptedCodes(d) ==
  IF ~interceptable(d.sig) \/ (Has(d, "Cacheable") /\ Len(d.sig.results) # 2)
     \/ \E key \in cacheKeys(d, Advice(d)) : ~resolveCacheKey(key, d.sig)
  THEN {"GOBPRX004"} ELSE {}

interceptedMethod(d) == [name |-> d.name, advice |-> Advice(d)]

intercepted(decls, c, kind) ==
  {interceptedMethod(d) : d \in {x \in interceptedDecls(decls, c, kind) : interceptable(x.sig)}}

-----------------------------------------------------------------------------
(* Routes                                                                  *)

httpMappings ==
  <<[annotation |-> "GetMapping", method |-> "GET", defaultStatus |-> 200],
    [annotation |-> "PostMapping", method |-> "POST", defaultStatus |-> 201],
    [annotation |-> "PutMapping", method |-> "PUT", defaultStatus |-> 200],
    [annotation |-> "PatchMapping", method |-> "PATCH", defaultStatus |-> 200],
    [annotation |-> "DeleteMapping", method |-> "DELETE", defaultStatus |-> 204]>>

\* The first of the list that the method carries.
mappingFor(d) ==
  LET carries(i) == Has(d, httpMappings[i].annotation)
  IN {httpMappings[i] : i \in {j \in DOMAIN httpMappings : carries(j) /\ \A k \in 1 .. j - 1 : ~carries(k)}}

validateHandler(sig) ==
  /\ takesContextFirst(sig) /\ Len(sig.params) <= 2
  /\ returnsErrorLast(sig) /\ Len(sig.results) <= 2

successStatus(d, mapping) ==
  LET documented == UNION {UNION {IntValue(v) : v \in Arg(r, "status")} : r \in FindAll(d, "Response")}
      successes == {s \in documented : 200 <= s /\ s < 300}
      least == {s \in successes : \A t \in successes : s <= t}
  IN The(intArg(d, mapping.annotation, "status"), The(least, mapping.defaultStatus))

authorizeRoles(d) == UNION {arrayArg(a, "roles") : a \in Find(d, "Authorize")}

mediaTypes(d, ann, key, marker) ==
  ((UNION {arrayArg(a, key) : a \in Find(d, ann)})
     \cup (UNION {arrayArg(a, PositionalKey) : a \in Find(d, marker)})) \ {""}

\* Paths are sequences of segments and "/".
TrimRight(path) ==
  SubSeq(path, 1, CHOOSE n \in 0 .. Len(path) :
                    /\ n > 0 => path[n] # "/"
                    /\ \A i \in n + 1 .. Len(path) : path[i] = "/")

joinPath(base, sub) ==
  LET left == TrimRight(base)
      right == Reverse(TrimRight(Reverse(sub)))
      pattern == IF right = <<>> THEN left ELSE left \o <<"/">> \o right
  IN IF pattern = <<>> \/ pattern[1] # "/" THEN <<"/">> \o pattern ELSE pattern

\* indexControllers: only struct declarations count, with their base path.
controllerDecls(decls, app) ==
  {d \in Range(decls) : d.target = "struct" /\ Has(d, "RestController") /\ ComponentID[d.name] \in DOMAIN app}

buildRoute(d, ctrl, mapping) ==
  [method |-> mapping.method, controller |-> ComponentID[d.recv], handler |-> d.name,
   pattern |-> joinPath(Chars[The(stringArg(ctrl, "RequestMapping", "path"), "")],
                        Chars[The(stringArg(d, mapping.annotation, "path"), "")]),
   status |-> successStatus(d, mapping), roles |-> authorizeRoles(d),
   consumes |-> mediaTypes(d, mapping.annotation, "consumes", "Consumes"),
   produces |-> mediaTypes(d, mapping.annotation, "produces", "Produces")]

SameRoute(r, s) == r.method = s.method /\ r.pattern = s.pattern

\* A mapping on a method of any other type is ignored; of the same route, the
\* first is kept.
discoverRoutes(decls, app) ==
  LET controllers == controllerDecls(decls, app)
      controllerOf(d) == CHOOSE c \in controllers : c.name = d.recv
      mapped == {i \in DOMAIN decls : /\ decls[i].target = "method" /\ mappingFor(decls[i]) # {}
                                      /\ \E c \in controllers : c.name = decls[i].recv}
      valid == {i \in mapped : validateHandler(decls[i].sig)}
      built == [i \in valid |-> buildRoute(decls[i], controllerOf(decls[i]), The(mappingFor(decls[i]), {}))]
      repeated == {i \in valid : \E j \in valid : j < i /\ SameRoute(built[j], built[i])}
  IN [routes |-> {built[i] : i \in valid \ repeated},
      codes |-> {"GOBHTTP001" : i \in mapped \ valid} \cup {"GOBHTTP004" : i \in repeated}]

-----------------------------------------------------------------------------
(* Exception handlers                                                      *)

\* An advice is known by the type its constructor returns; of several, the last
\* one is.
adviceOf(app, recv) ==
  LET returning == {c \in DOMAIN app : app[c].kind = "advice" /\ namedOf(app[c].provides) = recv}
  IN {c \in returning : \A x \in returning : x <= c}

handlerDecls(decls) == {d \in methodsOf(decls) : Has(d, "ExceptionHandler")}

validExceptionHandler(sig) ==
  /\ Len(sig.params) = 2 /\ takesContextFirst(sig) /\ implementsError(sig.params[2].type)
  /\ returnsErrorLast(sig) /\ Len(sig.results) <= 2

exceptionStatus(d) ==
  The(UNION {UNION {IntValue(v) : v \in Arg(a, PositionalKey)} : a \in Find(d, "ResponseStatus")}, 500)

exceptionHandler(d) ==
  [name |-> d.name, catches |-> d.sig.params[2].type, catchAll |-> d.sig.params[2].type = "error",
   status |-> exceptionStatus(d)]

exceptionCodes(decls, app) ==
  UNION {IF adviceOf(app, d.recv) = {} THEN {"GOBHTTP006"}
         ELSE IF validExceptionHandler(d.sig) THEN {} ELSE {"GOBHTTP005"} : d \in handlerDecls(decls)}

handlersOf(decls, app, c) ==
  {exceptionHandler(d) : d \in {x \in handlerDecls(decls) :
      c \in adviceOf(app, x.recv) /\ validExceptionHandler(x.sig)}}

-----------------------------------------------------------------------------
(* Lifecycle hooks and scheduled tasks                                     *)

\* The methods of component c that carry ann, by their places.
ownMethods(decls, c, ann) ==
  {i \in DOMAIN decls : /\ decls[i].target = "method" /\ ComponentID[decls[i].recv] = c
                        /\ Has(decls[i], ann)}

\* lifecycleHook: of several valid hooks the last one stays.
hook(decls, c, ann) ==
  LET valid == {i \in ownMethods(decls, c, ann) : validateHookSignature(decls[i].sig)}
  IN IF valid = {} THEN "" ELSE decls[CHOOSE i \in valid : \A j \in valid : j <= i].name

lifecycleCodes(decls, app) ==
  {"GOBLIF001" : x \in {d \in methodsOf(decls) :
      hasAny(d, {"PostConstruct", "PreDestroy"}) /\ ComponentID[d.recv] \in DOMAIN app
        /\ ~validateHookSignature(d.sig)}}

\* int64 arithmetic.
Wrap(n) == ((n + 2 ^ (Width - 1)) % (2 ^ Width)) - 2 ^ (Width - 1)

timeUnitDuration(unit) == IF unit \in DOMAIN TimeUnits THEN TimeUnits[unit] ELSE TimeUnits["MILLISECONDS"]

durationArg(a, key, unit) ==
  UNION {CASE v.kind = "integer" -> {Wrap(Numbers[v.text].val * unit)}
           [] v.kind = "string" /\ v.text \in DOMAIN Durations -> {Durations[v.text]}
           [] OTHER -> {} : v \in Arg(a, key)}

\* The interval and the initial delay; nothing without a positive rate.
resolveSchedule(a) ==
  LET unit == timeUnitDuration(The(stringArgValue(a, "timeUnit"), ""))
      rate == IF durationArg(a, "fixedRate", unit) # {} THEN durationArg(a, "fixedRate", unit)
              ELSE durationArg(a, "fixedDelay", unit)
  IN {[interval |-> r, initialDelay |-> The(durationArg(a, "initialDelay", unit), 0)] :
        r \in {x \in rate : x > 0}}

scheduleOf(d) == UNION {resolveSchedule(a) : a \in Find(d, "Scheduled")}

scheduledMethods(decls, c) ==
  {[name |-> decls[i].name, schedule |-> The(scheduleOf(decls[i]), {})] :
     i \in {j \in ownMethods(decls, c, "Scheduled") :
             validateHookSignature(decls[j].sig) /\ scheduleOf(decls[j]) # {}}}

scheduledCodes(decls, app) ==
  UNION {IF ~validateHookSignature(decls[i].sig) THEN {"GOBSCH001"}
         ELSE IF scheduleOf(decls[i]) = {} THEN {"GOBSCH002"} ELSE {}
         : i \in UNION {ownMethods(decls, c, "Scheduled") : c \in DOMAIN app}}
=============================================================================
