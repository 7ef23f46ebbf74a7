------------------------- MODULE AnnotationRegistry -------------------------
(***************************************************************************)
(* annotation/schema.go and annotation/registry.go: the schema of every    *)
(* core annotation, and the checks a declaration's annotations go through. *)
(* plugin/registry.go extends the catalogue with the plugins' annotations. *)
(* Diagnostics are codes.                                                  *)
(***************************************************************************)
EXTENDS AnnotationParser

CONSTANT Durations   \* the texts time.ParseDuration accepts, with their values

UnknownAnnotation == "GOBANN002"   \* the only warning among them
InvalidTarget == "GOBANN003"
UnknownArgument == "GOBANN004"
MissingArgument == "GOBANN005"
ArgumentType == "GOBANN006"
ArgumentValue == "GOBANN007"
NotRepeatable == "GOBANN009"
AnnotationConflict == "GOBPLG002"

arg(t) == [type |-> t, required |-> FALSE, allowed |-> {}]
required(t) == [type |-> t, required |-> TRUE, allowed |-> {}]
enum(values) == [type |-> "string or identifier", required |-> FALSE, allowed |-> values]
args(t, names) == [n \in names |-> arg(t)]
NoArgs == args("any", {})

\* A definition: targets, named arguments, and the positional one if it takes any;
\* only a plugin's has a validator, given here by the codes it reports.
Definition(targets, named, positional) ==
  [targets |-> targets, args |-> named, positional |-> positional, repeatable |-> FALSE, validator |-> {}]
Positional(def) == {def}
NoPositional == {}

Types == {"struct", "type"}
Methods == {"method"}
Providers == {"function", "method"}
Intercepts == {"method", "type"}
componentAndProviderTargets == Types \cup Providers \cup {"interface"}

-----------------------------------------------------------------------------
(* coreDefinitions                                                         *)

componentDefinitions ==
  [Application |-> Definition(Types, [name |-> required("string")]
       @@ args("array of strings", {"scan", "profiles"}) @@ args("string", {"configuration"}), NoPositional),
   Component |-> Definition(Types, args("string", {"name"}), NoPositional),
   Service |-> Definition(Types, args("string", {"name", "implements"})
       @@ [scope |-> enum({"singleton", "prototype"})], NoPositional),
   Repository |-> Definition(Types \cup {"interface"}, args("string", {"name", "entity", "table"})
       @@ args("boolean", {"generate"}), NoPositional),
   Configuration |-> Definition(Types, NoArgs, NoPositional),
   Nut |-> Definition(Providers, args("string", {"name"}), NoPositional),
   Primary |-> Definition(Types \cup Providers, NoArgs, NoPositional),
   Named |-> Definition(Types \cup Providers, NoArgs, Positional(required("string"))),
   Scope |-> Definition(Types, NoArgs,
       Positional([enum({"singleton", "prototype"}) EXCEPT !.required = TRUE]))]

methodMappingArgs ==
  args("string", {"path", "name"}) @@ args("array of strings", {"consumes", "produces"})
    @@ args("duration", {"timeout"}) @@ args("integer", {"status"})

mappingDefinitions ==
  [n \in {"GetMapping", "PostMapping", "PutMapping", "PatchMapping", "DeleteMapping"} |->
     Definition(Methods, methodMappingArgs, NoPositional)]

mediaDefinitions ==
  [n \in {"Consumes", "Produces"} |-> Definition(Methods, NoArgs, Positional(required("array of strings")))]

httpDefinitions ==
  [RestController |-> Definition(Types, NoArgs, NoPositional),
   RequestMapping |-> Definition(Types, args("string", {"path", "host"})
       @@ args("array of strings", {"headers"}), NoPositional),
   Response |-> [Definition(Methods, args("integer", {"status"})
       @@ args("string", {"type", "error", "contentType"}), NoPositional) EXCEPT !.repeatable = TRUE],
   ResponseStatus |-> Definition(Methods, NoArgs, Positional(required("integer"))),
   ControllerAdvice |-> Definition(Types, NoArgs, NoPositional),
   ExceptionHandler |-> Definition(Methods, args("string", {"type"}), NoPositional)]

conditionDefinitions ==
  [ConfigurationProperties |-> Definition(Types, [prefix |-> required("string")], NoPositional),
   PostConstruct |-> Definition(Methods, NoArgs, NoPositional),
   PreDestroy |-> Definition(Methods, NoArgs, NoPositional),
   Scheduled |-> Definition(Methods, args("any", {"fixedRate", "fixedDelay", "initialDelay"})
       @@ args("string or identifier", {"timeUnit"}), NoPositional),
   Profile |-> Definition(componentAndProviderTargets, NoArgs, Positional(required("array of strings"))),
   ConditionalOnProperty |-> Definition(componentAndProviderTargets, [name |-> required("string")]
       @@ args("string", {"havingValue"}) @@ args("boolean", {"matchIfMissing"}), NoPositional)]

nutConditionDefinitions ==
  [n \in {"ConditionalOnNut", "ConditionalOnMissingNut"} |->
     Definition(componentAndProviderTargets, [type |-> required("string")], NoPositional)]

interceptionDefinitions ==
  [Transactional |-> Definition(Intercepts, args("boolean", {"readOnly"}) @@ args("duration", {"timeout"})
       @@ [isolation |-> enum({"default", "read_committed", "repeatable_read", "serializable"}),
           propagation |-> enum({"required", "requires_new", "supports", "not_supported"})], NoPositional),
   Traced |-> Definition(Intercepts, args("string", {"name"}), NoPositional),
   Timed |-> Definition(Intercepts, args("string", {"name"}), NoPositional),
   Logged |-> Definition(Intercepts, [level |-> enum({"debug", "info", "warn", "error"})], NoPositional),
   Audit |-> Definition(Intercepts, args("string", {"action", "resource"}), NoPositional),
   Authorize |-> Definition(Intercepts, args("array of strings", {"roles", "permissions"})
       @@ [mode |-> enum({"any", "all"})], NoPositional),
   RolesAllowed |-> Definition(Intercepts, NoArgs, Positional(required("array of strings"))),
   Timeout |-> Definition(Intercepts, NoArgs, Positional(required("duration"))),
   Retry |-> Definition(Intercepts, args("integer", {"maxAttempts"}) @@ args("float", {"multiplier"})
       @@ args("duration", {"delay", "maxDelay"}), NoPositional),
   CircuitBreaker |-> Definition(Intercepts, args("string", {"name"}) @@ args("duration", {"resetTimeout"})
       @@ args("integer", {"failureThreshold", "halfOpenMax"}), NoPositional),
   RateLimit |-> Definition(Intercepts, args("string", {"name"}) @@ args("duration", {"period"})
       @@ args("integer", {"limit", "burst"}), NoPositional),
   Bulkhead |-> Definition(Intercepts, args("string", {"name"}) @@ args("duration", {"maxWait"})
       @@ args("integer", {"maxConcurrent"}), NoPositional),
   Cacheable |-> Definition(Methods, [key |-> required("string")] @@ args("duration", {"ttl"}), NoPositional),
   CacheEvict |-> Definition(Methods, [key |-> required("string")], NoPositional)]

queryDefinitions ==
  [n \in {"Query", "Exec", "Batch", "Call"} |->
     Definition(Methods, args("string", {"file"}), Positional(arg("string")))]

DefaultRegistry ==
  LET parts == {componentDefinitions, mappingDefinitions, mediaDefinitions, httpDefinitions, conditionDefinitions,
                nutConditionDefinitions, interceptionDefinitions, queryDefinitions}
  IN [n \in UNION {DOMAIN p : p \in parts} |-> (CHOOSE p \in parts : n \in DOMAIN p)[n]]

-----------------------------------------------------------------------------
(* Registration, core definitions first, then plugin by plugin.            *)

Register(reg, def) ==
  IF def.name = "" \/ def.name \in DOMAIN reg.defs
  THEN [reg EXCEPT !.codes = @ \cup {AnnotationConflict}]
  ELSE [reg EXCEPT !.defs = [n \in {def.name} \cup DOMAIN reg.defs |->
                               IF n = def.name THEN def.def ELSE reg.defs[n]]]

\* plugin.Registry.AnnotationRegistry: plugin by plugin, each one's in order.
RegisterAll(reg, anns) ==
  LET after[i \in 0 .. Len(anns)] == IF i = 0 THEN reg ELSE Register(after[i - 1], anns[i])
  IN after[Len(anns)]

MergedRegistry(plugins) ==
  LET after[i \in 0 .. Len(plugins)] ==
        IF i = 0 THEN [defs |-> DefaultRegistry, codes |-> {}]
        ELSE RegisterAll(after[i - 1], plugins[i].annotations)
  IN after[Len(plugins)]

-----------------------------------------------------------------------------
(* Validation                                                              *)

typeMatches(t, v) ==
  CASE t = "float" -> v.kind \in {"float", "integer"}
    [] t = "duration" -> v.kind = "string" /\ v.text \in DOMAIN Durations
    [] t = "string or identifier" -> v.kind \in {"string", "identifier"}
    [] t = "array of strings" -> v.kind = "array" /\ \A i \in DOMAIN v.elems : v.elems[i].kind = "string"
    [] t = "any" -> TRUE
    [] OTHER -> v.kind = t

\* AsString, as the set of at most one text.
AsString(v) == IF v.kind \in {"string", "identifier"} THEN {v.text} ELSE {}

appendArgDiags(def, v) ==
  IF ~typeMatches(def.type, v) THEN {ArgumentType}
  ELSE IF def.allowed # {} /\ ~(AsString(v) \subseteq def.allowed) THEN {ArgumentValue}
  ELSE {}

isPositionalKey(key) == key \in {positionalKey(n) : n \in 0 .. 3}

argumentDiags(def, key, v) ==
  IF isPositionalKey(key)
  THEN IF def.positional = NoPositional THEN {UnknownArgument}
       ELSE UNION {appendArgDiags(d, v) : d \in def.positional}
  ELSE IF key \in DOMAIN def.args THEN appendArgDiags(def.args[key], v)
  ELSE {UnknownArgument}

\* What is wrong with an annotation by its schema; without targets, any will do.
schemaDiags(def, ann, target) ==
  UNION {
    {InvalidTarget : x \in IF def.targets = {} \/ target \in def.targets THEN {} ELSE {target}},
    UNION {argumentDiags(def, key, ann.args[key]) : key \in DOMAIN ann.args},
    {MissingArgument : key \in {k \in DOMAIN def.args : def.args[k].required} \ DOMAIN ann.args},
    {MissingArgument : d \in {x \in def.positional : x.required /\ PositionalKey \notin DOMAIN ann.args}}}

\* The validator is asked about well-formed annotations only.
validate(def, ann, target) ==
  IF schemaDiags(def, ann, target) = {} THEN def.validator ELSE schemaDiags(def, ann, target)

Validate(defs, ann, target) ==
  IF ann.name \in DOMAIN defs THEN validate(defs[ann.name], ann, target) ELSE {UnknownAnnotation}

ValidateGroup(defs, anns, target) ==
  (UNION {Validate(defs, anns[i], target) : i \in DOMAIN anns})
  \cup {NotRepeatable : ij \in {x \in (DOMAIN anns) \X (DOMAIN anns) :
          /\ x[1] < x[2] /\ anns[x[1]].name = anns[x[2]].name
          /\ anns[x[1]].name \in DOMAIN defs /\ ~defs[anns[x[1]].name].repeatable}}
=============================================================================
