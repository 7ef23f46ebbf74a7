----------------------------- MODULE Discovery ------------------------------
(***************************************************************************)
(* compiler/: what the analysis reads off the annotated declarations.  A   *)
(* type declaration is [target, name, comment, shape, ctor]: shape is the  *)
(* underlying type, "empty" (a struct without fields), "struct" or         *)
(* "other", ctor the signature of New<name> if there is one.  A function   *)
(* or method is [target, name, recv, comment, sig]; scanned adds anns.  A  *)
(* signature is [variadic, params, results].  An optional value is a set   *)
(* of at most one.                                                         *)
(***************************************************************************)
EXTENDS AnnotationRegistry

CONSTANTS
  ComponentID,   \* the rank of "<pkg>:<name>" among the IDs, an even number
  Interfaces,    \* interface types of the package
  Assignable,    \* <<t, u>>: types.AssignableTo(t, u)
  Pointee,       \* pointer type -> the type it points to
  NoType,        \* no interface
  Chars,         \* text -> its characters, where the code looks into the text
  TimeUnits,     \* accepted spellings of timeUnit, with the length of the unit
  Width          \* of a time.Duration, in bits

ASSUME ComponentAssumption ==
  \A n \in DOMAIN ComponentID : ComponentID[n] \in Nat /\ ComponentID[n] % 2 = 0

The(S, default) == IF S = {} THEN default ELSE CHOOSE x \in S : TRUE

-----------------------------------------------------------------------------
(* Declarations and their annotations                                      *)

Has(d, name) == \E i \in DOMAIN d.anns : d.anns[i].name = name
hasAny(d, names) == \E n \in names : Has(d, n)
FindAll(d, name) == {d.anns[i] : i \in {j \in DOMAIN d.anns : d.anns[j].name = name}}
\* The first of them.
Find(d, name) ==
  {d.anns[i] : i \in {j \in DOMAIN d.anns :
                        d.anns[j].name = name /\ \A k \in 1 .. j - 1 : d.anns[k].name # name}}

Arg(a, key) == IF key \in DOMAIN a.args THEN {a.args[key]} ELSE {}
stringArgValue(a, key) == UNION {AsString(v) : v \in Arg(a, key)}
stringArg(d, ann, key) == UNION {stringArgValue(a, key) : a \in Find(d, ann)}
boolArg(a, key) == \E v \in Arg(a, key) : v.kind = "boolean" /\ v.text = "true"
IntValue(v) == IF v.kind = "integer" THEN {Numbers[v.text].val} ELSE {}
intArg(d, ann, key) == UNION {IntValue(v) : v \in UNION {Arg(a, key) : a \in Find(d, ann)}}

stringList(v) == IF v.kind = "array" THEN UNION {AsString(v.elems[i]) : i \in DOMAIN v.elems} ELSE {}
arrayArg(a, key) == UNION {stringList(v) : v \in Arg(a, key)}

\* declFromDoc for every declaration, by its place in the scan: those without
\* annotations are left out, errors are kept from all of them.
scanned(decls) ==
  LET annotations(i) == ParseComment(decls[i].comment).anns
      with(d, anns) == [f \in DOMAIN d \cup {"anns"} |-> IF f = "anns" THEN anns ELSE d[f]]
  IN [i \in {j \in DOMAIN decls : annotations(j) # <<>>} |-> with(decls[i], annotations(i))]

Severity(code) == IF code = UnknownAnnotation THEN "warning" ELSE "error"

commentCodes(defs, parsed, target) == parsed.codes \cup ValidateGroup(defs, parsed.anns, target)

scanDiagnostics(defs, decls) ==
  {<<Severity(code), code>> : code \in UNION {
     commentCodes(defs, ParseComment(decls[i].comment), decls[i].target) : i \in DOMAIN decls}}

methodsOf(decls) == {d \in Range(decls) : d.target = "method"}

-----------------------------------------------------------------------------
(* Signatures                                                              *)

takesContextFirst(sig) == sig.params # <<>> /\ sig.params[1].type = "context"
returnsErrorLast(sig) == sig.results # <<>> /\ sig.results[Len(sig.results)] = "error"
implementsError(t) == <<t, "error">> \in Assignable

\* Nothing or a context in, nothing or an error out.
validateHookSignature(sig) ==
  /\ Len(sig.params) <= 1 /\ (Len(sig.params) = 1 => takesContextFirst(sig))
  /\ Len(sig.results) <= 1 /\ (Len(sig.results) = 1 => returnsErrorLast(sig))

namedOf(t) == IF t \in DOMAIN Pointee THEN Pointee[t] ELSE t
PointerTo(t) == CHOOSE p \in DOMAIN Pointee : Pointee[p] = t

validConstructor(sig) ==
  /\ ~sig.variadic
  /\ Len(sig.results) \in 1 .. 2
  /\ Len(sig.results) = 2 => sig.results[2] = "error"

-----------------------------------------------------------------------------
(* Components                                                              *)

None == -1
paramsToDeps(params) == [i \in DOMAIN params |-> [type |-> params[i].type, to |-> None]]

PropertyCondition(a) ==
  [name |-> The(stringArgValue(a, "name"), ""),
   havingValue |-> The(stringArgValue(a, "havingValue"), ""),
   matchIfMissing |-> boolArg(a, "matchIfMissing")]

extractConditions(d) ==
  LET values(ann, key) == UNION {stringArgValue(a, key) : a \in FindAll(d, ann)}
  IN [profiles |-> UNION {arrayArg(a, PositionalKey) : a \in Find(d, "Profile")},
      properties |-> {PropertyCondition(a) : a \in FindAll(d, "ConditionalOnProperty")},
      requiredNuts |-> values("ConditionalOnNut", "type"),
      absentNuts |-> values("ConditionalOnMissingNut", "type")]

\* build says how the wiring constructs it; the methods are attached later.
Component(d, name, kind, provides, build, deps) ==
  [name |-> name, kind |-> kind, provides |-> provides, build |-> build, deps |-> deps,
   returnsError |-> build = "config", primary |-> FALSE, implements |-> NoType,
   conditions |-> extractConditions(d), proxied |-> FALSE, target |-> None,
   intercepted |-> {}, handlers |-> {}, post |-> "", pre |-> "", scheduled |-> {}, queries |-> {}]

Constructed(d, name, kind, sig) ==
  [Component(d, name, kind, sig.results[1], "call", paramsToDeps(sig.params))
     EXCEPT !.returnsError = Len(sig.results) = 2, !.primary = Has(d, "Primary")]

componentKind ==
  <<<<"Service", "service">>, <<"Repository", "repository">>, <<"RestController", "controller">>,
    <<"ControllerAdvice", "advice">>, <<"ConfigurationProperties", "config">>,
    <<"Configuration", "configuration">>, <<"Component", "component">>>>

\* The first of the list that the declaration carries.
componentKindOf(d) ==
  LET carries(i) == Has(d, componentKind[i][1])
  IN {componentKind[i][2] : i \in {j \in DOMAIN componentKind :
                                     carries(j) /\ \A k \in 1 .. j - 1 : ~carries(k)}}

\* The first of the list with a name argument.
componentName(d) ==
  LET naming == SelectSeq(componentKind, LAMBDA ck : stringArg(d, ck[1], "name") # {})
  IN IF naming = <<>> THEN d.name ELSE The(stringArg(d, naming[1][1], "name"), d.name)

Found(components, codes) == [components |-> components, codes |-> codes]
At(id, c) == {[id |-> id, component |-> c]}

discoverConfigProperties(d) ==
  IF d.shape # "other"
  THEN Found(At(ComponentID[d.name], Component(d, d.name, "config", d.name, "config", <<>>)), {})
  ELSE Found({}, {})

\* The constructor New<name>, or none for a struct without fields.
discoverComponent(d, kind) ==
  LET named == stringArg(d, "Service", "implements")
      interface == IF kind = "service" THEN named \cap Interfaces ELSE {}
      unknown == IF kind = "service" THEN {"GOBPRX005" : n \in named \ Interfaces} ELSE {}
      found(c) == Found(At(ComponentID[d.name], [c EXCEPT !.implements = The(interface, NoType)]), unknown)
      empty == [Component(d, componentName(d), kind, PointerTo(d.name), "literal", <<>>)
                  EXCEPT !.primary = Has(d, "Primary")]
  IN IF \E sig \in d.ctor : validConstructor(sig)
     THEN found(Constructed(d, componentName(d), kind, The(d.ctor, {})))
     ELSE IF d.ctor # {} THEN Found({}, {"GOBDI004"})
     ELSE IF d.shape = "empty" THEN found(empty)
     ELSE Found({}, {"GOBDI003"})

discoverNut(d) ==
  LET nut == The(stringArg(d, "Nut", "name"), "")
      id == IF nut = "" THEN ComponentID[d.name] ELSE ComponentID[d.name \o "#" \o nut]
  IN IF validConstructor(d.sig)
     THEN Found(At(id, Constructed(d, IF nut = "" THEN d.name ELSE nut, "nut", d.sig)), {})
     ELSE Found({}, {"GOBDI004"})

generatedRepository(d) ==
  d.target = "interface" /\ \E a \in Find(d, "Repository") : boolArg(a, "generate")

discoverRepositoryInterface(d) ==
  LET name == The(stringArg(d, "Repository", "name"), d.name)
  IN Found(At(ComponentID[d.name], Component(d, name, "repository", d.name, "repository", <<>>)), {})

discover(d) ==
  IF Has(d, "Nut") /\ d.target \in Providers THEN discoverNut(d)
  ELSE IF generatedRepository(d) THEN discoverRepositoryInterface(d)
  ELSE IF d.target \notin Types \/ componentKindOf(d) = {} THEN Found({}, {})
  ELSE IF "config" \in componentKindOf(d) THEN discoverConfigProperties(d)
  ELSE discoverComponent(d, The(componentKindOf(d), ""))

\* handleAppRoot and checkAppRoot: more than one root is an error, none a warning.
appRoots(decls) ==
  LET roots == {i \in DOMAIN decls : Has(decls[i], "Application")}
  IN IF Cardinality(roots) > 1 THEN {<<"error", "GOBDI006">>}
     ELSE IF roots = {} THEN {<<"warning", "GOBDI006">>} ELSE {}

Discovered(decls) ==
  LET all == UNION {discover(d).components : d \in Range(decls)}
  IN [id \in {x.id : x \in all} |-> (CHOOSE x \in all : x.id = id).component]

discoveryCodes(decls) == UNION {discover(d).codes : d \in Range(decls)}
=============================================================================
