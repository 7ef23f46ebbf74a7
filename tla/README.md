# goboot: TLA+ models and proofs

goboot is a compile-time application framework for Go. Annotations in doc
comments are parsed and analysed into an application model; wiring, HTTP
handlers and service proxies are generated from it; the generated code runs on
a small runtime library. This project models the parts whose correctness
depends on order, interleaving, failure or time, model-checks them with TLC and
proves the most important results with TLAPS. `PROJECT.json` lists the
components, runs, mutants, source map, findings, hazards and theorems.

Commands, in this directory:

    tlc -workers 2 -config MCBulkhead.cfg MCBulkhead    # one run
    tlapm BulkheadProofs.tla                            # one proof module

## 1. Inventory

The system has a build-time half (CLI, annotation language, compiler, graph,
generators, plugins) and a run-time half (runtime library, adapters and the
generated code that ties them to the application).

| Component | Source | State it keeps | Operations | Hard behaviour | What makes it correct |
|---|---|---|---|---|---|
| Circuit breaker | `runtime/circuitbreaker.go` | state, failures, openedAt, halfOpenReqs under a mutex | `Execute` = allow, fn, record | outcomes recorded out of order, panics between allow and record, the window's edge | probe slots accounted for, only a streak trips, the window is respected, it recovers |
| Bulkhead | `runtime/bulkhead.go` | a buffered channel | `Execute` = acquire, fn, release | two selects, timer against slot against context, panics | no slot leaks, no overtaking, waits end |
| Rate limiter | `runtime/ratelimit.go` | tokens, lastFill under a mutex | take | fractions of a token, capping, polling clients | exactly the permits of the ideal bucket |
| Retry, cache, transactions | `runtime/retry.go`, `cache.go`, `adapters/…` | the cache's entries; a driver's transaction | Retry; Get, Set, Delete; WithinTransaction | lost commit answers, two-phase expiry, ignored eviction errors, nesting | a write settles once, refreshed entries survive, staleness ends |
| Generated service proxy | `generator/di/proxy.go`, `runtime/proxy.go` | none: one call's locals | the intercepted method | the order of gates, retry, transaction and deferred observers | a rejected call has no effect, the audit trail is truthful |
| Lifecycle | `runtime/lifecycle.go` | registered and started components, no lock | Start with rollback, Stop | partial start, failing hooks, two stoppers | reverse order, each stop hook exactly once |
| Scheduler | `runtime/scheduler.go` | cancel function, a WaitGroup, a goroutine per task | Start, runTask, Stop | select picks a tick on a dead context | all tasks over when Stop returns |
| Application | `runtime/application.go` | the server, the two above | Run, Shutdown | signals, server failure, drain deadline, a foreign Shutdown | work only between start and stop; Run returns |
| Generated HTTP handler | `generator/di/http.go`, `runtime/{http,binding,errorhandler,…}.go` | one request's locals and the response | the handler, the exception dispatcher | failures after the header is sent, panics, panics in Recover | authorization first, one truthful document, a fitting status |
| Semantic analysis | `compiler/{analyzer,constructors,conditions,proxy,resolver}.go` | component list, diagnostics | AnalyzeWith and its phases | conditions that depend on each other, proxies that rebind consumers | conditions hold of the result, nothing bypasses a proxy |
| Dependency graph | `graph/` | nodes, edges; colours, stack, order of the search | Build, ConstructionOrder | cycles entered from outside | a topological order or a genuine cycle |
| CLI | `cli/` | the output directory, `.goboot/` cache, go.mod | generate (with bootstrap), clean, and commands that only read | crashes between writes, stale output, two processes, cached binaries | hand-written files survive, success means current, regeneration heals |
| Annotation language | `annotation/` | the registry of definitions | lex, parse, validate against schemas | lines joined until brackets balance, broken siblings, limits | accepts exactly the grammar, a broken annotation costs only itself |
| Discovery | `compiler/{scanner,routes,lifecycle,scheduled,advice,repository}.go` | declarations found | one pass per feature | ten passes that each skip what they do not recognise | an annotation is wired or reported, and lost only where the code is known to lose it |
| Generators | `generator/di/`, `sqlgen/` | none | wiring, repositories, SQL | names that collide, placeholders numbered in one pass and bound in another | variables are assigned before use and unique, every placeholder has its argument |
| Plugins | `plugin/`, `plugins/` | the registry | Register, Analyze, Generate, Dialect | panicking plugins, name conflicts | a bad plugin is a diagnostic and stops no other |
| Adapters | `adapters/` | none | calls into drivers | the drivers' | — |

How they interact: the CLI loads packages, the scanner parses annotations, the
analyzer builds the application model, the graph orders it, the generators
write code (and plugins add files). At run time `Application.Run` starts the
lifecycle, then the scheduler and the server; a request goes through its
generated handler into controllers, which call services through generated
proxies; a proxy calls bulkheads, breakers, limiters, the authorizer, the cache
and the transaction manager around the target.

The hazards (what can go wrong and a test would hardly reach, each at its line)
are listed in `PROJECT.json`, with the properties that would catch them.

## 2. Modules

| Module | Models | Extends or instantiates |
|---|---|---|
| `CircuitBreaker` | the breaker with its callers and the clock | |
| `Bulkhead` | the bulkhead, Go's channel queue, timers, contexts | |
| `RateLimiter` | the token bucket in exact arithmetic | instantiates `LeakyBucket` |
| `LeakyBucket` | abstract: what a rate limit promises | |
| `ServiceProxy` | the generated method with retry, cache, transaction | |
| `Lifecycle`, `Scheduler` | their state and steps, for any number of stopping goroutines | |
| `Application` | Run, Shutdown, the server | extends `Lifecycle` and `Scheduler`, instantiates `ComponentLife` |
| `ComponentLife` | abstract: what an application promises its components | |
| `AnnotationParser` | lexer, parser and the joining of lines | |
| `AnnotationRegistry` | the catalogue of annotations, validation | extends `AnnotationParser` |
| `Discovery` | from declarations to components | extends `AnnotationRegistry` |
| `MethodDiscovery` | interception, routes, exception handlers, hooks, tasks | extends `Discovery` |
| `Repository` | query methods, SQL translation, repository bodies | extends `MethodDiscovery` |
| `WiringGenerator` | names, imports and statements of the wiring | extends `Repository` |
| `DependencyGraph` | Build and the depth-first search | |
| `Analyzer` | AnalyzeWith, one action per phase | extends `WiringGenerator` and `DependencyGraph` |
| `Pipeline` | `goboot generate` up to the writing, with the plugin host | extends `Analyzer` |
| `AnnotationGrammar` | abstract: what the annotation language is | extends `Pipeline` |
| `HttpHandler` | one request through the generated handler | |
| `GobootCli` | generate, its bootstrap, and clean | |
| `…Proofs` | theorems about the module of that name and those it extends | extend it |
| `MC…` | constants for TLC | extend the module |

Each module lists, under *Plausible bugs*, the mutated forms of its definitions
that its properties are tested against.

**CircuitBreaker.** `state`, `failures`, `halfOpenReqs` are the struct's fields;
`openedAt` is kept as `age`, the time since it, cut off at ResetTimeout, so
that the state space is finite. `call[c]` is where caller c is. Everything
under the mutex is one step: `Allow` (with its three ways in and `Reject`) and
`Record`; the guarded function lies between them and may panic, in which case
`record` is never called. `streak`, `tripAge`, `probes` and `lost` are history
variables that only the properties read.

**Bulkhead.** The channel is a count of slots and the queue of blocked senders:
Go serves blocked senders first in, first out, and a receive hands the freed
slot to the first of them. `TryAcquire` is the first select, `EnterSelect` the
second one, `StopWaiting` its timer and context branches, `Release` and
`HandOver` the deferred receive.

**RateLimiter.** Token counts are multiples of 1/Period, so integers suffice and
nothing is rounded; `elapsed` is the time since `lastFill`, at most `MaxIdle`.
float64 rounding is not modelled.

**ServiceProxy.** One method `Get` (cached) and one `Put` (evicting), each
annotated as the constant `Advices` says. A call's `pc` walks through the
generated body: cache lookup, gates in the order the generator nests them
(`GateOrder`; `gate[c]` is the last one passed, `NextGate` the next that is
annotated), retry, transaction, target, metrics, cache update, deferred
observers. Gates
admit or reject at will: their own state is the business of the modules above.
Values are version numbers of the one database row. The memory cache's Get is
two steps (the read lock, then the write lock); the Redis cache expires its
entry by itself and its operations may fail.

**Lifecycle, Scheduler, Application.** One step per loop iteration and per hook
call of `Start`, `Stop` and `stopStarted`; one goroutine per task with its two
selects; `http.Server` as net/http documents it (Shutdown makes ListenAndServe
return at once, then drains until its context ends). A second goroutine `ext`
may call `Shutdown`. `ComponentLife` is what is left of this when one looks only at
what happens to each component: it starts on those before it, work begins on all
of them, and when the work is over each is stopped once, before those it was
built on.

**AnnotationParser, AnnotationRegistry, AnnotationGrammar.** A comment is a sequence
of lines and a line a sequence of symbols: punctuation, quotes, backticks,
backslashes, space, and words that are an identifier or a number each. The
lexer, the recursive descent and the joining of lines are those of the code, as
recursive functions over positions; the parser reads the stream of tokens by
index, since the lexer never depends on it, and arguments, arrays and objects
are one recursion that differs in the closing delimiter and in what a key may
be. Values keep their kind and text, positions and messages are left out.
`AnnotationRegistry` holds the catalogue as a function from names to schemas; a
definition without targets fits every declaration, and a plugin's validator, asked
about annotations that its schema accepts, is the set of codes it reports. `AnnotationGrammar` says which lines are
annotations without reading from left to right: a text is a value or a list if
it can be cut into pieces that are.

**Discovery, MethodDiscovery, Repository, WiringGenerator.** Operators, one per
function of `compiler/`, `sqlgen/` and `generator/di/`, over declarations
[target, name, comment, signature]. The scanner numbers the declarations; a pass that
looks methods up by name, or whose results run independently of each other (tasks,
queries), is a set over these positions, one in which the order decides (hooks,
advices of one type) says which position wins. A Go type is a name with a given
assignability relation, a component ID its rank among the IDs; optional results
are sets of at most one element, diagnostics are codes. Texts the code looks
into (paths, SQL, cache keys, names) are given as characters by constants.
`time.Duration` wraps at `Width` bits. The wiring is a record of its sections:
constructor statements with arguments, lifecycle and scheduler registrations,
repository methods, proxies, routes, the exception dispatcher. A proxy is a function
from the methods of its interface (`MethodsOf`) to the annotations put around
each; the dispatcher is the set of handlers that it tries, one per error type, and
which of several it is, the first by field and method name, is left open.

**DependencyGraph, Analyzer, Pipeline.** The search is iterative: its stack holds a
node and the dependencies left to visit; colours, path and order are those of
`ConstructionOrder`. `Analyzer` runs the phases of `AnalyzeWith`, one action each
and one per round of the condition loop, over a source tree chosen initially. A
component is a number and its proxy the next one, because the ID with `$proxy`
appended sorts right after it. `Pipeline` puts the plugins' annotations before
it, and the plugins' analysis, the generation and the plugins' files after it; a
plugin is what its methods do (nothing, succeed, fail, panic). A panic in Analyze or
Generate is recovered by the host; one in Annotations, in Dialects or in a validator
is not, and is the action `Crash`. All declarations are in one package, and their
order is the scanner's.

**HttpHandler.** `pc` is the handler's next call, `err` the error it handles. The
response is a status, fixed by the first WriteHeader, and the documents encoded
to the body. Routes, requests and exception advice are chosen initially; every
injected collaborator may fail or panic. An error is told by its status and by
whose it is: the framework's own errors carry the statuses of the code, the
application's (a controller's, an advice method's, those of an injected
authenticator, binder or validator) any status or none, a success or a redirect
included, since `StatusOf` passes on whatever is not 0. Whether a concrete
exception handler matches an error is a choice, because it depends on the Go types
only. The authorizer is the default one, by role. A panic inside the deferred
Recover ends the connection. Statuses are any integers but the informational ones (100
to 199), which net/http sends ahead of the answer; one that net/http refuses (below
100 or above 999) panics in WriteHeader, before anything is sent.

**GobootCli.** Files of the output directory are absent, hand-written or
generated from a version of the sources. Each process runs its command step by
step, and any step may fail or be the process's last. The go tool is external:
a build links the versions that go.mod requires and, run with `-mod=mod`, adds
modules that are missing. Loading fails, besides for broken sources, when the
composition root imports an output package that other files make importable
but that lacks its wiring. Clean takes a file for its own if its name has the
generated prefix and its content the generated marker (`Removable`); which
plugins' files have them, and which are Go, are constants, since both kinds are
bundled: the validators and metrics are marked Go, the OpenAPI and AsyncAPI
documents JSON without a marker. A hand-written file is the wiring or a file that
nobody emits: a plugin's file name is taken to be the plugin's own
(`CliAssumption` and `Init`).

## 3. Runs

| Run | Bounds | Shows |
|---|---|---|
| `breaker` | 3 callers, threshold 2, timeout 2, 2 probes | slots accounted for, streak, window, recovery |
| `breaker_panic` | the default single probe | *violation*: a panicking probe blocks the breaker for good |
| `application` | 3 components, 3 tasks, 2 requests | implements `ComponentLife`; complete teardown, quiescence, Run returns |
| `application_external_shutdown` | the same | *violation*: components stop under running requests |
| `analyzer` | 20 families of source trees, 12 637 in all | grammar, selection, interception, order, cycles, wiring, SQL, plugins, termination |
| `bulkhead` | 4 callers, 2 slots, waits of 0 and 1 | slots, fairness of the queue, waits end |
| `ratelimiter` | 3 permits per 7 ticks, burst 4, idle ≤ 12 | implements `LeakyBucket`; polling is not starved |
| `proxy` | 2 callers, 2 attempts, 1 write, 3 annotation sets | settled once, rejected untouched, audit, cache |
| `proxy_nested` | the same | *violation*: an inner transaction survives the outer rollback |
| `http` | 80 kinds of route × 48 requests × 10 advices, application errors of 5 statuses | authorization first, one truthful answer |
| `cli` | 2 processes, 3 commands, 2 edits, 3 plugin lists | files, healing, success is current, cache |
| `cli_pinned` | 1 process, 1 plugin, 2 versions | *violation*: another version than the pinned one is linked |

Why the bounds are enough. Three breaker callers let a straggler of the closed
state end between two probes. Four bulkhead callers let two queue while two
run. Three components are the smallest instance in which a cycle is entered
from outside, a middle component fails to start, or a fallback chain has a
middle; one of them lacks a start hook and one a stop hook. The limiter's rate
does not divide its period, so every fraction of a token occurs, and the idle
bound exceeds the time a full refill takes. Two attempts have a retry, two
callers a race. Three commands are an output left behind by one command and two
that find it and interleave. The two `cli` processes are interchangeable, and
symmetry is used there, where only safety is checked. That run does not check
for deadlock: when the commands have ended there is nothing left to do.

The sources of `analyzer` are exhaustive, family by family, about one question:
dependencies of three services on each other and on an interface, with primaries
and interception (6144); two interfaces that a proxy and plain services compete
for, and that declare the intercepted method or not (1024); nut conditions (486); profiles and properties under
every choice of options (648); declaration shapes and constructors (616); nuts
(64); roots, strictness and dialects (22); names that collide with each other,
with keywords and with imports (343); paths of two routes (250); a method of
every annotation and signature on every kind of component (1566); two advices
constructed as one type or as each other's, for one error type or two, with a route
or without (32); hooks (162);
schedules with rates that overflow a 6-bit duration (288); every statement of
four symbols before a reference, in four kinds of method (40 repositories);
query signatures (396); two plugins that analyze and generate with every outcome,
and that register definitions and validators (281); two that panic wherever nothing
recovers them (128);
and doc comments: every short argument list, every single edit of seven rich
annotations, every comment of three lines out of 13 (147 sources of some hundred
declarations each). Nesting is limited to 2 instead of 32, which two brackets
exceed.

The types of the breaker, the bulkhead, the limiter, the application, the proxy and
the CLI's state are proved (section 5) and checked by no run.

Fairness, and why the code justifies it:

- breaker: clients keep calling, the guarded function ends, the clock runs. The
  liveness properties say what happens *if* there is traffic.
- application: weak fairness of goroutines (Go's scheduler is preemptive), of
  hooks, task bodies and the drain, which has a deadline; strong fairness of a
  task's exit, because Go's select chooses at random among the ready cases and
  so cannot ignore a done context for ever. A hook that never returns is
  excluded.
- bulkhead: goroutines inside acquire and release go on and the timer runs;
  clients need not call and guarded functions need not return.
- rate limiter: a client keeps calling and time passes.
- proxy: a call that has been made goes on, and time passes; nobody need call.
- analyzer: one sequential computation goes on while it can: weak fairness of
  Next, written so that TLC evaluates ENABLED only inside the two loops.
- http and cli: safety only, no fairness.

## 4. Findings

Each of the first four is the counterexample of a run:

1. `runtime/circuitbreaker.go:86` — a panic of the guarded function skips
   `record`; the probe slot is never given back, and with the default single
   probe the breaker rejects for ever (`breaker_panic`).
2. `runtime/application.go:48` — with Shutdown called from another goroutine,
   Run's own branch stops the lifecycle while Shutdown still drains requests
   (`application_external_shutdown`).
3. `adapters/databasesql/databasesql.go:80` — a nested transactional call does
   not join the current transaction, which the default propagation promises
   (`proxy_nested`).
4. `cli/bootstrap.go:95` — the pinned plugin version is part of the cache key but
   not of the build, which takes go.mod's or the latest (`cli_pinned`).

Five more places where the code and a comment of the repository disagree are modelled
as the code has them. The properties except them by name, so that they say what else
holds, and no run is about them alone:

5. `cli/bootstrap.go:89` — two processes share `.goboot/tool/main.go`, so that one
   caches, under its own key and for good, a CLI that links the other's plugins, while
   `cli/bootstrap.go:63-64` says that the key covers the plugin set. `CacheTruthful`
   excepts builds that overlap (`overlapped`).
6. `cli/clean.go:110` — a plugin's file needs the marker besides the prefix to be
   removed, which the bundled OpenAPI and AsyncAPI documents do not have, although
   their comments (`openapi.go:17-18`, `asyncapi.go:32-33`) and `plugin/plugin.go:74-75`
   say that the prefix is enough. `SuccessIsCurrent` speaks of files that are `Removable`.
7. `plugin/registry.go:76` and `:141` — `Annotations` and `Dialects` are called outside
   of the two functions that recover, so a plugin's panic there takes the host down,
   against `plugin/plugin.go:13-14` and `plugin/registry.go:19-21`; so does a panic in a
   plugin's validator (`annotation/schema.go:164`). This is the action `Crash`, which the
   run `analyzer` takes, and `PluginsContained` says what it leaves.
8. `generator/di/proxy.go:82` — a proxy gets the methods of the service's interface
   only; on any other method of the service an interception annotation is without
   effect, against `generator/di/proxy.go:13-16`. `WiredOrReported` excepts it (`Lost`).
9. `compiler/routes.go:182` — interception leaves a controller's authorization to the
   route (`compiler/proxy.go:34-36`), and the route reads the roles of `@Authorize`
   alone: `@RolesAllowed` is enforced nowhere. `Lost` names it, too.

Delimited rather than refuted: `SelfHeals` holds with `-clean` and no Go file in
the output directory that lacks prefix or marker. Without either, other Go files
keep the output package importable once its wiring has been removed, and
generate fails to load until they are gone. `TruthfulStatus` excepts a response
that could not be encoded after its header was sent; the Problem appended then
names another status. `CacheTruthful` excepts overlapping builds, which are
finding 5. `SuccessIsCurrent` speaks of every file that was written, and of what else a
clean finds with prefix and marker; the artifacts without them stay, finding 6.
`KeptConditionsHold` says that what the condition rounds keep is consistent, not
that they keep as much as possible: a fallback of a fallback that is itself
removed in the same round is dropped, although nothing that is kept excludes it
(`compiler/conditions.go:59-76`).

`SiblingsKept` is about comments in which no line leaves a bracket, a string or a
backtick open, and about an annotation that is broken inside its brackets: one
that never closes takes every line after it with it
(`annotation/parser.go:64-74`), well-formed annotations included. `GrammarExact`
accepts that a positional argument replaces a named `value` before it
(`@X(value="y", "z")`), as the code does, while the reverse order is an error.

`PluginsContained` speaks of every panic in a method that the pipeline calls on the
way: those in Analyze and Generate are contained, the others end the command before
anything is generated or written, finding 7. `Name` and `Version` are taken not to
panic; they are called first of all when plugins are registered, before the pipeline
begins.

`WiredOrReported` speaks of every annotation of a method that asks for a call: an
interceptor in a proxy, a role at a route, a route, an exception handler, a hook, a
task, a statement. What is generated has that call, or an error was reported, except
for what `Lost` names, which the code passes over without a word:

- interception of a method that the service's interface does not declare (finding 8);
- on a controller, `@RolesAllowed`, `@Cacheable` and `@CacheEvict`, and an `@Authorize`
  without roles, with permissions, with mode `all` or on a method without a route
  (finding 9);
- all but the first mapping of a method, all but the first query annotation with a
  statement, and all but the last `@PostConstruct` and `@PreDestroy` of a type;
- all but one exception handler of an error type, and every one in a program without
  routes, which has no dispatcher.

`Lost` lists them by what the source says, not by what is generated, so anything else
that went missing would be a violation. Outside of the property: mappings on
controllers that are not structs, hooks and tasks on a type that only a nut provides,
interception annotations on a type, `@Primary` on configuration properties and `scope`
are read by no pass; hooks and tasks are called on the component itself, past its
proxy. An `@ExceptionHandler` of an advice that a condition has removed is an error
(GOBHTTP006), not silence. A plugin's diagnostics and a validator's are taken to be
errors.

`Generates` speaks of one package: `Load…`, `New…Proxy` and `…Impl` of types of the
same name in two packages would collide. Two routes are the same when method and
pattern are equal texts; patterns that conflict by their wildcards only are left
to `http.ServeMux`. A fixed rate whose product with its unit wraps to a positive
duration is accepted (`compiler/scheduled.go:160`), and an initial delay
that is no duration counts as none.

## 5. Proofs

TLAPS checks, for every value of the constants that satisfies the modules'
assumptions (finite sets of callers, natural numbers in the annotations):

- **CircuitBreakerProofs** — `TypeOK`, `ProbeAccounting`, `ClosedBelowThreshold`,
  `TripsOnStreak` and `WindowRespected`. The inductive invariant adds
  `EpisodeInv`: probes are still inside the function; outside half-open there is
  nothing to account for; an open breaker's clock does not run ahead of the time
  since it opened; half-open begins only after the whole window. Without it a
  probe could be counted twice, and nothing would relate the age that stragglers
  reset to the time of the trip.
- **BulkheadProofs** — `TypeOK`, `SlotsHeld` and `NoOvertaking`. The invariant adds
  `QueueInv`: callers wait only while every slot is taken, and the queue holds
  each waiting caller once. It is why the non-blocking first select cannot
  overtake anybody: with a caller waiting, no slot is free.
- **RateLimiterProofs** — `TypeOK`, and that the lazily refilled bucket implements
  `LeakyBucket` under the mapping level = Full − Refilled: a tick refills what
  the ideal bucket drains, and a take leaves exactly what it computed.
- **ApplicationProofs** — `TypeOK`, `StartedBeforeWork`, `ReverseOrder`,
  `StoppedExactlyOnce` and `QuiescedBeforeStop`, for any number of components,
  tasks and requests. `LoopInv` ties `l.started` to the loop indices: it is the
  prefix of the components that is up, a start loop at position k has started the
  first k − 1, and a stop loop at k has called the hooks of those after k, each
  once. `WorkInv` says where Run is when tasks and requests exist; `ServerInv`
  says why the server has stopped: through Run's own Shutdown, whose drain ended
  or timed out, or because it failed. `ReverseOrder` and the two after it are about
  `Calm` executions, in which Run alone stops the application; finding 2 is what
  happens otherwise. The last theorem, `ComponentsLiveInOrder`, states them as one
  specification: `Application` implements `ComponentLife`, with a component new until
  it has started and stopped once its hook has been called. The mapping needs
  `HeldInv` besides: only what has started is ever stopped, a request needs the
  server, and a drain that gave up has closed it. The run checks the refinement,
  which contains `ReverseOrder`.
- **PipelineProofs** — `DependenciesPrecede`, `CycleIsGenuine`,
  `KeptConditionsHold`, `ProxiesNotBypassed`, `WrittenOnlyWithoutErrors`,
  `PluginsContained`, `Generates` and `WiredOrReported`, for every catalogue, list of
  plugins and source tree. Six invariants. `GraphInv`: gray nodes
  are those on the stack, black ones those in the order; the stack is a path of
  edges without repetition; an edge already taken leads to a black node or to the
  one right above. So a node is ordered only when all its dependencies are, and
  an edge to a gray node closes a cycle. `AppInv`: components that fail a profile or
  a property are gone before the rounds begin, and the rounds end on one that
  removes nothing; until proxies are built nobody is bound and odd numbers are free,
  so building a proxy overwrites no component; before resolution only proxies are
  bound, each to its target; resolution never chooses an intercepted component.
  `FilesInv`: past the host's analysis nothing blocking has been reported.
  `PluginInv`: the core catalogue stands from the start, and what the host has called
  and reported so far is what its loops over the plugins yield. `CrashInv` says which
  call a crashed host is in; no phase follows it, and since each such call comes before
  the first file, nothing has been generated or written. What those loops
  yield is an induction over the list of plugins, in the form the provers can
  check: a set of indices that holds 0 and is closed under successors has no least
  index missing (`Induction`, from the well-foundedness of <), and one lemma per
  recursive function unrolls it (`CallsUnroll`, `RegisterUnrolls`, `MergeUnrolls`, and
  for the wiring `NamesUnroll` and `HooksUnroll`). `GenInv`: what is generated is a
  function of the application and of an order that names each component once, every
  dependency is bound to a component in it, and routes are distinct; so a constructor
  uses only variables assigned before it, hooks are registered in construction
  order, and names are unique. That the generator writes a wiring at all, and from
  what, holds as it stands (`AnalysisEndsInWiring`); that names are unique
  (`WiringSound`) rests on `NumbersDiffer`, two different numbers appended to one name
  give different names, since strings are opaque to the provers. `unique` then finds
  a free name among the first few candidates by counting them. `CallsInv`: past each
  phase, either an error has been reported, and nothing will be generated, or what
  that phase owes each annotated method has been attached to its component: a proxy
  and its interceptors, a route and its roles, an exception handler, a hook, a task, a
  query. No later phase takes it away again (`RestKept`). From there, one lemma for each
  kind of annotation (`InterceptorsWired`, `AuthorizationWired`, `MappingsWired`,
  `HandlersWired`, `HooksWired`, `TasksWired`, `QueriesWired`) follows it through the
  generator into the section that calls it, `WhatIsAsked` says that there are no other
  kinds, and `DroppedAreNotCalled` is about components that were not kept. The one schema that matters is that of `@Timeout`:
  because the core definition cannot be replaced, an accepted one has a duration.
- **ServiceProxyProofs** — `TypeOK`, `SettledOnce`, `RejectedUntouched`,
  `AuditTruthful` and `FreshEntryKept`, for any number of goroutines, attempts and
  annotations. The invariant is one per call, since calls share only the cache, the
  database and the set of open transactions: a transaction is open exactly inside
  an attempt; within an attempt the write's effects are those of the commits whose
  answer was lost, and after it `err` tells whether its own counts; a rejection is
  the error only of a call that has done nothing.
- **HttpHandlerProofs** — `SecuredFirst`, `TruthfulStatus` and `AnswerFits`, for
  every route, request and advice. The invariant says that past the check of a
  route with roles the principal on the context has one of them, that a header has
  been sent before the handler is done only by a response that broke, that the
  body is empty until the end, and that the error in hand is the application's or
  one of the framework's own, whose statuses are all errors. `AnswerFits` therefore
  allows a failure to be answered with a status below 400 in two cases only: the
  application wrote it on an `@ExceptionHandler`, or on the error it returned.
- **GobootCliProofs** — `HandWrittenKept`, `CacheTruthful`, `SelfHeals` and
  `SuccessIsCurrent`, for any number of processes, plugins, commands and edits. Each
  process has its own invariant: what its build imports is what its key stands
  for unless builds overlapped; what is still generated in the output directory is
  on the list that clean works off; in the writing loop every file not left to
  write is current. The last two are claimed of undisturbed commands only, and the
  proof has one lemma for what a step of another process leaves of them. The whole
  invariant is also model-checked, on the instance of `cli`.

These are invariance proofs with one lemma per action or group of actions, and
the action properties follow from the invariant and one step. What the modules
assume of their constants:

- the constructors replace settings that are not positive, so `SpecMaxConcurrent`,
  `SpecFailureThreshold`, `SpecAttempts` and the like are any integers; callers are
  finitely many where they are counted;
- `LifecycleAssumption`, `SchedulerAssumption`, `ApplicationAssumption`: components
  are numbered in construction order, the tasks with a delay or without a valid
  schedule are tasks, two goroutines may stop the application;
- `ProxyAssumption`: annotations are those the generator knows;
- `HandlerAssumption`: no informational status is declared or carried by an error, and an advice handles
  an error by one of the two forms or not at all;
- `CliAssumption`: as in section 2, and goboot.yaml names existing plugins and
  versions;
- `ComponentAssumption`, `SourcesAssumption`: a declaration that becomes a component
  has an ID and its rank is even (proxies take the odd ones), and so has the type of
  every method; methods have names; declarations, their annotations, plugins and what
  these register are lists;
- `NumbersDiffer`, for `WiringSound` alone: decimal numerals of different numbers differ.

TLC evaluates all but the last, which is a hypothesis of its theorem and about every
string, on the instances of section 3.

Only model-checked:

- all liveness, since the prover does not handle fairness or ENABLED:
  `HalfOpenResolvesUnlessLost`, `OpenIsProbed`, `WaitEnds`, `EventuallyGranted`,
  `RunReturns`, `EventuallyFresh`, `Terminates`;
- `GrammarExact` and `SiblingsKept`: the parser is one recursion of lexer, values,
  lists and joined lines over positions, and to compare it with the grammar is an
  induction over texts with an invariant for each of them;
- `QueriesBound`, likewise for method names, SQL and placeholders: the translation is
  a recursion over the text of the statement, with numbers turned into texts, and
  the property speaks of texts in which a name is one symbol and none looks like a
  placeholder, which would be one more assumption about every statement;
- the first four findings, which are counterexamples.

## 6. Not modelled

Registries that cache breakers, bulkheads and limiters by name (a map under a
mutex); go/types and go/packages, and the removal of comment markers; the text
of generated code, including type names, literals and the scanning of rows; the
documents and reports that the bundled plugins compute; spelling suggestions and
positions in diagnostics; drivers, OIDC, Redis servers beyond what the adapters
see; float64 rounding; `init`, `plugins sync`, and the CLI commands that only
read; the editor extension. The component list in `PROJECT.json` gives the reason
for each.

## 7. Plan

Every safety property that a run checks is a theorem, but for the three about texts
named in section 5. What could be stated next:

- the numbering of placeholders: that the translation yields as many numbers as
  arguments, by the induction of `PipelineProofs`, once statements are assumed to be
  lists of symbols none of which is a placeholder;
- what survives in `ComponentLife` of a foreign Shutdown is that a component is started
  at most once and stopped only after it has started; that its stop hook is called at
  most once per stopping goroutine is not stated.
