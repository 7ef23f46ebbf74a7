---------------------------- MODULE ServiceProxy ----------------------------
(***************************************************************************)
(* The method bodies generator/di/proxy.go generates around a service, for *)
(* a read (@Cacheable Get) and a write (@CacheEvict Put) of one key, run   *)
(* by several goroutines against a shared cache and database:              *)
(*                                                                         *)
(*   cache lookup, then timeout, tracing, logging, audit, metrics around   *)
(*   bulkhead, breaker, rate limit, authorization around                   *)
(*   retry around transaction around the target, then cache update.        *)
(*                                                                         *)
(* The gates have modules of their own; here each one admits or rejects.   *)
(* The cache is runtime/cache.go's MemoryCache or adapters/redis, the      *)
(* transaction manager adapters/databasesql's (pgx's has the same shape).  *)
(* The key's data is its version, counted by the committed writes.         *)
(***************************************************************************)
EXTENDS Integers, Sequences

CONSTANTS
  Callers,       \* goroutines that call the proxy
  Advices,       \* the annotation sets considered: [{"Get", "Put"} -> SUBSET Advice]
  SpecAttempts,  \* @Retry(maxAttempts): below one is taken as one
  TTL,           \* @Cacheable(ttl) in ticks: zero means no expiry
  MaxPuts        \* bound: Put calls in a behaviour

\* @Timeout is in CancelCtx; the observers (@Traced, @Logged, @Audit, @Timed)
\* are always present.
Advice == {"cacheable", "cacheEvict", "bulkhead", "circuitBreaker", "rateLimit",
           "authorize", "retry", "transactional"}

ASSUME ProxyAssumption ==
  /\ Advices \subseteq [{"Get", "Put"} -> SUBSET Advice]
  /\ SpecAttempts \in Int /\ TTL \in Nat /\ MaxPuts \in Nat

MaxAttempts == IF SpecAttempts < 1 THEN 1 ELSE SpecAttempts

VARIABLES
  advice,   \* the annotations of each method, fixed
  delayed,  \* whether @Retry has a delay, fixed
  backend,  \* the cache in use, fixed: "memory" or "redis"
  db,       \* the committed version
  puts,     \* Put calls so far
  cache,    \* the entry: [version, left], or None
  pc,       \* where each call is
  method,   \* ... of which method
  gate,     \* ... the last gate it has passed, by its place in GateOrder
  attempt,  \* ... the attempt of Retry, from 0
  value,    \* ... the result r0, a version
  err,      \* ... the named result err
  ctxDone,  \* calls whose context is cancelled or timed out
  open,     \* calls that have begun a transaction and not ended it
  hist      \* what the properties compare with: see NoHistory

call == <<pc, method, gate, attempt, value, err>>
fixed == <<advice, delayed, backend>>
vars == <<fixed, db, puts, cache, call, ctxDone, open, hist>>

None == [version |-> -1, left |-> 0]

\* applied: the call's writes that became durable; lost: of these, the ones
\* whose commit reported an error; inner: commits of a nested transactional
\* service; entered: whether the target was; audits: AuditSink.Record
\* calls; out: how the call ended ("" while it runs).
NoHistory == [applied |-> 0, lost |-> 0, inner |-> 0, entered |-> FALSE,
              audits |-> <<>>, out |-> ""]

Init ==
  /\ advice \in Advices /\ delayed \in BOOLEAN /\ backend \in {"memory", "redis"}
  /\ db = 0 /\ puts = 0
  /\ cache = None
  /\ pc = [c \in Callers |-> "idle"]
  /\ method = [c \in Callers |-> "Get"]
  /\ gate = [c \in Callers |-> 0]
  /\ attempt = [c \in Callers |-> 0]
  /\ value = [c \in Callers |-> 0]
  /\ err = [c \in Callers |-> "nil"]
  /\ ctxDone = {} /\ open = {}
  /\ hist = [c \in Callers |-> NoHistory]

Has(c, a) == a \in advice[method[c]]

Goto(c, l) == pc' = [pc EXCEPT ![c] = l]

\* The locals of a call that ends.
Leave(c) ==
  /\ Goto(c, "returned")
  /\ gate' = [gate EXCEPT ![c] = 0]
  /\ attempt' = [attempt EXCEPT ![c] = 0]
  /\ ctxDone' = ctxDone \ {c}
  /\ UNCHANGED <<fixed, db, puts, cache, method, open>>

Fail(c, e) == err' = [err EXCEPT ![c] = e]

-----------------------------------------------------------------------------
(* Plausible bugs (the manifest's mutants).                                *)

\* The expired entry is deleted without the second look under the lock.
ExpireUnchecked(c) ==
  /\ pc[c] = "expire"
  /\ cache' = None
  /\ Goto(c, "gate")
  /\ UNCHANGED <<fixed, db, puts, method, gate, attempt, value, err, ctxDone, open, hist>>

\* MemoryCache.Get does not look at the expiry.
NeverExpired(e) == FALSE

\* The error of Commit is dropped: _ = tx.Commit(); return nil.
CommitErrorIgnored(c) ==
  /\ pc[c] = "commit"
  /\ \E durable \in {0, 1} :
       /\ db' = db + durable
       /\ hist' = [hist EXCEPT ![c].applied = @ + durable]
  /\ open' = open \ {c}
  /\ Goto(c, "attempted")
  /\ UNCHANGED <<fixed, puts, cache, method, gate, attempt, value, err, ctxDone>>

\* Retry wraps the gates instead of the transaction.
RetryThroughGates(c) ==
  /\ attempt' = [attempt EXCEPT ![c] = @ + 1]
  /\ gate' = [gate EXCEPT ![c] = 0]
  /\ Goto(c, "gate")

\* RecordFailure's early return skips an audit that is not deferred.
AuditAfterSuccess(c) ==
  hist' = [hist EXCEPT ![c].audits = IF err[c] = "nil" THEN Append(@, err[c]) ELSE @,
                       ![c].out = err[c]]

-----------------------------------------------------------------------------
(* The call and its cache lookup, before every other interceptor           *)

Call(c, m) ==
  /\ pc[c] \in {"idle", "returned"}
  /\ m = "Put" => puts < MaxPuts
  /\ puts' = puts + (IF m = "Put" THEN 1 ELSE 0)
  /\ method' = [method EXCEPT ![c] = m]
  /\ value' = [value EXCEPT ![c] = 0]
  /\ Fail(c, "nil")
  /\ Goto(c, IF "cacheable" \in advice[m] THEN "lookup" ELSE "gate")
  \* The end of the last call's context rolls back what a panic left open.
  /\ open' = open \ {c}
  /\ hist' = [hist EXCEPT ![c] = NoHistory]
  /\ UNCHANGED <<fixed, db, cache, gate, attempt, ctxDone>>

\* !c.now().Before(e.expires), for an entry that expires.
Expired(e) == TTL > 0 /\ e.left = 0

\* A hit returns at once.
Hit(c) ==
  /\ pc[c] = "lookup"
  /\ cache # None /\ ~Expired(cache)
  /\ value' = [value EXCEPT ![c] = cache.version]
  /\ hist' = [hist EXCEPT ![c].out = "hit"]
  /\ Leave(c)
  /\ UNCHANGED err

\* No entry; or Redis, whose errors are ignored, failed or dropped it.
Miss(c) ==
  /\ pc[c] = "lookup"
  /\ cache = None \/ backend = "redis"
  /\ Goto(c, "gate")
  /\ UNCHANGED <<fixed, db, puts, cache, method, gate, attempt, value, err, ctxDone, open, hist>>

\* MemoryCache.Get has read an expired entry and released the read lock.
SeesExpired(c) ==
  /\ pc[c] = "lookup" /\ backend = "memory"
  /\ cache # None /\ Expired(cache)
  /\ Goto(c, "expire")
  /\ UNCHANGED <<fixed, db, puts, cache, method, gate, attempt, value, err, ctxDone, open, hist>>

\* Under the write lock it deletes the entry only if it still has that expiry.
\* (Two entries that have both expired are not told apart.)
Expire(c) ==
  /\ pc[c] = "expire"
  /\ cache' = IF cache # None /\ Expired(cache) THEN None ELSE cache
  /\ Goto(c, "gate")
  /\ UNCHANGED <<fixed, db, puts, method, gate, attempt, value, err, ctxDone, open, hist>>

-----------------------------------------------------------------------------
(* The gates, outermost first                                              *)

GateOrder == <<"bulkhead", "circuitBreaker", "rateLimit", "authorize">>

\* The next gate the method's annotations put before its target, if any.
NextGate(c) ==
  {i \in DOMAIN GateOrder :
     /\ i > gate[c] /\ Has(c, GateOrder[i])
     /\ \A j \in (gate[c] + 1)..(i - 1) : ~Has(c, GateOrder[j])}

Admit(c) ==
  /\ pc[c] = "gate"
  /\ \/ \E i \in NextGate(c) : gate' = [gate EXCEPT ![c] = i] /\ UNCHANGED pc
     \/ NextGate(c) = {} /\ Goto(c, "attempt") /\ UNCHANGED gate
  /\ UNCHANGED <<fixed, db, puts, cache, method, attempt, value, err, ctxDone, open, hist>>

\* ErrBulkheadFull, ErrCircuitOpen, ErrRateLimited or an authorization error.
Rejected(c) ==
  /\ pc[c] = "gate"
  /\ \E i \in NextGate(c) : Fail(c, GateOrder[i])
  /\ Goto(c, "record")
  /\ UNCHANGED <<fixed, db, puts, cache, method, gate, attempt, value, ctxDone, open, hist>>

-----------------------------------------------------------------------------
(* One attempt: WithinTransaction around the target                        *)

Enter(c) ==
  /\ Goto(c, "target")
  /\ hist' = [hist EXCEPT ![c].entered = TRUE]

Begin(c) ==
  /\ pc[c] = "attempt"
  /\ IF Has(c, "transactional")
     THEN c \notin ctxDone /\ open' = open \cup {c}
     ELSE UNCHANGED open
  /\ Enter(c)
  /\ UNCHANGED <<fixed, db, puts, cache, method, gate, attempt, value, err, ctxDone>>

BeginFails(c) ==
  /\ pc[c] = "attempt" /\ Has(c, "transactional")
  /\ Fail(c, "failed") /\ Goto(c, "attempted")
  /\ UNCHANGED <<fixed, db, puts, cache, method, gate, attempt, value, ctxDone, open, hist>>

\* The target reads the committed version ...
Read(c) ==
  /\ pc[c] = "target" /\ method[c] = "Get"
  /\ value' = [value EXCEPT ![c] = db]
  /\ Goto(c, "worked")
  /\ UNCHANGED <<fixed, db, puts, cache, method, gate, attempt, err, ctxDone, open, hist>>

\* ... or writes: into the transaction its context carries, if there is one.
Write(c) ==
  /\ pc[c] = "target" /\ method[c] = "Put"
  /\ IF c \in open THEN UNCHANGED <<db, hist>>
     ELSE db' = db + 1 /\ hist' = [hist EXCEPT ![c].applied = @ + 1]
  /\ Goto(c, "worked")
  /\ UNCHANGED <<fixed, puts, cache, method, gate, attempt, value, err, ctxDone, open>>

\* Inside a transaction the target calls another @Transactional service, whose
\* manager begins a transaction of its own, whatever the context carries.
CallInner(c) ==
  /\ pc[c] = "worked" /\ method[c] = "Put" /\ c \in open
  /\ Goto(c, "inner")
  /\ UNCHANGED <<fixed, db, puts, cache, method, gate, attempt, value, err, ctxDone, open, hist>>

InnerReturns(c) ==
  /\ pc[c] = "inner"
  /\ \E committed \in {0, 1} : hist' = [hist EXCEPT ![c].inner = @ + committed]
  /\ Goto(c, "called")
  /\ UNCHANGED <<fixed, db, puts, cache, method, gate, attempt, value, err, ctxDone, open>>

\* What WithinTransaction does with the callback's error.
CommitOrRollback(c) ==
  IF Has(c, "transactional") /\ err'[c] = "nil" THEN Goto(c, "commit")
  ELSE Goto(c, "attempted")

TargetReturns(c) ==
  /\ pc[c] \in {"worked", "called"}
  /\ Fail(c, "nil") \/ Fail(c, "failed")
  /\ CommitOrRollback(c)
  /\ open' = IF pc'[c] = "commit" THEN open ELSE open \ {c}
  /\ UNCHANGED <<fixed, db, puts, cache, method, gate, attempt, value, ctxDone, hist>>

\* Commit: durable and acknowledged; failed; or durable with the answer lost.
Commit(c) ==
  /\ pc[c] = "commit"
  /\ \E durable, acked \in BOOLEAN :
       /\ acked => durable /\ c \notin ctxDone
       /\ Fail(c, IF acked THEN "nil" ELSE "failed")
       /\ IF durable /\ method[c] = "Put"
          THEN /\ db' = db + 1
               /\ hist' = [hist EXCEPT ![c].applied = @ + 1,
                                       ![c].lost = IF acked THEN @ ELSE @ + 1]
          ELSE UNCHANGED <<db, hist>>
  /\ open' = open \ {c}
  /\ Goto(c, "attempted")
  /\ UNCHANGED <<fixed, puts, cache, method, gate, attempt, value, ctxDone>>

-----------------------------------------------------------------------------
(* Retry                                                                   *)

MayRetry(c) == Has(c, "retry") /\ attempt[c] < MaxAttempts - 1

NextAttempt(c) ==
  /\ attempt' = [attempt EXCEPT ![c] = @ + 1]
  /\ Goto(c, "attempt")
  /\ UNCHANGED gate

\* The attempt's error decides; with a delay, select may take the timer
\* although the context is done too.
Again(c) ==
  /\ pc[c] = "attempted"
  /\ err[c] # "nil" /\ MayRetry(c)
  /\ delayed \/ c \notin ctxDone
  /\ NextAttempt(c)
  /\ UNCHANGED <<fixed, db, puts, cache, method, value, err, ctxDone, open, hist>>

GiveUp(c) ==
  /\ pc[c] = "attempted"
  /\ err[c] # "nil" /\ MayRetry(c) /\ c \in ctxDone
  /\ Fail(c, "ctx") /\ Goto(c, "record")
  /\ UNCHANGED <<fixed, db, puts, cache, method, gate, attempt, value, ctxDone, open, hist>>

RetryReturns(c) ==
  /\ pc[c] = "attempted"
  /\ err[c] = "nil" \/ ~MayRetry(c)
  /\ Goto(c, "record")
  /\ UNCHANGED <<fixed, db, puts, cache, method, gate, attempt, value, err, ctxDone, open, hist>>

-----------------------------------------------------------------------------
(* After the call: metrics, cache update, deferred observers               *)

CacheUpdate(c) ==
  IF Has(c, "cacheable") THEN "store" ELSE IF Has(c, "cacheEvict") THEN "evict" ELSE "defers"

\* RecordFailure returns from the method; the cache is updated on success only.
Record(c) ==
  /\ pc[c] = "record"
  /\ Goto(c, IF err[c] = "nil" THEN CacheUpdate(c) ELSE "defers")
  /\ UNCHANGED <<fixed, db, puts, cache, method, gate, attempt, value, err, ctxDone, open, hist>>

Set(c) == cache' = [version |-> value[c], left |-> TTL]

AfterStore(c) == Goto(c, IF Has(c, "cacheEvict") THEN "evict" ELSE "defers")

Store(c) ==
  /\ pc[c] = "store"
  /\ Set(c) \/ (backend = "redis" /\ UNCHANGED cache)
  /\ AfterStore(c)
  /\ UNCHANGED <<fixed, db, puts, method, gate, attempt, value, err, ctxDone, open, hist>>

Evict(c) ==
  /\ pc[c] = "evict"
  /\ cache' = None \/ (backend = "redis" /\ UNCHANGED cache)
  /\ Goto(c, "defers")
  /\ UNCHANGED <<fixed, db, puts, method, gate, attempt, value, err, ctxDone, open, hist>>

\* span.End, logDone and audit.Record all get the named result err.
Observe(c) ==
  hist' = [hist EXCEPT ![c].audits = Append(@, err[c]), ![c].out = err[c]]

Return(c) ==
  /\ pc[c] = "defers"
  /\ Observe(c)
  /\ Leave(c)
  /\ UNCHANGED <<value, err>>

\* The target panics: nothing between it and the deferred calls recovers, so
\* the transaction is neither committed nor rolled back, and err is still nil.
Panic(c) ==
  /\ pc[c] \in {"target", "worked", "inner", "called"}
  /\ Fail(c, "nil")
  /\ hist' = [hist EXCEPT ![c].audits = Append(@, "nil"), ![c].out = "panic"]
  /\ Leave(c)
  /\ UNCHANGED value

-----------------------------------------------------------------------------

\* @Timeout's deadline, or the caller's own cancellation.
CancelCtx(c) ==
  /\ pc[c] \notin {"idle", "returned"} /\ c \notin ctxDone
  /\ ctxDone' = ctxDone \cup {c}
  /\ UNCHANGED <<fixed, db, puts, cache, call, open, hist>>

Tick ==
  /\ cache # None /\ cache.left > 0
  /\ cache' = IF backend = "redis" /\ cache.left = 1 THEN None
              ELSE [cache EXCEPT !.left = @ - 1]
  /\ UNCHANGED <<fixed, db, puts, call, ctxDone, open, hist>>

Step(c) ==
  \/ Hit(c) \/ Miss(c) \/ SeesExpired(c) \/ Expire(c)
  \/ Admit(c) \/ Rejected(c)
  \/ Begin(c) \/ BeginFails(c) \/ Read(c) \/ Write(c) \/ InnerReturns(c)
  \/ TargetReturns(c) \/ Commit(c)
  \/ Again(c) \/ GiveUp(c) \/ RetryReturns(c)
  \/ Record(c) \/ Store(c) \/ Evict(c) \/ Return(c)

Next ==
  \/ \E c \in Callers :
       \/ \E m \in {"Get", "Put"} : Call(c, m)
       \/ Step(c) \/ CallInner(c) \/ Panic(c) \/ CancelCtx(c)
  \/ Tick

Spec == Init /\ [][Next]_vars

\* A call that has been made goes on, its target and database answer, and time
\* passes; nobody need call.
FairSpec == Spec /\ (\A c \in Callers : WF_vars(Step(c))) /\ WF_vars(Tick)

-----------------------------------------------------------------------------
(* Properties                                                              *)

\* No entry or value is newer than the row, no call is retried more often than
\* its attempts allow, and none is audited twice.
TypeOK ==
  /\ advice \in Advices /\ delayed \in BOOLEAN /\ backend \in {"memory", "redis"}
  /\ db \in Nat /\ puts \in 0..MaxPuts
  /\ cache = None \/ (cache.version \in 0..db /\ cache.left \in 0..TTL)
  /\ \A c \in Callers :
       /\ value[c] \in 0..db
       /\ gate[c] \in 0..Len(GateOrder)
       /\ attempt[c] \in 0..(MaxAttempts - 1)
       /\ Len(hist[c].audits) <= 1
  /\ ctxDone \subseteq Callers /\ open \subseteq Callers

Returned(c) == pc[c] = "returned"

\* "A non-nil error rolls the transaction back; nil commits", through retries,
\* timeouts and failed commits: a transactional write that returns nil took
\* effect exactly once and one that returns an error not at all, except for
\* commits whose acknowledgement was lost; and no transaction is left open,
\* except by a panic.
SettledOnce ==
  \A c \in Callers : Returned(c) /\ method[c] = "Put" /\ Has(c, "transactional") =>
    /\ hist[c].applied = hist[c].lost + (IF hist[c].out = "nil" THEN 1 ELSE 0)
    /\ c \in open => hist[c].out = "panic"

\* A call that a gate rejects has not touched its target: gates are outside of
\* Retry, and one call asks each of them once however often it is retried.
RejectedUntouched ==
  \A c \in Callers :
    Returned(c) /\ hist[c].out \in {"bulkhead", "circuitBreaker", "rateLimit", "authorize"}
      => ~hist[c].entered /\ hist[c].applied = 0

\* The audit trail has one record per call that was not answered from the
\* cache, and the record's outcome is the one the caller got, whichever way
\* the method returned; a panic is the exception.
AuditTruthful ==
  \A c \in Callers : Returned(c) /\ hist[c].out # "panic" =>
    hist[c].audits = IF hist[c].out = "hit" THEN <<>> ELSE <<hist[c].out>>

\* Expiry never removes an entry that a concurrent Set has just refreshed.
FreshEntryKept ==
  [][\A c \in Callers :
       pc[c] = "expire" /\ pc'[c] # "expire" /\ cache # None /\ ~Expired(cache)
         => cache' = cache]_vars

Stale == cache # None /\ ~Expired(cache) /\ cache.version # db

\* Evictions are lost (errors are ignored, a failed call does not evict, a slow
\* reader stores what it read before the write); with a TTL the cache still
\* agrees with the database in the end, once the writes stop.
EventuallyFresh == <>[]~Stale

\* "PropagationRequired joins the current transaction or starts a new one": a
\* nested transactional call is undone with the transaction around it.
JoinsCurrent ==
  \A c \in Callers :
    Returned(c) /\ hist[c].out = "failed" /\ hist[c].lost = 0 => hist[c].inner = 0

=============================================================================
