------------------------- MODULE ServiceProxyProofs -------------------------
(***************************************************************************)
(* The generated method for every number of goroutines, every annotation   *)
(* of the two methods, every retry count and TTL: what the caller is told  *)
(* is what happened.                                                       *)
(***************************************************************************)
EXTENDS ServiceProxy, SequenceTheorems, TLAPS

Rejections == {"bulkhead", "circuitBreaker", "rateLimit", "authorize"}
Errors == {"nil", "failed", "ctx"} \cup Rejections

Trails == Seq(Errors)
Histories == [applied : Nat, lost : Nat, inner : Nat, entered : BOOLEAN,
              audits : Trails, out : Errors \cup {"", "hit", "panic"}]

\* Where a call can be: before the gates have admitted it, inside an attempt,
\* past its attempts.
Before == {"lookup", "expire", "gate"}
Inside == {"target", "worked", "inner", "called", "commit"}
After == {"attempted", "record", "store", "evict", "defers"}

ShapeInv ==
  /\ advice \in Advices /\ delayed \in BOOLEAN /\ backend \in {"memory", "redis"}
  /\ db \in Nat /\ puts \in 0..MaxPuts
  /\ cache \in {None} \cup [version : 0..db, left : 0..TTL]
  /\ pc \in [Callers -> {"idle", "attempt", "returned"} \cup Before \cup Inside \cup After]
  /\ method \in [Callers -> {"Get", "Put"}]
  /\ gate \in [Callers -> 0..Len(GateOrder)]
  /\ attempt \in [Callers -> 0..(MaxAttempts - 1)]
  /\ value \in [Callers -> 0..db]
  /\ err \in [Callers -> Errors]
  /\ hist \in [Callers -> Histories]
  /\ ctxDone \subseteq Callers /\ open \subseteq Callers

\* A call has a transaction open exactly inside an attempt of a transactional
\* method - or for good, when the target panicked.
OpenInv(c) ==
  /\ c \in open =>
       \/ pc[c] \in Inside /\ Has(c, "transactional")
       \/ pc[c] = "returned" /\ hist[c].out = "panic"
  /\ pc[c] \in Inside /\ Has(c, "transactional") => c \in open
  /\ pc[c] = "commit" => Has(c, "transactional")

\* A rejection is the error of a call that has done nothing.
RejectInv(c) ==
  /\ pc[c] \in Before =>
       err[c] = "nil" /\ ~hist[c].entered /\ hist[c].applied = 0 /\ hist[c].lost = 0
  /\ err[c] \in Rejections =>
       pc[c] \in {"record", "defers", "returned"} /\ ~hist[c].entered /\ hist[c].applied = 0
  /\ pc[c] = "returned" /\ hist[c].out \in Rejections =>
       ~hist[c].entered /\ hist[c].applied = 0

\* During an attempt the effects are those of the lost commits; past it, err
\* tells whether the attempt's own is one of them.
SettleInv(c) == method[c] = "Put" /\ Has(c, "transactional") =>
  /\ pc[c] \in Before \cup Inside \cup {"attempt"} => hist[c].applied = hist[c].lost
  /\ pc[c] \in After =>
       hist[c].applied = hist[c].lost + (IF err[c] = "nil" THEN 1 ELSE 0)
  /\ pc[c] = "returned" =>
       hist[c].applied = hist[c].lost + (IF hist[c].out = "nil" THEN 1 ELSE 0)

\* The audit record is written as the method returns, and not before.
AuditInv(c) ==
  /\ pc[c] # "returned" => hist[c].audits = <<>>
  /\ hist[c].audits = <<>> \/ \E e \in Errors : hist[c].audits = <<e>>
  /\ pc[c] = "returned" /\ hist[c].out # "panic" =>
       hist[c].audits = IF hist[c].out = "hit" THEN <<>> ELSE <<hist[c].out>>

CallInv(c) == OpenInv(c) /\ RejectInv(c) /\ SettleInv(c) /\ AuditInv(c)

IInv == ShapeInv /\ \A c \in Callers : CallInv(c)

-----------------------------------------------------------------------------
LEMMA AttemptsPositive == MaxAttempts \in Nat \ {0}
BY ProxyAssumption DEF MaxAttempts

LEMMA Gates == Len(GateOrder) = 4 /\ \A i \in DOMAIN GateOrder : i \in 1..4 /\ GateOrder[i] \in Rejections
BY DEF GateOrder, Rejections

\* The history of a call that has not begun to act.
LEMMA FreshHistory ==
  /\ NoHistory \in Histories
  /\ NoHistory.applied = 0 /\ NoHistory.lost = 0 /\ ~NoHistory.entered
  /\ NoHistory.audits = <<>> /\ NoHistory.out = ""
<1>1. <<>> \in Trails
  BY EmptySeq DEF Trails
<1>2. NoHistory.audits = <<>>
  BY DEF NoHistory
<1>3. NoHistory \in Histories
  BY <1>1 DEF NoHistory, Histories
<1>4. QED
  BY <1>1, <1>2, <1>3 DEF NoHistory

LEMMA InitIInv == Init => IInv
<1> SUFFICES ASSUME Init PROVE IInv
  OBVIOUS
<1>1. ShapeInv
  <2>1. puts \in 0..MaxPuts
    BY ProxyAssumption DEF Init
  <2>2. attempt \in [Callers -> 0..(MaxAttempts - 1)]
    BY AttemptsPositive DEF Init
  <2>3. gate \in [Callers -> 0..Len(GateOrder)]
    BY Gates DEF Init
  <2>4. err \in [Callers -> Errors]
    BY DEF Init, Errors
  <2>5. hist \in [Callers -> Histories]
    BY FreshHistory DEF Init
  <2>6. QED
    BY <2>1, <2>2, <2>3, <2>4, <2>5 DEF Init, ShapeInv
<1>2. ASSUME NEW c \in Callers
      PROVE  CallInv(c)
  <2>1. pc[c] = "idle" /\ hist[c] = NoHistory /\ err[c] = "nil" /\ c \notin open
    BY DEF Init
  <2>2. OpenInv(c) /\ SettleInv(c)
    BY <2>1 DEF OpenInv, SettleInv, Before, Inside, After
  <2>3. RejectInv(c)
    BY <2>1 DEF RejectInv, Rejections, Before
  <2>4. AuditInv(c)
    BY <2>1, FreshHistory DEF AuditInv
  <2>5. QED
    BY <2>2, <2>3, <2>4 DEF CallInv
<1>3. QED
  BY <1>1, <1>2 DEF IInv

-----------------------------------------------------------------------------
(* ShapeInv                                                                *)

LEMMA ErrorNames == {"nil", "failed", "ctx"} \cup Rejections \subseteq Errors
BY DEF Errors

\* One field of one history at a time.
LEMMA HistoryStep ==
  ASSUME hist \in [Callers -> Histories], err \in [Callers -> Errors], NEW c \in Callers,
         Step(c) \/ CallInner(c) \/ Panic(c) \/ CancelCtx(c)
  PROVE  hist' \in [Callers -> Histories]
<1>1. Append(hist[c].audits, err[c]) \in Trails /\ Append(hist[c].audits, "nil") \in Trails
  <2>1. hist[c].audits \in Seq(Errors) /\ err[c] \in Errors /\ "nil" \in Errors
    BY ErrorNames DEF Histories, Trails
  <2>2. QED
    BY <2>1, AppendProperties DEF Trails
<1>0. hist[c].applied \in Nat /\ hist[c].lost \in Nat /\ hist[c].inner \in Nat
  BY DEF Histories
<1>2. CASE Hit(c)
  BY <1>2 DEF Hit, Histories
<1>3. CASE Begin(c)
  BY <1>3 DEF Begin, Enter, Histories
<1>4. CASE Write(c)
  <2>1. hist[c].applied + 1 \in Nat
    BY <1>0
  <2>2. hist' = hist \/ hist' = [hist EXCEPT ![c].applied = hist[c].applied + 1]
    BY <1>4 DEF Write
  <2>3. QED
    BY <2>1, <2>2 DEF Histories
<1>5. CASE InnerReturns(c)
  <2>1. \A n \in {0, 1} : hist[c].inner + n \in Nat
    BY <1>0
  <2>2. \E n \in {0, 1} : hist' = [hist EXCEPT ![c].inner = hist[c].inner + n]
    BY <1>5 DEF InnerReturns
  <2>3. QED
    BY <2>1, <2>2 DEF Histories
<1>6. CASE Commit(c)
  <2>1. hist[c].applied + 1 \in Nat /\ hist[c].lost \in Nat /\ hist[c].lost + 1 \in Nat
    BY <1>0
  <2>2. \/ hist' = hist
        \/ \E n \in {hist[c].lost, hist[c].lost + 1} :
             hist' = [hist EXCEPT ![c].applied = hist[c].applied + 1, ![c].lost = n]
    BY <1>6 DEF Commit
  <2>3. ASSUME NEW n \in Nat,
               hist' = [hist EXCEPT ![c].applied = hist[c].applied + 1, ![c].lost = n]
        PROVE  hist' \in [Callers -> Histories]
    BY <2>1, <2>3 DEF Histories
  <2>4. QED
    BY <2>1, <2>2, <2>3
<1>7. CASE Return(c)
  BY <1>7, <1>1 DEF Return, Observe, Histories
<1>8. CASE Panic(c)
  BY <1>8, <1>1, ErrorNames DEF Panic, Histories
<1>9. CASE hist' = hist
  BY <1>9
<1>10. QED
  BY <1>2, <1>3, <1>4, <1>5, <1>6, <1>7, <1>8, <1>9
     DEF Step, Miss, SeesExpired, Expire, Admit, Rejected, BeginFails, Read, CallInner,
         TargetReturns, Again, GiveUp, RetryReturns, Record, Store, Evict, CancelCtx

LEMMA ShapeStep ==
  ASSUME ShapeInv, NEW c \in Callers, Step(c) \/ CallInner(c) \/ Panic(c) \/ CancelCtx(c)
  PROVE  ShapeInv'
<1> USE ProxyAssumption, AttemptsPositive, Gates, ErrorNames
    DEF ShapeInv, fixed, Before, Inside, After
<1>1. CASE Hit(c)
  <2>1. hist' \in [Callers -> Histories]
    BY <1>1, HistoryStep DEF Step
  <2>2. value' = [value EXCEPT ![c] = cache.version] /\ cache.version \in 0..db
    BY <1>1 DEF Hit
  <2>3. Leave(c) /\ err' = err
    BY <1>1 DEF Hit
  <2>4. QED
    BY <2>1, <2>2, <2>3 DEF Leave, Goto
<1>2. CASE Miss(c)
  BY <1>2 DEF Miss, Goto
<1>3. CASE SeesExpired(c)
  BY <1>3 DEF SeesExpired, Goto
<1>4. CASE Expire(c)
  BY <1>4 DEF Expire, Goto
<1>5. CASE Admit(c)
  <2>1. gate' \in [Callers -> 0..Len(GateOrder)]
    BY <1>5 DEF Admit, NextGate
  <2>2. QED
    BY <1>5, <2>1 DEF Admit, Goto
<1>6. CASE Rejected(c)
  BY <1>6 DEF Rejected, Goto, Fail, NextGate
<1>7. CASE Begin(c)
  <2>1. hist' \in [Callers -> Histories]
    BY <1>7, HistoryStep DEF Step
  <2>2. /\ open' \subseteq Callers /\ Goto(c, "target")
        /\ UNCHANGED <<fixed, db, puts, cache, method, gate, attempt, value, err, ctxDone>>
    BY <1>7 DEF Begin, Enter
  <2>3. QED
    BY <2>1, <2>2 DEF Goto
<1>8. CASE BeginFails(c)
  BY <1>8 DEF BeginFails, Fail, Goto
<1>9. CASE Read(c)
  <2>1. value' \in [Callers -> 0..db']
    BY <1>9 DEF Read
  <2>2. QED
    BY <1>9, <2>1 DEF Read, Goto
<1>10. CASE Write(c)
  BY <1>10, HistoryStep DEF Write, Goto
<1>11. CASE CallInner(c)
  BY <1>11 DEF CallInner, Goto
<1>12. CASE InnerReturns(c)
  BY <1>12, HistoryStep DEF InnerReturns, Goto
<1>13. CASE TargetReturns(c)
  BY <1>13 DEF TargetReturns, Fail, CommitOrRollback, Goto
<1>14. CASE Commit(c)
  BY <1>14, HistoryStep DEF Commit, Fail, Goto
<1>15. CASE Again(c)
  <2>1. attempt' \in [Callers -> 0..(MaxAttempts - 1)]
    BY <1>15 DEF Again, NextAttempt, MayRetry
  <2>2. QED
    BY <1>15, <2>1 DEF Again, NextAttempt, Goto
<1>16. CASE GiveUp(c)
  BY <1>16 DEF GiveUp, Fail, Goto
<1>17. CASE RetryReturns(c)
  BY <1>17 DEF RetryReturns, Goto
<1>18. CASE Record(c)
  BY <1>18 DEF Record, CacheUpdate, Goto
<1>19. CASE Store(c)
  <2>1. cache' \in {None} \cup [version : 0..db, left : 0..TTL]
    BY <1>19 DEF Store, Set
  <2>2. QED
    BY <1>19, <2>1 DEF Store, AfterStore, Goto
<1>20. CASE Evict(c)
  BY <1>20 DEF Evict, Goto
<1>21. CASE Return(c)
  BY <1>21, HistoryStep DEF Return, Leave, Goto
<1>22. CASE Panic(c)
  <2>1. hist' \in [Callers -> Histories]
    BY <1>22, HistoryStep DEF Step
  <2>2. Leave(c) /\ Fail(c, "nil") /\ value' = value
    BY <1>22 DEF Panic
  <2>3. QED
    BY <2>1, <2>2 DEF Leave, Fail, Goto
<1>23. CASE CancelCtx(c)
  BY <1>23 DEF CancelCtx, call
<1>24. QED
  BY <1>1, <1>2, <1>3, <1>4, <1>5, <1>6, <1>7, <1>8, <1>9, <1>10, <1>11, <1>12, <1>13, <1>14, <1>15, <1>16, <1>17, <1>18, <1>19, <1>20, <1>21, <1>22, <1>23 DEF Step

LEMMA ShapeCall ==
  ASSUME ShapeInv, NEW c \in Callers, NEW m \in {"Get", "Put"}, Call(c, m)
  PROVE  ShapeInv'
<1>1. hist' \in [Callers -> Histories]
  BY FreshHistory DEF ShapeInv, Call
<1>2. puts' \in 0..MaxPuts
  BY ProxyAssumption DEF ShapeInv, Call
<1>3. QED
  BY <1>1, <1>2, ErrorNames DEF ShapeInv, Call, Fail, Goto, fixed, Before

LEMMA ShapeTick ==
  ASSUME ShapeInv, Tick
  PROVE  ShapeInv'
<1>1. cache' \in {None} \cup [version : 0..db, left : 0..TTL]
  BY ProxyAssumption DEF ShapeInv, Tick
<1>2. QED
  BY <1>1 DEF ShapeInv, Tick, fixed, call

\* A step of one call leaves the others alone.
LEMMA OthersUnmoved ==
  ASSUME ShapeInv, NEW c \in Callers,
         \/ Step(c) \/ CallInner(c) \/ Panic(c) \/ CancelCtx(c)
         \/ \E m \in {"Get", "Put"} : Call(c, m),
         NEW d \in Callers, d # c
  PROVE  /\ pc'[d] = pc[d] /\ method'[d] = method[d] /\ err'[d] = err[d] /\ hist'[d] = hist[d]
         /\ d \in open' <=> d \in open
         /\ advice' = advice
<1> USE DEF ShapeInv, fixed, Goto, Fail, Leave, Enter, CommitOrRollback, NextAttempt, AfterStore,
            Observe, Set, call
<1>1. CASE \/ \E m \in {"Get", "Put"} : Call(c, m)
           \/ Hit(c) \/ Miss(c) \/ SeesExpired(c) \/ Expire(c)
  BY <1>1 DEF Call, Hit, Miss, SeesExpired, Expire
<1>2. CASE Admit(c) \/ Rejected(c) \/ Begin(c) \/ BeginFails(c) \/ Read(c) \/ Write(c)
  BY <1>2 DEF Admit, Rejected, Begin, BeginFails, Read, Write
<1>3. CASE CallInner(c) \/ InnerReturns(c) \/ TargetReturns(c) \/ Commit(c)
  BY <1>3 DEF CallInner, InnerReturns, TargetReturns, Commit
<1>4. CASE Again(c) \/ GiveUp(c) \/ RetryReturns(c) \/ Record(c) \/ Store(c) \/ Evict(c)
  BY <1>4 DEF Again, GiveUp, RetryReturns, Record, Store, Evict
<1>5. CASE Return(c) \/ Panic(c) \/ CancelCtx(c)
  BY <1>5 DEF Return, Panic, CancelCtx
<1>6. QED
  BY <1>1, <1>2, <1>3, <1>4, <1>5 DEF Step

-----------------------------------------------------------------------------
(* What a step does to its own call.                                       *)

SameEffects(c) ==
  /\ hist'[c].applied = hist[c].applied /\ hist'[c].lost = hist[c].lost
  /\ hist'[c].entered = hist[c].entered
SameTrail(c) == hist'[c].audits = hist[c].audits /\ hist'[c].out = hist[c].out
SameOpen(c) == c \in open' <=> c \in open

Lookup(c) ==
  /\ pc[c] \in Before /\ pc'[c] \in Before \cup {"attempt"}
  /\ err'[c] = err[c] /\ hist'[c] = hist[c] /\ SameOpen(c)

Answered(c) ==
  /\ pc[c] \in Before /\ pc'[c] = "returned" /\ hist'[c].out = "hit"
  /\ err'[c] = err[c] /\ SameEffects(c) /\ hist'[c].audits = hist[c].audits /\ SameOpen(c)

TurnedAway(c) ==
  /\ pc[c] \in Before /\ pc'[c] = "record"
  /\ err'[c] \in Rejections /\ hist'[c] = hist[c] /\ SameOpen(c)

Entered(c) ==
  /\ pc[c] = "attempt" /\ pc'[c] = "target"
  /\ hist'[c].applied = hist[c].applied /\ hist'[c].lost = hist[c].lost
  /\ SameTrail(c) /\ err'[c] = err[c]
  /\ c \in open' <=> c \in open \/ Has(c, "transactional")

NotBegun(c) ==
  /\ pc[c] = "attempt" /\ pc'[c] = "attempted" /\ err'[c] = "failed"
  /\ hist'[c] = hist[c] /\ SameOpen(c)

Working(c) ==
  /\ pc[c] \in {"target", "worked", "inner"} /\ pc'[c] \in {"worked", "inner", "called"}
  /\ c \in open => hist'[c].applied = hist[c].applied
  /\ hist'[c].lost = hist[c].lost /\ hist'[c].entered = hist[c].entered
  /\ SameTrail(c) /\ err'[c] = err[c] /\ SameOpen(c)

Finished(c) ==
  /\ pc[c] \in {"worked", "called"} /\ err'[c] \in {"nil", "failed"} /\ hist'[c] = hist[c]
  /\ IF Has(c, "transactional") /\ err'[c] = "nil"
     THEN pc'[c] = "commit" /\ SameOpen(c)
     ELSE pc'[c] = "attempted" /\ c \notin open'

Committed(c) ==
  /\ pc[c] = "commit" /\ pc'[c] = "attempted" /\ c \notin open'
  /\ SameTrail(c) /\ err'[c] \in {"nil", "failed"}
  /\ method[c] = "Put" =>
       \/ err'[c] = "nil" /\ hist'[c].applied = hist[c].applied + 1 /\ hist'[c].lost = hist[c].lost
       \/ /\ err'[c] = "failed"
          /\ \/ hist'[c].applied = hist[c].applied + 1 /\ hist'[c].lost = hist[c].lost + 1
             \/ hist'[c].applied = hist[c].applied /\ hist'[c].lost = hist[c].lost

Retried(c) ==
  /\ pc[c] = "attempted" /\ err[c] # "nil"
  /\ \/ pc'[c] = "attempt" /\ err'[c] = err[c]
     \/ pc'[c] = "record" /\ err'[c] = "ctx"
  /\ hist'[c] = hist[c] /\ SameOpen(c)

Leaving(c) ==
  /\ pc[c] \in After \ {"defers"} /\ pc'[c] \in After \ {"attempted"}
  /\ pc[c] = "record" /\ err[c] # "nil" => pc'[c] = "defers"
  /\ err'[c] = err[c] /\ hist'[c] = hist[c] /\ SameOpen(c)

Observed(c) ==
  /\ pc[c] = "defers" /\ pc'[c] = "returned"
  /\ hist'[c].audits = Append(hist[c].audits, err[c]) /\ hist'[c].out = err[c]
  /\ SameEffects(c) /\ err'[c] = err[c] /\ SameOpen(c)

Panicked(c) ==
  /\ pc[c] \in Inside \ {"commit"} /\ pc'[c] = "returned"
  /\ hist'[c].audits = Append(hist[c].audits, "nil") /\ hist'[c].out = "panic"
  /\ SameEffects(c) /\ err'[c] = "nil" /\ SameOpen(c)

Untouched(c) == pc'[c] = pc[c] /\ err'[c] = err[c] /\ hist'[c] = hist[c] /\ SameOpen(c)

LEMMA Effect ==
  ASSUME ShapeInv, NEW c \in Callers, Step(c) \/ CallInner(c) \/ Panic(c) \/ CancelCtx(c)
  PROVE  /\ advice' = advice /\ method' = method
         /\ \/ Lookup(c) \/ Answered(c) \/ TurnedAway(c) \/ Entered(c) \/ NotBegun(c)
            \/ Working(c) \/ Finished(c) \/ Committed(c) \/ Retried(c) \/ Leaving(c)
            \/ Observed(c) \/ Panicked(c) \/ Untouched(c)
<1>1. /\ hist \in [Callers -> Histories] /\ c \in DOMAIN pc /\ c \in DOMAIN err
      /\ hist[c].applied \in Nat /\ hist[c].lost \in Nat
  BY DEF ShapeInv, Histories
<1> USE <1>1 DEF fixed, Goto, Fail, SameEffects, SameTrail, SameOpen
<1>2. CASE Hit(c)
  BY <1>2 DEF Hit, Leave, Answered, Before, Histories
<1>3. CASE Miss(c) \/ SeesExpired(c) \/ Expire(c) \/ Admit(c)
  BY <1>3 DEF Miss, SeesExpired, Expire, Admit, Lookup, Before
<1>4. CASE Rejected(c)
  BY <1>4, Gates DEF Rejected, NextGate, TurnedAway, Before
<1>5. CASE Begin(c)
  BY <1>5 DEF Begin, Enter, Entered, Histories
<1>6. CASE BeginFails(c)
  BY <1>6 DEF BeginFails, NotBegun
<1>7. CASE Read(c) \/ CallInner(c)
  BY <1>7 DEF Read, CallInner, Working
<1>8. CASE Write(c)
  BY <1>8 DEF Write, Working, Histories
<1>9. CASE InnerReturns(c)
  BY <1>9 DEF InnerReturns, Working, Histories
<1>10. CASE TargetReturns(c)
  BY <1>10 DEF TargetReturns, CommitOrRollback, Finished
<1>11. CASE Commit(c)
  <2>1. PICK durable, acked \in BOOLEAN :
          /\ acked => durable
          /\ Fail(c, IF acked THEN "nil" ELSE "failed")
          /\ IF durable /\ method[c] = "Put"
             THEN hist' = [hist EXCEPT ![c].applied = hist[c].applied + 1,
                                       ![c].lost = IF acked THEN hist[c].lost ELSE hist[c].lost + 1]
             ELSE hist' = hist
    BY <1>11 DEF Commit
  <2>2. /\ pc[c] = "commit" /\ pc'[c] = "attempted" /\ c \notin open'
        /\ advice' = advice /\ method' = method
    BY <1>11 DEF Commit
  <2>3. CASE durable /\ method[c] = "Put"
    BY <2>1, <2>2, <2>3 DEF Committed, Histories
  <2>4. CASE ~(durable /\ method[c] = "Put")
    BY <2>1, <2>2, <2>4 DEF Committed
  <2>5. QED
    BY <2>3, <2>4
<1>12. CASE Again(c) \/ GiveUp(c)
  BY <1>12 DEF Again, NextAttempt, GiveUp, Retried
<1>13. CASE RetryReturns(c) \/ Record(c)
  <2>1. CASE RetryReturns(c)
    BY <2>1 DEF RetryReturns, Leaving, After
  <2>2. CASE Record(c)
    BY <2>2 DEF Record, CacheUpdate, Leaving, After
  <2>3. QED
    BY <1>13, <2>1, <2>2
<1>14. CASE Store(c) \/ Evict(c)
  BY <1>14 DEF Store, AfterStore, Evict, Leaving, After
<1>15. CASE Return(c)
  BY <1>15 DEF Return, Observe, Leave, Observed, Histories
<1>16. CASE Panic(c)
  BY <1>16 DEF Panic, Leave, Panicked, Inside, Histories
<1>17. CASE CancelCtx(c)
  BY <1>17 DEF CancelCtx, call, Untouched
<1>18. QED
  BY <1>2, <1>3, <1>4, <1>5, <1>6, <1>7, <1>8, <1>9, <1>10, <1>11, <1>12, <1>13, <1>14, <1>15,
     <1>16, <1>17 DEF Step

-----------------------------------------------------------------------------
(* CallInv                                                                 *)

LEMMA CallStep ==
  ASSUME ShapeInv, NEW c \in Callers, CallInv(c),
         Step(c) \/ CallInner(c) \/ Panic(c) \/ CancelCtx(c)
  PROVE  CallInv(c)'
<1>1. /\ Has(c, "transactional")' = Has(c, "transactional") /\ method' = method
      /\ \/ Lookup(c) \/ Answered(c) \/ TurnedAway(c) \/ Entered(c) \/ NotBegun(c)
         \/ Working(c) \/ Finished(c) \/ Committed(c) \/ Retried(c) \/ Leaving(c)
         \/ Observed(c) \/ Panicked(c) \/ Untouched(c)
  BY Effect DEF Has
<1>2. hist[c] \in Histories /\ hist[c].applied \in Nat /\ hist[c].lost \in Nat /\ err[c] \in Errors
  BY DEF ShapeInv, Histories
<1>3. pc[c] \in {"idle", "attempt", "returned"} \cup Before \cup Inside \cup After
  BY DEF ShapeInv
<1> USE DEF Lookup, Answered, TurnedAway, Entered, NotBegun, Working, Finished, Committed, Retried,
            Leaving, Observed, Panicked, Untouched, SameEffects, SameTrail, SameOpen,
            Before, Inside, After
<1> HIDE DEF Has
<1>4. OpenInv(c)'
  BY <1>1, <1>3 DEF CallInv, OpenInv
<1>5. RejectInv(c)'
  <2>1. hist[c].entered \in BOOLEAN /\ hist'[c].entered \in BOOLEAN
    BY HistoryStep DEF ShapeInv, Histories
  <2>2. CASE \/ Lookup(c) \/ Answered(c) \/ TurnedAway(c) \/ Entered(c) \/ NotBegun(c)
           \/ Working(c) \/ Finished(c)
    BY <1>3, <2>1, <2>2 DEF CallInv, RejectInv, Rejections
  <2>3. CASE Committed(c) \/ Retried(c) \/ Leaving(c)
    BY <1>3, <2>1, <2>3 DEF CallInv, RejectInv, Rejections
  <2>4. CASE Observed(c) \/ Panicked(c)
    BY <1>3, <2>1, <2>4 DEF CallInv, RejectInv, Rejections
  <2>5. CASE Untouched(c)
    BY <2>5 DEF CallInv, RejectInv
  <2>6. QED
    BY <1>1, <2>2, <2>3, <2>4, <2>5
<1>6. SettleInv(c)'
  BY <1>1, <1>2, <1>3 DEF CallInv, OpenInv, RejectInv, SettleInv, Rejections
<1>7. AuditInv(c)'
  <2>1. \A e : Append(<<>>, e) = <<e>>
    OBVIOUS
  <2>2. /\ pc[c] # "returned" => hist[c].audits = <<>>
        /\ hist[c].audits = <<>> \/ \E e \in Errors : hist[c].audits = <<e>>
    BY DEF CallInv, AuditInv
  <2>3. CASE Observed(c)
    <3>1. hist'[c].audits = <<err[c]>> /\ hist'[c].out = err[c] /\ err[c] # "hit"
      BY <1>2, <2>1, <2>2, <2>3 DEF Errors, Rejections
    <3>2. QED
      BY <1>2, <2>3, <3>1 DEF AuditInv
  <2>4. CASE Panicked(c)
    <3>1. hist'[c].audits = <<"nil">> /\ hist'[c].out = "panic"
      BY <2>1, <2>2, <2>4
    <3>2. "nil" \in Errors /\ pc'[c] = "returned"
      BY <2>4, ErrorNames
    <3>3. QED
      BY <3>1, <3>2 DEF AuditInv
  <2>5. CASE Answered(c)
    <3>1. hist'[c].audits = <<>> /\ hist'[c].out = "hit"
      BY <2>2, <2>5
    <3>2. QED
      BY <3>1 DEF AuditInv
  <2>6. CASE Untouched(c)
    BY <2>6 DEF CallInv, AuditInv
  <2>7. CASE ~(Observed(c) \/ Panicked(c) \/ Answered(c) \/ Untouched(c))
    <3>1. pc'[c] # "returned" /\ pc[c] # "returned" /\ hist'[c].audits = hist[c].audits
      BY <1>1, <2>7
    <3>2. QED
      BY <2>2, <3>1 DEF AuditInv
  <2>8. QED
    BY <2>3, <2>4, <2>5, <2>6, <2>7
<1>8. QED
  BY <1>4, <1>5, <1>6, <1>7 DEF CallInv

LEMMA CallBegins ==
  ASSUME ShapeInv, NEW c \in Callers, NEW m \in {"Get", "Put"}, Call(c, m)
  PROVE  CallInv(c)'
<1>1. /\ pc'[c] \in {"lookup", "gate"} /\ err'[c] = "nil" /\ hist'[c] = NoHistory /\ c \notin open'
  BY DEF Call, ShapeInv, Fail, Goto
<1>2. OpenInv(c)' /\ SettleInv(c)'
  BY <1>1, FreshHistory DEF OpenInv, SettleInv, Before, Inside, After
<1>3. RejectInv(c)'
  BY <1>1, FreshHistory DEF RejectInv, Rejections
<1>4. AuditInv(c)'
  BY <1>1, FreshHistory DEF AuditInv
<1>5. QED
  BY <1>2, <1>3, <1>4 DEF CallInv

\* CallInv reads nothing but this of a call.
LEMMA Unmoved ==
  ASSUME NEW c \in Callers, CallInv(c),
         pc'[c] = pc[c], method'[c] = method[c], err'[c] = err[c], hist'[c] = hist[c],
         c \in open' <=> c \in open, advice' = advice
  PROVE  CallInv(c)'
<1>1. Has(c, "transactional")' = Has(c, "transactional")
  BY DEF Has
<1>2. OpenInv(c)' /\ RejectInv(c)' /\ SettleInv(c)'
  BY <1>1 DEF CallInv, OpenInv, RejectInv, SettleInv
<1>3. AuditInv(c)'
  BY DEF CallInv, AuditInv
<1>4. QED
  BY <1>2, <1>3 DEF CallInv

LEMMA NextIInv == IInv /\ [Next]_vars => IInv'
<1> SUFFICES ASSUME IInv, [Next]_vars
             PROVE  IInv'
  OBVIOUS
<1> USE DEF IInv
<1>1. ASSUME NEW c \in Callers,
             \/ Step(c) \/ CallInner(c) \/ Panic(c) \/ CancelCtx(c)
             \/ \E m \in {"Get", "Put"} : Call(c, m)
      PROVE  IInv'
  <2>1. ShapeInv'
    BY <1>1, ShapeStep, ShapeCall
  <2>2. CallInv(c)'
    BY <1>1, CallStep, CallBegins
  <2>3. ASSUME NEW d \in Callers, d # c
        PROVE  CallInv(d)'
    BY <1>1, <2>3, OthersUnmoved, Unmoved
  <2>4. QED
    BY <2>1, <2>2, <2>3
<1>2. CASE Tick
  <2>1. ShapeInv'
    BY <1>2, ShapeTick
  <2>2. UNCHANGED <<advice, pc, method, err, hist, open>>
    BY <1>2 DEF Tick, fixed, call
  <2>3. QED
    BY <2>1, <2>2, Unmoved
<1>3. CASE UNCHANGED vars
  <2>1. ShapeInv'
    BY <1>3 DEF vars, fixed, call, ShapeInv
  <2>2. UNCHANGED <<advice, pc, method, err, hist, open>>
    BY <1>3 DEF vars, fixed, call
  <2>3. QED
    BY <2>1, <2>2, Unmoved
<1>4. QED
  BY <1>1, <1>2, <1>3 DEF Next

LEMMA Invariance == Spec => []IInv
BY InitIInv, NextIInv, PTL DEF Spec

\* TypeOK: no cached version is ahead of the database, no attempt beyond the
\* configured number, no second audit record.
THEOREM TypeCorrect == Spec => []TypeOK
<1>1. IInv => TypeOK
  <2> SUFFICES ASSUME IInv PROVE TypeOK
    OBVIOUS
  <2>1. cache = None \/ (cache.version \in 0..db /\ cache.left \in 0..TTL)
    BY DEF IInv, ShapeInv
  <2>2. ASSUME NEW c \in Callers
        PROVE  /\ value[c] \in 0..db /\ gate[c] \in 0..Len(GateOrder)
               /\ attempt[c] \in 0..(MaxAttempts - 1)
    BY DEF IInv, ShapeInv
  <2>3. ASSUME NEW c \in Callers
        PROVE  Len(hist[c].audits) <= 1
    <3>1. Len(<<>>) <= 1 /\ \A e : Len(<<e>>) <= 1
      OBVIOUS
    <3>2. hist[c].audits = <<>> \/ \E e \in Errors : hist[c].audits = <<e>>
      BY DEF IInv, CallInv, AuditInv
    <3>3. QED
      BY <3>1, <3>2
  <2>4. QED
    BY <2>1, <2>2, <2>3 DEF TypeOK, IInv, ShapeInv
<1>2. QED
  BY <1>1, Invariance, PTL

\* SettledOnce: a transactional write that returns has taken effect as often as
\* the caller was told, lost commits apart.
THEOREM WritesSettle == Spec => []SettledOnce
<1>1. IInv => SettledOnce
  BY DEF IInv, CallInv, OpenInv, SettleInv, SettledOnce, Returned, Inside
<1>2. QED
  BY <1>1, Invariance, PTL

\* RejectedUntouched: a gate's rejection means that the target was not entered.
THEOREM RejectionsAreClean == Spec => []RejectedUntouched
<1>1. IInv => RejectedUntouched
  BY DEF IInv, CallInv, RejectInv, RejectedUntouched, Returned, Rejections
<1>2. QED
  BY <1>1, Invariance, PTL

\* AuditTruthful: the one audit record tells what the caller was told.
THEOREM AuditsAreTrue == Spec => []AuditTruthful
<1>1. IInv => AuditTruthful
  BY DEF IInv, CallInv, AuditInv, AuditTruthful, Returned
<1>2. QED
  BY <1>1, Invariance, PTL

\* FreshEntryKept: the second look under the write lock spares an entry that
\* was stored after the first.
THEOREM FreshEntriesAreKept == Spec => FreshEntryKept
<1> DEFINE Kept == \A c \in Callers :
             pc[c] = "expire" /\ pc'[c] # "expire" /\ cache # None /\ ~Expired(cache)
               => cache' = cache
<1>1. IInv /\ [Next]_vars => [Kept]_vars
  <2> SUFFICES ASSUME IInv, Next, NEW d \in Callers, pc[d] = "expire", pc'[d] # "expire",
                      cache # None, ~Expired(cache)
               PROVE  cache' = cache
    BY DEF Kept
  <2>1. PICK c \in Callers : \/ Step(c) \/ CallInner(c) \/ Panic(c) \/ CancelCtx(c)
                             \/ \E m \in {"Get", "Put"} : Call(c, m)
    BY DEF Next, Tick, call
  <2>2. c = d
    BY <2>1, OthersUnmoved DEF IInv
  <2>3. Expire(d)
    BY <2>1, <2>2 DEF Step, CallInner, Panic, CancelCtx, call, Call, Hit, Miss, SeesExpired,
       Admit, Rejected, Begin, BeginFails, Read, Write, InnerReturns, TargetReturns, Commit,
       Again, GiveUp, RetryReturns, Record, Store, Evict, Return
  <2>4. QED
    BY <2>3 DEF Expire
<1>2. QED
  BY <1>1, Invariance, PTL DEF Spec, FreshEntryKept, Kept
=============================================================================
