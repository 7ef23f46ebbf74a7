------------------------------ MODULE Bulkhead ------------------------------
(***************************************************************************)
(* runtime/bulkhead.go: the semaphore bulkhead and the goroutines that     *)
(* call Execute on it.  The slots are a buffered channel: a send takes a   *)
(* slot, a receive gives it back and, as Go's channels do, hands it to the *)
(* sender that has been blocked longest.  The release is deferred, so a    *)
(* panic of the guarded function reaches it like a return does.            *)
(***************************************************************************)
EXTENDS Integers, Sequences, FiniteSets

CONSTANTS
  Callers,            \* goroutines that call Execute
  SpecMaxConcurrent,  \* BulkheadSpec, as given: zero or less selects 10
  MaxWaits            \* the values of MaxWait considered; zero or less means
                      \*   never to wait for a slot

ASSUME CallersAssumption == IsFiniteSet(Callers)
ASSUME SpecAssumption == SpecMaxConcurrent \in Int /\ MaxWaits \subseteq Int

MaxConcurrent == IF SpecMaxConcurrent <= 0 THEN 10 ELSE SpecMaxConcurrent

VARIABLES
  maxWait,  \* b.maxWait, never assigned again
  slots,    \* len(b.slots)
  queue,    \* callers blocked in the second select, longest first
  call,     \* call[c]: "idle", "full" (between the two selects), "waiting",
            \*   "fn", "release" (in the deferred receive), "ErrBulkheadFull"
  waited,   \* waited[c]: ticks since c's timer was set
  ctxDone   \* callers whose context is cancelled

vars == <<maxWait, slots, queue, call, waited, ctxDone>>

Init ==
  /\ maxWait \in MaxWaits
  /\ slots = 0
  /\ queue = <<>>
  /\ call = [c \in Callers |-> "idle"]
  /\ waited = [c \in Callers |-> 0]
  /\ ctxDone = {}

Goto(c, l) == call' = [call EXCEPT ![c] = l]

Queued == {queue[i] : i \in 1..Len(queue)}

-----------------------------------------------------------------------------
(* Plausible bugs (the manifest's mutants).                                *)

\* The release is not deferred: a panic skips it.
PanicSkipsRelease(c) ==
  /\ call[c] = "fn"
  /\ Goto(c, "idle")

\* The timer is not one of the cases.
StopWaitingOnDone(c) ==
  /\ call[c] = "waiting" /\ c \in ctxDone
  /\ \E i \in 1..Len(queue) :
       /\ queue[i] = c
       /\ queue' = SubSeq(queue, 1, i - 1) \o SubSeq(queue, i + 1, Len(queue))
  /\ Goto(c, "ErrBulkheadFull")
  /\ UNCHANGED <<maxWait, slots, waited, ctxDone>>

\* A freed slot is there for whoever tries next, and a waiter is only woken.
FreeForAll(c) ==
  /\ call[c] = "release" /\ slots > 0
  /\ queue # <<>>
  /\ slots' = slots - 1
  /\ Goto(c, "idle")
  /\ UNCHANGED <<maxWait, queue, waited, ctxDone>>

-----------------------------------------------------------------------------
(* acquire                                                                 *)

SlotFree == slots < MaxConcurrent

Reject(c) == Goto(c, "ErrBulkheadFull")

\* The first select, with its default case; maxWait decides what follows it.
TryAcquire(c) ==
  /\ call[c] \in {"idle", "ErrBulkheadFull"}
  /\ IF SlotFree THEN slots' = slots + 1 /\ Goto(c, "fn")
     ELSE /\ UNCHANGED slots
          /\ IF maxWait <= 0 THEN Reject(c) ELSE Goto(c, "full")
  /\ ctxDone' = ctxDone \ {c}   \* a new call has a context of its own
  /\ UNCHANGED <<maxWait, queue, waited>>

\* The second select is entered: a slot may have become free since the first.
EnterSelect(c) ==
  /\ call[c] = "full"
  /\ IF SlotFree
     THEN slots' = slots + 1 /\ Goto(c, "fn") /\ UNCHANGED queue
     ELSE queue' = Append(queue, c) /\ Goto(c, "waiting") /\ UNCHANGED slots
  /\ waited' = [waited EXCEPT ![c] = 0]
  /\ UNCHANGED <<maxWait, ctxDone>>

\* ... or the context is already done, which select may prefer.
EnterSelectDone(c) ==
  /\ call[c] = "full" /\ c \in ctxDone
  /\ Reject(c)
  /\ UNCHANGED <<maxWait, slots, queue, waited, ctxDone>>

TimedOut(c) == waited[c] >= maxWait

\* A blocked sender leaves the channel's queue.
Dequeue(c) ==
  \E i \in 1..Len(queue) :
    /\ queue[i] = c
    /\ queue' = [j \in 1..(Len(queue) - 1) |->
                  IF j < i THEN queue[j] ELSE queue[j + 1]]

StopWaiting(c) ==
  /\ call[c] = "waiting"
  /\ TimedOut(c) \/ c \in ctxDone
  /\ Dequeue(c)
  /\ Reject(c)
  /\ UNCHANGED <<maxWait, slots, waited, ctxDone>>

-----------------------------------------------------------------------------
(* The guarded function and the deferred release                           *)

Return(c) ==
  /\ call[c] = "fn"
  /\ Goto(c, "release")

Panic(c) ==
  /\ call[c] = "fn"
  /\ Goto(c, "release")

Finish(c) ==
  /\ Return(c) \/ Panic(c)
  /\ UNCHANGED <<maxWait, slots, queue, waited, ctxDone>>

\* <-b.slots, with nobody blocked: the buffer shrinks.
Release(c) ==
  /\ call[c] = "release" /\ slots > 0
  /\ queue = <<>>
  /\ slots' = slots - 1
  /\ Goto(c, "idle")
  /\ UNCHANGED <<maxWait, queue, waited, ctxDone>>

\* ... with blocked senders: the first one's send completes.
HandOver(c) ==
  /\ call[c] = "release" /\ slots > 0
  /\ queue # <<>>
  /\ queue' = Tail(queue)
  /\ call' = [call EXCEPT ![c] = "idle", ![Head(queue)] = "fn"]
  /\ UNCHANGED <<maxWait, slots, waited, ctxDone>>

CancelCtx(c) ==
  /\ call[c] \in {"full", "waiting"} /\ c \notin ctxDone
  /\ ctxDone' = ctxDone \cup {c}
  /\ UNCHANGED <<maxWait, slots, queue, call, waited>>

\* Time passes for the timers that are set.
Tick ==
  /\ \E c \in Callers : call[c] = "waiting" /\ ~TimedOut(c)
  /\ waited' = [c \in Callers |->
       IF call[c] = "waiting" /\ ~TimedOut(c) THEN waited[c] + 1 ELSE waited[c]]
  /\ UNCHANGED <<maxWait, slots, queue, call, ctxDone>>

Acquire(c) == TryAcquire(c) \/ EnterSelect(c) \/ EnterSelectDone(c) \/ StopWaiting(c)

Next ==
  \/ \E c \in Callers :
       Acquire(c) \/ Finish(c) \/ Release(c) \/ HandOver(c) \/ CancelCtx(c)
  \/ Tick

Spec == Init /\ [][Next]_vars

\* Goroutines inside acquire or the release go on, and time passes; clients
\* need not call and the guarded function need not return.
Fairness ==
  /\ \A c \in Callers :
       WF_vars(EnterSelect(c) \/ StopWaiting(c) \/ Release(c) \/ HandOver(c))
  /\ WF_vars(Tick)

FairSpec == Spec /\ Fairness

-----------------------------------------------------------------------------
(* Properties                                                              *)

\* Never more than MaxConcurrent slots are taken, and only callers queue.
TypeOK ==
  /\ maxWait \in MaxWaits
  /\ slots \in 0..MaxConcurrent
  /\ queue \in Seq(Callers)
  /\ call \in [Callers -> {"idle", "full", "waiting", "fn", "release", "ErrBulkheadFull"}]
  /\ waited \in [Callers -> Nat]
  /\ ctxDone \subseteq Callers

Holders == {c \in Callers : call[c] \in {"fn", "release"}}

\* "the number of calls allowed to run at once": every slot taken belongs to
\* one call in the guarded function or about to release it, after any mix of
\* returns, panics, timeouts and cancellations; so no slot leaks and no call's
\* deferred receive can block.
SlotsHeld == slots = Cardinality(Holders)

\* Why the next one holds: a caller is blocked only while every slot is taken,
\* and the queue holds each blocked caller once.
QueueInv ==
  /\ queue # <<>> => slots = MaxConcurrent
  /\ \A c \in Callers : call[c] = "waiting" <=> c \in Queued
  /\ \A i, j \in 1..Len(queue) : queue[i] = queue[j] => i = j

\* No newcomer takes a slot ahead of a caller that is already waiting, although
\* acquire tries the channel once before it queues.
NoOvertaking ==
  [][\A c \in Callers :
       call[c] \notin {"fn"} /\ call'[c] = "fn" /\ queue # <<>> => c = Head(queue)]_vars

\* A call that waits gets a slot or is rejected, even if no guarded function
\* ever returns.
WaitEnds ==
  \A c \in Callers : call[c] \in {"full", "waiting"} ~> call[c] \notin {"full", "waiting"}

=============================================================================
