--------------------------- MODULE BulkheadProofs ---------------------------
(***************************************************************************)
(* The bulkhead's safety for every set of callers and every spec: slots    *)
(* are held by calls, and waiting calls are not overtaken.  QueueInv is    *)
(* what makes both inductive.                                              *)
(***************************************************************************)
EXTENDS Bulkhead, FiniteSetTheorems, SequenceTheorems, TLAPS

IInv == TypeOK /\ SlotsHeld /\ QueueInv

\* NewBulkhead leaves a positive capacity, whatever the spec says.
LEMMA CapacityPositive == MaxConcurrent \in Nat \ {0}
BY SpecAssumption DEF MaxConcurrent

\* Holders is a finite set; one caller more or less changes its size by one.
LEMMA HolderCount ==
  ASSUME NEW S \in SUBSET Callers, NEW c \in Callers
  PROVE  /\ Cardinality(S) \in Nat
         /\ c \notin S => Cardinality(S \cup {c}) = Cardinality(S) + 1
         /\ c \in S => Cardinality(S \ {c}) = Cardinality(S) - 1
         /\ c \in S => Cardinality(S) > 0
<1>1. IsFiniteSet(S) /\ IsFiniteSet(S \ {c})
  BY CallersAssumption, FS_Subset, FS_RemoveElement
<1>2. QED
  BY <1>1, FS_AddElement, FS_RemoveElement, FS_CardinalityType

\* A sequence's domain determines its length.
LEMMA LenFromDomain ==
  ASSUME NEW m \in Nat, NEW n \in Nat, 1..m = 1..n
  PROVE  m = n
<1>1. m > 0 => m \in 1..n
  OBVIOUS
<1>2. n > 0 => n \in 1..m
  OBVIOUS
<1>3. QED
  BY <1>1, <1>2

\* Nobody runs, waits or holds a slot at first.
LEMMA InitIInv == Init => IInv
<1> SUFFICES ASSUME Init
             PROVE  IInv
  OBVIOUS
<1>1. TypeOK
  BY CapacityPositive DEF Init, TypeOK
<1>2. Holders = {}
  BY DEF Init, Holders
<1>3. SlotsHeld
  BY <1>2, FS_EmptySet DEF Init, SlotsHeld
<1>4. QueueInv
  BY DEF Init, QueueInv, Queued
<1>5. QED
  BY <1>1, <1>3, <1>4 DEF IInv

\* A step that moves c without touching slots or queue, between two places that
\* hold a slot or two that do not, and neither of them the queue.
LEMMA MoveOutside ==
  ASSUME IInv, NEW c \in Callers,
         NEW l \in {"idle", "full", "fn", "release", "ErrBulkheadFull"},
         Goto(c, l), UNCHANGED <<maxWait, slots, queue, waited>>,
         ctxDone' \subseteq Callers,
         call[c] # "waiting",
         call[c] \in {"fn", "release"} <=> l \in {"fn", "release"}
  PROVE  IInv'
<1>1. TypeOK'
  BY DEF IInv, TypeOK, Goto
<1>2. Holders' = Holders
  BY DEF IInv, TypeOK, Holders, Goto
<1>3. SlotsHeld'
  BY <1>2 DEF IInv, SlotsHeld
<1>4. QueueInv'
  <2>1. Queued' = Queued
    BY DEF Queued
  <2>2. \A d \in Callers : call'[d] = "waiting" <=> d \in Queued
    BY DEF IInv, TypeOK, QueueInv, Goto
  <2>3. QED
    BY <2>1, <2>2 DEF IInv, QueueInv
<1>5. QED
  BY <1>1, <1>3, <1>4 DEF IInv

\* A free slot is taken: nobody can be waiting for it.
LEMMA TakeSlot ==
  ASSUME IInv, NEW c \in Callers, SlotFree, slots' = slots + 1, Goto(c, "fn"),
         call[c] \in {"idle", "ErrBulkheadFull", "full"},
         UNCHANGED <<maxWait, queue>>, waited' \in [Callers -> Nat],
         ctxDone' \subseteq Callers
  PROVE  IInv'
<1>1. TypeOK'
  <2>1. slots' \in 0..MaxConcurrent
    BY CapacityPositive DEF IInv, TypeOK, SlotFree
  <2>2. QED
    BY <2>1 DEF IInv, TypeOK, Goto, MaxConcurrent
<1>2. c \notin Holders /\ Holders' = Holders \cup {c} /\ Holders \subseteq Callers
  BY DEF IInv, TypeOK, Holders, Goto
<1>3. SlotsHeld'
  BY <1>2, HolderCount DEF IInv, SlotsHeld
<1>4. queue = <<>>
  BY CapacityPositive DEF IInv, TypeOK, QueueInv, SlotFree
<1>5. QueueInv'
  <2>1. Queued' = Queued
    BY DEF Queued
  <2>2. \A d \in Callers : call'[d] = "waiting" <=> d \in Queued
    BY DEF IInv, TypeOK, QueueInv, Goto
  <2>3. QED
    BY <1>4, <2>1, <2>2 DEF IInv, QueueInv
<1>6. QED
  BY <1>1, <1>3, <1>5 DEF IInv

\* The first select.
LEMMA TryAcquireIInv ==
  ASSUME IInv, NEW c \in Callers, TryAcquire(c)
  PROVE  IInv'
<1>1. CASE SlotFree
  BY <1>1, TakeSlot DEF TryAcquire, IInv, TypeOK
<1>2. CASE ~SlotFree
  BY <1>2, MoveOutside DEF TryAcquire, Reject, IInv, TypeOK
<1>3. QED
  BY <1>1, <1>2

\* The second select: the caller takes a slot or joins the end of the queue.
LEMMA EnterSelectIInv ==
  ASSUME IInv, NEW c \in Callers, EnterSelect(c)
  PROVE  IInv'
<1>1. CASE SlotFree
  BY <1>1, TakeSlot DEF EnterSelect, IInv, TypeOK
<1>2. CASE ~SlotFree
  <2>1. queue' = Append(queue, c) /\ Goto(c, "waiting") /\ slots' = slots
    BY <1>2 DEF EnterSelect
  <2>2. TypeOK'
    BY <2>1 DEF EnterSelect, IInv, TypeOK, Goto
  <2>3. Holders' = Holders
    BY <2>1 DEF EnterSelect, IInv, TypeOK, Holders, Goto
  <2>4. SlotsHeld'
    BY <2>1, <2>3 DEF IInv, SlotsHeld
  <2>5. c \notin Queued
    BY DEF EnterSelect, IInv, QueueInv
  <2>6. /\ Len(queue') = Len(queue) + 1
        /\ \A i \in 1..Len(queue) : queue'[i] = queue[i]
        /\ queue'[Len(queue) + 1] = c
        /\ Len(queue) \in Nat
    BY <2>1 DEF IInv, TypeOK
  <2>7. Queued' = Queued \cup {c}
    BY <2>6 DEF Queued
  <2>8. \A d \in Callers : call'[d] = "waiting" <=> d \in Queued'
    BY <2>1, <2>7 DEF IInv, TypeOK, QueueInv, Goto
  <2>9. \A i, j \in 1..Len(queue') : queue'[i] = queue'[j] => i = j
    BY <2>5, <2>6 DEF IInv, QueueInv, Queued
  <2>10. slots' = MaxConcurrent
    BY <1>2, <2>1, CapacityPositive DEF SlotFree, IInv, TypeOK
  <2>11. QueueInv'
    BY <2>8, <2>9, <2>10 DEF QueueInv, MaxConcurrent
  <2>12. QED
    BY <2>2, <2>4, <2>11 DEF IInv
<1>3. QED
  BY <1>1, <1>2

\* The timer or the context ends a wait: one caller leaves the queue.
LEMMA StopWaitingIInv ==
  ASSUME IInv, NEW c \in Callers, StopWaiting(c)
  PROVE  IInv'
<1>1. PICK i \in 1..Len(queue) :
        /\ queue[i] = c
        /\ queue' = [j \in 1..(Len(queue) - 1) |->
                      IF j < i THEN queue[j] ELSE queue[j + 1]]
  BY DEF StopWaiting, Dequeue
<1>2. /\ Len(queue) \in Nat \ {0}
      /\ queue' \in Seq(Callers)
      /\ Len(queue') = Len(queue) - 1
  <2>1. Len(queue) \in Nat \ {0} /\ queue \in [1..Len(queue) -> Callers]
    BY <1>1 DEF IInv, TypeOK
  <2>2. queue' \in [1..(Len(queue) - 1) -> Callers]
    BY <1>1, <2>1
  <2>3. queue' \in Seq(Callers)
    BY <2>1, <2>2, SeqDef
  <2>4. 1..Len(queue') = 1..(Len(queue) - 1)
    BY <2>2, <2>3, LenProperties
  <2>5. Len(queue') \in Nat /\ Len(queue) - 1 \in Nat
    BY <2>1, <2>3, LenProperties
  <2>6. QED
    BY <2>1, <2>3, <2>4, <2>5, LenFromDomain
<1>3. TypeOK'
  BY <1>2 DEF StopWaiting, Reject, Goto, IInv, TypeOK, MaxConcurrent
<1>4. Holders' = Holders
  BY DEF StopWaiting, Reject, Goto, IInv, TypeOK, Holders
<1>5. SlotsHeld'
  BY <1>4 DEF StopWaiting, IInv, SlotsHeld
<1>6. Queued' = Queued \ {c}
  <2>1. \A d \in Queued : d # c => d \in Queued'
    <3> SUFFICES ASSUME NEW k \in 1..Len(queue), queue[k] # c
                 PROVE  queue[k] \in Queued'
      BY DEF Queued
    <3>1. CASE k < i
      <4>1. k \in 1..Len(queue') /\ queue'[k] = queue[k]
        BY <1>1, <1>2, <3>1
      <4>2. QED
        BY <4>1 DEF Queued
    <3>2. CASE k > i
      <4>1. k - 1 \in 1..Len(queue') /\ queue'[k - 1] = queue[k]
        BY <1>1, <1>2, <3>2
      <4>2. QED
        BY <4>1 DEF Queued
    <3>3. QED
      BY <1>1, <1>2, <3>1, <3>2
  <2>2. \A d \in Queued' : d \in Queued /\ d # c
    <3> SUFFICES ASSUME NEW k \in 1..Len(queue')
                 PROVE  queue'[k] \in Queued /\ queue'[k] # c
      BY DEF Queued
    <3>1. PICK m \in 1..Len(queue) : m # i /\ queue'[k] = queue[m]
      <4>1. CASE k < i
        BY <1>1, <1>2, <4>1
      <4>2. CASE k >= i
        <5>1. k + 1 \in 1..Len(queue) /\ k + 1 # i /\ queue'[k] = queue[k + 1]
          BY <1>1, <1>2, <4>2
        <5>2. QED
          BY <5>1
      <4>3. QED
        BY <4>1, <4>2, <1>2
    <3>2. QED
      BY <1>1, <3>1 DEF Queued, IInv, QueueInv
  <2>3. QED
    BY <2>1, <2>2
<1>7. QueueInv'
  <2>1. queue' # <<>> => slots' = MaxConcurrent
    BY <1>1 DEF StopWaiting, IInv, QueueInv
  <2>2. \A d \in Callers : call'[d] = "waiting" <=> d \in Queued'
    BY <1>6 DEF StopWaiting, Reject, Goto, IInv, TypeOK, QueueInv
  <2>3. ASSUME NEW k \in 1..Len(queue'), NEW m \in 1..Len(queue'), queue'[k] = queue'[m]
        PROVE  k = m
    <3> DEFINE at(n) == IF n < i THEN n ELSE n + 1
    <3>1. at(k) \in 1..Len(queue) /\ queue'[k] = queue[at(k)]
      BY <1>1, <1>2
    <3>2. at(m) \in 1..Len(queue) /\ queue'[m] = queue[at(m)]
      BY <1>1, <1>2
    <3>3. at(k) = at(m)
      BY <2>3, <3>1, <3>2 DEF IInv, QueueInv
    <3>4. QED
      BY <3>3, <1>2
  <2>4. QED
    BY <2>1, <2>2, <2>3 DEF QueueInv, MaxConcurrent
<1>8. QED
  BY <1>3, <1>5, <1>7 DEF IInv

\* A slot goes back to the channel, and nobody is waiting for it.
LEMMA ReleaseIInv ==
  ASSUME IInv, NEW c \in Callers, Release(c)
  PROVE  IInv'
<1>1. TypeOK'
  <2>1. slots' \in 0..MaxConcurrent
    BY CapacityPositive DEF Release, IInv, TypeOK
  <2>2. QED
    BY <2>1 DEF Release, Goto, IInv, TypeOK, MaxConcurrent
<1>2. c \in Holders /\ Holders' = Holders \ {c} /\ Holders \subseteq Callers
  BY DEF Release, Goto, IInv, TypeOK, Holders
<1>3. SlotsHeld'
  BY <1>2, HolderCount DEF Release, IInv, SlotsHeld
<1>4. QueueInv'
  <2>1. Queued' = Queued
    BY DEF Release, Queued
  <2>2. \A d \in Callers : call'[d] = "waiting" <=> d \in Queued
    BY DEF Release, Goto, IInv, TypeOK, QueueInv
  <2>3. QED
    BY <2>1, <2>2 DEF Release, IInv, QueueInv
<1>5. QED
  BY <1>1, <1>3, <1>4 DEF IInv

\* ... or to the caller that has waited longest.
LEMMA HandOverIInv ==
  ASSUME IInv, NEW c \in Callers, HandOver(c)
  PROVE  IInv'
<1> DEFINE h == Head(queue)
<1>1. /\ Len(queue) \in Nat \ {0}
      /\ queue[1] = h /\ h \in Callers
      /\ queue' \in Seq(Callers)
      /\ Len(queue') = Len(queue) - 1
      /\ \A k \in 1..Len(queue') : queue'[k] = queue[k + 1]
  BY DEF HandOver, IInv, TypeOK
<1>2. h \in Queued /\ call[h] = "waiting" /\ h # c
  BY <1>1 DEF HandOver, IInv, QueueInv, Queued
<1>3. call' = [call EXCEPT ![c] = "idle", ![h] = "fn"]
  BY DEF HandOver
<1>4. TypeOK'
  BY <1>1, <1>3 DEF HandOver, IInv, TypeOK, MaxConcurrent
<1>5. /\ Holders \subseteq Callers
      /\ c \in Holders /\ h \notin Holders
      /\ Holders' = (Holders \ {c}) \cup {h}
  BY <1>1, <1>2, <1>3 DEF HandOver, IInv, TypeOK, Holders
<1>6. SlotsHeld'
  <2>1. Cardinality(Holders \ {c}) = Cardinality(Holders) - 1
    BY <1>5, HolderCount
  <2>2. Cardinality(Holders') = Cardinality(Holders \ {c}) + 1
    BY <1>1, <1>5, HolderCount
  <2>3. Cardinality(Holders) \in Nat
    BY <1>5, HolderCount
  <2>4. QED
    BY <2>1, <2>2, <2>3 DEF HandOver, IInv, SlotsHeld
<1>7. Queued' = Queued \ {h}
  <2>1. \A d \in Queued : d # h => d \in Queued'
    <3> SUFFICES ASSUME NEW k \in 1..Len(queue), queue[k] # h
                 PROVE  queue[k] \in Queued'
      BY DEF Queued
    <3>1. k - 1 \in 1..Len(queue') /\ queue'[k - 1] = queue[k]
      BY <1>1
    <3>2. QED
      BY <3>1 DEF Queued
  <2>2. \A d \in Queued' : d \in Queued /\ d # h
    <3> SUFFICES ASSUME NEW k \in 1..Len(queue')
                 PROVE  queue'[k] \in Queued /\ queue'[k] # h
      BY DEF Queued
    <3>1. k + 1 \in 1..Len(queue) /\ k + 1 # 1 /\ queue'[k] = queue[k + 1]
      BY <1>1
    <3>2. QED
      BY <1>1, <3>1 DEF Queued, IInv, QueueInv
  <2>3. QED
    BY <2>1, <2>2
<1>8. QueueInv'
  <2>1. queue' # <<>> => slots' = MaxConcurrent
    BY DEF HandOver, IInv, QueueInv
  <2>2. \A d \in Callers : call'[d] = "waiting" <=> d \in Queued'
    BY <1>2, <1>3, <1>7 DEF HandOver, IInv, TypeOK, QueueInv
  <2>3. \A k, m \in 1..Len(queue') : queue'[k] = queue'[m] => k = m
    <3> SUFFICES ASSUME NEW k \in 1..Len(queue'), NEW m \in 1..Len(queue'),
                        queue'[k] = queue'[m]
                 PROVE  k = m
      OBVIOUS
    <3>1. k + 1 \in 1..Len(queue) /\ m + 1 \in 1..Len(queue) /\ queue[k + 1] = queue[m + 1]
      BY <1>1
    <3>2. k + 1 = m + 1
      BY <3>1 DEF IInv, QueueInv
    <3>3. QED
      BY <3>2, <1>1
  <2>4. QED
    BY <2>1, <2>2, <2>3 DEF QueueInv, MaxConcurrent
<1>9. QED
  BY <1>4, <1>6, <1>8 DEF IInv

\* Every step preserves the inductive invariant.
LEMMA NextIInv == IInv /\ [Next]_vars => IInv'
<1> SUFFICES ASSUME IInv, [Next]_vars
             PROVE  IInv'
  OBVIOUS
<1>1. ASSUME NEW c \in Callers, Acquire(c)
      PROVE  IInv'
  <2>1. CASE EnterSelectDone(c)
    BY <2>1, MoveOutside DEF EnterSelectDone, Reject, IInv, TypeOK
  <2>2. QED
    BY <1>1, <2>1, TryAcquireIInv, EnterSelectIInv, StopWaitingIInv DEF Acquire
<1>2. ASSUME NEW c \in Callers, Finish(c)
      PROVE  IInv'
  BY <1>2, MoveOutside DEF Finish, Return, Panic, IInv, TypeOK
<1>3. ASSUME NEW c \in Callers, CancelCtx(c)
      PROVE  IInv'
  BY <1>3 DEF CancelCtx, IInv, TypeOK, SlotsHeld, Holders, QueueInv, Queued, MaxConcurrent
<1>4. CASE Tick
  BY <1>4 DEF Tick, IInv, TypeOK, SlotsHeld, Holders, QueueInv, Queued, MaxConcurrent
<1>5. CASE UNCHANGED vars
  BY <1>5 DEF vars, IInv, TypeOK, SlotsHeld, Holders, QueueInv, Queued, MaxConcurrent
<1>6. QED
  BY <1>1, <1>2, <1>3, <1>4, <1>5, ReleaseIInv, HandOverIInv DEF Next

\* The strengthened invariant holds always.
THEOREM Invariance == Spec => []IInv
BY InitIInv, NextIInv, PTL DEF Spec

\* The bulkhead's state keeps its type.
THEOREM TypeCorrect == Spec => []TypeOK
<1>1. IInv => TypeOK
  BY DEF IInv
<1>2. QED
  BY <1>1, Invariance, PTL

\* Every slot taken belongs to a running or releasing call: panics, timeouts
\* and cancellations leak none, and at most MaxConcurrent calls run.
THEOREM SlotsAreHeld == Spec => []SlotsHeld
<1>1. IInv => SlotsHeld
  BY DEF IInv
<1>2. QED
  BY <1>1, Invariance, PTL

\* While callers wait, a slot goes to the one that has waited longest.
THEOREM WaitersAreNotOvertaken == Spec => NoOvertaking
<1>1. IInv /\ [Next]_vars =>
        [\A c \in Callers :
           call[c] \notin {"fn"} /\ call'[c] = "fn" /\ queue # <<>> => c = Head(queue)]_vars
  <2> SUFFICES ASSUME IInv, Next,
                      NEW c \in Callers,
                      call[c] # "fn", call'[c] = "fn", queue # <<>>
               PROVE  c = Head(queue)
    BY DEF vars
  <2>0. ~SlotFree /\ call \in [Callers -> {"idle", "full", "waiting", "fn", "release", "ErrBulkheadFull"}]
    BY CapacityPositive DEF IInv, TypeOK, QueueInv, SlotFree
  <2>1. ASSUME NEW d \in Callers, Acquire(d)
        PROVE  FALSE
    BY <2>0, <2>1 DEF Acquire, TryAcquire, EnterSelect, EnterSelectDone, StopWaiting, Reject, Goto
  <2>2. ASSUME NEW d \in Callers, Finish(d) \/ Release(d) \/ CancelCtx(d)
        PROVE  FALSE
    BY <2>0, <2>2 DEF Finish, Return, Panic, Release, CancelCtx, Goto
  <2>3. ASSUME NEW d \in Callers, HandOver(d)
        PROVE  c = Head(queue)
    BY <2>0, <2>3 DEF HandOver
  <2>4. CASE Tick
    BY <2>4 DEF Tick
  <2>5. QED
    BY <2>1, <2>2, <2>3, <2>4 DEF Next
<1>2. QED
  BY <1>1, Invariance, PTL DEF Spec, NoOvertaking

=============================================================================
