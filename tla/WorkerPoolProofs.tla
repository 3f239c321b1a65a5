--------------------------- MODULE WorkerPoolProofs ---------------------------
(***************************************************************************)
(* Theorems about WorkerPool, for every set of items and workers and every *)
(* buffer size.  The inductive invariant Inv joins the types, the place of *)
(* every accepted item, and what the exit of a worker says about the       *)
(* channel.                                                                *)
(***************************************************************************)
EXTENDS WorkerPool, SequenceTheorems, FiniteSetTheorems, TLAPS

\* A worker leaves a pool that was not cancelled only when the channel is
\* closed and empty, after which nothing can be buffered any more.
ExitMeansEmpty == exited # {} /\ ~cancelled => closed /\ queue = <<>>

\* An exited worker holds nothing, and Stop returns nil when all have exited.
ExitedIsIdle == \A w \in exited : held[w] = NoItem
DrainedMeansExited == stopping = "drained" => exited = Workers

\* Stop is what closes the channel.
ClosedByStop == stopping # "no" => closed

Inv ==
    /\ TypeOK
    /\ Placement
    /\ ExitMeansEmpty
    /\ ExitedIsIdle
    /\ DrainedMeansExited
    /\ ClosedByStop
-------------------------------------------------------------------------------
\* The channel's buffer as a set: what a send adds and a receive removes.
LEMMA EmptyRange == Range(<<>>) = {} /\ IsInjective(<<>>)
BY DEF Range, IsInjective

LEMMA AppendRange ==
    ASSUME NEW S, NEW q \in Seq(S), NEW e \in S
    PROVE  Range(Append(q, e)) = Range(q) \cup {e}
<1> DEFINE a == Append(q, e)
<1>1. /\ a \in Seq(S) /\ Len(a) = Len(q) + 1
      /\ \A n \in 1..Len(q) : a[n] = q[n]
      /\ a[Len(q) + 1] = e
  BY AppendProperties
<1>2. DOMAIN a = 1..(Len(q) + 1) /\ DOMAIN q = 1..Len(q) /\ Len(q) \in Nat
  BY <1>1, LenProperties
<1>3. DOMAIN a = DOMAIN q \cup {Len(q) + 1}
  BY <1>2
<1> HIDE DEF a
<1>4. Range(a) = {a[n] : n \in DOMAIN q} \cup {a[Len(q) + 1]}
  BY <1>3 DEF Range
<1>5. {a[n] : n \in DOMAIN q} = Range(q)
  BY <1>1, <1>2 DEF Range
<1> QED
  BY <1>1, <1>4, <1>5 DEF a

LEMMA AppendInjectiveSeq ==
    ASSUME NEW S, NEW q \in Seq(S), NEW e \in S,
           IsInjective(q), e \notin Range(q)
    PROVE  IsInjective(Append(q, e))
<1> DEFINE a == Append(q, e)
<1>1. /\ a \in Seq(S) /\ Len(a) = Len(q) + 1
      /\ \A n \in 1..Len(q) : a[n] = q[n]
      /\ a[Len(q) + 1] = e
  BY AppendProperties
<1>2. DOMAIN a = 1..(Len(q) + 1) /\ DOMAIN q = 1..Len(q) /\ Len(q) \in Nat
  BY <1>1, LenProperties
<1> HIDE DEF a
<1>3. ASSUME NEW m \in DOMAIN a, NEW n \in DOMAIN a, a[m] = a[n]
      PROVE  m = n
  <2>1. CASE m \in DOMAIN q /\ n \in DOMAIN q
    BY <1>1, <1>2, <1>3, <2>1 DEF IsInjective
  <2>2. CASE m = Len(q) + 1 /\ n = Len(q) + 1
    BY <2>2
  <2>3. CASE m \in DOMAIN q /\ n = Len(q) + 1
    BY <1>1, <1>2, <1>3, <2>3 DEF Range
  <2>4. CASE m = Len(q) + 1 /\ n \in DOMAIN q
    BY <1>1, <1>2, <1>3, <2>4 DEF Range
  <2> QED
    BY <1>2, <2>1, <2>2, <2>3, <2>4
<1> QED
  BY <1>3 DEF IsInjective, a

LEMMA TailRange ==
    ASSUME NEW S, NEW q \in Seq(S), q # <<>>, IsInjective(q)
    PROVE  /\ Head(q) \in Range(q)
           /\ Range(Tail(q)) = Range(q) \ {Head(q)}
           /\ IsInjective(Tail(q))
<1> DEFINE t == Tail(q)
<1>1. /\ t \in Seq(S) /\ Len(t) = Len(q) - 1
      /\ \A n \in 1..Len(t) : t[n] = q[n + 1]
  BY HeadTailProperties
<1>2. /\ DOMAIN t = 1..(Len(q) - 1) /\ DOMAIN q = 1..Len(q)
      /\ Len(q) \in Nat \ {0}
  BY <1>1, LenProperties, EmptySeq
<1>3. Head(q) = q[1]
  OBVIOUS
<1> HIDE DEF t
<1>4. Head(q) \in Range(q)
  BY <1>2, <1>3 DEF Range
<1>5. ASSUME NEW x \in Range(t) PROVE x \in Range(q) \ {Head(q)}
  <2>1. PICK n \in DOMAIN t : x = t[n]
    BY <1>5 DEF Range
  <2>2. n + 1 \in DOMAIN q /\ n + 1 # 1 /\ 1 \in DOMAIN q /\ x = q[n + 1]
    BY <1>1, <1>2, <2>1
  <2> QED
    BY <1>3, <2>2 DEF Range, IsInjective
<1>6. ASSUME NEW x \in Range(q) \ {Head(q)} PROVE x \in Range(t)
  <2>1. PICK n \in DOMAIN q : x = q[n] /\ n # 1
    BY <1>3, <1>6 DEF Range
  <2>2. n - 1 \in DOMAIN t /\ t[n - 1] = x
    BY <1>1, <1>2, <2>1
  <2> QED
    BY <2>2 DEF Range
<1>7. IsInjective(t)
  <2> SUFFICES ASSUME NEW m \in DOMAIN t, NEW n \in DOMAIN t, t[m] = t[n]
               PROVE  m = n
    BY DEF IsInjective
  <2>1. m + 1 \in DOMAIN q /\ n + 1 \in DOMAIN q /\ q[m + 1] = q[n + 1]
    BY <1>1, <1>2
  <2> QED
    BY <1>2, <2>1 DEF IsInjective
<1> QED
  BY <1>4, <1>5, <1>6, <1>7 DEF t
-------------------------------------------------------------------------------
LEMMA InitInv == Init => Inv
<1> SUFFICES ASSUME Init PROVE Inv
  OBVIOUS
<1>1. TypeOK
  <2>1. queue \in Seq(Items) /\ Len(queue) = 0
    BY EmptySeq DEF Init
  <2>2. Len(queue) <= QueueSize /\ held \in [Workers -> Items \cup {NoItem}]
    BY <2>1, PoolAssumption DEF Init
  <2> QED
    BY <2>1, <2>2, Zenon DEF Init, TypeOK
<1>2. Placement
  <2>1. Queued = {} /\ NoDuplicateQueued
    BY EmptyRange DEF Init, Queued, NoDuplicateQueued
  <2>2. Running = {} /\ NoSharedItem
    BY DEF Init, Running, NoSharedItem
  <2> QED
    BY <2>1, <2>2 DEF Init, Placement
<1> QED
  BY <1>1, <1>2
  DEF Init, Inv, ExitMeansEmpty, ExitedIsIdle, DrainedMeansExited, ClosedByStop

\* Submit buffers an item that was nowhere before.
LEMMA SubmitInv ==
    ASSUME Inv, NEW i \in Items, Submit(i)
    PROVE  Inv'
<1> USE DEF Submit, Inv
<1>1. queue \in Seq(Items) /\ Len(queue) \in Nat /\ i \notin Queued
  BY LenProperties DEF TypeOK, Placement
<1>2. /\ queue' \in Seq(Items) /\ Len(queue') = Len(queue) + 1
      /\ Queued' = Queued \cup {i}
  BY <1>1, AppendProperties, AppendRange DEF Queued
<1>3. TypeOK'
  BY <1>1, <1>2, PoolAssumption DEF TypeOK
<1>4. NoDuplicateQueued'
  BY <1>1, AppendInjectiveSeq DEF Placement, NoDuplicateQueued, Queued
<1>5. Running' = Running /\ NoSharedItem'
  BY DEF Running, Placement, NoSharedItem
<1>6. Placement'
  BY <1>1, <1>2, <1>4, <1>5 DEF Placement
<1> QED
  BY <1>3, <1>6 DEF ExitMeansEmpty, ExitedIsIdle, DrainedMeansExited, ClosedByStop

\* A worker that starts on item i: what changes in Running.
LEMMA HoldRunning ==
    ASSUME TypeOK, NEW w \in Workers, NEW i \in Items, held[w] = NoItem,
           held' = [held EXCEPT ![w] = i]
    PROVE  /\ held' \in [Workers -> Items \cup {NoItem}]
           /\ Running' = Running \cup {i}
           /\ NoSharedItem /\ i \notin Running => NoSharedItem'
<1>1. i # NoItem
  BY PoolAssumption
<1>2. held' \in [Workers -> Items \cup {NoItem}]
  BY DEF TypeOK
<1>3. Running' = Running \cup {i}
  BY <1>1 DEF TypeOK, Running
<1>4. ASSUME NoSharedItem, i \notin Running PROVE NoSharedItem'
  BY <1>1, <1>4 DEF TypeOK, Running, NoSharedItem
<1> QED
  BY <1>2, <1>3, <1>4

LEMMA HandoffInv ==
    ASSUME Inv, NEW i \in Items, NEW w \in Workers, Handoff(i, w)
    PROVE  Inv'
<1> USE DEF Handoff, Inv, Idle
<1>1. /\ held' \in [Workers -> Items \cup {NoItem}]
      /\ Running' = Running \cup {i}
      /\ NoSharedItem /\ i \notin Running => NoSharedItem'
  BY HoldRunning
<1>2. i \notin Queued \cup Running \cup done
  BY DEF Placement
<1>3. Queued' = Queued /\ NoDuplicateQueued'
  BY DEF Queued, Placement, NoDuplicateQueued
<1>4. TypeOK'
  BY <1>1 DEF TypeOK
<1>5. Placement'
  BY <1>1, <1>2, <1>3 DEF Placement
<1>6. ExitedIsIdle'
  BY DEF ExitedIsIdle, TypeOK
<1> QED
  BY <1>4, <1>5, <1>6 DEF ExitMeansEmpty, DrainedMeansExited, ClosedByStop

LEMMA TakeInv ==
    ASSUME Inv, NEW w \in Workers, Take(w)
    PROVE  Inv'
<1> USE DEF Take, Inv, Idle
<1> DEFINE i == Head(queue)
<1>1. /\ i \in Items /\ queue' \in Seq(Items) /\ Len(queue') = Len(queue) - 1
      /\ Len(queue) \in Nat
  BY HeadTailProperties, LenProperties DEF TypeOK
<1>2. /\ i \in Queued /\ Queued' = Queued \ {i}
      /\ NoDuplicateQueued'
  BY TailRange DEF TypeOK, Placement, NoDuplicateQueued, Queued
<1>3. /\ held' \in [Workers -> Items \cup {NoItem}]
      /\ Running' = Running \cup {i}
      /\ NoSharedItem /\ i \notin Running => NoSharedItem'
  BY <1>1, HoldRunning
<1>4. TypeOK'
  BY <1>1, <1>3, PoolAssumption DEF TypeOK
<1>5. Placement'
  BY <1>2, <1>3 DEF Placement
<1>6. ExitedIsIdle'
  BY DEF ExitedIsIdle, TypeOK
<1>7. ExitMeansEmpty'
  BY DEF ExitMeansEmpty
<1> QED
  BY <1>4, <1>5, <1>6, <1>7 DEF DrainedMeansExited, ClosedByStop

LEMMA FinishInv ==
    ASSUME Inv, NEW w \in Workers, Finish(w)
    PROVE  Inv'
<1> USE DEF Finish, Inv
<1>1. held[w] \in Items /\ held' \in [Workers -> Items \cup {NoItem}]
  BY DEF TypeOK
<1>2. TypeOK'
  BY <1>1 DEF TypeOK
<1>3. Running' = Running \ {held[w]} /\ NoSharedItem'
  BY DEF TypeOK, Placement, Running, NoSharedItem
<1>4. held[w] \in Running
  BY DEF Running
<1>5. Queued' = Queued /\ NoDuplicateQueued'
  BY DEF Queued, Placement, NoDuplicateQueued
<1>6. Placement'
  BY <1>3, <1>4, <1>5 DEF Placement
<1>7. ExitedIsIdle'
  BY DEF ExitedIsIdle, TypeOK
<1> QED
  BY <1>2, <1>6, <1>7 DEF ExitMeansEmpty, DrainedMeansExited, ClosedByStop

\* The steps that touch neither the queue nor a worker's item.
LEMMA PlacementUnchanged ==
    ASSUME Placement, UNCHANGED <<queue, held, accepted, done>>
    PROVE  Placement'
BY DEF Placement, NoDuplicateQueued, NoSharedItem, Queued, Running

LEMMA ExitInv ==
    ASSUME Inv, NEW w \in Workers, WorkerExit(w)
    PROVE  Inv'
<1> USE DEF WorkerExit, Inv, Idle
<1>1. TypeOK'
  BY DEF TypeOK
<1>2. Placement'
  BY PlacementUnchanged
<1>3. ExitMeansEmpty' /\ ExitedIsIdle' /\ ClosedByStop'
  BY DEF ExitMeansEmpty, ExitedIsIdle, ClosedByStop
<1>4. DrainedMeansExited'
  BY DEF DrainedMeansExited, TypeOK
<1> QED
  BY <1>1, <1>2, <1>3, <1>4

LEMMA ControlInv ==
    ASSUME Inv, Cancel \/ StopBegin \/ StopDrained \/ StopDeadline
    PROVE  Inv'
<1> USE DEF Cancel, StopBegin, StopDrained, StopDeadline, Inv
<1>1. TypeOK'
  BY DEF TypeOK
<1>2. Placement'
  BY PlacementUnchanged
<1>3. ExitMeansEmpty' /\ ExitedIsIdle'
  BY DEF ExitMeansEmpty, ExitedIsIdle
<1>4. DrainedMeansExited' /\ ClosedByStop'
  BY DEF DrainedMeansExited, ClosedByStop
<1> QED
  BY <1>1, <1>2, <1>3, <1>4

LEMMA NextInv == Inv /\ [Next]_vars => Inv'
<1> SUFFICES ASSUME Inv, [Next]_vars PROVE Inv'
  OBVIOUS
<1>1. ASSUME NEW i \in Items, Submit(i) PROVE Inv'
  BY <1>1, SubmitInv
<1>2. ASSUME NEW i \in Items, NEW w \in Workers, Handoff(i, w) PROVE Inv'
  BY <1>2, HandoffInv
<1>3. ASSUME NEW w \in Workers, WorkerStep(w) PROVE Inv'
  BY <1>3, TakeInv, FinishInv, ExitInv DEF WorkerStep
<1>4. CASE Cancel \/ StopBegin \/ StopDrained \/ StopDeadline
  BY <1>4, ControlInv
<1>5. CASE UNCHANGED vars
  BY <1>5
  DEF vars, Inv, TypeOK, Placement, NoDuplicateQueued, NoSharedItem, Queued, Running,
      ExitMeansEmpty, ExitedIsIdle, DrainedMeansExited, ClosedByStop
<1> QED
  BY <1>1, <1>2, <1>3, <1>4, <1>5 DEF Next

THEOREM SpecInv == Spec => []Inv
BY InitInv, NextInv, PTL DEF Spec

\* Every variable of the pool keeps its type, and the buffer its bound.
THEOREM TypeCorrect == Spec => []TypeOK
<1>1. Inv => TypeOK
  BY DEF Inv
<1> QED
  BY <1>1, SpecInv, PTL

\* Every accepted item is queued once, with one worker, or done.
THEOREM PlacementHolds == Spec => []Placement
<1>1. Inv => Placement
  BY DEF Inv
<1> QED
  BY <1>1, SpecInv, PTL

LEMMA ExitedRunning == Inv /\ exited = Workers => Running = {}
BY DEF Inv, ExitedIsIdle, Running

\* "draining whatever was already buffered, not discarding it": after a Stop
\* that returned nil without a cancelled context, all that was accepted is done.
\* A pool without workers drains at once and would lose its buffer.
THEOREM StopDrains ==
    ASSUME Workers # {}
    PROVE  Spec => []DrainedMeansDone
<1>1. Inv => DrainedMeansDone
  <2> SUFFICES ASSUME Inv, stopping = "drained", ~cancelled PROVE accepted = done
    BY DEF DrainedMeansDone
  <2>1. exited = Workers /\ Running = {}
    BY ExitedRunning DEF Inv, DrainedMeansExited
  <2>2. Queued = {}
    BY <2>1, EmptyRange DEF Inv, ExitMeansEmpty, Queued
  <2> QED
    BY <2>1, <2>2 DEF Inv, Placement
<1> QED
  BY <1>1, SpecInv, PTL

\* After Stop has returned nil no worker runs.
THEOREM StopQuiets == Spec => []DrainedMeansQuiet
<1>1. Inv => DrainedMeansQuiet
  BY ExitedRunning DEF Inv, DrainedMeansExited, DrainedMeansQuiet
<1> QED
  BY <1>1, SpecInv, PTL
-------------------------------------------------------------------------------
(***************************************************************************)
(* The pool implements BoundedWork: each step is a step of the abstract    *)
(* specification or leaves its variables alone.  What has to be shown is   *)
(* that the bounds of the abstract specification follow from the guards of *)
(* the code: a buffer that is not full, and a worker that is idle.         *)
(***************************************************************************)
LEMMA WaitingBound ==
    ASSUME Inv, Len(queue) < QueueSize
    PROVE  Cardinality(Queued) < QueueSize
<1>1. /\ Len(queue) \in Nat /\ DOMAIN queue = 1..Len(queue)
      /\ queue \in [1..Len(queue) -> Queued]
  <2>1. /\ Len(queue) \in Nat /\ DOMAIN queue = 1..Len(queue)
        /\ queue \in [1..Len(queue) -> Items]
    BY LenProperties DEF Inv, TypeOK
  <2> QED
    BY <2>1 DEF Queued, Range
<1>2. queue \in Surjection(1..Len(queue), Queued)
  BY <1>1 DEF Surjection, Queued, Range
<1>3. IsFiniteSet(1..Len(queue)) /\ Cardinality(1..Len(queue)) = Len(queue)
  BY <1>1, FS_Interval
<1>4. /\ IsFiniteSet(Queued) /\ Cardinality(Queued) <= Len(queue)
  BY <1>2, <1>3, FS_Surjection
<1>5. Cardinality(Queued) \in Nat
  BY <1>4, FS_CardinalityType
<1> QED
  BY <1>1, <1>4, <1>5, PoolAssumption

LEMMA RunningBound ==
    ASSUME Inv, IsFiniteSet(Workers), NEW w \in Workers, Idle(w)
    PROVE  Cardinality(Running) < Cardinality(Workers)
<1> DEFINE B == {v \in Workers : held[v] # NoItem}
           f == [v \in B |-> held[v]]
<1>1. f \in Surjection(B, Running)
  BY DEF Surjection, Running
<1>2. B \in SUBSET (Workers \ {w})
  BY DEF Idle
<1>3. /\ IsFiniteSet(Workers \ {w})
      /\ Cardinality(Workers \ {w}) = Cardinality(Workers) - 1
      /\ Cardinality(Workers) \in Nat
  BY FS_RemoveElement, FS_CardinalityType
<1>4. IsFiniteSet(B) /\ Cardinality(B) <= Cardinality(Workers) - 1
  BY <1>2, <1>3, FS_Subset
<1>5. IsFiniteSet(Running) /\ Cardinality(Running) <= Cardinality(B)
  BY <1>1, <1>4, FS_Surjection
<1>6. Cardinality(Running) \in Nat /\ Cardinality(B) \in Nat
  BY <1>4, <1>5, FS_CardinalityType
<1> QED
  BY <1>3, <1>4, <1>5, <1>6

\* The abstract module counts with an instance of FiniteSets of its own.
LEMMA SameCardinality == ASSUME NEW S PROVE Promise!Cardinality(S) = Cardinality(S)
BY DEF Promise!Cardinality, Cardinality

LEMMA InitPromise == Init => Promise!Init
BY EmptyRange DEF Init, Promise!Init, Queued, Running

LEMMA SubmitPromise ==
    ASSUME Inv, NEW i \in Items, Submit(i)
    PROVE  Promise!Accept(i)
<1> USE DEF Submit
<1>1. queue \in Seq(Items)
  BY DEF Inv, TypeOK
<1>2. Queued' = Queued \cup {i}
  BY <1>1, AppendRange DEF Queued
<1>3. Cardinality(Queued) < QueueSize
  BY WaitingBound
<1>4. i \notin Queued \cup Running \cup done
  BY DEF Inv, Placement
<1>5. Running' = Running /\ done' = done
  BY DEF Running
<1> QED
  BY <1>2, <1>3, <1>4, <1>5, SameCardinality DEF Promise!Accept, Promise!Known

LEMMA HandoffPromise ==
    ASSUME Inv, IsFiniteSet(Workers), NEW i \in Items, NEW w \in Workers, Handoff(i, w)
    PROVE  Promise!AcceptRunning(i)
<1> USE DEF Handoff
<1>1. Running' = Running \cup {i}
  BY HoldRunning DEF Inv, Idle
<1>2. Cardinality(Running) < Cardinality(Workers)
  BY RunningBound
<1>3. i \notin Queued \cup Running \cup done
  BY DEF Inv, Placement
<1>4. Queued = {} /\ Queued' = Queued /\ done' = done
  BY EmptyRange DEF Queued
<1> QED
  BY <1>1, <1>2, <1>3, <1>4, SameCardinality DEF Promise!AcceptRunning, Promise!Known

LEMMA TakePromise ==
    ASSUME Inv, IsFiniteSet(Workers), NEW w \in Workers, Take(w)
    PROVE  Promise!Start(Head(queue)) /\ Head(queue) \in Items
<1> USE DEF Take
<1>1. queue \in Seq(Items) /\ Head(queue) \in Items
  BY HeadTailProperties DEF Inv, TypeOK
<1>2. Running' = Running \cup {Head(queue)}
  BY <1>1, HoldRunning DEF Inv, Idle
<1>3. Cardinality(Running) < Cardinality(Workers)
  BY RunningBound
<1>4. Head(queue) \in Queued /\ Queued' = Queued \ {Head(queue)}
  BY <1>1, TailRange DEF Inv, Placement, NoDuplicateQueued, Queued
<1> QED
  BY <1>1, <1>2, <1>3, <1>4, SameCardinality DEF Promise!Start

LEMMA FinishPromise ==
    ASSUME Inv, NEW w \in Workers, Finish(w)
    PROVE  Promise!Finish(held[w]) /\ held[w] \in Items
<1> USE DEF Finish
<1>1. held[w] \in Items /\ held[w] \in Running
  BY DEF Inv, TypeOK, Running
<1>2. Running' = Running \ {held[w]}
  BY DEF Inv, TypeOK, Placement, NoSharedItem, Running
<1>3. Queued' = Queued
  BY DEF Queued
<1> QED
  BY <1>1, <1>2, <1>3 DEF Promise!Finish

LEMMA PromiseStep ==
    ASSUME IsFiniteSet(Workers), Inv, [Next]_vars
    PROVE  [Promise!Next]_(Promise!vars)
<1>1. ASSUME NEW i \in Items, Submit(i) PROVE Promise!Next
  BY <1>1, SubmitPromise DEF Promise!Next
<1>2. ASSUME NEW i \in Items, NEW w \in Workers, Handoff(i, w) PROVE Promise!Next
  BY <1>2, HandoffPromise DEF Promise!Next
<1>3. ASSUME NEW w \in Workers, Take(w) PROVE Promise!Next
  BY <1>3, TakePromise DEF Promise!Next
<1>4. ASSUME NEW w \in Workers, Finish(w) PROVE Promise!Next
  BY <1>4, FinishPromise DEF Promise!Next
<1>5. ASSUME NEW w \in Workers, WorkerExit(w) PROVE UNCHANGED Promise!vars
  BY <1>5 DEF WorkerExit, Promise!vars, Queued, Running
<1>6. CASE Cancel \/ StopBegin \/ StopDrained \/ StopDeadline \/ UNCHANGED vars
  <2>1. UNCHANGED <<queue, held, done>>
    BY <1>6 DEF Cancel, StopBegin, StopDrained, StopDeadline, vars
  <2> QED
    BY <2>1 DEF Promise!vars, Queued, Running
<1> QED
  BY <1>1, <1>2, <1>3, <1>4, <1>5, <1>6 DEF Next, WorkerStep

\* Every behaviour of the pool is one BoundedWork allows: no item is processed
\* twice, and neither of the two limits is ever exceeded.
THEOREM PoolImplementsBoundedWork ==
    ASSUME IsFiniteSet(Workers)
    PROVE  Spec => ImplementsBoundedWork
<1>1. Inv /\ [Next]_vars => [Promise!Next]_(Promise!vars)
  BY PromiseStep
<1> QED
  BY <1>1, InitPromise, SpecInv, PTL DEF Spec, ImplementsBoundedWork, Promise!Spec
===============================================================================
