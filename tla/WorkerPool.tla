------------------------------ MODULE WorkerPool ------------------------------
(***************************************************************************)
(* gateway-go/internal/worker/pool.go: a fixed number of goroutines taking *)
(* items off a buffered channel, a Submit that never blocks, and a Stop    *)
(* that closes the channel and waits for the goroutines.                   *)
(*                                                                         *)
(* A Go channel of capacity QueueSize is the sequence `queue`.  A send     *)
(* succeeds by buffering (Submit) or, when a goroutine is parked on an     *)
(* empty channel, by handing the item over (Handoff): with QueueSize = 0   *)
(* the second is the only way.  A worker's select is one step: it receives *)
(* (Take) or leaves the loop (WorkerExit), and when both are possible      *)
(* either may happen, as in Go.                                            *)
(***************************************************************************)
EXTENDS Naturals, Sequences, FiniteSets, Functions

CONSTANTS Items,      \* everything a caller may submit, each at most once
          Workers,    \* the goroutines Start launches
          QueueSize,  \* capacity of the channel
          NoItem      \* what an idle worker holds

ASSUME PoolAssumption == QueueSize \in Nat /\ NoItem \notin Items

VARIABLES
    queue,       \* the items in the channel's buffer, oldest first
    closed,      \* Stop has closed the channel
    held,        \* held[w]: the item worker w is processing, or NoItem
    exited,      \* the workers whose goroutine has returned
    cancelled,   \* the context given to Start is done
    stopping,    \* how far the call of Stop is: no, waiting, drained, deadline
    accepted,    \* history: the items Submit returned nil for
    done         \* history: the items whose processing returned

vars == <<queue, closed, held, exited, cancelled, stopping, accepted, done>>

Idle(w) == held[w] = NoItem /\ w \notin exited
Queued  == Range(queue)
Running == {held[w] : w \in Workers} \ {NoItem}

Init ==
    /\ queue = <<>>
    /\ closed = FALSE
    /\ held = [w \in Workers |-> NoItem]
    /\ exited = {}
    /\ cancelled = FALSE
    /\ stopping = "no"
    /\ accepted = {}
    /\ done = {}

-------------------------------------------------------------------------------
SubmitUnbounded(i) ==   \* faulty variant: the capacity of the channel is ignored
    /\ ~closed
    /\ i \notin accepted
    /\ queue' = Append(queue, i)
    /\ accepted' = accepted \cup {i}
    /\ UNCHANGED <<closed, held, exited, cancelled, stopping, done>>

\* Submit's first select case.  A caller submits an item once, and never after
\* Stop: sending on a closed channel panics.
Submit(i) ==
    /\ ~closed
    /\ i \notin accepted
    /\ Len(queue) < QueueSize
    /\ queue' = Append(queue, i)
    /\ accepted' = accepted \cup {i}
    /\ UNCHANGED <<closed, held, exited, cancelled, stopping, done>>

\* The same case when worker w is parked at its receive.
Handoff(i, w) ==
    /\ ~closed
    /\ i \notin accepted
    /\ queue = <<>>
    /\ Idle(w)
    /\ held' = [held EXCEPT ![w] = i]
    /\ accepted' = accepted \cup {i}
    /\ UNCHANGED <<queue, closed, exited, cancelled, stopping, done>>

\* Submit's default case: ErrQueueFull.  It changes nothing in the pool.
QueueFull == Len(queue) >= QueueSize

TakeKeepsItem(w) ==   \* faulty variant: the item is received but stays buffered
    /\ Idle(w)
    /\ queue # <<>>
    /\ held' = [held EXCEPT ![w] = Head(queue)]
    /\ UNCHANGED <<queue, closed, exited, cancelled, stopping, accepted, done>>

\* A worker receives: what was buffered before the channel was closed is still
\* delivered.
Take(w) ==
    /\ Idle(w)
    /\ queue # <<>>
    /\ held' = [held EXCEPT ![w] = Head(queue)]
    /\ queue' = Tail(queue)
    /\ UNCHANGED <<closed, exited, cancelled, stopping, accepted, done>>

\* p.process(ctx, item) returns.
Finish(w) ==
    /\ held[w] # NoItem
    /\ done' = done \cup {held[w]}
    /\ held' = [held EXCEPT ![w] = NoItem]
    /\ UNCHANGED <<queue, closed, exited, cancelled, stopping, accepted>>

WorkerExitOnClose(w) ==   \* faulty variant: a closed channel ends the loop at once
    /\ Idle(w)
    /\ closed \/ cancelled
    /\ exited' = exited \cup {w}
    /\ UNCHANGED <<queue, closed, held, cancelled, stopping, accepted, done>>

WorkerStaysOnClose(w) ==   \* faulty variant: a closed, empty channel is received from for ever
    /\ Idle(w)
    /\ cancelled
    /\ exited' = exited \cup {w}
    /\ UNCHANGED <<queue, closed, held, cancelled, stopping, accepted, done>>

\* The loop ends when the channel is closed and empty, or the context is done.
WorkerExit(w) ==
    /\ Idle(w)
    /\ (closed /\ queue = <<>>) \/ cancelled
    /\ exited' = exited \cup {w}
    /\ UNCHANGED <<queue, closed, held, cancelled, stopping, accepted, done>>

Cancel ==
    /\ ~cancelled
    /\ cancelled' = TRUE
    /\ UNCHANGED <<queue, closed, held, exited, stopping, accepted, done>>

\* Stop closes the channel and starts waiting.
StopBegin ==
    /\ stopping = "no"
    /\ stopping' = "waiting"
    /\ closed' = TRUE
    /\ UNCHANGED <<queue, held, exited, cancelled, accepted, done>>

StopDrainedEarly ==   \* faulty variant: Stop waits for the queue, not for the workers
    /\ stopping = "waiting"
    /\ queue = <<>>
    /\ stopping' = "drained"
    /\ UNCHANGED <<queue, closed, held, exited, cancelled, accepted, done>>

\* wg.Wait() returned: Stop returns nil.
StopDrained ==
    /\ stopping = "waiting"
    /\ exited = Workers
    /\ stopping' = "drained"
    /\ UNCHANGED <<queue, closed, held, exited, cancelled, accepted, done>>

\* The deadline of Stop's context passed first.  The workers go on.
StopDeadline ==
    /\ stopping = "waiting"
    /\ stopping' = "deadline"
    /\ UNCHANGED <<queue, closed, held, exited, cancelled, accepted, done>>

WorkerStep(w) == Take(w) \/ Finish(w) \/ WorkerExit(w)

Next ==
    \/ \E i \in Items : Submit(i) \/ \E w \in Workers : Handoff(i, w)
    \/ \E w \in Workers : WorkerStep(w)
    \/ Cancel
    \/ StopBegin
    \/ StopDrained
    \/ StopDeadline

Spec == Init /\ [][Next]_vars

\* Goroutines are scheduled, a process function returns (both RPCs it makes
\* carry a timeout), and the select in Stop notices that the workers are gone.
\* Callers, the context and the deadline owe nothing.
Fairness ==
    /\ \A w \in Workers : WF_vars(WorkerStep(w))
    /\ WF_vars(StopDrained)

FairSpec == Spec /\ Fairness
-------------------------------------------------------------------------------
TypeOK ==
    /\ queue \in Seq(Items)
    /\ Len(queue) <= QueueSize
    /\ closed \in BOOLEAN
    /\ held \in [Workers -> Items \cup {NoItem}]
    /\ exited \in SUBSET Workers
    /\ cancelled \in BOOLEAN
    /\ stopping \in {"no", "waiting", "drained", "deadline"}
    /\ accepted \in SUBSET Items
    /\ done \in SUBSET Items

(***************************************************************************)
(* Every accepted item is in exactly one place: once in the queue, or with *)
(* one worker, or done.  None is lost, duplicated or processed by two      *)
(* workers, whatever the order of Submit, receive, close and cancel.       *)
(***************************************************************************)
NoDuplicateQueued == IsInjective(queue)
NoSharedItem == \A v, w \in Workers : v # w /\ held[v] # NoItem => held[v] # held[w]

Placement ==
    /\ NoDuplicateQueued
    /\ NoSharedItem
    /\ Queued \cap Running = {}
    /\ (Queued \cup Running) \cap done = {}
    /\ accepted = Queued \cup Running \cup done

(***************************************************************************)
(* "draining whatever was already buffered, not discarding it" (pool.go:81)*)
(* When Stop has returned nil and the context was never cancelled, every   *)
(* item Submit accepted has been processed.                                *)
(***************************************************************************)
DrainedMeansDone == stopping = "drained" /\ ~cancelled => accepted = done

\* No worker is running, and none will, once Stop has returned nil (cancelled or
\* not): the caller may tear down what the workers use.
DrainedMeansQuiet == stopping = "drained" => Running = {} /\ exited = Workers

(***************************************************************************)
(* Liveness: an accepted item is processed, unless the context ends; a     *)
(* Stop that is waiting returns once the workers have drained the queue.   *)
(***************************************************************************)
AcceptedIsProcessed ==
    \A i \in Items : (i \in accepted) ~> (i \in done \/ cancelled)
StopReturns == (stopping = "waiting") ~> (stopping # "waiting")

\* The pool is an implementation of BoundedWork.
Promise == INSTANCE BoundedWork
             WITH Capacity <- QueueSize, MaxRunning <- Cardinality(Workers),
                  waiting <- Queued, running <- Running, finished <- done
ImplementsBoundedWork == Promise!Spec
===============================================================================
