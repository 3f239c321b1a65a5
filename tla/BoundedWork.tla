----------------------------- MODULE BoundedWork -----------------------------
(***************************************************************************)
(* What gateway-go/internal/worker promises its callers, with no queue, no *)
(* goroutine and no shutdown in sight: an item that was accepted waits,    *)
(* runs once and finishes; at most Capacity items wait and at most         *)
(* MaxRunning run at the same time.  WorkerPool implements this.           *)
(***************************************************************************)
EXTENDS Naturals, FiniteSets

CONSTANTS Items,       \* everything that may ever be submitted
          Capacity,    \* how many accepted items may wait
          MaxRunning   \* how many items may be processed at once

VARIABLES waiting, running, finished

vars == <<waiting, running, finished>>

Known == waiting \cup running \cup finished

Init == waiting = {} /\ running = {} /\ finished = {}

Accept(i) ==
    /\ i \notin Known
    /\ Cardinality(waiting) < Capacity
    /\ waiting' = waiting \cup {i}
    /\ UNCHANGED <<running, finished>>

AcceptRunning(i) ==
    /\ i \notin Known
    /\ waiting = {}
    /\ Cardinality(running) < MaxRunning
    /\ running' = running \cup {i}
    /\ UNCHANGED <<waiting, finished>>

Start(i) ==
    /\ i \in waiting
    /\ Cardinality(running) < MaxRunning
    /\ waiting' = waiting \ {i}
    /\ running' = running \cup {i}
    /\ UNCHANGED finished

Finish(i) ==
    /\ i \in running
    /\ running' = running \ {i}
    /\ finished' = finished \cup {i}
    /\ UNCHANGED waiting

Next == \E i \in Items : Accept(i) \/ AcceptRunning(i) \/ Start(i) \/ Finish(i)

Spec == Init /\ [][Next]_vars
==============================================================================
