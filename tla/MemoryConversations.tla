-------------------------- MODULE MemoryConversations --------------------------
(***************************************************************************)
(* gateway-go/internal/conversation/memory_store.go under the prune job of *)
(* internal/scheduler that cmd/gateway/main.go starts.                     *)
(*                                                                         *)
(* Every method holds the store's mutex and is one step.  The job computes *)
(* its cutoff before PruneOlderThan gets the mutex, so questions may be    *)
(* appended, and time may pass, between the two.  Times are kept as ages:  *)
(* age[s] is now minus lastActivity[s], lag is now minus the time the      *)
(* cutoff was computed, so last.Before(cutoff) is age[s] - lag > MaxAge.   *)
(***************************************************************************)
EXTENDS Turns, FiniteSets

CONSTANTS MaxLag,     \* bound: how long PruneOlderThan may wait for the mutex
          None        \* no key

ASSUME MemoryAssumption == MaxLag \in Nat /\ None \notin Nat

VARIABLES
    turnsBy,    \* turnsBy[s], <<>> when the key is absent
    age,        \* age of lastActivity[s], None when the key is absent
    job,        \* the scheduler's goroutine: waiting in its select, pruning, returned
    lag,        \* time since the cutoff was computed
    cancelled,  \* workerCtx is done
    asked       \* history: the questions appended so far

vars == <<turnsBy, age, job, lag, cancelled, asked>>

OldAge == MaxAge + MaxLag + 1   \* bound: older ages behave alike

Init ==
    /\ turnsBy = [s \in Sessions |-> <<>>]
    /\ age = [s \in Sessions |-> None]
    /\ job = "waiting"
    /\ lag = 0
    /\ cancelled = FALSE
    /\ asked = {}
--------------------------------------------------------------------------------
\* AppendTurns, for the question and answer of one request.
AppendTurns(s, q) ==
    /\ q \notin asked
    /\ asked' = asked \cup {q}
    /\ turnsBy' = [turnsBy EXCEPT ![s] = Newest(@ \o Pair(q))]
    /\ age' = [age EXCEPT ![s] = 0]
    /\ UNCHANGED <<job, lag, cancelled>>

\* History returns a copy: what a request holds does not change under it.
History(s) == turnsBy[s]

\* One unit of time.
Tick ==
    /\ job = "pruning" => lag < MaxLag
    /\ age' = [s \in Sessions |-> IF age[s] = None \/ age[s] = OldAge THEN age[s] ELSE age[s] + 1]
    /\ lag' = IF job = "pruning" THEN lag + 1 ELSE 0
    /\ UNCHANGED <<turnsBy, job, cancelled, asked>>

\* scheduler.Run: the ticker fires and the task computes its cutoff.
Fire ==
    /\ job = "waiting"
    /\ job' = "pruning"
    /\ lag' = 0
    /\ UNCHANGED <<turnsBy, age, cancelled, asked>>

Stale(s) == age[s] # None /\ age[s] > MaxAge + lag

\* Deletes sessions from both maps, with the mutex held.
Delete(gone) ==
    /\ turnsBy' = [s \in Sessions |-> IF s \in gone THEN <<>> ELSE turnsBy[s]]
    /\ age' = [s \in Sessions |-> IF s \in gone THEN None ELSE age[s]]
    /\ lag' = 0
    /\ UNCHANGED <<cancelled, asked>>

PruneThenReturn ==   \* faulty variant: the loop of Run ends after one task
    /\ job = "pruning"
    /\ Delete({s \in Sessions : Stale(s)})
    /\ job' = "returned"

PruneTurnsOnly ==   \* faulty variant: lastActivity keeps the deleted sessions
    /\ job = "pruning"
    /\ turnsBy' = [s \in Sessions |-> IF Stale(s) THEN <<>> ELSE turnsBy[s]]
    /\ job' = "waiting"
    /\ lag' = 0
    /\ UNCHANGED <<age, cancelled, asked>>

\* PruneOlderThan; then Run's loop goes on.
PruneOlderThan ==
    /\ job = "pruning"
    /\ Delete({s \in Sessions : Stale(s)})
    /\ job' = "waiting"

\* main returns: workerCtx is cancelled, and Run's select may see it.
Cancel ==
    /\ ~cancelled
    /\ cancelled' = TRUE
    /\ UNCHANGED <<turnsBy, age, job, lag, asked>>

RunReturns ==
    /\ cancelled
    /\ job = "waiting"
    /\ job' = "returned"
    /\ UNCHANGED <<turnsBy, age, lag, cancelled, asked>>

Next ==
    \/ \E s \in Sessions, q \in Questions : AppendTurns(s, q)
    \/ Tick \/ Fire \/ PruneOlderThan \/ Cancel \/ RunReturns

--------------------------------------------------------------------------------
TypeOK ==
    /\ turnsBy \in [Sessions -> Seq(TurnSet)]
    /\ age \in [Sessions -> 0..OldAge \cup {None}]
    /\ job \in {"waiting", "pruning", "returned"}
    /\ lag \in 0..MaxLag
    /\ cancelled \in BOOLEAN
    /\ asked \subseteq Questions
    /\ \A s \in Sessions : age[s] = None <=> turnsBy[s] = <<>>
================================================================================
