---------------------------- MODULE Conversations ----------------------------
(***************************************************************************)
(* Conversation memory as cmd/gateway/main.go wires it: with REDIS_ADDR    *)
(* set the gateway keeps conversations in Redis, without it in memory      *)
(* under the prune job.  Either way the RAG handler sees one Store.        *)
(***************************************************************************)
EXTENDS MemoryConversations

VARIABLES backend,            \* what cfg.RedisAddr selected: memory or redis
          list, ttl, replied  \* RedisConversations

Redis == INSTANCE RedisConversations

redisVars == <<list, ttl, replied>>
storeVars == <<backend, vars, redisVars>>

StoreInit == backend \in {"memory", "redis"} /\ Init /\ Redis!Init

StoreNext ==
    /\ UNCHANGED backend
    /\ \/ backend = "memory" /\ Next /\ UNCHANGED redisVars
       \/ backend = "redis" /\ Redis!Next /\ UNCHANGED vars

StoreSpec == StoreInit /\ [][StoreNext]_storeVars

\* Time passes, the ticker keeps firing, and the job gets the store's mutex.
FairStoreSpec ==
    /\ StoreSpec
    /\ WF_storeVars(backend = "memory" /\ Tick /\ UNCHANGED <<backend, redisVars>>)
    /\ WF_storeVars(backend = "memory" /\ Fire /\ UNCHANGED <<backend, redisVars>>)
    /\ WF_storeVars(backend = "memory" /\ PruneOlderThan /\ UNCHANGED <<backend, redisVars>>)
    /\ WF_storeVars(backend = "redis" /\ Redis!Tick /\ UNCHANGED <<backend, vars>>)

\* Store.History, whichever store is behind the interface.
HistoryOf(s) == IF backend = "memory" THEN History(s) ELSE Redis!History(s)
IdleOf(s) ==
    IF backend = "redis" THEN MaxAge - ttl[s]
    ELSE IF age[s] = None \/ age[s] > MaxAge THEN MaxAge ELSE age[s]
------------------------------------------------------------------------------
\* Types, and that a store's two tables (turns and activity, list and TTL) hold
\* the same sessions.
StoresTypeOK ==
    /\ backend \in {"memory", "redis"}
    /\ TypeOK
    /\ Redis!TypeOK

\* Whatever is trimmed, pruned, expired, failed or left unanswered, a history is
\* whole pairs of question and answer within the cap.
HistoriesAreWhole == \A s \in Sessions : WholePairs(HistoryOf(s))

\* A conversation that is used again survives a prune that began before, and
\* none younger than MaxAge is forgotten (PruneOlderThan, Redis' Expire).
Promise == INSTANCE ConversationStore WITH
    turns <- [s \in Sessions |-> HistoryOf(s)],
    idle  <- [s \in Sessions |-> IdleOf(s)]
ImplementsConversationStore == Promise!Spec

\* An abandoned session does not stay for the life of the process: each is in
\* the end removed for good, or the prune job was told to stop.
AbandonedIsForgotten == \A s \in Sessions : <>[](HistoryOf(s) = <<>> \/ cancelled)
==============================================================================
