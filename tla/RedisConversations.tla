--------------------------- MODULE RedisConversations ---------------------------
(***************************************************************************)
(* gateway-go/internal/conversation/redis_store.go over Redis, which is    *)
(* external: a list per session, one MULTI/EXEC per append, and native     *)
(* expiry in place of the prune job.  Other gateways share the server, and *)
(* it outlives them.                                                       *)
(***************************************************************************)
EXTENDS Turns, FiniteSets

VARIABLES
    list,     \* list[s]: the list under the key, <<>> when there is none
    ttl,      \* ttl[s]: time the key has left, 0 when there is none
    replied   \* replied[q]: what AppendTurns returned: none, ok, error

vars == <<list, ttl, replied>>

Init ==
    /\ list = [s \in Sessions |-> <<>>]
    /\ ttl = [s \in Sessions |-> 0]
    /\ replied = [q \in Questions |-> "none"]
--------------------------------------------------------------------------------
ExecWithoutExpire(s, q) ==   \* faulty variant: only a new key is given its TTL
    /\ list' = [list EXCEPT ![s] = Newest(@ \o Pair(q))]
    /\ ttl' = [ttl EXCEPT ![s] = IF @ = 0 THEN MaxAge ELSE @]

\* RPush, LTrim and Expire, run by Redis as one transaction.
Exec(s, q) ==
    /\ list' = [list EXCEPT ![s] = Newest(@ \o Pair(q))]
    /\ ttl' = [ttl EXCEPT ![s] = MaxAge]

Reply(q, r) ==
    /\ replied[q] = "none"
    /\ replied' = [replied EXCEPT ![q] = r]

AppendTurns(s, q) == Exec(s, q) /\ Reply(q, "ok")

\* The connection or the context of the request fails: before Redis executes
\* the transaction, or after it, when only the reply is lost.
AppendFails(q) == Reply(q, "error") /\ UNCHANGED <<list, ttl>>
AppendUnanswered(s, q) == Exec(s, q) /\ Reply(q, "error")

\* LRange; an expired key is an empty list.
History(s) == list[s]

\* One unit of time: keys whose TTL runs out are gone.
Tick ==
    /\ ttl' = [s \in Sessions |-> IF ttl[s] = 0 THEN 0 ELSE ttl[s] - 1]
    /\ list' = [s \in Sessions |-> IF ttl'[s] = 0 THEN <<>> ELSE list[s]]
    /\ UNCHANGED replied

Next ==
    \/ \E s \in Sessions, q \in Questions : AppendTurns(s, q) \/ AppendUnanswered(s, q)
    \/ \E q \in Questions : AppendFails(q)
    \/ Tick

--------------------------------------------------------------------------------
TypeOK ==
    /\ list \in [Sessions -> Seq(TurnSet)]
    /\ ttl \in [Sessions -> 0..MaxAge]
    /\ replied \in [Questions -> {"none", "ok", "error"}]
    /\ \A s \in Sessions : ttl[s] = 0 <=> list[s] = <<>>
================================================================================
