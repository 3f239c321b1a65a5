--------------------------- MODULE ConversationStore ---------------------------
(***************************************************************************)
(* What the RAG handler is promised by conversation.Store (store.go), with *)
(* no clock, scheduler, lock or Redis in sight: a session's history is the *)
(* newest turns appended to it, and is forgotten, whole, only when nothing *)
(* was appended for MaxAge.  MemoryConversations and RedisConversations    *)
(* implement this.                                                         *)
(***************************************************************************)
EXTENDS Turns, FiniteSets

VARIABLES turns,   \* turns[s]: what History returns for s
          idle     \* idle[s]: time since the last append to s, no more than MaxAge

vars == <<turns, idle>>

Init ==
    /\ turns = [s \in Sessions |-> <<>>]
    /\ idle = [s \in Sessions |-> MaxAge]

AppendTurns(s, q) ==
    /\ turns' = [turns EXCEPT ![s] = Newest(@ \o Pair(q))]
    /\ idle' = [idle EXCEPT ![s] = 0]

\* Time passes, and sessions that have been idle for MaxAge may be forgotten.
Elapse(units, forgotten) ==
    /\ idle' = [s \in Sessions |-> IF idle[s] + units < MaxAge THEN idle[s] + units ELSE MaxAge]
    /\ \A s \in forgotten : idle'[s] = MaxAge
    /\ turns' = [s \in Sessions |-> IF s \in forgotten THEN <<>> ELSE turns[s]]

Next ==
    \/ \E s \in Sessions, q \in Questions : AppendTurns(s, q)
    \/ \E units \in {0, 1}, forgotten \in SUBSET Sessions : Elapse(units, forgotten)

Spec == Init /\ [][Next]_vars
================================================================================
