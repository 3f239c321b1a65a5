-------------------------------- MODULE Turns --------------------------------
(***************************************************************************)
(* gateway-go/internal/conversation/turn.go and the cap both stores share: *)
(* what one answered question adds to a conversation, and what is kept.    *)
(***************************************************************************)
EXTENDS Naturals, Sequences

CONSTANTS Sessions,   \* session ids
          Questions,  \* answered questions, each appended at most once
          MaxPairs,   \* half of maxTurnsPerSession (20 in the code)
          MaxAge      \* cfg.ConversationMaxAge, in units of time

ASSUME TurnsAssumption == MaxPairs \in Nat \ {0} /\ MaxAge \in Nat \ {0}

MaxTurns == 2 * MaxPairs

TurnSet == [role : {"user", "assistant"}, of : Questions]

Turn(role, q) == [role |-> role, of |-> q]

\* What the RAG handler appends: the question and its answer, in one call.
Pair(q) == <<Turn("user", q), Turn("assistant", q)>>

NewestOdd(ts) ==   \* faulty variant: the slice starts one turn too late
    IF Len(ts) > MaxTurns THEN SubSeq(ts, Len(ts) - MaxTurns + 2, Len(ts)) ELSE ts

NewestAll(ts) == ts   \* faulty variant: nothing is trimmed

\* The most recent MaxTurns of a conversation.
Newest(ts) ==
    IF Len(ts) > MaxTurns THEN SubSeq(ts, Len(ts) - MaxTurns + 1, Len(ts)) ELSE ts

\* Question and answer stay together, in order, and within the cap: trimming
\* never leaves an answer without the question it answers.
WholePairs(ts) ==
    \E n \in 0..MaxPairs :
        /\ Len(ts) = 2 * n
        /\ \A i \in 1..n : /\ ts[2 * i - 1].role = "user"
                           /\ ts[2 * i] = Turn("assistant", ts[2 * i - 1].of)
==============================================================================
