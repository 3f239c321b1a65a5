------------------------------- MODULE RagStream -------------------------------
(***************************************************************************)
(* POST /api/v1/rag/query: RAGHandlers.Query in handlers/rag.go relays the *)
(* events of mlclient.Client.Query, whose goroutine reads ml-service's     *)
(* stream and hands them over on an unbuffered channel.  Requests run      *)
(* concurrently and share the conversation store, taken as its promise     *)
(* ConversationStore.                                                      *)
(*                                                                         *)
(* External, as the code uses them: gin's c.Stream looks for a client that *)
(* has gone before each step and flushes what the step wrote after it; the *)
(* HTTP server cancels the request's context when the client goes or the   *)
(* handler returns, which makes Recv fail.                                 *)
(***************************************************************************)
EXTENDS Turns, FiniteSets

CONSTANT MaxTokens   \* bound: tokens generated for one answer

ASSUME RagAssumption == MaxTokens \in Nat

Requests == Questions

VARIABLES
    turns, idle,  \* ConversationStore
    pc,           \* pc[r]: where the handler of r is
    session,      \* session[r]: the session r belongs to
    context,      \* context[r]: the history sent to the model
    answer,       \* answer[r]: tokens in the handler's strings.Builder
    reader,       \* reader[r]: the goroutine of Client.Query: none, recv (in Recv),
                  \*   token, final, error (sending that event), ended (channel closed)
    generated,    \* generated[r]: tokens ml-service has yielded
    finished,     \* finished[r]: ml-service has yielded the final message
    gone,         \* gone[r]: the client has left
    shown,        \* shown[r]: tokens flushed to the client
    told          \* history: told[s], requests whose final event the client has been
                  \*   sent and whose turns were stored, until the session is forgotten

convVars == <<turns, idle>>
handlerVars == <<pc, session, context, answer, shown>>
streamVars == <<reader, generated, finished>>
vars == <<convVars, handlerVars, streamVars, gone, told>>

Store == INSTANCE ConversationStore

PCs == {"idle", "load", "open", "check", "receive", "persist",
        "flush", "flushStored", "flushLast", "returned"}
Readers == {"none", "recv", "token", "final", "error", "ended"}

Init ==
    /\ Store!Init
    /\ pc = [r \in Requests |-> "idle"]
    /\ session \in [Requests -> Sessions]
    /\ context = [r \in Requests |-> <<>>]
    /\ answer = [r \in Requests |-> 0]
    /\ reader = [r \in Requests |-> "none"]
    /\ generated = [r \in Requests |-> 0]
    /\ finished = [r \in Requests |-> FALSE]
    /\ gone = [r \in Requests |-> FALSE]
    /\ shown = [r \in Requests |-> 0]
    /\ told = [s \in Sessions |-> {}]

GoTo(r, p) == pc' = [pc EXCEPT ![r] = p]
ReaderTo(r, p) == reader' = [reader EXCEPT ![r] = p]

\* A step that only moves the handler, and one that receives from the goroutine.
Move(r, p) ==
    /\ GoTo(r, p)
    /\ UNCHANGED <<convVars, session, context, answer, shown, streamVars, gone, told>>

Take(r, event, p, then) ==
    /\ pc[r] = "receive" /\ reader[r] = event
    /\ GoTo(r, p)
    /\ ReaderTo(r, then)
    /\ UNCHANGED <<convVars, session, context, shown, generated, finished, gone>>

ContextDone(r) == gone[r] \/ pc[r] = "returned"
--------------------------------------------------------------------------------
(* RAGHandlers.Query *)

\* A request whose body binds; a malformed one is answered 400 and changes nothing.
Query(r) ==
    /\ pc[r] = "idle"
    /\ Move(r, "load")

\* resolveHistory: the session's stored history, or the one in the body.
ResolveHistory(r) ==
    /\ pc[r] = "load"
    /\ context' = [context EXCEPT ![r] = turns[session[r]]]
    /\ GoTo(r, "open")
    /\ UNCHANGED <<convVars, session, answer, shown, streamVars, gone, told>>

UseBodyHistory(r) ==
    /\ pc[r] = "load"
    /\ Move(r, "open")

\* A role in the body or the store fails (400), or the stream does not open (500).
Refuse(r) ==
    /\ pc[r] \in {"load", "open"}
    /\ Move(r, "returned")

\* mlclient.Client.Query opens the stream and starts the goroutine.
OpenStream(r) ==
    /\ pc[r] = "open"
    /\ GoTo(r, "check")
    /\ ReaderTo(r, "recv")
    /\ UNCHANGED <<convVars, session, context, answer, shown, generated, finished, gone, told>>

\* c.Stream between two steps.
CheckClient(r) ==
    /\ pc[r] = "check"
    /\ Move(r, IF gone[r] THEN "returned" ELSE "receive")

\* The step's receive and the goroutine's send meet.  The receive of a closed channel
\* is never met: ml-service ends a stream that has not failed with the final event,
\* and a handler that has taken that one or an error receives no more.
TakeToken(r) ==
    /\ Take(r, "token", "flush", "recv")
    /\ answer' = [answer EXCEPT ![r] = @ + 1]
    /\ UNCHANGED told

TakeFinalFlushed(r) ==   \* faulty variant: the event leaves before the turns are stored
    /\ Take(r, "final", "persist", "recv")
    /\ told' = [told EXCEPT ![session[r]] = @ \cup {r}]
    /\ UNCHANGED answer

TakeFinal(r) == Take(r, "final", "persist", "recv") /\ UNCHANGED <<answer, told>>

TakeErrorAndPersist(r) ==   \* faulty variant: a broken-off answer is stored too
    Take(r, "error", "persist", "ended") /\ UNCHANGED <<answer, told>>

TakeError(r) == Take(r, "error", "flushLast", "ended") /\ UNCHANGED <<answer, told>>

\* persistTurns, while the final event is still in the response's buffer.  The
\* error of a store that fails is dropped.
PersistTurns(r) ==
    /\ pc[r] = "persist"
    /\ Store!AppendTurns(session[r], r)
    /\ GoTo(r, "flushStored")
    /\ UNCHANGED <<session, context, answer, shown, streamVars, gone, told>>

PersistFails(r) ==
    /\ pc[r] = "persist"
    /\ Move(r, "flushLast")

\* c.Stream's Flush after a step, and the end of the stream when it said so.
Flush(r) ==
    /\ pc[r] \in {"flush", "flushStored", "flushLast"}
    /\ shown' = [shown EXCEPT ![r] = answer[r]]
    /\ told' = IF pc[r] = "flushStored"
               THEN [told EXCEPT ![session[r]] = @ \cup {r}] ELSE told
    /\ GoTo(r, IF pc[r] = "flush" THEN "check" ELSE "returned")
    /\ UNCHANGED <<convVars, session, context, answer, streamVars, gone>>

Handler(r) ==
    \/ ResolveHistory(r) \/ UseBodyHistory(r) \/ Refuse(r) \/ OpenStream(r)
    \/ CheckClient(r) \/ TakeToken(r) \/ TakeFinal(r) \/ TakeError(r)
    \/ PersistTurns(r) \/ PersistFails(r) \/ Flush(r)
--------------------------------------------------------------------------------
(* The goroutine's Recv, and RAGServicer.Query behind it *)

Received(r, event) ==
    /\ reader[r] = "recv"
    /\ ReaderTo(r, event)
    /\ UNCHANGED <<convVars, handlerVars, gone, told>>

RecvToken(r) ==
    /\ ~finished[r] /\ generated[r] < MaxTokens
    /\ generated' = [generated EXCEPT ![r] = @ + 1]
    /\ Received(r, "token")
    /\ UNCHANGED finished

\* The final message comes after every token of the answer, and once.
RecvFinal(r) ==
    /\ ~finished[r]
    /\ finished' = [finished EXCEPT ![r] = TRUE]
    /\ Received(r, "final")
    /\ UNCHANGED generated

RecvEOF(r) ==
    /\ finished[r]
    /\ Received(r, "ended")
    /\ UNCHANGED <<generated, finished>>

\* Retrieval, the model or the connection fails.
RecvError(r) == Received(r, "error") /\ UNCHANGED <<generated, finished>>

RecvUncancelled(r) == FALSE /\ RecvError(r)   \* faulty variant: context.Background()

RecvCancelled(r) == ContextDone(r) /\ RecvError(r)

Stream(r) == RecvToken(r) \/ RecvFinal(r) \/ RecvEOF(r)
--------------------------------------------------------------------------------
(* The client, and time *)

ClientLeaves(r) ==
    /\ pc[r] \notin {"idle", "returned"} /\ ~gone[r]
    /\ gone' = [gone EXCEPT ![r] = TRUE]
    /\ UNCHANGED <<convVars, handlerVars, streamVars, told>>

\* Sessions nobody has used for MaxAge (24h) are forgotten; one flush takes less.
Elapse ==
    \E units \in {0, 1}, forgotten \in SUBSET Sessions :
        /\ \A r \in Requests : pc[r] = "flushStored" => session[r] \notin forgotten
        /\ Store!Elapse(units, forgotten)
        /\ told' = [s \in Sessions |-> IF s \in forgotten THEN {} ELSE told[s]]
        /\ UNCHANGED <<handlerVars, streamVars, gone>>

Next ==
    \/ \E r \in Requests :
          \/ Query(r) \/ Handler(r) \/ ClientLeaves(r)
          \/ Stream(r) \/ RecvError(r) \/ RecvCancelled(r)
    \/ Elapse

Spec == Init /\ [][Next]_vars

\* Handlers run, and a Recv whose context is done returns; ml-service need not answer.
FairSpec ==
    /\ Spec
    /\ \A r \in Requests : WF_vars(Handler(r)) /\ WF_vars(RecvCancelled(r))

\* Moreover ml-service answers every question to the end.
AnsweringSpec == FairSpec /\ \A r \in Requests : WF_vars(Stream(r))
--------------------------------------------------------------------------------
TypeOK ==
    /\ turns \in [Sessions -> Seq(TurnSet)]
    /\ \A t \in Sessions : Len(turns[t]) <= MaxTurns
    /\ idle \in [Sessions -> 0..MaxAge]
    /\ pc \in [Requests -> PCs]
    /\ session \in [Requests -> Sessions]
    /\ context \in [Requests -> Seq(TurnSet)]
    /\ answer \in [Requests -> 0..MaxTokens]
    /\ reader \in [Requests -> Readers]
    /\ generated \in [Requests -> 0..MaxTokens]
    /\ finished \in [Requests -> BOOLEAN]
    /\ gone \in [Requests -> BOOLEAN]
    /\ shown \in [Requests -> 0..MaxTokens]
    /\ told \in [Sessions -> SUBSET Requests]

Stored(s, r) == \E i \in DOMAIN turns[s] : turns[s][i] = Turn("assistant", r)

\* What enters a conversation is a complete answer, every token of which the client
\* was sent before: nothing broken off by an error or a client that left.
OnlyWholeAnswers ==
    \A s \in Sessions, r \in Requests :
        Stored(s, r) => /\ session[r] = s
                        /\ finished[r]
                        /\ answer[r] = generated[r] /\ shown[r] = generated[r]

\* A client that has seen an answer end and asks on in the session finds it in the
\* history its question is sent with, unless as many newer ones displaced it: the
\* turns are stored before the final event leaves the gateway (rag.go, persistTurns).
FollowUpSeesAnswer ==
    [][\A r \in Requests, p \in Requests :
          /\ ResolveHistory(r)
          /\ p \in told[session[r]]
          => \/ \E i \in DOMAIN context'[r] : context'[r][i] = Turn("assistant", p)
             \/ Len(context'[r]) = MaxTurns]_vars

\* A client that leaves never leaves its handler behind, even when ml-service has
\* stopped answering.
LeavingEndsTheHandler == \A r \in Requests : gone[r] ~> pc[r] = "returned"

\* client.go on Query: "The returned channel is closed once the final message has
\* been sent or an error occurs".  Violated: the goroutine of a request whose client
\* left, or whose context ends before it reads the end of the stream, waits for
\* ever to hand over an event nobody will receive.
ChannelCloses == \A r \in Requests : reader[r] # "none" ~> reader[r] = "ended"
================================================================================
