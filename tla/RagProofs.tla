------------------------------- MODULE RagProofs -------------------------------
(***************************************************************************)
(* Theorems about RagStream, for any number of questions, sessions, tokens *)
(* and turns kept: what enters a conversation is a whole answer its client *)
(* was sent, and a follow-up finds the answer its client saw end.  Inv is  *)
(* inductive.                                                              *)
(***************************************************************************)
EXTENDS RagStream, SequenceTheorems, TLAPS

\* No token is lost or taken twice between ml-service and the handler.
Counted ==
    \A r \in Requests :
        /\ generated[r] = IF reader[r] = "token" THEN answer[r] + 1 ELSE answer[r]
        /\ finished[r] => reader[r] # "token"
        /\ reader[r] = "final" \/ pc[r] = "persist" => finished[r]
        /\ pc[r] \in {"idle", "load", "open"} => reader[r] = "none"
        /\ pc[r] # "flush" => shown[r] = answer[r]

Kept ==
    \A s \in Sessions, r \in Requests :
        Stored(s, r) => session[r] = s /\ finished[r] /\ pc[r] \in {"flushStored", "returned"}

Present(s, r) == Stored(s, r) \/ Len(turns[s]) = MaxTurns

Told ==
    \A s \in Sessions, r \in Requests :
        r \in told[s] \/ (pc[r] = "flushStored" /\ session[r] = s) => Present(s, r)

Inv == TypeOK /\ Counted /\ Kept /\ Told
--------------------------------------------------------------------------------
LEMMA Bounds == MaxPairs \in Nat \ {0} /\ MaxTurns \in Nat /\ MaxTurns >= 2 /\ MaxTokens \in Nat
BY TurnsAssumption, RagAssumption DEF MaxTurns

\* What an append keeps: the new answer, everything while there is room, and nothing
\* that was not there.
LEMMA NewestKeeps ==
    ASSUME NEW ts \in Seq(TurnSet), Len(ts) <= MaxTurns, NEW q \in Questions,
           NEW new, new = Newest(ts \o Pair(q))
    PROVE  /\ new \in Seq(TurnSet)
           /\ Len(new) <= MaxTurns
           /\ \E i \in DOMAIN new : new[i] = Turn("assistant", q)
           /\ Len(ts) = MaxTurns => Len(new) = MaxTurns
           /\ \/ Len(new) = MaxTurns
              \/ \A i \in DOMAIN ts : \E j \in DOMAIN new : new[j] = ts[i]
           /\ \A j \in DOMAIN new : \/ new[j] \in {Turn("user", q), Turn("assistant", q)}
                                    \/ \E i \in DOMAIN ts : ts[i] = new[j]
<1> USE Bounds
<1>0. /\ Pair(q) \in Seq(TurnSet) /\ Len(Pair(q)) = 2
      /\ Pair(q)[1] = Turn("user", q) /\ Pair(q)[2] = Turn("assistant", q)
  BY DEF Pair, Turn, TurnSet
<1>1. PICK p \in Seq(TurnSet) : p = Pair(q)
  BY <1>0
<1>2. PICK long : long = ts \o p
  OBVIOUS
<1>3. /\ long \in Seq(TurnSet) /\ Len(long) = Len(ts) + 2 /\ Len(ts) \in Nat
      /\ \A k \in 1..Len(ts) : long[k] = ts[k]
      /\ long[Len(ts) + 1] = Turn("user", q) /\ long[Len(ts) + 2] = Turn("assistant", q)
  <2>1. /\ ts \o p \in Seq(TurnSet) /\ Len(ts \o p) = Len(ts) + Len(p)
        /\ \A k \in 1..(Len(ts) + Len(p)) :
             (ts \o p)[k] = IF k <= Len(ts) THEN ts[k] ELSE p[k - Len(ts)]
    BY ConcatProperties, Zenon
  <2>2. Len(p) = 2 /\ Len(ts) \in Nat
    BY <1>0, <1>1
  <2>3. PICK n \in Nat : n = Len(ts)
    BY <2>2
  <2>4. /\ n + 1 \in 1..(n + 2) /\ ~(n + 1 <= n) /\ n + 1 - n = 1
        /\ n + 2 \in 1..(n + 2) /\ ~(n + 2 <= n) /\ n + 2 - n = 2
        /\ \A k \in 1..n : k \in 1..(n + 2) /\ k <= n
    BY <2>3
  <2>5. /\ long \in Seq(TurnSet) /\ Len(long) = n + 2
        /\ \A k \in 1..(n + 2) : long[k] = IF k <= n THEN ts[k] ELSE p[k - n]
    BY <1>0, <1>1, <1>2, <2>1, <2>3
  <2> HIDE <1>2, <2>1
  <2>6. /\ \A k \in 1..n : long[k] = ts[k]
        /\ long[n + 1] = p[1] /\ long[n + 2] = p[2]
    BY <2>4, <2>5
  <2> QED
    BY <1>0, <1>1, <2>2, <2>3, <2>5, <2>6
<1>4. new = Newest(long)
  BY <1>1, <1>2
<1>5. CASE Len(long) <= MaxTurns
  <2>0. ~(Len(long) > MaxTurns)
    BY <1>3, <1>5
  <2>1. new = long
    BY <1>4, <2>0 DEF Newest
  <2>2. DOMAIN new = 1..(Len(ts) + 2) /\ DOMAIN ts = 1..Len(ts)
    BY <1>3, <2>1
  <2>3. Len(ts) + 2 \in DOMAIN new /\ \A i \in DOMAIN ts : i \in DOMAIN new /\ new[i] = ts[i]
    BY <1>3, <2>1, <2>2
  <2>4. \A j \in DOMAIN new : j \in DOMAIN ts \/ j = Len(ts) + 1 \/ j = Len(ts) + 2
    BY <1>3, <2>2
  <2>5. Len(ts) # MaxTurns
    BY <1>3, <1>5
  <2> QED
    BY <1>3, <1>5, <2>1, <2>3, <2>4, <2>5
<1>6. CASE Len(long) > MaxTurns
  <2>0. PICK m \in Nat : m = Len(long) - MaxTurns
    BY <1>3, <1>6
  <2>1. new = SubSeq(long, m + 1, Len(long))
    BY <1>4, <1>6, <2>0 DEF Newest
  <2>2. /\ new \in Seq(TurnSet) /\ Len(new) = MaxTurns
        /\ \A k \in 1..MaxTurns : new[k] = long[k + m]
    <3>1. m + 1 \in 1..(Len(long) + 1) /\ Len(long) \in (m + 1) - 1 .. Len(long)
      BY <1>3, <2>0
    <3>2. /\ new \in Seq(TurnSet) /\ Len(new) = Len(long) - (m + 1) + 1
          /\ \A k \in 1..(Len(long) - (m + 1) + 1) : new[k] = long[m + 1 + k - 1]
      BY <1>3, <2>0, <2>1, <3>1, SubSeqProperties
    <3>3. Len(long) - (m + 1) + 1 = MaxTurns /\ \A k \in 1..MaxTurns : m + 1 + k - 1 = k + m
      BY <1>3, <2>0
    <3> QED
      BY <3>2, <3>3
  <2>3. DOMAIN new = 1..MaxTurns /\ DOMAIN ts = 1..Len(ts)
    BY <2>2
  <2>4. new[MaxTurns] = Turn("assistant", q) /\ MaxTurns \in DOMAIN new
    <3>1. MaxTurns \in 1..MaxTurns /\ MaxTurns + m = Len(ts) + 2
      BY <1>3, <2>0
    <3> QED
      BY <1>3, <2>2, <2>3, <3>1
  <2>5. \A k \in 1..MaxTurns : k + m \in 1..Len(ts) \/ k + m \in {Len(ts) + 1, Len(ts) + 2}
    <3>1. PICK n \in Nat : n = Len(ts)
      BY <1>3
    <3>2. n + 2 = MaxTurns + m
      BY <1>3, <2>0, <3>1
    <3>3. \A k \in 1..MaxTurns : k + m \in 1..n \/ k + m \in {n + 1, n + 2}
      BY <3>2
    <3> QED
      BY <3>1, <3>3
  <2>6. \A j \in DOMAIN new : \/ new[j] \in {Turn("user", q), Turn("assistant", q)}
                              \/ \E i \in DOMAIN ts : ts[i] = new[j]
    <3> SUFFICES ASSUME NEW j \in 1..MaxTurns
                 PROVE  \/ new[j] \in {Turn("user", q), Turn("assistant", q)}
                        \/ \E i \in DOMAIN ts : ts[i] = new[j]
      BY <2>3
    <3>1. new[j] = long[j + m]
      BY <2>2
    <3>2. CASE j + m \in 1..Len(ts)
      BY <1>3, <2>3, <3>1, <3>2
    <3>3. CASE j + m \in {Len(ts) + 1, Len(ts) + 2}
      BY <1>3, <3>1, <3>3
    <3> QED
      BY <2>5, <3>2, <3>3
  <2> QED
    BY <2>2, <2>4, <2>6
<1> QED
  BY <1>3, <1>5, <1>6

\* A session's answers after an append, in the terms of the invariant.
LEMMA AppendKeeps ==
    ASSUME TypeOK, NEW s \in Sessions, NEW q \in Requests, Store!AppendTurns(s, q)
    PROVE  /\ turns' \in [Sessions -> Seq(TurnSet)]
           /\ \A t \in Sessions : Len(turns'[t]) <= MaxTurns
           /\ \A t \in Sessions : t # s => turns'[t] = turns[t]
           /\ \A r \in Requests : Present(s, r) => Present(s, r)'
           /\ Stored(s, q)'
           /\ \A r \in Requests : Stored(s, r)' => r = q \/ Stored(s, r)
<1>0. turns \in [Sessions -> Seq(TurnSet)] /\ \A t \in Sessions : Len(turns[t]) <= MaxTurns
  BY DEF TypeOK
<1>1. PICK new : new = Newest(turns[s] \o Pair(q))
  OBVIOUS
<1>2. turns' = [turns EXCEPT ![s] = new]
  BY <1>1 DEF Store!AppendTurns, Store!Newest, Store!Pair, Store!Turn, Store!MaxTurns,
     Newest, Pair, Turn, MaxTurns
<1>3. /\ new \in Seq(TurnSet)
      /\ Len(new) <= MaxTurns
      /\ \E i \in DOMAIN new : new[i] = Turn("assistant", q)
      /\ Len(turns[s]) = MaxTurns => Len(new) = MaxTurns
      /\ \/ Len(new) = MaxTurns
         \/ \A i \in DOMAIN turns[s] : \E j \in DOMAIN new : new[j] = turns[s][i]
      /\ \A j \in DOMAIN new : \/ new[j] \in {Turn("user", q), Turn("assistant", q)}
                               \/ \E i \in DOMAIN turns[s] : turns[s][i] = new[j]
  <2>1. turns[s] \in Seq(TurnSet) /\ Len(turns[s]) <= MaxTurns /\ q \in Questions
    BY <1>0 DEF Requests
  <2> QED
    BY <1>1, <2>1, NewestKeeps, SMTT(20)
<1>4. turns'[s] = new /\ \A t \in Sessions : t # s => turns'[t] = turns[t]
  BY <1>0, <1>2
<1>5. /\ turns' \in [Sessions -> Seq(TurnSet)]
      /\ \A t \in Sessions : Len(turns'[t]) <= MaxTurns
  BY <1>0, <1>2, <1>3, <1>4
<1>6. \A r \in Requests : Turn("assistant", r) \in {Turn("user", q), Turn("assistant", q)} => r = q
  BY DEF Turn
<1>7. \A r \in Requests : Stored(s, r)' => r = q \/ Stored(s, r)
  <2> SUFFICES ASSUME NEW r \in Requests, Stored(s, r)' PROVE r = q \/ Stored(s, r)
    OBVIOUS
  <2>1. PICK j \in DOMAIN new : new[j] = Turn("assistant", r)
    BY <1>4 DEF Stored
  <2>2. CASE new[j] \in {Turn("user", q), Turn("assistant", q)}
    BY <1>6, <2>1, <2>2
  <2>3. CASE \E i \in DOMAIN turns[s] : turns[s][i] = new[j]
    BY <2>1, <2>3 DEF Stored
  <2> QED
    BY <1>3, <2>1, <2>2, <2>3
<1>8. \A r \in Requests : Present(s, r) => Present(s, r)'
  <2> SUFFICES ASSUME NEW r \in Requests, Present(s, r), Len(new) # MaxTurns PROVE Stored(s, r)'
    BY <1>4 DEF Present
  <2>1. CASE Stored(s, r)
    BY <1>3, <1>4, <2>1 DEF Stored
  <2> QED
    BY <1>3, <2>1 DEF Present
<1> QED
  BY <1>3, <1>4, <1>5, <1>7, <1>8 DEF Stored
--------------------------------------------------------------------------------
LEMMA InitInv == Init => Inv
<1> SUFFICES ASSUME Init PROVE Inv
  OBVIOUS
<1> USE Bounds
<1>1. \A s \in Sessions : turns[s] = <<>>
  BY DEF Init, Store!Init
<1>2. TypeOK
  BY TurnsAssumption, RagAssumption DEF Init, Store!Init, TypeOK, PCs, Readers
<1>3. Counted /\ Told
  BY DEF Init, Counted, Told
<1>4. \A s \in Sessions, r \in Requests : ~Stored(s, r)
  BY <1>1 DEF Stored
<1> QED
  BY <1>2, <1>3, <1>4 DEF Inv, Kept

\* The steps of a handler that leave the conversations alone.
QuietHandler(r) ==
    \/ Query(r) \/ ResolveHistory(r) \/ UseBodyHistory(r) \/ Refuse(r) \/ OpenStream(r)
    \/ CheckClient(r) \/ TakeToken(r) \/ TakeFinal(r) \/ TakeError(r) \/ PersistFails(r)

Reading(r) == RecvToken(r) \/ RecvFinal(r) \/ RecvEOF(r) \/ RecvError(r)

LEMMA NextCases ==
    [Next]_vars => \/ \E r \in Requests : \/ QuietHandler(r) \/ PersistTurns(r) \/ Flush(r)
                                          \/ Reading(r) \/ ClientLeaves(r)
                   \/ Elapse \/ UNCHANGED vars
BY DEF Next, Handler, Stream, QuietHandler, Reading, RecvCancelled

LEMMA QuietType == ASSUME Inv, NEW r \in Requests, QuietHandler(r) PROVE TypeOK'
<1> USE Bounds
<1>0. TypeOK /\ Counted
  BY DEF Inv
<1>1. CASE Query(r) \/ UseBodyHistory(r) \/ Refuse(r) \/ CheckClient(r) \/ PersistFails(r)
  BY <1>0, <1>1 DEF Query, UseBodyHistory, Refuse, CheckClient, PersistFails, Move, GoTo,
     TypeOK, convVars, streamVars, PCs
<1>2. CASE ResolveHistory(r)
  <2>1. turns[session[r]] \in Seq(TurnSet)
    BY <1>0 DEF TypeOK
  <2> QED
    BY <1>0, <1>2, <2>1 DEF ResolveHistory, GoTo, TypeOK, convVars, streamVars, PCs
<1>3. CASE OpenStream(r)
  BY <1>0, <1>3 DEF OpenStream, GoTo, ReaderTo, TypeOK, convVars, PCs, Readers
<1>4. CASE TakeToken(r)
  <2>1. answer[r] + 1 = generated[r] /\ generated[r] \in 0..MaxTokens
    BY <1>0, <1>4 DEF Counted, TakeToken, Take, TypeOK
  <2> QED
    BY <1>0, <1>4, <2>1 DEF TakeToken, Take, GoTo, ReaderTo, TypeOK, convVars, PCs, Readers
<1>5. CASE TakeFinal(r)
  BY <1>0, <1>5 DEF TakeFinal, Take, GoTo, ReaderTo, TypeOK, convVars, PCs, Readers
<1>6. CASE TakeError(r)
  BY <1>0, <1>6 DEF TakeError, Take, GoTo, ReaderTo, TypeOK, convVars, PCs, Readers
<1> QED
  BY <1>1, <1>2, <1>3, <1>4, <1>5, <1>6 DEF QuietHandler

LEMMA QuietCounted == ASSUME Inv, NEW r \in Requests, QuietHandler(r) PROVE Counted'
<1>0. TypeOK /\ Counted
  BY DEF Inv
<1>1. CASE Query(r) \/ UseBodyHistory(r) \/ Refuse(r) \/ CheckClient(r) \/ PersistFails(r)
  BY <1>0, <1>1 DEF Query, UseBodyHistory, Refuse, CheckClient, PersistFails, Move, GoTo,
     TypeOK, Counted, streamVars
<1>2. CASE ResolveHistory(r)
  BY <1>0, <1>2 DEF ResolveHistory, GoTo, TypeOK, Counted, streamVars
<1>3. CASE OpenStream(r)
  <2>1. reader[r] # "token"
    BY <1>0, <1>3 DEF OpenStream, Counted
  <2> QED
    BY <1>0, <1>3, <2>1 DEF OpenStream, GoTo, ReaderTo, TypeOK, Counted
<1>4. CASE TakeToken(r)
  BY <1>0, <1>4 DEF TakeToken, Take, GoTo, ReaderTo, TypeOK, Counted
<1>5. CASE TakeFinal(r) \/ TakeError(r)
  BY <1>0, <1>5 DEF TakeFinal, TakeError, Take, GoTo, ReaderTo, TypeOK, Counted
<1> QED
  BY <1>1, <1>2, <1>3, <1>4, <1>5 DEF QuietHandler

\* They neither end a handler that has stored its answer nor make one store.
LEMMA QuietSame ==
    ASSUME Inv, NEW r \in Requests, QuietHandler(r)
    PROVE  /\ UNCHANGED <<turns, session, told, finished>>
           /\ pc[r] \notin {"flushStored", "returned"}
           /\ pc'[r] # "flushStored"
           /\ \A q \in Requests : q # r => pc'[q] = pc[q]
<1>0. TypeOK
  BY DEF Inv
<1> QED
  BY <1>0 DEF QuietHandler, Query, ResolveHistory, UseBodyHistory, Refuse, OpenStream, CheckClient,
     PersistFails, TakeToken, TakeFinal, TakeError, Take, Move, GoTo, TypeOK,
     convVars, streamVars

LEMMA SameConversations ==
    ASSUME Kept, Told, UNCHANGED <<turns, session, told>>,
           \A q \in Requests : /\ finished[q] => finished'[q]
                               /\ pc[q] \in {"flushStored", "returned"} => pc'[q] = pc[q]
                               /\ pc'[q] = "flushStored" => pc[q] = "flushStored"
    PROVE  Kept' /\ Told'
<1>1. \A s \in Sessions, q \in Requests : /\ Stored(s, q)' <=> Stored(s, q)
                                          /\ Present(s, q)' <=> Present(s, q)
  BY DEF Stored, Present
<1>2. Kept'
  BY <1>1 DEF Kept
<1>3. Told'
  BY <1>1 DEF Told
<1> QED
  BY <1>2, <1>3

LEMMA PersistInv == ASSUME Inv, NEW r \in Requests, PersistTurns(r) PROVE Inv'
<1>0. TypeOK /\ Counted /\ Kept /\ Told
  BY DEF Inv
<1>1. PICK s \in Sessions : s = session[r]
  BY <1>0 DEF TypeOK
<1>2. /\ pc[r] = "persist" /\ finished[r] /\ pc' = [pc EXCEPT ![r] = "flushStored"]
      /\ Store!AppendTurns(s, r)
      /\ idle' = [idle EXCEPT ![s] = 0]
      /\ UNCHANGED <<session, context, answer, shown, reader, generated, finished, gone, told>>
  BY <1>0, <1>1 DEF PersistTurns, GoTo, Counted, Store!AppendTurns, streamVars
<1>3. /\ turns' \in [Sessions -> Seq(TurnSet)]
      /\ \A t \in Sessions : Len(turns'[t]) <= MaxTurns
      /\ \A t \in Sessions : t # s => turns'[t] = turns[t]
      /\ \A q \in Requests : Present(s, q) => Present(s, q)'
      /\ Stored(s, r)'
      /\ \A q \in Requests : Stored(s, q)' => q = r \/ Stored(s, q)
  BY <1>0, <1>2, AppendKeeps
<1>4. TypeOK'
  <2>1. 0 \in 0..MaxAge
    BY TurnsAssumption
  <2> QED
    BY <1>0, <1>2, <1>3, <2>1 DEF TypeOK, PCs
<1>5. Counted'
  BY <1>0, <1>2 DEF TypeOK, Counted
<1>6. /\ pc'[r] = "flushStored" /\ \A q \in Requests : q # r => pc'[q] = pc[q]
  BY <1>0, <1>2 DEF TypeOK
<1>7. \A t \in Sessions, q \in Requests : t # s => (Stored(t, q)' <=> Stored(t, q)) /\ (Present(t, q) => Present(t, q)')
  BY <1>3 DEF Stored, Present
<1>8. Kept'
  <2> SUFFICES ASSUME NEW t \in Sessions, NEW q \in Requests, Stored(t, q)'
               PROVE  session[q] = t /\ finished[q] /\ pc'[q] \in {"flushStored", "returned"}
    BY <1>2 DEF Kept
  <2>1. CASE q = r /\ t = s
    BY <1>1, <1>2, <1>6, <2>1
  <2>2. CASE ~(q = r /\ t = s)
    <3>1. Stored(t, q)
      BY <1>3, <1>7, <2>2
    <3>2. session[q] = t /\ finished[q] /\ pc[q] \in {"flushStored", "returned"}
      BY <1>0, <3>1 DEF Kept
    <3> QED
      BY <1>2, <1>6, <3>2
  <2> QED
    BY <2>1, <2>2
<1>9. Told'
  <2>1. \A t \in Sessions, q \in Requests : Present(t, q) => Present(t, q)'
    BY <1>3, <1>7
  <2> SUFFICES ASSUME NEW t \in Sessions, NEW q \in Requests,
                      q \in told[t] \/ (pc'[q] = "flushStored" /\ session[q] = t)
               PROVE  Present(t, q)'
    BY <1>2 DEF Told
  <2>2. CASE q = r /\ t = s
    BY <1>3, <2>2 DEF Present
  <2>3. CASE ~(q = r /\ t = s)
    <3>1. q \in told[t] \/ (pc[q] = "flushStored" /\ session[q] = t)
      BY <1>1, <1>6, <2>3
    <3> QED
      BY <1>0, <2>1, <3>1 DEF Told
  <2> QED
    BY <2>2, <2>3
<1> QED
  BY <1>4, <1>5, <1>8, <1>9 DEF Inv

LEMMA FlushInv == ASSUME Inv, NEW r \in Requests, Flush(r) PROVE Inv'
<1>0. TypeOK /\ Counted /\ Kept /\ Told
  BY DEF Inv
<1>1. /\ pc[r] \in {"flush", "flushStored", "flushLast"}
      /\ pc' = [pc EXCEPT ![r] = IF pc[r] = "flush" THEN "check" ELSE "returned"]
      /\ shown' = [shown EXCEPT ![r] = answer[r]]
      /\ told' = IF pc[r] = "flushStored" THEN [told EXCEPT ![session[r]] = @ \cup {r}] ELSE told
      /\ UNCHANGED <<turns, idle, session, context, answer, reader, generated, finished, gone>>
  BY DEF Flush, GoTo, convVars, streamVars
<1>2. TypeOK'
  BY <1>0, <1>1 DEF TypeOK, PCs
<1>3. Counted'
  BY <1>0, <1>1 DEF TypeOK, Counted
<1>4. Kept'
  <2>1. \A s \in Sessions, q \in Requests : Stored(s, q)' <=> Stored(s, q)
    BY <1>1 DEF Stored
  <2>2. \A q \in Requests : pc[q] \in {"flushStored", "returned"} => pc'[q] \in {"flushStored", "returned"}
    BY <1>0, <1>1 DEF TypeOK
  <2> QED
    BY <1>0, <1>1, <2>1, <2>2 DEF Kept
<1>5. Told'
  <2> SUFFICES ASSUME NEW s \in Sessions, NEW q \in Requests,
                      q \in told'[s] \/ (pc'[q] = "flushStored" /\ session[q] = s)
               PROVE  Present(s, q)
    BY <1>1 DEF Told, Present, Stored
  <2>1. q \in told[s] \/ (pc[q] = "flushStored" /\ session[q] = s)
    BY <1>0, <1>1 DEF TypeOK
  <2> QED
    BY <1>0, <2>1 DEF Told
<1> QED
  BY <1>2, <1>3, <1>4, <1>5 DEF Inv

LEMMA ReadingInv == ASSUME Inv, NEW r \in Requests, Reading(r) \/ ClientLeaves(r) PROVE Inv'
<1>0. TypeOK /\ Counted /\ Kept /\ Told
  BY DEF Inv
<1>1. /\ UNCHANGED <<turns, idle, pc, session, context, answer, shown, told>>
      /\ \A q \in Requests : finished[q] => finished'[q]
  BY <1>0 DEF Reading, RecvToken, RecvFinal, RecvEOF, RecvError, Received, ClientLeaves, TypeOK,
     convVars, handlerVars, streamVars
<1>2. TypeOK'
  <2>1. generated' \in [Requests -> 0..MaxTokens]
    <3>1. CASE RecvToken(r)
      <4>1. generated[r] + 1 \in 0..MaxTokens
        BY <1>0, <3>1, Bounds DEF RecvToken, TypeOK
      <4> QED
        BY <1>0, <3>1, <4>1 DEF RecvToken, TypeOK
    <3>2. CASE ~RecvToken(r)
      BY <1>0, <3>2 DEF Reading, RecvFinal, RecvEOF, RecvError, ClientLeaves, TypeOK, streamVars
    <3> QED
      BY <3>1, <3>2
  <2>2. /\ reader' \in [Requests -> Readers] /\ finished' \in [Requests -> BOOLEAN]
        /\ gone' \in [Requests -> BOOLEAN]
    BY <1>0 DEF Reading, RecvToken, RecvFinal, RecvEOF, RecvError, Received, ReaderTo, ClientLeaves,
       TypeOK, Readers, streamVars
  <2> QED
    BY <1>0, <1>1, <2>1, <2>2 DEF TypeOK
<1>3. Counted'
  <2>1. CASE RecvToken(r)
    BY <1>0, <1>1, <2>1 DEF TypeOK, Counted, RecvToken, Received, ReaderTo
  <2>2. CASE RecvFinal(r)
    BY <1>0, <1>1, <2>2 DEF TypeOK, Counted, RecvFinal, Received, ReaderTo
  <2>3. CASE RecvEOF(r) \/ RecvError(r)
    BY <1>0, <1>1, <2>3 DEF TypeOK, Counted, RecvEOF, RecvError, Received, ReaderTo
  <2>4. CASE ClientLeaves(r)
    BY <1>0, <1>1, <2>4 DEF Counted, ClientLeaves, streamVars
  <2> QED
    BY <2>1, <2>2, <2>3, <2>4 DEF Reading
<1>4. Kept' /\ Told'
  BY <1>0, <1>1, SameConversations
<1> QED
  BY <1>2, <1>3, <1>4 DEF Inv

LEMMA ElapseInv == Inv /\ Elapse => Inv'
<1> SUFFICES ASSUME Inv, Elapse PROVE Inv'
  OBVIOUS
<1>0. TypeOK /\ Counted /\ Kept /\ Told
  BY DEF Inv
<1>1. PICK units \in {0, 1}, forgotten \in SUBSET Sessions :
        /\ \A r \in Requests : pc[r] = "flushStored" => session[r] \notin forgotten
        /\ idle' = [s \in Sessions |-> IF idle[s] + units < MaxAge THEN idle[s] + units ELSE MaxAge]
        /\ turns' = [s \in Sessions |-> IF s \in forgotten THEN <<>> ELSE turns[s]]
        /\ told' = [s \in Sessions |-> IF s \in forgotten THEN {} ELSE told[s]]
        /\ UNCHANGED <<pc, session, context, answer, shown, reader, generated, finished, gone>>
  BY DEF Elapse, Store!Elapse, handlerVars, streamVars
<1>2. TypeOK'
  <2>1. idle' \in [Sessions -> 0..MaxAge]
    BY <1>0, <1>1, TurnsAssumption DEF TypeOK
  <2>2. /\ turns' \in [Sessions -> Seq(TurnSet)] /\ \A s \in Sessions : Len(turns'[s]) <= MaxTurns
    <3>1. <<>> \in Seq(TurnSet) /\ Len(<<>>) <= MaxTurns
      BY Bounds
    <3> QED
      BY <1>0, <1>1, <3>1 DEF TypeOK
  <2>3. told' \in [Sessions -> SUBSET Requests]
    BY <1>0, <1>1 DEF TypeOK
  <2> QED
    BY <1>0, <1>1, <2>1, <2>2, <2>3 DEF TypeOK
<1>3. Counted'
  BY <1>0, <1>1 DEF Counted
<1>4. /\ \A s \in Sessions : s \notin forgotten => turns'[s] = turns[s] /\ told'[s] = told[s]
      /\ \A s \in forgotten : turns'[s] = <<>> /\ told'[s] = {}
  BY <1>1
<1>5. \A s \in Sessions, r \in Requests : Stored(s, r)' => Stored(s, r)
  <2> SUFFICES ASSUME NEW s \in Sessions, NEW r \in Requests, Stored(s, r)' PROVE Stored(s, r)
    OBVIOUS
  <2>1. s \notin forgotten
    BY <1>4 DEF Stored
  <2> QED
    BY <1>4, <2>1 DEF Stored
<1>6. Kept'
  BY <1>0, <1>1, <1>5 DEF Kept
<1>7. \A s \in Sessions, r \in Requests : s \notin forgotten /\ Present(s, r) => Present(s, r)'
  BY <1>4 DEF Present, Stored
<1>8. Told'
  <2> SUFFICES ASSUME NEW s \in Sessions, NEW r \in Requests,
                      r \in told'[s] \/ (pc[r] = "flushStored" /\ session[r] = s)
               PROVE  Present(s, r)'
    BY <1>1 DEF Told
  <2>1. s \notin forgotten
    BY <1>1, <1>4
  <2>2. r \in told[s] \/ (pc[r] = "flushStored" /\ session[r] = s)
    BY <1>4, <2>1
  <2> QED
    BY <1>0, <1>7, <2>1, <2>2 DEF Told
<1> QED
  BY <1>2, <1>3, <1>6, <1>8 DEF Inv

LEMMA NextInv == Inv /\ [Next]_vars => Inv'
<1> SUFFICES ASSUME Inv, [Next]_vars PROVE Inv'
  OBVIOUS
<1>1. ASSUME NEW r \in Requests, QuietHandler(r) PROVE Inv'
  <2>1. /\ UNCHANGED <<turns, session, told, finished>>
        /\ pc[r] \notin {"flushStored", "returned"}
        /\ pc'[r] # "flushStored"
        /\ \A q \in Requests : q # r => pc'[q] = pc[q]
    BY <1>1, QuietSame
  <2>2. Kept' /\ Told'
    BY <2>1, SameConversations DEF Inv
  <2> QED
    BY <1>1, <2>2, QuietType, QuietCounted DEF Inv
<1>2. CASE UNCHANGED vars
  <2>1. Kept' /\ Told'
    BY <1>2, SameConversations DEF Inv, vars, convVars, handlerVars, streamVars
  <2>2. TypeOK' /\ Counted'
    BY <1>2 DEF Inv, TypeOK, Counted, vars, convVars, handlerVars, streamVars
  <2> QED
    BY <2>1, <2>2 DEF Inv
<1> QED
  BY <1>1, <1>2, PersistInv, FlushInv, ReadingInv, ElapseInv, NextCases

LEMMA Invariant == Spec => []Inv
BY InitInv, NextInv, PTL DEF Spec

\* Every variable keeps its type, however many tokens, turns and requests there are
\* (RAGHandlers.Query, Client.Query).
THEOREM TypesCorrect == Spec => []TypeOK
<1>1. Inv => TypeOK
  BY DEF Inv
<1> QED
  BY <1>1, Invariant, PTL

\* What enters a conversation is a complete answer whose every token the client was
\* sent: nothing broken off by an error or a leaving client (rag.go, persistTurns).
THEOREM WholeAnswers == Spec => []OnlyWholeAnswers
<1>1. Inv => OnlyWholeAnswers
  <2> SUFFICES ASSUME Inv, NEW s \in Sessions, NEW r \in Requests, Stored(s, r)
               PROVE  /\ session[r] = s /\ finished[r]
                      /\ answer[r] = generated[r] /\ shown[r] = generated[r]
    BY DEF OnlyWholeAnswers
  <2>1. session[r] = s /\ finished[r] /\ pc[r] \in {"flushStored", "returned"}
    BY DEF Inv, Kept
  <2>2. reader[r] # "token" /\ generated[r] = answer[r] /\ shown[r] = answer[r]
    BY <2>1 DEF Inv, Counted
  <2> QED
    BY <2>1, <2>2
<1> QED
  BY <1>1, Invariant, PTL

\* A client that saw an answer end finds it in the history of its next question in
\* the session, unless as many newer turns displaced it (resolveHistory, persistTurns).
THEOREM FollowUps == Spec => FollowUpSeesAnswer
<1>1. Inv /\ [Next]_vars =>
        [\A r \in Requests, p \in Requests :
            /\ ResolveHistory(r)
            /\ p \in told[session[r]]
            => \/ \E i \in DOMAIN context'[r] : context'[r][i] = Turn("assistant", p)
               \/ Len(context'[r]) = MaxTurns]_vars
  <2> SUFFICES ASSUME Inv, NEW r \in Requests, NEW p \in Requests,
                      ResolveHistory(r), p \in told[session[r]]
               PROVE  \/ \E i \in DOMAIN context'[r] : context'[r][i] = Turn("assistant", p)
                      \/ Len(context'[r]) = MaxTurns
    OBVIOUS
  <2>1. session[r] \in Sessions /\ context'[r] = turns[session[r]]
    BY DEF Inv, TypeOK, ResolveHistory
  <2>2. Present(session[r], p)
    BY <2>1 DEF Inv, Told
  <2> QED
    BY <2>1, <2>2 DEF Present, Stored
<1> QED
  BY <1>1, Invariant, PTL DEF Spec, FollowUpSeesAnswer

\* The handlers keep to the interface of the conversation store: every step of theirs on
\* a conversation is an append of one whole pair, a session's turns are never rewritten.
THEOREM HandlersUseStore == Spec => Store!Spec
<1>1. Init => Store!Init
  BY DEF Init
<1>2. Inv /\ [Next]_vars => [Store!Next]_(Store!vars)
  <2> SUFFICES ASSUME Inv, [Next]_vars PROVE Store!Next \/ UNCHANGED convVars
    BY DEF convVars, Store!vars
  <2>1. ASSUME NEW r \in Requests, PersistTurns(r) PROVE Store!Next
    <3>1. session[r] \in Sessions /\ Store!AppendTurns(session[r], r)
      BY <2>1 DEF Inv, TypeOK, PersistTurns
    <3> QED
      BY <3>1 DEF Store!Next, Requests
  <2>2. CASE Elapse
    BY <2>2 DEF Elapse, Store!Next
  <2>3. ASSUME NEW r \in Requests, QuietHandler(r) \/ Flush(r) \/ Reading(r) \/ ClientLeaves(r)
        PROVE  UNCHANGED convVars
    BY <2>3 DEF QuietHandler, Query, ResolveHistory, UseBodyHistory, Refuse, OpenStream,
       CheckClient, TakeToken, TakeFinal, TakeError, PersistFails, Take, Move, Flush, Reading,
       RecvToken, RecvFinal, RecvEOF, RecvError, Received, ClientLeaves
  <2> QED
    BY <2>1, <2>2, <2>3, NextCases DEF vars
<1> QED
  BY <1>1, <1>2, Invariant, PTL DEF Spec, Store!Spec
================================================================================
