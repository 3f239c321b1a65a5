-------------------------- MODULE ConversationProofs --------------------------
(***************************************************************************)
(* Theorems about Conversations, for any sessions, questions, cap, age and *)
(* lag: with either store the histories are whole pairs within the cap,    *)
(* and the abstract store is implemented.  Inv is inductive for the        *)
(* in-memory store, RedisInv for the one in Redis.                         *)
(***************************************************************************)
EXTENDS Conversations, SequenceTheorems, TLAPS

WholeHistories == \A s \in Sessions : WholePairs(turnsBy[s])
Inv == TypeOK /\ WholeHistories

RedisInv == Redis!TypeOK /\ \A s \in Sessions : WholePairs(list[s])

StoresInv == backend \in {"memory", "redis"} /\ Inv /\ RedisInv
-------------------------------------------------------------------------------
LEMMA PairType == \A q \in Questions : /\ Pair(q) \in Seq(TurnSet)
                                       /\ Len(Pair(q)) = 2
                                       /\ Pair(q)[1] = Turn("user", q)
                                       /\ Pair(q)[2] = Turn("assistant", q)
BY DEF Pair, Turn, TurnSet

\* Appending a pair to whole pairs, and trimming, leaves whole pairs.
LEMMA NewestWhole ==
    ASSUME NEW ts \in Seq(TurnSet), WholePairs(ts), NEW q \in Questions
    PROVE  /\ Newest(ts \o Pair(q)) \in Seq(TurnSet)
           /\ Newest(ts \o Pair(q)) # <<>>
           /\ WholePairs(Newest(ts \o Pair(q)))
<1> DEFINE long == ts \o Pair(q)
<1>1. PICK n \in 0..MaxPairs :
        /\ Len(ts) = 2 * n
        /\ \A i \in 1..n : /\ ts[2 * i - 1].role = "user"
                           /\ ts[2 * i] = Turn("assistant", ts[2 * i - 1].of)
  BY DEF WholePairs
<1>2. MaxPairs \in Nat \ {0} /\ n \in Nat
  BY TurnsAssumption
<1>3. /\ long \in Seq(TurnSet) /\ Len(long) = 2 * n + 2
      /\ \A k \in 1..(2 * n) : long[k] = ts[k]
      /\ long[2 * n + 1] = Turn("user", q)
      /\ long[2 * n + 2] = Turn("assistant", q)
  <2>1. Pair(q) \in Seq(TurnSet) /\ Len(Pair(q)) = 2
    BY PairType
  <2>2. /\ long \in Seq(TurnSet) /\ Len(long) = Len(ts) + 2
        /\ \A k \in 1..(Len(ts) + 2) :
             long[k] = IF k <= Len(ts) THEN ts[k] ELSE Pair(q)[k - Len(ts)]
    <3> DEFINE p == Pair(q)
    <3>1. p \in Seq(TurnSet) /\ Len(p) = 2
      BY <2>1
    <3> HIDE DEF p
    <3>2. /\ ts \o p \in Seq(TurnSet) /\ Len(ts \o p) = Len(ts) + Len(p)
          /\ \A k \in 1..(Len(ts) + Len(p)) :
               (ts \o p)[k] = IF k <= Len(ts) THEN ts[k] ELSE p[k - Len(ts)]
      BY <3>1, ConcatProperties, Zenon
    <3> QED
      BY <3>1, <3>2 DEF p
  <2> HIDE DEF long
  <2>3. /\ 2 * n + 1 \in 1..(Len(ts) + 2) /\ ~(2 * n + 1 <= Len(ts)) /\ 2 * n + 1 - Len(ts) = 1
        /\ 2 * n + 2 \in 1..(Len(ts) + 2) /\ ~(2 * n + 2 <= Len(ts)) /\ 2 * n + 2 - Len(ts) = 2
    BY <1>1, <1>2
  <2>4. long[2 * n + 1] = Pair(q)[1] /\ long[2 * n + 2] = Pair(q)[2]
    <3>1. \A k \in 1..(Len(ts) + 2) : ~(k <= Len(ts)) => long[k] = Pair(q)[k - Len(ts)]
      BY <2>2
    <3> QED
      BY <2>3, <3>1
  <2>5. \A k \in 1..(2 * n) : k \in 1..(Len(ts) + 2) /\ k <= Len(ts)
    BY <1>1, <1>2
  <2> QED
    <3>1. Len(long) = 2 * n + 2 /\ long \in Seq(TurnSet)
      BY <2>2, <1>1
    <3>2. \A k \in 1..(2 * n) : long[k] = ts[k]
      BY <2>2, <2>5
    <3>3. long[2 * n + 1] = Turn("user", q) /\ long[2 * n + 2] = Turn("assistant", q)
      BY <2>4, PairType
    <3> QED
      BY <3>1, <3>2, <3>3
<1> HIDE DEF long
<1>4. \A i \in 1..(n + 1) : /\ long[2 * i - 1].role = "user"
                            /\ long[2 * i] = Turn("assistant", long[2 * i - 1].of)
  <2> TAKE i \in 1..(n + 1)
  <2>1. CASE i = n + 1
    <3>1. 2 * i - 1 = 2 * n + 1 /\ 2 * i = 2 * n + 2
      BY <2>1, <1>2
    <3>2. long[2 * i - 1] = Turn("user", q) /\ long[2 * i] = Turn("assistant", q)
      BY <3>1, <1>3, Zenon
    <3>3. Turn("user", q).role = "user" /\ Turn("user", q).of = q
      BY DEF Turn
    <3> QED
      BY <3>2, <3>3, Zenon
  <2>2. CASE i \in 1..n
    <3>1. 2 * i - 1 \in 1..(2 * n) /\ 2 * i \in 1..(2 * n)
      BY <2>2, <1>2
    <3> QED
      BY <3>1, <2>2, <1>1, <1>3
  <2> QED
    BY <2>1, <2>2, <1>2
<1>5. CASE n < MaxPairs
  <2>1. Newest(long) = long
    BY <1>2, <1>3, <1>5 DEF Newest, MaxTurns
  <2>2. n + 1 \in 0..MaxPairs /\ Len(long) = 2 * (n + 1)
    BY <1>2, <1>3, <1>5
  <2>3. WholePairs(long)
    BY <2>2, <1>4 DEF WholePairs
  <2>4. long # <<>>
    <3>1. Len(long) # 0
      BY <2>2, <1>2
    <3> QED
      BY <3>1
  <2> QED
    BY <2>1, <2>3, <2>4, <1>3 DEF long
<1>6. CASE n = MaxPairs
  <2> DEFINE cut == SubSeq(long, 3, 2 * n + 2)
  <2>1. Newest(long) = cut
    <3>1. Len(long) > MaxTurns /\ Len(long) - MaxTurns + 1 = 3
      BY <1>2, <1>3, <1>6 DEF MaxTurns
    <3> QED
      BY <3>1, <1>3 DEF Newest
  <2>2. /\ cut \in Seq(TurnSet) /\ Len(cut) = 2 * n
        /\ \A k \in 1..(2 * n) : cut[k] = long[k + 2]
    <3>1. 3 \in 1..Len(long) + 1 /\ 2 * n + 2 \in 3 - 1 .. Len(long)
      BY <1>2, <1>3
    <3>2. cut \in Seq(TurnSet) /\ Len(cut) = 2 * n + 2 - 3 + 1
          /\ \A k \in 1..(2 * n + 2 - 3 + 1) : cut[k] = long[3 + k - 1]
      BY <1>2, <1>3, <3>1, SubSeqProperties
    <3> QED
      BY <3>2, <1>2
  <2> HIDE DEF cut
  <2>3. \A i \in 1..n : /\ cut[2 * i - 1].role = "user"
                        /\ cut[2 * i] = Turn("assistant", cut[2 * i - 1].of)
    <3> TAKE i \in 1..n
    <3>1. /\ 2 * i - 1 \in 1..(2 * n) /\ 2 * i \in 1..(2 * n) /\ i + 1 \in 1..(n + 1)
          /\ 2 * i - 1 + 2 = 2 * (i + 1) - 1 /\ 2 * i + 2 = 2 * (i + 1)
      BY <1>2
    <3> QED
      BY <3>1, <2>2, <1>4
  <2>4. WholePairs(cut)
    BY <2>2, <2>3, <1>2, <1>6 DEF WholePairs
  <2>5. cut # <<>>
    BY <2>2, <1>2, <1>6
  <2> QED
    BY <2>1, <2>2, <2>4, <2>5 DEF long
<1> QED
  BY <1>2, <1>5, <1>6

LEMMA EmptyWhole == WholePairs(<<>>) /\ <<>> \in Seq(TurnSet)
BY TurnsAssumption DEF WholePairs
-------------------------------------------------------------------------------
LEMMA Ages == /\ MaxAge \in Nat \ {0} /\ MaxLag \in Nat /\ OldAge \in Nat
              /\ OldAge = MaxAge + MaxLag + 1 /\ None \notin Nat
BY MemoryAssumption, TurnsAssumption DEF OldAge

SameKeys == \A s \in Sessions : age[s] = None <=> turnsBy[s] = <<>>

AgeSet == 0..OldAge \cup {None}

LEMMA InitInv == Init => Inv
<1> SUFFICES ASSUME Init PROVE Inv
  OBVIOUS
<1>1. TypeOK
  <2>1. None \in AgeSet /\ 0 \in 0..MaxLag
    BY Ages DEF AgeSet
  <2>2. turnsBy \in [Sessions -> Seq(TurnSet)]
    BY EmptyWhole DEF Init
  <2> QED
    BY <2>1, <2>2 DEF Init, TypeOK, AgeSet
<1>2. WholeHistories
  BY EmptyWhole DEF Init, WholeHistories
<1> QED
  BY <1>1, <1>2 DEF Inv

LEMMA NextInv == Inv /\ [Next]_vars => Inv'
<1> SUFFICES ASSUME Inv, [Next]_vars PROVE Inv'
  OBVIOUS
<1>0. /\ turnsBy \in [Sessions -> Seq(TurnSet)]
      /\ age \in [Sessions -> AgeSet]
      /\ job \in {"waiting", "pruning", "returned"}
      /\ lag \in 0..MaxLag
      /\ cancelled \in BOOLEAN
      /\ asked \subseteq Questions
      /\ SameKeys
      /\ \A s \in Sessions : WholePairs(turnsBy[s])
  BY DEF Inv, TypeOK, WholeHistories, AgeSet, SameKeys
<1>1. ASSUME NEW s \in Sessions, NEW q \in Questions, AppendTurns(s, q) PROVE Inv'
  <2> DEFINE new == Newest(turnsBy[s] \o Pair(q))
  <2>1. new \in Seq(TurnSet) /\ new # <<>> /\ WholePairs(new)
    BY <1>0, NewestWhole
  <2> HIDE DEF new
  <2>2. turnsBy' = [turnsBy EXCEPT ![s] = new] /\ age' = [age EXCEPT ![s] = 0]
    BY <1>1 DEF AppendTurns, new
  <2>3. turnsBy' \in [Sessions -> Seq(TurnSet)]
    BY <1>0, <2>1, <2>2
  <2>4. 0 \in AgeSet /\ 0 # None
    BY Ages DEF AgeSet
  <2>5. age' \in [Sessions -> AgeSet] /\ SameKeys'
    BY <1>0, <2>1, <2>2, <2>4 DEF SameKeys
  <2>6. /\ job' = job /\ lag' = lag /\ cancelled' = cancelled /\ asked' \subseteq Questions
    BY <1>0, <1>1 DEF AppendTurns
  <2>7. \A r \in Sessions : WholePairs(turnsBy'[r])
    BY <1>0, <2>1, <2>2
  <2> QED
    BY <1>0, <2>3, <2>5, <2>6, <2>7 DEF Inv, TypeOK, WholeHistories, AgeSet, SameKeys
<1>2. CASE Tick
  <2>1. UNCHANGED <<turnsBy, job, cancelled, asked>>
    BY <1>2 DEF Tick
  <2>2. \A s \in Sessions : age[s] # None /\ age[s] # OldAge => age[s] + 1 \in AgeSet /\ age[s] + 1 # None
    <3> SUFFICES ASSUME NEW s \in Sessions, age[s] # None, age[s] # OldAge
                 PROVE  age[s] + 1 \in AgeSet /\ age[s] + 1 # None
      OBVIOUS
    <3>1. age[s] \in 0..OldAge
      BY <1>0 DEF AgeSet
    <3>2. age[s] + 1 \in 0..OldAge /\ age[s] + 1 \in Nat
      BY <3>1, Ages
    <3> QED
      BY <3>2, Ages DEF AgeSet
  <2>3. age' = [s \in Sessions |-> IF age[s] = None \/ age[s] = OldAge THEN age[s] ELSE age[s] + 1]
    BY <1>2 DEF Tick
  <2>4. age' \in [Sessions -> AgeSet] /\ \A s \in Sessions : age'[s] = None <=> age[s] = None
    BY <1>0, <2>2, <2>3
  <2>5. lag' \in 0..MaxLag
    BY <1>0, <1>2, Ages DEF Tick
  <2> QED
    BY <1>0, <2>1, <2>4, <2>5 DEF Inv, TypeOK, WholeHistories, AgeSet, SameKeys
<1>3. CASE PruneOlderThan
  <2> DEFINE gone == {s \in Sessions : Stale(s)}
  <2>1. /\ turnsBy' = [s \in Sessions |-> IF s \in gone THEN <<>> ELSE turnsBy[s]]
        /\ age' = [s \in Sessions |-> IF s \in gone THEN None ELSE age[s]]
        /\ lag' = 0 /\ cancelled' = cancelled /\ asked' = asked /\ job' = "waiting"
    BY <1>3 DEF PruneOlderThan, Delete
  <2> HIDE DEF gone
  <2>2. turnsBy' \in [Sessions -> Seq(TurnSet)] /\ \A s \in Sessions : WholePairs(turnsBy'[s])
    BY <1>0, <2>1, EmptyWhole
  <2>3. None \in AgeSet /\ 0 \in 0..MaxLag
    BY Ages DEF AgeSet
  <2>4. age' \in [Sessions -> AgeSet] /\ SameKeys'
    BY <1>0, <2>1, <2>3 DEF SameKeys
  <2> QED
    BY <1>0, <2>1, <2>2, <2>3, <2>4 DEF Inv, TypeOK, WholeHistories, AgeSet, SameKeys
<1>4. CASE Fire \/ Cancel \/ RunReturns \/ UNCHANGED vars
  <2>1. UNCHANGED <<turnsBy, age, asked>>
    BY <1>4 DEF Fire, Cancel, RunReturns, vars
  <2>2. job' \in {"waiting", "pruning", "returned"} /\ cancelled' \in BOOLEAN
    BY <1>0, <1>4 DEF Fire, Cancel, RunReturns, vars
  <2>3. lag' = lag \/ lag' = 0
    BY <1>4 DEF Fire, Cancel, RunReturns, vars
  <2>4. lag' \in 0..MaxLag
    BY <1>0, <2>3, Ages
  <2> QED
    BY <1>0, <2>1, <2>2, <2>4 DEF Inv, TypeOK, WholeHistories, AgeSet, SameKeys
<1> QED
  BY <1>1, <1>2, <1>3, <1>4 DEF Next

LEMMA RedisInitInv == Redis!Init => RedisInv
BY EmptyWhole, Ages DEF Redis!Init, RedisInv, Redis!TypeOK, Redis!TurnSet, TurnSet

LEMMA RedisNextInv == RedisInv /\ [Redis!Next]_redisVars => RedisInv'
<1> SUFFICES ASSUME RedisInv, [Redis!Next]_redisVars PROVE RedisInv'
  OBVIOUS
<1>0. /\ list \in [Sessions -> Seq(TurnSet)]
      /\ ttl \in [Sessions -> 0..MaxAge]
      /\ replied \in [Questions -> {"none", "ok", "error"}]
      /\ \A s \in Sessions : WholePairs(list[s]) /\ (ttl[s] = 0 <=> list[s] = <<>>)
  BY DEF RedisInv, Redis!TypeOK, Redis!TurnSet, TurnSet
<1>1. ASSUME NEW s \in Sessions, NEW q \in Questions, Redis!Exec(s, q),
             replied' \in [Questions -> {"none", "ok", "error"}]
      PROVE  RedisInv'
  <2> DEFINE new == Newest(list[s] \o Pair(q))
  <2>1. new \in Seq(TurnSet) /\ new # <<>> /\ WholePairs(new)
    BY <1>0, NewestWhole
  <2> HIDE DEF new
  <2>2. list' = [list EXCEPT ![s] = new] /\ ttl' = [ttl EXCEPT ![s] = MaxAge]
    BY <1>1 DEF Redis!Exec, new, Redis!Newest, Redis!Pair, Redis!Turn, Redis!MaxTurns,
       Newest, Pair, Turn, MaxTurns
  <2>3. MaxAge \in 0..MaxAge /\ MaxAge # 0
    BY Ages
  <2>4. list' \in [Sessions -> Seq(TurnSet)] /\ ttl' \in [Sessions -> 0..MaxAge]
    BY <1>0, <2>1, <2>2, <2>3
  <2>5. \A r \in Sessions : WholePairs(list'[r]) /\ (ttl'[r] = 0 <=> list'[r] = <<>>)
    BY <1>0, <2>1, <2>2, <2>3
  <2> QED
    BY <1>1, <2>4, <2>5 DEF RedisInv, Redis!TypeOK, Redis!TurnSet, TurnSet
<1>2. ASSUME NEW q \in Questions, NEW a \in {"ok", "error"}, Redis!Reply(q, a)
      PROVE  replied' \in [Questions -> {"none", "ok", "error"}]
  BY <1>0, <1>2 DEF Redis!Reply
<1>3. ASSUME NEW s \in Sessions, NEW q \in Questions,
             Redis!AppendTurns(s, q) \/ Redis!AppendUnanswered(s, q)
      PROVE  RedisInv'
  BY <1>1, <1>2, <1>3 DEF Redis!AppendTurns, Redis!AppendUnanswered
<1>4. ASSUME NEW q \in Questions, Redis!AppendFails(q) PROVE RedisInv'
  BY <1>0, <1>2, <1>4 DEF Redis!AppendFails, RedisInv, Redis!TypeOK
<1>5. CASE Redis!Tick
  <2>1. \A s \in Sessions : ttl'[s] = IF ttl[s] = 0 THEN 0 ELSE ttl[s] - 1
    BY <1>5 DEF Redis!Tick
  <2>2. ttl' \in [Sessions -> 0..MaxAge]
    <3>1. \A s \in Sessions : (IF ttl[s] = 0 THEN 0 ELSE ttl[s] - 1) \in 0..MaxAge
      BY <1>0, Ages
    <3> QED
      BY <1>5, <3>1 DEF Redis!Tick
  <2>3. \A s \in Sessions : ttl[s] = 0 => ttl'[s] = 0
    BY <2>1
  <2>4. list' = [s \in Sessions |-> IF ttl'[s] = 0 THEN <<>> ELSE list[s]] /\ replied' = replied
    BY <1>5 DEF Redis!Tick
  <2>5. /\ list' \in [Sessions -> Seq(TurnSet)]
        /\ \A s \in Sessions : WholePairs(list'[s]) /\ (ttl'[s] = 0 <=> list'[s] = <<>>)
    BY <1>0, <2>3, <2>4, EmptyWhole
  <2> QED
    BY <1>0, <2>2, <2>4, <2>5 DEF RedisInv, Redis!TypeOK, Redis!TurnSet, TurnSet
<1>6. CASE UNCHANGED redisVars
  BY <1>6 DEF redisVars, RedisInv, Redis!TypeOK
<1> QED
  BY <1>3, <1>4, <1>5, <1>6 DEF Redis!Next

LEMMA StoresInvariant == StoreSpec => []StoresInv
<1>1. StoreInit => StoresInv
  BY InitInv, RedisInitInv DEF StoreInit, StoresInv
<1>2. StoresInv /\ [StoreNext]_storeVars => StoresInv'
  <2> SUFFICES ASSUME StoresInv, [StoreNext]_storeVars PROVE StoresInv'
    OBVIOUS
  <2>1. /\ backend' = backend
        /\ [Next]_vars
        /\ [Redis!Next]_redisVars
    BY DEF StoreNext, storeVars
  <2> QED
    BY <2>1, NextInv, RedisNextInv DEF StoresInv
<1> QED
  BY <1>1, <1>2, PTL DEF StoreSpec

\* The variables keep their types, and the two tables of each store hold the
\* same sessions (AppendTurns, PruneOlderThan, Expire).
THEOREM TypesCorrect == StoreSpec => []StoresTypeOK
<1>1. StoresInv => StoresTypeOK
  BY DEF StoresInv, Inv, RedisInv, StoresTypeOK
<1> QED
  BY <1>1, StoresInvariant, PTL

\* With either store a history is whole pairs of question and answer within
\* the cap.
THEOREM HistoriesHold == StoreSpec => []HistoriesAreWhole
<1>1. StoresInv => HistoriesAreWhole
  BY DEF StoresInv, Inv, RedisInv, WholeHistories, HistoriesAreWhole, HistoryOf, History, Redis!History
<1> QED
  BY <1>1, StoresInvariant, PTL
-------------------------------------------------------------------------------
\* The refinement: what the abstract store sees of each store.
Idle(s) == IF age[s] = None \/ age[s] > MaxAge THEN MaxAge ELSE age[s]

MemoryAs == INSTANCE ConversationStore WITH
    turns <- turnsBy, idle <- [s \in Sessions |-> Idle(s)]
RedisAs == INSTANCE ConversationStore WITH
    turns <- list, idle <- [s \in Sessions |-> MaxAge - ttl[s]]

LEMMA InitRefines == Init => MemoryAs!Init
BY DEF Init, MemoryAs!Init, Idle

LEMMA NextRefines == Inv /\ [Next]_vars => [MemoryAs!Next]_(MemoryAs!vars)
<1> SUFFICES ASSUME Inv, [Next]_vars PROVE MemoryAs!Next \/ UNCHANGED MemoryAs!vars
  OBVIOUS
<1> USE Ages
<1>0. /\ age \in [Sessions -> 0..OldAge \cup {None}]
      /\ turnsBy \in [Sessions -> Seq(TurnSet)]
      /\ lag \in 0..MaxLag
  BY DEF Inv, TypeOK
<1>1. ASSUME NEW s \in Sessions, NEW q \in Questions, AppendTurns(s, q) PROVE MemoryAs!AppendTurns(s, q)
  <2>1. turnsBy' = [turnsBy EXCEPT ![s] = MemoryAs!Newest(@ \o MemoryAs!Pair(q))]
    BY <1>1 DEF AppendTurns, Newest, Pair, Turn, MaxTurns,
       MemoryAs!Newest, MemoryAs!Pair, MemoryAs!Turn, MemoryAs!MaxTurns
  <2>2. age' = [age EXCEPT ![s] = 0]
    BY <1>1 DEF AppendTurns
  <2>3. Idle(s)' = 0 /\ \A r \in Sessions \ {s} : Idle(r)' = Idle(r)
    BY <1>0, <2>2 DEF Idle
  <2>4. [r \in Sessions |-> Idle(r)]' = [[r \in Sessions |-> Idle(r)] EXCEPT ![s] = 0]
    BY <2>3
  <2> QED
    BY <2>1, <2>4 DEF MemoryAs!AppendTurns, Idle
<1>2. CASE Tick
  <2>1. /\ turnsBy' = turnsBy
        /\ \A s \in Sessions :
             age'[s] = IF age[s] = None \/ age[s] = OldAge THEN age[s] ELSE age[s] + 1
    BY <1>2 DEF Tick
  <2>2. MemoryAs!Elapse(1, {})
    BY <1>0, <2>1 DEF MemoryAs!Elapse, Idle
  <2> QED
    BY <2>2 DEF MemoryAs!Next
<1>3. CASE PruneOlderThan
  <2>0. PICK gone \in SUBSET Sessions : gone = {s \in Sessions : Stale(s)}
    OBVIOUS
  <2>1. /\ turnsBy' = [s \in Sessions |-> IF s \in gone THEN <<>> ELSE turnsBy[s]]
        /\ age' = [s \in Sessions |-> IF s \in gone THEN None ELSE age[s]]
    BY <2>0, <1>3 DEF PruneOlderThan, Delete
  <2>2. \A s \in gone : age[s] # None /\ age[s] > MaxAge
    <3> SUFFICES ASSUME NEW s \in Sessions, Stale(s) PROVE age[s] # None /\ age[s] > MaxAge
      BY <2>0
    <3>1. age[s] \in 0..OldAge /\ age[s] > MaxAge + lag
      BY <1>0 DEF Stale
    <3> QED
      BY <1>0, <3>1 DEF Stale
  <2>4. \A s \in Sessions : Idle(s) \in 0..MaxAge /\ Idle(s)' = Idle(s) /\ (s \in gone => Idle(s) = MaxAge)
    <3> TAKE s \in Sessions
    <3>1. Idle(s) \in 0..MaxAge
      BY <1>0 DEF Idle
    <3>2. s \in gone => Idle(s) = MaxAge /\ Idle(s)' = MaxAge
      BY <2>1, <2>2 DEF Idle
    <3>3. s \notin gone => Idle(s)' = Idle(s)
      BY <2>1 DEF Idle
    <3> QED
      BY <3>1, <3>2, <3>3
  <2> DEFINE idle == [s \in Sessions |-> Idle(s)]
  <2>6. /\ idle' = [s \in Sessions |-> IF idle[s] + 0 < MaxAge THEN idle[s] + 0 ELSE MaxAge]
        /\ \A s \in gone : idle'[s] = MaxAge
    <3>1. \A s \in Sessions : Idle(s) = IF Idle(s) + 0 < MaxAge THEN Idle(s) + 0 ELSE MaxAge
      BY <2>4
    <3>2. \A s \in Sessions : idle[s] = Idle(s) /\ idle'[s] = Idle(s)
      BY <2>4
    <3> HIDE DEF idle
    <3>3. idle' = [s \in Sessions |-> Idle(s)']
      BY DEF idle
    <3>4. idle' = [s \in Sessions |-> Idle(s)]
      BY <3>3, <2>4
    <3>5. \A s \in gone : idle'[s] = MaxAge
      BY <3>2, <2>4
    <3> QED
      BY <3>1, <3>2, <3>4, <3>5
  <2>7. MemoryAs!Elapse(0, gone)
    BY <2>1, <2>6 DEF MemoryAs!Elapse, Idle
  <2> QED
    BY <2>7 DEF MemoryAs!Next
<1>4. CASE Fire \/ Cancel \/ RunReturns \/ UNCHANGED vars
  <2>1. UNCHANGED <<turnsBy, age>>
    BY <1>4 DEF Fire, Cancel, RunReturns, vars
  <2> QED
    BY <2>1 DEF MemoryAs!vars, Idle
<1> QED
  BY <1>1, <1>2, <1>3, <1>4 DEF Next, MemoryAs!Next

LEMMA RedisNextRefines == RedisInv /\ [Redis!Next]_redisVars => [RedisAs!Next]_(RedisAs!vars)
<1> SUFFICES ASSUME RedisInv, [Redis!Next]_redisVars PROVE RedisAs!Next \/ UNCHANGED RedisAs!vars
  OBVIOUS
<1> USE Ages
<1>0. list \in [Sessions -> Seq(TurnSet)] /\ ttl \in [Sessions -> 0..MaxAge]
  BY DEF RedisInv, Redis!TypeOK, Redis!TurnSet, TurnSet
<1>1. ASSUME NEW s \in Sessions, NEW q \in Questions, Redis!Exec(s, q) PROVE RedisAs!AppendTurns(s, q)
  <2>1. list' = [list EXCEPT ![s] = RedisAs!Newest(@ \o RedisAs!Pair(q))]
    BY <1>1 DEF Redis!Exec, Redis!Newest, Redis!Pair, Redis!Turn, Redis!MaxTurns,
       Newest, Pair, Turn, MaxTurns,
       RedisAs!Newest, RedisAs!Pair, RedisAs!Turn, RedisAs!MaxTurns
  <2>2. /\ MaxAge - ttl'[s] = 0
        /\ \A r \in Sessions \ {s} : MaxAge - ttl'[r] = MaxAge - ttl[r]
    BY <1>0, <1>1 DEF Redis!Exec
  <2>3. [r \in Sessions |-> MaxAge - ttl'[r]] = [[r \in Sessions |-> MaxAge - ttl[r]] EXCEPT ![s] = 0]
    BY <2>2
  <2> QED
    BY <2>1, <2>3 DEF RedisAs!AppendTurns
<1>2. ASSUME NEW q \in Questions, Redis!AppendFails(q) PROVE UNCHANGED RedisAs!vars
  BY <1>2 DEF Redis!AppendFails, RedisAs!vars
<1>3. CASE Redis!Tick
  <2>0. PICK gone \in SUBSET Sessions : gone = {s \in Sessions : ttl'[s] = 0}
    OBVIOUS
  <2>1. list' = [s \in Sessions |-> IF s \in gone THEN <<>> ELSE list[s]]
    BY <2>0, <1>3 DEF Redis!Tick
  <2>2. \A s \in Sessions : ttl'[s] = IF ttl[s] = 0 THEN 0 ELSE ttl[s] - 1
    BY <1>3 DEF Redis!Tick
  <2>3. \A s \in Sessions :
          MaxAge - ttl'[s] = IF MaxAge - ttl[s] + 1 < MaxAge THEN MaxAge - ttl[s] + 1 ELSE MaxAge
    BY <1>0, <2>2
  <2> DEFINE idle == [s \in Sessions |-> MaxAge - ttl[s]]
  <2>4. /\ idle' = [s \in Sessions |-> IF idle[s] + 1 < MaxAge THEN idle[s] + 1 ELSE MaxAge]
        /\ \A s \in gone : idle'[s] = MaxAge
    BY <2>0, <2>3
  <2>5. RedisAs!Elapse(1, gone)
    BY <2>1, <2>4 DEF RedisAs!Elapse
  <2> QED
    BY <2>5 DEF RedisAs!Next
<1>4. CASE UNCHANGED redisVars
  BY <1>4 DEF redisVars, RedisAs!vars
<1> QED
  BY <1>1, <1>2, <1>3, <1>4 DEF Redis!Next, Redis!AppendTurns, Redis!AppendUnanswered, RedisAs!Next

LEMMA RedisInitRefines == Redis!Init => RedisAs!Init
BY Ages DEF Redis!Init, RedisAs!Init

\* Which of the two the gateway uses is fixed when it starts.
LEMMA StoreStepRefines ==
    StoresInv /\ [StoreNext]_storeVars => [Promise!Next]_(Promise!vars)
<1> SUFFICES ASSUME StoresInv, [StoreNext]_storeVars PROVE Promise!Next \/ UNCHANGED Promise!vars
  OBVIOUS
<1>0. /\ backend' = backend /\ [Next]_vars /\ [Redis!Next]_redisVars
      /\ backend \in {"memory", "redis"} /\ Inv /\ RedisInv
      /\ turnsBy = [s \in Sessions |-> turnsBy[s]] /\ list = [s \in Sessions |-> list[s]]
      /\ turnsBy' = [s \in Sessions |-> turnsBy'[s]] /\ list' = [s \in Sessions |-> list'[s]]
  <2>1. backend' = backend /\ [Next]_vars /\ [Redis!Next]_redisVars
    BY DEF StoreNext, storeVars
  <2>2. StoresInv'
    BY <2>1, NextInv, RedisNextInv DEF StoresInv
  <2> QED
    BY <2>1, <2>2 DEF StoresInv, Inv, RedisInv, TypeOK, Redis!TypeOK
<1>1. CASE backend = "memory"
  <2>1. /\ [s \in Sessions |-> HistoryOf(s)] = turnsBy
        /\ [s \in Sessions |-> HistoryOf(s)]' = turnsBy'
        /\ [s \in Sessions |-> IdleOf(s)] = [s \in Sessions |-> Idle(s)]
        /\ [s \in Sessions |-> IdleOf(s)]' = [s \in Sessions |-> Idle(s)]'
    BY <1>0, <1>1 DEF HistoryOf, History, IdleOf, Idle
  <2>2. MemoryAs!Next \/ UNCHANGED MemoryAs!vars
    BY <1>0, NextRefines
  <2>3. ASSUME NEW s \in Sessions, NEW q \in Questions, MemoryAs!AppendTurns(s, q) PROVE Promise!AppendTurns(s, q)
    BY <2>1, <2>3 DEF MemoryAs!AppendTurns, Promise!AppendTurns, MemoryAs!Newest, MemoryAs!Pair, MemoryAs!Turn,
       MemoryAs!MaxTurns, Promise!Newest, Promise!Pair, Promise!Turn, Promise!MaxTurns
  <2>4. ASSUME NEW units \in {0, 1}, NEW gone \in SUBSET Sessions, MemoryAs!Elapse(units, gone)
        PROVE  Promise!Elapse(units, gone)
    BY <2>1, <2>4 DEF MemoryAs!Elapse, Promise!Elapse
  <2>5. UNCHANGED MemoryAs!vars => UNCHANGED Promise!vars
    BY <2>1 DEF MemoryAs!vars, Promise!vars
  <2> QED
    BY <2>2, <2>3, <2>4, <2>5 DEF MemoryAs!Next, Promise!Next
<1>2. CASE backend = "redis"
  <2>1. /\ [s \in Sessions |-> HistoryOf(s)] = list
        /\ [s \in Sessions |-> HistoryOf(s)]' = list'
        /\ [s \in Sessions |-> IdleOf(s)] = [s \in Sessions |-> MaxAge - ttl[s]]
        /\ [s \in Sessions |-> IdleOf(s)]' = [s \in Sessions |-> MaxAge - ttl[s]]'
    BY <1>0, <1>2 DEF HistoryOf, Redis!History, IdleOf
  <2>2. RedisAs!Next \/ UNCHANGED RedisAs!vars
    BY <1>0, RedisNextRefines
  <2>3. ASSUME NEW s \in Sessions, NEW q \in Questions, RedisAs!AppendTurns(s, q) PROVE Promise!AppendTurns(s, q)
    BY <2>1, <2>3 DEF RedisAs!AppendTurns, Promise!AppendTurns, RedisAs!Newest, RedisAs!Pair, RedisAs!Turn,
       RedisAs!MaxTurns, Promise!Newest, Promise!Pair, Promise!Turn, Promise!MaxTurns
  <2>4. ASSUME NEW units \in {0, 1}, NEW gone \in SUBSET Sessions, RedisAs!Elapse(units, gone)
        PROVE  Promise!Elapse(units, gone)
    BY <2>1, <2>4 DEF RedisAs!Elapse, Promise!Elapse
  <2>5. UNCHANGED RedisAs!vars => UNCHANGED Promise!vars
    BY <2>1 DEF RedisAs!vars, Promise!vars
  <2> QED
    BY <2>2, <2>3, <2>4, <2>5 DEF RedisAs!Next, Promise!Next
<1> QED
  BY <1>0, <1>1, <1>2

LEMMA StoreInitRefines == StoreInit => Promise!Init
<1> SUFFICES ASSUME StoreInit PROVE Promise!Init
  OBVIOUS
<1>1. [s \in Sessions |-> HistoryOf(s)] = [s \in Sessions |-> <<>>]
  BY DEF StoreInit, Init, Redis!Init, HistoryOf, History, Redis!History
<1>2. [s \in Sessions |-> IdleOf(s)] = [s \in Sessions |-> MaxAge]
  BY Ages DEF StoreInit, Init, Redis!Init, IdleOf
<1> QED
  BY <1>1, <1>2 DEF Promise!Init

\* Whatever is appended meanwhile, a session is forgotten whole and only after
\* MaxAge without an append, by the prune job and by Redis alike.
THEOREM StoresImplementConversationStore == StoreSpec => ImplementsConversationStore
BY StoresInvariant, StoreInitRefines, StoreStepRefines, PTL
   DEF StoreSpec, ImplementsConversationStore, Promise!Spec
===============================================================================
