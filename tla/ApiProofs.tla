------------------------------- MODULE ApiProofs -------------------------------
(***************************************************************************)
(* Theorems about Api, for any requests, clients, addresses, rates and     *)
(* lifetimes: no client exceeds its budget in any window, registrations    *)
(* and roles hold, and cached answers are fresh.  Inv is inductive.        *)
(***************************************************************************)
EXTENDS Api, FiniteSetTheorems, TLAPS

LimiterTypes ==
    /\ now \in Times
    /\ limiters \in [Clients -> 0..Len(buckets)]
    /\ buckets \in Seq([tokens : 0..Burst, last : Times])
    /\ held \in [Requests -> 0..Len(buckets)]
    /\ admittedAt \in [Requests -> 0..(MaxTime + 1)]

AccountTypes ==
    /\ DOMAIN byID \subseteq Ids
    /\ \A i \in DOMAIN byID : byID[i] \in [email : Emails, password : Passwords,
                                           role : {"user", "admin"}]
    /\ \A a \in DOMAIN byEml : byEml[a] \in DOMAIN byID
    /\ found \in [Requests -> DOMAIN byID]
    /\ DOMAIN issued \subseteq Requests
    /\ \A t \in DOMAIN issued : issued[t] \in [user : DOMAIN byID,
                                              role : {"user", "admin"}, exp : Nat]

CacheTypes ==
    /\ redis \in BOOLEAN /\ ttl \in Nat
    /\ entries \in [Keys -> {Absent} \cup [by : Requests, stored : Times]]
    /\ answer \in [Requests -> {Unanswered} \cup [by : Requests, stored : Times, at : Times]]

RequestTypes ==
    /\ \E s \in Scenarios : route = s.route
    /\ client \in [Requests -> Clients]
    /\ email \in [Requests -> Emails] /\ password \in [Requests -> Passwords]
    /\ bearer \in [Requests -> Ids]
    /\ key \in [Requests -> Keys \cup {"none"}]
    /\ pc \in [Requests -> PCs]

\* Each handler stays on its own route.
Stages ==
    \A r \in Requests :
        /\ pc[r] = "create" => route[r] = "register"
        /\ pc[r] \in {"find", "verify"} => route[r] = "login"
        /\ pc[r] = "auth" => route[r] \in {"search", "admin"}
        /\ pc[r] = "role" => route[r] = "admin"
        /\ pc[r] \in {"lookup", "search"} => route[r] = "search"
        /\ pc[r] \in {"limit", "auth", "lookup", "search"} /\ route[r] = "search" => key[r] \in Keys

\* A client has one bucket for good, which all its requests hold and no other's do.
Limits ==
    /\ \A c, d \in Clients : limiters[c] = limiters[d] /\ limiters[c] # 0 => c = d
    /\ \A r \in Requests : /\ pc[r] # "new" => held[r] = limiters[client[r]] /\ held[r] # 0
                           /\ pc[r] \in {"new", "limit"} => admittedAt[r] = MaxTime + 1
                           /\ admittedAt[r] = MaxTime + 1 \/ admittedAt[r] <= now
    /\ \A i \in DOMAIN buckets : buckets[i].last <= now

Admitted(c, from, to) == {r \in Requests : client[r] = c /\ admittedAt[r] \in from..to}

Tokens(c) == IF limiters[c] = 0 THEN Burst ELSE Refilled(buckets[limiters[c]])

\* What was admitted up to now and could be admitted at once; and what was before.
Budget ==
    /\ \A c \in Clients, from \in 0..now :
          Cardinality(Admitted(c, from, now)) + Tokens(c) <= Burst + Rate * (now - from)
    /\ \A c \in Clients, from \in Times : \A to \in from..now :
          Cardinality(Admitted(c, from, to)) <= Burst + Rate * (to - from)

\* Who has an account, and under which address.
Registered ==
    /\ Seed \in DOMAIN byID
    /\ \A i \in DOMAIN byID : byID[i].role = "admin" <=> i = Seed
    /\ \A r \in Requests :
          /\ r \in DOMAIN byID <=> pc[r] = "201"
          /\ pc[r] = "201" => /\ Normal(email[r]) \in DOMAIN byEml
                              /\ byEml[Normal(email[r])] = r
                              /\ byID[r] = User(email[r], password[r], "user")
          /\ pc[r] = "verify" => /\ Normal(email[r]) \in DOMAIN byEml
                                 /\ found[r] = byEml[Normal(email[r])]

\* Whose a token is, and who is let in with it.
Identified ==
    /\ \A t \in DOMAIN issued :
          /\ pc[t] = "200"
          /\ Normal(email[t]) \in DOMAIN byEml
          /\ byEml[Normal(email[t])] = issued[t].user
          /\ byID[issued[t].user].password = password[t]
          /\ byID[issued[t].user].role = issued[t].role
    /\ \A r \in Requests :
          /\ pc[r] = "role" => bearer[r] \in DOMAIN issued
          /\ pc[r] = "200" /\ route[r] = "admin" =>
                bearer[r] \in DOMAIN issued /\ issued[bearer[r]].user = Seed

Cache ==   \* what is cached and what searches were answered with
    /\ \A k \in Keys : entries[k] # Absent =>
          /\ pc[entries[k].by] = "200" /\ key[entries[k].by] = k
          /\ entries[k].stored <= now
    /\ \A r \in Requests : pc[r] = "200" /\ route[r] = "search" =>
          /\ answer[r].by \in Requests
          /\ pc[answer[r].by] = "200" /\ key[answer[r].by] = key[r]
          /\ (redis /\ ttl = 0) \/ answer[r].at - answer[r].stored <= ttl

Types == LimiterTypes /\ AccountTypes /\ CacheTypes /\ RequestTypes
Inv == Types /\ Stages /\ Limits /\ Budget /\ Registered /\ Identified /\ Cache
--------------------------------------------------------------------------------
(* Steps of one handler: frames *)

\* A handler that goes on leaves the types and the budgets alone, and what holds of the
\* stages it was and is not at.
LEMMA StepFacts ==
    ASSUME RequestTypes, NEW r \in Requests, NEW from, NEW to, Step(r, from, to)
    PROVE  /\ pc[r] = from /\ (pc[r])' = to
           /\ \A q \in Requests : q # r => (pc[q])' = pc[q]
           /\ to \in PCs => pc' \in [Requests -> PCs]
BY DEF RequestTypes, Step

LEMMA LimitsFrame ==
    ASSUME RequestTypes, Limits, Budget, UNCHANGED <<now, limiterVars, client>>,
           NEW r \in Requests, NEW from, NEW to, Step(r, from, to),
           from # "new", to \notin {"new", "limit"}
    PROVE  Limits' /\ Budget'
<1>1. Limits'
  BY StepFacts DEF Limits, limiterVars
<1>2. Budget'
  BY DEF Budget, Admitted, Tokens, Refilled, limiterVars
<1> QED
  BY <1>1, <1>2

LEMMA AccountsFrame ==
    ASSUME RequestTypes, AccountTypes, Registered, Identified,
           UNCHANGED <<accountVars, email, password, bearer, route>>,
           NEW r \in Requests, NEW from, NEW to, Step(r, from, to),
           from \notin Ended, to \notin {"201", "verify", "role"},
           to = "200" => route[r] # "admin"
    PROVE  AccountTypes' /\ Registered' /\ Identified'
<1>1. from # "201" /\ from # "200"
  BY DEF Ended
<1>2. AccountTypes'
  BY DEF AccountTypes, accountVars
<1>3. Registered'
  BY <1>1, StepFacts DEF Registered, accountVars
<1>4. Identified'
  <2>1. \A t \in DOMAIN issued : t \in Requests /\ t # r
    BY <1>1, StepFacts DEF Identified, AccountTypes
  <2> QED
    BY <1>1, <2>1, StepFacts DEF Identified, accountVars
<1> QED
  BY <1>2, <1>3, <1>4

LEMMA CacheFrame ==
    ASSUME RequestTypes, CacheTypes, Cache, UNCHANGED <<now, cacheVars, key, route, answer>>,
           NEW r \in Requests, NEW from, NEW to, Step(r, from, to),
           from \notin Ended, to = "200" => route[r] # "search"
    PROVE  CacheTypes' /\ Cache'
<1>1. from # "200"
  BY DEF Ended
<1>2. CacheTypes'
  BY DEF CacheTypes, cacheVars
<1>3. Cache'
  <2>1. \A k \in Keys : entries[k] # Absent => entries[k].by \in Requests
    BY DEF CacheTypes
  <2> QED
    BY <1>1, <2>1, StepFacts DEF Cache, cacheVars
<1> QED
  BY <1>2, <1>3

LEMMA StagesFrame ==
    ASSUME RequestTypes, Stages, UNCHANGED requestVars,
           NEW r \in Requests, NEW from, NEW to \in PCs, Step(r, from, to),
           \/ to \in Ended
           \/ to = "verify" /\ from = "find"
           \/ to = "role" /\ route[r] = "admin"
           \/ to = "search" /\ from = "lookup"
    PROVE  RequestTypes' /\ Stages'
<1>1. RequestTypes'
  BY StepFacts DEF RequestTypes, requestVars
<1>2. Stages'
  BY StepFacts DEF Stages, requestVars, Ended
<1> QED
  BY <1>1, <1>2

\* Most refusals change nothing but where the handler is.
LEMMA RespondStep ==
    ASSUME Inv, NEW r \in Requests, NEW from, NEW to, Respond(r, from, to),
           from \in PCs \ (Ended \cup {"new"}), to \in Ended \ {"200", "201"}
    PROVE  Inv'
<1>1. /\ Step(r, from, to)
      /\ UNCHANGED <<now, limiterVars, accountVars, cacheVars, requestVars, answer>>
  BY DEF Respond
<1>2. /\ from # "new" /\ from \notin Ended /\ to \in PCs
      /\ to \notin {"new", "limit", "201", "200", "verify", "role"}
  BY DEF PCs, Ended
<1>3. UNCHANGED <<client, email, password, bearer, route, key>>
  BY <1>1 DEF requestVars
<1>4. Limits' /\ Budget'
  BY <1>1, <1>2, <1>3, LimitsFrame DEF Inv, Types
<1>5. AccountTypes' /\ Registered' /\ Identified'
  BY <1>1, <1>2, <1>3, AccountsFrame DEF Inv, Types
<1>6. CacheTypes' /\ Cache'
  BY <1>1, <1>2, <1>3, CacheFrame DEF Inv, Types
<1>7. RequestTypes' /\ Stages'
  BY <1>1, <1>2, StagesFrame DEF Inv, Types
<1>8. LimiterTypes'
  BY <1>1 DEF Inv, Types, LimiterTypes, limiterVars
<1> QED
  BY <1>4, <1>5, <1>6, <1>7, <1>8 DEF Inv, Types
--------------------------------------------------------------------------------
(* The limiter *)

LEMMA Amounts ==
    /\ Rate \in Nat /\ Burst \in Nat /\ MaxTime \in Nat /\ TokenTTL \in Nat
    /\ IsFiniteSet(Requests)
BY ApiAssumption

\* Refilling never takes a token away, and never gives more than the burst.
LEMMA RefillFacts ==
    ASSUME now \in Times, NEW b \in [tokens : 0..Burst, last : Times], b.last <= now
    PROVE  /\ Refilled(b) \in 0..Burst /\ b.tokens <= Refilled(b)
           /\ b.last = now => Refilled(b) = b.tokens
<1>1. /\ now \in Nat /\ b.last \in Nat /\ b.tokens \in Nat /\ b.tokens <= Burst
      /\ Rate \in Nat /\ Burst \in Nat
  BY Amounts DEF Times
<1>2. PICK d \in Nat : d = now - b.last
  BY <1>1
<1>3. PICK x \in Nat : x = Rate * d
  BY <1>1, <1>2
<1>4. d = 0 => x = 0
  BY <1>1, <1>3
<1>5. Refilled(b) = IF b.tokens + x < Burst THEN b.tokens + x ELSE Burst
  BY <1>2, <1>3 DEF Refilled
<1> QED
  BY <1>1, <1>2, <1>3, <1>4, <1>5

LEMMA TokenFacts ==
    ASSUME LimiterTypes, Limits, NEW c \in Clients
    PROVE  /\ Tokens(c) \in 0..Burst
           /\ limiters[c] # 0 =>
                 /\ limiters[c] \in DOMAIN buckets
                 /\ buckets[limiters[c]] \in [tokens : 0..Burst, last : Times]
                 /\ buckets[limiters[c]].last <= now
<1>1. limiters[c] \in 0..Len(buckets) /\ Len(buckets) \in Nat
  BY DEF LimiterTypes
<1>2. CASE limiters[c] = 0
  BY <1>2, Amounts DEF Tokens
<1>3. CASE limiters[c] # 0
  <2>1. limiters[c] \in DOMAIN buckets
    BY <1>1, <1>3 DEF LimiterTypes
  <2>2. /\ buckets[limiters[c]] \in [tokens : 0..Burst, last : Times]
        /\ buckets[limiters[c]].last <= now
    <3>1. buckets \in Seq([tokens : 0..Burst, last : Times])
      BY DEF LimiterTypes
    <3>2. \A i \in DOMAIN buckets : buckets[i] \in [tokens : 0..Burst, last : Times]
      <4> DEFINE B == [tokens : 0..Burst, last : Times]
      <4> HIDE DEF B
      <4>1. buckets \in Seq(B) => \A i \in DOMAIN buckets : buckets[i] \in B
        OBVIOUS
      <4> QED
        BY <3>1, <4>1 DEF B
    <3> QED
      BY <2>1, <3>2 DEF Limits
  <2>3. now \in Times
    BY DEF LimiterTypes
  <2>4. Refilled(buckets[limiters[c]]) \in 0..Burst
    BY <2>2, <2>3, RefillFacts
  <2> QED
    BY <1>3, <2>1, <2>2, <2>4 DEF Tokens
<1> QED
  BY <1>2, <1>3

LEMMA AdmittedFacts ==
    ASSUME NEW c, NEW from, NEW to
    PROVE  /\ IsFiniteSet(Admitted(c, from, to))
           /\ Cardinality(Admitted(c, from, to)) \in Nat
<1>1. Admitted(c, from, to) \in SUBSET Requests
  BY DEF Admitted
<1> QED
  BY <1>1, Amounts, FS_Subset, FS_CardinalityType

LEMMA InitialBudget == Init => LimiterTypes /\ Limits /\ Budget
<1> SUFFICES ASSUME Init PROVE LimiterTypes /\ Limits /\ Budget
  OBVIOUS
<1>1. /\ now = 0
      /\ limiters = [c \in Clients |-> 0]
      /\ buckets = <<>>
      /\ held = [r \in Requests |-> 0]
      /\ admittedAt = [r \in Requests |-> MaxTime + 1]
      /\ pc = [r \in Requests |-> "new"]
  BY DEF Init, LimiterInit
<1>2. LimiterTypes
  BY <1>1, Amounts DEF LimiterTypes, Times
<1>3. Limits
  BY <1>1 DEF Limits
<1>4. ASSUME NEW c \in Clients, NEW from \in Times, NEW to \in from..0
      PROVE  Cardinality(Admitted(c, from, to)) = 0
  <2>1. Admitted(c, from, to) = {}
    BY <1>1, Amounts DEF Admitted, Times
  <2> QED
    BY <2>1, FS_EmptySet
<1>5. Budget
  <2>1. ASSUME NEW c \in Clients, NEW from \in 0..now
        PROVE  Cardinality(Admitted(c, from, now)) + Tokens(c) <= Burst + Rate * (now - from)
    <3>1. from = 0 /\ now = 0 /\ 0 \in Times
      BY <1>1, Amounts DEF Times
    <3>2. Cardinality(Admitted(c, 0, 0)) = 0 /\ Tokens(c) = Burst
      BY <1>1, <1>4, <3>1 DEF Tokens
    <3> QED
      BY <3>1, <3>2, Amounts
  <2>2. ASSUME NEW c \in Clients, NEW from \in Times, NEW to \in from..now
        PROVE  Cardinality(Admitted(c, from, to)) <= Burst + Rate * (to - from)
    <3>1. from = 0 /\ to = 0
      BY <1>1, Amounts DEF Times
    <3>2. Cardinality(Admitted(c, from, to)) = 0
      BY <1>1, <1>4
    <3> QED
      BY <3>1, <3>2, Amounts
  <2> QED
    BY <2>1, <2>2 DEF Budget
<1> QED
  BY <1>2, <1>3, <1>5

\* A new client's bucket is full, which is what it was credited with before.
LEMMA ArriveLimits ==
    ASSUME Inv, NEW r \in Requests, Arrive(r)
    PROVE  LimiterTypes' /\ Limits' /\ Budget'
<1> DEFINE c == client[r]
<1>1. /\ Step(r, "new", "limit")
      /\ IF limiters[c] = 0 THEN NewBucket(r, c) ELSE OwnBucket(r, c)
      /\ UNCHANGED <<admittedAt, now, client>>
  BY DEF Arrive, FindBucket
<1>2. c \in Clients /\ \A q \in Requests : client[q] \in Clients
  BY DEF Inv, Types, RequestTypes
<1>3. Len(buckets) \in Nat /\ now \in Times /\ now \in Nat
  BY Amounts DEF Inv, Types, LimiterTypes, Times
<1>4. /\ pc[r] = "new" /\ (pc[r])' = "limit"
      /\ \A q \in Requests : q # r => (pc[q])' = pc[q]
  BY <1>1, StepFacts DEF Inv, Types
<1>5. Limits /\ LimiterTypes /\ Budget
  BY DEF Inv, Types
<1> HIDE DEF c
<1>6. CASE limiters[c] # 0
  <2>1. /\ held' = [held EXCEPT ![r] = limiters[c]]
        /\ UNCHANGED <<limiters, buckets, admittedAt, now, client>>
    BY <1>1, <1>6 DEF OwnBucket
  <2>2. LimiterTypes'
    BY <1>2, <1>5, <2>1 DEF LimiterTypes
  <2>3. Limits'
    BY <1>2, <1>4, <1>5, <1>6, <2>1 DEF LimiterTypes, Limits, c
  <2>4. Budget'
    BY <1>5, <2>1 DEF Budget, Admitted, Tokens, Refilled
  <2> QED
    BY <2>2, <2>3, <2>4
<1>7. CASE limiters[c] = 0
  <2>1. PICK n \in Nat : n = Len(buckets) + 1
    BY <1>3
  <2>2. PICK b : b = [tokens |-> Burst, last |-> now]
    OBVIOUS
  <2>3. b \in [tokens : 0..Burst, last : Times] /\ b.tokens = Burst /\ b.last = now
    BY <1>3, <2>2, Amounts
  <2>4. /\ buckets' = Append(buckets, b)
        /\ limiters' = [limiters EXCEPT ![c] = Len(buckets')]
        /\ held' = [held EXCEPT ![r] = Len(buckets')]
        /\ UNCHANGED <<admittedAt, now, client>>
    BY <1>1, <1>7, <2>2 DEF NewBucket
  <2>5. buckets \in Seq([tokens : 0..Burst, last : Times])
    BY <1>5 DEF LimiterTypes
  <2>6. /\ buckets' \in Seq([tokens : 0..Burst, last : Times])
        /\ Len(buckets') = n /\ buckets'[n] = b
        /\ DOMAIN buckets' = 1..n /\ DOMAIN buckets = 1..(n - 1)
        /\ \A i \in 1..(n - 1) : buckets'[i] = buckets[i]
    BY <2>1, <2>3, <2>4, <2>5
  <2>7. /\ limiters' = [limiters EXCEPT ![c] = n]
        /\ held' = [held EXCEPT ![r] = n]
    BY <2>4, <2>6
  <2>8. limiters \in [Clients -> 0..(n - 1)] /\ held \in [Requests -> 0..(n - 1)]
    BY <1>3, <1>5, <2>1 DEF LimiterTypes
  <2>9. LimiterTypes'
    <3>1. limiters' \in [Clients -> 0..n] /\ held' \in [Requests -> 0..n]
      <4>1. 0..(n - 1) \subseteq 0..n /\ n \in 0..n
        BY <2>1
      <4> QED
        BY <2>7, <2>8, <4>1
    <3> QED
      BY <1>5, <2>4, <2>6, <3>1 DEF LimiterTypes
  <2>10. Limits'
    <3>1. \A d, e \in Clients : (limiters[d])' = (limiters[e])' /\ (limiters[d])' # 0 => d = e
      BY <1>2, <1>5, <2>1, <2>7, <2>8 DEF Limits
    <3>2. ASSUME NEW q \in Requests
          PROVE  /\ (pc[q])' # "new" => (held[q])' = limiters'[client[q]] /\ (held[q])' # 0
                 /\ (pc[q])' \in {"new", "limit"} => admittedAt[q] = MaxTime + 1
                 /\ admittedAt[q] = MaxTime + 1 \/ admittedAt[q] <= now
      <4>1. CASE q = r
        BY <1>2, <1>4, <1>5, <2>1, <2>7, <2>8, <4>1 DEF Limits, c
      <4>2. CASE q # r
        BY <1>2, <1>4, <1>5, <1>7, <2>1, <2>7, <2>8, <4>2 DEF Limits
      <4> QED
        BY <4>1, <4>2
    <3>3. \A i \in DOMAIN buckets' : buckets'[i].last <= now
      BY <1>3, <1>5, <2>1, <2>3, <2>6 DEF Limits
    <3> QED
      BY <2>4, <3>1, <3>2, <3>3 DEF Limits
  <2>11. ASSUME NEW d \in Clients PROVE Tokens(d)' = Tokens(d)
    <3>1. CASE d = c
      <4>1. (limiters[d])' = n /\ n # 0
        BY <2>1, <1>3, <2>7, <2>8, <3>1
      <4>2. Refilled(b) = Burst
        BY <1>3, <2>3, RefillFacts
      <4>3. Refilled(b)' = Refilled(b)
        BY <2>2, <2>4 DEF Refilled
      <4>4. Tokens(d)' = Refilled(b)'
        BY <2>6, <4>1 DEF Tokens, Refilled
      <4> QED
        BY <1>7, <3>1, <4>2, <4>3, <4>4 DEF Tokens
    <3>2. CASE d # c
      <4>1. (limiters[d])' = limiters[d] /\ limiters[d] \in 0..(n - 1)
        BY <2>7, <2>8, <3>2
      <4>2. limiters[d] # 0 => buckets'[limiters[d]] = buckets[limiters[d]]
        BY <2>1, <2>6, <4>1
      <4>3. CASE limiters[d] = 0
        BY <4>1, <4>3 DEF Tokens
      <4>4. CASE limiters[d] # 0
        <5>1. PICK own : own = buckets[limiters[d]]
          OBVIOUS
        <5>2. (buckets[limiters[d]])' = own
          BY <4>1, <4>2, <4>4, <5>1
        <5>3. Tokens(d)' = Refilled(own)'
          BY <4>1, <4>4, <5>2 DEF Tokens, Refilled
        <5>4. Refilled(own)' = Refilled(own)
          BY <2>4 DEF Refilled
        <5> QED
          BY <4>4, <5>1, <5>3, <5>4 DEF Tokens
      <4> QED
        BY <4>3, <4>4
    <3> QED
      BY <3>1, <3>2
  <2>12. Budget'
    BY <1>5, <2>4, <2>11 DEF Budget, Admitted
  <2> QED
    BY <2>9, <2>10, <2>12
<1> QED
  BY <1>6, <1>7

LEMMA Product ==
    ASSUME NEW a \in Nat
    PROVE  Rate * a \in Nat /\ Rate * (a + 1) = Rate * a + Rate
BY Amounts

\* Admitting a request takes a token of its client's one bucket.
LEMMA AdmitLimits ==
    ASSUME Inv, NEW r \in Requests, Admit(r)
    PROVE  LimiterTypes' /\ Limits' /\ Budget'
<1>1. /\ Step(r, "limit", Handler(r)) /\ TakeToken(r)
      /\ UNCHANGED <<now, client>>
  BY DEF Admit, requestVars
<1>2. Limits /\ LimiterTypes /\ Budget /\ RequestTypes
  BY DEF Inv, Types
<1>3. /\ pc[r] = "limit" /\ (pc[r])' \notin {"new", "limit"}
      /\ \A q \in Requests : q # r => (pc[q])' = pc[q]
  BY <1>1, <1>2, StepFacts DEF Handler
<1>4. PICK c \in Clients : c = client[r]
  BY <1>2 DEF RequestTypes
<1>5. PICK i : i = limiters[c]
  OBVIOUS
<1>6. /\ held[r] = i /\ i # 0 /\ i \in DOMAIN buckets
      /\ buckets[i] \in [tokens : 0..Burst, last : Times] /\ buckets[i].last <= now
  BY <1>2, <1>3, <1>4, <1>5, TokenFacts DEF Limits
<1>7. now \in Times /\ now \in Nat /\ now <= MaxTime
  BY <1>2, Amounts DEF LimiterTypes, Times
<1>8. PICK f \in 0..Burst : f = Refilled(buckets[i])
  BY <1>6, <1>7, RefillFacts
<1>9. PICK b : b = [tokens |-> f - 1, last |-> now]
  OBVIOUS
<1>10. /\ f >= 1 /\ buckets' = [buckets EXCEPT ![i] = b]
       /\ admittedAt' = [admittedAt EXCEPT ![r] = now]
       /\ UNCHANGED <<limiters, held>>
  BY <1>1, <1>6, <1>8, <1>9 DEF TakeToken, HasToken
<1>11. b \in [tokens : 0..Burst, last : Times] /\ b.tokens = f - 1 /\ b.last = now
  BY <1>7, <1>8, <1>9, <1>10, Amounts
<1>12. admittedAt[r] = MaxTime + 1 /\ (admittedAt[r])' = now
       /\ \A q \in Requests : q # r => (admittedAt[q])' = admittedAt[q]
  BY <1>2, <1>3, <1>10 DEF Limits, LimiterTypes
<1>13. LimiterTypes'
  <2>1. buckets' \in Seq([tokens : 0..Burst, last : Times]) /\ Len(buckets') = Len(buckets)
    <3> DEFINE B == [tokens : 0..Burst, last : Times]
    <3>1. buckets \in Seq(B) /\ b \in B
      BY <1>2, <1>11 DEF LimiterTypes
    <3> HIDE DEF B
    <3>2. buckets' \in Seq(B) /\ Len(buckets') = Len(buckets)
      BY <1>6, <1>10, <3>1
    <3> QED
      BY <3>2 DEF B
  <2>2. admittedAt' \in [Requests -> 0..(MaxTime + 1)]
    BY <1>2, <1>7, <1>10, Amounts DEF LimiterTypes
  <2> QED
    BY <1>1, <1>2, <1>10, <2>1, <2>2 DEF LimiterTypes
<1>14. Limits'
  <2>1. \A q \in Requests : /\ (pc[q])' # "new" => held[q] = limiters[client[q]] /\ held[q] # 0
                            /\ (pc[q])' \in {"new", "limit"} => (admittedAt[q])' = MaxTime + 1
                            /\ (admittedAt[q])' = MaxTime + 1 \/ (admittedAt[q])' <= now
    BY <1>2, <1>3, <1>7, <1>12 DEF Limits
  <2>2. \A j \in DOMAIN buckets' : buckets'[j].last <= now
    BY <1>2, <1>7, <1>10, <1>11 DEF Limits
  <2> QED
    BY <1>1, <1>2, <1>10, <2>1, <2>2 DEF Limits
<1>15. ASSUME NEW d \in Clients, NEW from \in 0..now
       PROVE  /\ Cardinality(Admitted(d, from, now)') + Tokens(d)'
                    <= Burst + Rate * (now - from)
              /\ Cardinality(Admitted(d, from, now)') <= Burst + Rate * (now - from)
  <2>1. Cardinality(Admitted(d, from, now)) + Tokens(d) <= Burst + Rate * (now - from)
    BY <1>2, <1>15 DEF Budget
  <2>2. /\ Cardinality(Admitted(d, from, now)) \in Nat /\ IsFiniteSet(Admitted(d, from, now))
        /\ Tokens(d) \in 0..Burst
    BY <1>2, AdmittedFacts, TokenFacts
  <2>3. PICK x \in Nat : x = Rate * (now - from)
    <3>1. now - from \in Nat
      BY <1>7
    <3> QED
      BY <3>1, Product
  <2>4. CASE d # c
    <3>1. Admitted(d, from, now)' = Admitted(d, from, now)
      BY <1>1, <1>4, <1>12, <2>4 DEF Admitted
    <3>2. Tokens(d)' = Tokens(d)
      <4>1. limiters[d] # i
        BY <1>2, <1>5, <1>6, <2>4 DEF Limits
      <4>2. CASE limiters[d] = 0
        BY <1>10, <4>2 DEF Tokens
      <4>3. CASE limiters[d] # 0
        <5>1. PICK own : own = buckets[limiters[d]]
          OBVIOUS
        <5>2. limiters[d] \in DOMAIN buckets
          BY <1>2, <4>3, TokenFacts
        <5>3. (buckets[limiters[d]])' = own
          BY <1>10, <4>1, <5>1, <5>2
        <5>4. Tokens(d)' = Refilled(own)'
          BY <1>10, <4>3, <5>3 DEF Tokens, Refilled
        <5>5. Refilled(own)' = Refilled(own)
          BY <1>1 DEF Refilled
        <5> QED
          BY <4>3, <5>1, <5>4, <5>5 DEF Tokens
      <4> QED
        BY <4>2, <4>3
    <3> QED
      BY <2>1, <2>2, <2>3, <3>1, <3>2, Amounts
  <2>5. CASE d = c
    <3>1. from \in Nat /\ from <= now /\ now \in from..now /\ MaxTime + 1 \notin from..now
      BY <1>7, Amounts
    <3>2. Admitted(d, from, now)' = Admitted(d, from, now) \cup {r}
      BY <1>1, <1>4, <1>12, <2>5, <3>1 DEF Admitted
    <3>3. r \notin Admitted(d, from, now)
      BY <1>12, <3>1 DEF Admitted
    <3>4. Cardinality(Admitted(d, from, now)') = Cardinality(Admitted(d, from, now)) + 1
      BY <2>2, <3>2, <3>3, FS_AddElement
    <3>5. Tokens(d) = f
      BY <1>5, <1>6, <1>8, <2>5 DEF Tokens
    <3>6. Tokens(d)' = f - 1
      <4>1. (buckets[limiters[d]])' = b /\ (limiters[d])' # 0
        BY <1>5, <1>6, <1>10, <2>5
      <4>2. Tokens(d)' = Refilled(b)'
        BY <4>1 DEF Tokens, Refilled
      <4>3. Refilled(b) = f - 1
        BY <1>7, <1>11, RefillFacts
      <4>4. Refilled(b)' = Refilled(b)
        BY <1>1, <1>9 DEF Refilled
      <4> QED
        BY <4>2, <4>3, <4>4
    <3> QED
      BY <1>10, <2>1, <2>2, <2>3, <3>4, <3>5, <3>6, Amounts
  <2> QED
    BY <2>4, <2>5
<1>16. ASSUME NEW d \in Clients, NEW from \in Times, NEW to \in from..now
       PROVE  Cardinality(Admitted(d, from, to)') <= Burst + Rate * (to - from)
  <2>1. CASE to = now
    <3>1. from \in 0..now
      BY <1>7, <2>1 DEF Times
    <3>2. Admitted(d, from, to)' = Admitted(d, from, now)'
      BY <1>1, <2>1 DEF Admitted
    <3> QED
      BY <1>15, <2>1, <3>1, <3>2
  <2>2. CASE to # now
    <3>1. now \notin from..to /\ MaxTime + 1 \notin from..to
      BY <1>7, <2>2, Amounts DEF Times
    <3>2. Admitted(d, from, to)' = Admitted(d, from, to)
      BY <1>1, <1>12, <3>1 DEF Admitted
    <3> QED
      BY <1>2, <3>2 DEF Budget
  <2> QED
    BY <2>1, <2>2
<1>17. Budget'
  <2>1. now' = now
    BY <1>1
  <2>2. \A d \in Clients, from \in 0..now' :
          Cardinality(Admitted(d, from, now)') + Tokens(d)' <= Burst + Rate * (now' - from)
    BY <1>15, <2>1
  <2>3. \A d \in Clients, from \in Times : \A to \in from..now' :
          Cardinality(Admitted(d, from, to)') <= Burst + Rate * (to - from)
    BY <1>16, <2>1
  <2> QED
    BY <2>2, <2>3 DEF Budget
<1> QED
  BY <1>13, <1>14, <1>17

\* An instant adds at most the rate to what can be admitted at once.
LEMMA TickLimits ==
    ASSUME Inv, Tick, UNCHANGED <<limiterVars, requestVars, pc>>
    PROVE  LimiterTypes' /\ Limits' /\ Budget'
<1>1. /\ now < MaxTime /\ now' = now + 1
      /\ UNCHANGED <<limiters, buckets, held, admittedAt, client, pc>>
  BY DEF Tick, limiterVars, requestVars
<1>2. Limits /\ LimiterTypes /\ Budget
  BY DEF Inv, Types
<1>3. now \in Nat /\ now' \in Times /\ now \in Times
  BY <1>1, <1>2, Amounts DEF LimiterTypes, Times
<1>4. LimiterTypes'
  BY <1>1, <1>2, <1>3 DEF LimiterTypes
<1>5. Limits'
  <2>1. \A q \in Requests : admittedAt[q] <= now => admittedAt[q] <= now + 1
    BY <1>2, <1>3, Amounts DEF LimiterTypes
  <2>2. \A j \in DOMAIN buckets : buckets[j].last <= now + 1
    <3> SUFFICES ASSUME NEW j \in DOMAIN buckets PROVE buckets[j].last <= now + 1
      OBVIOUS
    <3>1. buckets[j].last \in Nat
      <4> DEFINE B == [tokens : 0..Burst, last : Times]
      <4>1. \A x \in B : x.last \in Nat
        BY Amounts DEF Times
      <4>2. buckets \in Seq(B)
        BY <1>2 DEF LimiterTypes
      <4> HIDE DEF B
      <4> QED
        BY <4>1, <4>2
    <3> QED
      BY <1>2, <1>3, <3>1 DEF Limits
  <2> QED
    BY <1>1, <1>2, <2>1, <2>2 DEF Limits
<1>6. ASSUME NEW d \in Clients
      PROVE  /\ Tokens(d)' \in 0..Burst /\ Tokens(d) \in 0..Burst
             /\ Tokens(d)' <= Tokens(d) + Rate
  <2>1. CASE limiters[d] = 0
    BY <1>1, <2>1, Amounts DEF Tokens
  <2>2. CASE limiters[d] # 0
    <3>1. PICK b : b = buckets[limiters[d]]
      OBVIOUS
    <3>2. b \in [tokens : 0..Burst, last : Times] /\ b.last <= now
      BY <1>2, <2>2, <3>1, TokenFacts
    <3>3. b.tokens \in Nat /\ b.last \in Nat
      BY <3>2, Amounts DEF Times
    <3>4. PICK a \in Nat : a = now - b.last
      BY <1>3, <3>2, <3>3
    <3>5. PICK x \in Nat : x = Rate * a /\ Rate * (a + 1) = x + Rate
      BY Product
    <3>6. Refilled(b) = IF b.tokens + x < Burst THEN b.tokens + x ELSE Burst
      BY <3>4, <3>5 DEF Refilled
    <3>7. now' - b.last = a + 1
      BY <1>1, <1>3, <3>3, <3>4
    <3>8. Refilled(b)' = IF b.tokens + (x + Rate) < Burst THEN b.tokens + (x + Rate) ELSE Burst
      BY <3>5, <3>7 DEF Refilled
    <3>9. Tokens(d) = Refilled(b)
      BY <2>2, <3>1 DEF Tokens
    <3>10. Tokens(d)' = Refilled(b)'
      BY <1>1, <2>2, <3>1 DEF Tokens, Refilled
    <3>11. \A n, m, k, top \in Nat :
             LET before == IF n + m < top THEN n + m ELSE top
                 after == IF n + (m + k) < top THEN n + (m + k) ELSE top
             IN  before \in 0..top /\ after \in 0..top /\ after <= before + k
      OBVIOUS
    <3>12. LET before == IF b.tokens + x < Burst THEN b.tokens + x ELSE Burst
               after == IF b.tokens + (x + Rate) < Burst THEN b.tokens + (x + Rate) ELSE Burst
           IN  before \in 0..Burst /\ after \in 0..Burst /\ after <= before + Rate
      BY <3>3, <3>11, Amounts
    <3> QED
      BY <3>6, <3>8, <3>9, <3>10, <3>12
  <2> QED
    BY <2>1, <2>2
<1>7. ASSUME NEW d \in Clients, NEW from \in Times, NEW to \in from..now
      PROVE  Admitted(d, from, to)' = Admitted(d, from, to)
  BY <1>1 DEF Admitted
<1>8. PICK t \in Nat : t = now + 1
  BY <1>3
<1>9. ASSUME NEW d \in Clients, NEW from \in 0..(t)
      PROVE  Cardinality(Admitted(d, from, t)') + Tokens(d)'
               <= Burst + Rate * (t - from)
  <2>1. ASSUME NEW q \in Requests PROVE admittedAt[q] # t
    <3>1. admittedAt[q] = MaxTime + 1 \/ admittedAt[q] <= now
      BY <1>2 DEF Limits
    <3> QED
      BY <3>1, <1>1, <1>3, <1>8, Amounts
  <2>2. CASE from = t
    <3>1. Admitted(d, from, t)' = {}
      BY <1>1, <1>3, <1>8, <2>1, <2>2 DEF Admitted
    <3>2. Cardinality(Admitted(d, from, t)') = 0
      BY <3>1, FS_EmptySet
    <3>3. Rate * (t - from) = 0
      BY <1>3, <1>8, <2>2, Amounts
    <3> QED
      BY <1>6, <3>2, <3>3, Amounts
  <2>3. CASE from # t
    <3>1. from \in 0..now /\ from \in Nat /\ from <= now
      BY <1>3, <1>8, <2>3
    <3>2. Admitted(d, from, t)' = Admitted(d, from, now)
      <4>1. \A q \in Requests : admittedAt[q] \in from..(t) <=> admittedAt[q] \in from..now
        BY <1>2, <1>3, <1>8, <2>1, <3>1, Amounts DEF LimiterTypes
      <4> QED
        BY <1>1, <4>1 DEF Admitted
    <3>3. PICK a \in Nat : a = now - from
      BY <1>3, <3>1
    <3>4. PICK x \in Nat : x = Rate * a /\ Rate * (a + 1) = x + Rate
      BY Product
    <3>5. Cardinality(Admitted(d, from, now)) + Tokens(d) <= Burst + x
      BY <1>2, <3>1, <3>3, <3>4 DEF Budget
    <3>6. t - from = a + 1
      BY <1>3, <1>8, <3>1, <3>3
    <3>7. Cardinality(Admitted(d, from, now)) \in Nat
      BY AdmittedFacts
    <3>8. Rate * (t - from) = x + Rate
      BY <3>4, <3>6
    <3> QED
      BY <1>6, <3>2, <3>5, <3>7, <3>8, Amounts
  <2> QED
    BY <2>2, <2>3
<1>10. ASSUME NEW d \in Clients, NEW from \in Times, NEW to \in from..(t)
      PROVE  Cardinality(Admitted(d, from, to)') <= Burst + Rate * (to - from)
  <2>1. CASE to = t
    <3>1. from \in 0..(t) /\ from \in Nat /\ from <= t
      BY <1>3, <1>8, <2>1, Amounts DEF Times
    <3>2. Cardinality(Admitted(d, from, t)') + Tokens(d)' <= Burst + Rate * (t - from)
      BY <1>9, <3>1
    <3>3. Cardinality(Admitted(d, from, t)') \in Nat
      <4>1. Admitted(d, from, t)' \in SUBSET Requests
        BY DEF Admitted
      <4> QED
        BY <4>1, Amounts, FS_Subset, FS_CardinalityType
    <3>4. PICK x \in Nat : x = Rate * (t - from)
      <4>1. t - from \in Nat
        BY <1>3, <1>8, <3>1
      <4> QED
        BY <4>1, Product
    <3>5. Cardinality(Admitted(d, from, t)') <= Burst + Rate * (t - from)
      BY <1>6, <3>2, <3>3, <3>4, Amounts
    <3>6. Admitted(d, from, to)' = Admitted(d, from, t)'
      BY <1>1, <1>3, <1>8, <2>1 DEF Admitted
    <3> QED
      BY <2>1, <3>5, <3>6
  <2>2. CASE to # t
    <3>1. to \in from..now
      BY <1>3, <1>8, <2>2, Amounts DEF Times
    <3> QED
      BY <1>2, <1>7, <3>1 DEF Budget
  <2> QED
    BY <2>1, <2>2
<1>11. Budget'
  <2>1. now' = t
    BY <1>1, <1>8
  <2>2. \A d \in Clients, from \in 0..now' :
          Cardinality(Admitted(d, from, t)') + Tokens(d)' <= Burst + Rate * (now' - from)
    BY <1>9, <2>1
  <2>3. \A d \in Clients, from \in 0..now' : Admitted(d, from, now)' = Admitted(d, from, t)'
    BY <2>1 DEF Admitted
  <2>4. \A d \in Clients, from \in Times : \A to \in from..now' :
          Cardinality(Admitted(d, from, to)') <= Burst + Rate * (to - from)
    BY <1>10, <2>1
  <2> QED
    BY <2>2, <2>3, <2>4 DEF Budget
<1> QED
  BY <1>4, <1>5, <1>11
--------------------------------------------------------------------------------
(* Arrivals and admissions, for the rest *)

LEMMA ArriveRequests ==
    ASSUME Inv, NEW r \in Requests, Arrive(r)
    PROVE  RequestTypes' /\ Stages'
<1>1. /\ Step(r, "new", "limit") /\ UNCHANGED <<route, client>>
      /\ RequestTypes /\ Stages /\ Seed \in Ids /\ DOMAIN issued \subseteq Ids
  BY DEF Arrive, Inv, Types, Ids, AccountTypes
<1>2. /\ email' \in [Requests -> Emails] /\ password' \in [Requests -> Passwords]
      /\ bearer' \in [Requests -> Ids] /\ key' \in [Requests -> Keys \cup {"none"}]
      /\ \A q \in Requests : q # r => (key[q])' = key[q]
  <2>1. CASE route[r] \in {"register", "login"}
    BY <1>1, <2>1 DEF Arrive, RequestTypes
  <2>2. CASE route[r] \notin {"register", "login"}
    BY <1>1, <2>2 DEF Arrive, RequestTypes
  <2> QED
    BY <2>1, <2>2
<1>3. RequestTypes'
  BY <1>1, <1>2, StepFacts DEF RequestTypes, PCs
<1>4. route[r] = "search" => (key[r])' \in Keys
  BY DEF Arrive, Inv, Types, RequestTypes
<1>5. Stages'
  BY <1>1, <1>2, <1>4, StepFacts DEF Stages, Ended
<1> QED
  BY <1>3, <1>5

\* A request that arrives holds no account, token or answer yet, and nobody waits for it.
LEMMA ArriveOthers ==
    ASSUME Inv, NEW r \in Requests, Arrive(r)
    PROVE  AccountTypes' /\ Registered' /\ Identified' /\ CacheTypes' /\ Cache'
<1>1. /\ Step(r, "new", "limit")
      /\ UNCHANGED <<now, accountVars, cacheVars, route, client, answer>>
  BY DEF Arrive
<1>2. \A q \in Requests : q # r => /\ (email[q])' = email[q] /\ (password[q])' = password[q]
                                   /\ (bearer[q])' = bearer[q] /\ (key[q])' = key[q]
  <2>1. CASE route[r] \in {"register", "login"}
    BY <2>1 DEF Arrive, Inv, Types, RequestTypes
  <2>2. CASE route[r] \notin {"register", "login"}
    BY <2>2 DEF Arrive, Inv, Types, RequestTypes
  <2> QED
    BY <2>1, <2>2
<1>3. /\ pc[r] = "new" /\ (pc[r])' = "limit"
      /\ \A q \in Requests : q # r => (pc[q])' = pc[q]
  BY <1>1, StepFacts DEF Inv, Types
<1>4. AccountTypes' /\ CacheTypes'
  BY <1>1 DEF Inv, Types, AccountTypes, CacheTypes, accountVars, cacheVars
<1>5. Registered'
  BY <1>1, <1>2, <1>3 DEF Inv, Registered, accountVars
<1>6. Identified'
  <2>1. \A t \in DOMAIN issued : t \in Requests /\ t # r
    BY <1>3 DEF Inv, Types, AccountTypes, Identified
  <2> QED
    BY <1>1, <1>2, <1>3, <2>1 DEF Inv, Identified, accountVars
<1>7. Cache'
  <2>1. \A k \in Keys : entries[k] # Absent => entries[k].by \in Requests /\ entries[k].by # r
    BY <1>3 DEF Inv, Types, CacheTypes, Cache
  <2>2. \A q \in Requests : pc[q] = "200" /\ route[q] = "search" =>
          answer[q].by \in Requests /\ answer[q].by # r
    BY <1>3 DEF Inv, Cache
  <2> QED
    BY <1>1, <1>2, <1>3, <2>1, <2>2 DEF Inv, Cache, cacheVars
<1> QED
  BY <1>4, <1>5, <1>6, <1>7

LEMMA AdmitOthers ==
    ASSUME Inv, NEW r \in Requests, Admit(r)
    PROVE  /\ RequestTypes' /\ Stages' /\ AccountTypes' /\ Registered' /\ Identified'
           /\ CacheTypes' /\ Cache'
<1>1. /\ Step(r, "limit", Handler(r))
      /\ UNCHANGED <<now, accountVars, cacheVars, requestVars, answer>>
      /\ UNCHANGED <<route, client, email, password, bearer, key>>
  BY DEF Admit, requestVars
<1>2. Handler(r) \in {"create", "find", "auth"}
  BY DEF Handler
<1>3. route[r] \in {"register", "login", "search", "admin"}
  BY ApiAssumption DEF Inv, Types, RequestTypes
<1>4. AccountTypes' /\ Registered' /\ Identified'
  BY <1>1, <1>2, AccountsFrame DEF Inv, Types, Ended
<1>5. CacheTypes' /\ Cache'
  BY <1>1, <1>2, CacheFrame DEF Inv, Types, Ended
<1>6. RequestTypes'
  BY <1>1, <1>2, StepFacts DEF Inv, Types, RequestTypes, PCs
<1>7. Stages'
  BY <1>1, <1>2, <1>3, StepFacts DEF Inv, Types, Stages, Handler
<1> QED
  BY <1>4, <1>5, <1>6, <1>7
--------------------------------------------------------------------------------
(* Accounts and tokens *)

\* What the steps of the account handlers leave alone.
LEMMA AccountStepFrame ==
    ASSUME Inv, UNCHANGED <<now, limiterVars, cacheVars, requestVars, answer>>,
           NEW r \in Requests, NEW from, NEW to \in PCs, Step(r, from, to),
           \/ from = "create" /\ to = "201"
           \/ from = "find" /\ to = "verify"
           \/ from = "verify" /\ to = "200"
           \/ from = "role" /\ to = "200"
           \/ from = "auth" /\ to = "role" /\ route[r] = "admin"
    PROVE  LimiterTypes' /\ Limits' /\ Budget' /\ CacheTypes' /\ Cache'
           /\ RequestTypes' /\ Stages'
<1>1. UNCHANGED <<route, client, email, password, bearer, key>>
  BY DEF requestVars
<1>2. from # "new" /\ from \notin Ended /\ to \notin {"new", "limit"}
  BY DEF Ended
<1>3. to = "200" => route[r] # "search"
  BY StepFacts DEF Inv, Types, Stages
<1>4. Limits' /\ Budget'
  BY <1>1, <1>2, LimitsFrame DEF Inv, Types
<1>5. CacheTypes' /\ Cache'
  BY <1>1, <1>2, <1>3, CacheFrame DEF Inv, Types
<1>6. RequestTypes' /\ Stages'
  BY StagesFrame DEF Inv, Types, Ended
<1>7. LimiterTypes'
  BY DEF Inv, Types, LimiterTypes, limiterVars
<1> QED
  BY <1>4, <1>5, <1>6, <1>7

\* An address that is taken keeps its account, and a new account takes a free one.
LEMMA RegisterStep ==
    ASSUME Inv, NEW r \in Requests, Register(r)
    PROVE  Inv'
<1>1. /\ Step(r, "create", "201")
      /\ UNCHANGED <<now, limiterVars, cacheVars, requestVars, answer>>
      /\ UNCHANGED <<route, client, email, password, bearer, key, found, issued>>
  BY DEF Register, Create, Insert, requestVars
<1>2. PICK user : user = User(email[r], password[r], "user")
  OBVIOUS
<1>3. PICK a : a = Normal(email[r])
  OBVIOUS
<1>4. /\ user \in [email : Emails, password : Passwords, role : {"user", "admin"}]
      /\ user.email = email[r] /\ user.password = password[r] /\ user.role = "user"
  BY <1>2 DEF User, Inv, Types, RequestTypes
<1>5. Normal(user.email) = a
  BY <1>3, <1>4
<1>6. /\ a \notin DOMAIN byEml
      /\ byID' = [i \in DOMAIN byID \cup {r} |-> IF i = r THEN user ELSE byID[i]]
      /\ byEml' = [b \in DOMAIN byEml \cup {a} |-> IF b = a THEN r ELSE byEml[b]]
  BY <1>2, <1>5 DEF Register, Create, Insert, Known
<1>7. /\ pc[r] = "create" /\ (pc[r])' = "201"
      /\ \A q \in Requests : q # r => (pc[q])' = pc[q]
  BY <1>1, StepFacts DEF Inv, Types
<1>8. r \notin DOMAIN byID /\ r # Seed
  BY <1>7, ApiAssumption DEF Inv, Registered
<1>9. AccountTypes'
  BY <1>1, <1>4, <1>6, <1>8 DEF Inv, Types, AccountTypes, Ids
<1>10. Registered'
  <2>1. Seed \in DOMAIN byID' /\ \A i \in DOMAIN byID' : byID'[i].role = "admin" <=> i = Seed
    BY <1>4, <1>6, <1>8 DEF Inv, Registered
  <2>2. ASSUME NEW q \in Requests
        PROVE  /\ q \in DOMAIN byID' <=> (pc[q])' = "201"
               /\ (pc[q])' = "201" => /\ Normal(email[q]) \in DOMAIN byEml'
                                      /\ byEml'[Normal(email[q])] = q
                                      /\ byID'[q] = User(email[q], password[q], "user")
               /\ (pc[q])' = "verify" => /\ Normal(email[q]) \in DOMAIN byEml'
                                         /\ found[q] = byEml'[Normal(email[q])]
    <3>1. CASE q = r
      BY <1>2, <1>3, <1>6, <1>7, <3>1
    <3>2. CASE q # r
      BY <1>6, <1>7, <1>8, <3>2 DEF Inv, Registered
    <3> QED
      BY <3>1, <3>2
  <2> QED
    BY <1>1, <2>1, <2>2 DEF Registered
<1>11. Identified'
  <2>1. ASSUME NEW t \in DOMAIN issued
        PROVE  /\ (pc[t])' = "200"
               /\ Normal(email[t]) \in DOMAIN byEml'
               /\ byEml'[Normal(email[t])] = issued[t].user
               /\ byID'[issued[t].user].password = password[t]
               /\ byID'[issued[t].user].role = issued[t].role
    <3>1. t \in Requests /\ t # r /\ issued[t].user \in DOMAIN byID
      BY <1>7 DEF Inv, Types, AccountTypes, Identified
    <3>2. issued[t].user # r
      BY <1>8, <3>1
    <3> QED
      BY <1>6, <1>7, <3>1, <3>2 DEF Inv, Identified
  <2>2. \A q \in Requests :
          /\ (pc[q])' = "role" => bearer[q] \in DOMAIN issued
          /\ (pc[q])' = "200" /\ route[q] = "admin" =>
                bearer[q] \in DOMAIN issued /\ issued[bearer[q]].user = Seed
    BY <1>7 DEF Inv, Identified
  <2> QED
    BY <1>1, <2>1, <2>2 DEF Identified
<1>12. /\ LimiterTypes' /\ Limits' /\ Budget' /\ CacheTypes' /\ Cache'
       /\ RequestTypes' /\ Stages'
  BY <1>1, AccountStepFrame DEF PCs, Ended
<1> QED
  BY <1>9, <1>10, <1>11, <1>12 DEF Inv, Types

LEMMA FindStep ==
    ASSUME Inv, NEW r \in Requests, Find(r)
    PROVE  Inv'
<1>1. /\ Step(r, "find", "verify")
      /\ UNCHANGED <<now, limiterVars, cacheVars, requestVars, answer>>
      /\ UNCHANGED <<route, client, email, password, bearer, key, byID, byEml, issued>>
      /\ Normal(email[r]) \in DOMAIN byEml
      /\ found' = [found EXCEPT ![r] = byEml[Normal(email[r])]]
  BY DEF Find, FindByEmail, Known, requestVars
<1>2. /\ pc[r] = "find" /\ (pc[r])' = "verify"
      /\ \A q \in Requests : q # r => (pc[q])' = pc[q]
  BY <1>1, StepFacts DEF Inv, Types
<1>3. AccountTypes'
  BY <1>1 DEF Inv, Types, AccountTypes
<1>4. Registered'
  BY <1>1, <1>2 DEF Inv, Types, AccountTypes, Registered
<1>5. Identified'
  <2>1. \A q \in Requests : (pc[q])' \in {"role", "200"} \/ pc[q] = "200" => (pc[q])' = pc[q]
    BY <1>2
  <2>2. DOMAIN issued \subseteq Requests
    BY DEF Inv, Types, AccountTypes
  <2>3. Identified
    BY DEF Inv
  <2> QED
    BY <1>1, <2>1, <2>2, <2>3 DEF Identified
<1>6. /\ LimiterTypes' /\ Limits' /\ Budget' /\ CacheTypes' /\ Cache'
      /\ RequestTypes' /\ Stages'
  BY <1>1, AccountStepFrame DEF PCs, Ended
<1> QED
  BY <1>3, <1>4, <1>5, <1>6 DEF Inv, Types

\* A token names the account found, whose password was just verified.
LEMMA IssueStep ==
    ASSUME Inv, NEW r \in Requests, Issue(r)
    PROVE  Inv'
<1>1. /\ Step(r, "verify", "200")
      /\ UNCHANGED <<now, limiterVars, cacheVars, requestVars, answer>>
      /\ UNCHANGED <<route, client, email, password, bearer, key, byID, byEml, found>>
      /\ byID[found[r]].password = password[r]
  BY DEF Issue, Generate, VerifyPassword, requestVars
<1>2. PICK claims : claims = [user |-> found[r], role |-> byID[found[r]].role,
                              exp |-> now + TokenTTL]
  OBVIOUS
<1>3. issued' = [t \in DOMAIN issued \cup {r} |-> IF t = r THEN claims ELSE issued[t]]
  BY <1>2 DEF Issue, Generate
<1>4. /\ pc[r] = "verify" /\ (pc[r])' = "200"
      /\ \A q \in Requests : q # r => (pc[q])' = pc[q]
  BY <1>1, StepFacts DEF Inv, Types
<1>5. /\ claims \in [user : DOMAIN byID, role : {"user", "admin"}, exp : Nat]
      /\ claims.user = found[r] /\ claims.role = byID[found[r]].role
  <2>1. found[r] \in DOMAIN byID /\ byID[found[r]].role \in {"user", "admin"}
    BY DEF Inv, Types, AccountTypes
  <2>2. now + TokenTTL \in Nat
    BY Amounts DEF Inv, Types, LimiterTypes, Times
  <2> QED
    BY <1>2, <2>1, <2>2
<1>6. AccountTypes'
  BY <1>1, <1>3, <1>5 DEF Inv, Types, AccountTypes
<1>7. Registered'
  BY <1>1, <1>4 DEF Inv, Registered
<1>8. Identified'
  <2>1. ASSUME NEW t \in DOMAIN issued'
        PROVE  /\ (pc[t])' = "200"
               /\ Normal(email[t]) \in DOMAIN byEml
               /\ byEml[Normal(email[t])] = issued'[t].user
               /\ byID[issued'[t].user].password = password[t]
               /\ byID[issued'[t].user].role = issued'[t].role
    <3>1. CASE t = r
      BY <1>1, <1>3, <1>4, <1>5, <3>1 DEF Inv, Registered
    <3>2. CASE t # r
      BY <1>1, <1>3, <1>4, <3>2 DEF Inv, Types, AccountTypes, Identified
    <3> QED
      BY <3>1, <3>2
  <2>2. r \notin DOMAIN issued /\ route[r] = "login"
    BY <1>4 DEF Inv, Identified, Stages
  <2>3. \A q \in Requests :
          /\ (pc[q])' = "role" => bearer[q] \in DOMAIN issued'
          /\ (pc[q])' = "200" /\ route[q] = "admin" =>
                bearer[q] \in DOMAIN issued' /\ issued'[bearer[q]].user = Seed
    BY <1>3, <1>4, <2>2 DEF Inv, Identified
  <2> QED
    BY <1>1, <2>1, <2>3 DEF Identified
<1>9. /\ LimiterTypes' /\ Limits' /\ Budget' /\ CacheTypes' /\ Cache'
      /\ RequestTypes' /\ Stages'
  BY <1>1, AccountStepFrame DEF PCs, Ended
<1> QED
  BY <1>6, <1>7, <1>8, <1>9 DEF Inv, Types

LEMMA AuthenticateStep ==
    ASSUME Inv, NEW r \in Requests, Authenticate(r)
    PROVE  Inv'
<1>1. PICK to : to = IF route[r] = "admin" THEN "role" ELSE "lookup"
  OBVIOUS
<1>2. /\ Step(r, "auth", to)
      /\ UNCHANGED <<now, limiterVars, accountVars, cacheVars, requestVars, answer>>
      /\ UNCHANGED <<route, client, email, password, bearer, key, byID, byEml, found, issued>>
      /\ bearer[r] \in DOMAIN issued
  BY <1>1 DEF Authenticate, Respond, Valid, accountVars, requestVars
<1>3. /\ pc[r] = "auth" /\ (pc[r])' = to
      /\ \A q \in Requests : q # r => (pc[q])' = pc[q]
  BY <1>2, StepFacts DEF Inv, Types
<1>4. CASE route[r] = "admin"
  <2>1. AccountTypes' /\ Registered' /\ Identified'
    <3>1. AccountTypes'
      BY <1>2 DEF Inv, Types, AccountTypes
    <3>2. Registered'
      BY <1>1, <1>2, <1>3, <1>4 DEF Inv, Registered
    <3>3. Identified'
      BY <1>1, <1>2, <1>3, <1>4 DEF Inv, Types, AccountTypes, Identified
    <3> QED
      BY <3>1, <3>2, <3>3
  <2>2. /\ LimiterTypes' /\ Limits' /\ Budget' /\ CacheTypes' /\ Cache'
        /\ RequestTypes' /\ Stages'
    BY <1>1, <1>2, <1>4, AccountStepFrame DEF PCs
  <2> QED
    BY <2>1, <2>2 DEF Inv, Types
<1>5. CASE route[r] # "admin"
  <2>1. to = "lookup" /\ route[r] = "search"
    BY <1>1, <1>3, <1>5 DEF Inv, Stages
  <2>2. AccountTypes' /\ Registered' /\ Identified'
    BY <1>2, <2>1, AccountsFrame DEF Inv, Types, Ended
  <2>3. CacheTypes' /\ Cache'
    BY <1>2, <2>1, CacheFrame DEF Inv, Types, Ended
  <2>4. LimiterTypes' /\ Limits' /\ Budget'
    BY <1>2, <2>1, LimitsFrame DEF Inv, Types, LimiterTypes, limiterVars
  <2>5. RequestTypes'
    BY <1>2, <2>1, StepFacts DEF Inv, Types, RequestTypes, PCs
  <2>6. Stages'
    BY <1>2, <1>3, <2>1 DEF Inv, Stages
  <2> QED
    BY <2>2, <2>3, <2>4, <2>5, <2>6 DEF Inv, Types
<1> QED
  BY <1>4, <1>5

\* Only the administrator's token has the administrator's role.
LEMMA RequireRoleStep ==
    ASSUME Inv, NEW r \in Requests, RequireRole(r)
    PROVE  Inv'
<1>1. CASE issued[bearer[r]].role # "admin"
  <2>1. Respond(r, "role", "403")
    BY <1>1 DEF RequireRole
  <2> QED
    BY <2>1, RespondStep DEF PCs, Ended
<1>2. CASE issued[bearer[r]].role = "admin"
  <2>1. /\ Step(r, "role", "200")
        /\ UNCHANGED <<now, limiterVars, accountVars, cacheVars, requestVars, answer>>
        /\ UNCHANGED <<route, client, email, password, bearer, key, byID, byEml, found, issued>>
    BY <1>2 DEF RequireRole, Respond, accountVars, requestVars
  <2>2. /\ pc[r] = "role" /\ (pc[r])' = "200"
        /\ \A q \in Requests : q # r => (pc[q])' = pc[q]
    BY <2>1, StepFacts DEF Inv, Types
  <2>3. bearer[r] \in DOMAIN issued /\ issued[bearer[r]].user = Seed
    <3>1. bearer[r] \in DOMAIN issued
      BY <2>2 DEF Inv, Identified
    <3>2. /\ issued[bearer[r]].user \in DOMAIN byID
          /\ byID[issued[bearer[r]].user].role = "admin"
      BY <1>2, <3>1 DEF Inv, Types, AccountTypes, Identified
    <3> QED
      BY <3>1, <3>2 DEF Inv, Registered
  <2>4. AccountTypes'
    BY <2>1 DEF Inv, Types, AccountTypes
  <2>5. Registered'
    BY <2>1, <2>2 DEF Inv, Registered
  <2>6. Identified'
    BY <2>1, <2>2, <2>3 DEF Inv, Types, AccountTypes, Identified
  <2>7. /\ LimiterTypes' /\ Limits' /\ Budget' /\ CacheTypes' /\ Cache'
        /\ RequestTypes' /\ Stages'
    BY <2>1, AccountStepFrame DEF PCs, Ended
  <2> QED
    BY <2>4, <2>5, <2>6, <2>7 DEF Inv, Types
<1> QED
  BY <1>1, <1>2
--------------------------------------------------------------------------------
(* Searches *)

\* What the steps of a search leave alone.
LEMMA SearchStepFrame ==
    ASSUME Inv, UNCHANGED <<now, limiterVars, accountVars, requestVars>>,
           NEW r \in Requests, NEW from, NEW to \in PCs, Step(r, from, to),
           \/ from = "lookup" /\ to = "200"
           \/ from = "lookup" /\ to = "search"
           \/ from = "search" /\ to = "200"
    PROVE  /\ LimiterTypes' /\ Limits' /\ Budget' /\ AccountTypes' /\ Registered'
           /\ Identified' /\ RequestTypes' /\ Stages'
<1>1. UNCHANGED <<route, client, email, password, bearer, key>>
  BY DEF requestVars
<1>2. from # "new" /\ from \notin Ended /\ to \notin {"new", "limit", "201", "verify", "role"}
  BY DEF Ended
<1>3. route[r] = "search"
  BY StepFacts DEF Inv, Types, Stages
<1>4. Limits' /\ Budget'
  BY <1>1, <1>2, LimitsFrame DEF Inv, Types
<1>5. AccountTypes' /\ Registered' /\ Identified'
  BY <1>1, <1>2, <1>3, AccountsFrame DEF Inv, Types
<1>6. RequestTypes' /\ Stages'
  BY StagesFrame DEF Inv, Types, Ended
<1>7. LimiterTypes'
  BY DEF Inv, Types, LimiterTypes, limiterVars
<1> QED
  BY <1>4, <1>5, <1>6, <1>7

\* A hit is an answer to the same key, stored within the lifetime.
LEMMA AnswerFromCacheStep ==
    ASSUME Inv, NEW r \in Requests, AnswerFromCache(r)
    PROVE  Inv'
<1>1. /\ Step(r, "lookup", "200") /\ Hit(key[r])
      /\ UNCHANGED <<now, limiterVars, accountVars, cacheVars, requestVars>>
      /\ UNCHANGED <<redis, ttl, entries, route, key>>
  BY DEF AnswerFromCache, cacheVars, requestVars
<1>2. PICK a : a = [by |-> entries[key[r]].by, stored |-> entries[key[r]].stored, at |-> now]
  OBVIOUS
<1>3. answer' = [answer EXCEPT ![r] = a]
  BY <1>2 DEF AnswerFromCache
<1>4. /\ pc[r] = "lookup" /\ (pc[r])' = "200" /\ key[r] \in Keys
      /\ \A q \in Requests : q # r => (pc[q])' = pc[q]
  BY <1>1, StepFacts DEF Inv, Types, Stages
<1>5. /\ entries[key[r]] # Absent
      /\ entries[key[r]] \in [by : Requests, stored : Times]
      /\ pc[entries[key[r]].by] = "200" /\ key[entries[key[r]].by] = key[r]
      /\ entries[key[r]].stored <= now
  BY <1>1, <1>4 DEF Hit, Inv, Types, CacheTypes, Cache
<1>6. now \in Times /\ ttl \in Nat
  BY DEF Inv, Types, LimiterTypes, CacheTypes
<1>7. /\ a \in [by : Requests, stored : Times, at : Times]
      /\ a.by = entries[key[r]].by /\ a.stored = entries[key[r]].stored /\ a.at = now
  BY <1>2, <1>5, <1>6
<1>8. (redis /\ ttl = 0) \/ now - a.stored <= ttl
  BY <1>1, <1>6, <1>7, Amounts DEF Hit, Expired, Times
<1>9. CacheTypes'
  BY <1>1, <1>3, <1>7 DEF Inv, Types, CacheTypes
<1>10. Cache'
  <2>1. \A k \in Keys : entries[k] # Absent =>
          entries[k].by \in Requests /\ pc'[entries[k].by] = "200"
    <3> SUFFICES ASSUME NEW k \in Keys, entries[k] # Absent
                 PROVE  entries[k].by \in Requests /\ pc'[entries[k].by] = "200"
      OBVIOUS
    <3>1. entries[k].by \in Requests /\ pc[entries[k].by] = "200"
      BY DEF Inv, Types, CacheTypes, Cache
    <3> QED
      BY <1>4, <3>1
  <2>2. ASSUME NEW q \in Requests, (pc[q])' = "200", route[q] = "search"
        PROVE  /\ answer'[q].by \in Requests
               /\ pc'[answer'[q].by] = "200" /\ key[answer'[q].by] = key[q]
               /\ (redis /\ ttl = 0) \/ answer'[q].at - answer'[q].stored <= ttl
    <3>1. CASE q = r
      <4>1. answer'[q] = a
        BY <1>3, <3>1 DEF Inv, Types, CacheTypes
      <4>2. a.by \in Requests /\ a.by # r /\ pc[a.by] = "200" /\ key[a.by] = key[r]
        BY <1>4, <1>5, <1>7
      <4> QED
        BY <1>4, <1>7, <1>8, <3>1, <4>1, <4>2
    <3>2. CASE q # r
      <4>1. answer'[q] = answer[q] /\ pc[q] = "200"
        BY <1>3, <1>4, <2>2, <3>2 DEF Inv, Types, CacheTypes
      <4> QED
        BY <1>4, <2>2, <4>1 DEF Inv, Cache
    <3> QED
      BY <3>1, <3>2
  <2> QED
    BY <1>1, <2>1, <2>2 DEF Inv, Cache
<1>11. /\ LimiterTypes' /\ Limits' /\ Budget' /\ AccountTypes' /\ Registered'
       /\ Identified' /\ RequestTypes' /\ Stages'
  BY <1>1, SearchStepFrame DEF PCs, Ended
<1> QED
  BY <1>9, <1>10, <1>11 DEF Inv, Types

LEMMA LookupMissesStep ==
    ASSUME Inv, NEW r \in Requests, LookupMisses(r)
    PROVE  Inv'
<1>1. /\ Step(r, "lookup", "search") /\ UNCHANGED <<redis, ttl>>
      /\ UNCHANGED <<now, limiterVars, accountVars, requestVars>>
      /\ UNCHANGED <<route, key, answer>>
      /\ entries' = entries \/ entries' = [entries EXCEPT ![key[r]] = Absent]
  BY DEF LookupMisses, Miss, requestVars
<1>2. /\ pc[r] = "lookup" /\ (pc[r])' = "search" /\ key[r] \in Keys
      /\ \A q \in Requests : q # r => (pc[q])' = pc[q]
  BY <1>1, StepFacts DEF Inv, Types, Stages
<1>3. CacheTypes'
  BY <1>1, <1>2 DEF Inv, Types, CacheTypes
<1>4. Cache'
  <2>1. ASSUME NEW k \in Keys, entries'[k] # Absent
        PROVE  /\ pc'[entries'[k].by] = "200" /\ key[entries'[k].by] = k
               /\ entries'[k].stored <= now
    <3>1. entries'[k] = entries[k]
      BY <1>1, <1>2, <2>1 DEF Inv, Types, CacheTypes
    <3>2. /\ entries[k].by \in Requests /\ pc[entries[k].by] = "200"
          /\ key[entries[k].by] = k /\ entries[k].stored <= now
      BY <2>1, <3>1 DEF Inv, Types, CacheTypes, Cache
    <3> QED
      BY <1>2, <3>1, <3>2
  <2>2. \A q \in Requests : (pc[q])' = "200" /\ route[q] = "search" =>
          /\ answer[q].by \in Requests
          /\ pc'[answer[q].by] = "200" /\ key[answer[q].by] = key[q]
          /\ (redis /\ ttl = 0) \/ answer[q].at - answer[q].stored <= ttl
    <3> SUFFICES ASSUME NEW q \in Requests, (pc[q])' = "200", route[q] = "search"
                 PROVE  /\ answer[q].by \in Requests
                        /\ pc'[answer[q].by] = "200" /\ key[answer[q].by] = key[q]
                        /\ (redis /\ ttl = 0) \/ answer[q].at - answer[q].stored <= ttl
      OBVIOUS
    <3>1. pc[q] = "200"
      BY <1>2
    <3>2. /\ answer[q].by \in Requests
          /\ pc[answer[q].by] = "200" /\ key[answer[q].by] = key[q]
          /\ (redis /\ ttl = 0) \/ answer[q].at - answer[q].stored <= ttl
      BY <3>1 DEF Inv, Cache
    <3> QED
      BY <1>2, <3>2
  <2> QED
    BY <1>1, <2>1, <2>2 DEF Cache
<1>5. /\ LimiterTypes' /\ Limits' /\ Budget' /\ AccountTypes' /\ Registered'
      /\ Identified' /\ RequestTypes' /\ Stages'
  BY <1>1, SearchStepFrame DEF PCs
<1> QED
  BY <1>3, <1>4, <1>5 DEF Inv, Types

LEMMA AnswerAndCacheStep ==
    ASSUME Inv, NEW r \in Requests, AnswerAndCache(r)
    PROVE  Inv'
<1>1. /\ Step(r, "search", "200")
      /\ UNCHANGED <<now, limiterVars, accountVars, requestVars>>
      /\ UNCHANGED <<redis, ttl, route, key>>
  BY DEF AnswerAndCache, Set, SetFails, requestVars, cacheVars
<1>2. PICK e : e = [by |-> r, stored |-> now]
  OBVIOUS
<1>3. PICK a : a = [by |-> r, stored |-> now, at |-> now]
  OBVIOUS
<1>4. /\ entries' = entries \/ entries' = [entries EXCEPT ![key[r]] = e]
      /\ answer' = [answer EXCEPT ![r] = a]
  BY <1>2, <1>3 DEF AnswerAndCache, Set, SetFails, cacheVars
<1>5. now \in Times /\ now \in Nat /\ ttl \in Nat
  BY Amounts DEF Inv, Types, LimiterTypes, CacheTypes, Times
<1>6. /\ e \in [by : Requests, stored : Times] /\ e.by = r /\ e.stored = now
      /\ a \in [by : Requests, stored : Times, at : Times]
      /\ a.by = r /\ a.stored = now /\ a.at = now
  BY <1>2, <1>3, <1>5
<1>7. /\ pc[r] = "search" /\ (pc[r])' = "200" /\ key[r] \in Keys
      /\ \A q \in Requests : q # r => (pc[q])' = pc[q]
  BY <1>1, StepFacts DEF Inv, Types, Stages
<1>8. CacheTypes'
  <2>1. entries' \in [Keys -> {Absent} \cup [by : Requests, stored : Times]]
    BY <1>4, <1>6, <1>7 DEF Inv, Types, CacheTypes
  <2>2. answer' \in [Requests -> {Unanswered} \cup [by : Requests, stored : Times, at : Times]]
    BY <1>4, <1>6 DEF Inv, Types, CacheTypes
  <2> QED
    BY <1>1, <2>1, <2>2 DEF Inv, Types, CacheTypes
<1>9. Cache'
  <2>1. ASSUME NEW k \in Keys, entries'[k] # Absent
        PROVE  /\ pc'[entries'[k].by] = "200" /\ key[entries'[k].by] = k
               /\ entries'[k].stored <= now
    <3>1. CASE entries'[k] = entries[k]
      <4>1. /\ entries[k].by \in Requests /\ pc[entries[k].by] = "200"
            /\ key[entries[k].by] = k /\ entries[k].stored <= now
        BY <2>1, <3>1 DEF Inv, Types, CacheTypes, Cache
      <4> QED
        BY <1>7, <3>1, <4>1
    <3>2. CASE entries'[k] # entries[k]
      <4>1. entries'[k] = e /\ k = key[r]
        BY <1>4, <1>7, <3>2 DEF Inv, Types, CacheTypes
      <4> QED
        BY <1>5, <1>6, <1>7, <4>1
    <3> QED
      BY <3>1, <3>2
  <2>2. ASSUME NEW q \in Requests, (pc[q])' = "200", route[q] = "search"
        PROVE  /\ answer'[q].by \in Requests
               /\ pc'[answer'[q].by] = "200" /\ key[answer'[q].by] = key[q]
               /\ (redis /\ ttl = 0) \/ answer'[q].at - answer'[q].stored <= ttl
    <3>1. CASE q = r
      <4>1. answer'[q] = a
        BY <1>4, <3>1 DEF Inv, Types, CacheTypes
      <4> QED
        BY <1>5, <1>6, <1>7, <3>1, <4>1
    <3>2. CASE q # r
      <4>1. answer'[q] = answer[q] /\ pc[q] = "200"
        BY <1>4, <1>7, <2>2, <3>2 DEF Inv, Types, CacheTypes
      <4> QED
        BY <1>7, <2>2, <4>1 DEF Inv, Cache
    <3> QED
      BY <3>1, <3>2
  <2> QED
    BY <1>1, <2>1, <2>2 DEF Cache
<1>10. /\ LimiterTypes' /\ Limits' /\ Budget' /\ AccountTypes' /\ Registered'
       /\ Identified' /\ RequestTypes' /\ Stages'
  BY <1>1, SearchStepFrame DEF PCs, Ended
<1> QED
  BY <1>8, <1>9, <1>10 DEF Inv, Types
--------------------------------------------------------------------------------
(* The invariant holds, and implies the properties *)

LEMMA Initially == Init => Inv
<1> SUFFICES ASSUME Init PROVE Inv
  OBVIOUS
<1>1. LimiterTypes /\ Limits /\ Budget
  BY InitialBudget
<1>2. PICK s \in Scenarios : route = s.route /\ redis = s.redis /\ ttl = s.ttl
  BY DEF Init
<1>3. /\ byID = [i \in {Seed} |-> User(AdminEmail, AdminPassword, "admin")]
      /\ byEml = [a \in {Normal(AdminEmail)} |-> Seed]
      /\ found = [r \in Requests |-> Seed] /\ issued = [r \in {} |-> Seed]
      /\ email = [r \in Requests |-> AdminEmail]
      /\ password = [r \in Requests |-> AdminPassword]
      /\ client \in [Requests -> Clients]
      /\ bearer = [r \in Requests |-> Seed] /\ key = [r \in Requests |-> "none"]
      /\ pc = [r \in Requests |-> "new"]
  BY DEF Init, AccountsInit, SeedAdmin
<1>4. /\ entries = [k \in Keys |-> Absent]
      /\ answer = [r \in Requests |-> Unanswered]
  BY DEF Init, CacheInit
<1>5. /\ User(AdminEmail, AdminPassword, "admin")
            \in [email : Emails, password : Passwords, role : {"user", "admin"}]
      /\ User(AdminEmail, AdminPassword, "admin").role = "admin"
  BY ApiAssumption DEF User
<1>6. AccountTypes
  BY <1>3, <1>5 DEF AccountTypes, Ids
<1>7. CacheTypes
  BY <1>2, <1>4, ApiAssumption DEF CacheTypes
<1>8. RequestTypes
  BY <1>2, <1>3, ApiAssumption DEF RequestTypes, Ids, PCs
<1>9. Stages
  BY <1>3 DEF Stages
<1>10. Registered
  BY <1>3, <1>5, ApiAssumption DEF Registered
<1>11. Identified
  BY <1>3 DEF Identified
<1>12. Cache
  BY <1>3, <1>4 DEF Cache
<1> QED
  BY <1>1, <1>6, <1>7, <1>8, <1>9, <1>10, <1>11, <1>12 DEF Inv, Types

\* Time passes: only what is counted in it moves.
LEMMA TickStep ==
    ASSUME Inv, Tick,
           UNCHANGED <<limiterVars, accountVars, cacheVars, requestVars, pc, answer>>
    PROVE  Inv'
<1>1. LimiterTypes' /\ Limits' /\ Budget'
  BY TickLimits
<1>2. now \in Nat /\ now' = now + 1
  BY Amounts DEF Tick, Inv, Types, LimiterTypes, Times
<1>3. AccountTypes' /\ Registered' /\ Identified'
  BY DEF Inv, Types, AccountTypes, Registered, Identified, accountVars, requestVars
<1>4. CacheTypes' /\ RequestTypes' /\ Stages'
  BY DEF Inv, Types, CacheTypes, RequestTypes, Stages, cacheVars, requestVars
<1>5. Cache'
  <2>1. \A k \in Keys : entries[k] # Absent => entries[k].stored \in Nat
    BY Amounts DEF Inv, Types, CacheTypes, Times
  <2>2. \A k \in Keys : entries[k] # Absent => entries[k].stored <= now'
    BY <1>2, <2>1 DEF Inv, Cache
  <2> QED
    BY <2>2 DEF Inv, Cache, cacheVars, requestVars
<1> QED
  BY <1>1, <1>3, <1>4, <1>5 DEF Inv, Types

LEMMA StutterStep == Inv /\ UNCHANGED vars => Inv'
<1> SUFFICES ASSUME Inv, UNCHANGED vars PROVE Inv'
  OBVIOUS
<1>1. UNCHANGED <<now, limiterVars, accountVars, cacheVars, requestVars, pc, answer>>
  BY DEF vars
<1>2. LimiterTypes' /\ Limits'
  BY <1>1 DEF Inv, Types, LimiterTypes, Limits, limiterVars, requestVars
<1>3. Budget'
  BY <1>1 DEF Inv, Budget, Admitted, Tokens, Refilled, limiterVars, requestVars
<1>4. AccountTypes' /\ Registered' /\ Identified'
  BY <1>1 DEF Inv, Types, AccountTypes, Registered, Identified, accountVars, requestVars
<1>5. CacheTypes' /\ RequestTypes' /\ Stages' /\ Cache'
  BY <1>1 DEF Inv, Types, CacheTypes, RequestTypes, Stages, Cache, cacheVars, requestVars
<1> QED
  BY <1>2, <1>3, <1>4, <1>5 DEF Inv, Types

LEMMA InvHolds == Spec => []Inv
<1>1. Inv /\ [Next]_vars => Inv'
  <2> SUFFICES ASSUME Inv, [Next]_vars PROVE Inv'
    OBVIOUS
  <2>1. CASE UNCHANGED vars
    BY <2>1, StutterStep
  <2>2. CASE Tick /\ UNCHANGED <<limiterVars, accountVars, cacheVars, requestVars, pc, answer>>
    BY <2>2, TickStep
  <2>3. ASSUME NEW r \in Requests, Arrive(r) PROVE Inv'
    BY <2>3, ArriveLimits, ArriveRequests, ArriveOthers DEF Inv, Types
  <2>4. ASSUME NEW r \in Requests, Admit(r) PROVE Inv'
    BY <2>4, AdmitLimits, AdmitOthers DEF Inv, Types
  <2>5. ASSUME NEW r \in Requests,
               \/ Reject(r) \/ RefuseRegistration(r) \/ AlreadyRegistered(r) \/ RefuseLogin(r)
               \/ Unauthorized(r) \/ BadQuery(r) \/ SearchFails(r)
        PROVE  Inv'
    <3>1. \E from \in {"limit", "create", "find", "verify", "auth", "lookup", "search"},
             to \in {"400", "401", "409", "429", "500"} : Respond(r, from, to)
      BY <2>5 DEF Reject, RefuseRegistration, AlreadyRegistered, RefuseLogin,
                  Unauthorized, BadQuery, SearchFails
    <3> QED
      BY <3>1, RespondStep DEF PCs, Ended
  <2>6. ASSUME NEW r \in Requests,
               \/ Register(r) \/ Find(r) \/ Issue(r) \/ Authenticate(r) \/ RequireRole(r)
        PROVE  Inv'
    BY <2>6, RegisterStep, FindStep, IssueStep, AuthenticateStep, RequireRoleStep
  <2>7. ASSUME NEW r \in Requests,
               AnswerFromCache(r) \/ LookupMisses(r) \/ AnswerAndCache(r)
        PROVE  Inv'
    BY <2>7, AnswerFromCacheStep, LookupMissesStep, AnswerAndCacheStep
  <2> QED
    BY <2>1, <2>2, <2>3, <2>4, <2>5, <2>6, <2>7 DEF Next
<1> QED
  BY <1>1, Initially, PTL DEF Spec

LEMMA Monotone ==
    ASSUME NEW x \in Nat, NEW y \in Nat, x <= y
    PROVE  Rate * x \in Nat /\ Rate * y \in Nat /\ Rate * x <= Rate * y
<1>1. PICK z \in Nat : y = x + z
  <2>1. y - x \in Nat /\ y = x + (y - x)
    OBVIOUS
  <2> QED
    BY <2>1
<1>2. Rate * x \in Nat /\ Rate * z \in Nat
  BY Product
<1>3. Rate * (x + z) = Rate * x + Rate * z
  BY Amounts
<1> QED
  BY <1>1, <1>2, <1>3

\* Nobody is admitted in the future.
LEMMA BudgetSuffices == Inv => WindowBudget
<1> SUFFICES ASSUME Inv, NEW c \in Clients, NEW from \in Times, NEW to \in from..MaxTime
             PROVE  Cardinality(Admitted(c, from, to)) <= Burst + Rate * (to - from)
  BY DEF WindowBudget, Admitted
<1>1. /\ now \in Nat /\ now <= MaxTime /\ from \in Nat /\ to \in Nat
      /\ from <= to /\ to <= MaxTime /\ MaxTime \in Nat
  BY Amounts DEF Inv, Types, LimiterTypes, Times
<1>2. \A r \in Requests : admittedAt[r] \in Nat /\ (admittedAt[r] = MaxTime + 1 \/ admittedAt[r] <= now)
  <2>1. \A r \in Requests : admittedAt[r] \in 0..(MaxTime + 1)
    BY DEF Inv, Types, LimiterTypes
  <2>2. \A n \in 0..(MaxTime + 1) : n \in Nat
    BY <1>1
  <2>3. \A r \in Requests : admittedAt[r] \in Nat
    BY <2>1, <2>2
  <2>4. \A r \in Requests : admittedAt[r] = MaxTime + 1 \/ admittedAt[r] <= now
    BY DEF Inv, Limits
  <2> QED
    BY <2>3, <2>4
<1>3. CASE to <= now
  BY <1>1, <1>3 DEF Inv, Budget
<1>4. CASE now < to /\ from <= now
  <2>1. Admitted(c, from, to) = Admitted(c, from, now)
    BY <1>1, <1>2, <1>4 DEF Admitted
  <2>2. Cardinality(Admitted(c, from, now)) <= Burst + Rate * (now - from)
    BY <1>1, <1>4 DEF Inv, Budget
  <2>3. /\ Rate * (now - from) \in Nat /\ Rate * (to - from) \in Nat
        /\ Rate * (now - from) <= Rate * (to - from)
    <3>1. now - from \in Nat /\ to - from \in Nat /\ now - from <= to - from
      BY <1>1, <1>4
    <3> QED
      BY <3>1, Monotone
  <2>4. Cardinality(Admitted(c, from, now)) \in Nat
    BY AdmittedFacts
  <2> QED
    BY <2>1, <2>2, <2>3, <2>4, Amounts
<1>5. CASE now < from
  <2>1. Admitted(c, from, to) = {}
    BY <1>1, <1>2, <1>5 DEF Admitted
  <2>2. Cardinality(Admitted(c, from, to)) = 0
    BY <2>1, FS_EmptySet
  <2>3. Rate * (to - from) \in Nat
    <3>1. to - from \in Nat
      BY <1>1
    <3> QED
      BY <3>1, Monotone
  <2> QED
    BY <2>2, <2>3, Amounts
<1> QED
  BY <1>1, <1>3, <1>4, <1>5

\* The state of limiter, accounts, caches and handlers is always well formed.
THEOREM TypesCorrect == Spec => []TypeOK
<1>1. Inv => TypeOK
  BY DEF Inv, Types, LimiterTypes, AccountTypes, CacheTypes, RequestTypes, TypeOK
<1> QED
  BY <1>1, InvHolds, PTL

\* No client is ever served more often than its burst and refill allow, in any stretch
\* of time, however many requests it sends at once (ratelimit/limiter.go).
THEOREM WindowBudgetAlways == Spec => []WindowBudget
  BY BudgetSuffices, InvHolds, PTL

\* Registrations, the administrator's role and tokens hold however handlers interleave
\* (auth/service.go, memory_repository.go, middleware.go).
THEOREM RegistrationsAlwaysHold == Spec => []RegistrationsHold
<1>1. Inv => RegistrationsHold
  BY DEF Inv, Registered, Identified, RegistrationsHold
<1> QED
  BY <1>1, InvHolds, PTL

\* A search never gets a failed, foreign or lapsed answer from either cache
\* (handlers/search.go, cache/cache.go, cache/redis_cache.go).
THEOREM AnswersAlwaysFresh == Spec => []AnswersAreFresh
<1>1. Inv => AnswersAreFresh
  BY DEF Inv, Cache, AnswersAreFresh
<1> QED
  BY <1>1, InvHolds, PTL
================================================================================
