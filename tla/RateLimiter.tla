------------------------------ MODULE RateLimiter ------------------------------
(***************************************************************************)
(* Limiter of ratelimit/limiter.go: one token bucket per client address,   *)
(* made on first use and never dropped.  Allow finds the bucket under the  *)
(* mutex and takes a token after releasing it, so other requests come in   *)
(* between.  External: golang.org/x/time/rate, whose Allow reads the clock *)
(* and takes the token in one step here.                                   *)
(***************************************************************************)
EXTENDS ApiClock, Sequences

CONSTANTS Clients, Rate, Burst

VARIABLES
    limiters,     \* limiters[c]: the bucket of client c, 0 when it has none
    buckets,      \* every bucket ever made
    held,         \* held[r]: the bucket the request r found
    admittedAt    \* history: when r was admitted, MaxTime + 1 when it was not

limiterVars == <<limiters, buckets, held, admittedAt>>

LimiterInit ==
    /\ limiters = [c \in Clients |-> 0]
    /\ buckets = <<>>
    /\ held = [r \in Requests |-> 0]
    /\ admittedAt = [r \in Requests |-> MaxTime + 1]

NewBucket(r, c) ==
    /\ buckets' = Append(buckets, [tokens |-> Burst, last |-> now])
    /\ limiters' = [limiters EXCEPT ![c] = Len(buckets')]
    /\ held' = [held EXCEPT ![r] = Len(buckets')]

OwnBucket(r, c) ==
    /\ held' = [held EXCEPT ![r] = limiters[c]]
    /\ UNCHANGED <<limiters, buckets>>

FindBucketUnlocked(r, c) ==   \* faulty variant: the lookup may miss another's insertion
    /\ \/ NewBucket(r, c)
       \/ limiters[c] # 0 /\ OwnBucket(r, c)
    /\ UNCHANGED admittedAt

FindBucket(r, c) ==
    /\ IF limiters[c] = 0 THEN NewBucket(r, c) ELSE OwnBucket(r, c)
    /\ UNCHANGED admittedAt

Refilled(b) ==
    LET tokens == b.tokens + Rate * (now - b.last)
    IN  IF tokens < Burst THEN tokens ELSE Burst

HasToken(r) == Refilled(buckets[held[r]]) >= 1

TakeToken(r) ==
    /\ HasToken(r)
    /\ buckets' = [buckets EXCEPT ![held[r]] =
                      [tokens |-> Refilled(@) - 1, last |-> now]]
    /\ admittedAt' = [admittedAt EXCEPT ![r] = now]
    /\ UNCHANGED <<limiters, held>>
================================================================================
