---------------------------------- MODULE Api ----------------------------------
(***************************************************************************)
(* Requests to /api/v1 as httpserver/routes.go wires them: the rate        *)
(* limiter first, then the handler of register or login, or Authenticate   *)
(* and the search or an administrator's route.  Requests run concurrently; *)
(* a handler's steps are separated wherever another may come in between.   *)
(***************************************************************************)
EXTENDS RateLimiter, Accounts, SearchCache, FiniteSets

CONSTANT Scenarios   \* where the requests go, and how the cache is configured

ASSUME ApiAssumption ==
    /\ {Rate, Burst, TokenTTL, MaxTime} \subseteq Nat
    /\ IsFiniteSet(Requests) /\ Seed \notin Requests
    /\ AdminEmail \in Emails /\ AdminPassword \in Passwords
    /\ Scenarios \subseteq [route : [Requests -> {"register", "login", "search", "admin"}],
                          redis : BOOLEAN, ttl : Nat]

VARIABLES
    route, client, email, password, bearer, key,  \* what each request carries
    pc,       \* pc[r]: where its handler is, in the end the status of its response
    answer    \* answer[r]: whose search it was answered with, stored when, served when

requestVars == <<route, client, email, password, bearer, key>>
vars == <<now, limiterVars, accountVars, cacheVars, requestVars, pc, answer>>

Ended == {"201", "200", "400", "401", "403", "409", "429", "500"}
PCs == {"new", "limit", "create", "find", "verify",
        "auth", "role", "lookup", "search"} \cup Ended

Unanswered == [by |-> "none", stored |-> MaxTime + 1, at |-> MaxTime + 1]

Init ==
    /\ now = 0
    /\ \E s \in Scenarios : route = s.route /\ redis = s.redis /\ ttl = s.ttl
    /\ LimiterInit /\ AccountsInit /\ CacheInit
    /\ client \in [Requests -> Clients]
    /\ email = [r \in Requests |-> AdminEmail]
    /\ password = [r \in Requests |-> AdminPassword]
    /\ bearer = [r \in Requests |-> Seed]
    /\ key = [r \in Requests |-> "none"]
    /\ pc = [r \in Requests |-> "new"]
    /\ answer = [r \in Requests |-> Unanswered]

\* The handler of r goes from one point to another.
Step(r, from, to) == pc[r] = from /\ pc' = [pc EXCEPT ![r] = to]

Respond(r, from, status) ==
    /\ Step(r, from, status)
    /\ UNCHANGED <<now, limiterVars, accountVars, cacheVars, requestVars, answer>>
--------------------------------------------------------------------------------
(* Limiter.Middleware, the first on every route *)

\* A request arrives with credentials, or with some token: Seed stands for an invalid one.
Arrive(r) ==
    /\ Step(r, "new", "limit")
    /\ FindBucket(r, client[r])
    /\ IF route[r] \in {"register", "login"}
       THEN \E e \in Emails, p \in Passwords :
              /\ email' = [email EXCEPT ![r] = e]
              /\ password' = [password EXCEPT ![r] = p]
              /\ UNCHANGED <<bearer, key>>
       ELSE \E t \in DOMAIN issued \cup {Seed}, k \in Keys :
              /\ bearer' = [bearer EXCEPT ![r] = t]
              /\ key' = [key EXCEPT ![r] = k]
              /\ UNCHANGED <<email, password>>
    /\ UNCHANGED <<now, accountVars, cacheVars, route, client, answer>>

Handler(r) ==
    CASE route[r] = "register" -> "create" [] route[r] = "login" -> "find" [] OTHER -> "auth"

Admit(r) ==
    /\ Step(r, "limit", Handler(r))
    /\ TakeToken(r)
    /\ UNCHANGED <<now, accountVars, cacheVars, requestVars, answer>>

Reject(r) == Respond(r, "limit", "429") /\ ~HasToken(r)
--------------------------------------------------------------------------------
(* AuthHandlers.Register and Login *)

\* 400: the body, the address or the password is refused; 500: the password cannot
\* be hashed (bcrypt takes at most 72 bytes).
RefuseRegistration(r) == \E status \in {"400", "500"} : Respond(r, "create", status)

\* createUser hashes the password first, which takes long and reads nothing shared.
Register(r) ==
    /\ Step(r, "create", "201")
    /\ Create(r, User(email[r], password[r], "user"))
    /\ UNCHANGED <<now, limiterVars, cacheVars, requestVars, answer>>

AlreadyRegistered(r) == Respond(r, "create", "409") /\ Known(email[r])

Find(r) ==
    /\ Step(r, "find", "verify")
    /\ FindByEmail(r, email[r])
    /\ UNCHANGED <<now, limiterVars, cacheVars, requestVars, answer>>

\* A malformed body, no such account, or not its password.
RefuseLogin(r) ==
    \/ Respond(r, "find", "400")
    \/ Respond(r, "find", "401") /\ ~Known(email[r])
    \/ Respond(r, "verify", "401") /\ ~VerifyPassword(r, password[r])

Issue(r) ==
    /\ Step(r, "verify", "200")
    /\ VerifyPassword(r, password[r])
    /\ Generate(r)
    /\ UNCHANGED <<now, limiterVars, cacheVars, requestVars, answer>>
--------------------------------------------------------------------------------
(* Authenticate, RequireRole, and SearchHandlers.Search *)

Authenticate(r) ==
    /\ Respond(r, "auth", IF route[r] = "admin" THEN "role" ELSE "lookup")
    /\ Valid(bearer[r])

Unauthorized(r) == Respond(r, "auth", "401") /\ ~Valid(bearer[r])

RequireRole(r) ==
    /\ pc[r] = "role"
    /\ Respond(r, "role", IF issued[bearer[r]].role = "admin" THEN "200" ELSE "403")

BadQuery(r) == Respond(r, "lookup", "400")

AnswerFromCache(r) ==
    /\ Step(r, "lookup", "200")
    /\ Hit(key[r])
    /\ answer' = [answer EXCEPT ![r] = [by |-> entries[key[r]].by,
                                        stored |-> entries[key[r]].stored, at |-> now]]
    /\ UNCHANGED <<now, limiterVars, accountVars, cacheVars, requestVars>>

LookupMisses(r) ==
    /\ Step(r, "lookup", "search")
    /\ Miss(key[r])
    /\ UNCHANGED <<now, limiterVars, accountVars, requestVars, answer>>

\* searcher.Search has no deadline of its own: any time may pass before it returns.
SearchFails(r) == Respond(r, "search", "500")

AnswerAndCache(r) ==
    /\ Step(r, "search", "200")
    /\ Set(key[r], r) \/ SetFails
    /\ answer' = [answer EXCEPT ![r] = [by |-> r, stored |-> now, at |-> now]]
    /\ UNCHANGED <<now, limiterVars, accountVars, requestVars>>
--------------------------------------------------------------------------------
Next ==
    \/ \E r \in Requests :
          \/ Arrive(r) \/ Admit(r) \/ Reject(r)
          \/ RefuseRegistration(r) \/ Register(r) \/ AlreadyRegistered(r)
          \/ Find(r) \/ RefuseLogin(r) \/ Issue(r)
          \/ Authenticate(r) \/ Unauthorized(r) \/ RequireRole(r)
          \/ BadQuery(r) \/ AnswerFromCache(r) \/ LookupMisses(r)
          \/ SearchFails(r) \/ AnswerAndCache(r)
    \/ Tick /\ UNCHANGED <<limiterVars, accountVars, cacheVars, requestVars, pc, answer>>

Spec == Init /\ [][Next]_vars
--------------------------------------------------------------------------------
Times == 0..MaxTime

TypeOK ==
    /\ now \in Times
    /\ limiters \in [Clients -> 0..Len(buckets)]
    /\ buckets \in Seq([tokens : 0..Burst, last : Times])
    /\ held \in [Requests -> 0..Len(buckets)]
    /\ admittedAt \in [Requests -> 0..(MaxTime + 1)]
    /\ DOMAIN byID \subseteq Ids
    /\ \A i \in DOMAIN byID : byID[i] \in [email : Emails, password : Passwords,
                                           role : {"user", "admin"}]
    /\ \A a \in DOMAIN byEml : byEml[a] \in DOMAIN byID
    /\ found \in [Requests -> DOMAIN byID]
    /\ DOMAIN issued \subseteq Requests
    /\ \A t \in DOMAIN issued : issued[t] \in [user : DOMAIN byID,
                                              role : {"user", "admin"}, exp : Nat]
    /\ redis \in BOOLEAN /\ ttl \in Nat
    /\ entries \in [Keys -> {Absent} \cup [by : Requests, stored : Times]]
    /\ \E s \in Scenarios : route = s.route
    /\ client \in [Requests -> Clients]
    /\ email \in [Requests -> Emails] /\ password \in [Requests -> Passwords]
    /\ bearer \in [Requests -> Ids]
    /\ key \in [Requests -> Keys \cup {"none"}]
    /\ pc \in [Requests -> PCs]
    /\ answer \in [Requests -> {Unanswered} \cup [by : Requests, stored : Times, at : Times]]

\* In no stretch of time is a client served more often than its burst and what was
\* refilled meanwhile, however its requests meet in the limiter ("one noisy caller
\* can't starve everyone else's budget", limiter.go).
WindowBudget ==
    \A c \in Clients, from \in Times : \A to \in from..MaxTime :
        Cardinality({r \in Requests : client[r] = c /\ admittedAt[r] \in from..to})
            <= Burst + Rate * (to - from)

\* A registration answered 201 is that address's one account for good, with the
\* password it was made with, whoever else registers the address at the same time or
\* in other letters; the seeded administrator stays the only one and the only one
\* admitted to its routes; a token is its holder's, who gave that account's password.
RegistrationsHold ==
    /\ \A r \in Requests : pc[r] = "201" =>
          /\ byEml[Normal(email[r])] = r
          /\ byID[r] = User(email[r], password[r], "user")
    /\ \A i \in DOMAIN byID : byID[i].role = "admin" <=> i = Seed
    /\ \A t \in DOMAIN issued :
          /\ byEml[Normal(email[t])] = issued[t].user
          /\ byID[issued[t].user].password = password[t]
    /\ \A r \in Requests : pc[r] = "200" /\ route[r] = "admin" =>
          issued[bearer[r]].user = Seed

\* A search is answered with the answer to a search of its own cache key that had
\* succeeded no longer ago than the configured lifetime, never with one that failed
\* or has lapsed.  Not claimed of a zero lifetime on Redis, which never drops it.
AnswersAreFresh ==
    \A r \in Requests : pc[r] = "200" /\ route[r] = "search" =>
        /\ pc[answer[r].by] = "200" /\ key[answer[r].by] = key[r]
        /\ (redis /\ ttl = 0) \/ answer[r].at - answer[r].stored <= ttl
================================================================================
