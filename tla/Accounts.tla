------------------------------- MODULE Accounts --------------------------------
(***************************************************************************)
(* Accounts and tokens: Service, MemoryUserRepository and TokenService of  *)
(* internal/auth.  A password stands for its bcrypt hash, and a token for  *)
(* the login that issued it.                                               *)
(***************************************************************************)
EXTENDS ApiClock

CONSTANTS
    Emails,          \* addresses as clients write them
    Normal(_),       \* normalizeEmail: lower case, trimmed
    Passwords,
    AdminEmail, AdminPassword,
    TokenTTL,
    Seed             \* the id of the account made by SeedAdmin

Ids == Requests \cup {Seed}   \* a new account's id is the registration that made it

VARIABLES
    byID,     \* byID: accounts, a function on the ids in use
    byEml,    \* byEml: normalized address to id, a function on those in use
    found,    \* found[r]: the copy of the account the login r has read
    issued    \* issued: claims of the token of each login that got one

accountVars == <<byID, byEml, found, issued>>

User(email, password, role) == [email |-> email, password |-> password, role |-> role]

\* main seeds the administrator before the server listens.
SeedAdmin ==
    /\ byID = [i \in {Seed} |-> User(AdminEmail, AdminPassword, "admin")]
    /\ byEml = [a \in {Normal(AdminEmail)} |-> Seed]

AccountsInit ==
    /\ SeedAdmin
    /\ found = [r \in Requests |-> Seed]
    /\ issued = [r \in {} |-> Seed]

Known(email) == Normal(email) \in DOMAIN byEml

InsertIndexOnly(r, user) ==   \* faulty variant: the address is taken before the account is there
    /\ byEml' = [a \in DOMAIN byEml \cup {Normal(user.email)} |->
                    IF a = Normal(user.email) THEN r ELSE byEml[a]]
    /\ UNCHANGED <<byID, found, issued>>

Insert(r, user) ==
    /\ byID' = [i \in DOMAIN byID \cup {r} |-> IF i = r THEN user ELSE byID[i]]
    /\ byEml' = [a \in DOMAIN byEml \cup {Normal(user.email)} |->
                    IF a = Normal(user.email) THEN r ELSE byEml[a]]
    /\ UNCHANGED <<found, issued>>

CreateUnchecked(r, user) ==   \* faulty variant: existence was looked up before hashing
    Insert(r, user)

\* MemoryUserRepository.Create: look up and insert under one lock.
Create(r, user) == ~Known(user.email) /\ Insert(r, user)

FindByEmail(r, email) ==
    /\ Known(email)
    /\ found' = [found EXCEPT ![r] = byEml[Normal(email)]]
    /\ UNCHANGED <<byID, byEml, issued>>

VerifyPassword(r, password) == byID[found[r]].password = password

Generate(r) ==
    /\ issued' = [t \in DOMAIN issued \cup {r} |->
                     IF t = r
                     THEN [user |-> found[r], role |-> byID[found[r]].role,
                           exp |-> now + TokenTTL]
                     ELSE issued[t]]
    /\ UNCHANGED <<byID, byEml, found>>

\* TokenService.Parse accepts what was signed here and has not expired.
Valid(t) == t \in DOMAIN issued /\ now < issued[t].exp
================================================================================
