SPECIFICATION Spec
CONSTANTS
    Requests = {r1, r2, r3}
    MaxTime = 2
    Clients = {c1, c2}
    Rate = 1
    Burst = 2
    e1 = e1
    E1 = E1
    admin = admin
    Emails = {e1, E1, admin}
    Normal <- MCNormal
    Passwords = {p, q}
    AdminEmail = admin
    AdminPassword = p
    TokenTTL = 2
    Seed = seed
    Keys = {k1, k2}
    Scenarios <- MCScenarios
SYMMETRY Symmetry
INVARIANTS TypeOK WindowBudget RegistrationsHold AnswersAreFresh
CHECK_DEADLOCK FALSE
