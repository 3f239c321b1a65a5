--------------------------------- MODULE MCApi ---------------------------------
(* The HTTP interface on small instances: see README.md for the bounds. *)
EXTENDS Api, TLC

CONSTANTS e1, E1, admin   \* E1 is e1 in capitals

MCNormal(e) == IF e = E1 THEN e1 ELSE e

Going(m, to) == Cardinality({r \in Requests : m[r] = to})

Routes ==
    {m \in [Requests -> {"register", "login", "search", "admin"}] :
        /\ Going(m, "login") = 1
        /\ \/ Going(m, "register") = 2
           \/ Going(m, "search") = 2
           \/ Going(m, "register") = 1 /\ Going(m, "admin") = 1}

\* The cache is configured in every way where a search is made.
MCScenarios ==
    {s \in [route : Routes, redis : BOOLEAN, ttl : {0, 1}] :
        Going(s.route, "search") = 0 => ~s.redis /\ s.ttl = 0}

Symmetry == Permutations(Requests) \cup Permutations(Clients) \cup Permutations(Keys)
================================================================================
