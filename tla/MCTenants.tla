------------------------------ MODULE MCTenants ------------------------------
(* Tenants for TLC: owners demoting and removing each other; invitations to  *)
(* one workspace; the newest of invitations to two; deleted workspaces and   *)
(* roles.                                                                   *)
EXTENDS Tenants
CONSTANTS t1, t2, u1, u2, u3, r1, r2, s1, s2

MCInstances ==
    {[kinds |-> {"invite", "role", "remove"}, tenants |-> {t1}, users |-> {u1, u2},
      signed |-> {u1, u2}, requests |-> 4, failing |-> FALSE],
     [kinds |-> {"invite", "accept", "role", "remove"}, tenants |-> {t1}, users |-> {u1, u2},
      signed |-> {u1}, requests |-> 4, failing |-> TRUE],
     [kinds |-> {"invite", "accept", "delete", "update"}, tenants |-> {t1, t2}, users |-> {u1, u2},
      signed |-> {u1}, requests |-> 4, failing |-> FALSE],
     [kinds |-> {"invite", "remove", "assign", "unassign"}, tenants |-> {t1}, users |-> {u1, u2, u3},
      signed |-> {u1, u2}, requests |-> 4, failing |-> FALSE]}

Symmetric == Permutations(Req) \cup Permutations(Slug)
==============================================================================
