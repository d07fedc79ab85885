------------------------------ MODULE MCAccess ------------------------------
(* Access for TLC: two requests on one key with every kind of change; two   *)
(* processes; three requests around one load; the role sets of two admins.  *)
EXTENDS Access
CONSTANTS p1, p2, c1, c2, c3, k1, k2

MCInstances ==
    {[procs |-> {p1}, reqs |-> {c1, c2}, keys |-> {k1}, kinds |-> {"revoke", "assign"},
      changes |-> 2, buffer |-> 1, mishaps |-> 1],
     [procs |-> {p1}, reqs |-> {c1, c2}, keys |-> {k1}, kinds |-> {"grant", "unassign"},
      changes |-> 2, buffer |-> 1, mishaps |-> 0],
     [procs |-> {p1, p2}, reqs |-> {c1, c2}, keys |-> {k1}, kinds |-> {"delete"},
      changes |-> 1, buffer |-> 1, mishaps |-> 0],
     [procs |-> {p1}, reqs |-> {c1, c2, c3}, keys |-> {k1}, kinds |-> {"revoke"},
      changes |-> 1, buffer |-> 1, mishaps |-> 1],
     [procs |-> {p1}, reqs |-> {c1, c2}, keys |-> {k2}, kinds |-> {"put"},
      changes |-> 3, buffer |-> 1, mishaps |-> 1]}
==============================================================================
