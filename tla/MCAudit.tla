------------------------------- MODULE MCAudit -------------------------------
(* Audit for TLC.  Four instances: the legacy chain mirrored to the site    *)
(* chain by two processes, with seals; the lazy load of a tenant's chain by *)
(* two processes; partitions and archives of two tenants' rows; the site    *)
(* chain over three months.                                                 *)
EXTENDS Audit
CONSTANTS p1, p2, t1, t2

MCTenantId == [t \in {t1, t2} |-> IF t = t1 THEN 1 ELSE 2]

MCInstances ==
    {[procs |-> {p1, p2}, chains |-> {"site"},
      rows |-> 5, writes |-> 3, months |-> 0, mishaps |-> 1],
     [procs |-> {p1, p2}, chains |-> {t1},
      rows |-> 4, writes |-> 0, months |-> 0, mishaps |-> 2],
     [procs |-> {p1}, chains |-> {t1, t2},
      rows |-> 3, writes |-> 0, months |-> 1, mishaps |-> 1],
     [procs |-> {p1}, chains |-> {"site"},
      rows |-> 3, writes |-> 1, months |-> 2, mishaps |-> 1]}
==============================================================================
