----------------------------- MODULE MCRealtime -----------------------------
(***************************************************************************)
(* Two clients of one collection for model checking Realtime: one follows  *)
(* the collection within a tenant, the other a single record.              *)
(***************************************************************************)
EXTENDS Realtime

CONSTANTS c1, c2, t1, t2

Created(id, tenant) == [topic |-> "posts/create", record |-> id, tenant |-> tenant]

TwoTenants == {Created("r1", t1), Created("r2", t2)}

CollectionAndRecord ==
  [c \in {c1, c2} |->
     IF c = c1
     THEN [topics |-> {"posts/create"}, records |-> {}, tenant |-> t1]
     ELSE [topics |-> {}, records |-> {"r1"}, tenant |-> None]]
=============================================================================
