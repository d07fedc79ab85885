---------------------------- MODULE MCAuthority -----------------------------
(***************************************************************************)
(* Level lists for model checking Authority.                               *)
(***************************************************************************)
EXTENDS Authority, TLC

CONSTANTS u1, u2, u3, jobs

AnyOf(us) == [mode |-> "any", min |-> 1, users |-> us, role |-> FALSE]
TwoOf(us) == [mode |-> "threshold", min |-> 2, users |-> us, role |-> TRUE]
AllOf(us) == [mode |-> "all", min |-> 1, users |-> us, role |-> TRUE]

\* Two signatures, then everyone who holds the role and u2.
TwoLevels == {<<TwoOf({u2, u3}), AllOf({u2})>>}

RequestSymmetry == Permutations(Request \ {Worker})

OneLevel == {<<AllOf({u2})>>, <<AnyOf({u3})>>}

OneGrant == {<<u2, u3>>}
=============================================================================
