------------------------------- MODULE MCGate -------------------------------
(***************************************************************************)
(* Requests and symmetry for model checking Gate.                          *)
(***************************************************************************)
EXTENDS Gate, TLC

Interchangeable == Permutations(Patcher) \cup Permutations(Value)
\* Approval to publish, with a body, or for whatever body is there.
PublishRequests == {f \in Fields : f["status"] = "published"}
=============================================================================
