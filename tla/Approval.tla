------------------------------ MODULE Approval ------------------------------
(***************************************************************************)
(* What the approval machinery promises to the code that spends approvals: *)
(* a workflow is opened once, settles once, and an approved one is spent   *)
(* at most once.  At most one workflow is open at a time (all the          *)
(* workflows of a model are about one record and one action).              *)
(*                                                                         *)
(* Authority implements this specification; Gate spends its approvals.     *)
(***************************************************************************)
EXTENDS Integers

CONSTANT MaxWorkflows    \* bound: workflows opened, numbered by created_at

Workflow == 1..MaxWorkflows

VARIABLES
  status,   \* the lifecycle of each workflow
  consumed  \* the workflows whose approval has been spent

approvalVars == <<status, consumed>>

Terminal == {"completed", "rejected", "cancelled", "expired"}

ApprovalInit ==
  /\ status = [w \in Workflow |-> "absent"]
  /\ consumed = {}

Open(w) ==
  /\ status[w] = "absent"
  /\ \A v \in Workflow : v < w => status[v] # "absent"
  /\ \A v \in Workflow : status[v] # "running"
  /\ status' = [status EXCEPT ![w] = "running"]
  /\ UNCHANGED consumed

Settle(w, s) ==
  /\ status[w] = "running"
  /\ status' = [status EXCEPT ![w] = s]
  /\ UNCHANGED consumed

Spend(w) ==
  /\ status[w] = "completed"
  /\ w \notin consumed
  /\ consumed' = consumed \cup {w}
  /\ UNCHANGED status

ApprovalNext ==
  \E w \in Workflow : Open(w) \/ Spend(w) \/ \E s \in Terminal : Settle(w, s)

ApprovalSpec == ApprovalInit /\ [][ApprovalNext]_approvalVars
=============================================================================
