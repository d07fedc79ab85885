-------------------------- MODULE GovernanceProofs --------------------------
(***************************************************************************)
(* Who may decide and who may let in: proofs about Authority and about     *)
(* Tenants, for any users, matrices, level lists, workflows and requests,  *)
(* any size of the connection pool, and any workspaces and people.         *)
(*                                                                         *)
(* Authority: a matrix a workflow runs on is never edited again, the row   *)
(* lock keeps a decision's workflow as the decision found it, and the      *)
(* initiator never signs.  These are the parts of IInv below.              *)
(*                                                                         *)
(* Tenants: a request under way vouches for what it checked before its     *)
(* transaction, an invitation is never itself a membership, and a guard    *)
(* that decided on rows as they still are counted another owner.  These    *)
(* are the parts of MembershipInv at the end.                              *)
(***************************************************************************)
EXTENDS Authority, Tenants, FiniteSetTheorems, TLAPS

InForce == {"approved", "revoked"}   \* what a matrix cannot be edited in

\* Workflows, and requests about to make one, refer to matrices that nobody can
\* edit any more.
Pinned ==
  /\ \A w \in Workflow : wf[w].status # "absent" =>
       wf[w].matrix \in Matrix /\ matrix[wf[w].matrix].status \in InForce
  /\ \A r \in Request : req[r].pc = "selected" =>
       /\ req[r].matrix \in Matrix /\ matrix[req[r].matrix].status \in InForce
       /\ req[r].user \in User

Deciding(r) == req[r].pc \in {"loaded", "begun", "locked", "signed"}
Holding(r) == req[r].pc \in {"locked", "signed"}

\* A decision under way is about a level that its workflow's matrix has, and is
\* not the initiator's.
Informed ==
  \A r \in Request : Deciding(r) =>
    /\ req[r].wf \in Workflow /\ req[r].user \in User
    /\ wf[req[r].wf].status # "absent"
    /\ req[r].level \in DOMAIN Levels(req[r].wf)
    /\ req[r].user # wf[req[r].wf].initiator

\* One decision at a time holds a workflow's row, and under its lock the workflow
\* is running at the decision's level.
LockSound ==
  /\ \A r \in Request : Holding(r) =>
       wf[req[r].wf].status = "running" /\ wf[req[r].wf].level = req[r].level
  /\ \A r, s \in Request : Holding(r) /\ Holding(s) /\ req[r].wf = req[s].wf => r = s

\* At most one workflow runs, a spent approval was given, and nobody has decided
\* on a workflow that does not exist.
Orderly ==
  /\ \A v, w \in Workflow : wf[v].status = "running" /\ wf[w].status = "running" => v = w
  /\ \A w \in Workflow : wf[w].consumed => wf[w].status = "completed"
  /\ \A w \in Workflow : wf[w].status = "absent" => decisions[w] = {}

\* The initiator of a workflow has not signed it.
FourEyes ==
  \A w \in Workflow : \A d \in decisions[w] : d.user # wf[w].initiator

IInv == TypeOK /\ Pinned /\ Informed /\ LockSound /\ Orderly /\ FourEyes

-----------------------------------------------------------------------------
(* Type correctness *)

\* A settled workflow's row is a row.
LEMMA SettledType ==
  ASSUME NEW x \in WorkflowRow, NEW t \in Terminal
  PROVE  LET y == [x EXCEPT !.status = t, !.level = NoLevel]
         IN  /\ y \in WorkflowRow
             /\ y.status = t
             /\ y.matrix = x.matrix /\ y.initiator = x.initiator /\ y.consumed = x.consumed
BY DEF WorkflowRow, NoLevel

\* A decision leaves the row as it is, moves it to the next level, or settles it.
LEMMA DecidedType ==
  ASSUME NEW x \in WorkflowRow, NEW levels, NEW v \in Verdict, NEW a
  PROVE  LET y == Decided(x, levels, v, a)
         IN  /\ y \in WorkflowRow
             /\ y.matrix = x.matrix /\ y.initiator = x.initiator /\ y.consumed = x.consumed
             /\ y.status \in {x.status, "rejected", "completed"}
<1>1. [x EXCEPT !.status = "rejected", !.level = NoLevel] \in WorkflowRow
  BY SettledType DEF Terminal
<1>2. [x EXCEPT !.status = "completed", !.level = NoLevel] \in WorkflowRow
  BY SettledType DEF Terminal
<1>3. [x EXCEPT !.level = x.level + 1] \in WorkflowRow
  BY DEF WorkflowRow
<1> QED
  BY <1>1, <1>2, <1>3 DEF Decided, WorkflowRow, Verdict

\* An idle request is a request.
LEMMA QuietType == Quiet \in RequestState /\ Quiet.pc = "idle"
BY DEF Quiet, RequestState, NoLevel, Verdict

\* A step of the operators changes matrices, roles and delegations only.
LEMMA AdministerType ==
  ASSUME TypeOK, Administer
  PROVE  /\ UNCHANGED <<wf, decisions, req>>
         /\ matrix' \in [Matrix -> MatrixRow]
         /\ holders' \subseteq User
         /\ delegation' \in [Delegation -> DelegationRow]
<1> USE AuthorityAssumption
<1>1. ASSUME NEW m \in Matrix, NEW v \in 0..MaxVersion, NEW p \in Plan, NewMatrix(m, v, p)
      PROVE  matrix' \in [Matrix -> MatrixRow] /\ UNCHANGED <<wf, decisions, holders, delegation, req>>
  BY <1>1 DEF NewMatrix, TypeOK, MatrixRow
<1>2. ASSUME NEW m \in Matrix, CreateMatrix(m) \/ CreateVersionFromApproved(m)
      PROVE  matrix' \in [Matrix -> MatrixRow] /\ UNCHANGED <<wf, decisions, holders, delegation, req>>
  <2>1. CASE CreateMatrix(m)
    BY <1>1, <2>1 DEF CreateMatrix
  <2>2. ASSUME NEW s \in Matrix, matrix[s].version < MaxVersion,
               NewMatrix(m, matrix[s].version + 1, matrix[s].levels)
        PROVE  matrix' \in [Matrix -> MatrixRow] /\ UNCHANGED <<wf, decisions, holders, delegation, req>>
    <3>1. matrix[s] \in MatrixRow
      BY DEF TypeOK
    <3>2. matrix[s].version + 1 \in 0..MaxVersion /\ matrix[s].levels \in Plan
      BY <2>2, <3>1 DEF MatrixRow
    <3> QED
      BY <1>1, <2>2, <3>2
  <2> QED
    BY <1>2, <2>1, <2>2 DEF CreateVersionFromApproved
<1>3. ASSUME NEW m \in Matrix,
             \/ UpdateDraftMatrix(m) \/ DeleteDraftMatrix(m)
             \/ ApproveMatrix(m) \/ RevokeMatrix(m) \/ WindowTurns(m)
      PROVE  matrix' \in [Matrix -> MatrixRow] /\ UNCHANGED <<wf, decisions, holders, delegation, req>>
  <2>0. matrix \in [Matrix -> MatrixRow]
    BY DEF TypeOK
  <2>1. CASE UpdateDraftMatrix(m)
    BY <2>0, <2>1 DEF UpdateDraftMatrix, MatrixRow
  <2>2. CASE DeleteDraftMatrix(m)
    BY <2>0, <2>2 DEF DeleteDraftMatrix, MatrixRow
  <2>3. CASE ApproveMatrix(m)
    <3>1. PICK o \in BOOLEAN : matrix' = [matrix EXCEPT ![m].status = "approved", ![m].open = o]
      BY <2>3 DEF ApproveMatrix
    <3>2. [matrix[m] EXCEPT !.status = "approved", !.open = o] \in MatrixRow
      <4>1. matrix[m] \in MatrixRow
        BY <2>0
      <4>2. [matrix[m] EXCEPT !.status = "approved"] \in MatrixRow
        BY <4>1 DEF MatrixRow
      <4> QED
        BY <4>2, <4>1 DEF MatrixRow
    <3>3. matrix' = [matrix EXCEPT ![m] = [matrix[m] EXCEPT !.status = "approved", !.open = o]]
      BY <2>0, <3>1
    <3> QED
      BY <2>0, <2>3, <3>2, <3>3 DEF ApproveMatrix
  <2>4. CASE RevokeMatrix(m)
    BY <2>0, <2>4 DEF RevokeMatrix, MatrixRow
  <2>5. CASE WindowTurns(m)
    <3>1. [matrix[m] EXCEPT !.open = ~matrix[m].open] \in MatrixRow
      <4>1. matrix[m] \in MatrixRow
        BY <2>0
      <4> QED
        BY <4>1 DEF MatrixRow
    <3>2. matrix' = [matrix EXCEPT ![m] = [matrix[m] EXCEPT !.open = ~matrix[m].open]]
      BY <2>0, <2>5 DEF WindowTurns
    <3> QED
      BY <2>0, <2>5, <3>1, <3>2 DEF WindowTurns
  <2> QED
    BY <1>3, <2>1, <2>2, <2>3, <2>4, <2>5
<1>4. ASSUME NEW u \in Assignee, AssignRole(u) \/ UnassignRole(u)
      PROVE  holders' \subseteq User /\ UNCHANGED <<matrix, wf, decisions, delegation, req>>
  BY <1>4 DEF AssignRole, UnassignRole, TypeOK
<1>5. ASSUME NEW d \in Delegation, CreateDelegation(d) \/ RevokeDelegation(d) \/ DelegationLapses(d)
      PROVE  /\ delegation' \in [Delegation -> DelegationRow]
             /\ UNCHANGED <<matrix, wf, decisions, holders, req>>
  BY <1>5 DEF CreateDelegation, RevokeDelegation, DelegationLapses, TypeOK, DelegationRow
<1>6. CASE doa_delegation_reaper
  BY <1>6 DEF doa_delegation_reaper, TypeOK, DelegationRow
<1>t. matrix \in [Matrix -> MatrixRow] /\ holders \subseteq User /\ delegation \in [Delegation -> DelegationRow]
  BY DEF TypeOK
<1> QED
  BY <1>2, <1>3, <1>4, <1>5, <1>6, <1>t DEF Administer

\* Operators never edit a matrix that has been approved.
LEMMA AdministerKeeps ==
  ASSUME TypeOK, Administer, NEW m \in Matrix, matrix[m].status \in InForce
  PROVE  matrix'[m].status \in InForce /\ matrix'[m].levels = matrix[m].levels
<1>0. matrix \in [Matrix -> MatrixRow] /\ matrix[m] \in MatrixRow
  BY DEF TypeOK
<1>1. ASSUME NEW k \in Matrix, CreateMatrix(k) \/ CreateVersionFromApproved(k) \/ UpdateDraftMatrix(k) \/ DeleteDraftMatrix(k)
      PROVE  matrix'[m] = matrix[m]
  BY <1>0, <1>1 DEF CreateMatrix, CreateVersionFromApproved, NewMatrix, UpdateDraftMatrix,
       DeleteDraftMatrix, InForce
<1>2. ASSUME NEW k \in Matrix, ApproveMatrix(k)
      PROVE  matrix'[m] = matrix[m]
  BY <1>0, <1>2 DEF ApproveMatrix, InForce
<1>3. ASSUME NEW k \in Matrix, RevokeMatrix(k) \/ WindowTurns(k)
      PROVE  matrix'[m].status \in InForce /\ matrix'[m].levels = matrix[m].levels
  BY <1>0, <1>3 DEF RevokeMatrix, WindowTurns, InForce, MatrixRow
<1> QED
  BY <1>1, <1>2, <1>3 DEF Administer, AssignRole, UnassignRole, CreateDelegation, RevokeDelegation,
       DelegationLapses, doa_delegation_reaper

\* The steps that change workflows other than a creation and a decision.
Upkeep ==
  \/ \E r \in Request : CancelWorkflow(r)
  \/ \E w \in Workflow : TTLPasses(w) \/ MarkConsumed(w)
  \/ doa_workflow_reaper

\* What they do: cancellation and the reaper settle running workflows whose row
\* nobody holds and are answered, MarkConsumed spends a completed one, and the
\* rest stays.
LEMMA UpkeepEffect ==
  ASSUME TypeOK, Upkeep
  PROVE  /\ UNCHANGED <<matrix, decisions, holders, delegation>>
         /\ req' \in [Request -> RequestState]
         /\ \A s \in Request : req'[s] = req[s] \/ req'[s] = Quiet
         /\ wf' \in [Workflow -> WorkflowRow]
         /\ \A v \in Workflow :
              /\ wf'[v].matrix = wf[v].matrix /\ wf'[v].initiator = wf[v].initiator
              /\ \/ wf'[v].status = wf[v].status /\ wf'[v].level = wf[v].level
                 \/ /\ wf[v].status = "running" /\ ~Locked(v)
                    /\ wf'[v].status \in {"cancelled", "expired"}
              /\ wf'[v].consumed = wf[v].consumed \/ (wf[v].status = "completed" /\ wf'[v].status = "completed")
<1>0. wf \in [Workflow -> WorkflowRow]
  BY DEF TypeOK
<1>r. req \in [Request -> RequestState] /\ Worker \in Request
  BY AuthorityAssumption DEF TypeOK
<1>1. ASSUME NEW r \in Request, Reply(r)
      PROVE  /\ req' \in [Request -> RequestState]
             /\ \A s \in Request : req'[s] = req[s] \/ req'[s] = Quiet
  BY <1>r, <1>1, QuietType DEF Reply
<1>2. ASSUME NEW w \in Workflow, TTLPasses(w) \/ MarkConsumed(w)
      PROVE  wf' \in [Workflow -> WorkflowRow]
  BY <1>0, <1>2 DEF TTLPasses, MarkConsumed, WorkflowRow
<1>3. CASE \E r \in Request : CancelWorkflow(r)
  <2>1. PICK r \in Request : CancelWorkflow(r)
    BY <1>3
  <2>w. PICK w : w = req[r].wf
    OBVIOUS
  <2>2. /\ ~Locked(w)
        /\ wf' = IF wf[w].status = "running"
                  THEN [wf EXCEPT ![w].status = "cancelled", ![w].level = NoLevel]
                  ELSE wf
        /\ UNCHANGED <<matrix, decisions, holders, delegation>>
    BY <2>1, <2>w DEF CancelWorkflow
  <2>3. /\ req' \in [Request -> RequestState]
        /\ \A s \in Request : req'[s] = req[s] \/ req'[s] = Quiet
    BY <1>1, <2>1 DEF CancelWorkflow
  <2>4. CASE wf' = wf
    BY <1>0, <2>2, <2>3, <2>4
  <2>5. CASE w \in Workflow /\ wf[w].status = "running"
    <3> DEFINE y == [wf[w] EXCEPT !.status = "cancelled", !.level = NoLevel]
    <3>1. /\ y \in WorkflowRow /\ y.status = "cancelled"
          /\ y.matrix = wf[w].matrix /\ y.initiator = wf[w].initiator
          /\ y.consumed = wf[w].consumed
      BY <1>0, <2>5, SettledType DEF Terminal
    <3>2. wf' = [wf EXCEPT ![w] = y]
      BY <1>0, <2>2, <2>5
    <3> HIDE DEF y
    <3> QED
      BY <1>0, <2>2, <2>3, <2>5, <3>1, <3>2
  <2> QED
    BY <1>0, <2>2, <2>4, <2>5
<1>4. CASE \E w \in Workflow : TTLPasses(w)
  <2>1. PICK w \in Workflow : TTLPasses(w)
    BY <1>4
  <2>2. wf' = [wf EXCEPT ![w] = [wf[w] EXCEPT !.overdue = TRUE]]
    BY <1>0, <2>1 DEF TTLPasses
  <2>3. \A v \in Workflow : wf'[v] = wf[v] \/ wf'[v] = [wf[v] EXCEPT !.overdue = TRUE]
    BY <1>0, <2>2
  <2>4. \A x \in WorkflowRow : LET y == [x EXCEPT !.overdue = TRUE]
                             IN  /\ y.matrix = x.matrix /\ y.initiator = x.initiator
                                 /\ y.status = x.status /\ y.level = x.level
                                 /\ y.consumed = x.consumed
    BY DEF WorkflowRow
  <2> QED
    BY <1>0, <1>r, <1>2, <2>1, <2>3, <2>4 DEF TTLPasses
<1>5. CASE \E w \in Workflow : MarkConsumed(w)
  <2>1. PICK w \in Workflow : MarkConsumed(w)
    BY <1>5
  <2>2. wf' = [wf EXCEPT ![w] = [wf[w] EXCEPT !.consumed = TRUE]]
    BY <1>0, <2>1 DEF MarkConsumed
  <2>3. \A v \in Workflow : \/ wf'[v] = wf[v]
                            \/ /\ wf'[v] = [wf[v] EXCEPT !.consumed = TRUE]
                               /\ wf[v].status = "completed"
    BY <1>0, <2>1, <2>2 DEF MarkConsumed
  <2>4. \A x \in WorkflowRow : LET y == [x EXCEPT !.consumed = TRUE]
                             IN  /\ y.matrix = x.matrix /\ y.initiator = x.initiator
                                 /\ y.status = x.status /\ y.level = x.level
    BY DEF WorkflowRow
  <2> QED
    BY <1>0, <1>r, <1>2, <2>1, <2>3, <2>4 DEF MarkConsumed
<1>6. CASE doa_workflow_reaper
  <2>1. \A v \in Workflow : \/ wf'[v] = wf[v]
                            \/ /\ wf'[v] = [wf[v] EXCEPT !.status = "expired", !.level = NoLevel]
                               /\ wf[v].status = "running" /\ ~Locked(v)
    BY <1>0, <1>6 DEF doa_workflow_reaper, Expire, Expired
  <2>2. ASSUME NEW v \in Workflow
        PROVE  /\ wf'[v] \in WorkflowRow
               /\ wf'[v].matrix = wf[v].matrix /\ wf'[v].initiator = wf[v].initiator
               /\ wf'[v].consumed = wf[v].consumed
               /\ \/ wf'[v].status = wf[v].status /\ wf'[v].level = wf[v].level
                  \/ /\ wf[v].status = "running" /\ ~Locked(v)
                     /\ wf'[v].status = "expired"
    <3>1. wf[v] \in WorkflowRow
      BY <1>0
    <3>2. CASE wf'[v] = wf[v]
      BY <3>1, <3>2
    <3>3. CASE /\ wf'[v] = [wf[v] EXCEPT !.status = "expired", !.level = NoLevel]
               /\ wf[v].status = "running" /\ ~Locked(v)
      <4> DEFINE y == [wf[v] EXCEPT !.status = "expired", !.level = NoLevel]
      <4>1. /\ y \in WorkflowRow /\ y.status = "expired"
            /\ y.matrix = wf[v].matrix /\ y.initiator = wf[v].initiator
            /\ y.consumed = wf[v].consumed
        BY <3>1, SettledType DEF Terminal
      <4>2. wf'[v] = y
        BY <3>3
      <4> HIDE DEF y
      <4> QED
        BY <3>3, <4>1, <4>2
    <3> QED
      BY <2>1, <3>2, <3>3
  <2>3. wf' \in [Workflow -> WorkflowRow]
    BY <1>6, <2>2 DEF doa_workflow_reaper, Expire
  <2>4. /\ UNCHANGED <<matrix, decisions, holders, delegation>>
        /\ req' \in [Request -> RequestState]
        /\ \A s \in Request : req'[s] = req[s] \/ req'[s] = Quiet
    BY <1>r, <1>1, <1>6 DEF doa_workflow_reaper, Expire
  <2> QED
    BY <2>2, <2>3, <2>4
<1> QED
  BY <1>r, <1>3, <1>4, <1>5, <1>6 DEF Upkeep

\* Every step keeps the types.
LEMMA TypeStep == IInv /\ [Next]_vars => TypeOK'
<1> SUFFICES ASSUME IInv, [Next]_vars PROVE TypeOK'
  OBVIOUS
<1> USE AuthorityAssumption
<1>0. TypeOK /\ Pinned /\ Informed
  BY DEF IInv
<1>1. CASE Administer
  BY <1>0, <1>1, AdministerType DEF TypeOK, InTx
<1>2. ASSUME NEW r \in Request, req' = [req EXCEPT ![r] = Quiet],
             UNCHANGED <<matrix, wf, decisions, holders, delegation>>
      PROVE  TypeOK'
  BY <1>0, <1>2, QuietType DEF TypeOK, InTx
<1>3. ASSUME NEW r \in Request, NEW p \in {"begun", "locked", "signed"},
             req[r].wf \in Workflow, req[r].user \in User,
             req' = [req EXCEPT ![r].pc = p],
             UNCHANGED <<matrix, wf, decisions, holders, delegation>>
      PROVE  TypeOK'
  BY <1>0, <1>3 DEF TypeOK, InTx, RequestState
<1>4. ASSUME NEW r \in Request, NEW x \in RequestState,
             x.pc \in {"selected", "loaded", "cancelling", "sweeping"},
             req' = [req EXCEPT ![r] = x],
             UNCHANGED <<matrix, wf, decisions, holders, delegation>>
      PROVE  TypeOK'
  BY <1>0, <1>4 DEF TypeOK, InTx
<1>5. CASE Upkeep
  <2>1. /\ UNCHANGED <<matrix, decisions, holders, delegation>>
        /\ req' \in [Request -> RequestState] /\ wf' \in [Workflow -> WorkflowRow]
        /\ \A s \in Request : req'[s] = req[s] \/ req'[s] = Quiet
    BY <1>0, <1>5, UpkeepEffect
  <2>2. \A v \in Workflow : /\ wf'[v].matrix = wf[v].matrix
                            /\ wf'[v].status # "absent" => wf[v].status # "absent"
    BY <1>0, <1>5, UpkeepEffect
  <2>3. \A s \in Request : InTx(s)' => InTx(s) /\ req'[s] = req[s]
    BY <2>1, QuietType DEF InTx
  <2> QED
    BY <1>0, <2>1, <2>2, <2>3 DEF TypeOK
<1>6. ASSUME NEW r \in Request, CreateWorkflow(r)
      PROVE  TypeOK'
  <2>1. ASSUME NEW w \in Workflow,
               wf' = [wf EXCEPT ![w] = [status |-> "running", matrix |-> req[r].matrix,
                                        level |-> 1, initiator |-> req[r].user,
                                        overdue |-> FALSE, consumed |-> FALSE]]
        PROVE  TypeOK'
    <3>1. req[r].matrix \in Matrix /\ req[r].user \in User
      BY <1>0, <1>6 DEF CreateWorkflow, Pinned
    <3>2. [status |-> "running", matrix |-> req[r].matrix, level |-> 1,
           initiator |-> req[r].user, overdue |-> FALSE, consumed |-> FALSE] \in WorkflowRow
      BY <3>1 DEF WorkflowRow
    <3>3. /\ wf' \in [Workflow -> WorkflowRow]
          /\ \A v \in Workflow : wf'[v].status # "absent" => wf'[v].matrix \in Matrix
      BY <1>0, <2>1, <3>1, <3>2 DEF TypeOK
    <3> QED
      BY <1>0, <1>6, <3>3, QuietType DEF CreateWorkflow, Reply, TypeOK, InTx
  <2> QED
    BY <1>2, <1>6, <2>1 DEF CreateWorkflow, Reply
<1>7. ASSUME NEW r \in Request, CommitDecision(r)
      PROVE  TypeOK'
  <2> DEFINE w == req[r].wf
             d == [level |-> req[r].level, user |-> req[r].user, verdict |-> req[r].verdict]
  <2>1. w \in Workflow /\ d \in Decision /\ wf[w] \in WorkflowRow /\ wf[w].status # "absent"
    BY <1>0, <1>7 DEF CommitDecision, Informed, Deciding, TypeOK, RequestState, Decision
  <2>2. PICK a : wf' = [wf EXCEPT ![w] = Decided(wf[w], Levels(w), req[r].verdict, a)]
    BY <1>7 DEF CommitDecision
  <2>3. Decided(wf[w], Levels(w), req[r].verdict, a) \in WorkflowRow
        /\ Decided(wf[w], Levels(w), req[r].verdict, a).matrix = wf[w].matrix
    BY <2>1, DecidedType DEF Decision
  <2>4. wf' \in [Workflow -> WorkflowRow]
        /\ \A v \in Workflow : wf'[v].status # "absent" => wf'[v].matrix \in Matrix
    BY <1>0, <2>1, <2>2, <2>3 DEF TypeOK
  <2>5. decisions' \in [Workflow -> SUBSET Decision]
    BY <1>0, <1>7, <2>1 DEF CommitDecision, TypeOK
  <2> QED
    BY <1>0, <1>7, <2>4, <2>5, QuietType DEF CommitDecision, Reply, TypeOK, InTx
<1>8. ASSUME NEW r \in Request, BeginDecision(r)
      PROVE  TypeOK'
  BY <1>0, <1>3, <1>8 DEF BeginDecision, Informed, Deciding
<1>9. ASSUME NEW r \in Request, LockWorkflow(r) \/ SignDecision(r) \/ Disconnect(r)
      PROVE  TypeOK'
  <2>1. InTx(r) => req[r].wf \in Workflow /\ req[r].user \in User
    BY <1>0 DEF TypeOK
  <2> QED
    BY <1>0, <1>2, <1>3, <1>9, <2>1 DEF LockWorkflow, SignDecision, Disconnect, Reply, InTx
<1>10. ASSUME NEW r \in Request, NEW u \in User, CreateSelect(r, u)
      PROVE  TypeOK'
  <2>1. PICK m \in Matrix : req' = [req EXCEPT ![r] = [Quiet EXCEPT !.pc = "selected", !.user = u, !.matrix = m]]
    BY <1>0, <1>10 DEF CreateSelect
  <2>2. [Quiet EXCEPT !.pc = "selected", !.user = u, !.matrix = m] \in RequestState
    BY <1>0 DEF Quiet, RequestState, NoLevel, Verdict
  <2>3. [Quiet EXCEPT !.pc = "selected", !.user = u, !.matrix = m].pc = "selected"
    BY <1>0 DEF Quiet
  <2> QED
    BY <1>0, <1>4, <1>10, <2>1, <2>2, <2>3 DEF CreateSelect
<1>11. ASSUME NEW r \in Request, NEW w \in Workflow, NEW u \in User, NEW v \in Verdict,
              LoadDecision(r, w, u, v)
      PROVE  TypeOK'
  <2> DEFINE x == [pc |-> "loaded", user |-> u, matrix |-> None, wf |-> w,
                   level |-> wf[w].level, verdict |-> v, rows |-> {}]
  <2>1. x \in RequestState /\ x.pc = "loaded"
    BY <1>0 DEF RequestState, TypeOK, WorkflowRow
  <2> QED
    BY <1>0, <1>4, <1>11, <2>1 DEF LoadDecision
<1>12. ASSUME NEW r \in Request, NEW w \in Workflow, CancelBegins(r, w)
      PROVE  TypeOK'
  <2> DEFINE x == [Quiet EXCEPT !.pc = "cancelling", !.wf = w, !.user = wf[w].initiator]
  <2>1. wf[w].initiator \in User \cup {None}
    BY <1>0 DEF TypeOK, WorkflowRow
  <2>2. x \in RequestState /\ x.pc = "cancelling"
    BY <2>1 DEF Quiet, RequestState, NoLevel, Verdict
  <2> QED
    BY <1>0, <1>4, <1>12, <2>2 DEF CancelBegins
<1>13. CASE ReaperBegins
  <2> DEFINE x == [Quiet EXCEPT !.pc = "sweeping", !.rows = Expired]
  <2>1. x \in RequestState /\ x.pc = "sweeping"
    BY DEF Quiet, RequestState, NoLevel, Verdict, Expired
  <2>2. Worker \in Request /\ req' = [req EXCEPT ![Worker] = x]
        /\ UNCHANGED <<matrix, wf, decisions, holders, delegation>>
    BY <1>13 DEF ReaperBegins
  <2> HIDE DEF x
  <2> QED
    BY <1>0, <1>4, <2>1, <2>2
<1>14. CASE UNCHANGED vars
  BY <1>0, <1>14 DEF vars, TypeOK, InTx
<1> QED
  BY <1>0, <1>1, <1>5, <1>6, <1>7, <1>8, <1>9, <1>10, <1>11, <1>12, <1>13, <1>14 DEF Next, Serve, Upkeep

-----------------------------------------------------------------------------
(* The inductive invariant *)

\* The steps of a request that change no table.
RequestStep(r) ==
  /\ \/ BeginDecision(r) \/ LockWorkflow(r) \/ SignDecision(r) \/ Disconnect(r)
     \/ \E u \in User : CreateSelect(r, u)
     \/ \E w \in Workflow, u \in User, v \in Verdict : LoadDecision(r, w, u, v)
     \/ CreateWorkflow(r) /\ UNCHANGED wf
     \/ \E w \in Workflow : CancelBegins(r, w)
     \/ r = Worker /\ ReaperBegins

\* What they do: the request is answered, begins an UPDATE, has chosen an approved
\* matrix, has checked its signer, or goes on with the decision it has begun, under
\* a row lock that was free or its own.
LEMMA RequestEffect ==
  ASSUME IInv, NEW r \in Request, RequestStep(r)
  PROVE  /\ UNCHANGED <<matrix, wf, decisions, holders, delegation>>
         /\ \A s \in Request : s # r => req'[s] = req[s]
         /\ \/ req'[r] = Quiet
            \/ req'[r].pc \in {"cancelling", "sweeping"}
            \/ /\ req'[r].pc = "selected"
               /\ req'[r].matrix \in Matrix /\ matrix[req'[r].matrix].status = "approved"
               /\ req'[r].user \in User
            \/ /\ req'[r].pc \in {"loaded", "begun", "locked", "signed"}
               /\ req'[r].wf \in Workflow /\ req'[r].user \in User
               /\ wf[req'[r].wf].status # "absent"
               /\ req'[r].level \in DOMAIN Levels(req'[r].wf)
               /\ req'[r].user # wf[req'[r].wf].initiator
               /\ req'[r].pc \in {"locked", "signed"} =>
                    /\ wf[req'[r].wf].status = "running"
                    /\ wf[req'[r].wf].level = req'[r].level
                    /\ req'[r].wf = req[r].wf
                    /\ ~Locked(req[r].wf) \/ Holding(r)
<1> USE AuthorityAssumption
<1>0. TypeOK /\ Pinned /\ Informed /\ LockSound
  BY DEF IInv
<1>1. req \in [Request -> RequestState]
  BY <1>0 DEF TypeOK
<1>a. ASSUME Reply(r), UNCHANGED <<matrix, wf, decisions, holders, delegation>>
      PROVE  /\ UNCHANGED <<matrix, wf, decisions, holders, delegation>>
             /\ \A s \in Request : s # r => req'[s] = req[s]
             /\ req'[r] = Quiet
  BY <1>1, <1>a DEF Reply
<1>b. ASSUME NEW p \in {"begun", "locked", "signed"}, req' = [req EXCEPT ![r].pc = p]
      PROVE  /\ \A s \in Request : s # r => req'[s] = req[s]
             /\ req'[r].pc = p /\ req'[r].wf = req[r].wf /\ req'[r].user = req[r].user
             /\ req'[r].level = req[r].level
  <2>1. req' = [req EXCEPT ![r] = [req[r] EXCEPT !.pc = p]]
    BY <1>1, <1>b
  <2>2. req[r] \in RequestState
    BY <1>1
  <2>3. req'[r] = [req[r] EXCEPT !.pc = p] /\ \A s \in Request : s # r => req'[s] = req[s]
    BY <1>1, <2>1
  <2> QED
    BY <2>2, <2>3 DEF RequestState
<1>2. CASE BeginDecision(r)
  BY <1>0, <1>2, <1>b DEF BeginDecision, Informed, Deciding
<1>3. CASE LockWorkflow(r)
  <2>1. CASE Reply(r)
    BY <1>3, <1>a, <2>1 DEF LockWorkflow
  <2>2. CASE /\ wf[req[r].wf].status = "running" /\ wf[req[r].wf].level = req[r].level
             /\ req' = [req EXCEPT ![r].pc = "locked"]
    <3>1. Deciding(r) /\ ~Locked(req[r].wf) /\ UNCHANGED <<matrix, wf, decisions, holders, delegation>>
      BY <1>3 DEF LockWorkflow, Deciding
    <3>2. /\ req[r].wf \in Workflow /\ req[r].user \in User
          /\ wf[req[r].wf].status # "absent"
          /\ req[r].level \in DOMAIN Levels(req[r].wf)
          /\ req[r].user # wf[req[r].wf].initiator
      BY <1>0, <3>1 DEF Informed
    <3> QED
      BY <1>b, <2>2, <3>1, <3>2
  <2> QED
    BY <1>3, <2>1, <2>2 DEF LockWorkflow
<1>4. CASE SignDecision(r)
  <2>1. CASE Reply(r)
    BY <1>4, <1>a, <2>1 DEF SignDecision
  <2>2. CASE req' = [req EXCEPT ![r].pc = "signed"]
    <3>1. Deciding(r) /\ Holding(r) /\ UNCHANGED <<matrix, wf, decisions, holders, delegation>>
      BY <1>4 DEF SignDecision, Deciding, Holding
    <3>2. /\ req[r].wf \in Workflow /\ req[r].user \in User
          /\ wf[req[r].wf].status = "running"
          /\ wf[req[r].wf].level = req[r].level
          /\ req[r].level \in DOMAIN Levels(req[r].wf)
          /\ req[r].user # wf[req[r].wf].initiator
      BY <1>0, <3>1 DEF Informed, LockSound
    <3> QED
      BY <1>b, <2>2, <3>1, <3>2
  <2> QED
    BY <1>4, <2>1, <2>2 DEF SignDecision
<1>5. CASE Disconnect(r)
  BY <1>5, <1>a DEF Disconnect
<1>6. ASSUME NEW u \in User, CreateSelect(r, u)
      PROVE  /\ UNCHANGED <<matrix, wf, decisions, holders, delegation>>
             /\ \A s \in Request : s # r => req'[s] = req[s]
             /\ req'[r].pc = "selected" /\ req'[r].user \in User
             /\ req'[r].matrix \in Matrix /\ matrix[req'[r].matrix].status = "approved"
  <2>1. PICK m \in Matrix : /\ SelectActiveMatrix(m)
                            /\ req' = [req EXCEPT ![r] = [Quiet EXCEPT !.pc = "selected", !.user = u, !.matrix = m]]
    BY <1>6 DEF CreateSelect
  <2>2. matrix[m].status = "approved"
    BY <2>1 DEF SelectActiveMatrix, Selectable
  <2>3. req'[r] = [Quiet EXCEPT !.pc = "selected", !.user = u, !.matrix = m]
        /\ \A s \in Request : s # r => req'[s] = req[s]
    BY <1>1, <2>1
  <2>4. req'[r].pc = "selected" /\ req'[r].user = u /\ req'[r].matrix = m
    BY <2>3 DEF Quiet
  <2> QED
    BY <1>6, <2>2, <2>3, <2>4 DEF CreateSelect
<1>7. ASSUME NEW w \in Workflow, NEW u \in User, NEW v \in Verdict, LoadDecision(r, w, u, v)
      PROVE  /\ UNCHANGED <<matrix, wf, decisions, holders, delegation>>
             /\ \A s \in Request : s # r => req'[s] = req[s]
             /\ req'[r].pc = "loaded" /\ req'[r].wf = w /\ req'[r].user = u
             /\ req'[r].level = wf[w].level /\ wf[w].status = "running"
             /\ wf[w].level \in DOMAIN Levels(w) /\ u # wf[w].initiator
  BY <1>1, <1>7 DEF LoadDecision
<1>8. CASE CreateWorkflow(r) /\ UNCHANGED wf
  BY <1>8, <1>a DEF CreateWorkflow
<1>11. ASSUME NEW w \in Workflow, CancelBegins(r, w)
      PROVE  /\ UNCHANGED <<matrix, wf, decisions, holders, delegation>>
             /\ \A s \in Request : s # r => req'[s] = req[s]
             /\ req'[r].pc = "cancelling"
  <2>1. req'[r] = [Quiet EXCEPT !.pc = "cancelling", !.wf = w, !.user = wf[w].initiator]
        /\ \A s \in Request : s # r => req'[s] = req[s]
    BY <1>1, <1>11 DEF CancelBegins
  <2>2. req'[r].pc = "cancelling"
    BY <2>1 DEF Quiet
  <2> QED
    BY <1>11, <2>1, <2>2 DEF CancelBegins
<1>12. CASE r = Worker /\ ReaperBegins
  <2>1. req'[r] = [Quiet EXCEPT !.pc = "sweeping", !.rows = Expired]
        /\ \A s \in Request : s # r => req'[s] = req[s]
    BY <1>1, <1>12 DEF ReaperBegins
  <2>2. req'[r].pc = "sweeping"
    BY <2>1 DEF Quiet
  <2> QED
    BY <1>12, <2>1, <2>2 DEF ReaperBegins
<1>13. CASE \E w \in Workflow : CancelBegins(r, w)
  BY <1>11, <1>13
<1>9. CASE \E u \in User : CreateSelect(r, u)
  BY <1>6, <1>9
<1>10. CASE \E w \in Workflow, u \in User, v \in Verdict : LoadDecision(r, w, u, v)
  BY <1>7, <1>10
<1> QED
  BY <1>2, <1>3, <1>4, <1>5, <1>8, <1>9, <1>10, <1>12, <1>13 DEF RequestStep

\* Every step of Next is one of five kinds.
LEMMA StepKinds ==
  ASSUME Next
  PROVE  \/ Administer
         \/ \E r \in Request : RequestStep(r)
         \/ \E r \in Request, w \in Workflow :
              /\ CreateWorkflow(r) /\ NextId(w)
              /\ \A v \in Workflow : wf[v].status # "running"
              /\ wf' = [wf EXCEPT ![w] = [status |-> "running", matrix |-> req[r].matrix,
                                          level |-> 1, initiator |-> req[r].user,
                                          overdue |-> FALSE, consumed |-> FALSE]]
         \/ \E r \in Request : CommitDecision(r)
         \/ Upkeep
<1>1. ASSUME NEW r \in Request, CreateWorkflow(r)
      PROVE  \/ RequestStep(r)
             \/ \E w \in Workflow :
                  /\ CreateWorkflow(r) /\ NextId(w)
                  /\ \A v \in Workflow : wf[v].status # "running"
                  /\ wf' = [wf EXCEPT ![w] = [status |-> "running", matrix |-> req[r].matrix,
                                              level |-> 1, initiator |-> req[r].user,
                                              overdue |-> FALSE, consumed |-> FALSE]]
  BY <1>1 DEF CreateWorkflow, RequestStep
<1> QED
  BY <1>1, AuthorityAssumption DEF Next, Serve, RequestStep, Upkeep

\* Operators cannot disturb a workflow or a request.
LEMMA AdministerStep ==
  ASSUME IInv, Administer
  PROVE  (Pinned /\ Informed /\ LockSound /\ Orderly /\ FourEyes)'
<1>0. TypeOK /\ Pinned /\ Informed /\ LockSound /\ Orderly /\ FourEyes
  BY DEF IInv
<1>1. UNCHANGED <<wf, decisions, req>>
  BY <1>0, AdministerType
<1>2. \A m \in Matrix : matrix[m].status \in InForce =>
        matrix'[m].status \in InForce /\ matrix'[m].levels = matrix[m].levels
  BY <1>0, AdministerKeeps
<1>3. \A w \in Workflow : wf[w].status # "absent" => Levels(w)' = Levels(w)
  BY <1>0, <1>1, <1>2 DEF Pinned, Levels
<1>4. Pinned'
  BY <1>0, <1>1, <1>2 DEF Pinned
<1>5. Informed'
  BY <1>0, <1>1, <1>3 DEF Informed, Deciding
<1>6. (LockSound /\ Orderly /\ FourEyes)'
  BY <1>0, <1>1 DEF LockSound, Holding, Orderly, FourEyes
<1> QED
  BY <1>4, <1>5, <1>6

\* Requests keep the invariant as long as they change no table.
LEMMA RequestKeeps ==
  ASSUME IInv, NEW r \in Request, RequestStep(r)
  PROVE  (Pinned /\ Informed /\ LockSound /\ Orderly /\ FourEyes)'
<1>0. TypeOK /\ Pinned /\ Informed /\ LockSound /\ Orderly /\ FourEyes
  BY DEF IInv
<1>1. UNCHANGED <<matrix, wf, decisions>> /\ \A s \in Request : s # r => req'[s] = req[s]
  BY RequestEffect
<1>2. Quiet.pc = "idle"
  BY QuietType
<1>3. Pinned'
  <2>1. req'[r].pc = "selected" =>
          /\ req'[r].matrix \in Matrix /\ matrix[req'[r].matrix].status = "approved"
          /\ req'[r].user \in User
    BY <1>2, RequestEffect
  <2> QED
    BY <1>0, <1>1, <2>1 DEF Pinned, InForce
<1>4. Informed'
  <2>1. req'[r].pc \in {"loaded", "begun", "locked", "signed"} =>
          /\ req'[r].wf \in Workflow /\ req'[r].user \in User
          /\ wf[req'[r].wf].status # "absent"
          /\ req'[r].level \in DOMAIN Levels(req'[r].wf)
          /\ req'[r].user # wf[req'[r].wf].initiator
    BY <1>2, RequestEffect
  <2>2. \A w \in Workflow : Levels(w)' = Levels(w)
    BY <1>1 DEF Levels
  <2> QED
    BY <1>0, <1>1, <2>1, <2>2 DEF Informed, Deciding
<1>5. LockSound'
  <2>1. req'[r].pc \in {"locked", "signed"} =>
          /\ wf[req'[r].wf].status = "running" /\ wf[req'[r].wf].level = req'[r].level
          /\ req'[r].wf = req[r].wf
          /\ ~Locked(req[r].wf) \/ Holding(r)
    BY <1>2, RequestEffect
  <2>2. ASSUME NEW s \in Request, s # r, Holding(s), Holding(r)', req[s].wf = req'[r].wf
        PROVE  FALSE
    BY <1>0, <2>1, <2>2 DEF LockSound, Holding, Locked
  <2>3. \A s \in Request : s # r => (Holding(s)' <=> Holding(s)) /\ req'[s].wf = req[s].wf
                                   /\ req'[s].level = req[s].level
    BY <1>1 DEF Holding
  <2>4. \A s \in Request : Holding(s)' =>
          wf'[req'[s].wf].status = "running" /\ wf'[req'[s].wf].level = req'[s].level
    BY <1>0, <1>1, <2>1, <2>3 DEF LockSound, Holding
  <2>5. \A s, q \in Request : Holding(s)' /\ Holding(q)' /\ req'[s].wf = req'[q].wf => s = q
    BY <1>0, <2>2, <2>3 DEF LockSound
  <2> QED
    BY <2>4, <2>5 DEF LockSound
<1>6. Orderly' /\ FourEyes'
  BY <1>0, <1>1 DEF Orderly, FourEyes
<1> QED
  BY <1>3, <1>4, <1>5, <1>6

\* A new workflow runs on an approved matrix, alone.
LEMMA CreateKeeps ==
  ASSUME IInv, NEW r \in Request, NEW w \in Workflow, CreateWorkflow(r), NextId(w),
         \A v \in Workflow : wf[v].status # "running",
         wf' = [wf EXCEPT ![w] = [status |-> "running", matrix |-> req[r].matrix,
                                  level |-> 1, initiator |-> req[r].user,
                                  overdue |-> FALSE, consumed |-> FALSE]]
  PROVE  (Pinned /\ Informed /\ LockSound /\ Orderly /\ FourEyes)'
<1>0. TypeOK /\ Pinned /\ Informed /\ LockSound /\ Orderly /\ FourEyes
  BY DEF IInv
<1>1. UNCHANGED <<matrix, decisions>> /\ req' = [req EXCEPT ![r] = Quiet] /\ req[r].pc = "selected"
  BY DEF CreateWorkflow, Reply
<1>2. req \in [Request -> RequestState] /\ wf \in [Workflow -> WorkflowRow]
  BY <1>0 DEF TypeOK
<1>3. /\ wf'[w].status = "running" /\ wf'[w].matrix = req[r].matrix
      /\ wf'[w].initiator = req[r].user /\ wf'[w].consumed = FALSE
      /\ \A v \in Workflow : v # w => wf'[v] = wf[v]
  BY <1>2
<1>4. req'[r].pc = "idle" /\ \A s \in Request : s # r => req'[s] = req[s]
  BY <1>1, <1>2, QuietType
<1>5. wf[w].status = "absent" /\ decisions[w] = {}
  BY <1>0 DEF NextId, Orderly
<1>6. Pinned'
  BY <1>0, <1>1, <1>3, <1>4 DEF Pinned
<1>7. Informed'
  <2>1. \A s \in Request : Deciding(s)' => s # r /\ Deciding(s) /\ req[s].wf # w /\ req'[s] = req[s]
    BY <1>0, <1>4, <1>5 DEF Deciding, Informed
  <2>2. \A v \in Workflow : v # w => Levels(v)' = Levels(v)
    BY <1>1, <1>3 DEF Levels
  <2> QED
    BY <1>0, <1>3, <2>1, <2>2 DEF Informed
<1>8. LockSound'
  <2>1. \A s \in Request : ~Holding(s)
    BY <1>0 DEF LockSound, Informed, Holding, Deciding
  <2>2. \A s \in Request : ~Holding(s)'
    BY <1>4, <2>1 DEF Holding
  <2> QED
    BY <2>2 DEF LockSound
<1>9. Orderly'
  BY <1>0, <1>1, <1>3, <1>5 DEF Orderly
<1>10. FourEyes'
  BY <1>0, <1>1, <1>3, <1>5 DEF FourEyes
<1> QED
  BY <1>6, <1>7, <1>8, <1>9, <1>10

\* Cancelling, expiring and spending a workflow leave decisions in progress alone.
LEMMA UpkeepKeeps ==
  ASSUME IInv, Upkeep
  PROVE  (Pinned /\ Informed /\ LockSound /\ Orderly /\ FourEyes)'
<1>0. TypeOK /\ Pinned /\ Informed /\ LockSound /\ Orderly /\ FourEyes
  BY DEF IInv
<1>1. /\ UNCHANGED <<matrix, decisions>>
      /\ \A r \in Request : req'[r] = req[r] \/ req'[r].pc = "idle"
  BY <1>0, UpkeepEffect, QuietType
<1>2. \A v \in Workflow :
        /\ wf'[v].matrix = wf[v].matrix /\ wf'[v].initiator = wf[v].initiator
        /\ wf'[v].status = "absent" <=> wf[v].status = "absent"
        /\ wf'[v].status = "running" => wf[v].status = "running"
        /\ Locked(v) => wf'[v].status = wf[v].status /\ wf'[v].level = wf[v].level
        /\ wf[v].status = "completed" => wf'[v].status = "completed"
        /\ wf'[v].consumed = wf[v].consumed \/ wf'[v].status = "completed"
  BY <1>0, UpkeepEffect
<1>3. Pinned'
  BY <1>0, <1>1, <1>2 DEF Pinned
<1>4. Informed'
  <2>1. \A v \in Workflow : Levels(v)' = Levels(v)
    BY <1>1, <1>2 DEF Levels
  <2>2. \A r \in Request : Deciding(r)' => Deciding(r) /\ req'[r] = req[r]
    BY <1>1 DEF Deciding
  <2> QED
    BY <1>0, <1>1, <1>2, <2>1, <2>2 DEF Informed
<1>5. LockSound'
  <2>1. \A r \in Request : Holding(r) => req[r].wf \in Workflow /\ Locked(req[r].wf)
    BY <1>0 DEF Holding, Locked, Informed, Deciding
  <2>2. \A r \in Request : Holding(r) =>
          /\ wf'[req[r].wf].status = wf[req[r].wf].status
          /\ wf'[req[r].wf].level = wf[req[r].wf].level
    BY <1>2, <2>1
  <2>3. \A r \in Request : Holding(r)' => Holding(r) /\ req'[r] = req[r]
    BY <1>1 DEF Holding
  <2> QED
    BY <1>0, <1>1, <2>2, <2>3 DEF LockSound
<1>6. Orderly'
  BY <1>0, <1>1, <1>2 DEF Orderly
<1>7. FourEyes'
  BY <1>0, <1>1, <1>2 DEF FourEyes
<1> QED
  BY <1>3, <1>4, <1>5, <1>6, <1>7

\* The approvals that the level of decision r has once r is counted.
Counted(r) == Approvers(req[r].wf, req[r].level) \cup
              (IF req[r].verdict = "approved" THEN {req[r].user} ELSE {})

\* The next row of the workflow that decision r is about: rejected by a veto,
\* unchanged while the level lacks signatures, else at the next level, or
\* completed when there is none.
CommitOutcome(r) ==
  LET w == req[r].wf
      n == req[r].level
  IN  \/ req[r].verdict = "rejected" /\ wf'[w].status = "rejected"
      \/ req[r].verdict = "approved" /\ wf'[w] = wf[w]
      \/ /\ req[r].verdict = "approved"
         /\ evalLevelSatisfaction(Levels(w)[n], Counted(r))
         /\ \/ n + 1 \in DOMAIN Levels(w) /\ wf'[w].status = "running" /\ wf'[w].level = n + 1
            \/ n + 1 \notin DOMAIN Levels(w) /\ wf'[w].status = "completed"

\* What a committed decision does: it is about a running workflow, whose row it
\* held, and it is recorded in the step that moves the workflow on.
LEMMA CommitEffect ==
  ASSUME IInv, NEW r \in Request, CommitDecision(r)
  PROVE  LET w == req[r].wf
         IN  /\ w \in Workflow /\ wf[w].status = "running" /\ wf[w].level = req[r].level
             /\ req[r].user \in User /\ req[r].user # wf[w].initiator
             /\ req[r].level \in DOMAIN Levels(w) /\ req[r].verdict \in Verdict
             /\ UNCHANGED <<matrix, holders, delegation>>
             /\ decisions' = [decisions EXCEPT ![w] =
                   @ \cup {[level |-> req[r].level, user |-> req[r].user, verdict |-> req[r].verdict]}]
             /\ wf'[w].matrix = wf[w].matrix /\ wf'[w].initiator = wf[w].initiator
             /\ wf'[w].consumed = wf[w].consumed
             /\ \A v \in Workflow : v # w => wf'[v] = wf[v]
             /\ req'[r].pc = "idle" /\ \A s \in Request : s # r => req'[s] = req[s]
             /\ CommitOutcome(r)
<1> DEFINE w == req[r].wf
           n == req[r].level
           y == Decided(wf[w], Levels(w), req[r].verdict, Counted(r))
<1>0. TypeOK /\ Informed /\ LockSound
  BY DEF IInv
<1>1. Deciding(r) /\ Holding(r)
  BY DEF CommitDecision, Deciding, Holding
<1>2. /\ w \in Workflow /\ req[r].user \in User /\ n \in DOMAIN Levels(w)
      /\ req[r].user # wf[w].initiator /\ wf[w].status = "running" /\ wf[w].level = n
  BY <1>0, <1>1 DEF Informed, LockSound
<1>3. req \in [Request -> RequestState] /\ wf \in [Workflow -> WorkflowRow]
  BY <1>0 DEF TypeOK
<1>4. req[r].verdict \in Verdict /\ n \in Nat
  BY <1>3 DEF RequestState
<1>5. wf' = [wf EXCEPT ![w] = y]
  BY <1>3 DEF CommitDecision, Counted
<1>6. wf[w] \in WorkflowRow
  BY <1>2, <1>3
<1>7. y.matrix = wf[w].matrix /\ y.initiator = wf[w].initiator /\ y.consumed = wf[w].consumed
  BY <1>4, <1>6, DecidedType
<1>8. \/ req[r].verdict = "rejected" /\ y.status = "rejected"
      \/ req[r].verdict = "approved" /\ y = wf[w]
      \/ /\ req[r].verdict = "approved"
         /\ evalLevelSatisfaction(Levels(w)[n], Counted(r))
         /\ \/ n + 1 \in DOMAIN Levels(w) /\ y.status = "running" /\ y.level = n + 1
            \/ n + 1 \notin DOMAIN Levels(w) /\ y.status = "completed"
  <2>1. CASE req[r].verdict = "rejected"
    <3>1. y = [wf[w] EXCEPT !.status = "rejected", !.level = NoLevel]
      BY <2>1 DEF Decided
    <3>2. [wf[w] EXCEPT !.status = "rejected", !.level = NoLevel].status = "rejected"
      BY <1>6, SettledType DEF Terminal
    <3> QED
      BY <2>1, <3>1, <3>2
  <2>2. CASE req[r].verdict = "approved" /\ ~evalLevelSatisfaction(Levels(w)[n], Counted(r))
    BY <1>2, <2>2 DEF Decided
  <2>3. CASE req[r].verdict = "approved" /\ evalLevelSatisfaction(Levels(w)[n], Counted(r))
    <3>1. CASE n + 1 \in DOMAIN Levels(w)
      <4>1. y = [wf[w] EXCEPT !.level = n + 1]
        BY <1>2, <2>3, <3>1 DEF Decided
      <4>2. [wf[w] EXCEPT !.level = n + 1].level = n + 1 /\ [wf[w] EXCEPT !.level = n + 1].status = wf[w].status
        BY <1>6 DEF WorkflowRow
      <4> QED
        BY <1>2, <2>3, <3>1, <4>1, <4>2
    <3>2. CASE n + 1 \notin DOMAIN Levels(w)
      <4>1. y = [wf[w] EXCEPT !.status = "completed", !.level = NoLevel]
        BY <1>2, <2>3, <3>2 DEF Decided
      <4>2. [wf[w] EXCEPT !.status = "completed", !.level = NoLevel].status = "completed"
        BY <1>6, SettledType DEF Terminal
      <4> QED
        BY <2>3, <3>2, <4>1, <4>2
    <3> QED
      BY <3>1, <3>2
  <2> QED
    BY <1>4, <2>1, <2>2, <2>3 DEF Verdict
<1> HIDE DEF y
<1>9. wf'[w] = y /\ \A v \in Workflow : v # w => wf'[v] = wf[v]
  BY <1>2, <1>3, <1>5
<1>10. CommitOutcome(r)
  BY <1>8, <1>9 DEF CommitOutcome
<1>11. req'[r].pc = "idle" /\ \A s \in Request : s # r => req'[s] = req[s]
  BY <1>3, QuietType DEF CommitDecision, Reply
<1>12. /\ UNCHANGED <<matrix, holders, delegation>>
       /\ decisions' = [decisions EXCEPT ![w] =
             @ \cup {[level |-> req[r].level, user |-> req[r].user, verdict |-> req[r].verdict]}]
  BY DEF CommitDecision
<1> QED
  BY <1>2, <1>4, <1>7, <1>9, <1>10, <1>11, <1>12

\* A committed decision disturbs nobody else's: it alone held the row.
LEMMA CommitKeeps ==
  ASSUME IInv, NEW r \in Request, CommitDecision(r)
  PROVE  (Pinned /\ Informed /\ LockSound /\ Orderly /\ FourEyes)'
<1> DEFINE w == req[r].wf
           d == [level |-> req[r].level, user |-> req[r].user, verdict |-> req[r].verdict]
<1>0. TypeOK /\ Pinned /\ Informed /\ LockSound /\ Orderly /\ FourEyes
  BY DEF IInv
<1>1. /\ w \in Workflow /\ wf[w].status = "running" /\ req[r].user # wf[w].initiator
      /\ UNCHANGED matrix /\ decisions' = [decisions EXCEPT ![w] = @ \cup {d}]
      /\ wf'[w].matrix = wf[w].matrix /\ wf'[w].initiator = wf[w].initiator
      /\ wf'[w].consumed = wf[w].consumed
      /\ \A v \in Workflow : v # w => wf'[v] = wf[v]
      /\ req'[r].pc = "idle" /\ \A s \in Request : s # r => req'[s] = req[s]
  BY CommitEffect
<1>2. wf'[w].status \in {"running", "rejected", "completed"}
  BY CommitEffect DEF CommitOutcome
<1>3. decisions \in [Workflow -> SUBSET Decision]
  BY <1>0 DEF TypeOK
<1>4. \A v \in Workflow : /\ wf'[v].matrix = wf[v].matrix /\ wf'[v].initiator = wf[v].initiator
                          /\ wf'[v].status = "absent" <=> wf[v].status = "absent"
  BY <1>1, <1>2
<1>5. Pinned'
  BY <1>0, <1>1, <1>4 DEF Pinned
<1>6. Informed'
  <2>1. \A v \in Workflow : Levels(v)' = Levels(v)
    BY <1>1, <1>4 DEF Levels
  <2>2. \A s \in Request : Deciding(s)' => Deciding(s) /\ req'[s] = req[s]
    BY <1>1 DEF Deciding
  <2> QED
    BY <1>0, <1>4, <2>1, <2>2 DEF Informed
<1>7. LockSound'
  <2>1. Holding(r)
    BY DEF CommitDecision, Holding
  <2>2. \A s \in Request : Holding(s)' => s # r /\ Holding(s) /\ req'[s] = req[s]
    BY <1>1 DEF Holding
  <2>3. \A s \in Request : Holding(s)' => req[s].wf \in Workflow /\ req[s].wf # w
    BY <1>0, <2>1, <2>2 DEF LockSound, Informed, Deciding, Holding
  <2>4. \A s \in Request : Holding(s)' => wf'[req[s].wf] = wf[req[s].wf]
    BY <1>1, <2>3
  <2> QED
    BY <1>0, <2>2, <2>4 DEF LockSound
<1>8. Orderly'
  <2>1. ASSUME NEW v \in Workflow PROVE /\ wf'[v].status = "running" => wf[v].status = "running"
                                        /\ wf'[v].consumed => wf'[v].status = "completed"
                                        /\ wf'[v].status = "absent" => decisions'[v] = decisions[v]
    <3>1. CASE v = w
      <4>1. ~wf[w].consumed
        BY <1>0, <1>1 DEF Orderly
      <4> QED
        BY <1>1, <1>2, <3>1, <4>1
    <3>2. CASE v # w
      BY <1>0, <1>1, <1>3, <3>2 DEF Orderly
    <3> QED
      BY <3>1, <3>2
  <2> QED
    BY <1>0, <1>4, <2>1 DEF Orderly
<1>9. FourEyes'
  <2>1. ASSUME NEW v \in Workflow, NEW e \in decisions'[v]
        PROVE  e.user # wf[v].initiator
    <3>1. e \in decisions[v] \/ (v = w /\ e = d)
      BY <1>1, <1>3
    <3> QED
      BY <1>0, <1>1, <3>1 DEF FourEyes
  <2> QED
    BY <1>4, <2>1 DEF FourEyes
<1> QED
  BY <1>5, <1>6, <1>7, <1>8, <1>9

\* The invariant is inductive.
LEMMA Inductive == IInv /\ [Next]_vars => IInv'
<1> SUFFICES ASSUME IInv, [Next]_vars PROVE IInv'
  OBVIOUS
<1>1. TypeOK'
  BY TypeStep
<1>2. CASE UNCHANGED vars
  BY <1>1, <1>2 DEF vars, IInv, Pinned, Informed, Deciding, Levels, LockSound, Holding, Orderly, FourEyes
<1>3. CASE Next
  BY <1>1, <1>3, StepKinds, AdministerStep, RequestKeeps, CreateKeeps, CommitKeeps, UpkeepKeeps DEF IInv
<1> QED
  BY <1>2, <1>3

\* It holds at the start, when nothing exists.
LEMMA InitIInv == Init => IInv
<1> SUFFICES ASSUME Init PROVE IInv
  OBVIOUS
<1> USE AuthorityAssumption
<1>1. matrix \in [Matrix -> MatrixRow]
  <2>1. ASSUME NEW m \in Matrix PROVE (CHOOSE p \in Plan : TRUE) \in Plan
    OBVIOUS
  <2> QED
    BY <2>1 DEF Init, MatrixRow
<1>2. delegation \in [Delegation -> DelegationRow]
  <2>1. ASSUME NEW d \in Delegation PROVE (CHOOSE g \in Grant : TRUE) \in Grant
    OBVIOUS
  <2> QED
    BY <2>1 DEF Init, DelegationRow
<1>3. /\ wf \in [Workflow -> WorkflowRow] /\ \A w \in Workflow : wf[w].status = "absent" /\ wf[w].consumed = FALSE
  BY DEF Init, WorkflowRow, NoLevel
<1>4. req \in [Request -> RequestState] /\ \A r \in Request : req[r].pc = "idle"
  BY QuietType DEF Init
<1>5. decisions \in [Workflow -> SUBSET Decision] /\ \A w \in Workflow : decisions[w] = {}
  BY DEF Init
<1>6. holders \subseteq User
  BY DEF Init
<1>7. TypeOK
  BY <1>1, <1>2, <1>3, <1>4, <1>5, <1>6 DEF TypeOK, InTx
<1> QED
  BY <1>3, <1>4, <1>5, <1>7 DEF IInv, Pinned, Informed, Deciding, LockSound, Holding, Orderly, FourEyes

\* In every reachable state the types are right, a decision in progress is about
\* a level of the matrix its workflow was created with, whatever operators do to
\* matrices meanwhile, one decision at a time holds a workflow, and nobody has
\* signed what they initiated.
THEOREM Invariant == Spec => []IInv
BY InitIInv, Inductive, PTL DEF Spec

-----------------------------------------------------------------------------
(* One rejection ends a workflow, and nothing else ends it as rejected *)

\* A decision is committed on a running workflow only, so that a rejection never
\* reaches one that is settled; and a rejected workflow takes no decision more.
THEOREM VetoIsFinal == Spec => []VetoEnds
<1>1. Init => VetoEnds
  BY DEF Init, VetoEnds
<1>2. IInv /\ VetoEnds /\ [Next]_vars => VetoEnds'
  <2> SUFFICES ASSUME IInv, VetoEnds, [Next]_vars PROVE VetoEnds'
    OBVIOUS
  <2>0. TypeOK /\ Orderly
    BY DEF IInv
  <2>1. CASE UNCHANGED <<wf, decisions>>
    BY <2>1 DEF VetoEnds
  <2>2. CASE Upkeep
    <3>1. UNCHANGED decisions /\ \A w \in Workflow : wf'[w].status = "rejected" <=> wf[w].status = "rejected"
      BY <2>0, <2>2, UpkeepEffect
    <3> QED
      BY <3>1 DEF VetoEnds
  <2>3. ASSUME NEW r \in Request, NEW w \in Workflow, CreateWorkflow(r), NextId(w),
               wf' = [wf EXCEPT ![w] = [status |-> "running", matrix |-> req[r].matrix,
                                        level |-> 1, initiator |-> req[r].user,
                                        overdue |-> FALSE, consumed |-> FALSE]]
        PROVE  VetoEnds'
    <3>1. UNCHANGED decisions /\ decisions[w] = {}
      BY <2>0, <2>3 DEF CreateWorkflow, NextId, Orderly
    <3>2. wf'[w].status = "running" /\ \A v \in Workflow : v # w => wf'[v] = wf[v]
      BY <2>0, <2>3 DEF TypeOK
    <3> QED
      BY <3>1, <3>2 DEF VetoEnds
  <2>4. ASSUME NEW r \in Request, CommitDecision(r)
        PROVE  VetoEnds'
    <3> DEFINE w == req[r].wf
               d == [level |-> req[r].level, user |-> req[r].user, verdict |-> req[r].verdict]
    <3>1. /\ w \in Workflow /\ wf[w].status = "running" /\ req[r].verdict \in Verdict
          /\ decisions' = [decisions EXCEPT ![w] = @ \cup {d}]
          /\ \A v \in Workflow : v # w => wf'[v] = wf[v]
      BY <2>4, CommitEffect
    <3>2. wf'[w].status = "rejected" <=> req[r].verdict = "rejected"
      BY <2>4, <3>1, CommitEffect DEF CommitOutcome
    <3>3. decisions \in [Workflow -> SUBSET Decision]
      BY <2>0 DEF TypeOK
    <3>4. decisions'[w] = decisions[w] \cup {d} /\ \A v \in Workflow : v # w => decisions'[v] = decisions[v]
      BY <3>1, <3>3
    <3>5. \A e \in decisions[w] : e.verdict # "rejected"
      BY <3>1 DEF VetoEnds
    <3>6. d.verdict = req[r].verdict
      OBVIOUS
    <3>7. wf'[w].status = "rejected" <=> \E e \in decisions'[w] : e.verdict = "rejected"
      BY <3>2, <3>4, <3>5, <3>6
    <3> QED
      BY <3>1, <3>4, <3>7 DEF VetoEnds
  <2> QED
    BY <2>0, <2>1, <2>2, <2>3, <2>4, StepKinds, AdministerType, RequestEffect DEF vars
<1> QED
  BY <1>1, <1>2, Invariant, PTL DEF Spec

-----------------------------------------------------------------------------
(* A workflow passes a level only with the signatures the level asks for *)

\* Level numbers run from 1 without a gap.  The code numbers the levels it is
\* given but does not insist on this, and what is asked for after a level is its
\* number plus one.
Contiguous == \A p \in Plan : \E k \in Nat : DOMAIN p = 1..k

\* A running workflow is at a level of its matrix.
OnLadder == \A w \in Workflow : wf[w].status = "running" => wf[w].level \in DOMAIN Levels(w)

\* The levels of a workflow that exists are a plan, and a level that a matrix in
\* force has is a level.
LEMMA PlanType ==
  ASSUME IInv, NEW w \in Workflow, wf[w].status # "absent"
  PROVE  /\ Levels(w) \in Plan
         /\ \A n \in DOMAIN Levels(w) : n \in Nat \ {0} /\ Levels(w)[n] \in Level /\ Levels(w)[n].min > 0
<1>1. wf[w].matrix \in Matrix /\ matrix \in [Matrix -> MatrixRow]
  BY DEF IInv, TypeOK, Pinned
<1>2. matrix[wf[w].matrix] \in MatrixRow
  BY <1>1
<1>3. Levels(w) \in Plan
  BY <1>2 DEF Levels, MatrixRow
<1> QED
  BY <1>3, AuthorityAssumption

\* What a level's mode asks for is met by somebody.
LEMMA SatisfiedBySome ==
  ASSUME NEW l \in Level, l.min > 0, NEW a, evalLevelSatisfaction(l, a)
  PROVE  /\ a # {}
         /\ l.mode = "threshold" => Cardinality(a) >= l.min
         /\ l.mode = "all" => l.users \subseteq a
<1>1. Cardinality({}) = 0
  BY FS_EmptySet
<1>2. l.min \in Nat
  BY DEF Level
<1> QED
  BY <1>1, <1>2 DEF evalLevelSatisfaction, ResolveApprovers

\* Nothing but a committed decision touches what a level's sign-off rests on.
LEMMA SignedOffStays ==
  ASSUME NEW w \in Workflow, NEW n, SignedOff(w, n),
         Levels(w)' = Levels(w), Approvers(w, n)' = Approvers(w, n),
         wf'[w].initiator = wf[w].initiator
  PROVE  SignedOff(w, n)'
BY DEF SignedOff

\* The approvals of a workflow after a decision: those it had, and the new one.
LEMMA ApproversAfter ==
  ASSUME IInv, NEW r \in Request, CommitDecision(r), NEW w, w = req[r].wf, NEW k, k = req[r].level
  PROVE  /\ req[r].verdict = "approved" => Approvers(w, k)' = Counted(r)
         /\ \A n \in Nat : n # k => Approvers(w, n)' = Approvers(w, n)
         /\ \A v \in Workflow, n \in Nat : v # w => Approvers(v, n)' = Approvers(v, n)
<1> DEFINE d == [level |-> k, user |-> req[r].user, verdict |-> req[r].verdict]
<1>1. /\ w \in Workflow /\ req[r].user \in User
      /\ decisions' = [decisions EXCEPT ![w] = @ \cup {d}]
  BY CommitEffect
<1>2. decisions \in [Workflow -> SUBSET Decision]
  BY DEF IInv, TypeOK
<1>3. decisions'[w] = decisions[w] \cup {d} /\ \A v \in Workflow : v # w => decisions'[v] = decisions[v]
  BY <1>1, <1>2
<1>4. ASSUME req[r].verdict = "approved" PROVE Approvers(w, k)' = Counted(r)
  <2>1. ASSUME NEW u \in User
        PROVE  [level |-> k, user |-> u, verdict |-> "approved"] = d <=> u = req[r].user
    BY <1>4
  <2> QED
    BY <1>1, <1>3, <1>4, <2>1 DEF Approvers, Counted
<1>5. ASSUME NEW n \in Nat, n # k PROVE Approvers(w, n)' = Approvers(w, n)
  <2>1. ASSUME NEW u \in User
        PROVE  [level |-> n, user |-> u, verdict |-> "approved"] # d
    BY <1>5
  <2> QED
    BY <1>3, <2>1 DEF Approvers
<1>6. ASSUME NEW v \in Workflow, NEW n \in Nat, v # w PROVE Approvers(v, n)' = Approvers(v, n)
  BY <1>3, <1>6 DEF Approvers
<1> QED
  BY <1>4, <1>5, <1>6

\* The decision that closes a level leaves it signed off: the initiator is not
\* among those counted.
LEMMA ClosingSignsOff ==
  ASSUME IInv, NEW r \in Request, CommitDecision(r), req[r].verdict = "approved",
         NEW w, w = req[r].wf, NEW n, n = req[r].level,
         evalLevelSatisfaction(Levels(w)[n], Counted(r))
  PROVE  SignedOff(w, n)'
<1>1. /\ w \in Workflow /\ wf[w].status # "absent" /\ n \in DOMAIN Levels(w)
      /\ req[r].user # wf[w].initiator /\ wf'[w].initiator = wf[w].initiator
      /\ wf'[w].matrix = wf[w].matrix /\ UNCHANGED matrix
  BY CommitEffect
<1>2. Levels(w)' = Levels(w)
  BY <1>1 DEF Levels
<1>3. Levels(w)[n] \in Level /\ Levels(w)[n].min > 0
  BY <1>1, PlanType
<1>4. Approvers(w, n)' = Counted(r)
  BY ApproversAfter
<1>5. wf[w].initiator \notin Counted(r)
  <2>1. wf[w].initiator \notin Approvers(w, n)
    <3>1. ASSUME NEW u \in Approvers(w, n) PROVE u # wf[w].initiator
      <4>1. [level |-> n, user |-> u, verdict |-> "approved"] \in decisions[w]
        BY DEF Approvers
      <4>2. [level |-> n, user |-> u, verdict |-> "approved"].user # wf[w].initiator
        BY <1>1, <4>1 DEF IInv, FourEyes
      <4> QED
        BY <4>2
    <3> QED
      BY <3>1
  <2> QED
    BY <1>1, <2>1 DEF Counted
<1>6. Counted(r) \ {wf[w].initiator} = Counted(r)
  BY <1>5
<1>7. /\ Counted(r) # {}
      /\ Levels(w)[n].mode = "threshold" => Cardinality(Counted(r)) >= Levels(w)[n].min
      /\ Levels(w)[n].mode = "all" => Levels(w)[n].users \subseteq Counted(r)
  BY <1>3, SatisfiedBySome
<1> QED
  BY <1>1, <1>2, <1>4, <1>6, <1>7 DEF SignedOff

\* Where level numbers have no gap, a completed workflow carries the signatures
\* of every level of the matrix it was created with, and a running one those of
\* the levels below the current one.
THEOREM LevelsPass == ASSUME Contiguous PROVE Spec => []AllLevelsPassed
<1>1. Init => OnLadder /\ AllLevelsPassed
  BY DEF Init, OnLadder, AllLevelsPassed
<1>2. IInv /\ OnLadder /\ AllLevelsPassed /\ [Next]_vars => OnLadder' /\ AllLevelsPassed'
  <2> SUFFICES ASSUME IInv, OnLadder, AllLevelsPassed, [Next]_vars
               PROVE  OnLadder' /\ AllLevelsPassed'
    OBVIOUS
  <2>0. TypeOK /\ Pinned /\ Orderly
    BY DEF IInv
  \* Steps that settle workflows or leave them alone.
  <2>1. ASSUME UNCHANGED decisions,
               \A w \in Workflow :
                 /\ wf'[w].matrix = wf[w].matrix /\ wf'[w].initiator = wf[w].initiator
                 /\ \/ wf'[w].status = wf[w].status /\ wf'[w].level = wf[w].level
                    \/ wf'[w].status \in {"cancelled", "expired"},
               \A w \in Workflow : wf[w].status # "absent" => Levels(w)' = Levels(w)
        PROVE  OnLadder' /\ AllLevelsPassed'
    <3>1. OnLadder'
      BY <2>1 DEF OnLadder
    <3>2. \A w \in Workflow : \A n : Approvers(w, n)' = Approvers(w, n)
      BY <2>1 DEF Approvers
    <3>3. ASSUME NEW w \in Workflow, wf'[w].status \in {"running", "completed"}, NEW n \in DOMAIN Levels(w)',
                 wf'[w].status = "completed" \/ n < wf'[w].level
          PROVE  SignedOff(w, n)'
      <4>1. wf'[w].status = wf[w].status /\ wf'[w].level = wf[w].level
        BY <2>1, <3>3
      <4>2. Levels(w)' = Levels(w)
        BY <2>1, <3>3, <4>1
      <4>3. SignedOff(w, n)
        BY <3>3, <4>1, <4>2 DEF AllLevelsPassed
      <4> QED
        BY <2>1, <3>2, <4>2, <4>3, SignedOffStays
    <3> QED
      BY <3>1, <3>3 DEF AllLevelsPassed
  <2>2. CASE Administer
    <3>1. UNCHANGED <<wf, decisions>>
      BY <2>0, <2>2, AdministerType
    <3>2. \A w \in Workflow : wf[w].status # "absent" => Levels(w)' = Levels(w)
      BY <2>0, <2>2, <3>1, AdministerKeeps DEF Pinned, Levels
    <3> QED
      BY <2>1, <3>1, <3>2
  <2>3. CASE UNCHANGED <<matrix, wf, decisions>>
    BY <2>1, <2>3 DEF Levels
  <2>4. CASE Upkeep
    <3>1. /\ UNCHANGED <<matrix, decisions>>
          /\ \A w \in Workflow :
               /\ wf'[w].matrix = wf[w].matrix /\ wf'[w].initiator = wf[w].initiator
               /\ \/ wf'[w].status = wf[w].status /\ wf'[w].level = wf[w].level
                  \/ wf'[w].status \in {"cancelled", "expired"}
      BY <2>0, <2>4, UpkeepEffect
    <3>2. \A w \in Workflow : Levels(w)' = Levels(w)
      BY <3>1 DEF Levels
    <3> QED
      BY <2>1, <3>1, <3>2
  <2>5. ASSUME NEW r \in Request, NEW w \in Workflow, CreateWorkflow(r), NextId(w),
               wf' = [wf EXCEPT ![w] = [status |-> "running", matrix |-> req[r].matrix,
                                        level |-> 1, initiator |-> req[r].user,
                                        overdue |-> FALSE, consumed |-> FALSE]]
        PROVE  OnLadder' /\ AllLevelsPassed'
    <3>1. UNCHANGED <<matrix, decisions>> /\ req[r].pc = "selected"
      BY <2>5 DEF CreateWorkflow
    <3>2. /\ wf'[w].status = "running" /\ wf'[w].level = 1 /\ wf'[w].matrix = req[r].matrix
          /\ \A v \in Workflow : v # w => wf'[v] = wf[v]
      BY <2>0, <2>5 DEF TypeOK
    <3>3. Levels(w)' \in Plan
      <4>1. req[r].matrix \in Matrix /\ matrix \in [Matrix -> MatrixRow]
        BY <2>0, <3>1 DEF Pinned, TypeOK
      <4>2. matrix[req[r].matrix] \in MatrixRow
        BY <4>1
      <4>3. matrix[req[r].matrix].levels \in Plan
        BY <4>2 DEF MatrixRow
      <4> QED
        BY <3>1, <3>2, <4>3 DEF Levels
    <3>4. 1 \in DOMAIN Levels(w)' /\ \A n \in DOMAIN Levels(w)' : ~(n < 1)
      BY <3>3, AuthorityAssumption DEF Contiguous
    <3>5. \A v \in Workflow : v # w => /\ Levels(v)' = Levels(v)
                                      /\ \A n : Approvers(v, n)' = Approvers(v, n)
      BY <3>1, <3>2 DEF Levels, Approvers
    <3>6. OnLadder'
      BY <3>2, <3>4, <3>5 DEF OnLadder
    <3>7. ASSUME NEW v \in Workflow, wf'[v].status \in {"running", "completed"}, NEW n \in DOMAIN Levels(v)',
                 wf'[v].status = "completed" \/ n < wf'[v].level
          PROVE  SignedOff(v, n)'
      <4>1. v # w
        BY <3>2, <3>4, <3>7
      <4>2. SignedOff(v, n)
        BY <3>2, <3>5, <3>7, <4>1 DEF AllLevelsPassed
      <4> QED
        BY <3>2, <3>5, <4>1, <4>2, SignedOffStays
    <3> QED
      BY <3>6, <3>7 DEF AllLevelsPassed
  <2>6. ASSUME NEW r \in Request, CommitDecision(r)
        PROVE  OnLadder' /\ AllLevelsPassed'
    <3>0. PICK w, k : w = req[r].wf /\ k = req[r].level
      OBVIOUS
    <3>1. /\ w \in Workflow /\ wf[w].status = "running" /\ wf[w].level = k /\ k \in DOMAIN Levels(w)
          /\ UNCHANGED matrix /\ wf'[w].matrix = wf[w].matrix /\ wf'[w].initiator = wf[w].initiator
          /\ \A v \in Workflow : v # w => wf'[v] = wf[v]
      BY <2>6, <3>0, CommitEffect
    <3>2. \A v \in Workflow : Levels(v)' = Levels(v) /\ wf'[v].initiator = wf[v].initiator
      BY <3>1 DEF Levels
    <3>3. Levels(w) \in Plan /\ DOMAIN Levels(w) \subseteq Nat
      BY <2>6, <3>1, PlanType
    <3>4. ASSUME NEW v \in Workflow, v # w, wf'[v].status \in {"running", "completed"}, NEW n \in DOMAIN Levels(v)',
                 wf'[v].status = "completed" \/ n < wf'[v].level
          PROVE  SignedOff(v, n)'
      <4>1. SignedOff(v, n) /\ wf[v].status # "absent"
        BY <3>1, <3>2, <3>4 DEF AllLevelsPassed
      <4>2. n \in Nat
        BY <3>2, <3>4, <4>1, PlanType
      <4> QED
        BY <2>6, <3>0, <3>2, <3>4, <4>1, <4>2, ApproversAfter, SignedOffStays
    <3>5. ASSUME NEW n \in DOMAIN Levels(w), n < k
          PROVE  SignedOff(w, n)'
      <4>1. SignedOff(w, n) /\ n \in Nat /\ n # k
        BY <3>1, <3>3, <3>5 DEF AllLevelsPassed
      <4> QED
        BY <2>6, <3>0, <3>1, <3>2, <4>1, ApproversAfter, SignedOffStays
    <3>6. CASE wf'[w].status = "rejected"
      BY <3>1, <3>2, <3>4, <3>6 DEF AllLevelsPassed, OnLadder
    <3>7. CASE wf'[w] = wf[w]
      BY <3>1, <3>2, <3>4, <3>5, <3>7 DEF AllLevelsPassed, OnLadder
    <3>8. CASE /\ req[r].verdict = "approved"
               /\ evalLevelSatisfaction(Levels(w)[k], Counted(r))
               /\ \/ k + 1 \in DOMAIN Levels(w) /\ wf'[w].status = "running" /\ wf'[w].level = k + 1
                  \/ k + 1 \notin DOMAIN Levels(w) /\ wf'[w].status = "completed"
      <4>1. SignedOff(w, k)'
        BY <2>6, <3>0, <3>8, ClosingSignsOff
      <4>2. OnLadder'
        BY <3>1, <3>2, <3>8 DEF OnLadder
      <4>3. ASSUME NEW n \in DOMAIN Levels(w), wf'[w].status = "completed" \/ n < wf'[w].level
            PROVE  n < k \/ n = k
        <5>1. PICK j \in Nat : DOMAIN Levels(w) = 1..j
          BY <3>3 DEF Contiguous
        <5> QED
          BY <3>1, <3>8, <4>3, <5>1
      <4> QED
        BY <3>2, <3>4, <3>5, <4>1, <4>2, <4>3 DEF AllLevelsPassed
    <3> QED
      BY <2>6, <3>0, <3>6, <3>7, <3>8, CommitEffect DEF CommitOutcome
  <2>7. CASE Next
    BY <2>2, <2>3, <2>4, <2>5, <2>6, <2>7, StepKinds, RequestEffect
  <2>8. CASE UNCHANGED vars
    BY <2>3, <2>8 DEF vars
  <2> QED
    BY <2>7, <2>8
<1> QED
  BY <1>1, <1>2, Invariant, PTL DEF Spec

-----------------------------------------------------------------------------
(* The contract of Approval *)

lifecycle == [w \in Workflow |-> wf[w].status]
spent == {w \in Workflow : wf[w].consumed}

\* Every step opens, settles or spends one workflow, or shows nothing of what it
\* does.  The reaper's sweep settles one at most, because one at most is running.
LEMMA ApprovalStep == IInv /\ [Next]_vars => [Contract!ApprovalNext]_(Contract!approvalVars)
<1> SUFFICES ASSUME IInv, [Next]_vars
             PROVE  Contract!ApprovalNext \/ UNCHANGED <<lifecycle, spent>>
  BY DEF lifecycle, spent, Contract!approvalVars
<1>0. TypeOK /\ Orderly /\ wf \in [Workflow -> WorkflowRow]
  BY DEF IInv, TypeOK
<1>i. /\ Contract!Workflow = Workflow /\ Contract!Terminal = Terminal
  BY DEF Contract!Workflow, Workflow, Contract!Terminal, Terminal
<1>1. CASE UNCHANGED wf
  BY <1>1 DEF lifecycle, spent
\* A running workflow settles and nothing else changes.
<1>2. ASSUME NEW w \in Workflow, wf[w].status = "running", wf'[w].status \in Terminal,
             wf'[w].consumed = wf[w].consumed, \A v \in Workflow : v # w => wf'[v] = wf[v]
      PROVE  Contract!ApprovalNext
  <2>0. PICK t \in Terminal : wf'[w].status = t
    BY <1>2
  <2>1. lifecycle' = [lifecycle EXCEPT ![w] = t]
    BY <1>2, <2>0 DEF lifecycle
  <2>2. spent' = spent
    BY <1>2 DEF spent
  <2>3. Contract!Settle(w, t)
    BY <1>2, <2>1, <2>2 DEF Contract!Settle, lifecycle, spent
  <2> QED
    BY <1>2, <1>i, <2>3 DEF Contract!ApprovalNext
\* The step shows neither in a status nor in what is spent.
<1>3. ASSUME \A v \in Workflow : wf'[v].status = wf[v].status /\ wf'[v].consumed = wf[v].consumed
      PROVE  UNCHANGED <<lifecycle, spent>>
  BY <1>3 DEF lifecycle, spent
<1>4. ASSUME NEW r \in Request, CancelWorkflow(r)
      PROVE  Contract!ApprovalNext \/ UNCHANGED <<lifecycle, spent>>
  <2>1. PICK w : w = req[r].wf
    OBVIOUS
  <2>2. wf' = IF wf[w].status = "running"
              THEN [wf EXCEPT ![w].status = "cancelled", ![w].level = NoLevel]
              ELSE wf
    BY <1>4, <2>1 DEF CancelWorkflow
  <2>3. CASE w \in Workflow /\ wf[w].status = "running"
    <3> DEFINE y == [wf[w] EXCEPT !.status = "cancelled", !.level = NoLevel]
    <3>1. y.status = "cancelled" /\ y.consumed = wf[w].consumed
      BY <1>0, <2>3, SettledType DEF Terminal
    <3>2. wf'[w] = y /\ \A v \in Workflow : v # w => wf'[v] = wf[v]
      BY <1>0, <2>2, <2>3
    <3> HIDE DEF y
    <3> QED
      BY <1>2, <2>3, <3>1, <3>2 DEF Terminal
  <2> QED
    BY <1>0, <1>1, <2>2, <2>3
<1>5. ASSUME NEW w \in Workflow, TTLPasses(w)
      PROVE  UNCHANGED <<lifecycle, spent>>
  <2>1. wf' = [wf EXCEPT ![w] = [wf[w] EXCEPT !.overdue = TRUE]]
    BY <1>0, <1>5 DEF TTLPasses
  <2>2. \A v \in Workflow : wf'[v] = wf[v] \/ wf'[v] = [wf[v] EXCEPT !.overdue = TRUE]
    BY <1>0, <2>1
  <2>3. \A x \in WorkflowRow : /\ [x EXCEPT !.overdue = TRUE].status = x.status
                              /\ [x EXCEPT !.overdue = TRUE].consumed = x.consumed
    BY DEF WorkflowRow
  <2> QED
    BY <1>0, <1>3, <2>2, <2>3
<1>6. ASSUME NEW w \in Workflow, MarkConsumed(w)
      PROVE  Contract!ApprovalNext
  <2>1. wf' = [wf EXCEPT ![w] = [wf[w] EXCEPT !.consumed = TRUE]] /\ wf[w] \in WorkflowRow
    BY <1>0, <1>6 DEF MarkConsumed
  <2>2. wf'[w] = [wf[w] EXCEPT !.consumed = TRUE] /\ \A v \in Workflow : v # w => wf'[v] = wf[v]
    BY <1>0, <2>1
  <2>3. wf'[w].status = wf[w].status /\ wf'[w].consumed = TRUE
    BY <2>1, <2>2 DEF WorkflowRow
  <2>4. wf[w].status = "completed" /\ ~wf[w].consumed
    BY <1>6 DEF MarkConsumed
  <2>5. lifecycle' = lifecycle /\ lifecycle[w] = "completed"
    BY <2>2, <2>3, <2>4 DEF lifecycle
  <2>6. spent' = spent \cup {w} /\ w \notin spent
    BY <2>2, <2>3, <2>4 DEF spent
  <2>7. Contract!Spend(w)
    BY <2>5, <2>6 DEF Contract!Spend, lifecycle, spent
  <2> QED
    BY <1>i, <2>7 DEF Contract!ApprovalNext
<1>7. CASE doa_workflow_reaper
  <2>0. PICK ws : ws = req[Worker].rows \cap Expired
    OBVIOUS
  <2>r. wf' = [w \in Workflow |-> IF w \in ws
                                 THEN [wf[w] EXCEPT !.status = "expired", !.level = NoLevel]
                                 ELSE wf[w]]
    BY <1>7, <2>0 DEF doa_workflow_reaper, Expire
  <2>1. CASE ws = {}
    <3>1. \A v \in Workflow : wf'[v] = wf[v]
      BY <2>r, <2>1
    <3> QED
      BY <1>3, <3>1
  <2>2. ASSUME NEW w \in ws
        PROVE  Contract!ApprovalNext
    <3>1. w \in Workflow /\ wf[w].status = "running"
      BY <2>0, <2>2 DEF Expired
    <3>2. \A v \in Workflow : v # w => v \notin ws
      BY <1>0, <2>0, <3>1 DEF Expired, Orderly
    <3> DEFINE y == [wf[w] EXCEPT !.status = "expired", !.level = NoLevel]
    <3>3. y.status = "expired" /\ y.consumed = wf[w].consumed
      BY <1>0, <3>1, SettledType DEF Terminal
    <3>4. wf'[w] = y /\ \A v \in Workflow : v # w => wf'[v] = wf[v]
      BY <2>r, <2>2, <3>1, <3>2
    <3> HIDE DEF y
    <3> QED
      BY <1>2, <3>1, <3>3, <3>4 DEF Terminal
  <2> QED
    BY <2>1, <2>2
<1>8. ASSUME NEW r \in Request, CommitDecision(r)
      PROVE  Contract!ApprovalNext \/ UNCHANGED <<lifecycle, spent>>
  <2>1. PICK w : w = req[r].wf
    OBVIOUS
  <2>2. /\ w \in Workflow /\ wf[w].status = "running" /\ wf'[w].consumed = wf[w].consumed
        /\ \A v \in Workflow : v # w => wf'[v] = wf[v]
        /\ wf'[w].status \in {"running", "rejected", "completed"}
    BY <1>8, <2>1, CommitEffect DEF CommitOutcome
  <2>3. CASE wf'[w].status = "running"
    <3>1. \A v \in Workflow : wf'[v].status = wf[v].status /\ wf'[v].consumed = wf[v].consumed
      BY <2>2, <2>3
    <3> QED
      BY <1>3, <3>1
  <2>4. CASE wf'[w].status \in {"rejected", "completed"}
    BY <1>2, <2>2, <2>4 DEF Terminal
  <2> QED
    BY <2>2, <2>3, <2>4
<1>9. ASSUME NEW r \in Request, NEW w \in Workflow, NextId(w),
             \A v \in Workflow : wf[v].status # "running",
             wf' = [wf EXCEPT ![w] = [status |-> "running", matrix |-> req[r].matrix,
                                      level |-> 1, initiator |-> req[r].user,
                                      overdue |-> FALSE, consumed |-> FALSE]]
      PROVE  Contract!ApprovalNext
  <2>1. /\ wf'[w].status = "running" /\ wf'[w].consumed = FALSE
        /\ \A v \in Workflow : v # w => wf'[v] = wf[v]
    BY <1>0, <1>9
  <2>2. wf[w].status = "absent" /\ ~wf[w].consumed
    BY <1>0, <1>9 DEF NextId, Orderly
  <2>3. lifecycle' = [lifecycle EXCEPT ![w] = "running"]
    BY <2>1 DEF lifecycle
  <2>4. spent' = spent
    BY <2>1, <2>2 DEF spent
  <2>5. Contract!Open(w)
    BY <1>9, <1>i, <2>2, <2>3, <2>4 DEF Contract!Open, NextId, lifecycle, spent
  <2> QED
    BY <1>i, <2>5 DEF Contract!ApprovalNext
<1>10. CASE Upkeep
  BY <1>4, <1>5, <1>6, <1>7, <1>10 DEF Upkeep
<1>11. CASE Next
  BY <1>0, <1>1, <1>8, <1>9, <1>10, <1>11, StepKinds, AdministerType, RequestEffect
<1> QED
  BY <1>1, <1>11 DEF vars

\* Workflows keep the contract that the gate of the record API relies on: opened
\* one at a time, settled once, spent at most once and only when completed.
THEOREM KeepsApproval == Spec => ApprovalContract
<1>1. Init => Contract!ApprovalInit
  BY DEF Init, Contract!ApprovalInit, Contract!Workflow, Workflow
<1> QED
  BY <1>1, Invariant, ApprovalStep, PTL DEF Spec, ApprovalContract, Contract!ApprovalSpec

-----------------------------------------------------------------------------
(* Tenants: what the tables hold *)

MemberRow == [role : Role \cup {"none"}, accepted : BOOLEAN]
TenantRow == [st : {"none", "live", "deleted"}, slug : Slug \cup {Nil}]
Call == [st : {"idle", "checked", "invite", "selected", "read", "write"}, kind : Kind,
         by : Person \cup {Nil}, t : Tenant \cup {Nil}, key : Key \cup {Nil},
         role : Role \cup {"none"}, want : Tenant \cup {Nil}, mine : Role \cup {"none"},
         seen : MemberRow, count : Nat, known : BOOLEAN,
         since : {"none", "live", "deleted"}]

Rows == /\ tenant \in [Tenant -> TenantRow]
        /\ member \in [Tenant -> [Key -> MemberRow]]
        /\ grants \in SUBSET (Person \X Tenant)

\* What a handler under way has seen to: the caller's role in a live tenant, the
\* role it may assign, the invitation that was asked for, and, before it writes
\* a row that may be an owner's, that there are other owners.
Vouched(q) ==
    /\ q \in Call
    /\ q.st = "idle" => q = Idle
    /\ q.st # "idle" =>
         /\ q.by \in Person /\ q.t \in Tenant /\ q.key \in Key
         /\ q.kind # "accept" => q.since = "live" /\ q.st # "selected"
         /\ q.kind = "accept" => /\ q.st = "selected"
                                 /\ q.key = pendingUserID(q.by)
                                 /\ q.want \in {Nil, q.t}
         /\ q.kind \in {"invite", "role"} /\ q.role = "owner" => q.mine = "owner"
         /\ q.st = "write" /\ Guarded(q) => ~LastOwner(q.count)

Calls == handler \in [Req -> Call] /\ \A r \in Req : Vouched(handler[r])

\* Invitations are never accepted where they are: accepting one makes a row of
\* the user.
PendingStays == \A t \in Tenant, u \in Person : ~member[t][pendingUserID(u)].accepted

MembershipInv == /\ bound \in Instance /\ signed \in SUBSET Person
                 /\ Rows /\ Calls /\ PendingStays
                 /\ OwnerRemains /\ GrantsExplained

\* What a step must leave behind and do.
WellGoverned == /\ MembershipInv'
                /\ InviteHonoured /\ DeletedIsQuiet /\ OwnersMakeOwners

\* A call that has begun is under way; the idle one is a call.
LEMMA IdleIsVouched == Vouched(Idle)
<1>1. Idle \in Call
  BY DEF Idle, Call, NoRow, MemberRow, Kind
<1> QED
  BY <1>1 DEF Vouched, Idle

\* One request's new state: the others keep theirs.
LEMMA CallReplaced ==
  ASSUME Calls, NEW r \in Req, NEW q, Vouched(q), handler' = [handler EXCEPT ![r] = q]
  PROVE  Calls' /\ \A x \in Req : handler'[x] = IF x = r THEN q ELSE handler[x]
<1>1. q \in Call
  BY DEF Vouched
<1>2. handler' \in [Req -> Call]
  BY <1>1 DEF Calls
<1>3. \A x \in Req : handler'[x] = IF x = r THEN q ELSE handler[x]
  BY DEF Calls
<1>4. \A x \in Req : Vouched(handler'[x])
  BY <1>3 DEF Calls
<1> QED
  BY <1>2, <1>3, <1>4 DEF Calls, Vouched, Guarded, LastOwner

\* A request that ends leaves the others alone.
LEMMA CallEnds ==
  ASSUME Calls, NEW r \in Req, Finish(r)
  PROVE  Calls' /\ \A x \in Req : handler'[x] = IF x = r THEN Idle ELSE handler[x]
BY IdleIsVouched, CallReplaced DEF Finish

\* A step that writes no row is governed.
LEMMA NoRowWritten ==
  ASSUME MembershipInv, Calls', UNCHANGED <<bound, tenant, member, grants, history>>,
         signed' \in SUBSET Person
  PROVE  WellGoverned
<1>1. MembershipInv'
  BY DEF MembershipInv, Rows, PendingStays, OwnerRemains, GrantsExplained, history,
         Live, Owners
<1>2. \A t \in Tenant : member'[t] = member[t]
  OBVIOUS
<1> QED
  BY <1>1, <1>2 DEF WellGoverned, InviteHonoured, TakesUp, DeletedIsQuiet, OwnersMakeOwners

\* A step that leaves the memberships alone and revives no tenant is governed, if
\* it accounts for the grants it makes.
LEMMA MembersKept ==
  ASSUME MembershipInv, Calls', UNCHANGED <<bound, signed, member>>,
         tenant' \in [Tenant -> TenantRow],
         \A t \in Tenant : Live(t)' => Live(t),
         grants' \in SUBSET (Person \X Tenant), GrantsExplained', overlap' = overlap
  PROVE  WellGoverned
<1>1. \A t \in Tenant : Owners(t)' = Owners(t)
  BY DEF Owners
<1>2. OwnerRemains'
  BY <1>1 DEF MembershipInv, OwnerRemains
<1>3. MembershipInv'
  BY <1>2 DEF MembershipInv, Rows, PendingStays
<1> QED
  BY <1>3 DEF WellGoverned, InviteHonoured, TakesUp, DeletedIsQuiet, OwnersMakeOwners

-----------------------------------------------------------------------------
(* Tenants: beginning a request *)

\* An account more changes no membership.
LEMMA SignupGoverned ==
  ASSUME MembershipInv, UNCHANGED bound, NEW u \in Person, Signup(u)
  PROVE  WellGoverned
<1>1. Calls'
  BY DEF MembershipInv, Calls, Vouched, Guarded, LastOwner, Signup
<1>2. signed' \in SUBSET Person
  BY DEF Signup, MembershipInv
<1> QED
  BY <1>1, <1>2, NoRowWritten DEF Signup, tables

\* A request that is let in vouches for the caller's role in a live tenant.
LEMMA BeginGoverned ==
  ASSUME MembershipInv, UNCHANGED bound, NEW r \in Req, NEW kind \in Kind, NEW u \in Person,
         NEW t \in Tenant, NEW key \in Key, NEW role \in Role \cup {"none"},
         Begin(r, kind, u, t, key, role)
  PROVE  WellGoverned
<1> DEFINE q == [Idle EXCEPT !.st = "checked", !.kind = kind, !.by = u, !.t = t, !.key = key,
                             !.role = role, !.mine = MyRole(t, u), !.since = tenant[t].st]
<1>1. tenant[t] \in TenantRow /\ Account(u) \in Key /\ member[t][Account(u)] \in MemberRow
  BY DEF MembershipInv, Rows, Account, Key
<1>2. MyRole(t, u) \in Role \cup {"none"}
  BY <1>1 DEF MyRole, MemberRow
<1>3. MyRole(t, u) # "none" /\ kind # "accept"
  BY DEF Begin, Permits, IsOwner
<1>4. Live(t)
  BY <1>3 DEF MyRole
<1>5. kind \in {"invite", "role"} /\ role = "owner" => MyRole(t, u) = "owner"
  BY DEF Begin, Permits, isAllowedAssignableRole
<1>6. q \in Call
  BY <1>1, <1>2 DEF Idle, Call, NoRow, MemberRow, TenantRow
<1>7. /\ q.st = "checked" /\ q.kind = kind /\ q.by = u /\ q.t = t /\ q.key = key
      /\ q.role = role /\ q.mine = MyRole(t, u) /\ q.since = tenant[t].st
  BY DEF Idle
<1>8. Vouched(q)
  BY <1>3, <1>4, <1>5, <1>6, <1>7 DEF Vouched, Live
<1>9. Calls'
  BY <1>8, CallReplaced DEF Begin, MembershipInv
<1> QED
  BY <1>9, NoRowWritten DEF Begin, tables, MembershipInv

\* An acceptance picks an invitation of the tenant it was asked for.
LEMMA AcceptSelectGoverned ==
  ASSUME MembershipInv, UNCHANGED bound, NEW r \in Req, NEW u \in Person,
         NEW want \in Tenant \cup {Nil}, AcceptSelect(r, u, want)
  PROVE  WellGoverned
<1>1. PICK t \in Tenant :
        /\ Newest(t, u, want)
        /\ handler' = [handler EXCEPT
               ![r] = [Idle EXCEPT !.st = "selected", !.kind = "accept", !.by = u, !.t = t,
                                   !.key = pendingUserID(u), !.want = want,
                                   !.since = tenant[t].st,
                                   !.seen = member[t][pendingUserID(u)]]]
  BY DEF AcceptSelect
<1> DEFINE q == [Idle EXCEPT !.st = "selected", !.kind = "accept", !.by = u, !.t = t,
                             !.key = pendingUserID(u), !.want = want,
                             !.since = tenant[t].st,
                             !.seen = member[t][pendingUserID(u)]]
<1>2. want \in {Nil, t}
  BY <1>1 DEF Newest, Offered
<1>3. pendingUserID(u) \in Key
  BY DEF pendingUserID, Key
<1>4. tenant[t] \in TenantRow /\ member[t][pendingUserID(u)] \in MemberRow
  BY <1>3 DEF MembershipInv, Rows
<1>5. q \in Call
  BY <1>3, <1>4 DEF Idle, Call, NoRow, TenantRow, Kind
<1>6. /\ q.st = "selected" /\ q.kind = "accept" /\ q.by = u /\ q.t = t
      /\ q.key = pendingUserID(u) /\ q.want = want
  BY DEF Idle
<1>7. Vouched(q)
  BY <1>2, <1>3, <1>5, <1>6 DEF Vouched
<1>8. Calls'
  BY <1>1, <1>7, CallReplaced DEF MembershipInv
<1> QED
  BY <1>8, NoRowWritten DEF AcceptSelect, tables, MembershipInv

-----------------------------------------------------------------------------
(* Tenants: reading and counting *)

\* Looking up the invited address.
LEMMA LookupGoverned ==
  ASSUME MembershipInv, UNCHANGED bound, NEW r \in Req, LookupUser(r)
  PROVE  WellGoverned
<1>0. PICK known \in {~bound.failing /\ handler[r].key[1] \in signed,
                      handler[r].key[1] \in signed} :
        handler' = [handler EXCEPT ![r].st = "invite", ![r].known = known]
  BY DEF LookupUser
<1>1. known \in BOOLEAN
  <2> DEFINE a == ~bound.failing /\ handler[r].key[1] \in signed
             b == handler[r].key[1] \in signed
  <2>1. a \in BOOLEAN /\ b \in BOOLEAN
    OBVIOUS
  <2>2. known \in {a, b}
    BY <1>0, Zenon
  <2> HIDE DEF a, b
  <2> QED
    BY <2>1, <2>2
<1> DEFINE p == handler[r]
           q == [p EXCEPT !.st = "invite", !.known = known]
<1>2. p \in Call /\ Vouched(p) /\ p.st = "checked" /\ p.kind = "invite"
  BY DEF LookupUser, InState, MembershipInv, Calls
<1>3. q \in Call
  BY <1>1, <1>2 DEF Call
<1>4. /\ q.st = "invite" /\ q.kind = p.kind /\ q.by = p.by /\ q.t = p.t /\ q.key = p.key
      /\ q.role = p.role /\ q.mine = p.mine /\ q.since = p.since /\ q.want = p.want
  BY <1>2 DEF Call
<1>5. Vouched(q)
  BY <1>2, <1>3, <1>4 DEF Vouched
<1>6. handler' = [handler EXCEPT ![r] = q]
  BY <1>0 DEF MembershipInv, Calls, Call
<1>7. Calls'
  BY <1>5, <1>6, CallReplaced DEF MembershipInv
<1> QED
  BY <1>7, NoRowWritten DEF LookupUser, tables, MembershipInv

\* Reading the row that will be changed.
LEMMA ReadTargetGoverned ==
  ASSUME MembershipInv, UNCHANGED bound, NEW r \in Req, ReadTarget(r)
  PROVE  WellGoverned
<1> DEFINE p == handler[r]
           q == [p EXCEPT !.st = "read", !.seen = member[p.t][p.key]]
           n == IF Present(p.t, p.key) THEN q ELSE Idle
<1>1. p \in Call /\ Vouched(p) /\ p.st = "checked" /\ p.kind \in {"role", "remove"}
  BY DEF ReadTarget, MembershipInv, Calls
<1>2. p.t \in Tenant /\ p.key \in Key
  BY <1>1 DEF Vouched
<1>3. member[p.t][p.key] \in MemberRow
  BY <1>2 DEF MembershipInv, Rows
<1>4. q \in Call
  BY <1>1, <1>3 DEF Call
<1>5. /\ q.st = "read" /\ q.kind = p.kind /\ q.by = p.by /\ q.t = p.t /\ q.key = p.key
      /\ q.role = p.role /\ q.mine = p.mine /\ q.since = p.since /\ q.want = p.want
  BY <1>1 DEF Call
<1>6. Vouched(q)
  BY <1>1, <1>4, <1>5 DEF Vouched
<1>7. Vouched(n)
  BY <1>6, IdleIsVouched
<1>8. handler' = [handler EXCEPT ![r] = n]
  BY DEF ReadTarget
<1> HIDE DEF n
<1>9. Calls'
  BY <1>7, <1>8, CallReplaced DEF MembershipInv
<1> QED
  BY <1>9, NoRowWritten DEF ReadTarget, tables, MembershipInv

\* Owners are finitely many.
LEMMA OwnersCounted ==
  ASSUME TenantsAssumption, Rows, NEW t \in Tenant
  PROVE  Cardinality(Owners(t)) \in Nat
<1>1. IsFiniteSet({"user", "mail"})
  <2>1. IsFiniteSet({} \cup {"user"})
    BY FS_EmptySet, FS_AddElement
  <2>2. IsFiniteSet(({} \cup {"user"}) \cup {"mail"})
    BY <2>1, FS_AddElement
  <2>3. ({} \cup {"user"}) \cup {"mail"} = {"user", "mail"}
    OBVIOUS
  <2> QED
    BY <2>2, <2>3
<1>2. IsFiniteSet(Key)
  BY <1>1, FS_Product DEF TenantsAssumption, Key
<1>3. Owners(t) \subseteq Key
  BY DEF Owners
<1> QED
  BY <1>2, <1>3, FS_Subset, FS_CardinalityType

\* Counting the owners: a request goes on only if it is not the last one it changes.
LEMMA CountOwnersGoverned ==
  ASSUME TenantsAssumption, MembershipInv, UNCHANGED bound, NEW r \in Req, CountOwners(r)
  PROVE  WellGoverned
<1> DEFINE p == handler[r]
           n == Cardinality(Owners(p.t))
           w == [p EXCEPT !.st = "write"]
           c == [p EXCEPT !.st = "write", !.count = n]
           q == CASE ~Guarded(p) -> w
                  [] Guarded(p) /\ LastOwner(n) -> Idle
                  [] OTHER -> c
<1>1. p \in Call /\ Vouched(p) /\ p.st = "read"
  BY DEF CountOwners, MembershipInv, Calls
<1>2. p.t \in Tenant /\ p.kind # "accept"
  BY <1>1 DEF Vouched
<1>3. n \in Nat
  BY <1>2, OwnersCounted DEF MembershipInv
<1> HIDE DEF n
<1>4. w \in Call /\ c \in Call
  BY <1>1, <1>3 DEF Call
<1>5. /\ w.st = "write" /\ w.kind = p.kind /\ w.by = p.by /\ w.t = p.t /\ w.key = p.key
      /\ w.role = p.role /\ w.mine = p.mine /\ w.since = p.since /\ w.want = p.want
      /\ w.seen = p.seen
  BY <1>1 DEF Call
<1>6. /\ c.st = "write" /\ c.kind = p.kind /\ c.by = p.by /\ c.t = p.t /\ c.key = p.key
      /\ c.role = p.role /\ c.mine = p.mine /\ c.since = p.since /\ c.want = p.want
      /\ c.seen = p.seen /\ c.count = n
  BY <1>1 DEF Call
<1>7. ~Guarded(p) => Vouched(w)
  BY <1>1, <1>2, <1>4, <1>5 DEF Vouched, Guarded
<1>8. ~LastOwner(n) => Vouched(c)
  BY <1>1, <1>2, <1>4, <1>6 DEF Vouched
<1>9. Vouched(q)
  BY <1>7, <1>8, IdleIsVouched
<1>10. handler' = [handler EXCEPT ![r] = q]
  BY DEF CountOwners, n
<1> HIDE DEF q
<1>11. Calls'
  BY <1>9, <1>10, CallReplaced DEF MembershipInv
<1> QED
  BY <1>11, NoRowWritten DEF CountOwners, tables, MembershipInv

-----------------------------------------------------------------------------
(* Tenants: workspaces and tenant-scoped roles *)

\* A new slug.
LEMMA UpdateGoverned ==
  ASSUME MembershipInv, UNCHANGED bound, NEW r \in Req, NEW s \in Slug, Update(r, s)
  PROVE  WellGoverned
<1> DEFINE t == handler[r].t
<1>1. Calls'
  BY CallEnds DEF Update, MembershipInv
<1>2. Vouched(handler[r]) /\ handler[r].st # "idle"
  BY DEF Update, InState, MembershipInv, Calls
<1>3. t \in Tenant
  BY <1>2 DEF Vouched
<1>4. /\ tenant' \in [Tenant -> TenantRow]
      /\ \A x \in Tenant : Live(x)' => Live(x)
  BY <1>3 DEF Update, MembershipInv, Rows, TenantRow, Live
<1>5. GrantsExplained' /\ grants' \in SUBSET (Person \X Tenant)
  BY DEF Update, MembershipInv, GrantsExplained, Rows, history
<1> QED
  BY <1>1, <1>4, <1>5, MembersKept DEF Update, history

\* The end of a workspace.
LEMMA DeleteGoverned ==
  ASSUME MembershipInv, UNCHANGED bound, NEW r \in Req, Delete(r)
  PROVE  WellGoverned
<1> DEFINE t == handler[r].t
<1>1. Calls'
  BY CallEnds DEF Delete, MembershipInv
<1>2. Vouched(handler[r]) /\ handler[r].st # "idle"
  BY DEF Delete, InState, MembershipInv, Calls
<1>3. t \in Tenant
  BY <1>2 DEF Vouched
<1>4. /\ tenant' \in [Tenant -> TenantRow]
      /\ \A x \in Tenant : Live(x)' => Live(x)
  BY <1>3 DEF Delete, MembershipInv, Rows, TenantRow, Live
<1>5. GrantsExplained' /\ grants' \in SUBSET (Person \X Tenant)
  BY DEF Delete, MembershipInv, GrantsExplained, Rows, history
<1> QED
  BY <1>1, <1>4, <1>5, MembersKept DEF Delete, history

\* A role assigned to a member, or to a stranger who is remembered as one.
LEMMA AssignGoverned ==
  ASSUME MembershipInv, UNCHANGED bound, NEW r \in Req, AssignMemberRole(r)
  PROVE  WellGoverned
<1> DEFINE q == handler[r]
           g == <<q.key[1], q.t>>
<1>1. Calls'
  BY CallEnds DEF AssignMemberRole, MembershipInv
<1>2. Vouched(q) /\ q.st # "idle"
  BY DEF AssignMemberRole, InState, MembershipInv, Calls
<1>3. g \in Person \X Tenant
  BY <1>2 DEF Vouched, Key
<1>4. tenant' \in [Tenant -> TenantRow] /\ \A x \in Tenant : Live(x)' => Live(x)
  BY DEF AssignMemberRole, MembershipInv, Rows, Live
<1>5. grants' \in SUBSET (Person \X Tenant)
  BY <1>3 DEF AssignMemberRole, MembershipInv, Rows
<1>6. GrantsExplained'
  <2> SUFFICES ASSUME NEW h \in grants'
               PROVE  member[h[2]][Account(h[1])].accepted \/ h \in strangers' \/ h \in left
    BY DEF AssignMemberRole, GrantsExplained
  <2>1. CASE h \in grants
    BY <2>1 DEF AssignMemberRole, MembershipInv, GrantsExplained
  <2>2. CASE h \notin grants
    <3>1. h = g
      BY <2>2 DEF AssignMemberRole
    <3>2. h[1] = q.key[1] /\ h[2] = q.t
      BY <3>1
    <3> QED
      BY <2>2, <3>1, <3>2 DEF AssignMemberRole
  <2> QED
    BY <2>1, <2>2
<1> QED
  BY <1>1, <1>4, <1>5, <1>6, MembersKept DEF AssignMemberRole

\* A role taken away.
LEMMA UnassignGoverned ==
  ASSUME MembershipInv, UNCHANGED bound, NEW r \in Req, UnassignMemberRole(r)
  PROVE  WellGoverned
<1>1. Calls'
  BY CallEnds DEF UnassignMemberRole, MembershipInv
<1>2. tenant' \in [Tenant -> TenantRow] /\ \A x \in Tenant : Live(x)' => Live(x)
  BY DEF UnassignMemberRole, MembershipInv, Rows, Live
<1>3. GrantsExplained' /\ grants' \in SUBSET (Person \X Tenant)
  BY DEF UnassignMemberRole, MembershipInv, GrantsExplained, Rows, history
<1> QED
  BY <1>1, <1>2, <1>3, MembersKept DEF UnassignMemberRole, history

-----------------------------------------------------------------------------
(* Tenants: writing rows *)

\* Rows of users and of invitations are different rows.
LEMMA KeysDiffer ==
  ASSUME NEW u \in Person, NEW v \in Person
  PROVE  /\ Account(u) \in Key /\ pendingUserID(u) \in Key
         /\ Account(u) # pendingUserID(v)
         /\ Account(u) = Account(v) => u = v
BY DEF Account, pendingUserID, Key

\* Every row is one or the other.
LEMMA KeyIsEither ==
  ASSUME NEW k \in Key
  PROVE  k[1] \in Person /\ (k = Account(k[1]) \/ k = pendingUserID(k[1]))
BY DEF Account, pendingUserID, Key

\* What writing one row leaves as it was.
LEMMA OneRowWritten ==
  ASSUME Rows, NEW t \in Tenant, NEW k \in Key, NEW row \in MemberRow,
         member' = [member EXCEPT ![t][k] = row]
  PROVE  /\ member' \in [Tenant -> [Key -> MemberRow]]
         /\ \A x \in Tenant \ {t} : member'[x] = member[x]
         /\ \A j \in Key : member'[t][j] = IF j = k THEN row ELSE member[t][j]
<1>1. member \in [Tenant -> [Key -> MemberRow]] /\ member[t] \in [Key -> MemberRow]
  BY DEF Rows
<1> DEFINE m == [member[t] EXCEPT ![k] = row]
<1>2. m \in [Key -> MemberRow] /\ \A j \in Key : m[j] = IF j = k THEN row ELSE member[t][j]
  BY <1>1
<1>3. member' = [member EXCEPT ![t] = m]
  BY <1>1
<1> HIDE DEF m
<1> QED
  BY <1>1, <1>2, <1>3

\* The invariant after a step that writes membership rows: an owner stays, or the
\* guards are known to have overlapped; who had a role is a member still or left.
LEMMA RowsWritten ==
  ASSUME MembershipInv, Calls', UNCHANGED <<bound, signed, tenant, grants>>,
         member' \in [Tenant -> [Key -> MemberRow]],
         \A t \in Tenant, u \in Person : ~member'[t][pendingUserID(u)].accepted,
         \A t \in Tenant : Live(t) /\ Owners(t) # {} => Owners(t)' # {} \/ t \in overlap',
         overlap \subseteq overlap', strangers' = strangers, left \subseteq left',
         \A g \in grants : member[g[2]][Account(g[1])].accepted =>
             member'[g[2]][Account(g[1])].accepted \/ g \in left'
  PROVE  MembershipInv'
<1>1. OwnerRemains'
  BY DEF MembershipInv, OwnerRemains, Live
<1>2. GrantsExplained'
  BY DEF MembershipInv, GrantsExplained
<1> QED
  BY <1>1, <1>2 DEF MembershipInv, Rows, PendingStays

\* A request under way may change the rows of its tenant, even of a deleted one.
LEMMA LetInEarlier ==
  ASSUME MembershipInv, NEW r \in Req, handler[r].st # "idle",
         \A x \in Tenant \ {handler[r].t} : member'[x] = member[x]
  PROVE  DeletedIsQuiet
BY DEF MembershipInv, Calls, Vouched, DeletedIsQuiet

\* The end of a request that is not an acceptance takes up no invitation.
LEMMA NothingTakenUp ==
  ASSUME MembershipInv, NEW r \in Req, Finish(r), handler[r].kind # "accept"
  PROVE  InviteHonoured
<1>1. \A x \in Req : handler'[x] = IF x = r THEN Idle ELSE handler[x]
  BY CallEnds DEF MembershipInv
<1>2. \A x \in Req : ~(handler[x].kind = "accept" /\ handler'[x] = Idle)
  BY <1>1 DEF Idle
<1> QED
  BY <1>2 DEF InviteHonoured, TakesUp

\* A new workspace has its creator as owner.
LEMMA CreateGoverned ==
  ASSUME MembershipInv, UNCHANGED bound, NEW u \in Person, NEW t \in Tenant, NEW s \in Slug,
         Create(u, t, s)
  PROVE  WellGoverned
<1> DEFINE k == Account(u)
           row == Row("owner", TRUE)
<1>1. k \in Key /\ row \in MemberRow
  BY KeysDiffer DEF Row, MemberRow, Role
<1>2. /\ member' \in [Tenant -> [Key -> MemberRow]]
      /\ \A x \in Tenant \ {t} : member'[x] = member[x]
      /\ \A j \in Key : member'[t][j] = IF j = k THEN row ELSE member[t][j]
  BY <1>1, OneRowWritten DEF Create, MembershipInv
<1>3. /\ tenant' \in [Tenant -> TenantRow] /\ tenant[t].st = "none"
      /\ \A x \in Tenant \ {t} : tenant'[x] = tenant[x]
  BY DEF Create, MembershipInv, Rows, TenantRow
<1>4. k \in Owners(t)'
  BY <1>1, <1>2 DEF Owners
<1>5. \A x \in Tenant \ {t} : Owners(x)' = Owners(x)
  BY <1>2 DEF Owners
<1>6. OwnerRemains'
  BY <1>3, <1>4, <1>5 DEF MembershipInv, OwnerRemains, Live, Create, history
<1>7. PendingStays'
  <2>1. \A v \in Person : pendingUserID(v) \in Key /\ pendingUserID(v) # k
    BY KeysDiffer
  <2> QED
    BY <1>2, <2>1 DEF MembershipInv, PendingStays, pendingUserID
<1>8. GrantsExplained'
  <2> SUFFICES ASSUME NEW g \in grants
               PROVE  member'[g[2]][Account(g[1])].accepted \/ g \in strangers \/ g \in left
    BY DEF Create, GrantsExplained, history, Account
  <2>1. g[1] \in Person /\ g[2] \in Tenant
    BY DEF MembershipInv, Rows
  <2>2. Account(g[1]) \in Key
    BY <2>1, KeysDiffer
  <2>3. row.accepted
    BY DEF Row
  <2>4. member[g[2]][Account(g[1])].accepted \/ g \in strangers \/ g \in left
    BY DEF MembershipInv, GrantsExplained
  <2> QED
    BY <1>2, <2>1, <2>2, <2>3, <2>4
<1>9. Calls'
  BY DEF Create, MembershipInv, Calls, Vouched, Guarded, LastOwner
<1>10. MembershipInv'
  BY <1>2, <1>3, <1>6, <1>7, <1>8, <1>9 DEF MembershipInv, Rows, Create
<1>11. InviteHonoured
  BY DEF InviteHonoured, TakesUp, Create, MembershipInv, Calls, Vouched, Idle
<1>12. DeletedIsQuiet
  BY <1>2, <1>3 DEF DeletedIsQuiet
<1>13. OwnersMakeOwners
  BY <1>2, <1>3 DEF OwnersMakeOwners
<1> QED
  BY <1>10, <1>11, <1>12, <1>13 DEF WellGoverned

\* A user who is known becomes a member at once.
LEMMA InviteDirectGoverned ==
  ASSUME MembershipInv, UNCHANGED bound, NEW r \in Req, InviteDirect(r)
  PROVE  WellGoverned
<1> DEFINE q == handler[r]
           k == Account(q.key[1])
           row == Row(q.role, TRUE)
<1>1. Calls'
  BY CallEnds DEF InviteDirect, MembershipInv
<1>2. q \in Call /\ Vouched(q) /\ q.st = "invite" /\ q.kind = "invite"
  BY DEF InviteDirect, InState, MembershipInv, Calls
<1>3. q.t \in Tenant /\ q.key[1] \in Person /\ k \in Key
  BY <1>2, KeyIsEither, KeysDiffer DEF Vouched
<1>4. CASE Present(q.t, k)
  <2>1. member' = member
    BY <1>4 DEF InviteDirect
  <2>2. /\ tenant' \in [Tenant -> TenantRow] /\ \A x \in Tenant : Live(x)' => Live(x)
        /\ grants' \in SUBSET (Person \X Tenant)
    BY DEF InviteDirect, MembershipInv, Rows, Live
  <2>3. GrantsExplained' /\ overlap' = overlap /\ signed' = signed
    BY <2>1 DEF InviteDirect, MembershipInv, GrantsExplained, history
  <2> QED
    BY <1>1, <2>1, <2>2, <2>3, MembersKept
<1>5. CASE ~Present(q.t, k)
  <2>1. member' = [member EXCEPT ![q.t][k] = row]
    BY <1>5 DEF InviteDirect
  <2>2. row \in MemberRow
    BY <1>2 DEF Call, Row, MemberRow
  <2>3. /\ member' \in [Tenant -> [Key -> MemberRow]]
        /\ \A x \in Tenant \ {q.t} : member'[x] = member[x]
        /\ \A j \in Key : member'[q.t][j] = IF j = k THEN row ELSE member[q.t][j]
    BY <1>3, <2>1, <2>2, OneRowWritten DEF MembershipInv
  <2>4. member[q.t][k] = NoRow
    BY <1>5 DEF Present
  <2>5. \A t \in Tenant, u \in Person : ~member'[t][pendingUserID(u)].accepted
    <3>1. \A u \in Person : pendingUserID(u) \in Key /\ pendingUserID(u) # k
      BY <1>3, KeysDiffer
    <3> QED
      BY <2>3, <3>1 DEF MembershipInv, PendingStays
  <2>6. \A t \in Tenant : Owners(t) \subseteq Owners(t)'
    BY <1>3, <2>3, <2>4 DEF Owners, Row, NoRow
  <2>7. \A g \in grants : member[g[2]][Account(g[1])].accepted =>
            member'[g[2]][Account(g[1])].accepted
    <3>1. row.accepted
      BY DEF Row
    <3>2. \A g \in grants : g[1] \in Person /\ g[2] \in Tenant /\ Account(g[1]) \in Key
      BY KeysDiffer DEF MembershipInv, Rows
    <3> QED
      BY <2>3, <3>1, <3>2
  <2>8. MembershipInv'
    BY <1>1, <2>3, <2>5, <2>6, <2>7, RowsWritten DEF InviteDirect, history
  <2>9. DeletedIsQuiet
    BY <1>2, <2>3, LetInEarlier
  <2>10. InviteHonoured
    BY <1>2, NothingTakenUp DEF InviteDirect
  <2>11. OwnersMakeOwners
    BY <1>2, <1>3, <2>3 DEF OwnersMakeOwners, Vouched, Row
  <2> QED
    BY <2>8, <2>9, <2>10, <2>11 DEF WellGoverned
<1> QED
  BY <1>4, <1>5

\* An address gets an invitation.
LEMMA InvitePendingGoverned ==
  ASSUME MembershipInv, UNCHANGED bound, NEW r \in Req, InvitePending(r)
  PROVE  WellGoverned
<1> DEFINE q == handler[r]
           k == pendingUserID(q.key[1])
           row == Row(q.role, FALSE)
<1>1. Calls'
  BY CallEnds DEF InvitePending, MembershipInv
<1>2. q \in Call /\ Vouched(q) /\ q.st = "invite" /\ q.kind = "invite"
  BY DEF InvitePending, InState, MembershipInv, Calls
<1>3. q.t \in Tenant /\ q.key[1] \in Person /\ k \in Key
  BY <1>2, KeyIsEither, KeysDiffer DEF Vouched
<1>4. row \in MemberRow /\ ~row.accepted /\ row.role = q.role
  BY <1>2 DEF Call, Row, MemberRow
<1>5. /\ member' \in [Tenant -> [Key -> MemberRow]]
      /\ \A x \in Tenant \ {q.t} : member'[x] = member[x]
      /\ \A j \in Key : member'[q.t][j] = IF j = k THEN row ELSE member[q.t][j]
  BY <1>3, <1>4, OneRowWritten DEF InvitePending, MembershipInv
<1>6. ~member[q.t][k].accepted
  BY <1>3 DEF MembershipInv, PendingStays
<1>7. \A t \in Tenant, u \in Person : ~member'[t][pendingUserID(u)].accepted
  <2>1. \A u \in Person : pendingUserID(u) \in Key
    BY KeysDiffer
  <2> QED
    BY <1>4, <1>5, <2>1 DEF MembershipInv, PendingStays
<1>8. \A t \in Tenant : Owners(t) \subseteq Owners(t)'
  BY <1>3, <1>5, <1>6 DEF Owners, Row
<1>9. \A g \in grants : member[g[2]][Account(g[1])].accepted =>
          member'[g[2]][Account(g[1])].accepted
  <2>1. \A g \in grants : g[1] \in Person /\ g[2] \in Tenant /\ Account(g[1]) \in Key
    BY KeysDiffer DEF MembershipInv, Rows
  <2> QED
    BY <1>5, <1>6, <2>1
<1>10. MembershipInv'
  BY <1>1, <1>5, <1>7, <1>8, <1>9, RowsWritten DEF InvitePending, history
<1>11. DeletedIsQuiet
  BY <1>2, <1>5, LetInEarlier
<1>12. InviteHonoured
  BY <1>2, NothingTakenUp DEF InvitePending
<1>13. OwnersMakeOwners
  BY <1>2, <1>3, <1>4, <1>5 DEF OwnersMakeOwners, Vouched
<1> QED
  BY <1>10, <1>11, <1>12, <1>13 DEF WellGoverned

\* A guard that decided on the rows as they still are leaves an owner: it counted
\* more than the one row it changes.
LEMMA AnotherOwner ==
  ASSUME MembershipInv, NEW r \in Req, handler[r].st = "write", ~Outdated(handler[r]),
         Guarded(handler[r]), handler[r].key \in Owners(handler[r].t)
  PROVE  \E k \in Owners(handler[r].t) : k # handler[r].key
<1> DEFINE q == handler[r]
<1>1. ~LastOwner(q.count)
  BY DEF MembershipInv, Calls, Vouched
<1>2. Cardinality(Owners(q.t)) = q.count
  BY DEF Outdated
<1>3. SUFFICES ASSUME \A k \in Owners(q.t) : k = q.key
               PROVE  FALSE
  OBVIOUS
<1>4. Owners(q.t) = {q.key}
  BY <1>3
<1>5. Cardinality(Owners(q.t)) = 1
  BY <1>4, FS_Singleton
<1> QED
  BY <1>1, <1>2, <1>5 DEF LastOwner

\* A request about to change a member's row.
LEMMA WriterKnown ==
  ASSUME MembershipInv, NEW r \in Req, handler[r].st = "write"
  PROVE  /\ handler[r] \in Call /\ handler[r].t \in Tenant /\ handler[r].key \in Key
         /\ handler[r].kind # "accept" /\ Vouched(handler[r])
         /\ member[handler[r].t] \in [Key -> MemberRow]
BY DEF MembershipInv, Calls, Vouched, Rows

\* Another role: the last owner is demoted only when guards overlapped.
LEMMA UpdateMemberGoverned ==
  ASSUME MembershipInv, UNCHANGED bound, NEW r \in Req, UpdateMemberRole(r)
  PROVE  WellGoverned
<1> DEFINE q == handler[r]
           k == q.key
           old == member[q.t][k]
           row == [old EXCEPT !.role = q.role]
<1>1. Calls'
  BY CallEnds DEF UpdateMemberRole, MembershipInv
<1>2. q.st = "write" /\ q.kind = "role"
  BY DEF UpdateMemberRole, InState
<1>3. q \in Call /\ q.t \in Tenant /\ k \in Key /\ Vouched(q) /\ old \in MemberRow
  BY <1>2, WriterKnown
<1>4. CASE ~Present(q.t, k)
  <2>1. member' = member /\ overlap' = overlap
    BY <1>4 DEF UpdateMemberRole
  <2>2. /\ tenant' \in [Tenant -> TenantRow] /\ \A x \in Tenant : Live(x)' => Live(x)
        /\ grants' \in SUBSET (Person \X Tenant)
    BY DEF UpdateMemberRole, MembershipInv, Rows, Live
  <2>3. GrantsExplained' /\ signed' = signed
    BY <2>1 DEF UpdateMemberRole, MembershipInv, GrantsExplained
  <2> QED
    BY <1>1, <2>1, <2>2, <2>3, MembersKept
<1>5. CASE Present(q.t, k)
  <2>1. member' = [member EXCEPT ![q.t][k] = row] /\ NowOverlapping(q)
    BY <1>3, <1>5 DEF UpdateMemberRole, MembershipInv, Rows
  <2>2. row \in MemberRow /\ row.accepted = old.accepted /\ row.role = q.role
    BY <1>3 DEF Call, MemberRow
  <2>3. /\ member' \in [Tenant -> [Key -> MemberRow]]
        /\ \A x \in Tenant \ {q.t} : member'[x] = member[x]
        /\ \A j \in Key : member'[q.t][j] = IF j = k THEN row ELSE member[q.t][j]
    BY <1>3, <2>1, <2>2, OneRowWritten DEF MembershipInv
  <2>4. \A t \in Tenant, u \in Person : ~member'[t][pendingUserID(u)].accepted
    <3>1. \A u \in Person : pendingUserID(u) \in Key
      BY KeysDiffer
    <3> QED
      BY <2>2, <2>3, <3>1 DEF MembershipInv, PendingStays
  <2>5. overlap \subseteq overlap' /\ (Outdated(q) => q.t \in overlap')
    BY <2>1 DEF NowOverlapping
  <2>6. \A t \in Tenant : Live(t) /\ Owners(t) # {} => Owners(t)' # {} \/ t \in overlap'
    <3> SUFFICES ASSUME NEW t \in Tenant, NEW j \in Owners(t), t \notin overlap'
                 PROVE  Owners(t)' # {}
      OBVIOUS
    <3>1. CASE t # q.t
      BY <2>3, <3>1 DEF Owners
    <3>2. CASE t = q.t /\ k \notin Owners(t)
      <4>1. j \in Key /\ j # k /\ member[t][j] = Row("owner", TRUE)
        BY <3>2 DEF Owners
      <4> QED
        BY <2>3, <3>2, <4>1 DEF Owners
    <3>3. CASE t = q.t /\ k \in Owners(t)
      <4>1. ~Outdated(q)
        BY <2>5, <3>3
      <4>2. old = Row("owner", TRUE) /\ q.seen = old
        BY <3>3, <4>1 DEF Owners, Outdated
      <4>3. CASE q.role = "owner"
        <5>1. row = Row("owner", TRUE)
          BY <4>2, <4>3 DEF Row
        <5> QED
          BY <1>3, <2>3, <3>3, <5>1 DEF Owners
      <4>4. CASE q.role # "owner"
        <5>1. Guarded(q)
          BY <1>2, <4>2, <4>4 DEF Guarded, Row
        <5>2. PICK i \in Owners(q.t) : i # k
          BY <1>2, <3>3, <4>1, <5>1, AnotherOwner
        <5>3. i \in Key /\ member[q.t][i] = Row("owner", TRUE)
          BY <5>2 DEF Owners
        <5> QED
          BY <2>3, <3>3, <5>2, <5>3 DEF Owners
      <4> QED
        BY <4>3, <4>4
    <3> QED
      BY <3>1, <3>2, <3>3
  <2>7. \A g \in grants : member[g[2]][Account(g[1])].accepted =>
            member'[g[2]][Account(g[1])].accepted
    <3>1. \A g \in grants : g[1] \in Person /\ g[2] \in Tenant /\ Account(g[1]) \in Key
      BY KeysDiffer DEF MembershipInv, Rows
    <3> QED
      BY <2>2, <2>3, <3>1
  <2>8. MembershipInv'
    BY <1>1, <2>3, <2>4, <2>5, <2>6, <2>7, RowsWritten DEF UpdateMemberRole
  <2>9. DeletedIsQuiet
    BY <1>2, <2>3, LetInEarlier
  <2>10. InviteHonoured
    BY <1>2, NothingTakenUp DEF UpdateMemberRole
  <2>11. OwnersMakeOwners
    <3> SUFFICES ASSUME NEW t \in Tenant, NEW j \in Key,
                        member'[t][j].role = "owner", member[t][j].role # "owner"
                 PROVE  t = q.t /\ q.mine = "owner"
      BY DEF OwnersMakeOwners
    <3>1. t = q.t /\ j = k
      BY <2>3
    <3>2. q.role = "owner"
      BY <1>3, <2>2, <2>3, <3>1
    <3> QED
      BY <1>2, <1>3, <3>1, <3>2 DEF Vouched
  <2> QED
    BY <2>8, <2>9, <2>10, <2>11 DEF WellGoverned
<1> QED
  BY <1>4, <1>5

\* A removal: likewise, and whoever had roles is known to have left.
LEMMA RemoveGoverned ==
  ASSUME MembershipInv, UNCHANGED bound, NEW r \in Req, RemoveMember(r)
  PROVE  WellGoverned
<1> DEFINE q == handler[r]
           k == q.key
           u == k[1]
           old == member[q.t][k]
<1>1. Calls'
  BY CallEnds DEF RemoveMember, MembershipInv
<1>2. q.st = "write" /\ q.kind = "remove"
  BY DEF RemoveMember, InState
<1>3. q \in Call /\ q.t \in Tenant /\ k \in Key /\ Vouched(q) /\ old \in MemberRow
  BY <1>2, WriterKnown
<1>4. CASE ~Present(q.t, k)
  <2>1. member' = member /\ overlap' = overlap /\ left' = left
    BY <1>4 DEF RemoveMember
  <2>2. /\ tenant' \in [Tenant -> TenantRow] /\ \A x \in Tenant : Live(x)' => Live(x)
        /\ grants' \in SUBSET (Person \X Tenant)
    BY DEF RemoveMember, MembershipInv, Rows, Live
  <2>3. GrantsExplained' /\ signed' = signed
    BY <2>1 DEF RemoveMember, MembershipInv, GrantsExplained
  <2> QED
    BY <1>1, <2>1, <2>2, <2>3, MembersKept
<1>5. CASE Present(q.t, k)
  <2>1. member' = [member EXCEPT ![q.t][k] = NoRow] /\ NowOverlapping(q)
    BY <1>5 DEF RemoveMember
  <2>2. NoRow \in MemberRow /\ ~NoRow.accepted /\ NoRow.role = "none"
    BY DEF NoRow, MemberRow
  <2>3. /\ member' \in [Tenant -> [Key -> MemberRow]]
        /\ \A x \in Tenant \ {q.t} : member'[x] = member[x]
        /\ \A j \in Key : member'[q.t][j] = IF j = k THEN NoRow ELSE member[q.t][j]
    BY <1>3, <2>1, <2>2, OneRowWritten DEF MembershipInv
  <2>4. \A t \in Tenant, v \in Person : ~member'[t][pendingUserID(v)].accepted
    <3>1. \A v \in Person : pendingUserID(v) \in Key
      BY KeysDiffer
    <3> QED
      BY <2>2, <2>3, <3>1 DEF MembershipInv, PendingStays
  <2>5. overlap \subseteq overlap' /\ (Outdated(q) => q.t \in overlap')
    BY <2>1 DEF NowOverlapping
  <2>6. \A t \in Tenant : Live(t) /\ Owners(t) # {} => Owners(t)' # {} \/ t \in overlap'
    <3> SUFFICES ASSUME NEW t \in Tenant, NEW j \in Owners(t), t \notin overlap'
                 PROVE  Owners(t)' # {}
      OBVIOUS
    <3>1. CASE t # q.t
      BY <2>3, <3>1 DEF Owners
    <3>2. CASE t = q.t /\ k \notin Owners(t)
      <4>1. j \in Key /\ j # k /\ member[t][j] = Row("owner", TRUE)
        BY <3>2 DEF Owners
      <4> QED
        BY <2>3, <3>2, <4>1 DEF Owners
    <3>3. CASE t = q.t /\ k \in Owners(t)
      <4>1. ~Outdated(q)
        BY <2>5, <3>3
      <4>2. old = Row("owner", TRUE) /\ q.seen = old
        BY <3>3, <4>1 DEF Owners, Outdated
      <4>3. Guarded(q)
        BY <1>2, <4>2 DEF Guarded
      <4>4. PICK i \in Owners(q.t) : i # k
        BY <1>2, <3>3, <4>1, <4>3, AnotherOwner
      <4>5. i \in Key /\ member[q.t][i] = Row("owner", TRUE)
        BY <4>4 DEF Owners
      <4> QED
        BY <2>3, <3>3, <4>4, <4>5 DEF Owners
    <3> QED
      BY <3>1, <3>2, <3>3
  <2>7. left \subseteq left' /\ (k = Account(u) /\ <<u, q.t>> \in grants => <<u, q.t>> \in left')
    BY <1>5 DEF RemoveMember
  <2>8. \A g \in grants : member[g[2]][Account(g[1])].accepted =>
            member'[g[2]][Account(g[1])].accepted \/ g \in left'
    <3> SUFFICES ASSUME NEW g \in grants, member[g[2]][Account(g[1])].accepted
                 PROVE  member'[g[2]][Account(g[1])].accepted \/ g \in left'
      OBVIOUS
    <3>1. g[1] \in Person /\ g[2] \in Tenant /\ Account(g[1]) \in Key /\ g = <<g[1], g[2]>>
      BY KeysDiffer DEF MembershipInv, Rows
    <3>2. CASE g[2] = q.t /\ Account(g[1]) = k
      <4>1. u = g[1]
        BY <3>2 DEF Account
      <4> QED
        BY <2>7, <3>1, <3>2, <4>1
    <3>3. CASE ~(g[2] = q.t /\ Account(g[1]) = k)
      BY <2>3, <3>1, <3>3
    <3> QED
      BY <3>2, <3>3
  <2>9. MembershipInv'
    BY <1>1, <2>3, <2>4, <2>5, <2>6, <2>7, <2>8, RowsWritten DEF RemoveMember
  <2>10. DeletedIsQuiet
    BY <1>2, <2>3, LetInEarlier
  <2>11. InviteHonoured
    BY <1>2, NothingTakenUp DEF RemoveMember
  <2>12. OwnersMakeOwners
    BY <2>2, <2>3 DEF OwnersMakeOwners
  <2> QED
    BY <2>9, <2>10, <2>11, <2>12 DEF WellGoverned
<1> QED
  BY <1>4, <1>5

\* An acceptance takes nothing from anybody and gives what was read.
LEMMA AcceptWriteGoverned ==
  ASSUME MembershipInv, UNCHANGED bound, NEW r \in Req, AcceptWrite(r)
  PROVE  WellGoverned
<1> DEFINE q == handler[r]
           k == Account(q.by)
           m == q.key
           row == Row(q.seen.role, TRUE)
<1>1. Calls' /\ \A x \in Req : handler'[x] = IF x = r THEN Idle ELSE handler[x]
  BY CallEnds DEF AcceptWrite, MembershipInv
<1>2. q \in Call /\ Vouched(q) /\ q.st = "selected" /\ q.kind = "accept"
  BY DEF AcceptWrite, InState, MembershipInv, Calls
<1>3. /\ q.t \in Tenant /\ q.by \in Person /\ m = pendingUserID(q.by)
      /\ q.want \in {Nil, q.t}
  BY <1>2 DEF Vouched
<1>4. k \in Key /\ m \in Key /\ k # m
  BY <1>3, KeysDiffer
<1>5. row \in MemberRow /\ row.accepted /\ row.role = q.seen.role
  BY <1>2 DEF Call, MemberRow, Row
<1>6. NoRow \in MemberRow /\ ~NoRow.accepted /\ NoRow.role = "none"
  BY DEF NoRow, MemberRow
<1>7. CASE Present(q.t, k)
  <2>1. member' = member
    BY <1>7 DEF AcceptWrite
  <2>2. /\ tenant' \in [Tenant -> TenantRow] /\ \A x \in Tenant : Live(x)' => Live(x)
        /\ grants' \in SUBSET (Person \X Tenant)
    BY DEF AcceptWrite, MembershipInv, Rows, Live
  <2>3. GrantsExplained' /\ signed' = signed /\ overlap' = overlap
    BY <2>1 DEF AcceptWrite, MembershipInv, GrantsExplained
  <2> QED
    BY <1>1, <2>1, <2>2, <2>3, MembersKept
<1>8. CASE ~Present(q.t, k)
  <2>1. /\ member' = [member EXCEPT ![q.t][m] = NoRow, ![q.t][k] = row]
        /\ stale' = IF member[q.t][m] = q.seen THEN stale ELSE stale \cup {<<q.t, q.by>>}
    BY <1>8 DEF AcceptWrite
  <2>2. /\ member' \in [Tenant -> [Key -> MemberRow]]
        /\ \A x \in Tenant \ {q.t} : member'[x] = member[x]
        /\ \A j \in Key : member'[q.t][j] =
               IF j = k THEN row ELSE IF j = m THEN NoRow ELSE member[q.t][j]
    <3> DEFINE f == [[member[q.t] EXCEPT ![m] = NoRow] EXCEPT ![k] = row]
    <3>1. member \in [Tenant -> [Key -> MemberRow]] /\ member[q.t] \in [Key -> MemberRow]
      BY <1>3 DEF MembershipInv, Rows
    <3>2. /\ f \in [Key -> MemberRow]
          /\ \A j \in Key : f[j] = IF j = k THEN row ELSE IF j = m THEN NoRow ELSE member[q.t][j]
      BY <1>4, <1>5, <1>6, <3>1
    <3>3. member' = [member EXCEPT ![q.t] = f]
      BY <1>3, <1>4, <2>1, <3>1
    <3> HIDE DEF f
    <3> QED
      BY <1>3, <3>1, <3>2, <3>3
  <2>3. member[q.t][k] = NoRow /\ ~member[q.t][m].accepted
    BY <1>3, <1>8 DEF Present, MembershipInv, PendingStays
  <2>4. \A t \in Tenant, u \in Person : ~member'[t][pendingUserID(u)].accepted
    <3>1. \A u \in Person : pendingUserID(u) \in Key /\ pendingUserID(u) # k
      BY <1>3, KeysDiffer
    <3>2. \A t \in Tenant, u \in Person : ~member[t][pendingUserID(u)].accepted
      BY DEF MembershipInv, PendingStays
    <3>3. \A u \in Person : ~member'[q.t][pendingUserID(u)].accepted
      BY <1>3, <1>6, <2>2, <3>1, <3>2
    <3> QED
      BY <2>2, <3>2, <3>3
  <2>5. \A t \in Tenant : Owners(t) \subseteq Owners(t)'
    <3> SUFFICES ASSUME NEW t \in Tenant, NEW j \in Owners(t)
                 PROVE  j \in Owners(t)'
      OBVIOUS
    <3>1. j \in Key /\ member[t][j] = Row("owner", TRUE)
      BY DEF Owners
    <3>2. t = q.t => j # k /\ j # m
      BY <2>3, <3>1 DEF Row, NoRow
    <3>3. member'[t][j] = member[t][j]
      BY <2>2, <3>1, <3>2
    <3> QED
      BY <3>1, <3>3 DEF Owners
  <2>6. \A g \in grants : member[g[2]][Account(g[1])].accepted =>
            member'[g[2]][Account(g[1])].accepted
    <3>1. \A g \in grants : /\ g[1] \in Person /\ g[2] \in Tenant
                            /\ Account(g[1]) \in Key /\ Account(g[1]) # m
      BY <1>3, KeysDiffer DEF MembershipInv, Rows
    <3> QED
      BY <1>5, <2>2, <3>1
  <2>7. MembershipInv'
    BY <1>1, <2>2, <2>4, <2>5, <2>6, RowsWritten DEF AcceptWrite
  <2>8. DeletedIsQuiet
    BY <1>2, <2>2, LetInEarlier
  <2>9. InviteHonoured
    <3> SUFFICES ASSUME NEW t \in Tenant, NEW u \in Person, NEW s \in Req, TakesUp(s, t, u)
                 PROVE  /\ handler[s].want \in {Nil, t}
                        /\ \/ <<t, u>> \in stale'
                           \/ member'[t][Account(u)].role = member[t][pendingUserID(u)].role
      BY DEF InviteHonoured
    <3>1. s = r /\ u = q.by
      <4>1. handler[s].kind = "accept" /\ handler'[s] = Idle /\ handler[s].by = u
        BY DEF TakesUp
      <4>2. Idle.kind # "accept"
        BY DEF Idle
      <4>3. s # r => handler'[s] = handler[s]
        BY <1>1
      <4> QED
        BY <4>1, <4>2, <4>3
    <3>2. t = q.t
      <4>1. member'[t][Account(u)] # member[t][Account(u)]
        BY DEF TakesUp
      <4> QED
        BY <2>2, <4>1
    <3>3. member'[t][k] = row
      BY <1>4, <2>2, <3>2
    <3>4. member[q.t][m] # q.seen => <<t, u>> \in stale'
      BY <2>1, <3>1, <3>2
    <3> QED
      BY <1>3, <1>5, <3>1, <3>2, <3>3, <3>4
  <2>10. OwnersMakeOwners
    <3> SUFFICES ASSUME NEW t \in Tenant, NEW j \in Key,
                        member'[t][j].role = "owner", member[t][j].role # "owner"
                 PROVE  t = q.t /\ q.seen.role = "owner"
      BY <1>2 DEF OwnersMakeOwners
    <3> QED
      BY <1>4, <1>5, <1>6, <2>2
  <2> QED
    BY <2>7, <2>8, <2>9, <2>10 DEF WellGoverned
<1> QED
  BY <1>7, <1>8

-----------------------------------------------------------------------------
(* Tenants: every behaviour *)

\* Empty tables are governed.
LEMMA MembershipBegins == TenantsInit => MembershipInv
<1> SUFFICES ASSUME TenantsInit PROVE MembershipInv
  OBVIOUS
<1>1. bound \in Instance /\ signed \in SUBSET Person
  BY TenantsAssumption DEF TenantsInit, Instance
<1>2. Rows
  BY DEF TenantsInit, Rows, TenantRow, MemberRow, NoRow
<1>3. Calls
  BY IdleIsVouched DEF TenantsInit, Calls, Vouched
<1>4. PendingStays
  BY KeysDiffer DEF TenantsInit, PendingStays, NoRow
<1>5. OwnerRemains /\ GrantsExplained
  BY DEF TenantsInit, OwnerRemains, GrantsExplained, Live
<1> QED
  BY <1>1, <1>2, <1>3, <1>4, <1>5 DEF MembershipInv

\* Every step of a request.
LEMMA HandleGoverned ==
  ASSUME TenantsAssumption, MembershipInv, UNCHANGED bound, NEW r \in Req, Handle(r)
  PROVE  WellGoverned
<1>1. bound.users \in SUBSET Person /\ bound.tenants \in SUBSET Tenant
  BY DEF MembershipInv, Instance
<1>2. \A v \in Person : Account(v) \in Key /\ pendingUserID(v) \in Key
  BY KeysDiffer
<1>3. ASSUME NEW kind \in Kind, NEW u \in Person, NEW t \in Tenant, NEW key \in Key,
             NEW role \in Role \cup {"none"}, Begin(r, kind, u, t, key, role)
      PROVE  WellGoverned
  BY <1>3, BeginGoverned
<1>4. CASE \E kind \in {"update", "delete"}, u \in bound.users, t \in bound.tenants :
             Begin(r, kind, u, t, Account(u), "none")
  BY <1>1, <1>2, <1>3, <1>4 DEF Kind
<1>5. CASE \E kind \in {"invite", "role"}, u, v \in bound.users, t \in bound.tenants,
             role \in Role : \E k \in {Account(v), pendingUserID(v)} :
               /\ kind = "invite" => k = Account(v)
               /\ Begin(r, kind, u, t, k, role)
  BY <1>1, <1>2, <1>3, <1>5 DEF Kind
<1>6. CASE \E u, v \in bound.users, t \in bound.tenants :
             \E k \in {Account(v), pendingUserID(v)} : Begin(r, "remove", u, t, k, "none")
  BY <1>1, <1>2, <1>3, <1>6 DEF Kind
<1>7. CASE \E kind \in {"assign", "unassign"}, u, v \in bound.users, t \in bound.tenants :
             Begin(r, kind, u, t, Account(v), "none")
  BY <1>1, <1>2, <1>3, <1>7 DEF Kind
<1>8. CASE \E u \in bound.users, want \in bound.tenants \cup {Nil} : AcceptSelect(r, u, want)
  BY <1>1, <1>8, AcceptSelectGoverned
<1>9. CASE \E s \in Slug : Update(r, s)
  BY <1>9, UpdateGoverned
<1>10. CASE Delete(r)
  BY <1>10, DeleteGoverned
<1>11. CASE LookupUser(r)
  BY <1>11, LookupGoverned
<1>12. CASE InviteDirect(r)
  BY <1>12, InviteDirectGoverned
<1>13. CASE InvitePending(r)
  BY <1>13, InvitePendingGoverned
<1>14. CASE AcceptWrite(r)
  BY <1>14, AcceptWriteGoverned
<1>15. CASE ReadTarget(r)
  BY <1>15, ReadTargetGoverned
<1>16. CASE CountOwners(r)
  BY <1>16, CountOwnersGoverned
<1>17. CASE UpdateMemberRole(r)
  BY <1>17, UpdateMemberGoverned
<1>18. CASE RemoveMember(r)
  BY <1>18, RemoveGoverned
<1>19. CASE AssignMemberRole(r)
  BY <1>19, AssignGoverned
<1>20. CASE UnassignMemberRole(r)
  BY <1>20, UnassignGoverned
<1> QED
  BY <1>4, <1>5, <1>6, <1>7, <1>8, <1>9, <1>10, <1>11, <1>12, <1>13, <1>14, <1>15, <1>16,
     <1>17, <1>18, <1>19, <1>20 DEF Handle

\* Every step.
LEMMA EveryStepGoverned ==
  ASSUME TenantsAssumption, MembershipInv, [TenantsNext]_tenantsVars
  PROVE  WellGoverned
<1>1. CASE TenantsNext
  <2>1. UNCHANGED bound
    BY <1>1 DEF TenantsNext
  <2>2. CASE \E u \in Person : Signup(u)
    BY <2>1, <2>2, SignupGoverned
  <2>3. CASE \E u \in Person, t \in Tenant, s \in Slug : Create(u, t, s)
    BY <2>1, <2>3, CreateGoverned
  <2>4. CASE \E r \in Req : Handle(r)
    BY <2>1, <2>4, HandleGoverned
  <2> QED
    BY <1>1, <2>2, <2>3, <2>4 DEF TenantsNext
<1>2. CASE UNCHANGED tenantsVars
  <2>1. Calls'
    BY <1>2 DEF tenantsVars, MembershipInv, Calls, Vouched, Guarded, LastOwner
  <2>2. signed' \in SUBSET Person
    BY <1>2 DEF tenantsVars, MembershipInv
  <2> QED
    BY <1>2, <2>1, <2>2, NoRowWritten DEF tenantsVars, tables, history
<1> QED
  BY <1>1, <1>2

\* A tenant keeps an owner unless two guards overlapped, roles are explained,
\* invitations are taken up as they stand, a deleted tenant's rows change only for
\* requests let in before or by acceptance, and only owners make owners
\* (internal/tenant/store.go, internal/api/tenants): for any tenants, people and
\* requests, however many and however interleaved.
THEOREM MembershipIsGoverned == TenantsSpec => MembershipGoverned
<1>1. MembershipInv /\ [TenantsNext]_tenantsVars => WellGoverned
  BY TenantsAssumption, EveryStepGoverned
<1>2. MembershipInv /\ [TenantsNext]_tenantsVars => MembershipInv'
  BY <1>1 DEF WellGoverned
<1>3. MembershipInv => OwnerRemains /\ GrantsExplained
  BY DEF MembershipInv
<1>4. MembershipInv /\ [TenantsNext]_tenantsVars
        => InviteHonoured /\ DeletedIsQuiet /\ OwnersMakeOwners
  BY <1>1 DEF WellGoverned
<1> QED
  BY MembershipBegins, <1>2, <1>3, <1>4, PTL DEF TenantsSpec, MembershipGoverned

=============================================================================
