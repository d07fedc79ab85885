----------------------------- MODULE Authority ------------------------------
(***************************************************************************)
(* Delegation of authority (internal/authority, api/authorityapi): the     *)
(* approval matrices, the workflows that collect the decisions of one      *)
(* record's gated action, and the delegations that widen an approver pool. *)
(*                                                                         *)
(* One key, one tenant: the selector's filters leave the status, the       *)
(* effective window and the version to choose by.  A statement is a step;  *)
(* so is a transaction whose statements all lock the same row, except that *)
(* RecordDecision asks other connections of the pool for the approver      *)
(* pools while it holds the workflow's row, so it takes several.  The      *)
(* UPDATEs of CancelWorkflow and of the reaper hold a connection while they*)
(* wait for that row; the reaper's takes the rows it has found together.   *)
(***************************************************************************)
EXTENDS Integers, FiniteSets

CONSTANTS
  User,
  Matrix,        \* ids of matrix rows
  MaxVersion,    \* bound on matrix versions
  MaxWorkflows,  \* bound on workflows, numbered in the order they are created
  Delegation,    \* ids of delegation rows
  Grant,         \* the <<delegator, delegatee>> pairs operators use
  Assignee,      \* users whose role operators change
  Plan,          \* the level lists operators write: functions from level_n to Level
  Request,       \* what may be served at once: requests, and the reaper's runs
  Worker,        \* of these, the jobs worker that runs doa_workflow_reaper
  MaxConns,      \* connections of the database pool
  None

Level == [mode: {"any", "all", "threshold"}, min: Nat, users: SUBSET User, role: BOOLEAN]

ASSUME AuthorityAssumption ==
  /\ None \notin Matrix
  /\ None \notin User
  /\ Worker \in Request
  /\ Assignee \subseteq User
  /\ MaxVersion \in Nat \ {0}
  /\ MaxWorkflows \in Nat
  /\ Grant \subseteq {g \in User \X User : g[1] # g[2]}
  /\ Matrix # {} => Plan # {}
  /\ Delegation # {} => Grant # {}
  /\ \A p \in Plan : DOMAIN p \subseteq Nat \ {0} /\ DOMAIN p # {}
  /\ \A p \in Plan : \A n \in DOMAIN p : p[n] \in Level /\ p[n].min > 0
  /\ MaxConns \in Nat \ {0}

VARIABLES
  matrix,      \* _doa_matrices with their levels
  wf,          \* _doa_workflows
  decisions,   \* _doa_workflow_decisions, by workflow
  holders,     \* users who hold the role that levels name
  delegation,  \* _doa_delegations
  req          \* the requests in flight

vars == <<matrix, wf, decisions, holders, delegation, req>>

-----------------------------------------------------------------------------

Workflow == 1..MaxWorkflows
Terminal == {"completed", "rejected", "cancelled", "expired"}
Verdict == {"approved", "rejected"}
NoLevel == 0    \* current_level IS NULL

MatrixRow == [status: {"absent", "draft", "approved", "revoked"},
              version: 0..MaxVersion, levels: Plan, open: BOOLEAN]

WorkflowRow == [status: {"absent", "running"} \cup Terminal, matrix: Matrix \cup {None},
                level: Nat, initiator: User \cup {None}, overdue: BOOLEAN,
                consumed: BOOLEAN]

Decision == [level: Nat, user: User, verdict: Verdict]

\* "lapsed": effective_to has passed and the reaper has not been by yet.
DelegationRow == [status: {"absent", "active", "lapsed", "revoked"},
                  grant: Grant, applies: BOOLEAN]

\* "selected" is a create between SelectActiveMatrix and its INSERT; "loaded" to
\* "signed" are a decision that has passed the handler's check, holds a transaction,
\* holds the workflow's row lock, and has inserted its decision; "cancelling" and
\* "sweeping" are an UPDATE under way, the reaper's of the rows it has found.
RequestState == [pc: {"idle", "selected", "loaded", "begun", "locked", "signed",
                      "cancelling", "sweeping"},
                 user: User \cup {None}, matrix: Matrix \cup {None},
                 wf: Workflow \cup {None}, level: Nat, verdict: Verdict,
                 rows: SUBSET Workflow]

Quiet == [pc |-> "idle", user |-> None, matrix |-> None, wf |-> None,
          level |-> NoLevel, verdict |-> "approved", rows |-> {}]

\* The levels of workflow w.  An approved matrix is never edited, so the row
\* serves as the snapshot that matrix_version pins.
Levels(w) == matrix[wf[w].matrix].levels

Approvers(w, n) ==
  {u \in User : [level |-> n, user |-> u, verdict |-> "approved"] \in decisions[w]}

InTx(r) == req[r].pc \in {"begun", "locked", "signed"}
Connected(r) == InTx(r) \/ req[r].pc \in {"cancelling", "sweeping"}
Free == Cardinality({r \in Request : Connected(r)}) < MaxConns
Locked(w) == \E r \in Request : req[r].pc \in {"locked", "signed"} /\ req[r].wf = w

TypeOK ==
  /\ matrix \in [Matrix -> MatrixRow]
  /\ wf \in [Workflow -> WorkflowRow]
  /\ decisions \in [Workflow -> SUBSET Decision]
  /\ holders \subseteq User
  /\ delegation \in [Delegation -> DelegationRow]
  /\ req \in [Request -> RequestState]
  /\ \A w \in Workflow : wf[w].status # "absent" => wf[w].matrix \in Matrix
  /\ \A r \in Request : InTx(r) => req[r].wf \in Workflow /\ req[r].user \in User

Init ==
  /\ matrix = [m \in Matrix |-> [status |-> "absent", version |-> 0,
                                 levels |-> CHOOSE p \in Plan : TRUE, open |-> FALSE]]
  /\ wf = [w \in Workflow |-> [status |-> "absent", matrix |-> None, level |-> NoLevel,
                               initiator |-> None, overdue |-> FALSE, consumed |-> FALSE]]
  /\ decisions = [w \in Workflow |-> {}]
  /\ holders = {}
  /\ delegation = [d \in Delegation |-> [status |-> "absent", applies |-> FALSE,
                                         grant |-> CHOOSE g \in Grant : TRUE]]
  /\ req = [r \in Request |-> Quiet]

-----------------------------------------------------------------------------
(* Matrices *)

VersionTaken(v) == \E m \in Matrix : matrix[m].status # "absent" /\ matrix[m].version = v

NewMatrix(m, v, p) ==
  /\ matrix[m].status = "absent"
  /\ ~VersionTaken(v)
  /\ matrix' = [matrix EXCEPT ![m] = [status |-> "draft", version |-> v,
                                      levels |-> p, open |-> FALSE]]
  /\ UNCHANGED <<wf, decisions, holders, delegation, req>>

CreateMatrix(m) == \E p \in Plan : NewMatrix(m, 1, p)

\* A new draft, numbered one above the approved row it copies.
CreateVersionFromApproved(m) ==
  \E s \in Matrix : /\ matrix[s].status = "approved"
                    /\ matrix[s].version < MaxVersion
                    /\ NewMatrix(m, matrix[s].version + 1, matrix[s].levels)

\* The levels are replaced as a whole, under a status check in the transaction.
UpdateDraftMatrix(m) ==
  /\ matrix[m].status = "draft"
  /\ \E p \in Plan : matrix' = [matrix EXCEPT ![m].levels = p]
  /\ UNCHANGED <<wf, decisions, holders, delegation, req>>

DeleteDraftMatrix(m) ==
  /\ matrix[m].status = "draft"
  /\ matrix' = [matrix EXCEPT ![m].status = "absent"]
  /\ UNCHANGED <<wf, decisions, holders, delegation, req>>

\* effective_from may lie in the future.
ApproveMatrix(m) ==
  /\ matrix[m].status = "draft"
  /\ \E o \in BOOLEAN :
       matrix' = [matrix EXCEPT ![m].status = "approved", ![m].open = o]
  /\ UNCHANGED <<wf, decisions, holders, delegation, req>>

RevokeMatrix(m) ==
  /\ matrix[m].status = "approved"
  /\ matrix' = [matrix EXCEPT ![m].status = "revoked"]
  /\ UNCHANGED <<wf, decisions, holders, delegation, req>>

\* Time enters or leaves [effective_from, effective_to).
WindowTurns(m) ==
  /\ matrix[m].status = "approved"
  /\ matrix' = [matrix EXCEPT ![m].open = ~@]
  /\ UNCHANGED <<wf, decisions, holders, delegation, req>>

Selectable == {m \in Matrix : matrix[m].status = "approved" /\ matrix[m].open}

\* ORDER BY version DESC LIMIT 1.
SelectActiveMatrix(m) ==
  /\ m \in Selectable
  /\ \A s \in Selectable : matrix[s].version <= matrix[m].version

-----------------------------------------------------------------------------
(* Approver pools *)

ResolveApprovers(l) == l.users \cup (IF l.role THEN holders ELSE {})

\* One hop: the delegatees of the base pool, in scope and in their window.
ResolveApproversWithDelegation(l) ==
  LET base == ResolveApprovers(l)
  IN  base \cup {delegation[d].grant[2] :
                   d \in {d \in Delegation : /\ delegation[d].status = "active"
                                             /\ delegation[d].applies
                                             /\ delegation[d].grant[1] \in base}}

AssignRole(u) ==
  /\ u \notin holders
  /\ holders' = holders \cup {u}
  /\ UNCHANGED <<matrix, wf, decisions, delegation, req>>

UnassignRole(u) ==
  /\ u \in holders
  /\ holders' = holders \ {u}
  /\ UNCHANGED <<matrix, wf, decisions, delegation, req>>

\* "applies" stands for the action-key whitelist and the amount cap.
CreateDelegation(d) ==
  /\ delegation[d].status = "absent"
  /\ \E g \in Grant, a \in BOOLEAN :
       delegation' = [delegation EXCEPT ![d] = [status |-> "active", grant |-> g,
                                                applies |-> a]]
  /\ UNCHANGED <<matrix, wf, decisions, holders, req>>

RevokeDelegation(d) ==
  /\ delegation[d].status \in {"active", "lapsed"}
  /\ delegation' = [delegation EXCEPT ![d].status = "revoked"]
  /\ UNCHANGED <<matrix, wf, decisions, holders, req>>

DelegationLapses(d) ==
  /\ delegation[d].status = "active"
  /\ delegation' = [delegation EXCEPT ![d].status = "lapsed"]
  /\ UNCHANGED <<matrix, wf, decisions, holders, req>>

doa_delegation_reaper ==
  /\ \E d \in Delegation : delegation[d].status = "lapsed"
  /\ delegation' = [d \in Delegation |->
                      IF delegation[d].status = "lapsed"
                      THEN [delegation[d] EXCEPT !.status = "revoked"]
                      ELSE delegation[d]]
  /\ UNCHANGED <<matrix, wf, decisions, holders, req>>

-----------------------------------------------------------------------------
(* Workflows *)

Reply(r) == req' = [req EXCEPT ![r] = Quiet]

\* workflowCreateHandler chooses the matrix first and inserts afterwards.
CreateSelect(r, u) ==
  /\ req[r].pc = "idle"
  /\ Free
  /\ \E m \in Matrix :
       /\ SelectActiveMatrix(m)
       /\ req' = [req EXCEPT ![r] = [Quiet EXCEPT !.pc = "selected", !.user = u,
                                                  !.matrix = m]]
  /\ UNCHANGED <<matrix, wf, decisions, holders, delegation>>

NextId(w) == wf[w].status = "absent" /\ \A v \in Workflow : v < w => wf[v].status # "absent"

\* The INSERT; the partial unique index refuses a second running workflow.
CreateWorkflow(r) ==
  /\ req[r].pc = "selected"
  /\ Free
  /\ \/ /\ \A v \in Workflow : wf[v].status # "running"
        /\ \E w \in Workflow :
             /\ NextId(w)
             /\ wf' = [wf EXCEPT ![w] = [status |-> "running", matrix |-> req[r].matrix,
                                         level |-> 1, initiator |-> req[r].user,
                                         overdue |-> FALSE, consumed |-> FALSE]]
     \/ /\ \/ \E v \in Workflow : wf[v].status = "running"
           \/ \A w \in Workflow : ~NextId(w)
        /\ UNCHANGED wf
  /\ Reply(r)
  /\ UNCHANGED <<matrix, decisions, holders, delegation>>

\* workflowDecisionHandler loads the workflow and checks the signer against the
\* level's own pool, without delegations and without the initiator.
LoadDecision(r, w, u, v) ==
  /\ req[r].pc = "idle"
  /\ Free
  /\ wf[w].status = "running"
  /\ wf[w].level \in DOMAIN Levels(w)
  /\ u \in ResolveApprovers(Levels(w)[wf[w].level]) \ {wf[w].initiator}
  /\ req' = [req EXCEPT ![r] = [pc |-> "loaded", user |-> u, matrix |-> None, wf |-> w,
                                level |-> wf[w].level, verdict |-> v, rows |-> {}]]
  /\ UNCHANGED <<matrix, wf, decisions, holders, delegation>>

BeginDecision(r) ==
  /\ req[r].pc = "loaded"
  /\ Free
  /\ req' = [req EXCEPT ![r].pc = "begun"]
  /\ UNCHANGED <<matrix, wf, decisions, holders, delegation>>

\* Mutant: a request that finds the workflow settled never answers.
LockForgetsReply(r) ==
  /\ req[r].pc = "begun"
  /\ ~Locked(req[r].wf)
  /\ wf[req[r].wf].status = "running"
  /\ wf[req[r].wf].level = req[r].level
  /\ req' = [req EXCEPT ![r].pc = "locked"]
  /\ UNCHANGED <<matrix, wf, decisions, holders, delegation>>

\* SELECT ... FOR UPDATE, then the status and level checks under the lock.
LockWorkflow(r) ==
  LET w == req[r].wf
  IN  /\ req[r].pc = "begun"
      /\ ~Locked(w)
      /\ \/ /\ wf[w].status = "running"
            /\ wf[w].level = req[r].level
            /\ req' = [req EXCEPT ![r].pc = "locked"]
         \/ /\ wf[w].status # "running" \/ wf[w].level # req[r].level
            /\ Reply(r)
      /\ UNCHANGED <<matrix, wf, decisions, holders, delegation>>

\* The qualification check, on a second connection, and the INSERT of the
\* decision, which is unique per workflow, level and approver.
SignDecision(r) ==
  LET w == req[r].wf
      n == req[r].level
      ok == /\ req[r].user \in ResolveApproversWithDelegation(Levels(w)[n])
            /\ \A v \in Verdict :
                 [level |-> n, user |-> req[r].user, verdict |-> v] \notin decisions[w]
  IN  /\ req[r].pc = "locked"
      /\ Free
      /\ \/ ok /\ req' = [req EXCEPT ![r].pc = "signed"]
         \/ ~ok /\ Reply(r)
      /\ UNCHANGED <<matrix, wf, decisions, holders, delegation>>

\* Mutant: a threshold is met one approval early.
SatisfactionEarly(l, approved) ==
  \/ l.mode = "any" /\ Cardinality(approved) >= 1
  \/ l.mode = "threshold" /\ Cardinality(approved) + 1 >= l.min
  \/ /\ l.mode = "all"
     /\ ResolveApprovers(l) # {}
     /\ ResolveApprovers(l) \subseteq approved

\* In mode "all" every member of the pool of this moment must have approved.
evalLevelSatisfaction(l, approved) ==
  \/ l.mode = "any" /\ Cardinality(approved) >= 1
  \/ l.mode = "threshold" /\ Cardinality(approved) >= l.min
  \/ /\ l.mode = "all"
     /\ ResolveApprovers(l) # {}
     /\ ResolveApprovers(l) \subseteq approved

\* Mutant: a veto is recorded and the workflow goes on.
DecidedDespiteVeto(row, levels, verdict, approved) ==
  IF verdict = "approved" /\ evalLevelSatisfaction(levels[row.level], approved)
  THEN [row EXCEPT !.status = "completed", !.level = NoLevel]
  ELSE row

\* What a decision makes of its workflow.  The matrix is asked for level n + 1:
\* when it has no such level the workflow is completed.
Decided(row, levels, verdict, approved) ==
  CASE verdict = "rejected" ->
         [row EXCEPT !.status = "rejected", !.level = NoLevel]
    [] verdict = "approved" /\ ~evalLevelSatisfaction(levels[row.level], approved) -> row
    [] OTHER ->
         IF row.level + 1 \in DOMAIN levels
         THEN [row EXCEPT !.level = row.level + 1]
         ELSE [row EXCEPT !.status = "completed", !.level = NoLevel]

\* The rest of RecordDecision, to its commit.  Mode "all" resolves the pool
\* once more, on a second connection.
CommitDecision(r) ==
  LET w == req[r].wf
      n == req[r].level
      d == [level |-> n, user |-> req[r].user, verdict |-> req[r].verdict]
      approved == Approvers(w, n) \cup
                  (IF d.verdict = "approved" THEN {d.user} ELSE {})
  IN  /\ req[r].pc = "signed"
      /\ Levels(w)[n].mode = "all" /\ d.verdict = "approved" => Free
      /\ decisions' = [decisions EXCEPT ![w] = @ \cup {d}]
      /\ wf' = [wf EXCEPT ![w] = Decided(@, Levels(w), d.verdict, approved)]
      /\ Reply(r)
      /\ UNCHANGED <<matrix, holders, delegation>>

\* The client goes away, or a statement times out: the transaction rolls back.
Disconnect(r) ==
  /\ req[r].pc # "idle"
  /\ Reply(r)
  /\ UNCHANGED <<matrix, wf, decisions, holders, delegation>>

\* workflowCancelHandler, by the initiator: the UPDATE gets a connection.
CancelBegins(r, w) ==
  /\ req[r].pc = "idle"
  /\ Free
  /\ wf[w].status = "running"
  /\ req' = [req EXCEPT ![r] = [Quiet EXCEPT !.pc = "cancelling", !.wf = w,
                                             !.user = wf[w].initiator]]
  /\ UNCHANGED <<matrix, wf, decisions, holders, delegation>>

\* It waits for the row's lock, and changes nothing unless the workflow still runs.
CancelWorkflow(r) ==
  LET w == req[r].wf
  IN  /\ req[r].pc = "cancelling"
      /\ ~Locked(w)
      /\ wf' = IF wf[w].status = "running"
               THEN [wf EXCEPT ![w].status = "cancelled", ![w].level = NoLevel]
               ELSE wf
      /\ Reply(r)
      /\ UNCHANGED <<matrix, decisions, holders, delegation>>

TTLPasses(w) ==
  /\ wf[w].status = "running"
  /\ ~wf[w].overdue
  /\ wf' = [wf EXCEPT ![w].overdue = TRUE]
  /\ UNCHANGED <<matrix, decisions, holders, delegation, req>>

Expired == {w \in Workflow : wf[w].status = "running" /\ wf[w].overdue}

\* Its UPDATE gets a connection and finds the rows that are past expires_at.
ReaperBegins ==
  /\ req[Worker].pc = "idle"
  /\ Free
  /\ Expired # {}
  /\ req' = [req EXCEPT ![Worker] = [Quiet EXCEPT !.pc = "sweeping", !.rows = Expired]]
  /\ UNCHANGED <<matrix, wf, decisions, holders, delegation>>

Expire(ws) ==
  /\ req[Worker].pc = "sweeping"
  /\ \A w \in ws : ~Locked(w)
  /\ wf' = [w \in Workflow |-> IF w \in ws
                               THEN [wf[w] EXCEPT !.status = "expired", !.level = NoLevel]
                               ELSE wf[w]]
  /\ Reply(Worker)
  /\ UNCHANGED <<matrix, decisions, holders, delegation>>

\* Mutant: the sweep's comparison is the wrong way round.
ReapYoung == Expire({w \in Workflow : wf[w].status = "running" /\ ~wf[w].overdue})

\* It waits for the locks of these rows and expires those that still run.
doa_workflow_reaper == Expire(req[Worker].rows \cap Expired)

\* Mutant: the statement does not ask for a completed workflow.
MarkConsumedAny(w) ==
  /\ wf[w].status # "absent"
  /\ ~wf[w].consumed
  /\ wf' = [wf EXCEPT ![w].consumed = TRUE]
  /\ UNCHANGED <<matrix, decisions, holders, delegation, req>>

\* Called by the record handlers, in the transaction of the gated write.
MarkConsumed(w) ==
  /\ wf[w].status = "completed"
  /\ ~wf[w].consumed
  /\ wf' = [wf EXCEPT ![w].consumed = TRUE]
  /\ UNCHANGED <<matrix, decisions, holders, delegation, req>>

-----------------------------------------------------------------------------

Serve(r) ==
  \/ CreateWorkflow(r) \/ BeginDecision(r) \/ LockWorkflow(r)
  \/ SignDecision(r) \/ CommitDecision(r) \/ CancelWorkflow(r)

Administer ==
  \/ \E m \in Matrix : \/ CreateMatrix(m) \/ CreateVersionFromApproved(m)
                       \/ UpdateDraftMatrix(m) \/ DeleteDraftMatrix(m)
                       \/ ApproveMatrix(m) \/ RevokeMatrix(m) \/ WindowTurns(m)
  \/ \E u \in Assignee : AssignRole(u) \/ UnassignRole(u)
  \/ \E d \in Delegation : CreateDelegation(d) \/ RevokeDelegation(d) \/ DelegationLapses(d)
  \/ doa_delegation_reaper

Next ==
  \/ Administer
  \/ \E r \in Request \ {Worker} :
       \/ Serve(r)
       \/ Disconnect(r)
       \/ \E u \in User : CreateSelect(r, u)
       \/ \E w \in Workflow : CancelBegins(r, w)
       \/ \E w \in Workflow, u \in User, v \in Verdict : LoadDecision(r, w, u, v)
  \/ \E w \in Workflow : TTLPasses(w) \/ MarkConsumed(w)
  \/ ReaperBegins \/ doa_workflow_reaper

Spec == Init /\ [][Next]_vars

\* Requests are served, time passes and the reaper's schedule keeps firing.  The
\* reaper's UPDATE queues for the row lock behind the decisions that came first,
\* and row locks are granted in turn, so it is not overtaken for ever.
Fairness ==
  /\ \A r \in Request \ {Worker} : WF_vars(Serve(r))
  /\ \A w \in Workflow : WF_vars(TTLPasses(w))
  /\ WF_vars(ReaperBegins)
  /\ SF_vars(doa_workflow_reaper)

FairSpec == Spec /\ Fairness

-----------------------------------------------------------------------------
(* Properties *)

\* Level n of workflow w carries the signatures its mode asks for, the
\* initiator's own not counted.  Mode "all" is judged by the users the level
\* names: who else belonged to the pool when the level closed is not kept.
SignedOff(w, n) ==
  LET l == Levels(w)[n]
      signers == Approvers(w, n) \ {wf[w].initiator}
  IN  /\ signers # {}
      /\ l.mode = "threshold" => Cardinality(signers) >= l.min
      /\ l.mode = "all" => l.users \subseteq signers

\* "Workflow becomes 'completed' when all levels passed": whatever happens to
\* roles, delegations and matrices meanwhile, a completed workflow carries the
\* signatures of every level of its matrix, and a running one those of every
\* level below the current one.
AllLevelsPassed ==
  \A w \in Workflow :
    wf[w].status \in {"running", "completed"} =>
      \A n \in DOMAIN Levels(w) :
        (wf[w].status = "completed" \/ n < wf[w].level) => SignedOff(w, n)

\* "rejected -> immediate veto": one rejection ends the workflow as rejected and
\* nothing else does, however decisions, cancellation and expiry interleave.
VetoEnds ==
  \A w \in Workflow :
    wf[w].status = "rejected" <=> \E d \in decisions[w] : d.verdict = "rejected"

\* The workflows keep the contract the gate relies on.
Contract == INSTANCE Approval
              WITH status <- [w \in Workflow |-> wf[w].status],
                   consumed <- {w \in Workflow : wf[w].consumed}
ApprovalContract == Contract!ApprovalSpec

\* Every request is answered, and the reaper's UPDATE returns.  RecordDecision holds
\* a connection while it asks the pool for another, and whatever waits for its row
\* holds one too, so this needs a pool larger than the number of decisions, cancels
\* and sweeps in progress together.
EveryRequestAnswered == \A r \in Request : req[r].pc # "idle" ~> req[r].pc = "idle"

\* A running workflow settles: the reaper ends the ones nobody completes, among
\* them those whose pool can no longer satisfy mode "all".
EveryWorkflowSettles ==
  \A w \in Workflow : wf[w].status = "running" ~> wf[w].status \in Terminal
=============================================================================
