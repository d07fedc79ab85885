--------------------------- MODULE AuditGateProofs ---------------------------
(***************************************************************************)
(* Proofs about Gate, for any number of requests, workflows and values, and*)
(* about Audit, for any number of processes, tenants, rows and months.     *)
(*                                                                         *)
(* Gate: PassesUngated and PassesAsApproved say what it means for a request*)
(* to have passed the gate; they are what makes the properties inductive.  *)
(*                                                                         *)
(* Audit: Stored gives the types; ChainInv relates the heads kept in memory*)
(* to the tips of the chains, SealInv the seals to the rows they cover, and*)
(* ArchiveInv the archives and the cut sweep to the months that are gone.  *)
(***************************************************************************)
EXTENDS Gate, Audit, FiniteSetTheorems, SequenceTheorems, WellFoundedInduction, TLAPS

-----------------------------------------------------------------------------
(* The gate of the record API *)


\* The gate's overlay of two field maps is a field map, and a row when it is
\* laid over a row.
LEMMA MergeType ==
  ASSUME NEW b \in Fields, NEW f \in Fields
  PROVE  /\ mergeForGate(b, f) \in Fields
         /\ b \in Row => mergeForGate(b, f) \in Row
BY DEF mergeForGate, Fields, Row, Field

\* The empty map is a field map.
LEMMA NothingType == Nothing \in Fields /\ Quiet \in PatchState
BY DEF Nothing, Fields, Field, Quiet, PatchState

\* A request that is let by keeps its fields and gets the approval to spend.
LEMMA PassFields ==
  ASSUME GateTypeOK, NEW p \in Patcher, NEW w \in Workflow \cup {None}, NEW soft \in BOOLEAN,
         patch' = Pass(p, w, soft)
  PROVE  /\ patch' \in [Patcher -> PatchState]
         /\ patch'[p].pc = "checked" /\ patch'[p].consume = w /\ patch'[p].soft = soft
         /\ patch'[p].fields = patch[p].fields
         /\ \A q \in Patcher : q # p => patch'[q] = patch[q]
<1>1. PICK x : x = [patch[p] EXCEPT !.pc = "checked", !.before = Nothing, !.consume = w, !.soft = soft]
  OBVIOUS
<1>2. patch[p] \in PatchState /\ patch \in [Patcher -> PatchState]
  BY DEF GateTypeOK
<1>3. /\ x \in PatchState /\ x.pc = "checked" /\ x.consume = w /\ x.soft = soft
      /\ x.fields = patch[p].fields
  BY <1>1, <1>2, NothingType DEF PatchState
<1>4. patch' = [patch EXCEPT ![p] = x]
  BY <1>1, <1>2 DEF Pass
<1> QED
  BY <1>2, <1>3, <1>4

\* Every step keeps the types: the row stays a full row, whatever is patched.
LEMMA GateTypeStep == GateTypeOK /\ [GateNext]_gateVars => GateTypeOK'
<1> SUFFICES ASSUME GateTypeOK, [GateNext]_gateVars PROVE GateTypeOK'
  OBVIOUS
<1> USE GateAssumption
<1>1. CASE MatrixTurns
  BY <1>1 DEF MatrixTurns, GateTypeOK, approvalVars
<1>2. ASSUME NEW w \in Workflow, NEW d \in Requested, CreateWorkflow(w, d)
      PROVE  GateTypeOK'
  BY <1>2 DEF CreateWorkflow, Open, GateTypeOK
<1>3. ASSUME NEW w \in Workflow, NEW s \in {"completed", "rejected"}, WorkflowSettles(w, s)
      PROVE  GateTypeOK'
  BY <1>3 DEF WorkflowSettles, Settle, GateTypeOK, Terminal
<1>4. ASSUME NEW p \in Patcher, NEW f \in Fields, ReadRow(p, f)
      PROVE  GateTypeOK'
  <2>1. PICK b \in {record, Nothing} :
          patch' = [patch EXCEPT ![p] = [Quiet EXCEPT !.pc = "read", !.fields = f, !.before = b]]
    BY <1>4 DEF ReadRow
  <2>2. b \in Fields
    BY NothingType DEF GateTypeOK, Row
  <2>3. [Quiet EXCEPT !.pc = "read", !.fields = f, !.before = b] \in PatchState
    BY <2>2, NothingType DEF Quiet, PatchState
  <2> QED
    BY <1>4, <2>1, <2>3 DEF ReadRow, GateTypeOK, approvalVars
<1>5. ASSUME NEW p \in Patcher, Check(p)
      PROVE  GateTypeOK'
  <2>1. patch' \in [Patcher -> PatchState]
    BY <1>5, PassFields, NothingType DEF Check, GateTypeOK
  <2> QED
    BY <1>5, <2>1 DEF Check, GateTypeOK, approvalVars
<1>6. ASSUME NEW p \in Patcher, Write(p)
      PROVE  /\ record' \in Row
             /\ patch' \in [Patcher -> PatchState]
             /\ diff' = diff /\ governed' = governed
  <2>1. patch[p].fields \in Fields
    BY DEF GateTypeOK, PatchState
  <2> QED
    BY <1>6, <2>1, MergeType, NothingType DEF Write, GateTypeOK, Row
<1>7. ASSUME NEW p \in Patcher, Update(p)
      PROVE  GateTypeOK'
  BY <1>7, <1>6 DEF Update, GateTypeOK, approvalVars
<1>8. ASSUME NEW p \in Patcher, UpdateAndConsume(p)
      PROVE  GateTypeOK'
  <2>0. patch[p].consume \in Workflow
    BY <1>8 DEF UpdateAndConsume, GateTypeOK, PatchState
  <2>1. CASE Spend(patch[p].consume) /\ Write(p)
             /\ applied' = [applied EXCEPT ![patch[p].consume] = @ + 1]
    BY <2>0, <2>1, <1>6 DEF Spend, GateTypeOK
  <2>2. CASE /\ patch' = [patch EXCEPT ![p] = Quiet]
             /\ UNCHANGED <<approvalVars, record, diff, governed, applied>>
    BY <2>2, NothingType DEF GateTypeOK, approvalVars
  <2> QED
    BY <1>8, <2>1, <2>2 DEF UpdateAndConsume
<1>9. ASSUME NEW p \in Patcher, Fail(p)
      PROVE  GateTypeOK'
  BY <1>9, NothingType DEF Fail, GateTypeOK, approvalVars
<1>10. CASE UNCHANGED gateVars
  BY <1>10 DEF gateVars, approvalVars, GateTypeOK
<1> QED
  BY <1>1, <1>2, <1>3, <1>4, <1>5, <1>7, <1>8, <1>9, <1>10 DEF GateNext

-----------------------------------------------------------------------------

\* A request let by without an approval, for another reason than a missing
\* matrix, does not itself write a gated value.
PassesUngated ==
  \A p \in Patcher :
    patch[p].pc = "checked" /\ patch[p].consume = None /\ ~patch[p].soft =>
      patch[p].fields["status"] \notin To

\* A request holds an approval only once it has passed the gate, one that was
\* given, and the protected fields it sets are the approved ones, or blanked where
\* the approved diff leaves them out.
PassesAsApproved ==
  \A p \in Patcher :
    patch[p].consume # None =>
      /\ patch[p].pc = "checked"
      /\ status[patch[p].consume] = "completed"
      /\ \A k \in Protected :
           \/ patch[p].fields[k] \in {None, diff[patch[p].consume][k]}
           \/ diff[patch[p].consume][k] = None /\ patch[p].fields[k] = Null

\* The types hold throughout.
THEOREM GateTypeCorrect == GateSpec => []GateTypeOK
<1>1. GateInit => GateTypeOK
  BY NothingType DEF GateInit, ApprovalInit, GateTypeOK, Row
<1> QED
  BY <1>1, GateTypeStep, PTL DEF GateSpec

\* A step that leaves the approvals and the write counts alone keeps the match
\* between them.
LEMMA GateCountStep == GateTypeOK /\ OneWritePerApproval /\ [GateNext]_gateVars => OneWritePerApproval'
<1> SUFFICES ASSUME GateTypeOK, OneWritePerApproval, [GateNext]_gateVars PROVE OneWritePerApproval'
  OBVIOUS
<1>1. CASE UNCHANGED <<consumed, applied>>
  BY <1>1 DEF OneWritePerApproval
<1>2. ASSUME NEW p \in Patcher, UpdateAndConsume(p)
      PROVE  OneWritePerApproval'
  <2> DEFINE w == patch[p].consume
  <2>0. w \in Workflow
    BY <1>2 DEF UpdateAndConsume, GateTypeOK, PatchState
  <2>1. CASE Spend(w) /\ applied' = [applied EXCEPT ![w] = @ + 1]
    <3>1. applied[w] = 0
      BY <2>0, <2>1 DEF Spend, OneWritePerApproval, GateTypeOK
    <3>2. \A v \in Workflow \ {w} : applied'[v] = applied[v] /\ (v \in consumed' <=> v \in consumed)
      BY <2>0, <2>1 DEF Spend, GateTypeOK
    <3>3. applied'[w] = 1 /\ w \in consumed'
      BY <2>0, <2>1, <3>1 DEF Spend, GateTypeOK
    <3> QED
      BY <3>2, <3>3 DEF OneWritePerApproval
  <2>2. CASE UNCHANGED <<consumed, applied>>
    BY <2>2, <1>1
  <2> QED
    BY <1>2, <2>1, <2>2 DEF UpdateAndConsume, approvalVars
<1> QED
  BY <1>1, <1>2 DEF GateNext, MatrixTurns, CreateWorkflow, Open, WorkflowSettles, Settle,
       ReadRow, Check, Update, Fail, gateVars, approvalVars

\* An approval backs at most one committed write and is spent with it, however
\* many requests the gate let by on it (updateHandler's consume transaction).
THEOREM ApprovalsBackOneWrite == GateSpec => []OneWritePerApproval
<1>1. GateInit => OneWritePerApproval
  BY DEF GateInit, ApprovalInit, OneWritePerApproval
<1> QED
  BY <1>1, GateTypeCorrect, GateCountStep, PTL DEF GateSpec

-----------------------------------------------------------------------------
(* Requests between the gate and the write *)

\* Where From is empty, passing the gate without an approval and without a
\* missing matrix means not writing a gated value, and that stays so until the
\* request's write.
LEMMA UngatedStep ==
  ASSUME From = {}
  PROVE  GateTypeOK /\ PassesUngated /\ [GateNext]_gateVars => PassesUngated'
<1> SUFFICES ASSUME GateTypeOK, PassesUngated, [GateNext]_gateVars PROVE PassesUngated'
  OBVIOUS
<1> USE GateAssumption
<1>1. CASE UNCHANGED patch
  BY <1>1 DEF PassesUngated
<1>2. ASSUME NEW p \in Patcher, patch' = [patch EXCEPT ![p] = Quiet]
      PROVE  PassesUngated'
  BY <1>2 DEF PassesUngated, GateTypeOK, Quiet
<1>3. ASSUME NEW p \in Patcher, NEW f \in Fields, ReadRow(p, f)
      PROVE  PassesUngated'
  BY <1>3 DEF ReadRow, PassesUngated, GateTypeOK, Quiet, PatchState
<1>4. ASSUME NEW p \in Patcher, Check(p)
      PROVE  PassesUngated'
  <2> DEFINE before == patch[p].before
             after == mergeForGate(before, patch[p].fields)
  <2>0. patch[p] \in PatchState
    BY DEF GateTypeOK
  <2>1. CASE ~onMatchesMutation(before, after) /\ patch' = Pass(p, None, FALSE)
    <3>1. after["status"] \notin To
      BY <2>1 DEF onMatchesMutation
    <3>2. patch[p].fields["status"] \notin To
      BY <3>1, <2>0 DEF mergeForGate, Field, Stage
    <3>3. /\ patch'[p].pc = "checked" /\ patch'[p].consume = None /\ patch'[p].soft = FALSE
          /\ patch'[p].fields = patch[p].fields /\ \A q \in Patcher : q # p => patch'[q] = patch[q]
      BY <2>1, PassFields
    <3> QED
      BY <3>2, <3>3 DEF PassesUngated
  <2>2. ASSUME NEW w \in Workflow, patch' = Pass(p, w, FALSE)
        PROVE  PassesUngated'
    <3>1. w # None
      BY GateAssumption
    <3>2. /\ patch'[p].pc = "checked" /\ patch'[p].consume = w /\ patch'[p].soft = FALSE
          /\ patch'[p].fields = patch[p].fields /\ \A q \in Patcher : q # p => patch'[q] = patch[q]
      BY <2>2, PassFields
    <3> QED
      BY <3>1, <3>2 DEF PassesUngated
  <2>3. CASE patch' = Pass(p, None, TRUE)
    <3>1. /\ patch'[p].pc = "checked" /\ patch'[p].consume = None /\ patch'[p].soft = TRUE
          /\ patch'[p].fields = patch[p].fields /\ \A q \in Patcher : q # p => patch'[q] = patch[q]
      BY <2>3, PassFields
    <3> QED
      BY <3>1 DEF PassesUngated
  <2> QED
    BY <1>4, <1>2, <2>1, <2>2, <2>3 DEF Check
<1> QED
  BY <1>1, <1>2, <1>3, <1>4 DEF GateNext, MatrixTurns, CreateWorkflow, WorkflowSettles,
       Update, UpdateAndConsume, Write, Fail, gateVars

\* Where From is empty, no interleaving brings the record into a gated state
\* without an approval, except a request let by for want of a matrix (Check's
\* soft pass).
THEOREM PublishingIsApproved ==
  ASSUME From = {}
  PROVE  GateSpec => PublishNeedsApproval
<1>1. GateInit => PassesUngated
  BY DEF GateInit, PassesUngated, Quiet
<1>2. GateTypeOK /\ PassesUngated /\ [GateNext]_gateVars =>
        [Publishes => \/ SpentNow # {}
                      \/ \E p \in Patcher : patch[p].soft /\ patch[p].pc = "checked"]_gateVars
  <2> SUFFICES ASSUME GateTypeOK, PassesUngated, GateNext, Publishes
               PROVE  \/ SpentNow # {}
                      \/ \E p \in Patcher : patch[p].soft /\ patch[p].pc = "checked"
    OBVIOUS
  <2>0. record' # record
    BY DEF Publishes
  <2>1. ASSUME NEW p \in Patcher, Update(p)
        PROVE  patch[p].soft /\ patch[p].pc = "checked"
    <3>1. record' = mergeForGate(record, patch[p].fields)
      BY <2>1 DEF Update, Write
    <3>2. patch[p].fields["status"] \in To
      BY <3>1 DEF Publishes, mergeForGate, Field
    <3> QED
      BY <2>1, <3>2 DEF Update, PassesUngated
  <2>2. ASSUME NEW p \in Patcher, UpdateAndConsume(p)
        PROVE  SpentNow # {}
    BY <2>0, <2>2 DEF UpdateAndConsume, Spend, SpentNow
  <2> QED
    BY <2>0, <2>1, <2>2 DEF GateNext, MatrixTurns, CreateWorkflow, WorkflowSettles, ReadRow,
         Check, Fail
<1>3. GateTypeOK /\ PassesUngated /\ [GateNext]_gateVars => PassesUngated'
  BY UngatedStep
<1> QED
  BY <1>1, <1>2, <1>3, GateTypeCorrect, PTL DEF GateSpec, PublishNeedsApproval

\* A request holding an approval keeps holding a given one: the approval's diff
\* was fixed when the workflow was opened, before the gate looked at it.
LEMMA ApprovedStep == GateTypeOK /\ PassesAsApproved /\ [GateNext]_gateVars => PassesAsApproved'
<1> SUFFICES ASSUME GateTypeOK, PassesAsApproved, [GateNext]_gateVars PROVE PassesAsApproved'
  OBVIOUS
<1> USE GateAssumption
<1>1. CASE UNCHANGED <<patch, status, diff>>
  BY <1>1 DEF PassesAsApproved
<1>2. ASSUME NEW p \in Patcher, patch' = [patch EXCEPT ![p] = Quiet],
             UNCHANGED <<status, diff>>
      PROVE  PassesAsApproved'
  BY <1>2 DEF PassesAsApproved, GateTypeOK, Quiet
<1>3. ASSUME NEW p \in Patcher, NEW f \in Fields, ReadRow(p, f)
      PROVE  PassesAsApproved'
  BY <1>3 DEF ReadRow, PassesAsApproved, GateTypeOK, Quiet, PatchState, approvalVars
<1>4. ASSUME NEW p \in Patcher, Check(p)
      PROVE  PassesAsApproved'
  <2> DEFINE before == patch[p].before
             after == mergeForGate(before, patch[p].fields)
  <2>0. patch[p] \in PatchState /\ UNCHANGED <<status, diff>>
    BY <1>4 DEF GateTypeOK, Check, approvalVars
  <2>a. patch[p].consume = None
    BY <1>4 DEF Check, PassesAsApproved
  <2>1. CASE patch' = Pass(p, None, FALSE)
    <3>1. /\ patch'[p].pc = "checked" /\ patch'[p].consume = None /\ patch'[p].soft = FALSE
          /\ patch'[p].fields = patch[p].fields /\ \A q \in Patcher : q # p => patch'[q] = patch[q]
      BY <2>1, PassFields
    <3> QED
      BY <2>0, <3>1 DEF PassesAsApproved
  <2>2. ASSUME NEW w \in Workflow, w \in Approved, validateProtectedFields(w, after),
               patch' = Pass(p, w, FALSE)
        PROVE  PassesAsApproved'
    <3>1. status[w] = "completed"
      BY <2>2 DEF Approved
    <3>2. ASSUME NEW k \in Protected
          PROVE  \/ patch[p].fields[k] \in {None, diff[w][k]}
                 \/ diff[w][k] = None /\ patch[p].fields[k] = Null
      <4>1. k \in Field /\ same(diff[w][k], after[k])
        BY <2>2 DEF validateProtectedFields
      <4>2. patch[p].fields[k] # None => same(diff[w][k], patch[p].fields[k])
        BY <4>1 DEF mergeForGate
      <4> QED
        BY <4>2 DEF same
    <3>3. /\ patch'[p].pc = "checked" /\ patch'[p].consume = w /\ patch'[p].soft = FALSE
          /\ patch'[p].fields = patch[p].fields /\ \A q \in Patcher : q # p => patch'[q] = patch[q]
      BY <2>2, PassFields
    <3> QED
      BY <2>0, <3>1, <3>2, <3>3 DEF PassesAsApproved
  <2>3. CASE patch' = Pass(p, None, TRUE)
    <3>1. /\ patch'[p].pc = "checked" /\ patch'[p].consume = None /\ patch'[p].soft = TRUE
          /\ patch'[p].fields = patch[p].fields /\ \A q \in Patcher : q # p => patch'[q] = patch[q]
      BY <2>3, PassFields
    <3> QED
      BY <2>0, <3>1 DEF PassesAsApproved
  <2> QED
    BY <1>4, <1>2, <2>0, <2>a, <2>1, <2>2, <2>3 DEF Check, findApprovedWorkflowForMutation
<1>5. ASSUME NEW w \in Workflow, NEW d \in Requested, CreateWorkflow(w, d)
      PROVE  PassesAsApproved'
  <2>1. \A p \in Patcher : patch[p].consume \in Workflow \cup {None}
    BY DEF GateTypeOK, PatchState
  <2> QED
    BY <1>5, <2>1 DEF CreateWorkflow, Open, PassesAsApproved, GateTypeOK
<1>6. ASSUME NEW w \in Workflow, NEW s \in {"completed", "rejected"}, WorkflowSettles(w, s)
      PROVE  PassesAsApproved'
  <2>1. \A p \in Patcher : patch[p].consume \in Workflow \cup {None}
    BY DEF GateTypeOK, PatchState
  <2> QED
    BY <1>6, <2>1 DEF WorkflowSettles, Settle, PassesAsApproved, GateTypeOK
<1> QED
  BY <1>1, <1>2, <1>3, <1>4, <1>5, <1>6 DEF GateNext, MatrixTurns, Update, UpdateAndConsume,
       Spend, Write, Fail, gateVars, approvalVars

\* A write that spends an approval sets the protected fields it carries to the
\* approved values, or to NULL where the approved diff leaves the field out.  What
\* it does not carry is another matter: those fields keep what the row holds by then.
THEOREM WritesAreAsApproved == GateSpec => SetsWhatWasApproved
<1>1. GateInit => PassesAsApproved
  BY DEF GateInit, PassesAsApproved, Quiet
<1>2. GateTypeOK' /\ PassesAsApproved =>
        [\A w \in SpentNow : \A p \in Patcher :
           patch[p].consume = w /\ patch'[p].pc = "idle" =>
             \A k \in Protected :
               \/ patch[p].fields[k] \in {None, diff[w][k]}
               \/ diff[w][k] = None /\ patch[p].fields[k] = Null]_gateVars
  <2>1. GateTypeOK' => None \notin SpentNow
    BY GateAssumption DEF GateTypeOK, SpentNow
  <2> QED
    BY <2>1 DEF PassesAsApproved
<1> QED
  BY <1>1, <1>2, ApprovedStep, GateTypeCorrect, PTL DEF GateSpec, SetsWhatWasApproved

-----------------------------------------------------------------------------
(* Greatest and least of some positions *)

\* ORDER BY ... DESC LIMIT 1 over positions up to n returns the greatest one.
LEMMA MaxOfSome ==
  ASSUME NEW n \in Nat, NEW T \in SUBSET (0 .. n), T # {}
  PROVE  Max(T) \in T /\ \A y \in T : y <= Max(T)
<1> DEFINE D == {n - x : x \in T}
<1>1. D \subseteq Nat /\ D # {}
  <2>1. \A x \in T : n - x \in Nat
    OBVIOUS
  <2>2. PICK x : x \in T
    OBVIOUS
  <2> QED
    BY <2>1, <2>2
<1>2. PICK d \in D : \A y \in D : ~(<<y, d>> \in OpToRel(<, Nat))
  BY <1>1, WFMin, NatLessThanWellFounded
<1>3. PICK x \in T : d = n - x
  BY <1>2
<1>4. ASSUME NEW y \in T PROVE x >= y
  <2>1. ~(<<n - y, d>> \in OpToRel(<, Nat))
    BY <1>2
  <2>2. n - y \in Nat /\ d \in Nat
    BY <1>1, <1>2
  <2>3. ~(n - y < d)
    BY <2>1, <2>2 DEF OpToRel
  <2> QED
    BY <1>3, <2>3
<1>5. Max(T) \in T /\ \A y \in T : Max(T) >= y
  BY <1>4 DEF Max
<1> QED
  BY <1>5

\* The greatest position is known once one is found that no other exceeds.
LEMMA MaxIs ==
  ASSUME NEW n \in Nat, NEW T \in SUBSET (0 .. n), NEW x \in T, \A y \in T : y <= x
  PROVE  Max(T) = x
<1>1. PICK m : m = Max(T)
  OBVIOUS
<1>2. m \in T /\ \A y \in T : y <= m
  BY <1>1, MaxOfSome
<1>3. m \in 0 .. n /\ x \in 0 .. n /\ x <= m /\ m <= x
  BY <1>2
<1> QED
  BY <1>1, <1>3

\* Some positions have a least one.
LEMMA MinOfSome ==
  ASSUME NEW T \in SUBSET Nat, T # {}
  PROVE  Min(T) \in T /\ \A y \in T : Min(T) <= y
<1>1. PICK x \in T : \A y \in T : ~(<<y, x>> \in OpToRel(<, Nat))
  BY WFMin, NatLessThanWellFounded
<1>2. ASSUME NEW y \in T PROVE x =< y
  <2>1. x \in Nat /\ y \in Nat
    OBVIOUS
  <2>2. ~(y < x)
    BY <1>1, <2>1 DEF OpToRel
  <2> QED
    BY <2>1, <2>2
<1>3. Min(T) \in T /\ \A y \in T : Min(T) =< y
  BY <1>2 DEF Min
<1> QED
  BY <1>3

-----------------------------------------------------------------------------
(* Types *)

AuditRow == [chain : Chain, prev : Nat, at : Nat, month : Nat, seq : Nat, stray : BOOLEAN,
             by : Proc \cup Nat, acked : BOOLEAN, since : Nat, behind : BOOLEAN, tied : BOOLEAN]
HeadState == [st : {"absent", "loading", "ready"}, hash : Nat, since : Nat, behind : BOOLEAN,
              tied : BOOLEAN]
Stages == {"idle", "insert", "forward", "mirror"}
WriteState == [stage : Stages, at : Nat, dest : Chain \ {"legacy"}]
SealRow == [start : Nat, end : Nat, count : Nat, head : Nat]

\* The table and the heads of the processes.
TableTyped ==
  /\ log \in Seq(AuditRow)
  /\ \A i \in DOMAIN log : log[i].seq \in 1 .. i /\ log[i].prev \in 0 .. (i - 1)
  /\ live \subseteq DOMAIN log
  /\ head \in [Proc -> [Chain -> HeadState]]
  /\ \A p \in Proc, c \in Chain : head[p][c].hash <= Len(log) /\ head[p][c].since <= Len(log)
  /\ mishaps \in Nat

\* What the writers are doing.
WritersTyped ==
  /\ waiter \subseteq Proc \X Tenant /\ orphan \subseteq Proc \X Tenant \X Nat
  /\ drawn \in [Proc -> [Tenant -> Nat]]
  /\ writing \in [Proc -> WriteState]

\* Nothing carries a time that is still to come.
Clocked ==
  /\ clock \in Nat
  /\ \A i \in DOMAIN log : log[i].at <= clock
  /\ \A p \in Proc : writing[p].at <= clock

SealsTyped == seals \in Seq(SealRow) /\ \A j \in DOMAIN seals : seals[j].end <= clock

\* The partitions and what the sweep has put on disk.
ArchiveTyped ==
  /\ month \in 0 .. bound.months
  /\ parts \subseteq Partition
  /\ staged \in [Partition -> SUBSET Nat] /\ manifests \subseteq Partition
  /\ archiving \in [stage : {"idle", "put", "drop"}, part : Partition]

\* What the tables, the processes and the disk hold.
Typed ==
  bound \in Instance /\ TableTyped /\ WritersTyped /\ Clocked /\ SealsTyped /\ ArchiveTyped

\* The numbers read by the INSERTs under way are no greater than the next row's.
Numbered ==
  /\ \A p \in Proc, t \in Tenant : drawn[p][t] <= Len(log) + 1
  /\ \A w \in orphan : w[3] <= Len(log) + 1

Stored == Typed /\ Numbered

\* The chains of rows and the newest row of each, archived or not.
Newest(c) == Max(RowsOf(c) \cup {Genesis})

\* The rows of a chain are positions of the log, and so is the newest.
LEMMA NewestFacts ==
  ASSUME log \in Seq(AuditRow), NEW c
  PROVE  /\ RowsOf(c) \subseteq 1 .. Len(log) /\ Len(log) \in Nat
         /\ Newest(c) \in RowsOf(c) \cup {Genesis} /\ Newest(c) \in 0 .. Len(log)
         /\ \A k \in RowsOf(c) : k <= Newest(c)
<1>1. RowsOf(c) \subseteq 1 .. Len(log) /\ Len(log) \in Nat
  BY DEF RowsOf
<1>2. RowsOf(c) \cup {Genesis} \in SUBSET (0 .. Len(log)) /\ RowsOf(c) \cup {Genesis} # {}
  BY <1>1 DEF Genesis
<1>3. Newest(c) \in RowsOf(c) \cup {Genesis} /\ \A k \in RowsOf(c) \cup {Genesis} : k <= Newest(c)
  BY <1>1, <1>2, MaxOfSome DEF Newest
<1> QED
  BY <1>1, <1>2, <1>3

\* So is the head a load finds in the table.
LEMMA LatestFacts ==
  ASSUME log \in Seq(AuditRow), NEW c
  PROVE  LatestHash(c) \in (RowsOf(c) \cap live) \cup {Genesis} /\ LatestHash(c) \in 0 .. Len(log)
<1>1. RowsOf(c) \subseteq 1 .. Len(log) /\ Len(log) \in Nat
  BY DEF RowsOf
<1>2. /\ (RowsOf(c) \cap live) \cup {Genesis} \in SUBSET (0 .. Len(log))
      /\ (RowsOf(c) \cap live) \cup {Genesis} # {}
  BY <1>1 DEF Genesis
<1>3. LatestHash(c) \in (RowsOf(c) \cap live) \cup {Genesis}
  BY <1>1, <1>2, MaxOfSome DEF LatestHash
<1> QED
  BY <1>2, <1>3

\* What the SELECT of a load may answer: the newest row of the table, or for a
\* tenant any row with the highest number.
Found(c, h) == h = LatestHash(c) \/ h \in TenantHeads(c)

LEMMA FoundFacts ==
  ASSUME log \in Seq(AuditRow), NEW c, NEW h, Found(c, h)
  PROVE  h \in (RowsOf(c) \cap live) \cup {Genesis} /\ h \in 0 .. Len(log)
<1>1. TenantHeads(c) \subseteq (RowsOf(c) \cap live) \cup {Genesis}
  BY DEF TenantHeads
<1>2. h \in (RowsOf(c) \cap live) \cup {Genesis}
  BY <1>1, LatestFacts DEF Found
<1>3. RowsOf(c) \subseteq 1 .. Len(log) /\ Len(log) \in Nat
  BY NewestFacts
<1> QED
  BY <1>2, <1>3 DEF Genesis

\* What a load leaves is a head.
LEMMA LoadedFacts ==
  ASSUME log \in Seq(AuditRow), NEW c, NEW h \in 0 .. Len(log)
  PROVE  /\ Loaded(c, h) \in HeadState /\ Loaded(c, h).st = "ready" /\ Loaded(c, h).hash = h
         /\ Loaded(c, h).since = Len(log)
         /\ Loaded(c, h).behind = (Newest(c) \notin live \cup {Genesis})
         /\ Loaded(c, h).tied = (\E k \in RowsOf(c) \cap live :
                                    k # Newest(c) /\ log[k].seq >= log[Newest(c)].seq)
<1>1. h \in Nat /\ Len(log) \in Nat
  OBVIOUS
<1>2. PICK b \in BOOLEAN : b = (Newest(c) \notin live \cup {Genesis})
  OBVIOUS
<1>3. PICK d \in BOOLEAN : d = (\E k \in RowsOf(c) \cap live :
                                  k # Newest(c) /\ log[k].seq >= log[Newest(c)].seq)
  OBVIOUS
<1>4. Loaded(c, h) = [st |-> "ready", hash |-> h, since |-> Len(log), behind |-> b, tied |-> d]
  BY <1>2, <1>3 DEF Loaded, Newest
<1> QED
  BY <1>1, <1>2, <1>3, <1>4 DEF HeadState

LEMMA AbsentFacts == Absent \in HeadState /\ Loading \in HeadState
                     /\ Absent.st # "ready" /\ Loading.st # "ready"
                     /\ Absent.hash = 0 /\ Loading.hash = 0
BY DEF Absent, Loading, HeadState, Genesis

\* tenant_seq: above the numbers of the tenant's rows in the table, and no more
\* than the number of rows ever inserted.
LEMMA SeqFacts ==
  ASSUME Stored, NEW c
  PROVE  /\ NextTenantSeq(c) \in 1 .. (Len(log) + 1)
         /\ \A k \in RowsOf(c) \cap live : log[k].seq < NextTenantSeq(c)
<1> DEFINE T == {log[k].seq : k \in RowsOf(c) \cap live} \cup {0}
<1>1. Len(log) \in Nat /\ DOMAIN log = 1 .. Len(log)
  BY DEF Stored, Typed, TableTyped
<1>2. \A k \in RowsOf(c) \cap live : k \in 1 .. Len(log) /\ log[k].seq \in 1 .. k
  BY <1>1 DEF Stored, Typed, TableTyped, RowsOf
<1>3. \A k \in RowsOf(c) \cap live : log[k].seq \in 0 .. Len(log)
  BY <1>1, <1>2
<1>4. T \in SUBSET (0 .. Len(log)) /\ T # {}
  BY <1>1, <1>3
<1>5. Max(T) \in T /\ \A y \in T : y <= Max(T)
  BY <1>1, <1>4, MaxOfSome
<1>6. PICK m \in 0 .. Len(log) : m = Max(T)
  BY <1>4, <1>5
<1>7. NextTenantSeq(c) = m + 1
  BY <1>6 DEF NextTenantSeq
<1>8. \A k \in RowsOf(c) \cap live : log[k].seq <= m
  BY <1>5, <1>6
<1>9. m + 1 \in 1 .. (Len(log) + 1)
  BY <1>1, <1>6
<1>10. \A k \in RowsOf(c) \cap live : log[k].seq < m + 1
  BY <1>3, <1>6, <1>8
<1> QED
  BY <1>7, <1>9, <1>10

\* The row of an INSERT is a row.
LEMMA NewRowFacts ==
  ASSUME Stored, NEW p \in Proc, NEW c \in Chain, NEW prev \in 0 .. Len(log), NEW at \in Nat,
         NEW acked \in BOOLEAN, c \in Tenant => drawn[p][c] # 0
  PROVE  /\ NewRow(p, c, prev, at, acked) \in AuditRow
         /\ NewRow(p, c, prev, at, acked).seq \in 1 .. (Len(log) + 1)
         /\ NewRow(p, c, prev, at, acked).prev = prev
<1>1. Len(log) \in Nat /\ head[p][c] \in HeadState /\ month \in Nat
  BY DEF Stored, Typed, TableTyped, ArchiveTyped, Instance
<1>2. PICK n \in 1 .. (Len(log) + 1) : n = IF c \in Tenant THEN drawn[p][c] ELSE Len(log) + 1
  <2>1. c \in Tenant => drawn[p][c] \in Nat /\ drawn[p][c] <= Len(log) + 1
    BY DEF Stored, Typed, WritersTyped, Numbered
  <2> QED
    BY <1>1, <2>1
<1>3. PICK s \in BOOLEAN : s = (c # "legacy" /\ <<KindOf(c), month>> \notin parts)
  OBVIOUS
<1>4. NewRow(p, c, prev, at, acked) =
        [chain |-> c, prev |-> prev, at |-> at, month |-> month, seq |-> n, stray |-> s,
         by |-> p, acked |-> acked, since |-> head[p][c].since, behind |-> head[p][c].behind,
         tied |-> head[p][c].tied]
  BY <1>2, <1>3 DEF NewRow
<1>5. /\ head[p][c].since \in Nat /\ head[p][c].behind \in BOOLEAN /\ head[p][c].tied \in BOOLEAN
      /\ n \in Nat /\ prev \in Nat
  BY <1>1 DEF HeadState
<1> QED
  BY <1>1, <1>2, <1>4, <1>5 DEF AuditRow

\* One more row at the end of the log.
Grows(r) == r \in AuditRow /\ log' = Append(log, r)

LEMMA GrowFacts ==
  ASSUME log \in Seq(AuditRow), NEW r, Grows(r)
  PROVE  /\ log' \in Seq(AuditRow) /\ Len(log) \in Nat
         /\ Len(log') = Len(log) + 1
         /\ DOMAIN log = 1 .. Len(log) /\ DOMAIN log' = 1 .. (Len(log) + 1)
         /\ \A i \in 1 .. Len(log) : log'[i] = log[i]
         /\ log'[Len(log) + 1] = r
BY AppendProperties DEF Grows

\* A growing log keeps its types; the new row has a number and a predecessor.
LEMMA GrowType ==
  ASSUME Stored, NEW r, Grows(r), r.seq \in 1 .. (Len(log) + 1), r.prev \in 0 .. Len(log),
         live' = live \cup {Len(log) + 1}
  PROVE  /\ log' \in Seq(AuditRow) /\ live' \subseteq DOMAIN log'
         /\ \A i \in DOMAIN log' : log'[i].seq \in 1 .. i /\ log'[i].prev \in 0 .. (i - 1)
<1>1. log \in Seq(AuditRow) /\ live \subseteq DOMAIN log
      /\ \A i \in DOMAIN log : log[i].seq \in 1 .. i /\ log[i].prev \in 0 .. (i - 1)
  BY DEF Stored, Typed, TableTyped
<1>2. PICK n : n = Len(log)
  OBVIOUS
<1>3. /\ log' \in Seq(AuditRow) /\ n \in Nat
      /\ DOMAIN log = 1 .. n /\ DOMAIN log' = 1 .. (n + 1)
      /\ \A i \in 1 .. n : log'[i] = log[i]
      /\ log'[n + 1] = r
  BY <1>1, <1>2, GrowFacts
<1>4. ASSUME NEW i \in DOMAIN log' PROVE log'[i].seq \in 1 .. i /\ log'[i].prev \in 0 .. (i - 1)
  <2>1. CASE i \in 1 .. n
    BY <1>1, <1>3, <2>1
  <2>2. CASE i = n + 1
    <3>1. log'[i] = r /\ i - 1 = n
      BY <1>3, <2>2
    <3> QED
      BY <1>2, <2>2, <3>1
  <2> QED
    BY <1>3, <2>1, <2>2
<1> QED
  BY <1>1, <1>2, <1>3, <1>4

\* What an INSERT of process p into chain c does to the table and the head.
InsertOutcome(p, c, prev, at) ==
  \/ \E r : /\ Grows(r) /\ r = NewRow(p, c, prev, at, TRUE)
            /\ live' = live \cup {Len(log) + 1}
            /\ head' = [head EXCEPT ![p][c].hash = Len(log) + 1]
            /\ mishaps' = mishaps
  \/ log' = log /\ live' = live /\ head' = head /\ mishaps' = mishaps + 1
  \/ \E r : /\ Grows(r) /\ r = NewRow(p, c, prev, at, FALSE)
            /\ live' = live \cup {Len(log) + 1}
            /\ head' = head /\ mishaps' = mishaps + 1

LEMMA InsertEffect ==
  ASSUME Stored, NEW p \in Proc, NEW c \in Chain, NEW prev \in 0 .. Len(log), NEW at \in Nat,
         Insert(p, c, prev, at), c \in Tenant => drawn[p][c] # 0
  PROVE  InsertOutcome(p, c, prev, at)
<1>1. \A b \in BOOLEAN : NewRow(p, c, prev, at, b) \in AuditRow
  BY NewRowFacts
<1>2. NewRow(p, c, prev, at, TRUE) \in AuditRow /\ NewRow(p, c, prev, at, FALSE) \in AuditRow
  BY <1>1
<1> QED
  BY <1>2 DEF Insert, InsertOutcome, Grows

\* A head that moves keeps when it was loaded.
LEMMA HeadMoves ==
  ASSUME NEW h \in HeadState, NEW n \in Nat
  PROVE  /\ [h EXCEPT !.hash = n] \in HeadState /\ [h EXCEPT !.hash = n].hash = n
         /\ [h EXCEPT !.hash = n].since = h.since /\ [h EXCEPT !.hash = n].st = h.st
         /\ [h EXCEPT !.hash = n].behind = h.behind /\ [h EXCEPT !.hash = n].tied = h.tied
BY DEF HeadState

\* An INSERT keeps the types of the table and of the heads.
LEMMA InsertType ==
  ASSUME Stored, NEW p \in Proc, NEW c \in Chain, NEW prev \in 0 .. Len(log), NEW at \in Nat,
         Insert(p, c, prev, at), c \in Tenant => drawn[p][c] # 0
  PROVE  TableTyped'
<1>0. TableTyped
  BY DEF Stored, Typed, TableTyped
<1>1. CASE log' = log /\ live' = live /\ head' = head /\ mishaps' = mishaps + 1
  BY <1>0, <1>1 DEF TableTyped
<1>2. ASSUME NEW r, Grows(r), live' = live \cup {Len(log) + 1}, NEW b \in BOOLEAN,
             r = NewRow(p, c, prev, at, b)
      PROVE  /\ log' \in Seq(AuditRow) /\ live' \subseteq DOMAIN log' /\ Len(log) \in Nat
             /\ Len(log') = Len(log) + 1
             /\ \A i \in DOMAIN log' : log'[i].seq \in 1 .. i /\ log'[i].prev \in 0 .. (i - 1)
  <2>1. r.seq \in 1 .. (Len(log) + 1) /\ r.prev \in 0 .. Len(log)
    <3>1. NewRow(p, c, prev, at, b).seq \in 1 .. (Len(log) + 1)
          /\ NewRow(p, c, prev, at, b).prev = prev
      BY NewRowFacts
    <3> QED
      BY <1>2, <3>1
  <2> QED
    BY <1>0, <1>2, <2>1, GrowFacts, GrowType DEF TableTyped
<1>3. ASSUME head' = head, Len(log) \in Nat, Len(log') = Len(log) + 1
      PROVE  \A q \in Proc, d \in Chain :
               head'[q][d].hash <= Len(log') /\ head'[q][d].since <= Len(log')
  <2>1. \A q \in Proc, d \in Chain : head[q][d].hash \in Nat /\ head[q][d].since \in Nat
    BY <1>0 DEF TableTyped, HeadState
  <2> QED
    BY <1>0, <1>3, <2>1 DEF TableTyped
<1>4. ASSUME head' = [head EXCEPT ![p][c].hash = Len(log) + 1],
             Len(log) \in Nat, Len(log') = Len(log) + 1
      PROVE  /\ head' \in [Proc -> [Chain -> HeadState]]
             /\ \A q \in Proc, d \in Chain :
               head'[q][d].hash <= Len(log') /\ head'[q][d].since <= Len(log')
  <2>1. \A q \in Proc, d \in Chain : head[q][d].hash \in Nat /\ head[q][d].since \in Nat
    BY <1>0 DEF TableTyped, HeadState
  <2>2. Len(log) + 1 \in Nat
    BY <1>4
  <2>3. PICK x : x = [head[p][c] EXCEPT !.hash = Len(log) + 1]
    OBVIOUS
  <2>4. x \in HeadState /\ x.hash = Len(log) + 1 /\ x.since = head[p][c].since
    <3>1. head[p][c] \in HeadState
      BY <1>0 DEF TableTyped
    <3> QED
      BY <2>2, <2>3, <3>1, HeadMoves
  <2>5. head' = [head EXCEPT ![p] = [head[p] EXCEPT ![c] = x]]
    <3>1. head' = [head EXCEPT ![p] = [head[p] EXCEPT ![c] =
                     [head[p][c] EXCEPT !.hash = Len(log) + 1]]]
      BY <1>4, Zenon
    <3> QED
      BY <2>3, <3>1, Zenon
  <2>6. head' \in [Proc -> [Chain -> HeadState]]
    BY <1>0, <2>4, <2>5 DEF TableTyped
  <2>7. \A q \in Proc, d \in Chain : head'[q][d] = head[q][d] \/ head'[q][d] = x
    BY <1>0, <2>5 DEF TableTyped
  <2>8. x.hash <= Len(log') /\ x.since <= Len(log')
    BY <1>0, <1>4, <2>1, <2>2, <2>4 DEF TableTyped
  <2>9. \A q \in Proc, d \in Chain : head[q][d].hash <= Len(log') /\ head[q][d].since <= Len(log')
    BY <1>0, <1>4, <2>1 DEF TableTyped
  <2> QED
    BY <2>6, <2>7, <2>8, <2>9
<1>5. InsertOutcome(p, c, prev, at)
  BY InsertEffect
<1>6. ASSUME NEW r, Grows(r), live' = live \cup {Len(log) + 1}, mishaps' = mishaps,
             r = NewRow(p, c, prev, at, TRUE), head' = [head EXCEPT ![p][c].hash = Len(log) + 1]
      PROVE  TableTyped'
  <2>1. PICK b \in BOOLEAN : b = TRUE
    OBVIOUS
  <2>2. /\ log' \in Seq(AuditRow) /\ live' \subseteq DOMAIN log' /\ Len(log) \in Nat
        /\ Len(log') = Len(log) + 1
        /\ \A i \in DOMAIN log' : log'[i].seq \in 1 .. i /\ log'[i].prev \in 0 .. (i - 1)
    BY <1>2, <1>6, <2>1
  <2> QED
    BY <1>0, <1>4, <1>6, <2>2 DEF TableTyped
<1>7. ASSUME NEW r, Grows(r), live' = live \cup {Len(log) + 1}, mishaps' = mishaps + 1,
             r = NewRow(p, c, prev, at, FALSE), head' = head
      PROVE  TableTyped'
  <2>1. PICK b \in BOOLEAN : b = FALSE
    OBVIOUS
  <2>2. /\ log' \in Seq(AuditRow) /\ live' \subseteq DOMAIN log' /\ Len(log) \in Nat
        /\ Len(log') = Len(log) + 1
        /\ \A i \in DOMAIN log' : log'[i].seq \in 1 .. i /\ log'[i].prev \in 0 .. (i - 1)
    BY <1>2, <1>7, <2>1
  <2> QED
    BY <1>0, <1>3, <1>7, <2>2 DEF TableTyped
<1> QED
  BY <1>1, <1>5, <1>6, <1>7 DEF InsertOutcome

\* The rows of the two tables.
LEMMA RowFacts ==
  ASSUME Stored
  PROVE  /\ DOMAIN log = 1 .. Len(log) /\ Len(log) \in Nat
         /\ \A i \in DOMAIN log :
              /\ log[i] \in AuditRow /\ log[i].at \in Nat /\ log[i].month \in Nat
              /\ log[i].seq \in Nat /\ log[i].since \in Nat /\ log[i].chain \in Chain
              /\ log[i].stray \in BOOLEAN /\ log[i].prev \in Nat
              /\ log[i].behind \in BOOLEAN /\ log[i].tied \in BOOLEAN
         /\ DOMAIN seals = 1 .. Len(seals) /\ Len(seals) \in Nat
         /\ \A j \in DOMAIN seals :
              /\ seals[j] \in SealRow /\ seals[j].end \in Nat /\ seals[j].start \in Nat
              /\ seals[j].head \in Nat
<1>1. log \in Seq(AuditRow) /\ seals \in Seq(SealRow)
  BY DEF Stored, Typed, TableTyped, SealsTyped
<1>2. /\ DOMAIN log = 1 .. Len(log) /\ Len(log) \in Nat
      /\ \A i \in DOMAIN log : log[i] \in AuditRow
  BY <1>1
<1>3. /\ DOMAIN seals = 1 .. Len(seals) /\ Len(seals) \in Nat
      /\ \A j \in DOMAIN seals : seals[j] \in SealRow
  BY <1>1
<1>4. \A r \in AuditRow :
        /\ r.at \in Nat /\ r.month \in Nat /\ r.seq \in Nat /\ r.since \in Nat
        /\ r.chain \in Chain /\ r.stray \in BOOLEAN /\ r.prev \in Nat
        /\ r.behind \in BOOLEAN /\ r.tied \in BOOLEAN
  BY DEF AuditRow
<1>5. \A s \in SealRow : s.end \in Nat /\ s.start \in Nat /\ s.head \in Nat
  BY DEF SealRow
<1> QED
  BY <1>2, <1>3, <1>4, <1>5

\* Which process and which chain a step of the writers is about.
LEMMA Bounds ==
  ASSUME Stored
  PROVE  /\ bound.procs \subseteq Proc
         /\ bound.chains \subseteq Chain \ {"legacy"}
         /\ Tenant \subseteq Chain \ {"legacy", "site"} /\ "legacy" \in Chain /\ "site" \in Chain
BY AuditAssumption DEF Stored, Typed, Instance, Chain

\* Partitions are named once and for all.
LEMMA SamePartitions == bound' = bound => Partition' = Partition
BY DEF Partition

\* A row that is added or left out is not in time to come.
LEMMA InsertClocked ==
  ASSUME Stored, NEW p \in Proc, NEW c \in Chain, NEW prev \in 0 .. Len(log), NEW at \in 0 .. clock,
         Insert(p, c, prev, at), c \in Tenant => drawn[p][c] # 0, clock' = clock, \A q \in Proc : writing'[q].at = writing[q].at
  PROVE  Clocked'
<1>1. at \in Nat /\ clock \in Nat /\ log \in Seq(AuditRow)
  BY DEF Stored, Typed, Clocked, TableTyped
<1>2. ASSUME NEW r, Grows(r), NEW b, r = NewRow(p, c, prev, at, b)
      PROVE  \A i \in DOMAIN log' : log'[i].at <= clock
  <2>1. r.at = at
    BY <1>2 DEF NewRow
  <2>2. \A i \in 1 .. Len(log) : log'[i].at <= clock
    BY <1>1, <1>2, GrowFacts DEF Stored, Typed, Clocked
  <2>3. log'[Len(log) + 1].at <= clock
    BY <1>1, <1>2, <2>1, GrowFacts
  <2>4. DOMAIN log' = 1 .. (Len(log) + 1) /\ Len(log) \in Nat
    BY <1>1, <1>2, GrowFacts
  <2> QED
    BY <2>2, <2>3, <2>4
<1>3. InsertOutcome(p, c, prev, at)
  BY <1>1, InsertEffect
<1>4. \A i \in DOMAIN log' : log'[i].at <= clock
  BY <1>2, <1>3 DEF InsertOutcome, Stored, Typed, Clocked
<1> QED
  BY <1>1, <1>4 DEF Stored, Typed, Clocked

\* The heads' hashes are positions.
LEMMA HeadFacts ==
  ASSUME Stored, NEW p \in Proc, NEW c \in Chain
  PROVE  head[p][c] \in HeadState /\ head[p][c].hash \in 0 .. Len(log) /\ Len(log) \in Nat
         /\ head[p][c].since \in 0 .. Len(log)
<1>1. /\ head[p][c] \in HeadState /\ Len(log) \in Nat
      /\ head[p][c].hash <= Len(log) /\ head[p][c].since <= Len(log)
  BY DEF Stored, Typed, TableTyped
<1> QED
  BY <1>1 DEF HeadState

\* A stage of a write is all that changes in it.
LEMMA StageMoves ==
  ASSUME WritersTyped, NEW p \in Proc, NEW s \in Stages, writing' = [writing EXCEPT ![p].stage = s]
  PROVE  /\ writing' \in [Proc -> WriteState]
         /\ \A q \in Proc : writing'[q].at = writing[q].at
         /\ \A q \in Proc : q # p => writing'[q] = writing[q]
         /\ writing'[p].stage = s
<1>1. writing \in [Proc -> WriteState] /\ writing[p] \in WriteState
  BY DEF WritersTyped
<1>2. PICK w : w = [writing[p] EXCEPT !.stage = s]
  OBVIOUS
<1>3. w \in WriteState /\ w.at = writing[p].at /\ w.stage = s
  BY <1>1, <1>2 DEF WriteState
<1>4. writing' = [writing EXCEPT ![p] = w]
  BY <1>1, <1>2
<1> QED
  BY <1>1, <1>3, <1>4

\* A number is read.
LEMMA DrawType ==
  ASSUME Stored, NEW p \in Proc, NEW t \in Tenant, Draw(p, t)
  PROVE  /\ drawn' \in [Proc -> [Tenant -> Nat]]
         /\ \A q \in Proc, u \in Tenant :
              drawn'[q][u] = IF q = p /\ u = t THEN NextTenantSeq(t) ELSE drawn[q][u]
<1>1. drawn \in [Proc -> [Tenant -> Nat]]
  BY DEF Stored, Typed, WritersTyped
<1>2. PICK n \in Nat : n = NextTenantSeq(t)
  BY SeqFacts, RowFacts
<1>3. drawn' = [drawn EXCEPT ![p] = [drawn[p] EXCEPT ![t] = n]]
  BY <1>1, <1>2 DEF Draw
<1> QED
  BY <1>1, <1>2, <1>3

\* It is used up.
LEMMA UsedType ==
  ASSUME Stored, NEW p \in Proc, NEW t \in Tenant, drawn' = [drawn EXCEPT ![p][t] = 0]
  PROVE  /\ drawn' \in [Proc -> [Tenant -> Nat]]
         /\ \A q \in Proc, u \in Tenant : drawn'[q][u] = IF q = p /\ u = t THEN 0 ELSE drawn[q][u]
<1>1. drawn \in [Proc -> [Tenant -> Nat]]
  BY DEF Stored, Typed, WritersTyped
<1>3. drawn' = [drawn EXCEPT ![p] = [drawn[p] EXCEPT ![t] = 0]]
  BY <1>1
<1> QED
  BY <1>1, <1>3

\* The ways of writing keep the types.
LEMMA WriteType ==
  ASSUME Stored, NEW p \in bound.procs, NEW d \in Chain \ {"legacy"}, bound' = bound,
         \/ WriteBegin(p, d) \/ StoreWrite(p, d) \/ WriteInsert(p) \/ Forward(p)
         \/ d \in Tenant /\ TenantInsert(p, d)
  PROVE  Typed'
<1>0. /\ p \in Proc /\ d \in Chain \ {"legacy"} /\ writing \in [Proc -> WriteState]
      /\ "legacy" \in Chain /\ clock \in Nat /\ writing[p] \in WriteState
      /\ drawn \in [Proc -> [Tenant -> Nat]] /\ "legacy" \notin Tenant /\ "site" \notin Tenant
      /\ "site" \in Chain /\ WritersTyped
  BY Bounds DEF Stored, Typed, WritersTyped, Clocked
<1>p. Partition' = Partition
  BY SamePartitions
<1>1. CASE WriteBegin(p, d)
  <2>1. PICK w : w = [stage |-> "insert", at |-> clock + 1, dest |-> d]
    OBVIOUS
  <2>2. w \in WriteState /\ w.at = clock + 1
    BY <1>0, <2>1 DEF WriteState, Stages
  <2>3. writing' = [writing EXCEPT ![p] = w] /\ clock' = clock + 1
    BY <1>1, <2>1 DEF WriteBegin
  <2>4. UNCHANGED <<log, live, head, waiter, orphan, drawn, month, seals, parts, staged,
                    manifests, archiving, mishaps>>
    BY <1>1 DEF WriteBegin, table, lazy, archive
  <2>5. WritersTyped'
    BY <1>0, <2>2, <2>3, <2>4 DEF WritersTyped
  <2>6. \A q \in Proc : writing[q].at \in Nat /\ writing[q].at <= clock
    BY <1>0 DEF Stored, Typed, Clocked, WriteState
  <2>7. \A q \in Proc : writing'[q].at <= clock + 1
    BY <1>0, <2>2, <2>3, <2>6
  <2>8. \A i \in DOMAIN log : log[i].at <= clock + 1
    <3>1. \A i \in DOMAIN log : log[i].at \in Nat /\ log[i].at <= clock
      BY RowFacts DEF Stored, Typed, Clocked
    <3> QED
      BY <1>0, <3>1
  <2>9. \A j \in DOMAIN seals : seals[j].end <= clock + 1
    <3>1. \A j \in DOMAIN seals : seals[j].end \in Nat /\ seals[j].end <= clock
      BY RowFacts DEF Stored, Typed, SealsTyped
    <3> QED
      BY <1>0, <3>1
  <2>10. Clocked' /\ SealsTyped'
    BY <1>0, <2>3, <2>4, <2>7, <2>8, <2>9 DEF Stored, Typed, Clocked, SealsTyped
  <2>11. TableTyped' /\ ArchiveTyped'
    BY <1>p, <2>4 DEF Stored, Typed, TableTyped, ArchiveTyped
  <2> QED
    BY <2>5, <2>10, <2>11 DEF Stored, Typed
<1>2. ASSUME NEW c \in Chain, NEW at \in 0 .. clock, Insert(p, c, head[p][c].hash, at),
             c \in Tenant => drawn[p][c] # 0,
             NEW s \in Stages, writing' = [writing EXCEPT ![p].stage = s],
             drawn' \in [Proc -> [Tenant -> Nat]],
             UNCHANGED <<waiter, orphan, clock, month, seals, parts, staged, manifests, archiving>>
      PROVE  Typed'
  <2>1. PICK h \in 0 .. Len(log) : h = head[p][c].hash
    BY <1>0, HeadFacts
  <2>2. TableTyped'
    BY <1>0, <1>2, <2>1, InsertType
  <2>3. writing' \in [Proc -> WriteState] /\ \A q \in Proc : writing'[q].at = writing[q].at
    BY <1>0, <1>2, StageMoves
  <2>4. Clocked'
    BY <1>0, <1>2, <2>1, <2>3, InsertClocked
  <2>5. WritersTyped' /\ SealsTyped' /\ ArchiveTyped'
    BY <1>0, <1>p, <1>2, <2>3 DEF Stored, Typed, WritersTyped, SealsTyped, ArchiveTyped
  <2> QED
    BY <2>2, <2>4, <2>5 DEF Stored, Typed
<1>d. ASSUME NEW t \in Tenant, Draw(p, t),
             NEW s \in Stages, writing' = [writing EXCEPT ![p].stage = s]
      PROVE  Typed'
  <2>1. writing' \in [Proc -> WriteState] /\ \A q \in Proc : writing'[q].at = writing[q].at
    BY <1>0, <1>d, StageMoves
  <2>2. UNCHANGED <<log, live, head, waiter, orphan, clock, month, seals, parts, staged,
                    manifests, archiving, mishaps>>
    BY <1>d DEF Draw, table, archive
  <2>3. drawn' \in [Proc -> [Tenant -> Nat]]
    BY <1>0, <1>d, DrawType
  <2>4. WritersTyped'
    BY <1>0, <2>1, <2>2, <2>3 DEF WritersTyped
  <2> QED
    BY <1>p, <2>1, <2>2, <2>4
    DEF Stored, Typed, TableTyped, Clocked, SealsTyped, ArchiveTyped
<1>z. PICK z \in 0 .. clock : z = 0
  BY <1>0
<1>s. /\ writing[p].stage \in Stages /\ "idle" \in Stages /\ "forward" \in Stages /\ "mirror" \in Stages
      /\ writing = [writing EXCEPT ![p].stage = writing[p].stage]
  <2>1. writing[p].stage \in Stages /\ writing[p] = [writing[p] EXCEPT !.stage = writing[p].stage]
    BY <1>0 DEF WriteState
  <2> QED
    BY <1>0, <2>1 DEF Stages
<1>3. CASE StoreWrite(p, d)
  <2>1. PICK s \in Stages : s = writing[p].stage
    BY <1>s
  <2>2. writing' = [writing EXCEPT ![p].stage = s]
    BY <1>3, <1>s, <2>1 DEF StoreWrite
  <2>3. CASE d \in Tenant /\ Draw(p, d)
    BY <1>d, <2>2, <2>3
  <2>4. CASE d = "site" /\ Insert(p, d, head[p][d].hash, z)
             /\ UNCHANGED <<lazy, clock, month, seals, archive>>
    <3>1. UNCHANGED <<waiter, orphan, drawn, clock, month, seals, parts, staged, manifests,
                      archiving>>
      BY <2>4 DEF lazy, archive
    <3> QED
      BY <1>0, <1>2, <2>2, <2>4, <3>1
  <2> QED
    BY <1>3, <1>z, <2>3, <2>4 DEF StoreWrite
<1>4. CASE WriteInsert(p)
  <2>1. PICK s \in Stages : writing' = [writing EXCEPT ![p].stage = s]
    BY <1>4, <1>s DEF WriteInsert
  <2>5. PICK at \in 0 .. clock : at = writing[p].at
    BY <1>0 DEF Stored, Typed, Clocked, WriteState
  <2>6. PICK c \in Chain : c = "legacy" /\ c \notin Tenant
    BY <1>0
  <2>7. Insert(p, c, head[p][c].hash, at)
    BY <1>4, <2>5, <2>6 DEF WriteInsert
  <2>8. UNCHANGED <<waiter, orphan, drawn, clock, month, seals, parts, staged, manifests, archiving>>
    BY <1>4 DEF WriteInsert, lazy, archive
  <2> QED
    BY <1>0, <1>2, <2>1, <2>6, <2>7, <2>8
<1>5. CASE Forward(p)
  <2>1. PICK c \in Chain : c = writing[p].dest
    BY <1>0 DEF WriteState
  <2>2. CASE c \in Tenant /\ Draw(p, c) /\ writing' = [writing EXCEPT ![p].stage = "mirror"]
    BY <1>d, <1>s, <2>2
  <2>3. CASE c = "site" /\ Insert(p, c, head[p][c].hash, z)
             /\ writing' = [writing EXCEPT ![p].stage = "idle"]
             /\ UNCHANGED <<lazy, clock, month, seals, archive>>
    <3>1. UNCHANGED <<waiter, orphan, drawn, clock, month, seals, parts, staged, manifests,
                      archiving>>
      BY <2>3 DEF lazy, archive
    <3> QED
      BY <1>0, <1>2, <1>s, <2>3, <3>1
  <2> QED
    BY <1>5, <1>z, <2>1, <2>2, <2>3 DEF Forward
<1>6. CASE d \in Tenant /\ TenantInsert(p, d)
  <2>1. PICK s \in Stages : writing' = [writing EXCEPT ![p].stage = s]
    <3>1. PICK s : s = IF writing[p].stage = "mirror" /\ writing[p].dest = d THEN "idle"
                       ELSE writing[p].stage
      OBVIOUS
    <3>2. writing' = [writing EXCEPT ![p].stage = s]
      BY <1>0, <1>6, <3>1 DEF TenantInsert
    <3> QED
      BY <1>s, <3>1, <3>2
  <2>2. drawn' \in [Proc -> [Tenant -> Nat]]
    <3>1. drawn' = [drawn EXCEPT ![p][d] = 0]
      BY <1>6 DEF TenantInsert
    <3> QED
      BY <1>0, <1>6, <3>1, UsedType
  <2>3. Insert(p, d, head[p][d].hash, z) /\ drawn[p][d] # 0
        /\ UNCHANGED <<waiter, orphan, clock, month, seals, parts, staged, manifests, archiving>>
    BY <1>6, <1>z DEF TenantInsert, archive
  <2> QED
    BY <1>0, <1>2, <2>1, <2>2, <2>3
<1> QED
  BY <1>1, <1>3, <1>4, <1>5, <1>6

\* Replacing the head of one chain in one process.
LEMMA HeadType ==
  ASSUME Stored, NEW p \in Proc, NEW c \in Chain, NEW h \in HeadState,
         h.hash <= Len(log), h.since <= Len(log), head' = [head EXCEPT ![p][c] = h],
         UNCHANGED <<log, live>>, mishaps' \in Nat
  PROVE  TableTyped'
<1>1. head \in [Proc -> [Chain -> HeadState]]
  BY DEF Stored, Typed, TableTyped
<1>2. head' = [head EXCEPT ![p] = [head[p] EXCEPT ![c] = h]]
  BY <1>1
<1>3. head' \in [Proc -> [Chain -> HeadState]]
  BY <1>1, <1>2
<1>4. \A q \in Proc, d \in Chain : head'[q][d] = head[q][d] \/ head'[q][d] = h
  BY <1>1, <1>2
<1> QED
  BY <1>3, <1>4 DEF Stored, Typed, TableTyped

\* The lazy load of a tenant's head keeps the types.
LEMMA LoadType ==
  ASSUME Stored, NEW p \in bound.procs, NEW t \in Tenant, bound' = bound,
         LoadBegin(p, t) \/ LoadWait(p, t) \/ LoadDone(p, t) \/ LoadFail(p, t)
  PROVE  Typed'
<1>0. /\ p \in Proc /\ t \in Chain /\ Len(log) \in Nat /\ log \in Seq(AuditRow)
      /\ mishaps \in Nat /\ mishaps + 1 \in Nat /\ WritersTyped
  BY Bounds, RowFacts DEF Stored, Typed, TableTyped
<1>p. Partition' = Partition
  BY SamePartitions
<1>h. /\ Absent \in HeadState /\ Absent.hash <= Len(log) /\ Absent.since <= Len(log)
      /\ Loading \in HeadState /\ Loading.hash <= Len(log) /\ Loading.since <= Len(log)
  BY <1>0, AbsentFacts DEF Absent, Loading, Genesis
<1>1. ASSUME UNCHANGED <<log, live, clock, month, seals, parts, staged, manifests, archiving>>,
             TableTyped', WritersTyped', \A q \in Proc : writing'[q].at = writing[q].at
      PROVE  Typed'
  BY <1>p, <1>1 DEF Stored, Typed, Clocked, SealsTyped, ArchiveTyped
<1>2. CASE LoadBegin(p, t)
  <2>1. TableTyped'
    <3>1. PICK h \in HeadState : h = Loading
      BY <1>h
    <3>2. head' = [head EXCEPT ![p][t] = h] /\ UNCHANGED <<log, live, mishaps>>
      BY <1>2, <3>1 DEF LoadBegin, table
    <3> QED
      BY <1>0, <1>h, <3>1, <3>2, HeadType
  <2> QED
    BY <1>1, <1>2, <2>1 DEF LoadBegin, table, lazy, archive, Stored, Typed, WritersTyped
<1>3. CASE LoadWait(p, t)
  <2>1. TableTyped'
    BY <1>3 DEF LoadWait, table, Stored, Typed, TableTyped
  <2>2. WritersTyped'
    BY <1>0, <1>3 DEF LoadWait, WritersTyped
  <2> QED
    BY <1>1, <1>3, <2>1, <2>2 DEF LoadWait, table, archive
<1>4. CASE LoadDone(p, t)
  <2>1. TableTyped'
    <3>1. PICK r \in TenantHeads(t) : head' = [head EXCEPT ![p][t] = Loaded(t, r)]
      BY <1>4 DEF LoadDone
    <3>2. r \in 0 .. Len(log)
      BY <1>0, <3>1, FoundFacts DEF Found
    <3>3. PICK h : h = Loaded(t, r)
      OBVIOUS
    <3>4. h \in HeadState /\ h.hash <= Len(log) /\ h.since <= Len(log)
      <4>1. /\ Loaded(t, r) \in HeadState /\ Loaded(t, r).hash = r
            /\ Loaded(t, r).since = Len(log)
        BY <1>0, <3>2, LoadedFacts
      <4> QED
        BY <1>0, <3>2, <3>3, <4>1
    <3>5. head' = [head EXCEPT ![p][t] = h] /\ UNCHANGED <<log, live, mishaps>>
      BY <1>4, <3>1, <3>3 DEF LoadDone, table
    <3> QED
      BY <1>0, <3>4, <3>5, HeadType
  <2>2. WritersTyped'
    BY <1>0, <1>4 DEF LoadDone, WritersTyped
  <2> QED
    BY <1>1, <1>4, <2>1, <2>2 DEF LoadDone, table, archive
<1>5. CASE LoadFail(p, t)
  <2>1. TableTyped'
    <3>1. PICK h \in HeadState : h = Absent
      BY <1>h
    <3>2. head' = [head EXCEPT ![p][t] = h] /\ UNCHANGED <<log, live>> /\ mishaps' = mishaps + 1
      BY <1>5, <3>1 DEF LoadFail, table
    <3> QED
      BY <1>0, <1>h, <3>1, <3>2, HeadType
  <2>2. writing \in [Proc -> WriteState] /\ writing[p] \in WriteState
    BY <1>0 DEF WritersTyped
  <2>3. PICK s \in Stages :
          s = IF writing[p].stage = "forward" /\ writing[p].dest = t THEN "idle"
              ELSE writing[p].stage
    BY <2>2 DEF WriteState, Stages
  <2>4. writing' = [writing EXCEPT ![p].stage = s]
    BY <1>0, <1>5, <2>2, <2>3 DEF LoadFail
  <2>5. writing' \in [Proc -> WriteState] /\ \A q \in Proc : writing'[q].at = writing[q].at
    BY <1>0, <2>4, StageMoves
  <2>6. waiter' \subseteq Proc \X Tenant /\ orphan' \subseteq Proc \X Tenant \X Nat
        /\ drawn' \in [Proc -> [Tenant -> Nat]]
    <3>1. <<p, t, 0>> \in Proc \X Tenant \X Nat
      BY <1>0
    <3> QED
      BY <1>0, <1>5, <3>1 DEF LoadFail, WritersTyped
  <2>7. WritersTyped'
    BY <2>5, <2>6 DEF WritersTyped
  <2> QED
    BY <1>1, <1>5, <2>1, <2>5, <2>7 DEF LoadFail, table, archive
<1> QED
  BY <1>2, <1>3, <1>4, <1>5

\* What a boot leaves are heads.
LEMMA BootedFacts ==
  ASSUME log \in Seq(AuditRow)
  PROVE  /\ Booted \in [Chain -> HeadState]
         /\ \A c \in Chain : Booted[c].hash <= Len(log) /\ Booted[c].since <= Len(log)
         /\ \A c \in Chain \ Tenant : Booted[c] = Loaded(c, LatestHash(c))
         /\ \A c \in Tenant : Booted[c] = Absent
<1>0. Len(log) \in Nat /\ Tenant \subseteq Chain
  BY DEF Chain
<1>1. ASSUME NEW c \in Chain, NEW h, h = Loaded(c, LatestHash(c))
      PROVE  h \in HeadState /\ h.hash <= Len(log) /\ h.since <= Len(log)
  <2>1. PICK n \in 0 .. Len(log) : n = LatestHash(c)
    BY <1>0, LatestFacts
  <2>2. Loaded(c, n) \in HeadState /\ Loaded(c, n).hash = n /\ Loaded(c, n).since = Len(log)
    BY <1>0, <2>1, LoadedFacts
  <2> QED
    BY <1>0, <1>1, <2>1, <2>2
<1>2. Absent \in HeadState /\ Absent.hash <= Len(log) /\ Absent.since <= Len(log)
  BY <1>0, AbsentFacts DEF Absent, Genesis
<1> QED
  BY <1>0, <1>1, <1>2 DEF Booted

\* A restart keeps the types.
LEMMA RestartType ==
  ASSUME Stored, NEW p \in bound.procs, bound' = bound, Restart(p)
  PROVE  Typed'
<1>0. /\ p \in Proc /\ head \in [Proc -> [Chain -> HeadState]] /\ WritersTyped
  BY Bounds DEF Stored, Typed, TableTyped
<1>p. Partition' = Partition
  BY SamePartitions
<1>b. log \in Seq(AuditRow)
  BY DEF Stored, Typed, TableTyped
<1>1. PICK b \in [Chain -> HeadState] : b = Booted
  BY <1>b, BootedFacts
<1>2. head' = [head EXCEPT ![p] = b]
      /\ UNCHANGED <<log, live, clock, month, seals, parts, staged, manifests, archiving>>
  BY <1>1 DEF Restart, table, archive
<1>3. head' \in [Proc -> [Chain -> HeadState]]
  BY <1>0, <1>2
<1>4. \A q \in Proc : head'[q] = IF q = p THEN b ELSE head[q]
  BY <1>0, <1>2
<1>5. \A q \in Proc, c \in Chain : head'[q][c].hash <= Len(log) /\ head'[q][c].since <= Len(log)
  BY <1>b, <1>1, <1>4, BootedFacts DEF Stored, Typed, TableTyped
<1>6. TableTyped'
  <2>1. mishaps' \in Nat
    BY DEF Restart, Stored, Typed, TableTyped
  <2> QED
    BY <1>2, <1>3, <1>5, <2>1 DEF Stored, Typed, TableTyped
<1>7. PICK s \in Stages : s = "idle"
  BY DEF Stages
<1>8. writing' = [writing EXCEPT ![p].stage = s]
  BY <1>7 DEF Restart
<1>9. writing' \in [Proc -> WriteState] /\ \A q \in Proc : writing'[q].at = writing[q].at
  BY <1>0, <1>8, StageMoves
<1>10. drawn' \in [Proc -> [Tenant -> Nat]]
  <2>1. NoneDrawn \in [Tenant -> Nat]
    BY DEF NoneDrawn
  <2> QED
    BY <1>0, <2>1 DEF Restart, WritersTyped
<1>11. waiter' \subseteq waiter /\ orphan' \subseteq orphan
  BY DEF Restart
<1>12. WritersTyped'
  BY <1>0, <1>9, <1>10, <1>11 DEF WritersTyped
<1> QED
  BY <1>p, <1>2, <1>6, <1>9, <1>12 DEF Stored, Typed, Clocked, SealsTyped, ArchiveTyped

\* The row a goroutine writes with a dropped chain object.
OrphanRow(p, t, n) ==
  [NewRow(p, t, Genesis, 0, TRUE) EXCEPT !.by = Len(log) + 1, !.seq = n, !.since = 0,
                                         !.behind = FALSE, !.tied = FALSE]

LEMMA OrphanFacts ==
  ASSUME Stored, NEW p \in Proc, NEW t \in Tenant, NEW n \in Nat
  PROVE  /\ OrphanRow(p, t, n) \in AuditRow /\ OrphanRow(p, t, n).seq = n
         /\ OrphanRow(p, t, n).prev = 0 /\ OrphanRow(p, t, n).at = 0
         /\ OrphanRow(p, t, n).chain = t
         /\ OrphanRow(p, t, n).by = Len(log) + 1 /\ OrphanRow(p, t, n).since = 0
         /\ OrphanRow(p, t, n).behind = FALSE /\ OrphanRow(p, t, n).tied = FALSE
         /\ OrphanRow(p, t, n).acked = TRUE /\ OrphanRow(p, t, n).month = month
         /\ OrphanRow(p, t, n).stray = (<<KindOf(t), month>> \notin parts)
<1>0. Len(log) \in Nat /\ t \in Chain /\ t # "legacy" /\ month \in Nat
  BY RowFacts, Bounds DEF Stored, Typed, ArchiveTyped, Instance
<1>2. PICK x : x = OrphanRow(p, t, n)
  OBVIOUS
<1>3. PICK s \in BOOLEAN : s = (t # "legacy" /\ <<KindOf(t), month>> \notin parts)
  OBVIOUS
<1>4. PICK b \in BOOLEAN : b = TRUE
  OBVIOUS
<1>5. PICK f \in BOOLEAN : f = FALSE
  OBVIOUS
<1>6. x = [chain |-> t, prev |-> 0, at |-> 0, month |-> month, seq |-> n,
           stray |-> s, by |-> Len(log) + 1, acked |-> b, since |-> 0, behind |-> f, tied |-> f]
  BY <1>2, <1>3, <1>4, <1>5 DEF OrphanRow, NewRow, Genesis
<1>7. x \in AuditRow
  BY <1>0, <1>6 DEF AuditRow
<1> QED
  BY <1>0, <1>2, <1>3, <1>4, <1>5, <1>6, <1>7

\* The INSERT of that row begins.
LEMMA OrphanDrawType ==
  ASSUME Stored, NEW p \in bound.procs, NEW t \in Tenant, bound' = bound, OrphanDraw(p, t)
  PROVE  /\ Typed'
         /\ UNCHANGED <<log, live, head, waiter, drawn, writing, clock, month, seals, parts, staged,
                        manifests, archiving, mishaps>>
<1>0. p \in Proc /\ WritersTyped
  BY Bounds DEF Stored, Typed
<1>1. UNCHANGED <<log, live, head, waiter, drawn, writing, clock, month, seals, parts, staged,
                  manifests, archiving, mishaps>>
  BY DEF OrphanDraw, table, archive
<1>2. PICK n \in Nat : n = NextTenantSeq(t)
  BY SeqFacts, RowFacts
<1>3. orphan' \subseteq orphan \cup {<<p, t, n>>}
  BY <1>2 DEF OrphanDraw
<1>4. WritersTyped'
  BY <1>0, <1>1, <1>3 DEF WritersTyped
<1>p. Partition' = Partition
  BY SamePartitions
<1> QED
  BY <1>p, <1>1, <1>4 DEF Stored, Typed, TableTyped, Clocked, SealsTyped, ArchiveTyped

\* And it ends.
LEMMA OrphanType ==
  ASSUME Stored, NEW p \in bound.procs, NEW t \in Tenant, NEW n \in Nat, bound' = bound,
         OrphanWrite(p, t, n)
  PROVE  /\ Typed' /\ Grows(OrphanRow(p, t, n)) /\ live' = live \cup {Len(log) + 1}
         /\ n \in 1 .. (Len(log) + 1) /\ orphan' \subseteq orphan
         /\ UNCHANGED <<head, waiter, drawn, writing, clock, month, seals, parts, staged, manifests,
                        archiving, mishaps>>
<1>0. p \in Proc /\ log \in Seq(AuditRow) /\ clock \in Nat /\ Len(log) \in Nat
  BY Bounds DEF Stored, Typed, TableTyped, Clocked
<1>p. Partition' = Partition
  BY SamePartitions
<1>1. PICK r : r = OrphanRow(p, t, n)
  OBVIOUS
<1>n. n \in 1 .. (Len(log) + 1)
  <2>1. <<p, t, n>> \in orphan /\ n # 0
    BY DEF OrphanWrite
  <2>2. n <= Len(log) + 1
    BY <2>1 DEF Stored, Numbered
  <2> QED
    BY <1>0, <2>1, <2>2
<1>2. /\ r \in AuditRow /\ r.seq \in 1 .. (Len(log) + 1) /\ r.prev = 0 /\ r.at = 0
  <2>1. /\ OrphanRow(p, t, n) \in AuditRow /\ OrphanRow(p, t, n).seq = n
        /\ OrphanRow(p, t, n).prev = 0 /\ OrphanRow(p, t, n).at = 0
    <3>1. Stored /\ p \in Proc /\ t \in Tenant /\ n \in Nat
      BY <1>0
    <3> QED
      BY ONLY <3>1, OrphanFacts
  <2> QED
    BY <1>1, <1>n, <2>1
<1>3. Grows(r) /\ live' = live \cup {Len(log) + 1} /\ orphan' \subseteq orphan
      /\ UNCHANGED <<head, waiter, drawn, writing, clock, month, seals, parts, staged, manifests,
                     archiving, mishaps>>
  BY <1>1, <1>2 DEF OrphanWrite, OrphanRow, Grows, archive
<1>4. /\ log' \in Seq(AuditRow) /\ live' \subseteq DOMAIN log'
      /\ \A i \in DOMAIN log' : log'[i].seq \in 1 .. i /\ log'[i].prev \in 0 .. (i - 1)
  <2>1. r.prev \in 0 .. Len(log)
    BY <1>2, RowFacts
  <2> QED
    BY <1>2, <1>3, <2>1, GrowType
<1>5. /\ Len(log') = Len(log) + 1 /\ Len(log) \in Nat /\ DOMAIN log' = 1 .. (Len(log) + 1)
      /\ DOMAIN log = 1 .. Len(log)
      /\ \A i \in 1 .. Len(log) : log'[i] = log[i]
      /\ log'[Len(log) + 1] = r
  BY <1>0, <1>3, GrowFacts
<1>6. \A q \in Proc, c \in Chain : head[q][c].hash <= Len(log') /\ head[q][c].since <= Len(log')
  <2>1. \A q \in Proc, c \in Chain : head[q][c].hash \in 0 .. Len(log)
                                   /\ head[q][c].since \in 0 .. Len(log)
    BY HeadFacts
  <2> QED
    BY <1>5, <2>1
<1>7. TableTyped'
  BY <1>3, <1>4, <1>6 DEF Stored, Typed, TableTyped
<1>8. \A i \in DOMAIN log' : log'[i].at <= clock
  <2>1. \A i \in 1 .. Len(log) : log[i].at <= clock
    BY <1>5 DEF Stored, Typed, Clocked
  <2>2. r.at <= clock
    BY <1>0, <1>2
  <2> QED
    BY <1>5, <2>1, <2>2
<1>9. Clocked' /\ SealsTyped'
  BY <1>3, <1>8 DEF Stored, Typed, Clocked, SealsTyped
<1>10. WritersTyped' /\ ArchiveTyped'
  BY <1>p, <1>3 DEF Stored, Typed, WritersTyped, ArchiveTyped
<1> QED
  BY <1>n, <1>1, <1>3, <1>7, <1>9, <1>10 DEF Stored, Typed

\* What SealUnsealed reads.
LEMMA UnsealedFacts ==
  ASSUME Stored
  PROVE  /\ LastSealed \in 0 .. clock
         /\ LastSealed = 0 \/ \E j \in DOMAIN seals : LastSealed = seals[j].end
         /\ \A j \in DOMAIN seals : seals[j].end <= LastSealed
         /\ Unsealed \subseteq RowsOf("legacy") /\ Unsealed \subseteq 1 .. Len(log)
         /\ IsFiniteSet(Unsealed) /\ Cardinality(Unsealed) \in Nat
         /\ Unsealed # {} =>
              /\ Min(Unsealed) \in Unsealed /\ \A i \in Unsealed : Min(Unsealed) <= i
              /\ Max(Unsealed) \in Unsealed /\ \A i \in Unsealed : i <= Max(Unsealed)
<1>0. /\ Len(log) \in Nat /\ clock \in Nat /\ DOMAIN log = 1 .. Len(log)
      /\ \A j \in DOMAIN seals : seals[j].end \in 0 .. clock
  BY RowFacts DEF Stored, Typed, Clocked, SealsTyped
<1> DEFINE T == {seals[j].end : j \in DOMAIN seals} \cup {0}
<1>1. T \in SUBSET (0 .. clock) /\ T # {}
  BY <1>0
<1>2. Max(T) \in T /\ \A y \in T : y <= Max(T)
  BY <1>0, <1>1, MaxOfSome
<1>3. LastSealed = Max(T)
  BY DEF LastSealed
<1>4. /\ LastSealed \in 0 .. clock
      /\ LastSealed = 0 \/ \E j \in DOMAIN seals : LastSealed = seals[j].end
      /\ \A j \in DOMAIN seals : seals[j].end <= LastSealed
  BY <1>1, <1>2, <1>3
<1>5. Unsealed \subseteq RowsOf("legacy") /\ Unsealed \subseteq 1 .. Len(log)
  BY <1>0 DEF Unsealed, RowsOf
<1>6. IsFiniteSet(1 .. Len(log))
  <2>1. 1 \in Int /\ Len(log) \in Int
    BY <1>0
  <2> QED
    BY <2>1, FS_Interval
<1>7. IsFiniteSet(Unsealed) /\ Cardinality(Unsealed) \in Nat
  BY <1>5, <1>6, FS_Subset, FS_CardinalityType
<1>8. ASSUME Unsealed # {}
      PROVE  /\ Min(Unsealed) \in Unsealed /\ \A i \in Unsealed : Min(Unsealed) <= i
             /\ Max(Unsealed) \in Unsealed /\ \A i \in Unsealed : i <= Max(Unsealed)
  <2>1. Unsealed \in SUBSET Nat /\ Unsealed \in SUBSET (0 .. Len(log))
    BY <1>0, <1>5
  <2> QED
    BY <1>0, <1>8, <2>1, MinOfSome, MaxOfSome
<1> QED
  BY <1>4, <1>5, <1>7, <1>8

\* The seal that is added.
NewSeal == [start |-> IF seals = <<>> THEN log[Min(Unsealed)].at ELSE LastSealed,
            end |-> log[Max(Unsealed)].at, count |-> Cardinality(Unsealed),
            head |-> Max(Unsealed)]

LEMMA SealFacts ==
  ASSUME Stored, Unsealed # {}
  PROVE  /\ NewSeal \in SealRow /\ NewSeal.end <= clock
         /\ NewSeal.end = log[Max(Unsealed)].at /\ NewSeal.head = Max(Unsealed)
         /\ NewSeal.count = Cardinality(Unsealed)
         /\ NewSeal.start = IF seals = <<>> THEN log[Min(Unsealed)].at ELSE LastSealed
<1>1. PICK a \in 1 .. Len(log) : a = Min(Unsealed)
  BY UnsealedFacts
<1>2. PICK z \in 1 .. Len(log) : z = Max(Unsealed)
  BY UnsealedFacts
<1>3. log[a].at \in Nat /\ log[z].at \in Nat /\ log[z].at <= clock /\ z \in Nat
  BY RowFacts DEF Stored, Typed, Clocked
<1>4. PICK n \in Nat : n = Cardinality(Unsealed)
  BY UnsealedFacts
<1>5. PICK s \in Nat : s = IF seals = <<>> THEN log[Min(Unsealed)].at ELSE LastSealed
  BY <1>1, <1>3, UnsealedFacts
<1>6. PICK e \in Nat : e = log[Max(Unsealed)].at /\ e <= clock
  BY <1>2, <1>3
<1>7. NewSeal = [start |-> s, end |-> e, count |-> n, head |-> z]
  BY <1>2, <1>4, <1>5, <1>6 DEF NewSeal
<1> QED
  BY <1>2, <1>3, <1>4, <1>5, <1>6, <1>7 DEF SealRow

\* Sealing keeps the types.
LEMMA SealType ==
  ASSUME Stored, bound' = bound, SealUnsealed
  PROVE  /\ Typed' /\ Unsealed # {} /\ seals' = Append(seals, NewSeal)
         /\ UNCHANGED <<log, live, head, waiter, orphan, drawn, writing, clock, month, parts,
                        staged, manifests, archiving, mishaps>>
<1>p. Partition' = Partition
  BY SamePartitions
<1>1. /\ Unsealed # {} /\ seals' = Append(seals, NewSeal)
      /\ UNCHANGED <<log, live, head, waiter, orphan, drawn, writing, clock, month, parts,
                     staged, manifests, archiving, mishaps>>
  BY DEF SealUnsealed, NewSeal, table, lazy, archive
<1>2. PICK s \in SealRow : s = NewSeal /\ s.end <= clock
  BY <1>1, SealFacts
<1>3. seals \in Seq(SealRow) /\ \A j \in DOMAIN seals : seals[j].end <= clock
  BY DEF Stored, Typed, SealsTyped
<1>4. seals' \in Seq(SealRow) /\ \A j \in DOMAIN seals' : seals'[j] = s \/ seals'[j].end <= clock
  BY <1>1, <1>2, <1>3, AppendProperties
<1>5. SealsTyped'
  BY <1>1, <1>2, <1>4 DEF SealsTyped
<1> QED
  BY <1>p, <1>1, <1>5 DEF Stored, Typed, TableTyped, WritersTyped, Clocked, ArchiveTyped

\* Only partitions of this month and the next are created.
LEMMA CreatedFacts ==
  ASSUME Stored
  PROVE  /\ Created \subseteq Partition
         /\ \A pt \in Created : pt[2] \in {month, month + 1}
<1>1. month \in 0 .. bound.months /\ bound.months \in Nat
  BY DEF Stored, Typed, ArchiveTyped, Instance
<1>2. \A i \in 1 .. 4 : WantedPartitions[i] \in Kind \X {month, month + 1}
  <2>1. /\ WantedPartitions[1] = <<"site", month>> /\ WantedPartitions[2] = <<"tenant", month>>
        /\ WantedPartitions[3] = <<"site", month + 1>>
        /\ WantedPartitions[4] = <<"tenant", month + 1>>
    BY DEF WantedPartitions
  <2>2. \A i \in 1 .. 4 : i = 1 \/ i = 2 \/ i = 3 \/ i = 4
    OBVIOUS
  <2> QED
    BY <2>1, <2>2 DEF Kind
<1>3. Created \subseteq Kind \X {month, month + 1}
  BY <1>2 DEF Created
<1>4. {month, month + 1} \subseteq 0 .. (bound.months + 1)
  BY <1>1
<1> QED
  BY <1>3, <1>4 DEF Partition

\* The calendar and the sweep keep the types.
LEMMA SweepType ==
  ASSUME Stored, bound' = bound,
         \/ NextMonth \/ EnsurePartitions \/ \E pt \in Partition : ArchiveStage(pt)
         \/ ArchivePut \/ ArchiveDrop \/ ArchiveAbort
  PROVE  /\ Typed' /\ live' \subseteq live
         /\ UNCHANGED <<log, head, waiter, orphan, drawn, writing, clock, seals>>
<1>p. Partition' = Partition
  BY SamePartitions
<1>a. ArchiveTyped /\ bound.months \in Nat
  BY DEF Stored, Typed, Instance
<1>1. ASSUME UNCHANGED <<log, head, waiter, orphan, drawn, writing, clock, seals>>,
             live' \subseteq live, ArchiveTyped', mishaps' \in Nat
      PROVE  Typed'
  BY <1>1 DEF Stored, Typed, TableTyped, WritersTyped, Clocked, SealsTyped
<1>m. mishaps \in Nat /\ mishaps + 1 \in Nat
  BY DEF Stored, Typed, TableTyped
<1>2. CASE NextMonth
  <2>1. ArchiveTyped'
    BY <1>p, <1>a, <1>2 DEF NextMonth, archive, ArchiveTyped
  <2> QED
    BY <1>1, <1>2, <1>m, <2>1 DEF NextMonth, table, lazy, archive
<1>3. CASE EnsurePartitions
  <2>1. ArchiveTyped'
    BY <1>p, <1>a, <1>3, CreatedFacts DEF EnsurePartitions, ArchiveTyped
  <2> QED
    BY <1>1, <1>3, <1>m, <2>1 DEF EnsurePartitions, table, lazy
<1>4. ASSUME NEW pt \in Partition, ArchiveStage(pt)
      PROVE  Typed' /\ live' \subseteq live
             /\ UNCHANGED <<log, head, waiter, orphan, drawn, writing, clock, seals>>
  <2>1. PICK S \in SUBSET Nat : S = PartitionRows(pt[1], pt[2])
    <3>1. live \subseteq Nat
      BY RowFacts DEF Stored, Typed, TableTyped
    <3>2. PartitionRows(pt[1], pt[2]) \subseteq live
      BY DEF PartitionRows
    <3> QED
      BY <3>1, <3>2
  <2>2. staged' \in [Partition -> SUBSET Nat]
    BY <1>a, <1>4, <2>1 DEF ArchiveStage, ArchiveTyped
  <2>3. PICK s \in {"idle", "put", "drop"} : s = "put"
    OBVIOUS
  <2>4. archiving' = [stage |-> s, part |-> pt]
    BY <1>4, <2>3 DEF ArchiveStage
  <2>5. ArchiveTyped'
    BY <1>p, <1>a, <1>4, <2>2, <2>4 DEF ArchiveStage, ArchiveTyped
  <2> QED
    BY <1>1, <1>4, <1>m, <2>5 DEF ArchiveStage, table, lazy
<1>5. ASSUME NEW s \in {"idle", "put", "drop"}, archiving' = [archiving EXCEPT !.stage = s]
      PROVE  archiving' \in [stage : {"idle", "put", "drop"}, part : Partition]
  BY <1>a, <1>5 DEF ArchiveTyped
<1>6. CASE ArchivePut
  <2>1. archiving' \in [stage : {"idle", "put", "drop"}, part : Partition]
    BY <1>5, <1>6 DEF ArchivePut
  <2>2. archiving.part \in Partition
    BY <1>a DEF ArchiveTyped
  <2>3. ArchiveTyped'
    BY <1>p, <1>a, <1>6, <2>1, <2>2 DEF ArchivePut, ArchiveTyped
  <2> QED
    BY <1>1, <1>6, <1>m, <2>3 DEF ArchivePut, table, lazy
<1>7. CASE ArchiveDrop
  <2>1. archiving' \in [stage : {"idle", "put", "drop"}, part : Partition]
    BY <1>5, <1>7 DEF ArchiveDrop
  <2>2. ArchiveTyped'
    BY <1>p, <1>a, <1>7, <2>1 DEF ArchiveDrop, ArchiveTyped
  <2> QED
    BY <1>1, <1>7, <1>m, <2>2 DEF ArchiveDrop, lazy
<1>8. CASE ArchiveAbort
  <2>1. archiving' \in [stage : {"idle", "put", "drop"}, part : Partition]
    BY <1>5, <1>8 DEF ArchiveAbort
  <2>2. ArchiveTyped'
    BY <1>p, <1>a, <1>8, <2>1 DEF ArchiveAbort, ArchiveTyped
  <2> QED
    BY <1>1, <1>8, <1>m, <2>2 DEF ArchiveAbort, table, lazy
<1> QED
  BY <1>2, <1>3, <1>4, <1>6, <1>7, <1>8

\* The steps that change neither the log nor a head.
Sweep == \/ NextMonth \/ EnsurePartitions \/ \E pt \in Partition : ArchiveStage(pt)
         \/ ArchivePut \/ ArchiveDrop \/ ArchiveAbort

\* The tables of a new installation are well typed.
LEMMA StoredInit == Init => Stored
<1> SUFFICES ASSUME Init PROVE Stored
  OBVIOUS
<1>1. bound \in Instance /\ bound.months \in Nat /\ bound.months + 1 \in Nat
  BY AuditAssumption DEF Init, Instance
<1>2. log = <<>> /\ log \in Seq(AuditRow) /\ Len(log) = 0 /\ DOMAIN log = {} /\ live = {}
  BY DEF Init
<1>3. TableTyped
  <2>1. PICK b \in [Chain -> HeadState] : b = Booted
    BY <1>2, BootedFacts
  <2>2. head = [p \in Proc |-> b] /\ mishaps \in Nat
    BY <2>1 DEF Init
  <2>3. \A c \in Chain : b[c].hash <= Len(log) /\ b[c].since <= Len(log)
    BY <1>2, <2>1, BootedFacts
  <2> QED
    BY <1>2, <2>2, <2>3 DEF TableTyped
<1>4. WritersTyped
  <2>1. PICK w : w = [stage |-> "idle", at |-> 0, dest |-> "site"]
    OBVIOUS
  <2>2. w \in WriteState /\ NoneDrawn \in [Tenant -> Nat]
    BY <2>1 DEF WriteState, Stages, Chain, NoneDrawn
  <2> QED
    BY <2>1, <2>2 DEF Init, WritersTyped
<1>5. Clocked /\ SealsTyped
  BY <1>2 DEF Init, Clocked, SealsTyped
<1>6. ArchiveTyped
  <2>1. <<"site", 0>> \in Partition
    BY <1>1 DEF Partition, Kind
  <2>2. month \in 0 .. bound.months /\ parts = {} /\ manifests = {}
    BY <1>1 DEF Init
  <2>3. staged \in [Partition -> SUBSET Nat]
    BY DEF Init
  <2>4. archiving \in [stage : {"idle", "put", "drop"}, part : Partition]
    BY <2>1 DEF Init
  <2> QED
    BY <2>2, <2>3, <2>4 DEF ArchiveTyped
<1>7. Numbered
  <2>1. \A p \in Proc, t \in Tenant : drawn[p][t] = 0
    BY DEF Init, NoneDrawn
  <2> QED
    BY <1>2, <2>1 DEF Init, Numbered
<1> QED
  BY <1>1, <1>3, <1>4, <1>5, <1>6, <1>7 DEF Stored, Typed

-----------------------------------------------------------------------------
(* The steps by what they do to the chains *)

\* Neither the seals nor the sweep take part.
Aside == UNCHANGED <<clock, month, seals, parts, staged, manifests, archiving>>

\* Process p adds a row to chain c, linked to the head it holds.
Appends(p, c, at, b) ==
  /\ Grows(NewRow(p, c, head[p][c].hash, at, b))
  /\ live' = live \cup {Len(log) + 1}
  /\ head' = IF b THEN [head EXCEPT ![p][c].hash = Len(log) + 1] ELSE head
  /\ c = "legacy" => writing[p].stage = "insert" /\ at = writing[p].at
  /\ c \in Tenant => drawn[p][c] # 0
  /\ \A q \in Proc, t \in Tenant :
       drawn'[q][t] = IF q = p /\ t = c THEN 0 ELSE drawn[q][t]
  /\ orphan' = orphan
  /\ \A q \in Proc : /\ writing'[q].at = writing[q].at
                     /\ writing'[q].stage = "insert" =>
                          writing[q].stage = "insert" /\ (c = "legacy" => q # p)
  /\ Aside

\* A goroutine adds a row with a chain object that was dropped.
Strays(p, t, n) ==
  /\ Grows(OrphanRow(p, t, n)) /\ live' = live \cup {Len(log) + 1}
  /\ n \in 1 .. (Len(log) + 1) /\ orphan' \subseteq orphan
  /\ UNCHANGED <<head, drawn, writing>> /\ Aside

\* Heads are read again, dropped or kept; a write may be given up; an INSERT under
\* way may read its number, or be lost.
Reloads ==
  /\ log' = log /\ live' = live
  /\ \A q \in Proc, c \in Chain :
       \/ head'[q][c] = head[q][c]
       \/ \E h : Found(c, h) /\ head'[q][c] = Loaded(c, h)
       \/ c \in Tenant /\ head'[q][c].st # "ready" /\ head'[q][c].hash = 0
  /\ \A q \in Proc, t \in Tenant :
       \/ drawn'[q][t] = 0
       \/ /\ head'[q][t] = head[q][t]
          /\ drawn'[q][t] = drawn[q][t] \/ (Ready(q, t) /\ drawn'[q][t] = NextTenantSeq(t))
       \/ ~Ready(q, t) /\ drawn'[q][t] = drawn[q][t]
  /\ \A w \in orphan' : w \in orphan \/ w[3] = 0 \/ \E t : w[3] = NextTenantSeq(t)
  /\ \A q \in Proc : /\ writing'[q].at = writing[q].at
                     /\ writing'[q].stage = "insert" =>
                          /\ writing[q].stage = "insert"
                          /\ head'[q]["legacy"] = head[q]["legacy"]
  /\ Aside

\* Nothing but the numbers read, and the stages of the writes.
LEMMA QuietKinds ==
  ASSUME log' = log, live' = live, head' = head, Aside,
         \A q \in Proc, t \in Tenant :
           \/ drawn'[q][t] = 0 \/ drawn'[q][t] = drawn[q][t]
           \/ Ready(q, t) /\ drawn'[q][t] = NextTenantSeq(t),
         \A w \in orphan' : w \in orphan \/ w[3] = 0 \/ \E t : w[3] = NextTenantSeq(t),
         \A q \in Proc : /\ writing'[q].at = writing[q].at
                         /\ writing'[q].stage = "insert" => writing[q].stage = "insert"
  PROVE  Reloads
BY DEF Reloads

\* An INSERT of a process either appends or is reported as failed.
LEMMA InsertKinds ==
  ASSUME Stored, NEW p \in Proc, NEW c \in Chain, NEW at \in 0 .. clock,
         Insert(p, c, head[p][c].hash, at), Aside,
         c = "legacy" => writing[p].stage = "insert" /\ at = writing[p].at,
         c \in Tenant => drawn[p][c] # 0,
         \A q \in Proc, t \in Tenant :
           drawn'[q][t] = IF q = p /\ t = c THEN 0 ELSE drawn[q][t],
         orphan' = orphan,
         \A q \in Proc : /\ writing'[q].at = writing[q].at
                         /\ writing'[q].stage = "insert" =>
                              writing[q].stage = "insert" /\ (c = "legacy" => q # p)
  PROVE  Reloads \/ \E b \in BOOLEAN : Appends(p, c, at, b)
<1>1. PICK h \in 0 .. Len(log) : h = head[p][c].hash
  BY HeadFacts
<1>2. at \in Nat
  BY DEF Stored, Typed, Clocked
<1>3. InsertOutcome(p, c, h, at)
  BY <1>1, <1>2, InsertEffect
<1>4. CASE log' = log /\ live' = live /\ head' = head
  BY <1>4, QuietKinds
<1>5. ASSUME NEW r, Grows(r), NEW b \in BOOLEAN, r = NewRow(p, c, h, at, b),
             live' = live \cup {Len(log) + 1},
             head' = IF b THEN [head EXCEPT ![p][c].hash = Len(log) + 1] ELSE head
      PROVE  Appends(p, c, at, b)
  <2>1. Grows(NewRow(p, c, head[p][c].hash, at, b))
    BY <1>1, <1>5
  <2> QED
    BY <1>5, <2>1 DEF Appends
<1>6. PICK tr \in BOOLEAN : tr = TRUE
  OBVIOUS
<1>7. PICK fa \in BOOLEAN : fa = FALSE
  OBVIOUS
<1>8. ASSUME NEW r, Grows(r), r = NewRow(p, c, h, at, TRUE), live' = live \cup {Len(log) + 1},
             head' = [head EXCEPT ![p][c].hash = Len(log) + 1]
      PROVE  Appends(p, c, at, tr)
  BY <1>5, <1>6, <1>8
<1>9. ASSUME NEW r, Grows(r), r = NewRow(p, c, h, at, FALSE), live' = live \cup {Len(log) + 1},
             head' = head
      PROVE  Appends(p, c, at, fa)
  BY <1>5, <1>7, <1>9
<1> QED
  BY <1>3, <1>4, <1>6, <1>7, <1>8, <1>9 DEF InsertOutcome

\* An INSERT reads its number.
LEMMA DrawKinds ==
  ASSUME Stored, NEW p \in Proc, NEW t \in Tenant, Draw(p, t),
         \A q \in Proc : /\ writing'[q].at = writing[q].at
                         /\ writing'[q].stage = "insert" => writing[q].stage = "insert"
  PROVE  Reloads
<1>1. UNCHANGED <<log, live, head, orphan>> /\ Aside /\ Ready(p, t)
  BY DEF Draw, table, archive, Aside
<1>2. \A q \in Proc, u \in Tenant :
        drawn'[q][u] = IF q = p /\ u = t THEN NextTenantSeq(t) ELSE drawn[q][u]
  BY DrawType
<1> QED
  BY <1>1, <1>2, QuietKinds

\* The INSERTs.
LEMMA WriteKinds ==
  ASSUME Stored, NEW p \in bound.procs, NEW d \in Chain \ {"legacy"},
         \/ StoreWrite(p, d) \/ WriteInsert(p) \/ Forward(p)
         \/ d \in Tenant /\ TenantInsert(p, d)
  PROVE  Reloads \/ \E c \in Chain, at \in 0 .. clock, b \in BOOLEAN : Appends(p, c, at, b)
<1>0. /\ p \in Proc /\ WritersTyped /\ "legacy" \in Chain /\ "site" \in Chain
      /\ clock \in Nat /\ writing[p] \in WriteState /\ "legacy" \notin Tenant /\ "site" \notin Tenant
  BY Bounds DEF Stored, Typed, WritersTyped, Clocked
<1>z. PICK z \in 0 .. clock : z = 0
  BY <1>0
<1>s. {"idle", "forward", "mirror"} \subseteq Stages
  BY DEF Stages
<1>w. ASSUME NEW s \in Stages \ {"insert"}, writing' = [writing EXCEPT ![p].stage = s]
      PROVE  \A q \in Proc : /\ writing'[q].at = writing[q].at
                             /\ writing'[q].stage = "insert" => writing[q].stage = "insert" /\ q # p
  <2>1. /\ \A q \in Proc : writing'[q].at = writing[q].at
        /\ \A q \in Proc : q # p => writing'[q] = writing[q]
        /\ writing'[p].stage = s
    BY <1>0, <1>w, StageMoves
  <2> QED
    BY <1>w, <2>1
<1>1. CASE StoreWrite(p, d)
  <2>0. writing' = writing
    BY <1>1 DEF StoreWrite
  <2>1. CASE d \in Tenant /\ Draw(p, d)
    BY <1>0, <2>0, <2>1, DrawKinds
  <2>2. CASE d = "site" /\ Insert(p, d, head[p][d].hash, z)
             /\ UNCHANGED <<lazy, clock, month, seals, archive>>
    <3>1. Aside /\ drawn' = drawn /\ orphan' = orphan
      BY <2>2 DEF Aside, lazy, archive
    <3>2. Reloads \/ \E b \in BOOLEAN : Appends(p, d, z, b)
      BY <1>0, <2>0, <2>2, <3>1, InsertKinds
    <3> QED
      BY <3>2
  <2> QED
    BY <1>1, <1>z, <2>1, <2>2 DEF StoreWrite
<1>2. CASE WriteInsert(p)
  <2>1. PICK at \in 0 .. clock : at = writing[p].at
    BY <1>0 DEF Stored, Typed, Clocked, WriteState
  <2>2. PICK c \in Chain : c = "legacy" /\ c \notin Tenant
    BY <1>0
  <2>3. Insert(p, c, head[p][c].hash, at) /\ Aside /\ writing[p].stage = "insert"
        /\ drawn' = drawn /\ orphan' = orphan
    BY <1>2, <2>1, <2>2 DEF WriteInsert, Aside, archive, lazy
  <2>4. PICK s \in Stages \ {"insert"} : writing' = [writing EXCEPT ![p].stage = s]
    <3>1. PICK x : x = IF mishaps' = mishaps THEN "forward" ELSE "idle"
      OBVIOUS
    <3>2. x \in Stages \ {"insert"}
      BY <1>s, <3>1
    <3>3. writing' = [writing EXCEPT ![p].stage = x]
      BY <1>2, <3>1 DEF WriteInsert
    <3> QED
      BY <3>2, <3>3
  <2>5. \A q \in Proc : /\ writing'[q].at = writing[q].at
                        /\ writing'[q].stage = "insert" => writing[q].stage = "insert" /\ q # p
    BY <1>w, <2>4
  <2>6. Reloads \/ \E b \in BOOLEAN : Appends(p, c, at, b)
    BY <1>0, <2>1, <2>2, <2>3, <2>5, InsertKinds
  <2> QED
    BY <2>6
<1>3. CASE Forward(p)
  <2>1. PICK c \in Chain \ {"legacy"} : c = writing[p].dest
    BY <1>0 DEF WriteState
  <2>2. CASE c \in Tenant /\ Draw(p, c) /\ writing' = [writing EXCEPT ![p].stage = "mirror"]
    <3>1. PICK s \in Stages \ {"insert"} : s = "mirror"
      BY <1>s
    <3>2. \A q \in Proc : /\ writing'[q].at = writing[q].at
                          /\ writing'[q].stage = "insert" => writing[q].stage = "insert"
      BY <1>w, <2>2, <3>1
    <3> QED
      BY <1>0, <2>2, <3>2, DrawKinds
  <2>3. CASE c = "site" /\ Insert(p, c, head[p][c].hash, z)
             /\ writing' = [writing EXCEPT ![p].stage = "idle"]
             /\ UNCHANGED <<lazy, clock, month, seals, archive>>
    <3>1. PICK s \in Stages \ {"insert"} : s = "idle"
      BY <1>s
    <3>2. \A q \in Proc : /\ writing'[q].at = writing[q].at
                          /\ writing'[q].stage = "insert" => writing[q].stage = "insert"
      BY <1>w, <2>3, <3>1
    <3>3. Aside /\ drawn' = drawn /\ orphan' = orphan
      BY <2>3 DEF Aside, lazy, archive
    <3>4. Reloads \/ \E b \in BOOLEAN : Appends(p, c, z, b)
      BY <1>0, <2>3, <3>2, <3>3, InsertKinds
    <3> QED
      BY <3>4
  <2> QED
    BY <1>3, <1>z, <2>1, <2>2, <2>3 DEF Forward
<1>4. CASE d \in Tenant /\ TenantInsert(p, d)
  <2>1. PICK s : /\ s = IF writing[p].stage = "mirror" /\ writing[p].dest = d THEN "idle"
                        ELSE writing[p].stage
                 /\ s \in Stages /\ (s = "insert" => writing[p].stage = "insert")
    BY <1>0, <1>s DEF WriteState
  <2>2. writing' = [writing EXCEPT ![p].stage = s]
    BY <1>4, <2>1 DEF TenantInsert
  <2>3. /\ \A q \in Proc : writing'[q].at = writing[q].at
        /\ \A q \in Proc : q # p => writing'[q] = writing[q]
        /\ writing'[p].stage = s
    BY <1>0, <2>1, <2>2, StageMoves
  <2>4. \A q \in Proc : /\ writing'[q].at = writing[q].at
                        /\ writing'[q].stage = "insert" => writing[q].stage = "insert"
    BY <2>1, <2>3
  <2>5. Insert(p, d, head[p][d].hash, z) /\ Aside /\ orphan' = orphan /\ drawn[p][d] # 0
        /\ drawn' = [drawn EXCEPT ![p][d] = 0] /\ d # "legacy"
    BY <1>0, <1>4, <1>z DEF TenantInsert, Aside, archive
  <2>6. \A q \in Proc, u \in Tenant : drawn'[q][u] = IF q = p /\ u = d THEN 0 ELSE drawn[q][u]
    BY <1>0, <1>4, <2>5, UsedType
  <2>7. Reloads \/ \E b \in BOOLEAN : Appends(p, d, z, b)
    BY <1>0, <2>4, <2>5, <2>6, InsertKinds
  <2> QED
    BY <2>7
<1> QED
  BY <1>1, <1>2, <1>3, <1>4

\* The lazy load of a tenant's head.
LEMMA LoadKinds ==
  ASSUME Stored, NEW p \in bound.procs, NEW t \in Tenant,
         LoadBegin(p, t) \/ LoadWait(p, t) \/ LoadDone(p, t) \/ LoadFail(p, t)
  PROVE  Reloads
<1>0. /\ p \in Proc /\ WritersTyped /\ t \in Chain /\ t # "legacy"
      /\ head \in [Proc -> [Chain -> HeadState]] /\ writing[p] \in WriteState /\ "legacy" \in Chain
      /\ Tenant \subseteq Chain
  BY Bounds DEF Stored, Typed, WritersTyped, TableTyped
<1>1. ASSUME NEW h, (\E n : Found(t, n) /\ h = Loaded(t, n)) \/ (h.st # "ready" /\ h.hash = 0),
             head' = [head EXCEPT ![p][t] = h], ~Ready(p, t), drawn' = drawn,
             \A w \in orphan' : w \in orphan \/ w[3] = 0,
             log' = log, live' = live, Aside,
             \A q \in Proc : /\ writing'[q].at = writing[q].at
                             /\ writing'[q].stage = "insert" => writing[q].stage = "insert"
      PROVE  Reloads
  <2>1. head' = [head EXCEPT ![p] = [head[p] EXCEPT ![t] = h]]
    BY <1>0, <1>1
  <2>2. \A q \in Proc, c \in Chain : head'[q][c] = IF q = p /\ c = t THEN h ELSE head[q][c]
    BY <1>0, <2>1
  <2>3. \A q \in Proc, c \in Chain :
          \/ head'[q][c] = head[q][c]
          \/ \E n : Found(c, n) /\ head'[q][c] = Loaded(c, n)
          \/ c \in Tenant /\ head'[q][c].st # "ready" /\ head'[q][c].hash = 0
    BY <1>1, <2>2
  <2>4. \A q \in Proc, u \in Tenant :
          (drawn'[q][u] = drawn[q][u] /\ head'[q][u] = head[q][u])
            \/ (~Ready(q, u) /\ drawn'[q][u] = drawn[q][u])
    BY <1>0, <1>1, <2>2
  <2>5. \A q \in Proc : head'[q]["legacy"] = head[q]["legacy"]
    BY <1>0, <2>2
  <2> QED
    BY <1>1, <2>3, <2>4, <2>5 DEF Reloads
<1>2. CASE LoadBegin(p, t)
  <2>1. head' = [head EXCEPT ![p][t] = Loading] /\ ~Ready(p, t)
        /\ UNCHANGED <<log, live, drawn, orphan, writing>> /\ Aside
    BY <1>2 DEF LoadBegin, table, archive, lazy, Aside, Ready
  <2> QED
    BY <1>1, <2>1, AbsentFacts
<1>3. CASE LoadWait(p, t)
  <2>1. UNCHANGED <<log, live, head, drawn, orphan, writing>> /\ Aside
    BY <1>3 DEF LoadWait, table, archive, Aside
  <2> QED
    BY <2>1, QuietKinds
<1>4. CASE LoadDone(p, t)
  <2>1. PICK n \in TenantHeads(t) : head' = [head EXCEPT ![p][t] = Loaded(t, n)]
    BY <1>4 DEF LoadDone
  <2>2. ~Ready(p, t) /\ UNCHANGED <<log, live, drawn, orphan, writing>> /\ Aside
    BY <1>4 DEF LoadDone, table, archive, Aside, Ready
  <2>3. PICK h : h = Loaded(t, n) /\ Found(t, n)
    BY <2>1 DEF Found
  <2> QED
    BY <1>1, <2>1, <2>2, <2>3
<1>5. CASE LoadFail(p, t)
  <2>1. head' = [head EXCEPT ![p][t] = Absent] /\ ~Ready(p, t)
        /\ UNCHANGED <<log, live, drawn>> /\ Aside
        /\ \A w \in orphan' : w \in orphan \/ w = <<p, t, 0>>
    BY <1>5 DEF LoadFail, table, archive, Aside, Ready
  <2>2. PICK s : /\ s = IF writing[p].stage = "forward" /\ writing[p].dest = t THEN "idle"
                        ELSE writing[p].stage
                 /\ s \in Stages /\ (s = "insert" => writing[p].stage = "insert")
    BY <1>0 DEF WriteState, Stages
  <2>3. writing' = [writing EXCEPT ![p].stage = s]
    BY <1>5, <2>2 DEF LoadFail
  <2>4. /\ \A q \in Proc : writing'[q].at = writing[q].at
        /\ \A q \in Proc : q # p => writing'[q] = writing[q]
        /\ writing'[p].stage = s
    BY <1>0, <2>2, <2>3, StageMoves
  <2>5. \A q \in Proc : /\ writing'[q].at = writing[q].at
                        /\ writing'[q].stage = "insert" => writing[q].stage = "insert"
    BY <2>2, <2>4
  <2>6. \A w \in orphan' : w \in orphan \/ w[3] = 0
    BY <2>1
  <2> QED
    BY <1>1, <2>1, <2>5, <2>6, AbsentFacts
<1> QED
  BY <1>2, <1>3, <1>4, <1>5

\* A restart.
LEMMA RestartKinds ==
  ASSUME Stored, NEW p \in bound.procs, Restart(p)
  PROVE  Reloads
<1>0. /\ p \in Proc /\ WritersTyped /\ drawn \in [Proc -> [Tenant -> Nat]]
      /\ head \in [Proc -> [Chain -> HeadState]] /\ writing[p] \in WriteState /\ "legacy" \in Chain
      /\ Tenant \subseteq Chain
  BY Bounds DEF Stored, Typed, WritersTyped, TableTyped
<1>1. log' = log /\ live' = live /\ Aside /\ log \in Seq(AuditRow)
  BY DEF Restart, table, archive, Aside, Stored, Typed, TableTyped
<1>2. PICK b \in [Chain -> HeadState] : b = Booted
  BY <1>1, BootedFacts
<1>3. head' = [head EXCEPT ![p] = b]
  BY <1>2 DEF Restart
<1>4. \A q \in Proc : head'[q] = IF q = p THEN b ELSE head[q]
  BY <1>0, <1>3
<1>5. \A c \in Chain : \/ \E h : Found(c, h) /\ b[c] = Loaded(c, h)
                       \/ c \in Tenant /\ b[c].st # "ready" /\ b[c].hash = 0
  BY <1>1, <1>2, BootedFacts, AbsentFacts DEF Found
<1>6. PICK s \in Stages : s = "idle" /\ writing' = [writing EXCEPT ![p].stage = s]
  BY DEF Restart, Stages
<1>7. /\ \A q \in Proc : writing'[q].at = writing[q].at
      /\ \A q \in Proc : q # p => writing'[q] = writing[q]
      /\ writing'[p].stage = s
  BY <1>0, <1>6, StageMoves
<1>8. \A q \in Proc, c \in Chain :
        \/ head'[q][c] = head[q][c] \/ \E h : Found(c, h) /\ head'[q][c] = Loaded(c, h)
        \/ c \in Tenant /\ head'[q][c].st # "ready" /\ head'[q][c].hash = 0
  BY <1>4, <1>5
<1>9. \A q \in Proc : writing'[q].stage = "insert" =>
                        /\ writing[q].stage = "insert"
                        /\ head'[q]["legacy"] = head[q]["legacy"]
  BY <1>4, <1>6, <1>7
<1>10. \A q \in Proc, t \in Tenant :
         drawn'[q][t] = 0 \/ (drawn'[q][t] = drawn[q][t] /\ head'[q][t] = head[q][t])
  <2>1. drawn' = [drawn EXCEPT ![p] = NoneDrawn] /\ \A t \in Tenant : NoneDrawn[t] = 0
    BY DEF Restart, NoneDrawn
  <2> QED
    BY <1>0, <1>4, <2>1
<1>11. orphan' \subseteq orphan
  BY DEF Restart
<1> QED
  BY <1>1, <1>7, <1>8, <1>9, <1>10, <1>11 DEF Reloads

\* Every step is of one of six kinds.
LEMMA StepKinds ==
  ASSUME Stored, Next
  PROVE  \/ \E p \in Proc, c \in Chain, at \in 0 .. clock, b \in BOOLEAN : Appends(p, c, at, b)
         \/ \E p \in Proc, t \in Tenant, n \in Nat : Strays(p, t, n)
         \/ Reloads
         \/ \E p \in Proc, d \in Chain : WriteBegin(p, d)
         \/ SealUnsealed
         \/ Sweep
<1>0. /\ bound.procs \subseteq Proc /\ bound.chains \subseteq Chain \ {"legacy"} /\ bound' = bound
      /\ Tenant \subseteq Chain \ {"legacy"}
  BY Bounds DEF Next
<1>1. ASSUME NEW p \in bound.procs, NEW d \in bound.chains, StoreWrite(p, d)
      PROVE  Reloads \/ \E c \in Chain, at \in 0 .. clock, b \in BOOLEAN : Appends(p, c, at, b)
  BY <1>0, <1>1, WriteKinds
<1>2. ASSUME NEW p \in bound.procs, WriteInsert(p) \/ Forward(p)
      PROVE  Reloads \/ \E c \in Chain, at \in 0 .. clock, b \in BOOLEAN : Appends(p, c, at, b)
  <2>1. PICK d \in Chain \ {"legacy"} : d = "site"
    BY Bounds
  <2> QED
    BY <1>2, WriteKinds
<1>t. ASSUME NEW p \in bound.procs, NEW t \in Tenant \cap bound.chains, TenantInsert(p, t)
      PROVE  Reloads \/ \E c \in Chain, at \in 0 .. clock, b \in BOOLEAN : Appends(p, c, at, b)
  <2>1. PICK d \in Chain \ {"legacy"} : d = t /\ d \in Tenant
    BY <1>0
  <2> QED
    BY <1>t, <2>1, WriteKinds
<1>3. ASSUME NEW p \in bound.procs, NEW t \in Tenant \cap bound.chains,
             LoadBegin(p, t) \/ LoadWait(p, t) \/ LoadDone(p, t) \/ LoadFail(p, t)
      PROVE  Reloads
  BY <1>3, LoadKinds
<1>4. ASSUME NEW p \in bound.procs, Restart(p)
      PROVE  Reloads
  BY <1>4, RestartKinds
<1>5. ASSUME NEW p \in bound.procs, NEW t \in Tenant \cap bound.chains, OrphanDraw(p, t)
      PROVE  Reloads
  <2>1. UNCHANGED <<log, live, head, drawn, writing, clock, month, seals, parts, staged, manifests,
                    archiving>>
    BY <1>0, <1>5, OrphanDrawType
  <2>2. \A w \in orphan' : w \in orphan \/ w = <<p, t, NextTenantSeq(t)>>
    BY <1>5 DEF OrphanDraw
  <2>3. \A w \in orphan' : w \in orphan \/ w[3] = NextTenantSeq(t)
    BY <2>2
  <2> QED
    BY <2>1, <2>3, QuietKinds DEF Aside
<1>6. ASSUME NEW p \in bound.procs, NEW t \in Tenant \cap bound.chains, NEW n \in Nat,
             OrphanWrite(p, t, n)
      PROVE  Strays(p, t, n)
  BY <1>0, <1>6, OrphanType DEF Strays, Aside
<1>n. 1 .. bound.rows \subseteq Nat
  BY DEF Stored, Typed, Instance
<1> QED
  BY <1>0, <1>n, <1>1, <1>2, <1>t, <1>3, <1>4, <1>5, <1>6 DEF Next, Sweep

\* The log grows, and so may the numbers that are read.
LEMMA NumberedStep ==
  ASSUME Stored, [Next]_vars
  PROVE  Numbered'
<1>0. /\ log \in Seq(AuditRow) /\ Len(log) \in Nat /\ drawn \in [Proc -> [Tenant -> Nat]]
      /\ \A p \in Proc, t \in Tenant : drawn[p][t] \in Nat /\ drawn[p][t] <= Len(log) + 1
      /\ \A w \in orphan : w[3] \in Nat /\ w[3] <= Len(log) + 1
  BY DEF Stored, Typed, TableTyped, WritersTyped, Numbered
<1>1. ASSUME Len(log') \in Nat, Len(log) <= Len(log'),
             \A p \in Proc, t \in Tenant :
               drawn'[p][t] = 0 \/ drawn'[p][t] = drawn[p][t] \/ drawn'[p][t] = NextTenantSeq(t),
             \A w \in orphan' : w \in orphan \/ w[3] = 0 \/ \E t : w[3] = NextTenantSeq(t)
      PROVE  Numbered'
  <2>1. \A t : NextTenantSeq(t) \in Nat /\ NextTenantSeq(t) <= Len(log) + 1
    BY <1>0, SeqFacts
  <2>2. ASSUME NEW p \in Proc, NEW t \in Tenant PROVE drawn'[p][t] <= Len(log') + 1
    <3>0. drawn'[p][t] = 0 \/ drawn'[p][t] = drawn[p][t] \/ drawn'[p][t] = NextTenantSeq(t)
      BY <1>1
    <3>1. drawn'[p][t] \in Nat /\ drawn'[p][t] <= Len(log) + 1
      BY <1>0, <2>1, <3>0
    <3> QED
      BY <1>0, <1>1, <3>1
  <2>3. ASSUME NEW w \in orphan' PROVE w[3] <= Len(log') + 1
    <3>1. w[3] \in Nat /\ w[3] <= Len(log) + 1
      BY <1>0, <1>1, <2>1
    <3> QED
      BY <1>0, <1>1, <3>1
  <2> QED
    BY <2>2, <2>3 DEF Numbered
<1>2. ASSUME log' = log, drawn' = drawn, orphan' = orphan PROVE Numbered'
  BY <1>2 DEF Stored, Numbered
<1>3. CASE UNCHANGED vars
  BY <1>2, <1>3 DEF vars, table, lazy
<1>4. CASE Next
  <2>1. ASSUME NEW p \in Proc, NEW c \in Chain, NEW at \in 0 .. clock, NEW b \in BOOLEAN,
               Appends(p, c, at, b)
        PROVE  Numbered'
    <3>1. PICK r : Grows(r)
      BY <2>1 DEF Appends
    <3>2. Len(log') = Len(log) + 1
      BY <1>0, <3>1, GrowFacts
    <3> QED
      BY <1>0, <1>1, <2>1, <3>2 DEF Appends
  <2>2. ASSUME NEW p \in Proc, NEW t \in Tenant, NEW n \in Nat, Strays(p, t, n) PROVE Numbered'
    <3>1. PICK r : Grows(r)
      BY <2>2 DEF Strays
    <3>2. Len(log') = Len(log) + 1
      BY <1>0, <3>1, GrowFacts
    <3> QED
      BY <1>0, <1>1, <2>2, <3>2 DEF Strays
  <2>3. CASE Reloads
    BY <1>0, <1>1, <2>3 DEF Reloads
  <2>4. ASSUME NEW p \in Proc, NEW d \in Chain, WriteBegin(p, d) PROVE Numbered'
    BY <1>2, <2>4 DEF WriteBegin, table, lazy
  <2>5. CASE SealUnsealed
    BY <1>2, <2>5 DEF SealUnsealed, table, lazy
  <2>6. CASE Sweep
    <3>1. bound' = bound
      BY <1>4 DEF Next
    <3> QED
      BY <1>2, <2>6, <3>1, SweepType DEF Sweep
  <2> QED
    BY <1>4, <2>1, <2>2, <2>3, <2>4, <2>5, <2>6, StepKinds
<1> QED
  BY <1>3, <1>4

\* Every step keeps the types.
LEMMA StoredStep == Stored /\ [Next]_vars => Stored'
<1> SUFFICES ASSUME Stored, [Next]_vars PROVE Typed'
  BY NumberedStep DEF Stored
<1>1. CASE UNCHANGED vars
  <2>1. UNCHANGED <<bound, log, live, head, waiter, orphan, drawn, writing, clock, month, seals,
                    parts, staged, manifests, archiving, mishaps>>
    BY <1>1 DEF vars, table, lazy, archive
  <2>2. Partition' = Partition
    BY <2>1, SamePartitions
  <2> QED
    BY <2>1, <2>2
    DEF Stored, Typed, TableTyped, WritersTyped, Clocked, SealsTyped, ArchiveTyped
<1>2. CASE Next
  <2>1. bound' = bound /\ Tenant \subseteq Chain \ {"legacy"}
    BY <1>2, Bounds DEF Next
  <2>2. ASSUME NEW p \in bound.procs, NEW d \in bound.chains, WriteBegin(p, d) \/ StoreWrite(p, d)
        PROVE  Typed'
    BY <2>1, <2>2, Bounds, WriteType
  <2>3. ASSUME NEW p \in bound.procs, NEW t \in Tenant \cap bound.chains,
               \/ LoadBegin(p, t) \/ LoadWait(p, t) \/ LoadDone(p, t) \/ LoadFail(p, t)
               \/ OrphanDraw(p, t)
        PROVE  Typed'
    BY <2>1, <2>3, LoadType, OrphanDrawType
  <2>4. ASSUME NEW p \in bound.procs, Restart(p)
        PROVE  Typed'
    BY <2>1, <2>4, RestartType
  <2>5. ASSUME NEW p \in bound.procs, WriteInsert(p) \/ Forward(p)
        PROVE  Typed'
    <3>1. PICK d \in Chain \ {"legacy"} : d = "site"
      BY Bounds
    <3> QED
      BY <2>1, <2>5, <3>1, WriteType
  <2>6. ASSUME NEW p \in bound.procs, NEW t \in Tenant \cap bound.chains, TenantInsert(p, t)
        PROVE  Typed'
    <3>1. PICK d \in Chain \ {"legacy"} : d = t /\ d \in Tenant
      BY <2>1
    <3> QED
      BY <2>1, <2>6, <3>1, WriteType
  <2>7. ASSUME NEW p \in bound.procs, NEW t \in Tenant \cap bound.chains, NEW n \in Nat,
               OrphanWrite(p, t, n)
        PROVE  Typed'
    BY <2>1, <2>7, OrphanType
  <2>8. CASE SealUnsealed
    BY <2>1, <2>8, SealType
  <2>9. CASE Sweep
    BY <2>1, <2>9, SweepType DEF Sweep
  <2>n. 1 .. bound.rows \subseteq Nat
    BY DEF Stored, Typed, Instance
  <2> QED
    BY <1>2, <2>n, <2>2, <2>3, <2>4, <2>5, <2>6, <2>7, <2>8, <2>9 DEF Next, Sweep
<1> QED
  BY <1>1, <1>2

-----------------------------------------------------------------------------
(* Links *)

\* Row k was inserted after a head was read at `since' and did not move it: it is
\* not the head's writer's, or it was reported as failed.
Overtakes(k, by, since) == k > since /\ (log[k].by # by \/ ~log[k].acked)

\* Whether prev is the newest row k of a chain is explained by what is kept with a
\* head: when it was read, and whether the newest row had been archived by then or
\* was not the one with the highest number.
Explains(prev, k, by, since, behind, tied) ==
  /\ prev # k => Overtakes(k, by, since) \/ (k \in 1 .. since /\ (behind \/ tied))
  /\ Overtakes(k, by, since) \/ (k \in 1 .. since /\ behind) => prev # k

\* The head of process p for chain c against the newest row of the chain, and the
\* link of row i against the row before it.
HeadExplained(p, c) ==
  Explains(head[p][c].hash, Newest(c), p, head[p][c].since, head[p][c].behind, head[p][c].tied)
LinkExplained(c, i) ==
  Explains(log[i].prev, Predecessor(c, i), log[i].by, log[i].since, log[i].behind, log[i].tied)

\* A row that may have the wrong link.
Broken(c, i) == Overtaken(c, i) \/ LoadedBehind(c, i) \/ LoadedTied(c, i)

\* A head in use is the newest row of its chain, or explained.
HeadsExplained == \A p \in Proc, c \in Chain : Ready(p, c) => HeadExplained(p, c)

\* Only a tenant's head is loaded lazily, and it is there while an INSERT runs.
AlwaysReady == \A p \in Proc, c \in Chain \ Tenant : Ready(p, c)
DrawnReady == \A p \in Proc, t \in Tenant : drawn[p][t] # 0 => Ready(p, t)

\* A row was written by a process, or by a goroutine with a dropped object.
WritersKnown == \A i \in DOMAIN log : log[i].by \in Proc \cup {i}

LEMMA LinksAre == ChainLinks <=> \A c \in Chain : \A i \in RowsOf(c) : LinkExplained(c, i)
BY DEF ChainLinks, LinkExplained, Explains, Overtakes, Overtaken, LoadedBehind, LoadedTied

\* Rows do not change, and so their explanations do not.
LEMMA SameExplains ==
  ASSUME NEW prev, NEW k, NEW by, NEW since \in Nat, NEW behind, NEW tied, k = 0 \/ log'[k] = log[k]
  PROVE  Explains(prev, k, by, since, behind, tied)' <=> Explains(prev, k, by, since, behind, tied)
<1>1. k > since => k # 0
  OBVIOUS
<1>2. Overtakes(k, by, since)' <=> Overtakes(k, by, since)
  BY <1>1 DEF Overtakes
<1> QED
  BY <1>2 DEF Explains

\* The row before i, if any.
LEMMA PredecessorFacts ==
  ASSUME log \in Seq(AuditRow), NEW c, NEW i \in 1 .. (Len(log) + 1)
  PROVE  /\ Predecessor(c, i) \in RowsOf(c) \cup {Genesis} /\ Predecessor(c, i) \in 0 .. (i - 1)
         /\ \A k \in RowsOf(c) : k < i => k <= Predecessor(c, i)
<1>1. RowsOf(c) \subseteq 1 .. Len(log) /\ Len(log) \in Nat
  BY NewestFacts
<1> DEFINE T == {k \in RowsOf(c) : k < i} \cup {Genesis}
<1>2. T \in SUBSET (0 .. (i - 1)) /\ T # {} /\ i - 1 \in Nat
  BY <1>1 DEF Genesis
<1>3. Max(T) \in T /\ \A y \in T : y <= Max(T)
  BY <1>2, MaxOfSome
<1>4. Predecessor(c, i) = Max(T)
  BY DEF Predecessor
<1> QED
  BY <1>2, <1>3, <1>4

\* What a new row leaves as it was.
LEMMA Grown ==
  ASSUME Stored, NEW r, Grows(r), NEW c, NEW n, n = Len(log) + 1
  PROVE  /\ RowsOf(c)' = IF r.chain = c THEN RowsOf(c) \cup {n} ELSE RowsOf(c)
         /\ \A i \in 1 .. (n - 1) : Predecessor(c, i)' = Predecessor(c, i)
         /\ Predecessor(c, n)' = Newest(c)
         /\ Newest(c)' = IF r.chain = c THEN n ELSE Newest(c)
         /\ \A i \in 1 .. (n - 1) : /\ LinkExplained(c, i)' <=> LinkExplained(c, i)
                                    /\ Overtaken(c, i)' <=> Overtaken(c, i)
                                    /\ Broken(c, i)' <=> Broken(c, i)
<1>1. /\ log \in Seq(AuditRow) /\ log' \in Seq(AuditRow) /\ n \in Nat /\ n - 1 = Len(log)
      /\ DOMAIN log = 1 .. (n - 1) /\ DOMAIN log' = 1 .. n
      /\ \A i \in 1 .. (n - 1) : log'[i] = log[i]
      /\ log'[n] = r
  BY GrowFacts DEF Stored, Typed, TableTyped
<1>2. RowsOf(c)' = IF r.chain = c THEN RowsOf(c) \cup {n} ELSE RowsOf(c)
  <2>1. RowsOf(c)' = {i \in 1 .. n : log'[i].chain = c}
    BY <1>1 DEF RowsOf
  <2>2. RowsOf(c) = {i \in 1 .. (n - 1) : log'[i].chain = c}
    BY <1>1 DEF RowsOf
  <2>3. 1 .. n = (1 .. (n - 1)) \cup {n}
    BY <1>1
  <2> QED
    BY <1>1, <2>1, <2>2, <2>3
<1>3. RowsOf(c) \subseteq 1 .. (n - 1) /\ RowsOf(c) \subseteq Nat
  BY <1>1, NewestFacts
<1>4. ASSUME NEW i \in 1 .. (n - 1) PROVE Predecessor(c, i)' = Predecessor(c, i)
  <2>1. {k \in RowsOf(c)' : k < i} = {k \in RowsOf(c) : k < i}
    BY <1>1, <1>2, <1>3
  <2> QED
    BY <2>1 DEF Predecessor, Genesis
<1>5. Predecessor(c, n)' = Newest(c)
  <2>1. {k \in RowsOf(c)' : k < n} = RowsOf(c)
    BY <1>1, <1>2, <1>3
  <2> QED
    BY <2>1 DEF Predecessor, Newest, Genesis
<1>6. Newest(c)' = IF r.chain = c THEN n ELSE Newest(c)
  <2>1. CASE r.chain # c
    BY <1>2, <2>1 DEF Newest, Genesis
  <2>2. CASE r.chain = c
    <3>1. PICK T : T = RowsOf(c) \cup {n} \cup {0}
      OBVIOUS
    <3>2. T \in SUBSET (0 .. n) /\ n \in T /\ \A y \in T : y <= n
      BY <1>1, <1>3, <3>1
    <3>3. Max(T) = n
      BY <1>1, <3>2, MaxIs
    <3>4. Newest(c)' = Max(T)
      BY <1>2, <2>2, <3>1 DEF Newest, Genesis
    <3> QED
      BY <2>2, <3>3, <3>4
  <2> QED
    BY <2>1, <2>2
<1>7. ASSUME NEW i \in 1 .. (n - 1)
      PROVE  /\ LinkExplained(c, i)' <=> LinkExplained(c, i)
             /\ Overtaken(c, i)' <=> Overtaken(c, i)
             /\ Broken(c, i)' <=> Broken(c, i)
  <2>1. PICK k : k = Predecessor(c, i)
    OBVIOUS
  <2>2. k = Predecessor(c, i)'
    BY <1>4, <2>1
  <2>3. k = 0 \/ log'[k] = log[k]
    <3>1. k \in RowsOf(c) \cup {Genesis}
      <4>1. i \in 1 .. (Len(log) + 1)
        BY <1>1
      <4> QED
        BY <1>1, <2>1, <4>1, PredecessorFacts
    <3> QED
      BY <1>1, <1>3, <3>1 DEF Genesis
  <2>4. PICK x : x = log[i]
    OBVIOUS
  <2>5. x = log'[i] /\ x \in AuditRow /\ x.since \in Nat
    BY <1>1, <2>4, RowFacts
  <2>6. LinkExplained(c, i) <=> Explains(x.prev, k, x.by, x.since, x.behind, x.tied)
    BY <2>1, <2>4 DEF LinkExplained
  <2>7. LinkExplained(c, i)' <=> Explains(x.prev, k, x.by, x.since, x.behind, x.tied)'
    BY <2>2, <2>5 DEF LinkExplained
  <2>8. Explains(x.prev, k, x.by, x.since, x.behind, x.tied)'
          <=> Explains(x.prev, k, x.by, x.since, x.behind, x.tied)
    <3>1. ASSUME NEW prev, NEW by, NEW since \in Nat, NEW behind, NEW tied
          PROVE  Explains(prev, k, by, since, behind, tied)'
                   <=> Explains(prev, k, by, since, behind, tied)
      BY <2>3, SameExplains
    <3> QED
      BY <2>5, <3>1
  <2>9. k > x.since => k # 0
    BY <2>5
  <2>10. Overtaken(c, i)' <=> Overtaken(c, i)
    BY <2>1, <2>2, <2>3, <2>4, <2>5, <2>9 DEF Overtaken
  <2>11. (LoadedBehind(c, i)' <=> LoadedBehind(c, i)) /\ (LoadedTied(c, i)' <=> LoadedTied(c, i))
    BY <2>1, <2>2, <2>4, <2>5 DEF LoadedBehind, LoadedTied
  <2> QED
    BY <2>6, <2>7, <2>8, <2>10, <2>11 DEF Broken
<1> QED
  BY <1>2, <1>4, <1>5, <1>6, <1>7

\* The chains' links, the heads they come from, and who wrote the rows.
ChainInv == HeadsExplained /\ AlwaysReady /\ DrawnReady /\ WritersKnown /\ ChainLinks

\* A new row whose link is explained keeps ChainLinks.
LEMMA GrowLinks ==
  ASSUME Stored, ChainLinks, NEW r, Grows(r), NEW n, n = Len(log) + 1,
         NEW k, k = Newest(r.chain), Explains(r.prev, k, r.by, r.since, r.behind, r.tied)
  PROVE  ChainLinks'
<1>1. /\ log \in Seq(AuditRow) /\ n \in Nat /\ n - 1 = Len(log) /\ DOMAIN log = 1 .. (n - 1)
      /\ \A i \in 1 .. (n - 1) : log'[i] = log[i]
      /\ log'[n] = r
  <2>1. log \in Seq(AuditRow)
    BY DEF Stored, Typed, TableTyped
  <2> QED
    BY <2>1, GrowFacts
<1>2. ASSUME NEW c \in Chain, NEW i \in RowsOf(c), i \in 1 .. (n - 1)
      PROVE  LinkExplained(c, i)'
  BY <1>2, Grown, LinksAre
<1>3. ASSUME NEW c \in Chain, c = r.chain
      PROVE  LinkExplained(c, n)'
  <2>1. Predecessor(c, n)' = k
    BY <1>3, Grown
  <2>2. k = 0 \/ log'[k] = log[k]
    <3>1. k \in 0 .. (n - 1)
      BY <1>1, <1>3, NewestFacts
    <3> QED
      BY <1>1, <3>1
  <2>3. Explains(r.prev, k, r.by, r.since, r.behind, r.tied)'
    <3>1. r \in AuditRow
      BY DEF Grows
    <3>2. PICK since \in Nat : since = r.since
      BY <3>1 DEF AuditRow
    <3>3. PICK prev, by, behind, tied : /\ prev = r.prev /\ by = r.by
                                        /\ behind = r.behind /\ tied = r.tied
      OBVIOUS
    <3>4. Explains(prev, k, by, since, behind, tied)
      BY <3>2, <3>3
    <3>5. Explains(prev, k, by, since, behind, tied)'
      BY <2>2, <3>4, SameExplains
    <3> QED
      BY <3>2, <3>3, <3>5
  <2> QED
    BY <1>1, <2>1, <2>3 DEF LinkExplained
<1>4. ASSUME NEW c \in Chain, NEW i \in RowsOf(c)'
      PROVE  LinkExplained(c, i)'
  <2>1. RowsOf(c)' = IF r.chain = c THEN RowsOf(c) \cup {n} ELSE RowsOf(c)
    BY Grown
  <2>2. RowsOf(c) \subseteq 1 .. (n - 1)
    BY <1>1, NewestFacts
  <2>3. (i \in RowsOf(c) /\ i \in 1 .. (n - 1)) \/ (i = n /\ c = r.chain)
    BY <1>4, <2>1, <2>2
  <2> QED
    BY <1>2, <1>3, <2>3
<1>5. \A c \in Chain : \A i \in RowsOf(c)' : LinkExplained(c, i)'
  BY <1>4
<1>6. ChainLinks' <=> \A c \in Chain : \A i \in RowsOf(c)' : LinkExplained(c, i)'
  BY DEF ChainLinks, LinkExplained, Explains, Overtakes, Overtaken, LoadedBehind, LoadedTied, Chain
<1> QED
  BY <1>5, <1>6

\* A head that did not move: another process, a goroutine with a dropped object or
\* an insert reported as failed may have grown its chain.
LEMMA GrowHeads ==
  ASSUME Stored, NEW r, Grows(r), NEW n, n = Len(log) + 1,
         NEW q \in Proc, NEW d \in Chain, head'[q][d] = head[q][d], HeadExplained(q, d),
         r.chain = d => r.by # q \/ ~r.acked
  PROVE  HeadExplained(q, d)'
<1>1. /\ log \in Seq(AuditRow) /\ n \in Nat /\ n - 1 = Len(log) /\ DOMAIN log = 1 .. (n - 1)
      /\ \A i \in 1 .. (n - 1) : log'[i] = log[i]
      /\ log'[n] = r
  BY GrowFacts DEF Stored, Typed, TableTyped
<1>2. PICK h, s, b, t : h = head[q][d].hash /\ s = head[q][d].since /\ b = head[q][d].behind
                        /\ t = head[q][d].tied
  OBVIOUS
<1>3. h \in 0 .. (n - 1) /\ s \in 0 .. (n - 1)
  BY <1>1, <1>2, HeadFacts
<1>4. PICK k : k = Newest(d)'
  OBVIOUS
<1>5. HeadExplained(q, d)' <=> Explains(h, k, q, s, b, t)'
  BY <1>2, <1>4 DEF HeadExplained
<1>6. CASE r.chain = d
  <2>1. k = n
    BY <1>4, <1>6, Grown
  <2>2. h # n /\ n > s
    BY <1>1, <1>3
  <2>3. log'[n].by # q \/ ~log'[n].acked
    BY <1>1, <1>6
  <2>4. Overtakes(k, q, s)'
    BY <2>1, <2>2, <2>3 DEF Overtakes
  <2>5. Explains(h, k, q, s, b, t)'
    BY <2>1, <2>2, <2>4 DEF Explains
  <2> QED
    BY <1>5, <2>5
<1>7. CASE r.chain # d
  <2>1. k = Newest(d)
    BY <1>4, <1>7, Grown
  <2>2. k = 0 \/ log'[k] = log[k]
    <3>1. k \in 0 .. (n - 1)
      BY <1>1, <2>1, NewestFacts
    <3> QED
      BY <1>1, <3>1
  <2>3. Explains(h, k, q, s, b, t)
    BY <1>2, <2>1 DEF HeadExplained
  <2>4. s \in Nat
    BY <1>1, <1>3
  <2>5. Explains(h, k, q, s, b, t)'
    BY <2>2, <2>3, <2>4, SameExplains
  <2> QED
    BY <1>5, <2>5
<1> QED
  BY <1>6, <1>7

\* The fields of the row an INSERT adds.
LEMMA NewRowFields ==
  \A p, c, prev, at, b :
    /\ NewRow(p, c, prev, at, b).chain = c /\ NewRow(p, c, prev, at, b).prev = prev
    /\ NewRow(p, c, prev, at, b).at = at /\ NewRow(p, c, prev, at, b).month = month
    /\ NewRow(p, c, prev, at, b).by = p /\ NewRow(p, c, prev, at, b).acked = b
    /\ NewRow(p, c, prev, at, b).since = head[p][c].since
    /\ NewRow(p, c, prev, at, b).behind = head[p][c].behind
    /\ NewRow(p, c, prev, at, b).tied = head[p][c].tied
    /\ NewRow(p, c, prev, at, b).stray = (c # "legacy" /\ <<KindOf(c), month>> \notin parts)
    /\ NewRow(p, c, prev, at, b).seq = IF c \in Tenant THEN drawn[p][c] ELSE Len(log) + 1
BY DEF NewRow

\* What an append does to the heads.
LEMMA AppendHeads ==
  ASSUME Stored, NEW p \in Proc, NEW c \in Chain, NEW at, NEW b \in BOOLEAN,
         Appends(p, c, at, b), NEW n, n = Len(log) + 1
  PROVE  /\ \A q \in Proc, d \in Chain : ~b \/ q # p \/ d # c => head'[q][d] = head[q][d]
         /\ \A q \in Proc, d \in Chain : head'[q][d].st = head[q][d].st
         /\ b => head'[p][c].hash = n /\ head'[p][c].since = head[p][c].since
<1>1. head' = IF b THEN [head EXCEPT ![p][c].hash = n] ELSE head
  BY DEF Appends
<1>2. CASE ~b
  BY <1>1, <1>2
<1>3. CASE b
  <2>1. /\ head \in [Proc -> [Chain -> HeadState]] /\ head[p][c] \in HeadState
        /\ log \in Seq(AuditRow)
    BY DEF Stored, Typed, TableTyped
  <2>2. PICK x : x = [head[p][c] EXCEPT !.hash = n]
    OBVIOUS
  <2>3. n \in Nat
    BY <2>1
  <2>4. x.st = head[p][c].st /\ x.hash = n /\ x.since = head[p][c].since
    BY <2>1, <2>2, <2>3, HeadMoves
  <2>5. head' = [head EXCEPT ![p] = [head[p] EXCEPT ![c] = x]]
    <3>1. head' = [head EXCEPT ![p] = [head[p] EXCEPT ![c] = [head[p][c] EXCEPT !.hash = n]]]
      BY <1>1, <1>3, Zenon
    <3> QED
      BY <2>2, <3>1, Zenon
  <2>6. \A q \in Proc, d \in Chain : head'[q][d] = IF q = p /\ d = c THEN x ELSE head[q][d]
    BY <2>1, <2>5
  <2> QED
    BY <1>3, <2>4, <2>6
<1> QED
  BY <1>2, <1>3

\* A process appends.
LEMMA AppendChain ==
  ASSUME Stored, ChainInv, NEW p \in Proc, NEW c \in Chain, NEW at \in 0 .. clock,
         NEW b \in BOOLEAN, Appends(p, c, at, b)
  PROVE  ChainInv'
<1>1. PICK n : n = Len(log) + 1
  OBVIOUS
<1>2. PICK r : r = NewRow(p, c, head[p][c].hash, at, b)
  OBVIOUS
<1>3. Grows(r) /\ head' = IF b THEN [head EXCEPT ![p][c].hash = n] ELSE head
  BY <1>1, <1>2 DEF Appends
<1>4. /\ r.chain = c /\ r.prev = head[p][c].hash /\ r.by = p /\ r.acked = b
      /\ r.since = head[p][c].since /\ r.behind = head[p][c].behind /\ r.tied = head[p][c].tied
  <2>1. PICK h : h = head[p][c].hash
    OBVIOUS
  <2>2. r = NewRow(p, c, h, at, b)
    BY <1>2, <2>1
  <2>3. r.chain = c /\ r.prev = h /\ r.by = p /\ r.since = head[p][c].since
    BY <2>2, NewRowFields
  <2>4. r.acked = b
    BY <2>2, NewRowFields
  <2>5. r.behind = head[p][c].behind /\ r.tied = head[p][c].tied
    BY <2>2, NewRowFields
  <2> QED
    BY <2>1, <2>3, <2>4, <2>5
<1>5. Ready(p, c)
  BY DEF Appends, ChainInv, AlwaysReady, DrawnReady
<1>6. HeadExplained(p, c)
  BY <1>5 DEF ChainInv, HeadsExplained
<1>7. ChainLinks'
  <2>1. PICK k : k = Newest(c)
    OBVIOUS
  <2>2. Explains(r.prev, k, r.by, r.since, r.behind, r.tied)
    BY <1>4, <1>6, <2>1 DEF HeadExplained
  <2>3. ChainLinks
    BY DEF ChainInv
  <2> QED
    BY <1>1, <1>3, <1>4, <2>1, <2>2, <2>3, GrowLinks
<1>8. /\ log \in Seq(AuditRow) /\ n \in Nat /\ n - 1 = Len(log) /\ DOMAIN log = 1 .. (n - 1)
      /\ DOMAIN log' = 1 .. n /\ \A i \in 1 .. (n - 1) : log'[i] = log[i]
      /\ log'[n] = r
  <2>1. log \in Seq(AuditRow)
    BY DEF Stored, Typed, TableTyped
  <2> QED
    BY <1>1, <1>3, <2>1, GrowFacts
<1>9. WritersKnown'
  <2>1. \A i \in 1 .. (n - 1) : log'[i].by \in Proc \cup {i}
    BY <1>8 DEF ChainInv, WritersKnown
  <2>2. log'[n].by \in Proc
    BY <1>4, <1>8
  <2>3. 1 .. n = (1 .. (n - 1)) \cup {n}
    BY <1>8
  <2> QED
    BY <1>8, <2>1, <2>2, <2>3 DEF WritersKnown
<1>10. /\ \A q \in Proc, d \in Chain : ~b \/ q # p \/ d # c => head'[q][d] = head[q][d]
       /\ \A q \in Proc, d \in Chain : head'[q][d].st = head[q][d].st
       /\ b => head'[p][c].hash = n /\ head'[p][c].since = head[p][c].since
  BY <1>1, AppendHeads
<1>11. AlwaysReady' /\ DrawnReady'
  <2>1. AlwaysReady'
    BY <1>10 DEF ChainInv, AlwaysReady, Ready, Chain
  <2>2. ASSUME NEW q \in Proc, NEW t \in Tenant, drawn'[q][t] # 0 PROVE head'[q][t].st = "ready"
    <3>1. drawn[q][t] # 0 /\ t \in Chain
      BY <2>2 DEF Appends, Chain
    <3> QED
      BY <1>10, <3>1 DEF ChainInv, DrawnReady, Ready
  <2> QED
    BY <2>1, <2>2 DEF DrawnReady, Ready
<1>12. ASSUME NEW q \in Proc, NEW d \in Chain, Ready(q, d)'
       PROVE  HeadExplained(q, d)'
  <2>1. Ready(q, d)
    BY <1>10, <1>12 DEF Ready
  <2>2. CASE b /\ q = p /\ d = c
    <3>1. Newest(d)' = n
      BY <1>1, <1>3, <1>4, <2>2, Grown
    <3>2. PICK s : s = head'[q][d].since
      OBVIOUS
    <3>3. head'[q][d].hash = n /\ s \in 0 .. (n - 1)
      BY <1>8, <1>10, <2>2, <3>2, HeadFacts
    <3>4. log'[n].by = q /\ log'[n].acked
      BY <1>4, <1>8, <2>2
    <3>5. ~Overtakes(n, q, s)' /\ n \notin 1 .. s
      BY <1>8, <3>3, <3>4 DEF Overtakes
    <3>6. \A x, y : Explains(n, n, q, s, x, y)'
      BY <3>5 DEF Explains
    <3> QED
      BY <3>1, <3>2, <3>3, <3>6 DEF HeadExplained
  <2>3. CASE ~b \/ q # p \/ d # c
    <3>1. head'[q][d] = head[q][d]
      BY <1>10, <2>3
    <3>2. r.chain = d => r.by # q \/ ~r.acked
      BY <1>4, <2>3
    <3>3. HeadExplained(q, d)
      BY <2>1 DEF ChainInv, HeadsExplained
    <3> QED
      BY <1>1, <1>3, <3>1, <3>2, <3>3, GrowHeads
  <2> QED
    BY <2>2, <2>3
<1>13. HeadsExplained'
  BY <1>12 DEF HeadsExplained, Chain
<1> QED
  BY <1>7, <1>9, <1>11, <1>13 DEF ChainInv

\* A goroutine appends with a dropped object.
LEMMA StrayChain ==
  ASSUME Stored, ChainInv, NEW p \in Proc, NEW t \in Tenant, NEW m \in Nat, Strays(p, t, m)
  PROVE  ChainInv'
<1>1. PICK n : n = Len(log) + 1
  OBVIOUS
<1>2. PICK r : r = OrphanRow(p, t, m)
  OBVIOUS
<1>3. Grows(r) /\ head' = head /\ drawn' = drawn
  BY <1>2 DEF Strays
<1>4. /\ r.chain = t /\ r.prev = 0 /\ r.by = n /\ r.since = 0 /\ r.behind = FALSE
  <2>1. /\ OrphanRow(p, t, m).chain = t /\ OrphanRow(p, t, m).prev = 0
        /\ OrphanRow(p, t, m).by = Len(log) + 1 /\ OrphanRow(p, t, m).since = 0
        /\ OrphanRow(p, t, m).behind = FALSE
    BY OrphanFacts
  <2> QED
    BY <1>1, <1>2, <2>1
<1>5. /\ log \in Seq(AuditRow) /\ n \in Nat /\ n - 1 = Len(log) /\ DOMAIN log = 1 .. (n - 1)
      /\ DOMAIN log' = 1 .. n /\ \A i \in 1 .. (n - 1) : log'[i] = log[i]
      /\ log'[n] = r
  <2>1. log \in Seq(AuditRow)
    BY DEF Stored, Typed, TableTyped
  <2> QED
    BY <1>1, <1>3, <2>1, GrowFacts
<1>6. n \notin Proc
  BY <1>5, AuditAssumption
<1>7. ChainLinks'
  <2>1. PICK k : k = Newest(t)
    OBVIOUS
  <2>2. k \in 0 .. (n - 1)
    BY <1>5, <2>1, NewestFacts
  <2>3. k # 0 => log[k].by # n
    <3>1. k # 0 => log[k].by \in Proc \cup {k} /\ k # n
      BY <1>5, <2>2 DEF ChainInv, WritersKnown
    <3> QED
      BY <1>6, <3>1
  <2>4. k # 0 => k > 0
    BY <2>2
  <2>5. Explains(r.prev, k, r.by, r.since, r.behind, r.tied)
    BY <1>4, <2>3, <2>4 DEF Explains, Overtakes
  <2>6. ChainLinks
    BY DEF ChainInv
  <2> QED
    BY <1>1, <1>3, <1>4, <2>1, <2>5, <2>6, GrowLinks
<1>8. WritersKnown'
  <2>1. \A i \in 1 .. (n - 1) : log'[i].by \in Proc \cup {i}
    BY <1>5 DEF ChainInv, WritersKnown
  <2>2. log'[n].by = n
    BY <1>4, <1>5
  <2>3. 1 .. n = (1 .. (n - 1)) \cup {n}
    BY <1>5
  <2> QED
    BY <1>5, <2>1, <2>2, <2>3 DEF WritersKnown
<1>9. AlwaysReady' /\ DrawnReady'
  BY <1>3 DEF ChainInv, AlwaysReady, DrawnReady, Ready, Chain
<1>10. ASSUME NEW q \in Proc, NEW d \in Chain, Ready(q, d)'
       PROVE  HeadExplained(q, d)'
  <2>1. Ready(q, d) /\ head'[q][d] = head[q][d]
    BY <1>3, <1>10 DEF Ready
  <2>2. r.by # q
    BY <1>4, <1>6
  <2>3. HeadExplained(q, d)
    BY <2>1 DEF ChainInv, HeadsExplained
  <2> QED
    BY <1>1, <1>3, <2>1, <2>2, <2>3, GrowHeads
<1>11. HeadsExplained'
  BY <1>10 DEF HeadsExplained, Chain
<1> QED
  BY <1>7, <1>8, <1>9, <1>11 DEF ChainInv

\* A head that has just been loaded is explained by what the load saw.
LEMMA LoadedExplained ==
  ASSUME Stored, NEW c, NEW h, Found(c, h), NEW x, x = Loaded(c, h),
         NEW m, m = Newest(c), NEW by
  PROVE  Explains(x.hash, m, by, x.since, x.behind, x.tied)
<1>1. /\ m \in RowsOf(c) \cup {0} /\ m \in 0 .. Len(log) /\ \A k \in RowsOf(c) : k <= m
      /\ RowsOf(c) \subseteq 1 .. Len(log) /\ Len(log) \in Nat
  BY NewestFacts DEF Genesis, Stored, Typed, TableTyped
<1>2. h \in (RowsOf(c) \cap live) \cup {0} /\ h \in 0 .. Len(log)
  BY FoundFacts DEF Genesis, Stored, Typed, TableTyped
<1>3. /\ x.hash = h /\ x.since = Len(log) /\ x.behind = (m \notin live \cup {0})
      /\ x.tied = (\E k \in RowsOf(c) \cap live : k # m /\ log[k].seq >= log[m].seq)
  <2>1. log \in Seq(AuditRow)
    BY DEF Stored, Typed, TableTyped
  <2>2. /\ Loaded(c, h).hash = h /\ Loaded(c, h).since = Len(log)
        /\ Loaded(c, h).behind = (Newest(c) \notin live \cup {Genesis})
        /\ Loaded(c, h).tied = (\E k \in RowsOf(c) \cap live :
                                  k # Newest(c) /\ log[k].seq >= log[Newest(c)].seq)
    BY <1>2, <2>1, LoadedFacts
  <2> QED
    BY <2>2 DEF Genesis
<1>4. ~(m > x.since)
  BY <1>1, <1>3
<1>5. m # 0 => m \in 1 .. x.since
  BY <1>1, <1>3
<1>6. m # 0 /\ x.behind => h # m
  BY <1>2, <1>3
<1>7. m = 0 => h = 0
  BY <1>1, <1>2
<1>8. ASSUME h # m, ~x.behind PROVE x.tied
  <2>1. m \in RowsOf(c) \cap live
    BY <1>1, <1>3, <1>7, <1>8
  <2>2. CASE h = LatestHash(c)
    <3>1. PICK T : T = (RowsOf(c) \cap live) \cup {0}
      OBVIOUS
    <3>2. T \in SUBSET (0 .. Len(log)) /\ m \in T /\ \A y \in T : y <= m
      BY <1>1, <2>1, <3>1
    <3>3. Max(T) = m
      BY <1>1, <3>2, MaxIs
    <3> QED
      BY <1>8, <2>2, <3>1, <3>3 DEF LatestHash, Genesis
  <2>3. CASE h \in TenantHeads(c)
    <3>1. h \in RowsOf(c) \cap live /\ \A k \in RowsOf(c) \cap live : log[k].seq <= log[h].seq
      BY <2>1, <2>3 DEF TenantHeads
    <3>2. log[m].seq \in Nat /\ log[h].seq \in Nat
      BY <2>1, <3>1, RowFacts DEF RowsOf
    <3>3. log[h].seq >= log[m].seq
      BY <2>1, <3>1, <3>2
    <3> QED
      BY <1>3, <1>8, <3>1, <3>3
  <2> QED
    BY <2>2, <2>3 DEF Found
<1>9. ~Overtakes(m, by, x.since)
  BY <1>4 DEF Overtakes
<1> QED
  BY <1>3, <1>5, <1>6, <1>7, <1>8, <1>9 DEF Explains

\* Reading heads again, or changing nothing the chains are made of.
LEMMA ReloadChain ==
  ASSUME Stored, ChainInv, log' = log,
         \A q \in Proc, c \in Chain :
           \/ head'[q][c] = head[q][c]
           \/ \E h : Found(c, h) /\ head'[q][c] = Loaded(c, h)
           \/ c \in Tenant /\ head'[q][c].st # "ready",
         \A q \in Proc, t \in Tenant :
           \/ drawn'[q][t] = 0
           \/ head'[q][t] = head[q][t] /\ (drawn'[q][t] = drawn[q][t] \/ Ready(q, t))
           \/ ~Ready(q, t) /\ drawn'[q][t] = drawn[q][t]
  PROVE  ChainInv'
<1>0. log \in Seq(AuditRow)
  BY DEF Stored, Typed, TableTyped
<1>1. \A c : RowsOf(c)' = RowsOf(c) /\ Newest(c)' = Newest(c)
  BY DEF RowsOf, Newest
<1>2. ChainLinks' /\ WritersKnown'
  BY DEF ChainInv, ChainLinks, WritersKnown, Overtaken, LoadedBehind, LoadedTied, Predecessor,
         RowsOf, Chain
<1>3. \A c, h : Found(c, h) => Loaded(c, h).st = "ready"
  BY <1>0, FoundFacts, LoadedFacts
<1>4. AlwaysReady'
  <2>1. \A q \in Proc, c \in Chain \ Tenant : head[q][c].st = "ready"
    BY DEF ChainInv, AlwaysReady, Ready
  <2>2. \A q \in Proc, c \in Chain \ Tenant : head'[q][c].st = "ready"
    BY <1>3, <2>1
  <2> QED
    BY <2>2 DEF AlwaysReady, Ready, Chain
<1>5. DrawnReady'
  <2>1. ASSUME NEW q \in Proc, NEW t \in Tenant, drawn'[q][t] # 0 PROVE head'[q][t].st = "ready"
    <3>1. drawn[q][t] # 0 => Ready(q, t)
      BY DEF ChainInv, DrawnReady
    <3> QED
      BY <2>1, <3>1 DEF Ready
  <2> QED
    BY <2>1 DEF DrawnReady, Ready
<1>6. ASSUME NEW q \in Proc, NEW c \in Chain, Ready(q, c)'
      PROVE  HeadExplained(q, c)'
  <2>1. PICK x : x = head'[q][c]
    OBVIOUS
  <2>2. PICK m : m = Newest(c)
    OBVIOUS
  <2>3. HeadExplained(q, c)' <=> Explains(x.hash, m, q, x.since, x.behind, x.tied)'
    BY <1>1, <2>1, <2>2 DEF HeadExplained
  <2>4. Explains(x.hash, m, q, x.since, x.behind, x.tied)'
          <=> Explains(x.hash, m, q, x.since, x.behind, x.tied)
    BY DEF Explains, Overtakes
  <2>5. CASE x = head[q][c]
    <3>1. Ready(q, c)
      BY <1>6, <2>1, <2>5 DEF Ready
    <3>2. Explains(x.hash, m, q, x.since, x.behind, x.tied)
      BY <2>2, <2>5, <3>1 DEF ChainInv, HeadsExplained, HeadExplained
    <3> QED
      BY <2>3, <2>4, <3>2
  <2>6. ASSUME NEW h, Found(c, h), x = Loaded(c, h)
        PROVE  HeadExplained(q, c)'
    <3>1. Explains(x.hash, m, q, x.since, x.behind, x.tied)
      BY <2>2, <2>6, LoadedExplained
    <3> QED
      BY <2>3, <2>4, <3>1
  <2>7. x.st = "ready"
    BY <1>6, <2>1 DEF Ready
  <2> QED
    BY <2>1, <2>5, <2>6, <2>7
<1>7. HeadsExplained'
  BY <1>6 DEF HeadsExplained, Chain
<1> QED
  BY <1>2, <1>4, <1>5, <1>7 DEF ChainInv

\* Every step keeps the chains explained.
LEMMA ChainStep == Stored /\ ChainInv /\ [Next]_vars => ChainInv'
<1> SUFFICES ASSUME Stored, ChainInv, [Next]_vars PROVE ChainInv'
  OBVIOUS
<1>1. ASSUME log' = log, head' = head, drawn' = drawn PROVE ChainInv'
  BY <1>1, ReloadChain
<1>2. CASE UNCHANGED vars
  BY <1>1, <1>2 DEF vars, table, lazy
<1>3. CASE Next
  <2>1. ASSUME NEW p \in Proc, NEW c \in Chain, NEW at \in 0 .. clock, NEW b \in BOOLEAN,
               Appends(p, c, at, b)
        PROVE  ChainInv'
    BY <2>1, AppendChain
  <2>2. ASSUME NEW p \in Proc, NEW t \in Tenant, NEW n \in Nat, Strays(p, t, n) PROVE ChainInv'
    BY <2>2, StrayChain
  <2>3. CASE Reloads
    <3>1. /\ log' = log
          /\ \A q \in Proc, c \in Chain :
               \/ head'[q][c] = head[q][c]
               \/ \E h : Found(c, h) /\ head'[q][c] = Loaded(c, h)
               \/ c \in Tenant /\ head'[q][c].st # "ready"
          /\ \A q \in Proc, t \in Tenant :
               \/ drawn'[q][t] = 0
               \/ head'[q][t] = head[q][t] /\ (drawn'[q][t] = drawn[q][t] \/ Ready(q, t))
               \/ ~Ready(q, t) /\ drawn'[q][t] = drawn[q][t]
      BY <2>3 DEF Reloads
    <3> QED
      BY <3>1, ReloadChain
  <2>4. ASSUME NEW p \in Proc, NEW d \in Chain, WriteBegin(p, d) PROVE ChainInv'
    BY <1>1, <2>4 DEF WriteBegin, table, lazy
  <2>5. CASE SealUnsealed
    BY <1>1, <2>5 DEF SealUnsealed, table, lazy
  <2>6. CASE Sweep
    <3>1. bound' = bound
      BY <1>3 DEF Next
    <3> QED
      BY <1>1, <2>6, <3>1, SweepType DEF Sweep
  <2> QED
    BY <1>3, <2>1, <2>2, <2>3, <2>4, <2>5, <2>6, StepKinds
<1> QED
  BY <1>2, <1>3

\* A new installation has empty chains and heads at the genesis hash.
LEMMA ChainInit == Init => ChainInv
<1> SUFFICES ASSUME Init PROVE ChainInv
  OBVIOUS
<1>0. Stored
  BY StoredInit
<1>1. log \in Seq(AuditRow) /\ DOMAIN log = {} /\ \A c : RowsOf(c) = {}
  BY DEF Init, RowsOf
<1>2. ChainLinks /\ WritersKnown
  BY <1>1 DEF ChainLinks, WritersKnown
<1>3. \A p \in Proc, c \in Chain : head[p][c] = Booted[c]
  BY DEF Init
<1>4. \A c \in Chain : Booted[c] = IF c \in Tenant THEN Absent ELSE Loaded(c, LatestHash(c))
  BY DEF Booted
<1>5. \A c : Loaded(c, LatestHash(c)).st = "ready" /\ Found(c, LatestHash(c))
  BY <1>1, LatestFacts, LoadedFacts DEF Found
<1>6. AlwaysReady /\ DrawnReady
  BY <1>1, <1>3, <1>4, <1>5 DEF AlwaysReady, DrawnReady, Ready, Init, NoneDrawn
<1>7. ASSUME NEW p \in Proc, NEW c \in Chain, Ready(p, c)
      PROVE  HeadExplained(p, c)
  <2>1. PICK x : x = head[p][c]
    OBVIOUS
  <2>2. PICK h : h = LatestHash(c)
    OBVIOUS
  <2>3. x = Loaded(c, h) /\ Found(c, h)
    BY <1>3, <1>4, <1>5, <1>7, <2>1, <2>2, AbsentFacts DEF Ready
  <2>4. PICK m : m = Newest(c)
    OBVIOUS
  <2>5. Explains(x.hash, m, p, x.since, x.behind, x.tied)
    BY <1>0, <2>3, <2>4, LoadedExplained
  <2> QED
    BY <2>1, <2>4, <2>5 DEF HeadExplained
<1> QED
  BY <1>2, <1>6, <1>7 DEF ChainInv, HeadsExplained

\* Whatever the processes do, a chain forks only where a row came in between that
\* did not move the writer's head, or where the head was loaded after the newest row
\* had been archived or while another row had its number or a higher one; and for
\* the first two causes it always forks.
THEOREM LinksBreakOnlyWhereExplained == Spec => []ChainLinks
<1>1. Init => Stored /\ ChainInv
  BY StoredInit, ChainInit
<1>2. Stored /\ ChainInv /\ [Next]_vars => (Stored /\ ChainInv)'
  BY StoredStep, ChainStep
<1>3. ChainInv => ChainLinks
  BY DEF ChainInv
<1> QED
  BY <1>1, <1>2, <1>3, PTL DEF Spec

-----------------------------------------------------------------------------
(* Partitions and archives *)

\* The partition a row belongs to, and whether it is in it or in _default.
PartOf(i) == <<KindOf(log[i].chain), log[i].month>>
Archivable(i) == log[i].chain # "legacy" /\ ~log[i].stray

\* The rows of a partition, archived or not.
AllRows(pt) == {i \in DOMAIN log : InPartition(i, pt[1], pt[2])}

\* Rows come month after month.
MonthsFollow ==
  /\ \A i, j \in DOMAIN log : i < j => log[i].month <= log[j].month
  /\ \A i \in DOMAIN log : log[i].month <= month

\* A row that left its table did so with a partition of a past month, after
\* the archive of it and the manifest.
DroppedArchived ==
  \A i \in DOMAIN log \ live :
    /\ Archivable(i) /\ log[i].month < month
    /\ PartOf(i) \notin parts /\ PartOf(i) \in manifests /\ i \in staged[PartOf(i)]

\* Where the sweep is: the payload is the whole partition, and the manifest has
\* landed before the partition may be dropped.
SweepSound ==
  /\ archiving.stage # "idle" =>
       /\ archiving.part \in parts /\ archiving.part[2] < month
       /\ staged[archiving.part] = AllRows(archiving.part)
  /\ archiving.stage = "drop" => archiving.part \in manifests

\* A payload that is not empty holds the whole partition, now and later.
StagedWhole ==
  \A pt \in Partition : staged[pt] # {} => pt[2] < month /\ staged[pt] = AllRows(pt)

\* The partition of this month is there as soon as a row is in it; from then on
\* rows do not fall into _default any more.
CurrentKept == \A i \in DOMAIN log : Archivable(i) /\ log[i].month = month => PartOf(i) \in parts
NoStrayAfter ==
  \A i, j \in DOMAIN log : i < j /\ Archivable(i) /\ PartOf(i) = PartOf(j) => ~log[j].stray

ArchiveInv == /\ MonthsFollow /\ DroppedArchived /\ SweepSound /\ StagedWhole
              /\ CurrentKept /\ NoStrayAfter

\* The row that arrives, whoever writes it.
Arrives(r) ==
  /\ Grows(r) /\ r.month = month
  /\ r.stray <=> r.chain # "legacy" /\ <<KindOf(r.chain), month>> \notin parts
  /\ r.chain \notin Tenant => r.seq = Len(log) + 1
  /\ live' = live \cup {Len(log) + 1} /\ Aside

LEMMA AppendArrives ==
  ASSUME Stored, NEW p \in Proc, NEW c \in Chain, NEW at \in 0 .. clock,
         NEW b \in BOOLEAN, Appends(p, c, at, b)
  PROVE  \E r : Arrives(r)
<1>1. PICK h : h = head[p][c].hash
  OBVIOUS
<1>2. PICK r : r = NewRow(p, c, h, at, b)
  OBVIOUS
<1>3. r.chain = c /\ r.month = month
  BY <1>2, NewRowFields
<1>4. r.stray <=> c # "legacy" /\ <<KindOf(c), month>> \notin parts
  BY <1>2, NewRowFields
<1>5. Grows(r) /\ live' = live \cup {Len(log) + 1} /\ Aside
  BY <1>1, <1>2 DEF Appends
<1>6. c \notin Tenant => r.seq = Len(log) + 1
  BY <1>2, NewRowFields
<1> QED
  BY <1>3, <1>4, <1>5, <1>6 DEF Arrives

LEMMA StrayArrives ==
  ASSUME Stored, NEW p \in Proc, NEW t \in Tenant, NEW m \in Nat, Strays(p, t, m)
  PROVE  \E r : Arrives(r)
<1>1. PICK r : r = OrphanRow(p, t, m)
  OBVIOUS
<1>2. r.chain = t /\ r.month = month /\ r.stray = (<<KindOf(t), month>> \notin parts)
  <2>1. /\ OrphanRow(p, t, m).chain = t /\ OrphanRow(p, t, m).month = month
        /\ OrphanRow(p, t, m).stray = (<<KindOf(t), month>> \notin parts)
    BY OrphanFacts
  <2> QED
    BY <1>1, <2>1
<1>3. t # "legacy"
  BY AuditAssumption
<1>4. r.stray <=> r.chain # "legacy" /\ <<KindOf(r.chain), month>> \notin parts
  BY <1>2, <1>3
<1>5. Grows(r) /\ live' = live \cup {Len(log) + 1} /\ Aside
  BY <1>1 DEF Strays
<1> QED
  BY <1>2, <1>4, <1>5 DEF Arrives

\* A row in a partition is one of its kind and month.
LEMMA InPart ==
  ASSUME NEW pt \in Partition, NEW i
  PROVE  InPartition(i, pt[1], pt[2]) <=> Archivable(i) /\ PartOf(i) = pt
<1>1. PICK k, m : pt = <<k, m>>
  BY DEF Partition
<1>2. pt[1] = k /\ pt[2] = m
  BY <1>1
<1>3. PartOf(i) = pt <=> KindOf(log[i].chain) = k /\ log[i].month = m
  BY <1>1 DEF PartOf
<1> QED
  BY <1>2, <1>3 DEF InPartition, Archivable

\* A row that is neither legacy nor stray belongs to a partition.
LEMMA PartType ==
  ASSUME Stored, MonthsFollow, NEW i \in DOMAIN log, Archivable(i)
  PROVE  PartOf(i) \in Partition /\ PartOf(i)[2] = log[i].month /\ PartOf(i)[1] = KindOf(log[i].chain)
<1>1. log[i].month \in Nat /\ log[i].chain \in Chain /\ log[i].month <= month
  BY RowFacts DEF MonthsFollow
<1>2. month \in 0 .. bound.months /\ bound.months \in Nat
  BY DEF Stored, Typed, ArchiveTyped, Instance
<1>3. log[i].month \in 0 .. (bound.months + 1)
  BY <1>1, <1>2
<1>4. KindOf(log[i].chain) \in Kind
  BY <1>1 DEF Archivable, KindOf, Kind, Chain
<1> QED
  BY <1>3, <1>4 DEF PartOf, Partition

\* The partitions of past months do not grow.
LEMMA PastWhole ==
  ASSUME Stored, NEW r, Arrives(r), NEW pt \in Partition, pt[2] < month
  PROVE  AllRows(pt)' = AllRows(pt)
<1>1. PICK n : n = Len(log) + 1
  OBVIOUS
<1>2. /\ n \in Nat /\ n - 1 \in Nat /\ DOMAIN log = 1 .. (n - 1)
      /\ DOMAIN log' = 1 .. n /\ \A i \in 1 .. (n - 1) : log'[i] = log[i]
      /\ log'[n] = r
  BY <1>1, GrowFacts DEF Stored, Typed, TableTyped, Arrives
<1>3. \A i \in 1 .. (n - 1) : InPartition(i, pt[1], pt[2])' <=> InPartition(i, pt[1], pt[2])
  BY <1>2 DEF InPartition
<1>4. ~InPartition(n, pt[1], pt[2])'
  <2>1. month \in Nat
    BY DEF Stored, Typed, ArchiveTyped, Instance
  <2>2. pt[2] # month
    BY <2>1
  <2> QED
    BY <1>2, <2>2 DEF InPartition, Arrives
<1>5. 1 .. n = (1 .. (n - 1)) \cup {n}
  BY <1>2
<1>6. AllRows(pt)' = {i \in 1 .. n : InPartition(i, pt[1], pt[2])'}
  BY <1>2 DEF AllRows
<1>7. AllRows(pt) = {i \in 1 .. (n - 1) : InPartition(i, pt[1], pt[2])}
  BY <1>2 DEF AllRows
<1> QED
  BY <1>3, <1>4, <1>5, <1>6, <1>7

\* A row arrives.
LEMMA ArriveArchive ==
  ASSUME Stored, ArchiveInv, NEW r, Arrives(r), Partition' = Partition
  PROVE  ArchiveInv'
<1>1. PICK n : n = Len(log) + 1
  OBVIOUS
<1>2. /\ n \in Nat /\ DOMAIN log = 1 .. (n - 1)
      /\ DOMAIN log' = 1 .. n /\ \A i \in 1 .. (n - 1) : log'[i] = log[i]
      /\ log'[n] = r /\ 1 .. n = (1 .. (n - 1)) \cup {n}
  BY <1>1, GrowFacts DEF Stored, Typed, TableTyped, Arrives
<1>3. UNCHANGED <<month, parts, staged, manifests, archiving>> /\ live' = live \cup {n}
  BY <1>1 DEF Arrives, Aside
<1>4. \A i \in 1 .. (n - 1) : PartOf(i)' = PartOf(i) /\ (Archivable(i)' <=> Archivable(i))
  BY <1>2 DEF PartOf, Archivable
<1>5. /\ r.month = month /\ month \in Nat
      /\ r.stray <=> r.chain # "legacy" /\ <<KindOf(r.chain), month>> \notin parts
      /\ PartOf(n)' = <<KindOf(r.chain), month>>
      /\ Archivable(n)' <=> r.chain # "legacy" /\ ~r.stray
  BY <1>2, <1>3 DEF Arrives, PartOf, Archivable, Stored, Typed, ArchiveTyped, Instance
<1>6. MonthsFollow'
  <2>1. \A i \in 1 .. (n - 1) : log[i].month <= month
    BY <1>2 DEF ArchiveInv, MonthsFollow
  <2>2. \A i \in 1 .. n : log'[i].month <= month
    BY <1>2, <1>5, <2>1
  <2>3. ASSUME NEW i \in 1 .. n, NEW j \in 1 .. n, i < j PROVE log'[i].month <= log'[j].month
    <3>1. i \in 1 .. (n - 1)
      BY <1>2, <2>3
    <3>2. CASE j = n
      BY <1>2, <1>5, <2>1, <3>1, <3>2
    <3>3. CASE j \in 1 .. (n - 1)
      BY <1>2, <2>3, <3>1, <3>3 DEF ArchiveInv, MonthsFollow
    <3> QED
      BY <1>2, <3>2, <3>3
  <2> QED
    BY <1>2, <1>3, <2>2, <2>3 DEF MonthsFollow
<1>7. DroppedArchived'
  <2>1. (DOMAIN log \ live)' = DOMAIN log \ live
    BY <1>2, <1>3
  <2>2. ASSUME NEW i \in DOMAIN log \ live
        PROVE  (/\ Archivable(i) /\ log[i].month < month
                /\ PartOf(i) \notin parts /\ PartOf(i) \in manifests /\ i \in staged[PartOf(i)])'
    <3>1. /\ Archivable(i) /\ log[i].month < month
          /\ PartOf(i) \notin parts /\ PartOf(i) \in manifests /\ i \in staged[PartOf(i)]
      BY <2>2 DEF ArchiveInv, DroppedArchived
    <3> QED
      BY <1>2, <1>3, <1>4, <2>2, <3>1
  <2> QED
    BY <2>1, <2>2 DEF DroppedArchived
<1>8. SweepSound'
  <2>1. PICK pt \in Partition : pt = archiving.part
    BY DEF Stored, Typed, ArchiveTyped
  <2>2. pt[2] < month => AllRows(pt)' = AllRows(pt)
    BY PastWhole
  <2>3. archiving.stage # "idle" => pt \in parts /\ pt[2] < month /\ staged[pt] = AllRows(pt)
    BY <2>1 DEF ArchiveInv, SweepSound
  <2>4. archiving.stage = "drop" => pt \in manifests
    BY <2>1 DEF ArchiveInv, SweepSound
  <2> QED
    BY <1>3, <2>1, <2>2, <2>3, <2>4 DEF SweepSound
<1>9. StagedWhole'
  <2>1. ASSUME NEW pt \in Partition, staged[pt] # {}
        PROVE  pt[2] < month /\ staged[pt] = AllRows(pt)'
    BY <2>1, PastWhole DEF ArchiveInv, StagedWhole
  <2> QED
    BY <1>3, <2>1 DEF StagedWhole
<1>10. CurrentKept'
  <2>1. ASSUME NEW i \in 1 .. n, Archivable(i)', log'[i].month = month
        PROVE  PartOf(i)' \in parts
    <3>1. CASE i \in 1 .. (n - 1)
      BY <1>2, <1>4, <2>1, <3>1 DEF ArchiveInv, CurrentKept
    <3>2. CASE i = n
      BY <1>5, <2>1, <3>2
    <3> QED
      BY <1>2, <3>1, <3>2
  <2> QED
    BY <1>2, <1>3, <2>1 DEF CurrentKept
<1>11. NoStrayAfter'
  <2>1. ASSUME NEW i \in 1 .. n, NEW j \in 1 .. n, i < j, Archivable(i)', PartOf(i)' = PartOf(j)'
        PROVE  ~log'[j].stray
    <3>1. i \in 1 .. (n - 1)
      BY <1>2, <2>1
    <3>2. CASE j \in 1 .. (n - 1)
      BY <1>2, <1>4, <2>1, <3>1, <3>2 DEF ArchiveInv, NoStrayAfter
    <3>3. CASE j = n
      <4>1. PartOf(i) = <<KindOf(r.chain), month>> /\ Archivable(i)
        BY <1>4, <1>5, <2>1, <3>1, <3>3
      <4>2. log[i].month = month
        BY <4>1 DEF PartOf
      <4>3. PartOf(i) \in parts
        BY <1>2, <3>1, <4>1, <4>2 DEF ArchiveInv, CurrentKept
      <4>4. ~r.stray
        BY <1>5, <4>1, <4>3
      <4> QED
        BY <1>2, <3>3, <4>4
    <3> QED
      BY <1>2, <3>2, <3>3
  <2> QED
    BY <1>2, <2>1 DEF NoStrayAfter
<1> QED
  BY <1>6, <1>7, <1>8, <1>9, <1>10, <1>11 DEF ArchiveInv

\* The sweep and the calendar.
LEMMA SweepArchive ==
  ASSUME Stored, ArchiveInv, Sweep, bound' = bound
  PROVE  ArchiveInv'
<1>0. /\ Partition' = Partition /\ log' = log /\ month \in Nat
      /\ staged \in [Partition -> SUBSET Nat] /\ live \subseteq DOMAIN log
  BY SamePartitions, SweepType DEF Sweep, Stored, Typed, ArchiveTyped, Instance, TableTyped
<1>1. /\ \A i : PartOf(i)' = PartOf(i) /\ (Archivable(i)' <=> Archivable(i))
      /\ \A pt : AllRows(pt)' = AllRows(pt)
  BY <1>0 DEF PartOf, Archivable, AllRows, InPartition
<1>2. ASSUME month' = month PROVE MonthsFollow'
  BY <1>0, <1>2 DEF ArchiveInv, MonthsFollow
<1>3. NoStrayAfter'
  BY <1>0, <1>1 DEF ArchiveInv, NoStrayAfter
<1>4. ASSUME month' = month, parts \subseteq parts' PROVE CurrentKept'
  BY <1>0, <1>1, <1>4 DEF ArchiveInv, CurrentKept
<1>5. ASSUME month' = month, staged' = staged PROVE StagedWhole'
  BY <1>0, <1>1, <1>5 DEF ArchiveInv, StagedWhole
<1>6. ASSUME archiving'.stage = "idle" PROVE SweepSound'
  BY <1>6 DEF SweepSound
<1>7. ASSUME UNCHANGED <<live, month, staged>>, parts' \subseteq parts, manifests \subseteq manifests'
      PROVE  DroppedArchived'
  BY <1>0, <1>1, <1>7 DEF ArchiveInv, DroppedArchived
<1>8. CASE NextMonth
  <2>1. month' = month + 1 /\ UNCHANGED <<live, parts, staged, manifests, archiving>>
    BY <1>8 DEF NextMonth, table, archive
  <2>2. \A i \in DOMAIN log : log[i].month \in Nat /\ log[i].month <= month
    BY RowFacts DEF ArchiveInv, MonthsFollow
  <2>3. \A i \in DOMAIN log : log[i].month <= month + 1 /\ log[i].month < month + 1
                              /\ log[i].month # month + 1
    BY <1>0, <2>2
  <2>4. \A pt \in Partition : pt[2] < month => pt[2] < month + 1
    BY <1>0 DEF Partition
  <2>5. MonthsFollow'
    BY <1>0, <2>1, <2>3 DEF ArchiveInv, MonthsFollow
  <2>6. DroppedArchived'
    BY <1>0, <1>1, <2>1, <2>3 DEF ArchiveInv, DroppedArchived
  <2>7. SweepSound'
    <3>1. PICK pt \in Partition : pt = archiving.part
      BY DEF Stored, Typed, ArchiveTyped
    <3>2. archiving.stage # "idle" => pt \in parts /\ pt[2] < month /\ staged[pt] = AllRows(pt)
      BY <3>1 DEF ArchiveInv, SweepSound
    <3>3. archiving.stage = "drop" => pt \in manifests
      BY <3>1 DEF ArchiveInv, SweepSound
    <3> QED
      BY <1>1, <2>1, <2>4, <3>1, <3>2, <3>3 DEF SweepSound
  <2>8. StagedWhole'
    BY <1>0, <1>1, <2>1, <2>4 DEF ArchiveInv, StagedWhole
  <2>9. CurrentKept'
    BY <1>0, <2>1, <2>3 DEF CurrentKept
  <2> QED
    BY <1>3, <2>5, <2>6, <2>7, <2>8, <2>9 DEF ArchiveInv
<1>9. CASE EnsurePartitions
  <2>1. parts' = parts \cup Created /\ UNCHANGED <<live, month, staged, manifests, archiving>>
    BY <1>9 DEF EnsurePartitions, table
  <2>2. \A pt \in Created : pt[2] \in {month, month + 1}
    BY CreatedFacts
  <2>3. \A i \in DOMAIN log \ live : PartOf(i) \notin Created
    <3>1. \A i \in DOMAIN log \ live : log[i].month < month /\ log[i].month \in Nat
      BY RowFacts DEF ArchiveInv, DroppedArchived
    <3>2. \A i : PartOf(i)[2] = log[i].month
      BY DEF PartOf
    <3>3. \A i \in DOMAIN log \ live : PartOf(i)[2] \notin {month, month + 1}
      BY <1>0, <3>1, <3>2
    <3> QED
      BY <2>2, <3>3
  <2>4. DroppedArchived'
    BY <1>0, <1>1, <2>1, <2>3 DEF ArchiveInv, DroppedArchived
  <2>5. SweepSound'
    BY <1>1, <2>1 DEF ArchiveInv, SweepSound
  <2> QED
    BY <1>2, <1>3, <1>4, <1>5, <2>1, <2>4, <2>5 DEF ArchiveInv
<1>10. ASSUME NEW pt \in Partition, ArchiveStage(pt) PROVE ArchiveInv'
  <2>1. /\ pt \in parts /\ pt[2] < month
        /\ staged' = [staged EXCEPT ![pt] = PartitionRows(pt[1], pt[2])]
        /\ archiving' = [stage |-> "put", part |-> pt]
        /\ UNCHANGED <<live, month, parts, manifests>>
    BY <1>10 DEF ArchiveStage, Eligible, table
  <2>2. PartitionRows(pt[1], pt[2]) = AllRows(pt)
    <3>1. ASSUME NEW i \in DOMAIN log, InPartition(i, pt[1], pt[2]) PROVE i \in live
      <4>1. PartOf(i) = pt
        BY <3>1, InPart
      <4> QED
        BY <2>1, <4>1 DEF ArchiveInv, DroppedArchived
    <3> QED
      BY <1>0, <3>1 DEF PartitionRows, AllRows
  <2>3. /\ staged'[pt] = AllRows(pt)
        /\ \A q \in Partition : q # pt => staged'[q] = staged[q]
    BY <1>0, <2>1, <2>2
  <2>4. DroppedArchived'
    <3>1. ASSUME NEW i \in DOMAIN log \ live
          PROVE  /\ Archivable(i) /\ log[i].month < month
                 /\ PartOf(i) \notin parts /\ PartOf(i) \in manifests /\ i \in staged'[PartOf(i)]
      <4>1. /\ Archivable(i) /\ log[i].month < month
            /\ PartOf(i) \notin parts /\ PartOf(i) \in manifests /\ i \in staged[PartOf(i)]
        BY <3>1 DEF ArchiveInv, DroppedArchived
      <4>2. PartOf(i) \in Partition /\ PartOf(i) # pt
        BY <2>1, <3>1, <4>1, PartType DEF ArchiveInv
      <4> QED
        BY <2>3, <4>1, <4>2
    <3> QED
      BY <1>0, <1>1, <2>1, <3>1 DEF DroppedArchived
  <2>5. SweepSound'
    BY <1>1, <2>1, <2>3 DEF SweepSound
  <2>6. StagedWhole'
    <3>1. ASSUME NEW q \in Partition, staged'[q] # {}
          PROVE  q[2] < month /\ staged'[q] = AllRows(q)
      BY <2>1, <2>3, <3>1 DEF ArchiveInv, StagedWhole
    <3> QED
      BY <1>0, <1>1, <2>1, <3>1 DEF StagedWhole
  <2> QED
    BY <1>2, <1>3, <1>4, <2>1, <2>4, <2>5, <2>6 DEF ArchiveInv
<1>a. /\ archiving.stage \in {"idle", "put", "drop"} /\ archiving.part \in Partition
      /\ \A s \in {"idle", "put", "drop"} :
           archiving' = [archiving EXCEPT !.stage = s] =>
             archiving'.stage = s /\ archiving'.part = archiving.part
  BY DEF Stored, Typed, ArchiveTyped
<1>11. CASE ArchivePut
  <2>1. /\ archiving.stage = "put" /\ manifests' = manifests \cup {archiving.part}
        /\ UNCHANGED <<live, month, parts, staged>>
        /\ archiving' = [archiving EXCEPT !.stage = "drop"]
    BY <1>11 DEF ArchivePut, table
  <2>2. archiving'.part = archiving.part
    BY <1>a, <2>1
  <2>3. SweepSound'
    <3>1. PICK pt : pt = archiving.part
      OBVIOUS
    <3>2. archiving'.part = pt /\ pt \in manifests'
      BY <2>1, <2>2, <3>1
    <3>3. pt \in parts /\ pt[2] < month /\ staged[pt] = AllRows(pt)
      BY <2>1, <3>1 DEF ArchiveInv, SweepSound
    <3> QED
      BY <1>1, <2>1, <3>2, <3>3 DEF SweepSound
  <2> QED
    BY <1>2, <1>3, <1>4, <1>5, <1>7, <2>1, <2>3 DEF ArchiveInv
<1>12. CASE ArchiveDrop
  <2>1. PICK pt \in Partition : pt = archiving.part
    BY <1>a
  <2>2. /\ archiving.stage = "drop" /\ live' = live \ PartitionRows(pt[1], pt[2])
        /\ parts' = parts \ {pt} /\ UNCHANGED <<month, staged, manifests>>
        /\ archiving' = [archiving EXCEPT !.stage = "idle"]
    BY <1>12, <2>1 DEF ArchiveDrop
  <2>3. pt \in parts /\ pt[2] < month /\ staged[pt] = AllRows(pt) /\ pt \in manifests
    BY <2>1, <2>2 DEF ArchiveInv, SweepSound
  <2>4. archiving'.stage = "idle"
    BY <1>a, <2>2
  <2>5. DroppedArchived'
    <3>1. ASSUME NEW i \in DOMAIN log \ live'
          PROVE  /\ Archivable(i) /\ log[i].month < month
                 /\ PartOf(i) \notin parts' /\ PartOf(i) \in manifests /\ i \in staged[PartOf(i)]
      <4>1. CASE i \notin live
        BY <2>2, <3>1, <4>1 DEF ArchiveInv, DroppedArchived
      <4>2. CASE i \in live
        <5>1. InPartition(i, pt[1], pt[2])
          BY <2>2, <3>1, <4>2 DEF PartitionRows
        <5>2. Archivable(i) /\ PartOf(i) = pt /\ i \in AllRows(pt)
          BY <3>1, <5>1, InPart DEF AllRows
        <5>3. log[i].month = pt[2]
          BY <5>2 DEF PartOf
        <5> QED
          BY <2>2, <2>3, <5>2, <5>3
      <4> QED
        BY <4>1, <4>2
    <3> QED
      BY <1>0, <1>1, <2>2, <3>1 DEF DroppedArchived
  <2>6. CurrentKept'
    <3>1. ASSUME NEW i \in DOMAIN log, Archivable(i), log[i].month = month
          PROVE  PartOf(i) \in parts'
      <4>1. PartOf(i) \in parts
        BY <3>1 DEF ArchiveInv, CurrentKept
      <4>2. PartOf(i)[2] = month
        BY <3>1 DEF PartOf
      <4>3. PartOf(i) # pt
        BY <1>0, <2>3, <4>2
      <4> QED
        BY <2>2, <4>1, <4>3
    <3> QED
      BY <1>0, <1>1, <2>2, <3>1 DEF CurrentKept
  <2> QED
    BY <1>2, <1>3, <1>5, <1>6, <2>2, <2>4, <2>5, <2>6 DEF ArchiveInv
<1>13. CASE ArchiveAbort
  <2>1. UNCHANGED <<live, month, parts, staged, manifests>>
        /\ archiving' = [archiving EXCEPT !.stage = "idle"]
    BY <1>13 DEF ArchiveAbort, table
  <2>2. archiving'.stage = "idle"
    BY <1>a, <2>1
  <2> QED
    BY <1>2, <1>3, <1>4, <1>5, <1>6, <1>7, <2>1, <2>2 DEF ArchiveInv
<1> QED
  BY <1>8, <1>9, <1>10, <1>11, <1>12, <1>13 DEF Sweep

\* A step that touches neither the table nor the archives.
LEMMA IdleArchive ==
  ASSUME ArchiveInv, Partition' = Partition,
         UNCHANGED <<log, live, month, parts, staged, manifests, archiving>>
  PROVE  ArchiveInv'
<1>1. \A i : PartOf(i)' = PartOf(i) /\ (Archivable(i)' <=> Archivable(i))
  BY DEF PartOf, Archivable
<1>2. \A pt : AllRows(pt)' = AllRows(pt)
  BY DEF AllRows, InPartition
<1>3. MonthsFollow' /\ DroppedArchived' /\ CurrentKept' /\ NoStrayAfter'
  BY <1>1 DEF ArchiveInv, MonthsFollow, DroppedArchived, CurrentKept, NoStrayAfter
<1>4. SweepSound' /\ StagedWhole'
  BY <1>2 DEF ArchiveInv, SweepSound, StagedWhole
<1> QED
  BY <1>3, <1>4 DEF ArchiveInv

\* Every step keeps the archives sound.
LEMMA ArchiveStep == Stored /\ ArchiveInv /\ [Next]_vars => ArchiveInv'
<1> SUFFICES ASSUME Stored, ArchiveInv, [Next]_vars PROVE ArchiveInv'
  OBVIOUS
<1>1. bound' = bound /\ Partition' = Partition
  BY SamePartitions DEF Next, vars
<1>2. CASE UNCHANGED vars
  BY <1>1, <1>2, IdleArchive DEF vars, table, archive
<1>3. CASE Next
  <2>1. ASSUME NEW p \in Proc, NEW c \in Chain, NEW at \in 0 .. clock, NEW b \in BOOLEAN,
               Appends(p, c, at, b)
        PROVE  ArchiveInv'
    <3>1. PICK r : Arrives(r)
      BY <2>1, AppendArrives
    <3> QED
      BY <1>1, <3>1, ArriveArchive
  <2>2. ASSUME NEW p \in Proc, NEW t \in Tenant, NEW n \in Nat, Strays(p, t, n) PROVE ArchiveInv'
    <3>1. PICK r : Arrives(r)
      BY <2>2, StrayArrives
    <3> QED
      BY <1>1, <3>1, ArriveArchive
  <2>3. CASE Reloads
    BY <1>1, <2>3, IdleArchive DEF Reloads, Aside
  <2>4. ASSUME NEW p \in Proc, NEW d \in Chain, WriteBegin(p, d) PROVE ArchiveInv'
    BY <1>1, <2>4, IdleArchive DEF WriteBegin, table, archive
  <2>5. CASE SealUnsealed
    BY <1>1, <2>5, IdleArchive DEF SealUnsealed, table, archive
  <2>6. CASE Sweep
    BY <1>1, <2>6, SweepArchive
  <2> QED
    BY <1>3, <2>1, <2>2, <2>3, <2>4, <2>5, <2>6, StepKinds
<1> QED
  BY <1>2, <1>3

LEMMA ArchiveInit == Init => ArchiveInv
<1> SUFFICES ASSUME Init PROVE ArchiveInv
  OBVIOUS
<1>1. DOMAIN log = {} /\ archiving.stage = "idle" /\ \A pt \in Partition : staged[pt] = {}
  BY DEF Init
<1> QED
  BY <1>1 DEF ArchiveInv, MonthsFollow, DroppedArchived, SweepSound, StagedWhole, CurrentKept,
              NoStrayAfter

\* Whatever step of the sweep fails, a row is in its table or in an archive
\* whose manifest has landed.
THEOREM RowsAreNeverLost == Spec => []NothingLost
<1>1. Init => Stored /\ ArchiveInv
  BY StoredInit, ArchiveInit
<1>2. Stored /\ ArchiveInv /\ [Next]_vars => (Stored /\ ArchiveInv)'
  BY StoredStep, ArchiveStep
<1>3. ArchiveInv => NothingLost
  BY DEF ArchiveInv, DroppedArchived, NothingLost, PartOf
<1> QED
  BY <1>1, <1>2, <1>3, PTL DEF Spec

-----------------------------------------------------------------------------
(* Seals *)

Legacy == RowsOf("legacy")

\* A legacy row is stamped under its writer's mutex, after the rows its writer
\* knows of: those its head was loaded after and those it wrote itself.
LegacyTimes ==
  /\ \A i \in Legacy : log[i].at > 0 /\ ~log[i].behind
  /\ \A p \in Proc : ~head[p]["legacy"].behind
  /\ \A p \in Proc : writing[p].stage = "insert" =>
       /\ writing[p].at > 0
       /\ \A k \in Legacy : k <= head[p]["legacy"].since \/ log[k].by = p => log[k].at < writing[p].at

\* The times follow the insertions.
InTime == \A k, i \in Legacy : k < i => log[k].at < log[i].at

\* A seal ends at its head; it starts where the one before it ends, the first
\* one no later than the first row; it counts the rows of its range.
SealsTile ==
  /\ \A j \in DOMAIN seals :
       /\ seals[j].head \in Legacy /\ seals[j].end = log[seals[j].head].at
       /\ \A k \in DOMAIN seals : k = j - 1 => seals[j].start = seals[k].end
       /\ j = 1 => \A i \in Legacy : seals[j].start <= log[i].at
       /\ seals[j].count = Cardinality({i \in Legacy : InRange(i, j)})
  /\ \A j, k \in DOMAIN seals : j < k => seals[j].head < seals[k].head

SealInv == LegacyTimes /\ (Sound("legacy") => InTime /\ SealsTile)

\* Legacy rows are never archived, so the legacy head is never behind.
LEMMA LegacyHead ==
  ASSUME Stored, ArchiveInv
  PROVE  /\ Legacy \subseteq live
         /\ \A h : Found("legacy", h) => ~Loaded("legacy", h).behind
<1>0. log \in Seq(AuditRow)
  BY DEF Stored, Typed, TableTyped
<1>1. Legacy \subseteq DOMAIN log /\ \A i \in Legacy : log[i].chain = "legacy"
  BY DEF Legacy, RowsOf
<1>2. Legacy \subseteq live
  BY <1>1 DEF ArchiveInv, DroppedArchived, Archivable
<1>3. Newest("legacy") \in live \cup {Genesis}
  BY <1>0, <1>2, NewestFacts DEF Legacy
<1>4. ASSUME NEW h, Found("legacy", h) PROVE ~Loaded("legacy", h).behind
  <2>1. h \in 0 .. Len(log)
    BY <1>0, <1>4, FoundFacts
  <2>2. Loaded("legacy", h).behind = (Newest("legacy") \notin live \cup {Genesis})
    BY <1>0, <2>1, LoadedFacts
  <2> QED
    BY <1>3, <2>2
<1> QED
  BY <1>2, <1>4

\* Rows of other chains do not matter.
LEMMA OtherRows ==
  ASSUME Legacy' = Legacy, \A i \in Legacy : log'[i] = log[i], seals' = seals
  PROVE  (InTime => InTime') /\ (SealsTile => SealsTile')
<1>1. InTime => InTime'
  BY DEF InTime
<1>2. ASSUME NEW j \in DOMAIN seals
      PROVE  {i \in Legacy : InRange(i, j)}' = {i \in Legacy : InRange(i, j)}
  BY DEF InRange
<1>3. ASSUME SealsTile PROVE SealsTile'
  <2>1. ASSUME NEW j \in DOMAIN seals
        PROVE  (/\ seals[j].head \in Legacy /\ seals[j].end = log[seals[j].head].at
                /\ \A k \in DOMAIN seals : k = j - 1 => seals[j].start = seals[k].end
                /\ j = 1 => \A i \in Legacy : seals[j].start <= log[i].at
                /\ seals[j].count = Cardinality({i \in Legacy : InRange(i, j)}))'
    <3>1. seals[j].head \in Legacy /\ seals[j].end = log[seals[j].head].at
      BY <1>3 DEF SealsTile
    <3>2. \A k \in DOMAIN seals : k = j - 1 => seals[j].start = seals[k].end
      BY <1>3 DEF SealsTile
    <3>3. j = 1 => \A i \in Legacy : seals[j].start <= log[i].at
      BY <1>3 DEF SealsTile
    <3>4. seals[j].count = Cardinality({i \in Legacy : InRange(i, j)})
      BY <1>3 DEF SealsTile
    <3>5. (seals[j].count = Cardinality({i \in Legacy : InRange(i, j)}))'
      BY <1>2, <3>4
    <3> QED
      BY <3>1, <3>2, <3>3, <3>5
  <2>2. \A j, k \in DOMAIN seals' : j < k => seals'[j].head < seals'[k].head
    BY <1>3 DEF SealsTile
  <2> QED
    BY <2>1, <2>2 DEF SealsTile
<1> QED
  BY <1>1, <1>3

\* A chain that is sound after a new row was sound before it.
LEMMA SoundBefore ==
  ASSUME Stored, NEW r, Grows(r), NEW n, n = Len(log) + 1, NEW c, Sound(c)'
  PROVE  Sound(c) /\ (r.chain = c => ~Broken(c, n)')
<1>1. RowsOf(c)' = IF r.chain = c THEN RowsOf(c) \cup {n} ELSE RowsOf(c)
  BY Grown
<1>2. RowsOf(c) \subseteq 1 .. (n - 1)
  <2>1. n - 1 = Len(log)
    BY RowFacts
  <2> QED
    BY <2>1, NewestFacts DEF Stored, Typed, TableTyped
<1>3. \A i \in RowsOf(c)' : ~Broken(c, i)'
  BY DEF Sound, Broken
<1>4. \A i \in 1 .. (n - 1) : Broken(c, i)' <=> Broken(c, i)
  BY Grown
<1>5. \A i \in RowsOf(c) : ~Broken(c, i)
  BY <1>1, <1>2, <1>3, <1>4
<1> QED
  BY <1>1, <1>3, <1>5 DEF Sound, Broken

\* A legacy row that keeps the chain sound is stamped after all the others.
LEMMA StampedLast ==
  ASSUME Stored, ChainInv, SealInv, NEW p \in Proc, NEW r, Grows(r), r.chain = "legacy", r.by = p,
         r.since = head[p]["legacy"].since, writing[p].stage = "insert", r.at = writing[p].at,
         Sound("legacy")'
  PROVE  Sound("legacy") /\ \A k \in Legacy : log[k].at < r.at
<1>1. PICK n : n = Len(log) + 1
  OBVIOUS
<1>2. PICK c : c = "legacy"
  OBVIOUS
<1>3. Sound(c) /\ ~Broken(c, n)'
  <2>1. Sound(c)'
    BY <1>2
  <2> QED
    BY <1>1, <1>2, <2>1, SoundBefore
<1>4. /\ log \in Seq(AuditRow) /\ n \in Nat /\ n - 1 = Len(log) /\ DOMAIN log = 1 .. (n - 1)
      /\ \A i \in 1 .. (n - 1) : log'[i] = log[i]
      /\ log'[n] = r
  BY <1>1, GrowFacts DEF Stored, Typed, TableTyped
<1>5. PICK m : m = Newest(c)
  OBVIOUS
<1>6. m \in RowsOf(c) \cup {0} /\ m \in 0 .. (n - 1) /\ \A k \in RowsOf(c) : k <= m
  BY <1>4, <1>5, NewestFacts DEF Genesis
<1>7. Predecessor(c, n)' = m
  BY <1>1, <1>5, Grown
<1>8. m # 0 => m <= r.since \/ log[m].by = p
  <2>1. ~(m > log'[n].since /\ log'[m].by # log'[n].by)
    BY <1>3, <1>7 DEF Broken, Overtaken
  <2>2. r.since \in Nat
    BY HeadFacts, Bounds
  <2>3. m # 0 => log'[m] = log[m]
    BY <1>4, <1>6
  <2> QED
    BY <1>4, <1>6, <2>1, <2>2, <2>3
<1>9. InTime
  BY <1>2, <1>3 DEF SealInv
<1>10. Legacy = RowsOf(c) /\ \A k \in Legacy : log[k].at \in Nat /\ k \in 1 .. (n - 1)
  BY <1>2, <1>4, RowFacts DEF Legacy, RowsOf
<1>11. m \in Legacy => log[m].at < r.at
  BY <1>4, <1>6, <1>8, <1>10 DEF SealInv, LegacyTimes
<1>12. ASSUME NEW k \in Legacy PROVE log[k].at < r.at
  <2>1. m \in Legacy /\ k <= m
    BY <1>6, <1>10
  <2>2. log[m].at \in Nat /\ log[k].at \in Nat /\ r.at \in Nat
    <3>1. r.at = writing[p].at /\ writing[p] \in WriteState
      BY DEF Stored, Typed, WritersTyped
    <3> QED
      BY <1>10, <2>1, <3>1 DEF WriteState
  <2>3. k = m \/ k < m
    BY <1>10, <2>1
  <2>4. k < m => log[k].at < log[m].at
    BY <1>9, <2>1 DEF InTime
  <2> QED
    BY <1>11, <2>1, <2>2, <2>3, <2>4
<1> QED
  BY <1>2, <1>3, <1>12

\* Such a row lies after every seal.
LEMMA RowAfterSeals ==
  ASSUME Stored, NEW r, Grows(r), r.chain = "legacy", \A k \in Legacy : log[k].at < r.at,
         InTime, SealsTile, seals' = seals
  PROVE  InTime' /\ SealsTile'
<1>1. PICK n : n = Len(log) + 1
  OBVIOUS
<1>4. /\ n \in Nat /\ n - 1 = Len(log) /\ DOMAIN log = 1 .. (n - 1)
      /\ \A i \in 1 .. (n - 1) : log'[i] = log[i]
      /\ log'[n] = r /\ r.at \in Nat
  BY <1>1, GrowFacts DEF Stored, Typed, TableTyped, Grows, AuditRow
<1>5. Legacy' = Legacy \cup {n}
  BY <1>1, Grown DEF Legacy
<1>6. \A k \in Legacy : k \in 1 .. (n - 1) /\ log'[k] = log[k] /\ log[k].at \in Nat
  BY <1>4, RowFacts DEF Legacy, RowsOf
<1>7. InTime'
  <2>1. ASSUME NEW k \in Legacy', NEW i \in Legacy', k < i PROVE log'[k].at < log'[i].at
    <3>1. k \in Legacy
      BY <1>4, <1>5, <1>6, <2>1
    <3>2. CASE i = n
      BY <1>4, <1>6, <3>1, <3>2
    <3>3. CASE i \in Legacy
      BY <1>6, <2>1, <3>1, <3>3 DEF InTime
    <3> QED
      BY <1>5, <3>2, <3>3
  <2> QED
    BY <2>1 DEF InTime
<1>8. ASSUME NEW j \in DOMAIN seals
      PROVE  (/\ seals[j].head \in Legacy /\ seals[j].end = log[seals[j].head].at
              /\ \A k \in DOMAIN seals : k = j - 1 => seals[j].start = seals[k].end
              /\ j = 1 => \A i \in Legacy : seals[j].start <= log[i].at
              /\ seals[j].count = Cardinality({i \in Legacy : InRange(i, j)}))'
  <2>1. seals[j].head \in Legacy /\ seals[j].end = log[seals[j].head].at
    BY DEF SealsTile
  <2>2. \A k \in DOMAIN seals : k = j - 1 => seals[j].start = seals[k].end
    BY DEF SealsTile
  <2>3. j = 1 => \A i \in Legacy : seals[j].start <= log[i].at
    BY DEF SealsTile
  <2>4. seals[j].count = Cardinality({i \in Legacy : InRange(i, j)})
    BY DEF SealsTile
  <2>5. seals[j].end < r.at /\ seals[j].start \in Nat /\ seals[j].end \in Nat
    BY <2>1, RowFacts
  <2>6. j = 1 => \A i \in Legacy' : seals[j].start <= log'[i].at
    <3>1. PICK h \in Legacy : h = seals[j].head
      BY <2>1
    <3>2. j = 1 => seals[j].start <= log[h].at
      BY <2>3
    <3>3. j = 1 => seals[j].start <= r.at
      BY <1>4, <1>6, <2>5, <3>2
    <3> QED
      BY <1>4, <1>5, <1>6, <2>3, <3>3
  <2>7. {i \in Legacy : InRange(i, j)}' = {i \in Legacy : InRange(i, j)}
    <3>1. \A i \in Legacy : InRange(i, j)' <=> InRange(i, j)
      BY <1>6 DEF InRange
    <3>2. ~InRange(n, j)'
      <4>1. ~(r.at <= seals[j].end)
        BY <1>4, <2>5
      <4> QED
        BY <1>4, <4>1 DEF InRange
    <3>3. {i \in Legacy : InRange(i, j)}' = {i \in Legacy' : InRange(i, j)'}
      OBVIOUS
    <3> QED
      BY <1>5, <3>1, <3>2, <3>3
  <2>8. (seals[j].count = Cardinality({i \in Legacy : InRange(i, j)}))'
    BY <2>4, <2>7
  <2>9. (seals[j].head \in Legacy /\ seals[j].end = log[seals[j].head].at)'
    BY <1>5, <1>6, <2>1
  <2> QED
    BY <2>2, <2>6, <2>8, <2>9
<1>9. \A j, k \in DOMAIN seals' : j < k => seals'[j].head < seals'[k].head
  BY DEF SealsTile
<1> QED
  BY <1>7, <1>8, <1>9 DEF SealsTile

\* A process appends.
LEMMA AppendSeal ==
  ASSUME Stored, ChainInv, SealInv, NEW p \in Proc, NEW c \in Chain, NEW at \in 0 .. clock,
         NEW b \in BOOLEAN, Appends(p, c, at, b)
  PROVE  SealInv'
<1>1. PICK n : n = Len(log) + 1
  OBVIOUS
<1>2. PICK h : h = head[p][c].hash
  OBVIOUS
<1>3. PICK r : r = NewRow(p, c, h, at, b)
  OBVIOUS
<1>4. Grows(r) /\ head' = (IF b THEN [head EXCEPT ![p][c].hash = n] ELSE head) /\ seals' = seals
  BY <1>1, <1>2, <1>3 DEF Appends, Aside
<1>5. /\ r.chain = c /\ r.by = p /\ r.at = at /\ r.since = head[p][c].since
  BY <1>3, NewRowFields
<1>6. r.behind = head[p][c].behind
  BY <1>3, NewRowFields
<1>7. /\ log \in Seq(AuditRow) /\ n \in Nat /\ n - 1 = Len(log) /\ DOMAIN log = 1 .. (n - 1)
      /\ \A i \in 1 .. (n - 1) : log'[i] = log[i]
      /\ log'[n] = r
  BY <1>1, <1>4, GrowFacts DEF Stored, Typed, TableTyped
<1>8. /\ Legacy' = IF c = "legacy" THEN Legacy \cup {n} ELSE Legacy
      /\ \A k \in Legacy : k \in 1 .. (n - 1) /\ log'[k] = log[k]
  <2>1. Legacy' = IF c = "legacy" THEN Legacy \cup {n} ELSE Legacy
    BY <1>1, <1>4, <1>5, Grown DEF Legacy
  <2>2. \A k \in Legacy : k \in 1 .. (n - 1) /\ log'[k] = log[k]
    BY <1>7 DEF Legacy, RowsOf
  <2> QED
    BY <2>1, <2>2
<1>9. \A q \in Proc : head'[q]["legacy"].since = head[q]["legacy"].since
                      /\ head'[q]["legacy"].behind = head[q]["legacy"].behind
  <2>1. CASE ~b
    BY <1>4, <2>1
  <2>2. CASE b
    <3>1. head \in [Proc -> [Chain -> HeadState]] /\ head[p][c] \in HeadState /\ "legacy" \in Chain
      BY Bounds DEF Stored, Typed, TableTyped
    <3>2. PICK x : x = [head[p][c] EXCEPT !.hash = n]
      OBVIOUS
    <3>3. x.behind = head[p][c].behind /\ x.since = head[p][c].since
      BY <1>7, <3>1, <3>2, HeadMoves
    <3>4. head' = [head EXCEPT ![p] = [head[p] EXCEPT ![c] = x]]
      <4>1. head' = [head EXCEPT ![p] = [head[p] EXCEPT ![c] = [head[p][c] EXCEPT !.hash = n]]]
        BY <1>4, <2>2, Zenon
      <4> QED
        BY <3>2, <4>1, Zenon
    <3>5. \A q \in Proc, d \in Chain : head'[q][d] = IF q = p /\ d = c THEN x ELSE head[q][d]
      BY <3>1, <3>4
    <3> QED
      BY <3>1, <3>3, <3>5
  <2> QED
    BY <2>1, <2>2
<1>10. /\ c = "legacy" => writing[p].stage = "insert" /\ at = writing[p].at
       /\ \A q \in Proc : /\ writing'[q].at = writing[q].at
                          /\ writing'[q].stage = "insert" =>
                               writing[q].stage = "insert" /\ (c = "legacy" => q # p)
  BY DEF Appends
<1>11. LegacyTimes'
  <2>1. c = "legacy" => r.at > 0 /\ ~r.behind
    BY <1>5, <1>6, <1>10 DEF SealInv, LegacyTimes
  <2>2. \A i \in Legacy' : log'[i].at > 0 /\ ~log'[i].behind
    BY <1>7, <1>8, <2>1 DEF SealInv, LegacyTimes
  <2>3. \A q \in Proc : ~head'[q]["legacy"].behind
    BY <1>9 DEF SealInv, LegacyTimes
  <2>4. ASSUME NEW q \in Proc, writing'[q].stage = "insert"
        PROVE  /\ writing'[q].at > 0
               /\ \A k \in Legacy' : k <= head'[q]["legacy"].since \/ log'[k].by = q =>
                                       log'[k].at < writing'[q].at
    <3>1. /\ writing[q].stage = "insert" /\ writing'[q].at = writing[q].at
          /\ c = "legacy" => q # p
      BY <1>10, <2>4
    <3>2. /\ writing[q].at > 0
          /\ \A k \in Legacy : k <= head[q]["legacy"].since \/ log[k].by = q =>
                                 log[k].at < writing[q].at
      BY <3>1 DEF SealInv, LegacyTimes
    <3>3. head[q]["legacy"].since \in 0 .. (n - 1)
      BY <1>7, HeadFacts, Bounds
    <3>4. c = "legacy" => ~(n <= head'[q]["legacy"].since) /\ log'[n].by # q
      BY <1>5, <1>7, <1>9, <3>1, <3>3
    <3> QED
      BY <1>8, <1>9, <3>1, <3>2, <3>4
  <2> QED
    BY <2>2, <2>3, <2>4 DEF LegacyTimes
<1>12. ASSUME Sound("legacy")' PROVE InTime' /\ SealsTile'
  <2>1. CASE c = "legacy"
    <3>1. Sound("legacy") /\ \A k \in Legacy : log[k].at < r.at
      BY <1>4, <1>5, <1>10, <1>12, <2>1, StampedLast
    <3>2. InTime /\ SealsTile
      BY <3>1 DEF SealInv
    <3> QED
      BY <1>4, <1>5, <2>1, <3>1, <3>2, RowAfterSeals
  <2>2. CASE c # "legacy"
    <3>1. Sound("legacy")
      <4>1. PICK d : d = "legacy"
        OBVIOUS
      <4>2. Sound(d)'
        BY <1>12, <4>1
      <4>3. Sound(d)
        BY <1>1, <1>4, <4>2, SoundBefore
      <4> QED
        BY <4>1, <4>3
    <3>2. InTime /\ SealsTile
      BY <3>1 DEF SealInv
    <3> QED
      BY <1>4, <1>8, <2>2, <3>2, OtherRows
  <2> QED
    BY <2>1, <2>2
<1> QED
  BY <1>11, <1>12 DEF SealInv

\* A goroutine appends with a dropped object: never to the legacy chain.
LEMMA StraySeal ==
  ASSUME Stored, SealInv, NEW p \in Proc, NEW t \in Tenant, NEW m \in Nat, Strays(p, t, m)
  PROVE  SealInv'
<1>1. PICK n : n = Len(log) + 1
  OBVIOUS
<1>2. PICK r : r = OrphanRow(p, t, m)
  OBVIOUS
<1>3. Grows(r) /\ head' = head /\ writing' = writing /\ seals' = seals
  BY <1>2 DEF Strays, Aside
<1>4. r.chain = t /\ t # "legacy"
  <2>1. OrphanRow(p, t, m).chain = t
    BY OrphanFacts
  <2> QED
    BY <1>2, <2>1, AuditAssumption
<1>5. Legacy' = Legacy /\ \A k \in Legacy : log'[k] = log[k]
  <2>1. Legacy' = Legacy
    BY <1>1, <1>3, <1>4, Grown DEF Legacy
  <2>2. \A i \in 1 .. Len(log) : log'[i] = log[i]
    BY <1>3, GrowFacts DEF Stored, Typed, TableTyped
  <2>3. Legacy \subseteq 1 .. Len(log)
    BY RowFacts DEF Legacy, RowsOf
  <2> QED
    BY <2>1, <2>2, <2>3
<1>6. LegacyTimes'
  BY <1>3, <1>5 DEF SealInv, LegacyTimes
<1>7. ASSUME Sound("legacy")' PROVE InTime' /\ SealsTile'
  <2>1. PICK d : d = "legacy"
    OBVIOUS
  <2>2. Sound(d)'
    BY <1>7, <2>1
  <2>3. Sound(d)
    BY <1>1, <1>3, <2>2, SoundBefore
  <2>4. InTime /\ SealsTile
    BY <2>1, <2>3 DEF SealInv
  <2> QED
    BY <1>3, <1>5, <2>4, OtherRows
<1> QED
  BY <1>6, <1>7 DEF SealInv

\* The chains are sound or not by their rows alone.
LEMMA SameSound ==
  ASSUME log' = log
  PROVE  Legacy' = Legacy /\ (Sound("legacy")' <=> Sound("legacy"))
BY DEF Legacy, RowsOf, Sound, Overtaken, LoadedBehind, LoadedTied, Predecessor

\* Nothing the seals depend on changes but the heads and the writes in flight.
LEMMA QuietSeal ==
  ASSUME SealInv, log' = log, seals' = seals, LegacyTimes'
  PROVE  SealInv'
<1>1. Legacy' = Legacy /\ (Sound("legacy")' <=> Sound("legacy"))
  BY SameSound
<1> QED
  BY <1>1, OtherRows DEF SealInv

LEMMA ReloadSeal ==
  ASSUME Stored, ArchiveInv, SealInv, Reloads
  PROVE  SealInv'
<1>1. Legacy' = Legacy /\ log' = log /\ seals' = seals
  BY SameSound DEF Reloads, Aside
<1>2. "legacy" \in Chain /\ "legacy" \notin Tenant
  BY AuditAssumption DEF Chain
<1>3. \A q \in Proc : ~head'[q]["legacy"].behind
  <2>1. \A q \in Proc : \/ head'[q]["legacy"] = head[q]["legacy"]
                        \/ \E h : Found("legacy", h) /\ head'[q]["legacy"] = Loaded("legacy", h)
    BY <1>2 DEF Reloads
  <2> QED
    BY <2>1, LegacyHead DEF SealInv, LegacyTimes
<1>4. ASSUME NEW q \in Proc, writing'[q].stage = "insert"
      PROVE  /\ writing'[q].at > 0
             /\ \A k \in Legacy : k <= head'[q]["legacy"].since \/ log[k].by = q =>
                                     log[k].at < writing'[q].at
  <2>1. /\ writing[q].stage = "insert" /\ writing'[q].at = writing[q].at
        /\ head'[q]["legacy"] = head[q]["legacy"]
    BY <1>4 DEF Reloads
  <2> QED
    BY <2>1 DEF SealInv, LegacyTimes
<1>5. LegacyTimes'
  BY <1>1, <1>3, <1>4 DEF SealInv, LegacyTimes
<1> QED
  BY <1>1, <1>5, QuietSeal

LEMMA BeginSeal ==
  ASSUME Stored, SealInv, NEW p \in Proc, NEW d \in Chain, WriteBegin(p, d)
  PROVE  SealInv'
<1>1. /\ log' = log /\ seals' = seals /\ head' = head
      /\ writing' = [writing EXCEPT ![p] = [stage |-> "insert", at |-> clock + 1, dest |-> d]]
  BY DEF WriteBegin, table
<1>2. Legacy' = Legacy
  BY <1>1, SameSound
<1>3. clock \in Nat /\ writing \in [Proc -> WriteState]
  BY DEF Stored, Typed, Clocked, WritersTyped
<1>4. \A k \in Legacy : log[k].at \in Nat /\ log[k].at < clock + 1
  <2>1. \A k \in Legacy : log[k].at \in Nat /\ log[k].at <= clock
    BY RowFacts DEF Legacy, RowsOf, Stored, Typed, Clocked
  <2> QED
    BY <1>3, <2>1
<1>5. /\ writing'[p].at = clock + 1
      /\ \A q \in Proc : q # p => writing'[q] = writing[q]
  BY <1>1, <1>3
<1>6. ASSUME NEW q \in Proc, writing'[q].stage = "insert"
      PROVE  /\ writing'[q].at > 0
             /\ \A k \in Legacy : k <= head[q]["legacy"].since \/ log[k].by = q =>
                                     log[k].at < writing'[q].at
  <2>1. CASE q = p
    BY <1>3, <1>4, <1>5, <2>1
  <2>2. CASE q # p
    BY <1>5, <1>6, <2>2 DEF SealInv, LegacyTimes
  <2> QED
    BY <2>1, <2>2
<1>7. LegacyTimes'
  BY <1>1, <1>2, <1>6 DEF SealInv, LegacyTimes
<1> QED
  BY <1>1, <1>7, QuietSeal

\* The ends of the seals grow with their heads; the last one is LastSealed.
LEMMA EndsGrow ==
  ASSUME Stored, InTime, SealsTile
  PROVE  /\ \A j, k \in DOMAIN seals : j <= k => seals[j].end <= seals[k].end
         /\ seals # <<>> => LastSealed = seals[Len(seals)].end
<1>1. /\ DOMAIN seals = 1 .. Len(seals) /\ Len(seals) \in Nat
      /\ \A j \in DOMAIN seals : seals[j].end \in Nat
  BY RowFacts
<1>2. ASSUME NEW j \in DOMAIN seals, NEW k \in DOMAIN seals, j <= k
      PROVE  seals[j].end <= seals[k].end
  <2>1. CASE j = k
    BY <1>1, <2>1
  <2>2. CASE j < k
    <3>1. PICK a \in Legacy : a = seals[j].head /\ seals[j].end = log[a].at
      BY DEF SealsTile
    <3>2. PICK z \in Legacy : z = seals[k].head /\ seals[k].end = log[z].at
      BY DEF SealsTile
    <3>3. a < z
      BY <2>2, <3>1, <3>2 DEF SealsTile
    <3>4. log[a].at < log[z].at
      BY <3>3 DEF InTime
    <3> QED
      BY <1>1, <3>1, <3>2, <3>4
  <2> QED
    BY <1>1, <1>2, <2>1, <2>2
<1>3. ASSUME seals # <<>> PROVE LastSealed = seals[Len(seals)].end
  <2>1. PICK n \in DOMAIN seals : n = Len(seals)
    <3>1. seals \in Seq(SealRow)
      BY DEF Stored, Typed, SealsTyped
    <3>2. Len(seals) # 0
      BY <1>3, <3>1, EmptySeq
    <3> QED
      BY <1>1, <3>2
  <2>2. \A j \in DOMAIN seals : seals[j].end <= LastSealed
    BY UnsealedFacts
  <2>3. LastSealed = 0 \/ \E j \in DOMAIN seals : LastSealed = seals[j].end
    BY UnsealedFacts
  <2>4. LastSealed \in Nat
    BY UnsealedFacts DEF Stored, Typed, Clocked
  <2>5. \A j \in DOMAIN seals : seals[j].end <= seals[n].end
    BY <1>1, <1>2, <2>1
  <2>6. LastSealed <= seals[n].end
    BY <1>1, <2>1, <2>3, <2>5
  <2>7. seals[n].end <= LastSealed
    BY <2>1, <2>2
  <2> QED
    BY <1>1, <2>1, <2>4, <2>6, <2>7
<1> QED
  BY <1>2, <1>3

\* SealUnsealed adds a tile.
LEMMA SealTiles ==
  ASSUME Stored, SealInv, InTime, SealsTile, Unsealed # {}, seals' = Append(seals, NewSeal),
         log' = log
  PROVE  SealsTile'
<1>1. PICK m \in Nat : m = Len(seals) + 1
  BY RowFacts
<1>2. PICK s \in SealRow :
        /\ s = NewSeal /\ s.end = log[Max(Unsealed)].at /\ s.head = Max(Unsealed)
        /\ s.count = Cardinality(Unsealed)
        /\ s.start = IF seals = <<>> THEN log[Min(Unsealed)].at ELSE LastSealed
  BY SealFacts
<1>3. /\ m - 1 = Len(seals) /\ m - 1 \in Nat /\ DOMAIN seals = 1 .. (m - 1) /\ DOMAIN seals' = 1 .. m
      /\ \A j \in 1 .. (m - 1) : seals'[j] = seals[j]
      /\ seals'[m] = s
  <2>1. seals \in Seq(SealRow)
    BY DEF Stored, Typed, SealsTyped
  <2> QED
    BY <1>1, <1>2, <2>1, AppendProperties
<1>4. Legacy' = Legacy
  BY SameSound
<1>5. PICK a \in Legacy : a = Min(Unsealed) /\ a \in Unsealed /\ \A i \in Unsealed : a <= i
  BY UnsealedFacts DEF Legacy
<1>6. PICK z \in Legacy : z = Max(Unsealed) /\ z \in Unsealed /\ \A i \in Unsealed : i <= z
  BY UnsealedFacts DEF Legacy
<1>7. \A i \in Legacy : log[i].at \in Nat /\ i \in Nat
  BY RowFacts DEF Legacy, RowsOf
<1>8. Unsealed = {i \in Legacy : log[i].at > LastSealed} /\ LastSealed \in Nat
  BY UnsealedFacts DEF Unsealed, Legacy, Stored, Typed, Clocked
<1>9. s.head = z /\ s.end = log[z].at /\ s.start = IF seals = <<>> THEN log[a].at ELSE LastSealed
  BY <1>2, <1>5, <1>6
<1>10. \A i, k \in Legacy : i <= k => log[i].at <= log[k].at
  BY <1>7 DEF InTime
<1>11. seals = <<>> <=> m = 1
  <2>1. seals \in Seq(SealRow)
    BY DEF Stored, Typed, SealsTyped
  <2>2. seals = <<>> <=> Len(seals) = 0
    BY <2>1, EmptySeq
  <2> QED
    BY <1>1, <1>3, <2>2
<1>12. m = 1 => Unsealed = Legacy
  <2>1. m = 1 => LastSealed = 0
    BY <1>3, UnsealedFacts
  <2>2. \A i \in Legacy : log[i].at > 0
    BY DEF SealInv, LegacyTimes
  <2> QED
    BY <1>8, <2>1, <2>2
<1>13. \A i \in Legacy :
         log[i].at <= s.end /\ (log[i].at > s.start \/ (m = 1 /\ log[i].at = s.start)) <=> i \in Unsealed
  <2>1. ASSUME NEW i \in Unsealed PROVE log[i].at <= s.end
    BY <1>6, <1>8, <1>9, <1>10, <2>1
  <2>2. ASSUME NEW i \in Unsealed, m = 1 PROVE log[i].at > s.start \/ log[i].at = s.start
    <3>1. log[a].at <= log[i].at
      BY <1>5, <1>8, <1>10, <2>2
    <3>2. s.start = log[a].at
      BY <1>9, <1>11, <2>2
    <3>3. log[i].at \in Nat /\ log[a].at \in Nat
      BY <1>5, <1>7, <1>8, <2>2
    <3> QED
      BY <3>1, <3>2, <3>3
  <2>3. ASSUME NEW i \in Legacy, m # 1 PROVE log[i].at > s.start <=> i \in Unsealed
    BY <1>8, <1>9, <1>11, <2>3
  <2>4. Unsealed \subseteq Legacy
    BY <1>8
  <2>5. CASE m = 1
    BY <1>12, <2>1, <2>2, <2>5
  <2>6. CASE m # 1
    BY <2>1, <2>3, <2>4, <2>6
  <2> QED
    BY <2>5, <2>6
<1>14. ASSUME NEW j \in 1 .. m
       PROVE  (/\ seals[j].head \in Legacy /\ seals[j].end = log[seals[j].head].at
               /\ \A k \in DOMAIN seals : k = j - 1 => seals[j].start = seals[k].end
               /\ j = 1 => \A i \in Legacy : seals[j].start <= log[i].at
               /\ seals[j].count = Cardinality({i \in Legacy : InRange(i, j)}))'
  <2>1. CASE j \in 1 .. (m - 1)
    <3>1. seals[j].head \in Legacy /\ seals[j].end = log[seals[j].head].at
      BY <1>3, <2>1 DEF SealsTile
    <3>2. \A k \in DOMAIN seals : k = j - 1 => seals[j].start = seals[k].end
      BY <1>3, <2>1 DEF SealsTile
    <3>3. j = 1 => \A i \in Legacy : seals[j].start <= log[i].at
      BY <1>3, <2>1 DEF SealsTile
    <3>4. seals[j].count = Cardinality({i \in Legacy : InRange(i, j)})
      BY <1>3, <2>1 DEF SealsTile
    <3>5. {i \in Legacy : InRange(i, j)}' = {i \in Legacy : InRange(i, j)}
      BY <1>3, <1>4, <2>1 DEF InRange
    <3>6. (seals[j].count = Cardinality({i \in Legacy : InRange(i, j)}))'
      BY <1>3, <2>1, <3>4, <3>5
    <3>7. \A k \in 1 .. m : k = j - 1 => seals'[j].start = seals'[k].end
      <4>1. ASSUME NEW k \in 1 .. m, k = j - 1 PROVE k \in 1 .. (m - 1)
        BY <1>3, <2>1, <4>1
      <4> QED
        BY <1>3, <2>1, <3>2, <4>1
    <3> QED
      BY <1>3, <1>4, <2>1, <3>1, <3>3, <3>6, <3>7
  <2>2. CASE j = m
    <3>1. seals'[j] = s
      BY <1>3, <2>2
    <3>2. \A k \in 1 .. m : k = j - 1 => s.start = seals'[k].end
      <4>1. ASSUME NEW k \in 1 .. m, k = j - 1 PROVE s.start = seals'[k].end
        <5>1. k = Len(seals) /\ m # 1 /\ seals'[k] = seals[k]
          BY <1>3, <2>2, <4>1
        <5>2. LastSealed = seals[k].end
          BY <1>11, <5>1, EndsGrow
        <5> QED
          BY <1>9, <1>11, <5>1, <5>2
      <4> QED
        BY <4>1
    <3>3. j = 1 => \A i \in Legacy : s.start <= log[i].at
      <4>1. j = 1 => s.start = log[a].at /\ \A i \in Legacy : a <= i
        BY <1>5, <1>9, <1>11, <1>12, <2>2
      <4> QED
        BY <1>10, <4>1
    <3>4. {i \in Legacy : InRange(i, j)}' = Unsealed
      <4>1. \A i : InRange(i, j)' <=>
                 /\ log[i].at <= s.end
                 /\ log[i].at > s.start \/ (m = 1 /\ log[i].at = s.start)
        BY <2>2, <3>1 DEF InRange
      <4>2. Unsealed \subseteq Legacy
        BY <1>8
      <4> QED
        BY <1>4, <1>13, <4>1, <4>2
    <3>5. s.count = Cardinality({i \in Legacy : InRange(i, j)}')
      BY <1>2, <3>4
    <3> QED
      BY <1>3, <1>4, <1>9, <3>1, <3>2, <3>3, <3>5
  <2> QED
    BY <1>3, <2>1, <2>2
<1>15. ASSUME NEW j \in 1 .. m, NEW k \in 1 .. m, j < k PROVE seals'[j].head < seals'[k].head
  <2>1. j \in 1 .. (m - 1)
    BY <1>3, <1>15
  <2>2. CASE k \in 1 .. (m - 1)
    BY <1>3, <1>15, <2>1, <2>2 DEF SealsTile
  <2>3. CASE k = m
    <3>1. PICK h \in Legacy : h = seals[j].head /\ seals[j].end = log[h].at
      BY <1>3, <2>1 DEF SealsTile
    <3>2. seals[j].end <= LastSealed
      BY <1>3, <2>1, UnsealedFacts
    <3>3. log[h].at < log[z].at
      BY <1>6, <1>7, <1>8, <3>1, <3>2
    <3>4. ~(z <= h)
      BY <1>7, <1>10, <3>3
    <3>5. h < z
      BY <1>7, <3>4
    <3> QED
      BY <1>3, <1>9, <2>1, <2>3, <3>1, <3>5
  <2> QED
    BY <1>3, <2>2, <2>3
<1> QED
  BY <1>3, <1>14, <1>15 DEF SealsTile

LEMMA SealSeal ==
  ASSUME Stored, SealInv, SealUnsealed, bound' = bound
  PROVE  SealInv'
<1>1. /\ Unsealed # {} /\ seals' = Append(seals, NewSeal)
      /\ log' = log /\ head' = head /\ writing' = writing
  BY SealType
<1>2. Legacy' = Legacy /\ (Sound("legacy")' <=> Sound("legacy"))
  BY <1>1, SameSound
<1>3. LegacyTimes'
  BY <1>1, <1>2 DEF SealInv, LegacyTimes
<1>4. InTime => InTime'
  BY <1>1, <1>2 DEF InTime
<1>5. InTime /\ SealsTile => SealsTile'
  BY <1>1, SealTiles
<1> QED
  BY <1>2, <1>3, <1>4, <1>5 DEF SealInv

\* Every step keeps the tiling.
LEMMA SealStep == Stored /\ ChainInv /\ ArchiveInv /\ SealInv /\ [Next]_vars => SealInv'
<1> SUFFICES ASSUME Stored, ChainInv, ArchiveInv, SealInv, [Next]_vars PROVE SealInv'
  OBVIOUS
<1>1. ASSUME log' = log, head' = head, writing' = writing, seals' = seals PROVE SealInv'
  <2>1. Legacy' = Legacy
    BY <1>1, SameSound
  <2>2. LegacyTimes'
    BY <1>1, <2>1 DEF SealInv, LegacyTimes
  <2> QED
    BY <1>1, <2>2, QuietSeal
<1>2. CASE UNCHANGED vars
  BY <1>1, <1>2 DEF vars, table
<1>3. CASE Next
  <2>0. bound' = bound
    BY <1>3 DEF Next
  <2>1. ASSUME NEW p \in Proc, NEW c \in Chain, NEW at \in 0 .. clock, NEW b \in BOOLEAN,
               Appends(p, c, at, b)
        PROVE  SealInv'
    BY <2>1, AppendSeal
  <2>2. ASSUME NEW p \in Proc, NEW t \in Tenant, NEW n \in Nat, Strays(p, t, n) PROVE SealInv'
    BY <2>2, StraySeal
  <2>3. CASE Reloads
    BY <2>3, ReloadSeal
  <2>4. ASSUME NEW p \in Proc, NEW d \in Chain, WriteBegin(p, d) PROVE SealInv'
    BY <2>4, BeginSeal
  <2>5. CASE SealUnsealed
    BY <2>0, <2>5, SealSeal
  <2>6. CASE Sweep
    BY <1>1, <2>0, <2>6, SweepType DEF Sweep
  <2> QED
    BY <1>3, <2>1, <2>2, <2>3, <2>4, <2>5, <2>6, StepKinds
<1> QED
  BY <1>2, <1>3

LEMMA SealInit == Init => SealInv
<1> SUFFICES ASSUME Init PROVE SealInv
  OBVIOUS
<1>1. log \in Seq(AuditRow) /\ Legacy = {} /\ DOMAIN seals = {}
  BY DEF Init, Legacy, RowsOf
<1>2. \A p \in Proc : writing[p].stage # "insert"
  BY DEF Init
<1>3. \A p \in Proc : ~head[p]["legacy"].behind
  <2>1. "legacy" \in Chain /\ "legacy" \notin Tenant
    BY AuditAssumption DEF Chain
  <2>2. PICK h : h = LatestHash("legacy")
    OBVIOUS
  <2>3. \A p \in Proc : head[p]["legacy"] = Loaded("legacy", h)
    BY <2>1, <2>2 DEF Init, Booted
  <2>4. h \in 0 .. Len(log) /\ Newest("legacy") = Genesis
    BY <1>1, <2>2, LatestFacts, NewestFacts DEF Legacy
  <2>5. Loaded("legacy", h).behind = (Newest("legacy") \notin live \cup {Genesis})
    BY <1>1, <2>4, LoadedFacts
  <2> QED
    BY <2>3, <2>4, <2>5
<1> QED
  BY <1>1, <1>2, <1>3 DEF SealInv, LegacyTimes, InTime, SealsTile

\* Tiles that follow one another cover every row once.
LEMMA TilesCover ==
  ASSUME Stored, InTime, SealsTile, seals # <<>>, NEW i \in Legacy, i <= Last(seals).head
  PROVE  Cardinality({j \in DOMAIN seals : InRange(i, j)}) = 1
<1>1. /\ DOMAIN seals = 1 .. Len(seals) /\ Len(seals) \in Nat
      /\ \A j \in DOMAIN seals : seals[j].end \in Nat /\ seals[j].start \in Nat
  BY RowFacts
<1>2. \A k \in Legacy : log[k].at \in Nat /\ k \in Nat
  BY RowFacts DEF Legacy, RowsOf
<1>3. PICK n \in DOMAIN seals : n = Len(seals)
  <2>1. seals \in Seq(SealRow)
    BY DEF Stored, Typed, SealsTyped
  <2>2. Len(seals) # 0
    BY <2>1, EmptySeq
  <2> QED
    BY <1>1, <2>2
<1>4. log[i].at <= seals[n].end
  <2>1. PICK h \in Legacy : h = seals[n].head /\ seals[n].end = log[h].at
    BY DEF SealsTile
  <2>2. i <= h
    BY <1>3, <2>1 DEF Last
  <2>3. i = h \/ i < h
    BY <1>2, <2>2
  <2> QED
    BY <1>2, <2>1, <2>3 DEF InTime
<1>5. PICK T : T = {j \in DOMAIN seals : log[i].at <= seals[j].end}
  OBVIOUS
<1>6. T \in SUBSET Nat /\ T # {}
  BY <1>1, <1>4, <1>5
<1>7. PICK j \in T : \A y \in T : j <= y
  BY <1>6, MinOfSome
<1>8. j \in DOMAIN seals /\ log[i].at <= seals[j].end
  BY <1>5, <1>7
<1>9. InRange(i, j)
  <2>1. CASE j = 1
    <3>1. seals[j].start <= log[i].at
      BY <1>8, <2>1 DEF SealsTile
    <3>2. log[i].at > seals[j].start \/ log[i].at = seals[j].start
      BY <1>1, <1>2, <1>8, <3>1
    <3> QED
      BY <1>8, <2>1, <3>2 DEF InRange
  <2>2. CASE j # 1
    <3>1. PICK k \in DOMAIN seals : k = j - 1
      BY <1>1, <1>8, <2>2
    <3>2. seals[j].start = seals[k].end
      BY <1>8, <3>1 DEF SealsTile
    <3>3. k \notin T
      BY <1>1, <1>7, <1>8, <3>1
    <3>4. ~(log[i].at <= seals[k].end)
      BY <1>5, <3>3
    <3>5. log[i].at > seals[j].start
      BY <1>1, <1>2, <3>2, <3>4
    <3> QED
      BY <1>8, <3>5 DEF InRange
  <2> QED
    BY <2>1, <2>2
<1>10. ASSUME NEW k \in DOMAIN seals, InRange(i, k) PROVE k = j
  <2>1. j <= k
    BY <1>5, <1>7, <1>10 DEF InRange
  <2>2. ASSUME j < k PROVE FALSE
    <3>1. PICK y \in DOMAIN seals : y = k - 1 /\ j <= y
      BY <1>1, <1>8, <2>2
    <3>2. seals[k].start = seals[y].end
      BY <3>1 DEF SealsTile
    <3>3. seals[j].end <= seals[y].end
      BY <1>8, <3>1, EndsGrow
    <3>4. k # 1
      BY <1>1, <1>8, <2>2
    <3>5. log[i].at > seals[k].start
      BY <1>10, <3>4 DEF InRange
    <3> QED
      BY <1>1, <1>2, <1>8, <3>1, <3>2, <3>3, <3>5
  <2> QED
    BY <1>1, <1>8, <2>1, <2>2
<1>11. {k \in DOMAIN seals : InRange(i, k)} = {j}
  BY <1>8, <1>9, <1>10
<1> QED
  BY <1>11, FS_Singleton

\* The seals tile the legacy chain as long as it is sound.
THEOREM SealsTileTheChain == Spec => []SealsCover
<1>1. Init => Stored /\ ChainInv /\ ArchiveInv /\ SealInv
  BY StoredInit, ChainInit, ArchiveInit, SealInit
<1>2. Stored /\ ChainInv /\ ArchiveInv /\ SealInv /\ [Next]_vars =>
        (Stored /\ ChainInv /\ ArchiveInv /\ SealInv)'
  BY StoredStep, ChainStep, ArchiveStep, SealStep
<1>3. Stored /\ SealInv => SealsCover
  <2> SUFFICES ASSUME Stored, SealInv, Sound("legacy"), seals # <<>>
               PROVE  /\ \A i \in Legacy : i <= Last(seals).head =>
                           Cardinality({j \in DOMAIN seals : InRange(i, j)}) = 1
                      /\ \A j \in DOMAIN seals :
                           seals[j].count = Cardinality({i \in Legacy : InRange(i, j)})
    BY DEF SealsCover, Legacy
  <2>1. InTime /\ SealsTile
    BY DEF SealInv
  <2>2. \A j \in DOMAIN seals : seals[j].count = Cardinality({i \in Legacy : InRange(i, j)})
    BY <2>1 DEF SealsTile
  <2> QED
    BY <2>1, <2>2, TilesCover
<1> QED
  BY <1>1, <1>2, <1>3, PTL DEF Spec

-----------------------------------------------------------------------------
(* The numbers of the rows *)

\* The rows of one writer that come after a head was read were linked with that
\* head: with the head it keeps now, and with the one a later row of it was.
SinceKept ==
  \A c \in Chain : \A i, k \in RowsOf(c) :
    k < i /\ log[k].by = log[i].by /\ k > log[i].since => log[k].since = log[i].since
HeadSince ==
  \A p \in Proc, c \in Chain : Ready(p, c) =>
    \A k \in RowsOf(c) : log[k].by = p /\ k > head[p][c].since => log[k].since = head[p][c].since

\* The number an INSERT has read is above those in the table, but for the rows
\* that others have added since the process read its head.
DrawnAbove ==
  \A p \in Proc, t \in Tenant : drawn[p][t] # 0 =>
    \A k \in RowsOf(t) \cap live :
      log[k].seq < drawn[p][t] \/ (k > head[p][t].since /\ log[k].by # p)

\* And so is the number of a row, among the rows that were in the table with it.
SeqOrCrossed ==
  \A c \in Chain : \A i, k \in RowsOf(c) :
    k < i /\ (k \in live \/ PartOf(k) = PartOf(i)) =>
      log[k].seq < log[i].seq \/ (k > log[i].since /\ log[k].by # log[i].by)

NumberInv == SinceKept /\ HeadSince /\ DrawnAbove /\ SeqOrCrossed

\* A row arrives whose head and number keep to that.
LEMMA ArriveNumbers ==
  ASSUME Stored, ArchiveInv, WritersKnown, NumberInv, NEW r, Arrives(r), NEW n, n = Len(log) + 1,
         r.by \in Proc \cup {n},
         \A k \in RowsOf(r.chain) :
           log[k].by = r.by /\ k > r.since => log[k].since = r.since,
         \A k \in RowsOf(r.chain) \cap live :
           log[k].seq < r.seq \/ (k > r.since /\ log[k].by # r.by),
         \A q \in Proc, d \in Chain : Ready(q, d)' => Ready(q, d) /\ head'[q][d].since = head[q][d].since,
         \A q \in Proc, d \in Chain : r.by = q /\ r.chain = d => r.since = head[q][d].since,
         \A q \in Proc, t \in Tenant :
           drawn'[q][t] = 0 \/ (/\ drawn'[q][t] = drawn[q][t] /\ ~(r.by = q /\ r.chain = t)
                                /\ head'[q][t].since = head[q][t].since)
  PROVE  NumberInv'
<1>1. /\ log \in Seq(AuditRow) /\ n \in Nat /\ n - 1 = Len(log) /\ DOMAIN log = 1 .. (n - 1)
      /\ \A i \in 1 .. (n - 1) : log'[i] = log[i]
      /\ log'[n] = r
  <2>1. log \in Seq(AuditRow) /\ Grows(r)
    BY DEF Stored, Typed, TableTyped, Arrives
  <2> QED
    BY <2>1, GrowFacts
<1>2. Grows(r) /\ live' = live \cup {n} /\ r.month = month
  BY DEF Arrives
<1>3. \A c : /\ RowsOf(c)' = IF r.chain = c THEN RowsOf(c) \cup {n} ELSE RowsOf(c)
             /\ RowsOf(c) \subseteq 1 .. (n - 1)
             /\ \A k \in RowsOf(c) : log'[k] = log[k]
  <2>1. \A c : RowsOf(c)' = IF r.chain = c THEN RowsOf(c) \cup {n} ELSE RowsOf(c)
    BY <1>2, Grown
  <2>2. \A c : RowsOf(c) \subseteq 1 .. (n - 1)
    BY <1>1 DEF RowsOf
  <2> QED
    BY <1>1, <2>1, <2>2
<1>4. \A q \in Proc, d \in Chain : head[q][d].since \in 0 .. (n - 1)
  BY <1>1, HeadFacts
<1>5. SinceKept'
  <2>1. ASSUME NEW c \in Chain, NEW i \in RowsOf(c)', NEW k \in RowsOf(c)',
               k < i, log'[k].by = log'[i].by, k > log'[i].since
        PROVE  log'[k].since = log'[i].since
    <3>1. k \in RowsOf(c) /\ log'[k] = log[k]
      BY <1>1, <1>3, <2>1
    <3>2. CASE i \in RowsOf(c)
      BY <1>3, <2>1, <3>1, <3>2 DEF NumberInv, SinceKept
    <3>3. CASE i = n /\ r.chain = c
      BY <1>1, <2>1, <3>1, <3>3
    <3> QED
      BY <1>3, <3>2, <3>3
  <2> QED
    BY <2>1 DEF SinceKept, Chain
<1>6. HeadSince'
  <2>1. ASSUME NEW q \in Proc, NEW c \in Chain, Ready(q, c)', NEW k \in RowsOf(c)',
               log'[k].by = q, k > head'[q][c].since
        PROVE  log'[k].since = head'[q][c].since
    <3>1. Ready(q, c) /\ head'[q][c].since = head[q][c].since
      BY <2>1
    <3>2. CASE k \in RowsOf(c)
      BY <1>3, <2>1, <3>1, <3>2 DEF NumberInv, HeadSince
    <3>3. CASE k = n /\ r.chain = c
      BY <1>1, <2>1, <3>1, <3>3
    <3> QED
      BY <1>3, <3>2, <3>3
  <2> QED
    BY <2>1 DEF HeadSince, Ready, Chain
<1>7. DrawnAbove'
  <2>1. ASSUME NEW q \in Proc, NEW t \in Tenant, drawn'[q][t] # 0, NEW k \in RowsOf(t)', k \in live'
        PROVE  log'[k].seq < drawn'[q][t] \/ (k > head'[q][t].since /\ log'[k].by # q)
    <3>1. /\ drawn'[q][t] = drawn[q][t] /\ ~(r.by = q /\ r.chain = t)
          /\ head'[q][t].since = head[q][t].since
      BY <2>1
    <3>2. CASE k \in RowsOf(t)
      <4>1. k \in RowsOf(t) \cap live /\ log'[k] = log[k]
        BY <1>1, <1>2, <1>3, <2>1, <3>2
      <4> QED
        BY <2>1, <3>1, <4>1 DEF NumberInv, DrawnAbove
    <3>3. CASE k = n /\ r.chain = t
      <4>1. head[q][t].since \in 0 .. (n - 1)
        BY <1>4 DEF Chain
      <4> QED
        BY <1>1, <3>1, <3>3, <4>1
    <3> QED
      BY <1>3, <3>2, <3>3
  <2> QED
    BY <2>1 DEF DrawnAbove
<1>8. SeqOrCrossed'
  <2>1. ASSUME NEW c \in Chain, NEW i \in RowsOf(c)', NEW k \in RowsOf(c)', k < i,
               k \in live' \/ PartOf(k)' = PartOf(i)'
        PROVE  log'[k].seq < log'[i].seq \/ (k > log'[i].since /\ log'[k].by # log'[i].by)
    <3>1. k \in RowsOf(c) /\ k \in 1 .. (n - 1) /\ log'[k] = log[k]
      BY <1>1, <1>3, <2>1
    <3>2. k \in live' => k \in live
      BY <1>1, <1>2, <3>1
    <3>3. CASE i \in RowsOf(c)
      <4>1. log'[i] = log[i]
        BY <1>3, <3>3
      <4>2. PartOf(k)' = PartOf(i)' => PartOf(k) = PartOf(i)
        BY <3>1, <4>1 DEF PartOf
      <4> QED
        BY <2>1, <3>1, <3>2, <3>3, <4>1, <4>2 DEF NumberInv, SeqOrCrossed
    <3>4. CASE i = n /\ r.chain = c
      <4>1. k \in live
        <5>1. ASSUME PartOf(k)' = PartOf(i)' PROVE log[k].month = month
          BY <1>1, <1>2, <3>1, <3>4, <5>1 DEF PartOf
        <5>2. month \in Nat
          BY DEF Stored, Typed, ArchiveTyped, Instance
        <5>3. k \notin live => log[k].month < month
          BY <1>1, <3>1 DEF ArchiveInv, DroppedArchived
        <5> QED
          BY <2>1, <3>2, <5>1, <5>2, <5>3
      <4> QED
        BY <1>1, <3>1, <3>4, <4>1
    <3> QED
      BY <1>3, <3>3, <3>4
  <2> QED
    BY <2>1 DEF SeqOrCrossed, Chain
<1> QED
  BY <1>5, <1>6, <1>7, <1>8 DEF NumberInv

\* A process appends with the number its INSERT has read.
LEMMA AppendNumbers ==
  ASSUME Stored, ChainInv, ArchiveInv, NumberInv, NEW p \in Proc, NEW c \in Chain,
         NEW at \in 0 .. clock, NEW b \in BOOLEAN, Appends(p, c, at, b)
  PROVE  NumberInv'
<1>1. PICK n : n = Len(log) + 1
  OBVIOUS
<1>2. PICK r : r = NewRow(p, c, head[p][c].hash, at, b)
  OBVIOUS
<1>3. /\ r.chain = c /\ r.by = p /\ r.since = head[p][c].since /\ r.month = month
      /\ r.seq = (IF c \in Tenant THEN drawn[p][c] ELSE n)
      /\ r.stray = (c # "legacy" /\ <<KindOf(c), month>> \notin parts)
  <2>1. PICK h : h = head[p][c].hash
    OBVIOUS
  <2>2. r = NewRow(p, c, h, at, b)
    BY <1>2, <2>1
  <2>3. r.chain = c /\ r.by = p /\ r.since = head[p][c].since /\ r.month = month
    BY <2>2, NewRowFields
  <2>4. r.seq = IF c \in Tenant THEN drawn[p][c] ELSE n
    BY <1>1, <2>2, NewRowFields
  <2>5. r.stray = (c # "legacy" /\ <<KindOf(c), month>> \notin parts)
    BY <2>2, NewRowFields
  <2> QED
    BY <2>3, <2>4, <2>5
<1>4. Arrives(r)
  <2>1. Grows(r) /\ live' = live \cup {Len(log) + 1} /\ Aside
    BY <1>2 DEF Appends
  <2> QED
    BY <1>1, <1>3, <2>1 DEF Arrives
<1>5. /\ \A q \in Proc, d \in Chain : head'[q][d].st = head[q][d].st
      /\ \A q \in Proc, d \in Chain : head'[q][d].since = head[q][d].since
  <2>1. /\ \A q \in Proc, d \in Chain : ~b \/ q # p \/ d # c => head'[q][d] = head[q][d]
        /\ \A q \in Proc, d \in Chain : head'[q][d].st = head[q][d].st
        /\ b => head'[p][c].hash = n /\ head'[p][c].since = head[p][c].since
    BY <1>1, AppendHeads
  <2> QED
    BY <2>1
<1>6. Ready(p, c) /\ (c \in Tenant => drawn[p][c] # 0)
  BY DEF Appends, ChainInv, AlwaysReady, DrawnReady
<1>7. ASSUME NEW k \in RowsOf(c), log[k].by = p, k > head[p][c].since
      PROVE  log[k].since = head[p][c].since
  BY <1>6, <1>7 DEF NumberInv, HeadSince
<1>8. ASSUME NEW k \in RowsOf(c) \cap live
      PROVE  log[k].seq < r.seq \/ (k > head[p][c].since /\ log[k].by # p)
  <2>1. CASE c \in Tenant
    BY <1>3, <1>6, <2>1 DEF NumberInv, DrawnAbove
  <2>2. CASE c \notin Tenant
    <3>1. log[k].seq \in 1 .. k /\ k \in 1 .. Len(log) /\ Len(log) \in Nat
      BY RowFacts DEF Stored, Typed, TableTyped, RowsOf
    <3> QED
      BY <1>1, <1>3, <2>2, <3>1
  <2> QED
    BY <2>1, <2>2
<1>9. \A q \in Proc, d \in Chain : Ready(q, d)' => Ready(q, d) /\ head'[q][d].since = head[q][d].since
  BY <1>5 DEF Ready
<1>10. ASSUME NEW q \in Proc, NEW t \in Tenant
       PROVE  drawn'[q][t] = 0 \/ (/\ drawn'[q][t] = drawn[q][t] /\ ~(r.by = q /\ r.chain = t)
                                   /\ head'[q][t].since = head[q][t].since)
  <2>1. drawn'[q][t] = IF q = p /\ t = c THEN 0 ELSE drawn[q][t]
    BY DEF Appends
  <2>2. head'[q][t].since = head[q][t].since
    BY <1>5 DEF Chain
  <2> QED
    BY <1>3, <2>1, <2>2
<1>11. WritersKnown
  BY DEF ChainInv
<1> QED
  BY <1>1, <1>3, <1>4, <1>7, <1>8, <1>9, <1>10, <1>11, ArriveNumbers

\* So does a goroutine with a dropped object: it is a writer of its own.
LEMMA StrayNumbers ==
  ASSUME Stored, ChainInv, ArchiveInv, NumberInv, NEW p \in Proc, NEW t \in Tenant, NEW m \in Nat,
         Strays(p, t, m)
  PROVE  NumberInv'
<1>1. PICK n : n = Len(log) + 1
  OBVIOUS
<1>2. PICK r : r = OrphanRow(p, t, m)
  OBVIOUS
<1>3. /\ r.chain = t /\ r.by = n /\ r.since = 0 /\ r.month = month
      /\ r.stray = (<<KindOf(t), month>> \notin parts)
  <2>1. /\ OrphanRow(p, t, m).chain = t /\ OrphanRow(p, t, m).by = Len(log) + 1
        /\ OrphanRow(p, t, m).since = 0 /\ OrphanRow(p, t, m).month = month
        /\ OrphanRow(p, t, m).stray = (<<KindOf(t), month>> \notin parts)
    BY OrphanFacts
  <2> QED
    BY <1>1, <1>2, <2>1
<1>4. Arrives(r)
  <2>1. Grows(r) /\ live' = live \cup {Len(log) + 1} /\ Aside
    BY <1>2 DEF Strays
  <2>2. t # "legacy"
    BY AuditAssumption
  <2> QED
    BY <1>3, <2>1, <2>2 DEF Arrives
<1>5. \A k \in RowsOf(t) : k \in 1 .. (n - 1) /\ log[k].by # n
  <2>1. n \in Nat /\ n - 1 = Len(log) /\ DOMAIN log = 1 .. (n - 1)
    BY <1>1, RowFacts
  <2>2. n \notin Proc
    BY <2>1, AuditAssumption
  <2>3. \A k \in DOMAIN log : log[k].by \in Proc \cup {k} /\ k # n
    BY <2>1 DEF ChainInv, WritersKnown
  <2> QED
    BY <2>1, <2>2, <2>3 DEF RowsOf
<1>6. \A k \in RowsOf(t) : k > r.since /\ log[k].by # r.by
  BY <1>3, <1>5
<1>7. \A q \in Proc : q # n
  BY <1>1, RowFacts, AuditAssumption
<1>8. WritersKnown /\ UNCHANGED <<head, drawn>>
  BY DEF ChainInv, Strays
<1>9. \A q \in Proc, d \in Chain : Ready(q, d)' => Ready(q, d) /\ head'[q][d].since = head[q][d].since
  BY <1>8 DEF Ready
<1> QED
  BY <1>1, <1>3, <1>4, <1>6, <1>7, <1>8, <1>9, ArriveNumbers

\* Heads that are read again, numbers that are read, rows that are dropped.
LEMMA KeepNumbers ==
  ASSUME Stored, ChainInv, NumberInv, log' = log, live' \subseteq live,
         \A q \in Proc, c \in Chain :
           \/ head'[q][c] = head[q][c]
           \/ \E h : Found(c, h) /\ head'[q][c] = Loaded(c, h)
           \/ c \in Tenant /\ head'[q][c].st # "ready",
         \A q \in Proc, t \in Tenant :
           \/ drawn'[q][t] = 0
           \/ /\ head'[q][t] = head[q][t]
              /\ drawn'[q][t] = drawn[q][t] \/ (Ready(q, t) /\ drawn'[q][t] = NextTenantSeq(t))
           \/ ~Ready(q, t) /\ drawn'[q][t] = drawn[q][t]
  PROVE  NumberInv'
<1>0. log \in Seq(AuditRow)
  BY DEF Stored, Typed, TableTyped
<1>1. \A c : RowsOf(c)' = RowsOf(c) /\ RowsOf(c) \subseteq 1 .. Len(log)
  BY DEF RowsOf
<1>2. SinceKept'
  BY <1>1 DEF NumberInv, SinceKept, Chain
<1>3. \A i : PartOf(i)' = PartOf(i)
  BY DEF PartOf
<1>4. SeqOrCrossed'
  BY <1>1, <1>3 DEF NumberInv, SeqOrCrossed, Chain
<1>5. HeadSince'
  <2>1. ASSUME NEW q \in Proc, NEW c \in Chain, Ready(q, c)', NEW k \in RowsOf(c),
               log[k].by = q, k > head'[q][c].since
        PROVE  log[k].since = head'[q][c].since
    <3>1. CASE head'[q][c] = head[q][c]
      BY <2>1, <3>1 DEF NumberInv, HeadSince, Ready
    <3>2. ASSUME NEW h, Found(c, h), head'[q][c] = Loaded(c, h) PROVE FALSE
      <4>1. h \in 0 .. Len(log)
        BY <1>0, <3>2, FoundFacts
      <4>2. Loaded(c, h).since = Len(log)
        BY <1>0, <4>1, LoadedFacts
      <4>3. k \in 1 .. Len(log) /\ Len(log) \in Nat
        BY <1>0, <1>1
      <4> QED
        BY <2>1, <3>2, <4>2, <4>3
    <3> QED
      BY <2>1, <3>1, <3>2 DEF Ready
  <2> QED
    BY <1>1, <2>1 DEF HeadSince, Ready, Chain
<1>6. DrawnAbove'
  <2>1. ASSUME NEW q \in Proc, NEW t \in Tenant, drawn'[q][t] # 0, NEW k \in RowsOf(t), k \in live
        PROVE  log[k].seq < drawn'[q][t] \/ (k > head'[q][t].since /\ log[k].by # q)
    <3>1. CASE head'[q][t] = head[q][t] /\ drawn'[q][t] = drawn[q][t]
      BY <2>1, <3>1 DEF NumberInv, DrawnAbove
    <3>2. CASE drawn'[q][t] = NextTenantSeq(t)
      BY <2>1, <3>2, SeqFacts
    <3>3. ~(~Ready(q, t) /\ drawn'[q][t] = drawn[q][t])
      BY <2>1 DEF ChainInv, DrawnReady
    <3> QED
      BY <2>1, <3>1, <3>2, <3>3
  <2> QED
    BY <1>1, <2>1 DEF DrawnAbove
<1> QED
  BY <1>2, <1>4, <1>5, <1>6 DEF NumberInv

\* Every step keeps the numbers.
LEMMA NumberStep == Stored /\ ChainInv /\ ArchiveInv /\ NumberInv /\ [Next]_vars => NumberInv'
<1> SUFFICES ASSUME Stored, ChainInv, ArchiveInv, NumberInv, [Next]_vars PROVE NumberInv'
  OBVIOUS
<1>1. ASSUME log' = log, live' \subseteq live, head' = head, drawn' = drawn PROVE NumberInv'
  BY <1>1, KeepNumbers
<1>2. CASE UNCHANGED vars
  BY <1>1, <1>2 DEF vars, table, lazy
<1>3. CASE Next
  <2>1. ASSUME NEW p \in Proc, NEW c \in Chain, NEW at \in 0 .. clock, NEW b \in BOOLEAN,
               Appends(p, c, at, b)
        PROVE  NumberInv'
    BY <2>1, AppendNumbers
  <2>2. ASSUME NEW p \in Proc, NEW t \in Tenant, NEW n \in Nat, Strays(p, t, n) PROVE NumberInv'
    BY <2>2, StrayNumbers
  <2>3. CASE Reloads
    <3>1. /\ log' = log /\ live' = live
          /\ \A q \in Proc, c \in Chain :
               \/ head'[q][c] = head[q][c]
               \/ \E h : Found(c, h) /\ head'[q][c] = Loaded(c, h)
               \/ c \in Tenant /\ head'[q][c].st # "ready"
          /\ \A q \in Proc, t \in Tenant :
               \/ drawn'[q][t] = 0
               \/ /\ head'[q][t] = head[q][t]
                  /\ drawn'[q][t] = drawn[q][t] \/ (Ready(q, t) /\ drawn'[q][t] = NextTenantSeq(t))
               \/ ~Ready(q, t) /\ drawn'[q][t] = drawn[q][t]
      BY <2>3 DEF Reloads
    <3> QED
      BY <3>1, KeepNumbers
  <2>4. ASSUME NEW p \in Proc, NEW d \in Chain, WriteBegin(p, d) PROVE NumberInv'
    BY <1>1, <2>4 DEF WriteBegin, table, lazy
  <2>5. CASE SealUnsealed
    BY <1>1, <2>5 DEF SealUnsealed, table, lazy
  <2>6. CASE Sweep
    <3>1. bound' = bound
      BY <1>3 DEF Next
    <3> QED
      BY <1>1, <2>6, <3>1, SweepType DEF Sweep
  <2> QED
    BY <1>3, <2>1, <2>2, <2>3, <2>4, <2>5, <2>6, StepKinds
<1> QED
  BY <1>2, <1>3

LEMMA NumberInit == Init => NumberInv
<1> SUFFICES ASSUME Init PROVE NumberInv
  OBVIOUS
<1>1. \A c : RowsOf(c) = {}
  BY DEF Init, RowsOf
<1> QED
  BY <1>1 DEF NumberInv, SinceKept, HeadSince, DrawnAbove, SeqOrCrossed

\* Among the rows of a chain that are in a table or in an archive together, seq and
\* tenant_seq follow the insertions when one writer made them, and on a sound chain
\* always: a number is given again only after the rows that had it were dropped, and
\* then in a later month.  INSERTs of two writers that overlap may take equal
\* numbers, or land in the other order.
SeqFollows ==
  \A c \in Chain : \A i, k \in RowsOf(c) :
    /\ k < i
    /\ k \in live \/ PartOf(k) = PartOf(i)
    /\ log[k].by = log[i].by \/ Sound(c)
    => log[k].seq < log[i].seq

\* On a sound chain no row lands between two rows of another writer that are linked
\* with the same head.
LEMMA SoundNumbers ==
  ASSUME Stored, NumberInv, NEW c \in Chain, Sound(c), NEW i \in RowsOf(c), NEW k \in RowsOf(c),
         k < i, k > log[i].since
  PROVE  log[k].by = log[i].by
<1> SUFFICES ASSUME log[k].by # log[i].by PROVE FALSE
  OBVIOUS
<1>1. /\ log \in Seq(AuditRow) /\ RowsOf(c) \subseteq 1 .. Len(log) /\ Len(log) \in Nat
  BY NewestFacts DEF Stored, Typed, TableTyped
<1>2. PICK T : T = {j \in RowsOf(c) : k < j /\ log[j].by = log[i].by}
  OBVIOUS
<1>3. T \in SUBSET Nat /\ i \in T
  BY <1>1, <1>2
<1>4. PICK j \in T : \A y \in T : j <= y
  BY <1>3, MinOfSome
<1>5. j \in RowsOf(c) /\ k < j /\ log[j].by = log[i].by /\ j <= i /\ j \in Nat
  BY <1>2, <1>3, <1>4
<1>6. PICK q : q = Predecessor(c, j)
  OBVIOUS
<1>7. q \in RowsOf(c) \cup {0} /\ q \in 0 .. (j - 1) /\ k <= q
  <2>1. j \in 1 .. (Len(log) + 1)
    BY <1>1, <1>5
  <2> QED
    BY <1>1, <1>5, <1>6, <2>1, PredecessorFacts DEF Genesis
<1>8. q \in RowsOf(c) /\ q < j /\ k \in Nat /\ q \in Nat /\ (q = k \/ k < q)
  BY <1>1, <1>5, <1>7
<1>9. log[q].by # log[j].by
  <2>1. q # k => q \notin T
    BY <1>4, <1>5, <1>8
  <2> QED
    BY <1>2, <1>5, <1>8, <2>1
<1>10. log[i].since \in Nat /\ log[j].since \in Nat /\ i \in Nat
  BY <1>1, <1>5, RowFacts DEF RowsOf
<1>11. log[j].since = log[i].since
  <2>1. j = i \/ j < i
    BY <1>5, <1>10
  <2>2. j > log[i].since
    BY <1>5, <1>8, <1>10
  <2> QED
    BY <1>5, <2>1, <2>2 DEF NumberInv, SinceKept
<1>12. q > log[j].since
  BY <1>8, <1>10, <1>11
<1>13. Overtaken(c, j)
  BY <1>6, <1>9, <1>12 DEF Overtaken
<1> QED
  BY <1>5, <1>13 DEF Sound

LEMMA NumbersFollow ==
  ASSUME Stored, NumberInv
  PROVE  SeqFollows
<1>1. ASSUME NEW c \in Chain, NEW i \in RowsOf(c), NEW k \in RowsOf(c), k < i,
             k \in live \/ PartOf(k) = PartOf(i), log[k].by = log[i].by \/ Sound(c)
      PROVE  log[k].seq < log[i].seq
  <2>1. log[k].seq < log[i].seq \/ (k > log[i].since /\ log[k].by # log[i].by)
    BY <1>1 DEF NumberInv, SeqOrCrossed
  <2> QED
    BY <1>1, <2>1, SoundNumbers
<1> QED
  BY <1>1 DEF SeqFollows

\* The verifiers' ORDER BY seq (tenant_seq) reads a sound chain in insertion order,
\* and the rows of one writer in any.
THEOREM NumbersFollowInsertions == Spec => []SeqFollows
<1>1. Init => Stored /\ ChainInv /\ ArchiveInv /\ NumberInv
  BY StoredInit, ChainInit, ArchiveInit, NumberInit
<1>2. Stored /\ ChainInv /\ ArchiveInv /\ NumberInv /\ [Next]_vars
        => (Stored /\ ChainInv /\ ArchiveInv /\ NumberInv)'
  BY StoredStep, ChainStep, ArchiveStep, NumberStep
<1>3. Stored /\ NumberInv => SeqFollows
  BY NumbersFollow
<1> QED
  BY <1>1, <1>2, <1>3, PTL DEF Spec

-----------------------------------------------------------------------------
(* Verifiers *)

\* Rows of a chain whose numbers follow the insertions.
Ordered(S) ==
  \A i, k \in S : k < i /\ ChainId(log[k].chain) = ChainId(log[i].chain) => log[k].seq < log[i].seq

\* The order of the verifiers' queries is total, and of such rows it is the order in
\* which they were inserted.
LEMMA OrderFacts ==
  ASSUME Stored, NEW S \in SUBSET DOMAIN log, Ordered(S)
  PROVE  /\ \A i \in S : ChainId(log[i].chain) \in Nat /\ i \in Nat
         /\ \A i, k \in S : RowOrder(i, k) <=>
              \/ ChainId(log[i].chain) < ChainId(log[k].chain)
              \/ ChainId(log[i].chain) = ChainId(log[k].chain) /\ i < k
         /\ \A i, k \in S : i = k \/ RowOrder(i, k) \/ RowOrder(k, i)
         /\ \A i, k \in S : log[i].chain = log[k].chain => (RowOrder(i, k) <=> i < k)
<1>1. \A c \in Chain : ChainId(c) \in Nat
  BY AuditAssumption DEF ChainId
<1>2. \A i \in S : ChainId(log[i].chain) \in Nat /\ i \in Nat /\ log[i].seq \in Nat
  BY <1>1, RowFacts
<1>3. ASSUME NEW i \in S, NEW k \in S
      PROVE  RowOrder(i, k) <=> \/ ChainId(log[i].chain) < ChainId(log[k].chain)
                                \/ ChainId(log[i].chain) = ChainId(log[k].chain) /\ i < k
  <2>1. PICK a, b \in Nat : a = ChainId(log[i].chain) /\ b = ChainId(log[k].chain)
    BY <1>2
  <2>2. PICK x, y \in Nat : x = log[i].seq /\ y = log[k].seq
    BY <1>2
  <2>3. RowOrder(i, k) <=> a < b \/ (a = b /\ (x < y \/ (x = y /\ i < k)))
    BY <2>1, <2>2 DEF RowOrder
  <2>4. /\ a = b /\ i < k => x < y
        /\ a = b /\ k < i => y < x
    BY <2>1, <2>2 DEF Ordered
  <2>5. i \in Nat /\ k \in Nat /\ (i = k => x = y)
    BY <1>2, <2>2
  <2>6. RowOrder(i, k) <=> a < b \/ (a = b /\ i < k)
    BY <2>3, <2>4, <2>5
  <2> QED
    BY <2>1, <2>6
<1>4. \A i, k \in S : i = k \/ RowOrder(i, k) \/ RowOrder(k, i)
  BY <1>2, <1>3
<1>5. \A i, k \in S : log[i].chain = log[k].chain => (RowOrder(i, k) <=> i < k)
  BY <1>2, <1>3
<1> QED
  BY <1>2, <1>3, <1>4, <1>5

\* Some rows have a first one in that order.
LEMMA FirstRow ==
  ASSUME Stored, NEW S \in SUBSET DOMAIN log, Ordered(S), S # {}
  PROVE  \E i \in S : Before(S, i) = {}
<1>1. \A i \in S : ChainId(log[i].chain) \in Nat /\ i \in Nat
  BY OrderFacts
<1>2. PICK T : T = {ChainId(log[i].chain) : i \in S}
  OBVIOUS
<1>3. T \in SUBSET Nat /\ T # {}
  BY <1>1, <1>2
<1>4. PICK a \in T : \A y \in T : a <= y
  BY <1>3, MinOfSome
<1>5. PICK U : U = {i \in S : ChainId(log[i].chain) = a}
  OBVIOUS
<1>6. U \in SUBSET Nat /\ U # {}
  BY <1>1, <1>2, <1>4, <1>5
<1>7. PICK i \in U : \A y \in U : i <= y
  BY <1>6, MinOfSome
<1>8. ASSUME NEW k \in S PROVE ~RowOrder(k, i)
  <2>1. PICK b \in T : b = ChainId(log[k].chain)
    BY <1>2
  <2>2. a <= b /\ a \in Nat /\ b \in Nat /\ ChainId(log[i].chain) = a /\ i \in S
    BY <1>3, <1>4, <1>5, <1>7, <2>1
  <2>3. b = a => i <= k
    BY <1>5, <1>7, <2>1
  <2>4. RowOrder(k, i) <=> b < a \/ (b = a /\ k < i)
    BY <2>1, <2>2, OrderFacts
  <2>5. k \in Nat /\ i \in Nat
    BY <1>1, <1>6, <1>7
  <2> QED
    BY <2>2, <2>3, <2>4, <2>5
<1>9. i \in S /\ Before(S, i) = {}
  BY <1>5, <1>7, <1>8 DEF Before
<1> QED
  BY <1>9

\* A row that is not the first one has one before it.
LEMMA PreviousFacts ==
  ASSUME Stored, NEW S \in SUBSET DOMAIN log, Ordered(S), NEW i \in S, Before(S, i) # {}
  PROVE  /\ Previous(S, i) \in Before(S, i)
         /\ \A j \in Before(S, i) : j = Previous(S, i) \/ RowOrder(j, Previous(S, i))
<1>0. Before(S, i) \subseteq S /\ \A k \in Before(S, i) : RowOrder(k, i)
  BY DEF Before
<1>1. /\ \A k \in S : ChainId(log[k].chain) \in Nat /\ k \in 0 .. Len(log)
      /\ Len(log) \in Nat
  BY OrderFacts, RowFacts
<1>2. PICK c \in Nat : c = ChainId(log[i].chain)
  BY <1>1
<1>3. \A k \in Before(S, i) : ChainId(log[k].chain) \in 0 .. c
  <2>1. ASSUME NEW k \in Before(S, i) PROVE ChainId(log[k].chain) \in 0 .. c
    <3>1. PICK a \in Nat : a = ChainId(log[k].chain)
      BY <1>0, <1>1
    <3>2. a < c \/ a = c
      BY <1>0, <1>2, <3>1, OrderFacts
    <3> QED
      BY <3>1, <3>2
  <2> QED
    BY <2>1
<1>4. PICK T : T = {ChainId(log[k].chain) : k \in Before(S, i)}
  OBVIOUS
<1>5. T \in SUBSET (0 .. c) /\ T # {}
  BY <1>3, <1>4
<1>6. PICK a \in T : \A y \in T : y <= a
  BY <1>5, MaxOfSome
<1>7. PICK U : U = {k \in Before(S, i) : ChainId(log[k].chain) = a}
  OBVIOUS
<1>8. U \in SUBSET (0 .. Len(log)) /\ U # {}
  BY <1>0, <1>1, <1>4, <1>6, <1>7
<1>9. PICK k \in U : \A y \in U : y <= k
  BY <1>1, <1>8, MaxOfSome
<1>10. ASSUME NEW j \in Before(S, i) PROVE j = k \/ RowOrder(j, k)
  <2>1. PICK b \in T : b = ChainId(log[j].chain)
    BY <1>4
  <2>2. b <= a /\ a \in Nat /\ b \in Nat /\ ChainId(log[k].chain) = a /\ j \in S /\ k \in S
    BY <1>0, <1>5, <1>6, <1>7, <1>9, <2>1
  <2>3. b = a => j <= k
    BY <1>7, <1>9, <2>1
  <2>4. RowOrder(j, k) <=> b < a \/ (b = a /\ j < k)
    BY <2>1, <2>2, OrderFacts
  <2>5. j \in Nat /\ k \in Nat
    BY <1>1, <2>2
  <2> QED
    BY <2>2, <2>3, <2>4, <2>5
<1>11. k \in Before(S, i)
  BY <1>7, <1>9
<1> QED
  BY <1>10, <1>11 DEF Previous

\* Among rows of one chain the one before is the newest that is older.
LEMMA OneChain ==
  ASSUME Stored, NEW c, NEW S \in SUBSET RowsOf(c), Ordered(S), NEW i \in S
  PROVE  /\ Before(S, i) = {k \in S : k < i}
         /\ \A k \in S : k < i /\ (\A j \in S : j < i => j <= k) => Previous(S, i) = k
<1>1. S \in SUBSET DOMAIN log /\ \A k \in S : log[k].chain = c
  BY DEF RowsOf
<1>2. Before(S, i) = {k \in S : k < i}
  BY <1>1, OrderFacts DEF Before
<1>3. ASSUME NEW k \in S, k < i, \A j \in S : j < i => j <= k PROVE Previous(S, i) = k
  <2>1. PICK q : q = Previous(S, i)
    OBVIOUS
  <2>2. q \in S /\ q < i /\ (k = q \/ RowOrder(k, q))
    BY <1>1, <1>2, <1>3, <2>1, PreviousFacts
  <2>3. q <= k /\ (k = q \/ k < q)
    BY <1>1, <1>3, <2>2, OrderFacts
  <2>4. k \in Nat /\ q \in Nat
    BY <1>1, <2>2, OrderFacts
  <2> QED
    BY <2>1, <2>3, <2>4
<1> QED
  BY <1>2, <1>3

\* In a sound chain every row is linked to the row before it.
LEMMA SoundLinks ==
  ASSUME ChainLinks, NEW c \in Chain, Sound(c), NEW i \in RowsOf(c)
  PROVE  log[i].prev = Predecessor(c, i)
BY DEF ChainLinks, Sound

\* The numbers of a sound chain's rows in the table follow the insertions.
LEMMA LiveOrdered ==
  ASSUME SeqFollows, NEW c \in Chain, Sound(c)
  PROVE  Ordered(RowsOf(c) \cap live)
BY DEF SeqFollows, Ordered

\* The live walk of a sound chain.
LEMMA LiveVerdict ==
  ASSUME Stored, ChainLinks, SeqFollows, NEW c \in Chain, Sound(c)
  PROVE  Verify(c) <=> \A i \in RowsOf(c) \cap live : Predecessor(c, i) \in live \cup {Genesis}
<1> DEFINE R == RowsOf(c) \cap live
<1>0. R \in SUBSET RowsOf(c) /\ R \subseteq live /\ R \in SUBSET DOMAIN log
      /\ log \in Seq(AuditRow) /\ RowsOf(c) \subseteq 1 .. (Len(log) + 1) /\ Genesis = 0
      /\ \A i \in RowsOf(c) : i \in Nat /\ i # 0 /\ i \in DOMAIN log
  BY NewestFacts, RowFacts DEF RowsOf, Genesis, Stored, Typed, TableTyped
<1>o. Ordered(R)
  BY LiveOrdered
<1> HIDE DEF R
<1>1. Verify(c) <=> Walk(R, Genesis)
  BY DEF Verify, R
<1>2. ASSUME NEW i \in R, Predecessor(c, i) \in live \cup {Genesis}
      PROVE  log[i].prev = IF Before(R, i) = {} THEN Genesis ELSE Previous(R, i)
  <2>1. PICK k : k = Predecessor(c, i)
    OBVIOUS
  <2>2. /\ k \in RowsOf(c) \cup {0} /\ k \in 0 .. (i - 1)
        /\ \A j \in RowsOf(c) : j < i => j <= k
    BY <1>0, <1>2, <2>1, PredecessorFacts
  <2>3. log[i].prev = k
    BY <1>0, <1>2, <2>1, SoundLinks
  <2>4. Before(R, i) = {j \in R : j < i}
    BY <1>0, <1>o, <1>2, OneChain
  <2>5. CASE k = 0
    <3>1. Before(R, i) = {}
      <4>1. \A j \in R : ~(j < i)
        BY <1>0, <2>2, <2>5
      <4> QED
        BY <2>4, <4>1
    <3> QED
      BY <1>0, <2>3, <2>5, <3>1
  <2>6. CASE k # 0
    <3>1. k \in R /\ k < i
      BY <1>0, <1>2, <2>1, <2>2, <2>6 DEF R
    <3>2. \A j \in R : j < i => j <= k
      BY <1>0, <2>2
    <3>3. Previous(R, i) = k
      BY <1>0, <1>o, <1>2, <3>1, <3>2, OneChain
    <3> QED
      BY <2>3, <2>4, <3>1, <3>3
  <2> QED
    BY <2>5, <2>6
<1>3. ASSUME NEW i \in R, log[i].prev = IF Before(R, i) = {} THEN Genesis ELSE Previous(R, i)
      PROVE  Predecessor(c, i) \in live \cup {Genesis}
  <2>1. log[i].prev = Predecessor(c, i)
    BY <1>0, <1>3, SoundLinks
  <2>2. Before(R, i) # {} => Previous(R, i) \in R
    <3>1. Before(R, i) \subseteq R
      BY DEF Before
    <3> QED
      BY <1>0, <1>o, <1>3, <3>1, PreviousFacts
  <2> QED
    BY <1>0, <1>3, <2>1, <2>2
<1>4. Walk(R, Genesis) <=> \A i \in R : Predecessor(c, i) \in live \cup {Genesis}
  BY <1>2, <1>3 DEF Walk
<1> QED
  BY <1>1, <1>4 DEF R

\* Two rows of a partition that sort as one chain are of one chain.
LEMMA PartitionChains ==
  ASSUME Stored, NEW i \in DOMAIN log, NEW k \in DOMAIN log, Archivable(i), Archivable(k),
         PartOf(i) = PartOf(k), ChainId(log[i].chain) = ChainId(log[k].chain)
  PROVE  log[i].chain = log[k].chain
<1>1. /\ log[i].chain \in {"site"} \cup Tenant /\ log[k].chain \in {"site"} \cup Tenant
  BY RowFacts DEF Archivable, Chain
<1>2. KindOf(log[i].chain) = KindOf(log[k].chain)
  BY DEF PartOf
<1>3. log[i].chain \in Tenant <=> log[k].chain \in Tenant
  BY <1>1, <1>2, AuditAssumption DEF KindOf
<1>4. CASE log[i].chain \in Tenant
  <2>1. TenantId[log[i].chain] = TenantId[log[k].chain]
    BY <1>3, <1>4 DEF ChainId
  <2> QED
    BY <1>3, <1>4, <2>1, AuditAssumption
<1>5. CASE log[i].chain \notin Tenant
  BY <1>1, <1>3, <1>5
<1> QED
  BY <1>4, <1>5

\* The numbers of sound chains' rows in an archive follow the insertions.
LEMMA ArchiveOrdered ==
  ASSUME Stored, SeqFollows, NEW pt \in Partition, NEW S, S = AllRows(pt),
         \A k \in S : Sound(log[k].chain)
  PROVE  Ordered(S)
<1>1. \A i \in S : i \in DOMAIN log /\ Archivable(i) /\ PartOf(i) = pt
  BY InPart DEF AllRows
<1>2. ASSUME NEW i \in S, NEW k \in S, k < i, ChainId(log[k].chain) = ChainId(log[i].chain)
      PROVE  log[k].seq < log[i].seq
  <2>1. log[k].chain = log[i].chain
    BY <1>1, <1>2, PartitionChains
  <2>2. PICK c \in Chain : c = log[i].chain
    BY <1>1, RowFacts
  <2>3. i \in RowsOf(c) /\ k \in RowsOf(c) /\ PartOf(k) = PartOf(i) /\ Sound(c)
    BY <1>1, <2>1, <2>2 DEF RowsOf
  <2> QED
    BY <1>2, <2>3 DEF SeqFollows
<1> QED
  BY <1>2 DEF Ordered

\* The row before an archived one that is not the first of its archive is in
\* the same archive.
LEMMA ArchiveUnbroken ==
  ASSUME Stored, MonthsFollow, NoStrayAfter, NEW pt \in Partition, NEW c, NEW i \in RowsOf(c),
         i \in AllRows(pt), NEW k \in RowsOf(c), k \in AllRows(pt), k < i
  PROVE  Predecessor(c, i) \in AllRows(pt) /\ Predecessor(c, i) \in RowsOf(c)
         /\ Predecessor(c, i) < i
<1>1. PICK q : q = Predecessor(c, i)
  OBVIOUS
<1>2. log \in Seq(AuditRow) /\ RowsOf(c) \subseteq 1 .. Len(log) /\ Len(log) \in Nat
  BY NewestFacts DEF Stored, Typed, TableTyped
<1>3. q \in RowsOf(c) \cup {0} /\ q \in 0 .. (i - 1) /\ k <= q
  <2>1. i \in 1 .. (Len(log) + 1)
    BY <1>2
  <2> QED
    BY <1>1, <1>2, <2>1, PredecessorFacts DEF Genesis
<1>4. q \in RowsOf(c) /\ q < i /\ (q = k \/ k < q) /\ q \in Nat
  BY <1>2, <1>3
<1>5. /\ q \in DOMAIN log /\ k \in DOMAIN log /\ i \in DOMAIN log
      /\ log[q].chain = c /\ log[k].chain = c /\ log[i].chain = c
  BY <1>4 DEF RowsOf
<1>6. Archivable(k) /\ PartOf(k) = pt /\ Archivable(i) /\ PartOf(i) = pt
  BY InPart DEF AllRows
<1>7. log[k].month = log[i].month
  BY <1>6 DEF PartOf
<1>8. log[q].month \in Nat /\ log[k].month \in Nat /\ log[i].month \in Nat
  BY <1>5, RowFacts
<1>9. log[q].month <= log[i].month /\ (q = k \/ log[k].month <= log[q].month)
  BY <1>4, <1>5 DEF MonthsFollow
<1>10. log[q].month = log[k].month
  BY <1>7, <1>8, <1>9
<1>11. PartOf(q) = pt
  BY <1>5, <1>6, <1>10 DEF PartOf
<1>12. ~log[q].stray
  BY <1>4, <1>5, <1>6, <1>11 DEF NoStrayAfter, Archivable
<1>13. Archivable(q)
  BY <1>5, <1>6, <1>12 DEF Archivable
<1>14. q \in AllRows(pt)
  BY <1>5, <1>11, <1>13, InPart DEF AllRows
<1> QED
  BY <1>1, <1>4, <1>14

\* An archive of one sound chain verifies.
LEMMA ArchiveVerifies ==
  ASSUME Stored, ChainLinks, ArchiveInv, NEW pt \in Partition, NEW S, S = AllRows(pt),
         NEW c \in Chain, Sound(c), \A k \in S : log[k].chain = c, Ordered(S),
         NEW f \in S, Before(S, f) = {}
  PROVE  Walk(S, log[f].prev)
<1>1. S \in SUBSET RowsOf(c) /\ S \in SUBSET DOMAIN log
  BY DEF AllRows, RowsOf
<1>2. ASSUME NEW i \in S, Before(S, i) = {} PROVE i = f
  <2>1. ~RowOrder(f, i) /\ ~RowOrder(i, f)
    BY <1>2 DEF Before
  <2> QED
    BY <1>1, <2>1, OrderFacts
<1>3. ASSUME NEW i \in S, Before(S, i) # {} PROVE log[i].prev = Previous(S, i)
  <2>1. Before(S, i) = {k \in S : k < i}
    BY <1>1, OneChain
  <2>2. PICK k \in S : k < i
    BY <1>3, <2>1
  <2>3. PICK q : q = Predecessor(c, i)
    OBVIOUS
  <2>4. q \in S /\ q < i
    <3>1. MonthsFollow /\ NoStrayAfter
      BY DEF ArchiveInv
    <3> QED
      BY <1>1, <2>2, <2>3, <3>1, ArchiveUnbroken
  <2>5. \A j \in S : j < i => j <= q
    <3>1. log \in Seq(AuditRow) /\ i \in 1 .. (Len(log) + 1)
      BY <1>1, RowFacts DEF Stored, Typed, TableTyped
    <3> QED
      BY <1>1, <2>3, <3>1, PredecessorFacts
  <2>6. Previous(S, i) = q
    BY <1>1, <2>4, <2>5, OneChain
  <2>7. log[i].prev = q
    BY <1>1, <2>3, SoundLinks
  <2> QED
    BY <2>6, <2>7
<1> QED
  BY <1>2, <1>3 DEF Walk

\* An archive in which a second chain begins does not.
LEMMA ArchiveFails ==
  ASSUME Stored, ChainLinks, ArchiveInv, NEW pt \in Partition, NEW S, S = AllRows(pt),
         \A k \in S : Sound(log[k].chain), Ordered(S), NEW i \in S, NEW k \in S, RowOrder(k, i),
         log[i].chain # log[k].chain, NEW e, Walk(S, e)
  PROVE  FALSE
<1>1. S \in SUBSET DOMAIN log /\ \A j \in S : Archivable(j) /\ PartOf(j) = pt
  BY InPart DEF AllRows
<1>2. PICK c \in Chain : c = log[i].chain
  BY <1>1, RowFacts
<1>3. PICK T : T = {j \in S : log[j].chain = c}
  OBVIOUS
<1>4. T \in SUBSET Nat /\ T # {}
  BY <1>1, <1>2, <1>3, OrderFacts
<1>5. PICK f \in T : \A y \in T : f <= y
  BY <1>4, MinOfSome
<1>6. f \in S /\ f \in DOMAIN log /\ log[f].chain = c /\ f \in RowsOf(c)
  BY <1>1, <1>3, <1>5 DEF RowsOf
<1>7. ChainId(log[k].chain) # ChainId(log[i].chain)
  BY <1>1, PartitionChains
<1>8. RowOrder(k, f)
  <2>1. ChainId(log[k].chain) < ChainId(log[i].chain)
    BY <1>1, <1>7, OrderFacts
  <2> QED
    BY <1>1, <1>2, <1>6, <2>1, OrderFacts
<1>9. Before(S, f) # {}
  BY <1>8 DEF Before
<1>10. PICK q : q = Previous(S, f)
  OBVIOUS
<1>11. q \in S /\ RowOrder(q, f) /\ q \in DOMAIN log
  <2>1. q \in Before(S, f)
    BY <1>1, <1>6, <1>9, <1>10, PreviousFacts
  <2> QED
    BY <1>1, <2>1 DEF Before
<1>12. log[q].chain # c
  <2>1. ASSUME log[q].chain = c PROVE FALSE
    <3>1. q \in T /\ q < f
      BY <1>1, <1>3, <1>6, <1>11, <2>1, OrderFacts
    <3>2. q \in Nat /\ f \in Nat /\ f <= q
      BY <1>4, <1>5, <3>1
    <3> QED
      BY <3>1, <3>2
  <2> QED
    BY <2>1
<1>13. log[f].prev = q
  BY <1>6, <1>9, <1>10 DEF Walk
<1>14. log[f].prev = Predecessor(c, f)
  BY <1>6, SoundLinks
<1>15. Predecessor(c, f) \in RowsOf(c) \cup {0}
  <2>1. log \in Seq(AuditRow) /\ f \in 1 .. (Len(log) + 1)
    BY <1>6, RowFacts DEF Stored, Typed, TableTyped
  <2> QED
    BY <2>1, PredecessorFacts DEF Genesis
<1>16. q # 0 /\ q \notin RowsOf(c)
  BY <1>11, <1>12, RowFacts DEF RowsOf
<1> QED
  BY <1>13, <1>14, <1>15, <1>16

\* What VerifyArchive answers about sound chains.
LEMMA ArchiveVerdict ==
  ASSUME Stored, ChainLinks, ArchiveInv, SeqFollows, NEW pt \in Partition,
         \A i \in staged[pt] : Sound(log[i].chain)
  PROVE  VerifyArchive(pt) <=> \A i, k \in staged[pt] : log[i].chain = log[k].chain
<1>1. PICK S : S = staged[pt]
  OBVIOUS
<1>2. CASE S = {}
  BY <1>1, <1>2 DEF VerifyArchive
<1>3. CASE S # {}
  <2>1. S = AllRows(pt)
    BY <1>1, <1>3 DEF ArchiveInv, StagedWhole
  <2>2. S \in SUBSET DOMAIN log
    BY <2>1 DEF AllRows
  <2>o. Ordered(S)
    BY <1>1, <2>1, ArchiveOrdered
  <2>3. VerifyArchive(pt) <=> \A f \in S : Before(S, f) = {} => Walk(S, log[f].prev)
    BY <1>1 DEF VerifyArchive
  <2>4. ASSUME \A i, k \in S : log[i].chain = log[k].chain, NEW f \in S, Before(S, f) = {}
        PROVE  Walk(S, log[f].prev)
    <3>1. PICK c \in Chain : c = log[f].chain
      BY <2>2, <2>4, RowFacts
    <3>2. Sound(c) /\ \A k \in S : log[k].chain = c
      BY <1>1, <2>4, <3>1
    <3> QED
      BY <2>1, <2>o, <2>4, <3>2, ArchiveVerifies
  <2>5. ASSUME VerifyArchive(pt), NEW i \in S, NEW k \in S, log[i].chain # log[k].chain
        PROVE  FALSE
    <3>1. PICK f \in S : Before(S, f) = {}
      BY <1>3, <2>2, <2>o, FirstRow
    <3>2. PICK e : Walk(S, e)
      BY <2>3, <2>5, <3>1
    <3>3. \A j \in S : Sound(log[j].chain)
      BY <1>1
    <3>4. i = k \/ RowOrder(i, k) \/ RowOrder(k, i)
      BY <2>2, <2>o, OrderFacts
    <3>5. CASE RowOrder(k, i)
      BY <2>1, <2>o, <2>5, <3>2, <3>3, <3>5, ArchiveFails
    <3>6. CASE RowOrder(i, k)
      BY <2>1, <2>o, <2>5, <3>2, <3>3, <3>6, ArchiveFails
    <3> QED
      BY <2>5, <3>4, <3>5, <3>6
  <2> QED
    BY <1>1, <2>3, <2>4, <2>5
<1> QED
  BY <1>2, <1>3

\* The verdicts about sound chains are exactly as VerdictExact says.
THEOREM VerdictsAreExact == Spec => []VerdictExact
<1>1. Init => Stored /\ ChainInv /\ ArchiveInv /\ NumberInv
  BY StoredInit, ChainInit, ArchiveInit, NumberInit
<1>2. Stored /\ ChainInv /\ ArchiveInv /\ NumberInv /\ [Next]_vars
        => (Stored /\ ChainInv /\ ArchiveInv /\ NumberInv)'
  BY StoredStep, ChainStep, ArchiveStep, NumberStep
<1>3. Stored /\ ChainInv /\ ArchiveInv /\ NumberInv => VerdictExact
  <2> SUFFICES ASSUME Stored, ChainInv, ArchiveInv, NumberInv PROVE VerdictExact
    OBVIOUS
  <2>1. ChainLinks /\ SeqFollows /\ manifests \subseteq Partition
    BY NumbersFollow DEF ChainInv, Stored, Typed, ArchiveTyped
  <2> QED
    BY <2>1, LiveVerdict, ArchiveVerdict DEF VerdictExact
<1> QED
  BY <1>1, <1>2, <1>3, PTL DEF Spec

-----------------------------------------------------------------------------
(* What the columns refer to *)

\* A head and a link never leave their chain; a seal signs a legacy row.
OwnRows ==
  /\ \A p \in Proc, c \in Chain : head[p][c].hash \in RowsOf(c) \cup {Genesis}
  /\ \A i \in DOMAIN log : log[i].prev \in RowsOf(log[i].chain) \cup {Genesis}
  /\ \A j \in DOMAIN seals : seals[j].head \in RowsOf("legacy")

\* A new row that is linked within its chain.
LEMMA GrowOwn ==
  ASSUME Stored, OwnRows, NEW r, Grows(r), NEW n, n = Len(log) + 1, seals' = seals,
         r.prev \in RowsOf(r.chain) \cup {0},
         \A q \in Proc, d \in Chain :
           head'[q][d].hash = head[q][d].hash \/ (d = r.chain /\ head'[q][d].hash = n)
  PROVE  OwnRows'
<1>1. /\ n \in Nat /\ n - 1 \in Nat /\ DOMAIN log = 1 .. (n - 1) /\ DOMAIN log' = 1 .. n
      /\ \A i \in 1 .. (n - 1) : log'[i] = log[i]
      /\ log'[n] = r
  BY GrowFacts DEF Stored, Typed, TableTyped
<1>2. \A c : RowsOf(c)' = IF r.chain = c THEN RowsOf(c) \cup {n} ELSE RowsOf(c)
  BY Grown
<1>3. \A q \in Proc, d \in Chain : head'[q][d].hash \in RowsOf(d)' \cup {0}
  BY <1>2 DEF OwnRows, Genesis
<1>4. \A j \in DOMAIN seals' : seals'[j].head \in RowsOf("legacy")'
  BY <1>2 DEF OwnRows
<1>5. ASSUME NEW i \in 1 .. n, NEW c, c = log'[i].chain
      PROVE  log'[i].prev \in RowsOf(c)' \cup {0}
  <2>1. CASE i \in 1 .. (n - 1)
    BY <1>1, <1>2, <1>5, <2>1 DEF OwnRows, Genesis
  <2>2. CASE i = n
    BY <1>1, <1>2, <1>5, <2>2
  <2> QED
    BY <1>1, <2>1, <2>2
<1>6. \A i \in DOMAIN log' : (log[i].prev \in RowsOf(log[i].chain) \cup {0})'
  <2>1. ASSUME NEW i \in DOMAIN log' PROVE (log[i].prev \in RowsOf(log[i].chain) \cup {0})'
    <3>1. PICK c : c = log'[i].chain
      OBVIOUS
    <3>2. log'[i].prev \in RowsOf(c)' \cup {0}
      BY <1>1, <1>5, <2>1, <3>1
    <3>3. RowsOf(c)' = {k \in DOMAIN log' : log'[k].chain = c}
      BY DEF RowsOf
    <3>4. RowsOf(log[i].chain)' = {k \in DOMAIN log' : log'[k].chain = log'[i].chain}
      BY DEF RowsOf
    <3> QED
      BY <3>1, <3>2, <3>3, <3>4
  <2> QED
    BY <2>1
<1> QED
  BY <1>3, <1>4, <1>6 DEF OwnRows, Genesis, Chain

\* The log stays and heads are kept, loaded or dropped.
LEMMA KeepOwn ==
  ASSUME Stored, OwnRows, log' = log,
         \A q \in Proc, c \in Chain :
           \/ head'[q][c].hash = head[q][c].hash \/ head'[q][c].hash = 0
           \/ Found(c, head'[q][c].hash),
         \A j \in DOMAIN seals' : seals'[j].head \in RowsOf("legacy")
  PROVE  OwnRows'
<1>1. \A c : RowsOf(c)' = RowsOf(c)
  BY DEF RowsOf
<1>2. \A c, h : Found(c, h) => h \in RowsOf(c) \cup {0}
  BY FoundFacts DEF Stored, Typed, TableTyped, Genesis
<1>3. \A q \in Proc, c \in Chain : head'[q][c].hash \in RowsOf(c) \cup {0}
  BY <1>2 DEF OwnRows, Genesis
<1>4. \A i \in DOMAIN log : log[i].prev \in RowsOf(log[i].chain) \cup {0}
  BY DEF OwnRows, Genesis
<1>5. \A i \in DOMAIN log' : (log[i].prev \in RowsOf(log[i].chain) \cup {0})'
  BY <1>4 DEF RowsOf
<1> QED
  BY <1>1, <1>3, <1>5 DEF OwnRows, Genesis, Chain

LEMMA OwnStep == Stored /\ OwnRows /\ [Next]_vars => OwnRows'
<1> SUFFICES ASSUME Stored, OwnRows, [Next]_vars PROVE OwnRows'
  OBVIOUS
<1>0. \A j \in DOMAIN seals : seals[j].head \in RowsOf("legacy")
  BY DEF OwnRows
<1>1. ASSUME log' = log, head' = head, seals' = seals PROVE OwnRows'
  BY <1>0, <1>1, KeepOwn
<1>2. CASE UNCHANGED vars
  BY <1>1, <1>2 DEF vars, table
<1>3. CASE Next
  <2>0. bound' = bound
    BY <1>3 DEF Next
  <2>1. ASSUME NEW p \in Proc, NEW c \in Chain, NEW at \in 0 .. clock, NEW b \in BOOLEAN,
               Appends(p, c, at, b)
        PROVE  OwnRows'
    <3>1. PICK n \in Nat : n = Len(log) + 1
      BY RowFacts
    <3>2. PICK h : h = head[p][c].hash
      OBVIOUS
    <3>3. PICK r : r = NewRow(p, c, h, at, b)
      OBVIOUS
    <3>4. /\ Grows(r) /\ seals' = seals
          /\ head' = (IF b THEN [head EXCEPT ![p][c].hash = n] ELSE head)
      BY <2>1, <3>1, <3>2, <3>3 DEF Appends, Aside
    <3>5. r.chain = c /\ r.prev = h
      BY <3>3, NewRowFields
    <3>6. r.prev \in RowsOf(r.chain) \cup {0}
      BY <3>2, <3>5 DEF OwnRows, Genesis
    <3>7. \A q \in Proc, d \in Chain :
            head'[q][d].hash = head[q][d].hash \/ (d = r.chain /\ head'[q][d].hash = n)
      <4>1. /\ \A q \in Proc, d \in Chain : ~b \/ q # p \/ d # c => head'[q][d] = head[q][d]
            /\ b => head'[p][c].hash = n
        BY <2>1, <3>1, AppendHeads
      <4> QED
        BY <3>5, <4>1
    <3> QED
      BY <3>1, <3>4, <3>6, <3>7, GrowOwn
  <2>2. ASSUME NEW p \in Proc, NEW t \in Tenant, NEW m \in Nat, Strays(p, t, m) PROVE OwnRows'
    <3>1. PICK n : n = Len(log) + 1
      OBVIOUS
    <3>2. PICK r : r = OrphanRow(p, t, m)
      OBVIOUS
    <3>3. Grows(r) /\ seals' = seals /\ head' = head
      BY <2>2, <3>2 DEF Strays, Aside
    <3>4. r.prev \in RowsOf(r.chain) \cup {0}
      <4>1. OrphanRow(p, t, m).prev = 0
        BY OrphanFacts
      <4> QED
        BY <3>2, <4>1
    <3> QED
      BY <3>1, <3>3, <3>4, GrowOwn
  <2>3. CASE Reloads
    <3>1. log' = log /\ seals' = seals
      BY <2>3 DEF Reloads, Aside
    <3>2. \A c, h : Found(c, h) => Loaded(c, h).hash = h
      BY FoundFacts, LoadedFacts DEF Stored, Typed, TableTyped
    <3>3. \A q \in Proc, c \in Chain :
            \/ head'[q][c].hash = head[q][c].hash \/ head'[q][c].hash = 0
            \/ Found(c, head'[q][c].hash)
      BY <2>3, <3>2 DEF Reloads
    <3> QED
      BY <1>0, <3>1, <3>3, KeepOwn
  <2>4. ASSUME NEW p \in Proc, NEW d \in Chain, WriteBegin(p, d) PROVE OwnRows'
    BY <1>1, <2>4 DEF WriteBegin, table
  <2>5. CASE SealUnsealed
    <3>1. Unsealed # {} /\ seals' = Append(seals, NewSeal) /\ log' = log /\ head' = head
      BY <2>0, <2>5, SealType
    <3>2. PICK s \in SealRow : s = NewSeal /\ s.head \in RowsOf("legacy")
      BY <3>1, SealFacts, UnsealedFacts
    <3>3. seals \in Seq(SealRow)
      BY DEF Stored, Typed, SealsTyped
    <3>4. \A j \in DOMAIN seals' : seals'[j] = s \/ (j \in DOMAIN seals /\ seals'[j] = seals[j])
      BY <3>1, <3>2, <3>3, AppendProperties
    <3>5. \A j \in DOMAIN seals' : seals'[j].head \in RowsOf("legacy")
      BY <1>0, <3>2, <3>4
    <3> QED
      BY <3>1, <3>5, KeepOwn
  <2>6. CASE Sweep
    BY <1>1, <2>0, <2>6, SweepType DEF Sweep
  <2> QED
    BY <1>3, <2>1, <2>2, <2>3, <2>4, <2>5, <2>6, StepKinds
<1> QED
  BY <1>2, <1>3

LEMMA OwnInit == Init => OwnRows
<1> SUFFICES ASSUME Init PROVE OwnRows
  OBVIOUS
<1>1. log \in Seq(AuditRow) /\ DOMAIN log = {} /\ DOMAIN seals = {}
  BY DEF Init
<1>2. \A p \in Proc, c \in Chain : head[p][c] = Absent \/ head[p][c] = Loaded(c, LatestHash(c))
  BY DEF Init, Booted
<1>3. \A c : /\ Loaded(c, LatestHash(c)).hash = LatestHash(c)
             /\ LatestHash(c) \in RowsOf(c) \cup {Genesis}
  BY <1>1, LoadedFacts, LatestFacts
<1>4. \A p \in Proc, c \in Chain : head[p][c].hash \in RowsOf(c) \cup {Genesis}
  BY <1>2, <1>3, AbsentFacts DEF Genesis
<1> QED
  BY <1>1, <1>4 DEF OwnRows

\* The tables and the memories hold what they should: a link or a head of a
\* chain is a row of that chain, older than the row it is in.
THEOREM AuditTypeCorrect == Spec => []TypeOK
<1>1. Init => Stored /\ ChainInv /\ ArchiveInv /\ OwnRows
  BY StoredInit, ChainInit, ArchiveInit, OwnInit
<1>2. Stored /\ ChainInv /\ ArchiveInv /\ OwnRows /\ [Next]_vars =>
        (Stored /\ ChainInv /\ ArchiveInv /\ OwnRows)'
  BY StoredStep, ChainStep, ArchiveStep, OwnStep
<1>3. Stored /\ ChainInv /\ ArchiveInv /\ OwnRows => TypeOK
  <2> SUFFICES ASSUME Stored, ChainInv, ArchiveInv, OwnRows PROVE TypeOK
    OBVIOUS
  <2>1. ASSUME NEW i \in DOMAIN log
        PROVE  /\ log[i].chain \in Chain
               /\ log[i].prev \in 0 .. (i - 1)
               /\ log[i].seq \in 1 .. i
               /\ log[i].at \in 0 .. clock
               /\ log[i].month \in 0 .. month
    <3>1. /\ log[i].chain \in Chain /\ log[i].at \in Nat /\ log[i].month \in Nat
          /\ log[i].at <= clock /\ log[i].month <= month /\ clock \in Nat /\ month \in Nat
      BY RowFacts DEF Stored, Typed, Clocked, ArchiveInv, MonthsFollow, ArchiveTyped, Instance
    <3>2. log[i].prev \in 0 .. (i - 1) /\ log[i].seq \in 1 .. i
      BY DEF Stored, Typed, TableTyped
    <3> QED
      BY <3>1, <3>2
  <2>2. \A p \in Proc, c \in Chain : /\ head[p][c].hash \in {Genesis} \cup RowsOf(c)
                                     /\ c \notin Tenant => Ready(p, c)
    BY DEF OwnRows, ChainInv, AlwaysReady
  <2>3. waiter \subseteq Proc \X Tenant /\ parts \cup manifests \subseteq Partition
        /\ live \subseteq DOMAIN log
    BY DEF Stored, Typed, WritersTyped, ArchiveTyped, TableTyped
  <2>5. \A w \in orphan : w[1] \in Proc /\ w[2] \in Tenant /\ w[3] \in 0 .. (Len(log) + 1)
    <3>1. \A w \in orphan : w[1] \in Proc /\ w[2] \in Tenant /\ w[3] \in Nat
      BY DEF Stored, Typed, WritersTyped
    <3>2. \A w \in orphan : w[3] <= Len(log) + 1
      BY DEF Stored, Numbered
    <3> QED
      BY <3>1, <3>2, RowFacts
  <2>6. \A p \in Proc, t \in Tenant : drawn[p][t] \in 0 .. (Len(log) + 1)
    <3>1. \A p \in Proc, t \in Tenant : drawn[p][t] \in Nat
      BY DEF Stored, Typed, WritersTyped
    <3>2. \A p \in Proc, t \in Tenant : drawn[p][t] <= Len(log) + 1
      BY DEF Stored, Numbered
    <3> QED
      BY <3>1, <3>2, RowFacts
  <2>4. \A j \in DOMAIN seals : seals[j].head \in RowsOf("legacy")
    BY DEF OwnRows
  <2> QED
    BY <2>1, <2>2, <2>3, <2>4, <2>5, <2>6 DEF TypeOK
<1> QED
  BY <1>1, <1>2, <1>3, PTL DEF Spec

=============================================================================
