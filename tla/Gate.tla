-------------------------------- MODULE Gate --------------------------------
(***************************************************************************)
(* The approval gate of the record API (internal/authority/gate.go,        *)
(* api/rest/authority_gate.go and updateHandler): PATCH requests on one    *)
(* record of a collection with one gate point, spending the approvals that *)
(* Approval describes.                                                     *)
(*                                                                         *)
(* updateHandler reads the pre-image, asks the gate, and only then writes, *)
(* so a PATCH is three steps.  The UPDATE and MarkConsumed share one       *)
(* transaction and are one step.  Check's own SELECTs are taken together:  *)
(* what changes between them is caught by MarkConsumed or answered 409.    *)
(*                                                                         *)
(* The gated field and the protected ones are text.  A JSON null, which a   *)
(* PATCH writes as SQL NULL, is not the same as a key that is not there.    *)
(***************************************************************************)
EXTENDS Approval, FiniteSets

CONSTANTS
  Value,      \* contents of the body field
  Requested,  \* the diffs clients ask approval for
  Protected,  \* AuthorityConfig.ProtectedFields
  From,       \* AuthorityOn.From; empty means any source value
  To,         \* AuthorityOn.To
  Required,   \* AuthorityConfig.Required
  Nullable,   \* the columns without NOT NULL
  Patcher,    \* PATCH requests that may be served at once
  None,       \* a key that is not there
  Null        \* JSON null, and SQL NULL

Field == {"status", "body"}
Stage == {"draft", "published"}

\* What column k may hold; a null for another column is an error of the statement.
Content(k) == (IF k = "status" THEN Stage ELSE Value) \cup (IF k \in Nullable THEN {Null} ELSE {})

\* A map from field names to values, None for a key it lacks.
Fields == {f \in [Field -> Stage \cup Value \cup {None, Null}] :
             \A k \in Field : f[k] \in Content(k) \cup {None}}
Row == {f \in Fields : \A k \in Field : f[k] # None}
Nothing == [k \in Field |-> None]

ASSUME GateAssumption ==
  /\ None \notin Value \cup Stage \cup {Null}
  /\ Null \notin Value \cup Stage
  /\ None \notin Workflow
  /\ Nullable \subseteq Field
  /\ Value \cap Stage = {}
  /\ Requested \subseteq Fields
  /\ Protected \subseteq Field
  /\ From \subseteq Stage
  /\ To \subseteq Stage
  /\ Required \in BOOLEAN
  /\ MaxWorkflows \in Nat

VARIABLES
  record,    \* the row
  diff,      \* requested_diff of each workflow
  governed,  \* an applicable approved matrix exists
  patch,     \* the PATCH requests
  applied    \* history: committed writes that spent each workflow

gateVars == <<approvalVars, record, diff, governed, patch, applied>>

\* "before" is the pre-image (Nothing when the fetch failed), "consume" the
\* ConsumeWorkflowID, "soft" that the gate let it by for want of a matrix.
PatchState == [pc: {"idle", "read", "checked"}, fields: Fields, before: Fields,
               consume: Workflow \cup {None}, soft: BOOLEAN]

Quiet == [pc |-> "idle", fields |-> Nothing, before |-> Nothing,
          consume |-> None, soft |-> FALSE]

GateTypeOK ==
  /\ status \in [Workflow -> {"absent", "running"} \cup Terminal]
  /\ consumed \subseteq Workflow
  /\ record \in Row
  /\ diff \in [Workflow -> Fields]
  /\ governed \in BOOLEAN
  /\ patch \in [Patcher -> PatchState]
  /\ applied \in [Workflow -> Nat]

GateInit ==
  /\ ApprovalInit
  /\ record \in {r \in Row : r["status"] = "draft"}
  /\ diff = [w \in Workflow |-> Nothing]
  /\ governed \in BOOLEAN
  /\ patch = [p \in Patcher |-> Quiet]
  /\ applied = [w \in Workflow |-> 0]

-----------------------------------------------------------------------------
(* Matrices and workflows, as far as the gate sees them *)

\* A matrix is approved or revoked, or its window opens or closes.
MatrixTurns ==
  /\ governed' = ~governed
  /\ UNCHANGED <<approvalVars, record, diff, patch, applied>>

\* The client chooses the diff it asks approval for.
CreateWorkflow(w, d) ==
  /\ governed
  /\ Open(w)
  /\ diff' = [diff EXCEPT ![w] = d]
  /\ UNCHANGED <<record, governed, patch, applied>>

\* Every end but "completed" is the same to the gate; "rejected" stands for them.
WorkflowSettles(w, s) ==
  /\ Settle(w, s)
  /\ UNCHANGED <<record, diff, governed, patch, applied>>

-----------------------------------------------------------------------------
(* PATCH *)

\* Fields on top of a map; a null among them too.
mergeForGate(before, fields) ==
  [k \in Field |-> IF fields[k] # None THEN fields[k] ELSE before[k]]

\* The pre-image, or nil when its fetch fails.
ReadRow(p, f) ==
  /\ patch[p].pc = "idle"
  /\ f # Nothing
  /\ \E b \in {record, Nothing} :
       patch' = [patch EXCEPT ![p] = [Quiet EXCEPT !.pc = "read", !.fields = f, !.before = b]]
  /\ UNCHANGED <<approvalVars, record, diff, governed, applied>>

onMatchesMutation(before, after) ==
  /\ after["status"] \in To
  /\ From # {} => before["status"] \in From

Approved == {w \in Workflow : status[w] = "completed" /\ w \notin consumed}

\* ORDER BY created_at DESC LIMIT 1: whatever it was asked for.
findApprovedWorkflowForMutation(w) == w \in Approved /\ \A v \in Approved : v <= w

\* Looked up in a Go map, a null and a key that is not there are both nil.
same(x, y) == x = y \/ {x, y} \subseteq {None, Null}

\* Mutant: a protected field the approved diff lacks may be anything.
ValidateListedOnly(w, after) ==
  \A k \in Protected : diff[w][k] = None \/ same(diff[w][k], after[k])

\* A protected field the approved diff lacks must be nil in the attempt.
validateProtectedFields(w, after) == \A k \in Protected : same(diff[w][k], after[k])

\* The request is let by, with the approval it is to spend; the pre-image is not
\* looked at again.
Pass(p, w, soft) ==
  [patch EXCEPT ![p] = [@ EXCEPT !.pc = "checked", !.before = Nothing, !.consume = w, !.soft = soft]]

\* Mutant: an approval that does not fit lets the request by unspent.
CheckIgnoringDrift(p) ==
  /\ patch[p].pc = "read"
  /\ \/ patch' = Pass(p, None, FALSE)
     \/ \E w \in Approved : patch' = Pass(p, w, FALSE)
  /\ UNCHANGED <<approvalVars, record, diff, governed, applied>>

\* runAuthorityGate: let by without an approval, let by with one to spend, or
\* answered 409 (or 500, when the gate point requires a matrix and has none).
\* A failed lookup of the approval counts as "none found", so the last case may
\* be taken although there is one.
Check(p) ==
  LET before == patch[p].before
      after == mergeForGate(before, patch[p].fields)
  IN  /\ patch[p].pc = "read"
      /\ \/ /\ ~onMatchesMutation(before, after)
            /\ patch' = Pass(p, None, FALSE)
         \/ /\ onMatchesMutation(before, after)
            /\ \E w \in Workflow :
                 /\ findApprovedWorkflowForMutation(w)
                 /\ patch' = IF validateProtectedFields(w, after)
                             THEN Pass(p, w, FALSE)
                             ELSE [patch EXCEPT ![p] = Quiet]
         \/ /\ onMatchesMutation(before, after)
            /\ patch' = IF ~governed /\ ~Required
                        THEN Pass(p, None, TRUE)
                        ELSE [patch EXCEPT ![p] = Quiet]
      /\ UNCHANGED <<approvalVars, record, diff, governed, applied>>

\* A PATCH is partial: it sets the fields it carries in the row of this moment.
Write(p) ==
  /\ record' = mergeForGate(record, patch[p].fields)
  /\ patch' = [patch EXCEPT ![p] = Quiet]
  /\ UNCHANGED <<diff, governed>>

\* The UPDATE of a request without an approval to spend.
Update(p) ==
  /\ patch[p].pc = "checked"
  /\ patch[p].consume = None
  /\ Write(p)
  /\ UNCHANGED <<approvalVars, applied>>

\* Mutant: the UPDATE is committed although MarkConsumed found nothing to mark.
UpdateUnconditionally(p) ==
  LET w == patch[p].consume
  IN  /\ patch[p].pc = "checked"
      /\ w # None
      /\ consumed' = consumed \cup {w}
      /\ applied' = [applied EXCEPT ![w] = @ + 1]
      /\ Write(p)
      /\ UNCHANGED status

\* UPDATE and MarkConsumed in one transaction; it rolls back when another
\* request has spent the workflow by now.
UpdateAndConsume(p) ==
  LET w == patch[p].consume
  IN  /\ patch[p].pc = "checked"
      /\ w # None
      /\ \/ /\ Spend(w)
            /\ applied' = [applied EXCEPT ![w] = @ + 1]
            /\ Write(p)
         \/ /\ w \in consumed
            /\ patch' = [patch EXCEPT ![p] = Quiet]
            /\ UNCHANGED <<approvalVars, record, diff, governed, applied>>

\* An error of any statement, or the end of the client: nothing is written.
Fail(p) ==
  /\ patch[p].pc # "idle"
  /\ patch' = [patch EXCEPT ![p] = Quiet]
  /\ UNCHANGED <<approvalVars, record, diff, governed, applied>>

-----------------------------------------------------------------------------

GateNext ==
  \/ MatrixTurns
  \/ \E w \in Workflow : \/ \E d \in Requested : CreateWorkflow(w, d)
                         \/ \E s \in {"completed", "rejected"} : WorkflowSettles(w, s)
  \/ \E p \in Patcher : \/ \E f \in Fields : ReadRow(p, f)
                        \/ Check(p) \/ Update(p) \/ UpdateAndConsume(p) \/ Fail(p)

GateSpec == GateInit /\ [][GateNext]_gateVars

-----------------------------------------------------------------------------
(* Properties *)

Publishes == record["status"] \notin To /\ record'["status"] \in To
SpentNow == consumed' \ consumed

\* "The row never lands without the consume": an approval backs at most one
\* committed write, and is spent exactly when that write commits, also when
\* several requests were let by on the strength of the same approval.
OneWritePerApproval ==
  \A w \in Workflow : applied[w] <= 1 /\ (applied[w] = 1 <=> w \in consumed)

\* Where the gate point names no source value, no interleaving of requests
\* brings the record into a gated state without spending an approval, except a
\* request the gate let by while no matrix applied.
PublishNeedsApproval ==
  [][Publishes => \/ SpentNow # {}
                  \/ \E p \in Patcher : patch[p].soft /\ patch[p].pc = "checked"]_gateVars

\* What a write that spends an approval sets itself is what was approved, except
\* that a protected field the approved diff leaves out may be blanked: the check
\* against drift lets a null by as if the key were not there.
SetsWhatWasApproved ==
  [][\A w \in SpentNow : \A p \in Patcher :
       patch[p].consume = w /\ patch'[p].pc = "idle" =>
         \A k \in Protected :
           \/ patch[p].fields[k] \in {None, diff[w][k]}
           \/ diff[w][k] = None /\ patch[p].fields[k] = Null]_gateVars
=============================================================================
