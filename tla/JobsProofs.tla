----------------------------- MODULE JobsProofs -----------------------------
(***************************************************************************)
(* What the job queue guarantees for any number of jobs and workers, any   *)
(* retry budget, lock TTL and backoff.                                     *)
(***************************************************************************)
EXTENDS Jobs, FiniteSetTheorems, TLAPS

USE JobsAssumption

\* The backoff curve is a delay of at least one unit and at most the cap: a
\* failed attempt is never re-queued as immediately due.
LEMMA BackoffRange ==
  ASSUME NEW n \in Nat
  PROVE  nextBackoff(n) \in 1..BackoffCap
<1>1. CASE n > 12
  BY <1>1 DEF nextBackoff
<1>2. CASE n <= 12
  <2> DEFINE m == IF n < 1 THEN 1 ELSE n
             d == BackoffBase * Shift[m]
  <2>1. m \in 1..12
    BY <1>2
  <2>2. Shift[m] \in Nat /\ Shift[m] >= 1
    BY <2>1 DEF Shift
  <2>3. d \in Nat /\ d >= 1
    BY <2>2
  <2>4. nextBackoff(n) = IF d > BackoffCap THEN BackoffCap ELSE d
    BY <1>2 DEF nextBackoff
  <2> QED
    BY <2>3, <2>4
<1> QED
  BY <1>1, <1>2
-----------------------------------------------------------------------------
(* Type correctness *)

\* A row with several fields replaced, built up one field at a time, is a row.
LEMMA Row3 ==
  ASSUME NEW r \in Row, NEW st \in Status, NEW by \in Worker \cup {None}, NEW lk \in Int
  PROVE  [r EXCEPT !.status = st, !.lockedBy = by, !.lock = lk] \in Row
<1> DEFINE r1 == [r EXCEPT !.status = st]
           r2 == [r1 EXCEPT !.lockedBy = by]
           r3 == [r2 EXCEPT !.lock = lk]
<1>1. r1 \in Row
  BY DEF Row
<1>2. r2 \in Row
  <2> HIDE DEF r1
  <2> QED BY <1>1 DEF Row
<1>3. r3 \in Row
  <2> HIDE DEF r2
  <2> QED BY <1>2 DEF Row
<1> QED
  BY <1>3

\* The same for four fields.
LEMMA Row4 ==
  ASSUME NEW r \in Row, NEW st \in Status, NEW by \in Worker \cup {None}, NEW lk \in Int, NEW er \in LastError
  PROVE  [r EXCEPT !.status = st, !.lockedBy = by, !.lock = lk, !.lastError = er] \in Row
<1> DEFINE r1 == [r EXCEPT !.status = st]
           r2 == [r1 EXCEPT !.lockedBy = by]
           r3 == [r2 EXCEPT !.lock = lk]
           r4 == [r3 EXCEPT !.lastError = er]
<1>1. r1 \in Row
  BY DEF Row
<1>2. r2 \in Row
  <2> HIDE DEF r1
  <2> QED BY <1>1 DEF Row
<1>3. r3 \in Row
  <2> HIDE DEF r2
  <2> QED BY <1>2 DEF Row
<1>4. r4 \in Row
  <2> HIDE DEF r3
  <2> QED BY <1>3 DEF Row
<1> QED
  BY <1>4

\* The row Fail re-queues (status, lock and backoff replaced) is a row.
LEMMA RowRetried ==
  ASSUME NEW r \in Row, NEW st \in Status, NEW by \in Worker \cup {None}, NEW lk \in Int, NEW er \in LastError, NEW du \in Int
  PROVE  [r EXCEPT !.status = st, !.lockedBy = by, !.lock = lk, !.lastError = er, !.due = du] \in Row
<1> DEFINE r1 == [r EXCEPT !.status = st]
           r2 == [r1 EXCEPT !.lockedBy = by]
           r3 == [r2 EXCEPT !.lock = lk]
           r4 == [r3 EXCEPT !.lastError = er]
           r5 == [r4 EXCEPT !.due = du]
<1>1. r1 \in Row
  BY DEF Row
<1>2. r2 \in Row
  <2> HIDE DEF r1
  <2> QED BY <1>1 DEF Row
<1>3. r3 \in Row
  <2> HIDE DEF r2
  <2> QED BY <1>2 DEF Row
<1>4. r4 \in Row
  <2> HIDE DEF r3
  <2> QED BY <1>3 DEF Row
<1>5. r5 \in Row
  <2> HIDE DEF r4
  <2> QED BY <1>4 DEF Row
<1> QED
  BY <1>5

\* The row Fail gives up (status, lock, error and cool-down replaced) is a row.
LEMMA RowFailed ==
  ASSUME NEW r \in Row, NEW st \in Status, NEW by \in Worker \cup {None}, NEW lk \in Int, NEW er \in LastError, NEW co \in Nat
  PROVE  [r EXCEPT !.status = st, !.lockedBy = by, !.lock = lk, !.lastError = er, !.cool = co] \in Row
<1> DEFINE r1 == [r EXCEPT !.status = st]
           r2 == [r1 EXCEPT !.lockedBy = by]
           r3 == [r2 EXCEPT !.lock = lk]
           r4 == [r3 EXCEPT !.lastError = er]
           r5 == [r4 EXCEPT !.cool = co]
<1>1. r1 \in Row
  BY DEF Row
<1>2. r2 \in Row
  <2> HIDE DEF r1
  <2> QED BY <1>1 DEF Row
<1>3. r3 \in Row
  <2> HIDE DEF r2
  <2> QED BY <1>2 DEF Row
<1>4. r4 \in Row
  <2> HIDE DEF r3
  <2> QED BY <1>3 DEF Row
<1>5. r5 \in Row
  <2> HIDE DEF r4
  <2> QED BY <1>4 DEF Row
<1> QED
  BY <1>5

\* The row Claim returns is a row.
LEMMA RowClaimed ==
  ASSUME NEW r \in Row, NEW st \in Status, NEW at \in Nat, NEW by \in Worker \cup {None}, NEW lk \in Int
  PROVE  [r EXCEPT !.status = st, !.attempts = at, !.lockedBy = by, !.lock = lk] \in Row
<1> DEFINE r1 == [r EXCEPT !.status = st]
           r2 == [r1 EXCEPT !.attempts = at]
           r3 == [r2 EXCEPT !.lockedBy = by]
           r4 == [r3 EXCEPT !.lock = lk]
<1>1. r1 \in Row
  BY DEF Row
<1>2. r2 \in Row
  <2> HIDE DEF r1
  <2> QED BY <1>1 DEF Row
<1>3. r3 \in Row
  <2> HIDE DEF r2
  <2> QED BY <1>2 DEF Row
<1>4. r4 \in Row
  <2> HIDE DEF r3
  <2> QED BY <1>3 DEF Row
<1> QED
  BY <1>4

\* The row the welcome sweeper re-queues is a row.
LEMMA RowResurrected ==
  ASSUME NEW r \in Row, NEW st \in Status, NEW du \in Int, NEW er \in LastError
  PROVE  [r EXCEPT !.status = st, !.due = du, !.lastError = er] \in Row
<1> DEFINE r1 == [r EXCEPT !.status = st]
           r2 == [r1 EXCEPT !.due = du]
           r3 == [r2 EXCEPT !.lastError = er]
<1>1. r1 \in Row
  BY DEF Row
<1>2. r2 \in Row
  <2> HIDE DEF r1
  <2> QED BY <1>1 DEF Row
<1>3. r3 \in Row
  <2> HIDE DEF r2
  <2> QED BY <1>2 DEF Row
<1> QED
  BY <1>3

\* The row after one unit of time is a row.
LEMMA RowTicked ==
  ASSUME NEW r \in Row, NEW du \in Int, NEW lk \in Int, NEW co \in Nat, NEW fr \in Nat
  PROVE  [r EXCEPT !.due = du, !.lock = lk, !.cool = co, !.fresh = fr] \in Row
<1> DEFINE r1 == [r EXCEPT !.due = du]
           r2 == [r1 EXCEPT !.lock = lk]
           r3 == [r2 EXCEPT !.cool = co]
           r4 == [r3 EXCEPT !.fresh = fr]
<1>1. r1 \in Row
  BY DEF Row
<1>2. r2 \in Row
  <2> HIDE DEF r1
  <2> QED BY <1>1 DEF Row
<1>3. r3 \in Row
  <2> HIDE DEF r2
  <2> QED BY <1>2 DEF Row
<1>4. r4 \in Row
  <2> HIDE DEF r3
  <2> QED BY <1>3 DEF Row
<1> QED
  BY <1>4

\* TickRow keeps every row a row.
LEMMA TickRowType ==
  ASSUME NEW r \in Row
  PROVE  TickRow(r) \in Row
<1> DEFINE du == IF r.status \in Open /\ r.due > -Overdue THEN r.due - 1 ELSE r.due
           lk == IF r.status = "running" /\ r.lock >= 0 THEN r.lock - 1 ELSE r.lock
           co == Down(r.cool)
           fr == Down(r.fresh)
<1>1. du \in Int /\ lk \in Int /\ co \in Nat /\ fr \in Nat
  BY DEF Row, Down
<1>2. [r EXCEPT !.due = du, !.lock = lk, !.cool = co, !.fresh = fr] \in Row
  <2> HIDE DEF du, lk, co, fr
  <2> QED BY <1>1, RowTicked
<1> QED
  BY <1>2 DEF TickRow

\* Every row operator yields a row.
LEMMA RowOps ==
  ASSUME NEW r \in Row
  PROVE  /\ NoRow \in Row
         /\ \A delay, fresh \in Nat : PendingRow(delay, fresh) \in Row
         /\ CompleteRow(r) \in Row
         /\ RecoverRow(r) \in Row
         /\ CancelRow(r) \in Row
         /\ ResurrectRow(r) \in Row
         /\ TickRow(r) \in Row
<1>s. /\ "pending" \in Status /\ "running" \in Status /\ "completed" \in Status
      /\ "failed" \in Status /\ "cancelled" \in Status
      /\ "none" \in LastError /\ "error" \in LastError
      /\ None \in Worker \cup {None} /\ 0 \in Int
  BY DEF Status, LastError
<1>1. NoRow \in Row /\ \A delay, fresh \in Nat : PendingRow(delay, fresh) \in Row
  BY DEF NoRow, PendingRow, Row, Status, LastError
<1>3. CompleteRow(r) \in Row
  BY <1>s, Row4 DEF CompleteRow
<1>4. RecoverRow(r) \in Row
  <2> DEFINE er == IF r.lastError = "none" THEN "error" ELSE r.lastError
  <2>1. er \in LastError
    BY DEF Row, LastError
  <2>2. [r EXCEPT !.status = "pending", !.lockedBy = None, !.lock = 0, !.lastError = er] \in Row
    <3> HIDE DEF er
    <3> QED BY <1>s, <2>1, Row4
  <2> QED
    BY <2>2 DEF RecoverRow
<1>5. CancelRow(r) \in Row
  BY <1>s, Row3 DEF CancelRow
<1>6. ResurrectRow(r) \in Row
  BY <1>s, RowResurrected DEF ResurrectRow
<1>7. TickRow(r) \in Row
  BY TickRowType
<1> QED
  BY <1>1, <1>3, <1>4, <1>5, <1>6, <1>7

\* ClaimRow yields a row that its worker holds.
LEMMA ClaimRowType ==
  ASSUME NEW r \in Row, NEW w \in Worker
  PROVE  ClaimRow(w, r) \in Row
<1>1. r.attempts + 1 \in Nat /\ "running" \in Status /\ LockTTL \in Int
  BY DEF Row, Status
<1> QED
  BY <1>1, RowClaimed DEF ClaimRow

\* FailRow yields a row on both of its branches.
LEMMA FailRowType ==
  ASSUME NEW r \in Row, NEW w \in Worker, worker[w] \in Work, worker[w].outcome # "ok"
  PROVE  FailRow(w, r) \in Row
<1> DEFINE du == nextBackoff(worker[w].attempts)
           er == worker[w].outcome
<1>1. du \in Int
  BY BackoffRange DEF Work
<1>2. er \in LastError
  BY DEF Work, Outcome, LastError
<1>3. /\ "pending" \in Status /\ "failed" \in Status /\ None \in Worker \cup {None}
      /\ 0 \in Int /\ RetryAfter \in Nat
  BY DEF Status
<1>4. /\ [r EXCEPT !.status = "failed", !.lockedBy = None, !.lock = 0, !.lastError = er,
                   !.cool = RetryAfter] \in Row
      /\ [r EXCEPT !.status = "pending", !.lockedBy = None, !.lock = 0, !.lastError = er,
                   !.due = du] \in Row
  <2> HIDE DEF du, er
  <2> QED BY <1>1, <1>2, <1>3, RowFailed, RowRetried
<1> QED
  BY <1>4 DEF FailRow

\* The sweeper puts a row back in the queue.
LEMMA ResurrectFields ==
  ASSUME NEW r \in Row
  PROVE  ResurrectRow(r).status = "pending"
<1>1. DOMAIN r = {"status", "attempts", "due", "lockedBy", "lock", "lastError", "cool", "fresh"}
  BY DEF Row
<1> QED
  BY <1>1 DEF ResurrectRow

\* Fail settles a row whose attempts are used up, and queues any other again.
LEMMA FailFields ==
  ASSUME NEW r \in Row, NEW w \in Worker
  PROVE  FailRow(w, r).status = IF Exhausted(w) THEN "failed" ELSE "pending"
<1>1. DOMAIN r = {"status", "attempts", "due", "lockedBy", "lock", "lastError", "cool", "fresh"}
  BY DEF Row
<1>2. CASE Exhausted(w)
  BY <1>1, <1>2 DEF FailRow
<1>3. CASE ~Exhausted(w)
  BY <1>1, <1>3 DEF FailRow
<1> QED
  BY <1>2, <1>3

\* The clock changes nothing of a row but its times.
LEMMA TickFields ==
  ASSUME NEW r \in Row
  PROVE  /\ TickRow(r).attempts = r.attempts
         /\ TickRow(r).status = r.status
         /\ TickRow(r).lockedBy = r.lockedBy
         /\ TickRow(r).lastError = r.lastError
         /\ r.status = "running" /\ r.lock >= 0 => TickRow(r).lock = r.lock - 1
<1> DEFINE du == IF r.status \in Open /\ r.due > -Overdue THEN r.due - 1 ELSE r.due
           lk == IF r.status = "running" /\ r.lock >= 0 THEN r.lock - 1 ELSE r.lock
           co == Down(r.cool)
           fr == Down(r.fresh)
           t == [r EXCEPT !.due = du, !.lock = lk, !.cool = co, !.fresh = fr]
<1>1. DOMAIN r = {"status", "attempts", "due", "lockedBy", "lock", "lastError", "cool", "fresh"}
  BY DEF Row
<1>2. /\ t.attempts = r.attempts /\ t.status = r.status /\ t.lockedBy = r.lockedBy
      /\ t.lastError = r.lastError /\ t.lock = lk
  <2> HIDE DEF du, lk, co, fr
  <2> QED BY <1>1
<1> QED
  BY <1>2 DEF TickRow

\* An idle worker is a worker state.
LEMMA IdleIsWork == Idle \in Work
  BY DEF Idle, Work, Outcome

\* What Claim, RunHandler and Tick make of a worker is a worker state.
LEMMA WorkOps ==
  ASSUME NEW k \in Work, NEW o \in Outcome
  PROVE  /\ [k EXCEPT !.pc = "record", !.outcome = o] \in Work
         /\ [k EXCEPT !.left = k.left - 1] \in Work
<1> DEFINE k1 == [k EXCEPT !.pc = "record"]
           k2 == [k1 EXCEPT !.outcome = o]
<1>1. k1 \in Work
  BY DEF Work
<1>2. k2 \in Work
  <2> HIDE DEF k1
  <2> QED BY <1>1 DEF Work
<1>3. [k EXCEPT !.left = k.left - 1] \in Work
  BY DEF Work
<1> QED
  BY <1>2, <1>3

\* Type correctness of one step.
LEMMA TypeStep == TypeOK /\ [Next]_vars => TypeOK'
<1> SUFFICES ASSUME TypeOK, [Next]_vars
             PROVE  TypeOK'
  OBVIOUS
<1>0. CASE UNCHANGED vars
  BY <1>0 DEF TypeOK, vars, history, Busy
<1>1. ASSUME NEW j \in Job, NEW delay \in Delays, Enqueue(j, delay)
      PROVE  TypeOK'
  <2>1. PendingRow(delay, FreshFor) \in Row
    BY DEF PendingRow, Row, Status, LastError
  <2> QED
    BY <1>1, <2>1 DEF Enqueue, TypeOK, Busy, history
<1>2. ASSUME NEW w \in Worker, NEW j \in Job, Claim(w, j)
      PROVE  TypeOK'
  <2>1. ClaimRow(w, row[j]) \in Row
    BY ClaimRowType DEF TypeOK
  <2>2. [pc |-> "running", job |-> j, attempts |-> row[j].attempts + 1,
         outcome |-> "ok", left |-> LockTTL] \in Work
    BY DEF TypeOK, Row, Work, Outcome
  <2> QED
    BY <1>2, <2>1, <2>2 DEF Claim, TypeOK, Busy, history
<1>3. ASSUME NEW w \in Worker, NEW o \in Outcome, RunHandler(w, o)
      PROVE  TypeOK'
  <2>1. [worker[w] EXCEPT !.pc = "record", !.outcome = o] \in Work
    BY WorkOps DEF TypeOK
  <2>2. worker[w].job \in Job
    BY <1>3 DEF RunHandler, TypeOK, Busy
  <2>3. worker' \in [Worker -> Work]
    BY <1>3, <2>1 DEF RunHandler, TypeOK
  <2>4. \A v \in Worker : worker'[v].job = worker[v].job /\ (Busy(v)' => Busy(v))
    BY <1>3 DEF RunHandler, TypeOK, Busy, Work
  <2> QED
    BY <1>3, <2>2, <2>3, <2>4 DEF RunHandler, TypeOK, Busy
<1>4. ASSUME NEW w \in Worker, Complete(w)
      PROVE  TypeOK'
  <2>1. worker[w].job \in Job
    BY <1>4 DEF Complete, TypeOK, Busy
  <2>2. CompleteRow(row[worker[w].job]) \in Row
    BY <2>1, RowOps DEF TypeOK
  <2> QED
    BY <1>4, <2>1, <2>2, IdleIsWork DEF Complete, TypeOK, Busy, history, Idle
<1>5. ASSUME NEW w \in Worker, Fail(w)
      PROVE  TypeOK'
  <2>1. worker[w].job \in Job
    BY <1>5 DEF Fail, TypeOK, Busy
  <2>2. FailRow(w, row[worker[w].job]) \in Row
    BY <1>5, <2>1, FailRowType DEF TypeOK, Fail
  <2> QED
    BY <1>5, <2>1, <2>2, IdleIsWork DEF Fail, TypeOK, Busy, history, Idle
<1>6. ASSUME NEW w \in Worker, Abandon(w)
      PROVE  TypeOK'
  BY <1>6, IdleIsWork DEF Abandon, TypeOK, Busy, history, Idle
<1>7. CASE Recover
  <2>1. \A j \in Job : RecoverRow(row[j]) \in Row
    BY RowOps DEF TypeOK
  <2> QED
    BY <1>7, <2>1 DEF Recover, TypeOK, Busy
<1>8. ASSUME NEW j \in Job, RunNow(j)
      PROVE  TypeOK'
  BY <1>8 DEF RunNow, TypeOK, Busy, history, Row
<1>9. ASSUME NEW j \in Job, Reset(j)
      PROVE  TypeOK'
  <2>1. PendingRow(0, row[j].fresh) \in Row
    BY DEF PendingRow, TypeOK, Row, Status, LastError
  <2> QED
    BY <1>9, <2>1 DEF Reset, TypeOK, Busy
<1>10. ASSUME NEW j \in Job, Cancel(j)
       PROVE  TypeOK'
  <2>1. CancelRow(row[j]) \in Row
    BY RowOps DEF TypeOK
  <2> QED
    BY <1>10, <2>1 DEF Cancel, TypeOK, Busy, history
<1>11. CASE RetryFailedWelcome
  <2>1. \A j \in Job : ResurrectRow(row[j]) \in Row
    BY RowOps DEF TypeOK
  <2> QED
    BY <1>11, <2>1 DEF RetryFailedWelcome, TypeOK, Busy
<1>12. CASE Tick
  <2>1. \A j \in Job : TickRow(row[j]) \in Row
    BY TickRowType DEF TypeOK
  <2>2. \A w \in Worker : [worker[w] EXCEPT !.left = @ - 1] \in Work
    BY DEF TypeOK, Work
  <2>3. worker' \in [Worker -> Work]
    BY <1>12, <2>2 DEF Tick, TypeOK
  <2>4. \A w \in Worker : worker'[w].job = worker[w].job /\ worker'[w].pc = worker[w].pc
    BY <1>12 DEF Tick, TypeOK, Work
  <2>5. lapsed' \subseteq Job
    BY <1>12 DEF Tick, TypeOK, Lapsing
  <2> QED
    BY <1>12, <2>1, <2>3, <2>4, <2>5 DEF Tick, TypeOK, Busy
<1> QED
  BY <1>0, <1>1, <1>2, <1>3, <1>4, <1>5, <1>6, <1>7, <1>8, <1>9, <1>10, <1>11, <1>12
  DEF Next, WorkerStep

\* The queue's state is well-formed in every reachable state: in particular a
\* busy worker always holds a real row, although Claim may return none.
THEOREM TypeCorrect == Spec => []TypeOK
<1>1. Init => TypeOK
  BY IdleIsWork DEF Init, TypeOK, Busy, Idle, NoRow, Row, Status, LastError
<1> QED
  BY <1>1, TypeStep, PTL DEF Spec
-----------------------------------------------------------------------------
(* Exclusivity of claims, and failures that the row accounts for *)

\* The inductive step: every action preserves each conjunct of IInv.
LEMMA InvStep == IInv /\ [Next]_vars => IInv'
<1> SUFFICES ASSUME IInv, [Next]_vars
             PROVE  IInv'
  OBVIOUS
<1>t. TypeOK /\ TypeOK'
  BY TypeStep DEF IInv
<1> USE DEF Holds, Busy
<1>0. CASE UNCHANGED vars
  BY <1>0, <1>t DEF vars, history, IInv, HolderOwns, ExclusiveClaim, SnapshotNotAhead, HeldWasEnqueued, SuccessIsReal, FailedIsEarned
<1>1. ASSUME NEW j \in Job, NEW delay \in Delays, Enqueue(j, delay)
      PROVE  IInv'
  <2>1. HolderOwns'
    BY <1>1, <1>t DEF Enqueue, PendingRow, history, TypeOK, Row, Work, IInv, HolderOwns, ExclusiveClaim
  <2>2. ExclusiveClaim'
    BY <1>1, <1>t DEF Enqueue, PendingRow, history, TypeOK, Row, Work, IInv, ExclusiveClaim, HolderOwns
  <2>3. SnapshotNotAhead'
    BY <1>1, <1>t DEF Enqueue, PendingRow, history, TypeOK, Row, Work, IInv, SnapshotNotAhead, HeldWasEnqueued
  <2>4. HeldWasEnqueued'
    BY <1>1, <1>t DEF Enqueue, PendingRow, history, TypeOK, Row, Work, IInv, HeldWasEnqueued
  <2>5. SuccessIsReal'
    BY <1>1, <1>t DEF Enqueue, PendingRow, history, TypeOK, Row, Work, IInv, SuccessIsReal
  <2>6. FailedIsEarned'
    BY <1>1, <1>t DEF Enqueue, PendingRow, history, TypeOK, Row, Work, IInv, FailedIsEarned, SnapshotNotAhead
  <2> QED
    BY <1>t, <2>1, <2>2, <2>3, <2>4, <2>5, <2>6 DEF IInv
<1>2. ASSUME NEW w \in Worker, NEW j \in Job, Claim(w, j)
      PROVE  IInv'
  <2>1. HolderOwns'
    BY <1>2, <1>t DEF Claim, ClaimRow, Claimable, history, TypeOK, Row, Work, IInv, HolderOwns, ExclusiveClaim
  <2>2. ExclusiveClaim'
    BY <1>2, <1>t DEF Claim, ClaimRow, Claimable, history, TypeOK, Row, Work, IInv, ExclusiveClaim, HolderOwns
  <2>3. SnapshotNotAhead'
    BY <1>2, <1>t DEF Claim, ClaimRow, Claimable, history, TypeOK, Row, Work, IInv, SnapshotNotAhead, HeldWasEnqueued
  <2>4. HeldWasEnqueued'
    BY <1>2, <1>t DEF Claim, ClaimRow, Claimable, history, TypeOK, Row, Work, IInv, HeldWasEnqueued
  <2>5. SuccessIsReal'
    BY <1>2, <1>t DEF Claim, ClaimRow, Claimable, history, TypeOK, Row, Work, IInv, SuccessIsReal
  <2>6. FailedIsEarned'
    BY <1>2, <1>t DEF Claim, ClaimRow, Claimable, history, TypeOK, Row, Work, IInv, FailedIsEarned, SnapshotNotAhead
  <2> QED
    BY <1>t, <2>1, <2>2, <2>3, <2>4, <2>5, <2>6 DEF IInv
<1>3. ASSUME NEW w \in Worker, NEW o \in Outcome, RunHandler(w, o)
      PROVE  IInv'
  <2>1. HolderOwns'
    BY <1>3, <1>t DEF RunHandler, history, TypeOK, Row, Work, IInv, HolderOwns, ExclusiveClaim
  <2>2. ExclusiveClaim'
    BY <1>3, <1>t DEF RunHandler, history, TypeOK, Row, Work, IInv, ExclusiveClaim, HolderOwns
  <2>3. SnapshotNotAhead'
    BY <1>3, <1>t DEF RunHandler, history, TypeOK, Row, Work, IInv, SnapshotNotAhead, HeldWasEnqueued
  <2>4. HeldWasEnqueued'
    BY <1>3, <1>t DEF RunHandler, history, TypeOK, Row, Work, IInv, HeldWasEnqueued
  <2>5. SuccessIsReal'
    BY <1>3, <1>t DEF RunHandler, history, TypeOK, Row, Work, IInv, SuccessIsReal
  <2>6. FailedIsEarned'
    BY <1>3, <1>t DEF RunHandler, history, TypeOK, Row, Work, IInv, FailedIsEarned, SnapshotNotAhead
  <2> QED
    BY <1>t, <2>1, <2>2, <2>3, <2>4, <2>5, <2>6 DEF IInv
<1>4. ASSUME NEW w \in Worker, Complete(w)
      PROVE  IInv'
  <2>1. HolderOwns'
    BY <1>4, <1>t DEF Complete, CompleteRow, Matches, Idle, history, TypeOK, Row, Work, IInv, HolderOwns, ExclusiveClaim
  <2>2. ExclusiveClaim'
    BY <1>4, <1>t DEF Complete, CompleteRow, Matches, Idle, history, TypeOK, Row, Work, IInv, ExclusiveClaim, HolderOwns
  <2>3. SnapshotNotAhead'
    BY <1>4, <1>t DEF Complete, CompleteRow, Matches, Idle, history, TypeOK, Row, Work, IInv, SnapshotNotAhead, HeldWasEnqueued
  <2>4. HeldWasEnqueued'
    BY <1>4, <1>t DEF Complete, CompleteRow, Matches, Idle, history, TypeOK, Row, Work, IInv, HeldWasEnqueued
  <2>5. SuccessIsReal'
    BY <1>4, <1>t DEF Complete, CompleteRow, Matches, Idle, history, TypeOK, Row, Work, IInv, SuccessIsReal
  <2>6. FailedIsEarned'
    BY <1>4, <1>t DEF Complete, CompleteRow, Matches, Idle, history, TypeOK, Row, Work, IInv, FailedIsEarned, SnapshotNotAhead
  <2> QED
    BY <1>t, <2>1, <2>2, <2>3, <2>4, <2>5, <2>6 DEF IInv
<1>5. ASSUME NEW w \in Worker, Fail(w)
      PROVE  IInv'
  <2>1. HolderOwns'
    BY <1>5, <1>t DEF Fail, FailRow, Matches, Exhausted, Idle, history, TypeOK, Row, Work, IInv, HolderOwns, ExclusiveClaim
  <2>2. ExclusiveClaim'
    BY <1>5, <1>t DEF Fail, FailRow, Matches, Exhausted, Idle, history, TypeOK, Row, Work, IInv, ExclusiveClaim, HolderOwns
  <2>3. SnapshotNotAhead'
    BY <1>5, <1>t DEF Fail, FailRow, Matches, Exhausted, Idle, history, TypeOK, Row, Work, IInv, SnapshotNotAhead, HeldWasEnqueued
  <2>4. HeldWasEnqueued'
    BY <1>5, <1>t DEF Fail, FailRow, Matches, Exhausted, Idle, history, TypeOK, Row, Work, IInv, HeldWasEnqueued
  <2>5. SuccessIsReal'
    BY <1>5, <1>t DEF Fail, FailRow, Matches, Exhausted, Idle, history, TypeOK, Row, Work, IInv, SuccessIsReal
  <2>6. FailedIsEarned'
    BY <1>5, <1>t DEF Fail, FailRow, Matches, Exhausted, Idle, history, TypeOK, Row, Work, IInv, FailedIsEarned, SnapshotNotAhead
  <2> QED
    BY <1>t, <2>1, <2>2, <2>3, <2>4, <2>5, <2>6 DEF IInv
<1>6. ASSUME NEW w \in Worker, Abandon(w)
      PROVE  IInv'
  <2>1. HolderOwns'
    BY <1>6, <1>t DEF Abandon, Idle, history, TypeOK, Row, Work, IInv, HolderOwns, ExclusiveClaim
  <2>2. ExclusiveClaim'
    BY <1>6, <1>t DEF Abandon, Idle, history, TypeOK, Row, Work, IInv, ExclusiveClaim, HolderOwns
  <2>3. SnapshotNotAhead'
    BY <1>6, <1>t DEF Abandon, Idle, history, TypeOK, Row, Work, IInv, SnapshotNotAhead, HeldWasEnqueued
  <2>4. HeldWasEnqueued'
    BY <1>6, <1>t DEF Abandon, Idle, history, TypeOK, Row, Work, IInv, HeldWasEnqueued
  <2>5. SuccessIsReal'
    BY <1>6, <1>t DEF Abandon, Idle, history, TypeOK, Row, Work, IInv, SuccessIsReal
  <2>6. FailedIsEarned'
    BY <1>6, <1>t DEF Abandon, Idle, history, TypeOK, Row, Work, IInv, FailedIsEarned, SnapshotNotAhead
  <2> QED
    BY <1>t, <2>1, <2>2, <2>3, <2>4, <2>5, <2>6 DEF IInv
<1>7. CASE Recover
  <2>a. UNCHANGED <<worker, disturbed, lapsed, succeeded>>
    BY <1>7 DEF Recover
  <2>b. \A j \in Job : /\ row'[j].attempts = row[j].attempts
                       /\ \/ row'[j] = row[j]
                          \/ /\ row[j].status = "running" /\ row[j].lock < 0
                             /\ row'[j].status = "pending"
    BY <1>7, <1>t DEF Recover, RecoverRow, Stuck, TypeOK, Row
  <2>c. \A j \in Job, w \in Worker : row[j].lock \in Int /\ worker[w].left \in Int
    BY <1>t DEF TypeOK, Row, Work
  <2>1. HolderOwns'
    BY <2>a, <2>b, <2>c, <1>t DEF TypeOK, IInv, HolderOwns, ExclusiveClaim
  <2>2. ExclusiveClaim'
    BY <2>a, <2>b, <1>t DEF TypeOK, IInv, ExclusiveClaim, HolderOwns
  <2>3. SnapshotNotAhead'
    BY <2>a, <2>b, <1>t DEF TypeOK, IInv, SnapshotNotAhead, HeldWasEnqueued
  <2>4. HeldWasEnqueued'
    BY <2>a, <2>b, <1>t DEF TypeOK, IInv, HeldWasEnqueued
  <2>5. SuccessIsReal'
    BY <2>a, <2>b, <1>t DEF TypeOK, IInv, SuccessIsReal
  <2>6. FailedIsEarned'
    BY <2>a, <2>b, <1>t DEF TypeOK, IInv, FailedIsEarned, SnapshotNotAhead
  <2> QED
    BY <1>t, <2>1, <2>2, <2>3, <2>4, <2>5, <2>6 DEF IInv
<1>8. ASSUME NEW j \in Job, RunNow(j)
      PROVE  IInv'
  <2>1. HolderOwns'
    BY <1>8, <1>t DEF RunNow, history, TypeOK, Row, Work, IInv, HolderOwns, ExclusiveClaim
  <2>2. ExclusiveClaim'
    BY <1>8, <1>t DEF RunNow, history, TypeOK, Row, Work, IInv, ExclusiveClaim, HolderOwns
  <2>3. SnapshotNotAhead'
    BY <1>8, <1>t DEF RunNow, history, TypeOK, Row, Work, IInv, SnapshotNotAhead, HeldWasEnqueued
  <2>4. HeldWasEnqueued'
    BY <1>8, <1>t DEF RunNow, history, TypeOK, Row, Work, IInv, HeldWasEnqueued
  <2>5. SuccessIsReal'
    BY <1>8, <1>t DEF RunNow, history, TypeOK, Row, Work, IInv, SuccessIsReal
  <2>6. FailedIsEarned'
    BY <1>8, <1>t DEF RunNow, history, TypeOK, Row, Work, IInv, FailedIsEarned, SnapshotNotAhead
  <2> QED
    BY <1>t, <2>1, <2>2, <2>3, <2>4, <2>5, <2>6 DEF IInv
<1>9. ASSUME NEW j \in Job, Reset(j)
      PROVE  IInv'
  <2>1. HolderOwns'
    BY <1>9, <1>t DEF Reset, PendingRow, history, TypeOK, Row, Work, IInv, HolderOwns, ExclusiveClaim
  <2>2. ExclusiveClaim'
    BY <1>9, <1>t DEF Reset, PendingRow, history, TypeOK, Row, Work, IInv, ExclusiveClaim, HolderOwns
  <2>3. SnapshotNotAhead'
    BY <1>9, <1>t DEF Reset, PendingRow, history, TypeOK, Row, Work, IInv, SnapshotNotAhead, HeldWasEnqueued
  <2>4. HeldWasEnqueued'
    BY <1>9, <1>t DEF Reset, PendingRow, history, TypeOK, Row, Work, IInv, HeldWasEnqueued
  <2>5. SuccessIsReal'
    BY <1>9, <1>t DEF Reset, PendingRow, history, TypeOK, Row, Work, IInv, SuccessIsReal
  <2>6. FailedIsEarned'
    BY <1>9, <1>t DEF Reset, PendingRow, history, TypeOK, Row, Work, IInv, FailedIsEarned, SnapshotNotAhead
  <2> QED
    BY <1>t, <2>1, <2>2, <2>3, <2>4, <2>5, <2>6 DEF IInv
<1>10. ASSUME NEW j \in Job, Cancel(j)
      PROVE  IInv'
  <2>1. HolderOwns'
    BY <1>10, <1>t DEF Cancel, CancelRow, Open, history, TypeOK, Row, Work, IInv, HolderOwns, ExclusiveClaim
  <2>2. ExclusiveClaim'
    BY <1>10, <1>t DEF Cancel, CancelRow, Open, history, TypeOK, Row, Work, IInv, ExclusiveClaim, HolderOwns
  <2>3. SnapshotNotAhead'
    BY <1>10, <1>t DEF Cancel, CancelRow, Open, history, TypeOK, Row, Work, IInv, SnapshotNotAhead, HeldWasEnqueued
  <2>4. HeldWasEnqueued'
    BY <1>10, <1>t DEF Cancel, CancelRow, Open, history, TypeOK, Row, Work, IInv, HeldWasEnqueued
  <2>5. SuccessIsReal'
    BY <1>10, <1>t DEF Cancel, CancelRow, Open, history, TypeOK, Row, Work, IInv, SuccessIsReal
  <2>6. FailedIsEarned'
    BY <1>10, <1>t DEF Cancel, CancelRow, Open, history, TypeOK, Row, Work, IInv, FailedIsEarned, SnapshotNotAhead
  <2> QED
    BY <1>t, <2>1, <2>2, <2>3, <2>4, <2>5, <2>6 DEF IInv
<1>11. CASE RetryFailedWelcome
  <2>a. UNCHANGED <<worker, disturbed, lapsed, succeeded>>
    BY <1>11 DEF RetryFailedWelcome
  <2>b. \A j \in Job : /\ row'[j].attempts = row[j].attempts
                       /\ \/ row'[j] = row[j]
                          \/ row[j].status = "failed" /\ row'[j].status = "pending"
    BY <1>11, <1>t DEF RetryFailedWelcome, ResurrectRow, Resurrectable, TypeOK, Row
  <2>1. HolderOwns'
    BY <2>a, <2>b, <1>t DEF TypeOK, IInv, HolderOwns, ExclusiveClaim
  <2>2. ExclusiveClaim'
    BY <2>a, <2>b, <1>t DEF TypeOK, IInv, ExclusiveClaim, HolderOwns
  <2>3. SnapshotNotAhead'
    BY <2>a, <2>b, <1>t DEF TypeOK, IInv, SnapshotNotAhead, HeldWasEnqueued
  <2>4. HeldWasEnqueued'
    BY <2>a, <2>b, <1>t DEF TypeOK, IInv, HeldWasEnqueued
  <2>5. SuccessIsReal'
    BY <2>a, <2>b, <1>t DEF TypeOK, IInv, SuccessIsReal
  <2>6. FailedIsEarned'
    BY <2>a, <2>b, <1>t DEF TypeOK, IInv, FailedIsEarned, SnapshotNotAhead
  <2> QED
    BY <1>t, <2>1, <2>2, <2>3, <2>4, <2>5, <2>6 DEF IInv
<1>12. CASE Tick
  <2>a. UNCHANGED <<disturbed, succeeded>>
    BY <1>12 DEF Tick
  <2>b. \A j \in Job : /\ row'[j].attempts = row[j].attempts
                       /\ row'[j].status = row[j].status
                       /\ row'[j].lockedBy = row[j].lockedBy
                       /\ row'[j].lastError = row[j].lastError
                       /\ row[j].status = "running" /\ row[j].lock >= 0
                            => row'[j].lock = row[j].lock - 1
    BY <1>12, <1>t, TickFields DEF Tick, TypeOK
  <2>c. \A w \in Worker : /\ worker'[w].pc = worker[w].pc
                          /\ worker'[w].job = worker[w].job
                          /\ worker'[w].attempts = worker[w].attempts
                          /\ worker'[w].outcome = worker[w].outcome
                          /\ worker[w].pc # "idle" /\ worker[w].left >= 0
                               => worker'[w].left = worker[w].left - 1
    BY <1>12, <1>t DEF Tick, TypeOK, Work
  <2>d. /\ lapsed \subseteq lapsed'
        /\ \A w \in Worker : worker[w].pc # "idle" /\ worker[w].left = 0
                               => worker[w].job \in lapsed'
    BY <1>12 DEF Tick, Lapsing
  <2>e. \A j \in Job, w \in Worker : row[j].lock \in Int /\ worker[w].left \in Int
    BY <1>t DEF TypeOK, Row, Work
  <2>f. \A w \in Worker : worker[w].pc # "idle" => worker[w].job \in Job
    BY <1>t DEF TypeOK
  <2>1. HolderOwns'
    BY <2>a, <2>b, <2>c, <2>d, <2>e, <2>f DEF IInv, HolderOwns, ExclusiveClaim
  <2>2. ExclusiveClaim'
    BY <2>a, <2>b, <2>c, <2>d, <2>e, <2>f DEF IInv, ExclusiveClaim, HolderOwns
  <2>3. SnapshotNotAhead'
    BY <2>a, <2>b, <2>c, <2>d, <2>e, <2>f DEF IInv, SnapshotNotAhead, HeldWasEnqueued
  <2>4. HeldWasEnqueued'
    BY <2>a, <2>b, <2>c, <2>d, <2>e, <2>f DEF IInv, HeldWasEnqueued
  <2>5. SuccessIsReal'
    BY <2>a, <2>b, <2>c, <2>d, <2>e, <2>f DEF IInv, SuccessIsReal
  <2>6. FailedIsEarned'
    BY <2>a, <2>b, <2>c, <2>d, <2>e, <2>f DEF IInv, FailedIsEarned, SnapshotNotAhead
  <2> QED
    BY <1>t, <2>1, <2>2, <2>3, <2>4, <2>5, <2>6 DEF IInv
<1> QED
  BY <1>0, <1>1, <1>2, <1>3, <1>4, <1>5, <1>6, <1>7, <1>8, <1>9, <1>10, <1>11, <1>12
  DEF Next, WorkerStep

\* IInv holds throughout.
LEMMA InvHolds == Spec => []IInv
<1>1. Init => TypeOK
  BY IdleIsWork DEF Init, TypeOK, Busy, Idle, NoRow, Row, Status, LastError
<1>2. Init => IInv
  BY <1>1 DEF Init, IInv, Idle, NoRow, Busy, Holds, HolderOwns, ExclusiveClaim,
              SnapshotNotAhead, HeldWasEnqueued, SuccessIsReal, FailedIsEarned
<1> QED
  BY <1>2, InvStep, PTL DEF Spec

\* Claim exclusivity for any number of workers: with no lapsed lock and no reset
\* under a running worker, at most one worker is at work on a job.
THEOREM ClaimsAreExclusive == Spec => []ExclusiveClaim
<1>1. IInv => ExclusiveClaim
  BY DEF IInv
<1> QED
  BY <1>1, InvHolds, PTL

\* A job is failed only with its budget used up or for an error no retry helps,
\* however late the Fail that recorded it, lapsed locks included.
THEOREM FailuresAreEarned == Spec => []FailedIsEarned
<1>1. IInv => FailedIsEarned
  BY DEF IInv
<1> QED
  BY <1>1, InvHolds, PTL
-----------------------------------------------------------------------------
(* The retry budget *)

\* The attempts that workers are still making on j, and those within the budget
\* that are over.
Snapshots(j) == {worker[w].attempts : w \in {w \in Worker : Holds(w, j)}}
Ended(j) == {k \in 1..(MaxAttempts - 1) : k <= row[j].attempts /\ k \notin Snapshots(j)}
Queued(j) == IF row[j].status = "pending" THEN 1 ELSE 0

\* Each claim of a row uses up one queueing of it.  The row is queued once when
\* it is enqueued or reset, once per sweep that finds it, and otherwise by a Fail
\* that returns it to pending, which ends an attempt below the budget for good.
Ledger ==
  \A j \in Job \ disturbed :
    row[j].attempts + Queued(j) <= 1 + revived[j] + Cardinality(Ended(j))

\* No two workers are at the same attempt of a job.
DistinctAttempts ==
  /\ \A w \in Worker : Busy(w) => worker[w].attempts > 0
  /\ \A j \in Job \ disturbed : \A v, w \in Worker :
       Holds(v, j) /\ Holds(w, j) /\ worker[v].attempts = worker[w].attempts => v = w

\* The attempts that are over are finitely many, fewer than the budget.
LEMMA EndedSize ==
  ASSUME NEW S, S \subseteq 1..(MaxAttempts - 1)
  PROVE  IsFiniteSet(S) /\ Cardinality(S) \in Nat /\ Cardinality(S) <= MaxAttempts - 1
<1>1. IsFiniteSet(1..(MaxAttempts - 1)) /\ Cardinality(1..(MaxAttempts - 1)) = MaxAttempts - 1
  BY FS_Interval
<1>2. IsFiniteSet(S) /\ Cardinality(S) <= MaxAttempts - 1
  BY <1>1, FS_Subset
<1> QED
  BY <1>2, FS_CardinalityType

\* The ledger of one job, for a step that neither claims nor fails it: nobody is
\* at work on it who was not before, and the row's attempts stay.
LEMMA LedgerQuiet ==
  ASSUME TypeOK, TypeOK', NEW j \in Job,
         row[j].attempts + Queued(j) <= 1 + revived[j] + Cardinality(Ended(j)),
         row'[j].attempts = row[j].attempts,
         Snapshots(j)' \subseteq Snapshots(j),
         \/ Queued(j)' <= Queued(j) /\ revived'[j] = revived[j]
         \/ revived'[j] = revived[j] + 1
  PROVE  row'[j].attempts + Queued(j)' <= 1 + revived'[j] + Cardinality(Ended(j)')
<1>1. Ended(j) \subseteq Ended(j)' /\ Ended(j)' \subseteq 1..(MaxAttempts - 1)
      /\ Ended(j) \subseteq 1..(MaxAttempts - 1)
  BY DEF Ended
<1>2. Cardinality(Ended(j)) <= Cardinality(Ended(j)')
  BY <1>1, EndedSize, FS_Subset
<1>3. Cardinality(Ended(j)) \in Nat /\ Cardinality(Ended(j)') \in Nat
  BY <1>1, EndedSize
<1>4. row[j].attempts \in Nat /\ revived[j] \in Nat /\ revived'[j] \in Nat
  BY DEF TypeOK, Row
<1>5. Queued(j) \in {0, 1} /\ Queued(j)' \in {0, 1}
  BY DEF Queued
<1> HIDE DEF Ended, Queued
<1> QED
  BY <1>2, <1>3, <1>4, <1>5

\* A claim moves one queueing into the attempts.
LEMMA LedgerClaim ==
  ASSUME TypeOK, TypeOK', NEW j \in Job,
         row[j].attempts + Queued(j) <= 1 + revived[j] + Cardinality(Ended(j)),
         row[j].status = "pending", row'[j].status = "running",
         row'[j].attempts = row[j].attempts + 1,
         Snapshots(j)' = Snapshots(j) \cup {row[j].attempts + 1},
         revived'[j] = revived[j]
  PROVE  row'[j].attempts + Queued(j)' <= 1 + revived'[j] + Cardinality(Ended(j)')
<1>4. row[j].attempts \in Nat /\ revived[j] \in Nat
  BY DEF TypeOK, Row
<1>1. Ended(j) \subseteq Ended(j)' /\ Ended(j)' \subseteq 1..(MaxAttempts - 1)
      /\ Ended(j) \subseteq 1..(MaxAttempts - 1)
  BY <1>4 DEF Ended
<1>2. Cardinality(Ended(j)) <= Cardinality(Ended(j)')
  BY <1>1, EndedSize, FS_Subset
<1>3. Cardinality(Ended(j)) \in Nat /\ Cardinality(Ended(j)') \in Nat
  BY <1>1, EndedSize
<1>5. Queued(j) = 1 /\ Queued(j)' = 0
  BY DEF Queued
<1> HIDE DEF Ended, Queued
<1> QED
  BY <1>2, <1>3, <1>4, <1>5

\* A Fail that re-queues the row ends an attempt below the budget.
LEMMA LedgerFail ==
  ASSUME TypeOK, TypeOK', NEW j \in Job,
         row[j].attempts + Queued(j) <= 1 + revived[j] + Cardinality(Ended(j)),
         NEW k \in 1..(MaxAttempts - 1), k <= row[j].attempts,
         row[j].status = "running", row'[j].attempts = row[j].attempts,
         k \in Snapshots(j), Snapshots(j)' \subseteq Snapshots(j) \ {k},
         revived'[j] = revived[j]
  PROVE  row'[j].attempts + Queued(j)' <= 1 + revived'[j] + Cardinality(Ended(j)')
<1>1. /\ Ended(j) \cup {k} \subseteq Ended(j)' /\ k \notin Ended(j)
      /\ Ended(j)' \subseteq 1..(MaxAttempts - 1) /\ Ended(j) \subseteq 1..(MaxAttempts - 1)
  BY DEF Ended
<1>2. /\ IsFiniteSet(Ended(j)) /\ IsFiniteSet(Ended(j)')
      /\ Cardinality(Ended(j)) \in Nat /\ Cardinality(Ended(j)') \in Nat
  BY <1>1, EndedSize
<1>3. Cardinality(Ended(j) \cup {k}) = Cardinality(Ended(j)) + 1
  BY <1>1, <1>2, FS_AddElement
<1>4. Cardinality(Ended(j) \cup {k}) <= Cardinality(Ended(j)')
  BY <1>1, <1>2, FS_Subset
<1>5. row[j].attempts \in Nat /\ revived[j] \in Nat
  BY DEF TypeOK, Row
<1>6. Queued(j) = 0 /\ Queued(j)' \in {0, 1}
  BY DEF Queued
<1> HIDE DEF Ended, Queued
<1> QED
  BY <1>2, <1>3, <1>4, <1>5, <1>6

\* A row that starts afresh.
LEMMA LedgerFresh ==
  ASSUME TypeOK', NEW j \in Job, row'[j].attempts = 0
  PROVE  row'[j].attempts + Queued(j)' <= 1 + revived'[j] + Cardinality(Ended(j)')
<1>1. Ended(j)' \subseteq 1..(MaxAttempts - 1)
  BY DEF Ended
<1>2. Cardinality(Ended(j)') \in Nat
  BY <1>1, EndedSize
<1>3. revived'[j] \in Nat
  BY DEF TypeOK
<1>4. Queued(j)' \in {0, 1}
  BY DEF Queued
<1> HIDE DEF Ended, Queued
<1> QED
  BY <1>2, <1>3, <1>4

\* The steps keep attempts distinct and the ledger in balance.
LEMMA LedgerStep ==
  IInv /\ IInv' /\ DistinctAttempts /\ Ledger /\ [Next]_vars => DistinctAttempts' /\ Ledger'
<1> SUFFICES ASSUME IInv, IInv', DistinctAttempts, Ledger, [Next]_vars
             PROVE  DistinctAttempts' /\ Ledger'
  OBVIOUS
<1>t. TypeOK /\ TypeOK'
  BY DEF IInv
\* Nobody takes up an attempt.
<1>q. ASSUME \A w \in Worker : \/ worker'[w].pc = "idle"
                                \/ /\ worker'[w].job = worker[w].job
                                   /\ worker'[w].attempts = worker[w].attempts
                                   /\ Busy(w),
             disturbed \subseteq disturbed'
      PROVE  DistinctAttempts' /\ \A j \in Job : Snapshots(j)' \subseteq Snapshots(j)
  <2>1. \A w \in Worker, j \in Job : Holds(w, j)' => Holds(w, j) /\ worker'[w].attempts = worker[w].attempts
    BY <1>q DEF Holds, Busy
  <2>2. \A w \in Worker : Busy(w)' => Busy(w) /\ worker'[w].attempts = worker[w].attempts
    BY <1>q DEF Busy
  <2>3. DistinctAttempts'
    BY <1>q, <2>1, <2>2 DEF DistinctAttempts
  <2>4. \A j \in Job : Snapshots(j)' \subseteq Snapshots(j)
    BY <2>1 DEF Snapshots
  <2> QED
    BY <2>3, <2>4
\* And no row changes, but for statuses that take a row out of the queue.
<1>r. ASSUME \A w \in Worker : \/ worker'[w].pc = "idle"
                                \/ /\ worker'[w].job = worker[w].job
                                   /\ worker'[w].attempts = worker[w].attempts
                                   /\ Busy(w),
             disturbed \subseteq disturbed',
             \A j \in Job : \/ row'[j].attempts = 0
                            \/ /\ row'[j].attempts = row[j].attempts
                               /\ \/ /\ row'[j].status = "pending" => row[j].status = "pending"
                                     /\ revived'[j] = revived[j]
                                  \/ revived'[j] = revived[j] + 1
      PROVE  DistinctAttempts' /\ Ledger'
  <2>1. DistinctAttempts' /\ \A j \in Job : Snapshots(j)' \subseteq Snapshots(j)
    BY <1>q, <1>r
  <2>2. ASSUME NEW j \in Job \ disturbed'
        PROVE  row'[j].attempts + Queued(j)' <= 1 + revived'[j] + Cardinality(Ended(j)')
    <3>1. row[j].attempts + Queued(j) <= 1 + revived[j] + Cardinality(Ended(j))
      BY <1>r DEF Ledger
    <3>2. (row'[j].status = "pending" => row[j].status = "pending") => Queued(j)' <= Queued(j)
      BY DEF Queued
    <3> QED
      BY <1>r, <1>t, <2>1, <3>1, <3>2, LedgerQuiet, LedgerFresh
  <2> QED
    BY <2>1, <2>2 DEF Ledger
<1>w. worker \in [Worker -> Work] /\ row \in [Job -> Row] /\ Idle.pc = "idle"
  BY <1>t DEF TypeOK, Idle
<1>0. CASE UNCHANGED <<row, worker, disturbed, revived>>
  BY <1>0, <1>r DEF Busy
<1>1. ASSUME NEW j \in Job, NEW delay \in Delays, Enqueue(j, delay)
      PROVE  DistinctAttempts' /\ Ledger'
  <2>1. \A k \in Job : row'[k] = row[k] \/ row'[k].attempts = 0
    BY <1>1, <1>w DEF Enqueue, PendingRow
  <2> QED
    BY <1>1, <1>r, <2>1 DEF Enqueue, history, Busy
<1>2. ASSUME NEW w \in Worker, NEW j \in Job, Claim(w, j)
      PROVE  DistinctAttempts' /\ Ledger'
  <2>0. UNCHANGED <<disturbed, revived>>
    BY <1>2 DEF Claim, history
  <2>1. /\ ~Busy(w) /\ worker'[w].pc = "running" /\ worker'[w].job = j
        /\ worker'[w].attempts = row[j].attempts + 1
        /\ \A v \in Worker : v # w => worker'[v] = worker[v]
    BY <1>2, <1>w DEF Claim
  <2>2. /\ row[j].status = "pending" /\ \A k \in Job : k # j => row'[k] = row[k]
    BY <1>2, <1>w DEF Claim, Claimable
  <2>3. row'[j].status = "running" /\ row'[j].attempts = row[j].attempts + 1
    <3>1. row'[j] = ClaimRow(w, row[j]) /\ row[j] \in Row
      BY <1>2, <1>w DEF Claim
    <3> QED
      BY <3>1 DEF ClaimRow, Row
  <2>4. row[j].attempts \in Nat
    BY <1>w DEF Row
  <2>5. \A k \in Job, v \in Worker :
          /\ v # w => (Holds(v, k)' <=> Holds(v, k))
          /\ ~Holds(w, k) /\ (Holds(w, k)' <=> k = j)
    BY <2>1 DEF Holds, Busy
  <2>6. DistinctAttempts'
    <3>1. \A v \in Worker : Busy(v)' => worker'[v].attempts > 0
      BY <2>1, <2>4 DEF DistinctAttempts, Busy
    <3>2. ASSUME NEW k \in Job \ disturbed, NEW v \in Worker, v # w, Holds(v, k), k = j
          PROVE  worker[v].attempts # row[j].attempts + 1
      <4>1. worker[v].attempts <= row[j].attempts
        BY <3>2 DEF IInv, SnapshotNotAhead
      <4>2. worker[v].attempts \in Nat
        BY <1>w DEF Work
      <4> QED
        BY <2>4, <4>1, <4>2
    <3>3. ASSUME NEW k \in Job \ disturbed', NEW u \in Worker, NEW v \in Worker,
                 Holds(u, k)', Holds(v, k)', worker'[u].attempts = worker'[v].attempts
          PROVE  u = v
      <4>1. CASE u # w /\ v # w
        BY <2>0, <2>1, <2>5, <3>3, <4>1 DEF DistinctAttempts
      <4>2. CASE u = w /\ v # w
        BY <2>0, <2>1, <2>5, <3>2, <3>3, <4>2
      <4>3. CASE u # w /\ v = w
        BY <2>0, <2>1, <2>5, <3>2, <3>3, <4>3
      <4> QED
        BY <4>1, <4>2, <4>3
    <3> QED
      BY <3>1, <3>3 DEF DistinctAttempts
  <2>7. Snapshots(j)' = Snapshots(j) \cup {row[j].attempts + 1}
    BY <2>1, <2>5 DEF Snapshots
  <2>8. \A k \in Job : k # j => Snapshots(k)' = Snapshots(k)
    BY <2>1, <2>5 DEF Snapshots
  <2>9. ASSUME NEW k \in Job \ disturbed'
        PROVE  row'[k].attempts + Queued(k)' <= 1 + revived'[k] + Cardinality(Ended(k)')
    <3>1. row[k].attempts + Queued(k) <= 1 + revived[k] + Cardinality(Ended(k))
      BY <2>0 DEF Ledger
    <3>2. CASE k = j
      BY <1>t, <2>0, <2>2, <2>3, <2>7, <3>1, <3>2, LedgerClaim
    <3>3. CASE k # j
      <4>1. Queued(k)' <= Queued(k)
        BY <2>2, <3>3 DEF Queued
      <4> QED
        BY <1>t, <2>0, <2>2, <2>8, <3>1, <3>3, <4>1, LedgerQuiet
    <3> QED
      BY <3>2, <3>3
  <2> QED
    BY <2>6, <2>9 DEF Ledger
<1>3. ASSUME NEW w \in Worker, NEW o \in Outcome, RunHandler(w, o)
      PROVE  DistinctAttempts' /\ Ledger'
  <2>1. \A v \in Worker : /\ worker'[v].job = worker[v].job /\ worker'[v].attempts = worker[v].attempts
                          /\ Busy(v)' => Busy(v)
    BY <1>3, <1>w DEF RunHandler, Work, Busy
  <2> QED
    BY <1>3, <1>r, <2>1 DEF RunHandler, Busy
<1>4. ASSUME NEW w \in Worker, Complete(w)
      PROVE  DistinctAttempts' /\ Ledger'
  <2>1. \A v \in Worker : worker'[v] = worker[v] \/ worker'[v].pc = "idle"
    BY <1>4, <1>w DEF Complete
  <2>2. \A k \in Job : /\ row'[k].attempts = row[k].attempts
                       /\ row'[k].status = "pending" => row[k].status = "pending"
    BY <1>4, <1>w DEF Complete, CompleteRow, Row
  <2> QED
    BY <1>4, <1>r, <2>1, <2>2 DEF Complete, history, Busy
<1>5. ASSUME NEW w \in Worker, Fail(w)
      PROVE  DistinctAttempts' /\ Ledger'
  <2>0. PICK j : j = worker[w].job
    OBVIOUS
  <2>1. /\ worker'[w].pc = "idle" /\ \A v \in Worker : v # w => worker'[v] = worker[v]
        /\ UNCHANGED <<disturbed, revived>> /\ Busy(w)
    BY <1>5, <1>w DEF Fail, history, Busy
  <2>2. j \in Job /\ Holds(w, j)
    BY <1>t, <2>0, <2>1 DEF TypeOK, Holds
  <2>3. DistinctAttempts' /\ \A k \in Job : Snapshots(k)' \subseteq Snapshots(k)
    BY <1>q, <2>1 DEF Busy
  <2>4. CASE ~Matches(j)
    <3>1. row' = row
      BY <1>5, <2>0, <2>4 DEF Fail
    <3> QED
      BY <1>r, <2>1, <3>1 DEF Busy
  <2>5. CASE Matches(j)
    <3>1. row' = [row EXCEPT ![j] = FailRow(w, row[j])] /\ row[j] \in Row
      BY <1>5, <1>w, <2>0, <2>2, <2>5 DEF Fail
    <3>2. row'[j] = FailRow(w, row[j]) /\ \A k \in Job : k # j => row'[k] = row[k]
      BY <1>w, <2>2, <3>1
    <3>3. FailRow(w, row[j]).attempts = row[j].attempts
      <4>1. DOMAIN row[j] = {"status", "attempts", "due", "lockedBy", "lock", "lastError", "cool", "fresh"}
        BY <3>1 DEF Row
      <4> QED
        BY <4>1 DEF FailRow
    <3>4. CASE Exhausted(w)
      <4>1. row'[j].status = "failed"
        BY <3>1, <3>2, <3>4, FailFields
      <4> QED
        BY <1>r, <2>1, <3>2, <3>3, <4>1 DEF Busy
    <3>5. CASE ~Exhausted(w)
      <4>1. worker[w].attempts \in Nat /\ worker[w].attempts > 0 /\ worker[w].attempts < MaxAttempts
        BY <1>w, <2>1, <3>5 DEF Exhausted, Work, DistinctAttempts
      <4>2. ASSUME NEW k \in Job \ disturbed'
            PROVE  row'[k].attempts + Queued(k)' <= 1 + revived'[k] + Cardinality(Ended(k)')
        <5>1. row[k].attempts + Queued(k) <= 1 + revived[k] + Cardinality(Ended(k))
          BY <2>1 DEF Ledger
        <5>2. CASE k = j
          <6>0. PICK a : a = worker[w].attempts
            OBVIOUS
          <6>1. a \in 1..(MaxAttempts - 1)
            BY <4>1, <6>0
          <6>2. a <= row[j].attempts
            BY <2>1, <2>2, <5>2, <6>0 DEF IInv, SnapshotNotAhead
          <6>3. a \in Snapshots(j)
            BY <2>2, <6>0 DEF Snapshots
          <6>4. a \notin Snapshots(j)'
            <7>1. ASSUME NEW v \in Worker, Holds(v, j)'
                  PROVE  worker'[v].attempts # a
              <8>1. v # w /\ Holds(v, j) /\ worker'[v] = worker[v]
                BY <2>1, <7>1 DEF Holds, Busy
              <8> QED
                BY <2>1, <2>2, <5>2, <6>0, <8>1 DEF DistinctAttempts
            <7> QED
              BY <7>1 DEF Snapshots
          <6>5. Snapshots(j)' \subseteq Snapshots(j) \ {a}
            BY <2>2, <2>3, <6>4
          <6>6. row[j].status = "running"
            BY <2>5 DEF Matches
          <6> QED
            BY <1>t, <2>1, <2>2, <3>2, <3>3, <5>1, <5>2, <6>1, <6>2, <6>3, <6>5, <6>6, LedgerFail
        <5>3. CASE k # j
          <6>1. Queued(k)' <= Queued(k)
            BY <3>2, <5>3 DEF Queued
          <6> QED
            BY <1>t, <2>1, <2>3, <3>2, <5>1, <5>3, <6>1, LedgerQuiet
        <5> QED
          BY <5>2, <5>3
      <4> QED
        BY <2>3, <4>2 DEF Ledger
    <3> QED
      BY <3>4, <3>5
  <2> QED
    BY <2>4, <2>5
<1>6. ASSUME NEW w \in Worker, Abandon(w)
      PROVE  DistinctAttempts' /\ Ledger'
  <2>1. \A v \in Worker : worker'[v] = worker[v] \/ worker'[v].pc = "idle"
    BY <1>6, <1>w DEF Abandon
  <2> QED
    BY <1>6, <1>r, <2>1 DEF Abandon, history, Busy
<1>7. CASE Recover
  <2>1. \A j \in Job : /\ row'[j].attempts = row[j].attempts
                       /\ \/ row'[j] = row[j] /\ revived'[j] = revived[j]
                          \/ revived'[j] = revived[j] + 1
    BY <1>7, <1>w DEF Recover, RecoverRow, Row
  <2> QED
    BY <1>7, <1>r, <2>1 DEF Recover, Busy
<1>8. ASSUME NEW j \in Job, RunNow(j)
      PROVE  DistinctAttempts' /\ Ledger'
  <2>1. \A k \in Job : row'[k].attempts = row[k].attempts /\ row'[k].status = row[k].status
    BY <1>8, <1>w DEF RunNow, Row
  <2> QED
    BY <1>8, <1>r, <2>1 DEF RunNow, history, Busy
<1>9. ASSUME NEW j \in Job, Reset(j)
      PROVE  DistinctAttempts' /\ Ledger'
  <2>1. \A k \in Job : row'[k].attempts = 0 \/ (row'[k] = row[k] /\ revived'[k] = revived[k])
    BY <1>9, <1>t DEF Reset, PendingRow, TypeOK
  <2>2. disturbed \subseteq disturbed' /\ worker' = worker
    BY <1>9 DEF Reset
  <2> QED
    BY <1>r, <2>1, <2>2 DEF Busy
<1>10. ASSUME NEW j \in Job, Cancel(j)
       PROVE  DistinctAttempts' /\ Ledger'
  <2>1. \A k \in Job : /\ row'[k].attempts = row[k].attempts
                       /\ row'[k].status = "pending" => row[k].status = "pending"
    BY <1>10, <1>w DEF Cancel, CancelRow, Row
  <2> QED
    BY <1>10, <1>r, <2>1 DEF Cancel, history, Busy
<1>11. CASE RetryFailedWelcome
  <2>1. \A j \in Job : /\ row'[j].attempts = row[j].attempts
                       /\ \/ row'[j] = row[j] /\ revived'[j] = revived[j]
                          \/ revived'[j] = revived[j] + 1
    BY <1>11, <1>w DEF RetryFailedWelcome, ResurrectRow, Row
  <2> QED
    BY <1>11, <1>r, <2>1 DEF RetryFailedWelcome, Busy
<1>12. CASE Tick
  <2>1. \A w \in Worker : /\ worker'[w].pc = worker[w].pc /\ worker'[w].job = worker[w].job
                          /\ worker'[w].attempts = worker[w].attempts
    BY <1>12, <1>w DEF Tick, Work
  <2>2. \A j \in Job : row'[j].attempts = row[j].attempts /\ row'[j].status = row[j].status
    BY <1>12, <1>w, TickFields DEF Tick
  <2> QED
    BY <1>12, <1>r, <2>1, <2>2 DEF Tick, Busy
<1> QED
  BY <1>0, <1>1, <1>2, <1>3, <1>4, <1>5, <1>6, <1>7, <1>8, <1>9, <1>10, <1>11, <1>12
  DEF Next, WorkerStep, vars, history

\* A row is claimed at most max_attempts times plus once per re-queueing by a
\* sweep, however many overrunning workers report late on attempts of theirs.
THEOREM BudgetHolds == Spec => []AttemptsAccounted
<1>1. Init => DistinctAttempts /\ Ledger
  <2> SUFFICES ASSUME Init PROVE DistinctAttempts /\ Ledger
    OBVIOUS
  <2>1. \A w \in Worker : ~Busy(w)
    BY DEF Init, Idle, Busy
  <2>2. ASSUME NEW j \in Job
        PROVE  row[j].attempts + Queued(j) <= 1 + revived[j] + Cardinality(Ended(j))
    <3>1. row[j].attempts = 0 /\ Queued(j) = 0 /\ revived[j] = 0
      BY DEF Init, NoRow, Queued
    <3>2. Ended(j) \subseteq 1..(MaxAttempts - 1)
      BY DEF Ended
    <3>3. Cardinality(Ended(j)) \in Nat
      BY <3>2, EndedSize
    <3> HIDE DEF Ended, Queued
    <3> QED
      BY <3>1, <3>3
  <2> QED
    BY <2>1, <2>2 DEF DistinctAttempts, Ledger, Holds
<1>2. IInv /\ Ledger => AttemptsAccounted
  <2> SUFFICES ASSUME IInv, Ledger, NEW j \in Job \ disturbed
               PROVE  row[j].attempts <= MaxAttempts + revived[j]
    BY DEF AttemptsAccounted
  <2>1. row[j].attempts + Queued(j) <= 1 + revived[j] + Cardinality(Ended(j))
    BY DEF Ledger
  <2>2. Ended(j) \subseteq 1..(MaxAttempts - 1)
    BY DEF Ended
  <2>3. Cardinality(Ended(j)) \in Nat /\ Cardinality(Ended(j)) <= MaxAttempts - 1
    BY <2>2, EndedSize
  <2>4. row[j].attempts \in Nat /\ revived[j] \in Nat
    BY DEF IInv, TypeOK, Row
  <2>5. Queued(j) \in {0, 1}
    BY DEF Queued
  <2> HIDE DEF Ended, Queued
  <2> QED
    BY <2>1, <2>3, <2>4, <2>5
<1> QED
  BY <1>1, <1>2, LedgerStep, InvHolds, PTL DEF Spec
-----------------------------------------------------------------------------
(* The queue keeps its contract *)

\* Every step of the queue is a step of JobContract or leaves it unchanged.
LEMMA ContractStep == IInv /\ [Next]_vars => [Contract!Next]_(Contract!vars)
<1> SUFFICES ASSUME IInv, [Next]_vars
             PROVE  [Contract!Next]_(Contract!vars)
  OBVIOUS
<1> DEFINE phase == [k \in Job |-> PhaseOf(row[k].status)]
<1>t. TypeOK /\ TypeOK'
  BY TypeStep DEF IInv
<1>p. /\ PhaseOf("absent") = "absent" /\ PhaseOf("pending") = "open"
      /\ PhaseOf("running") = "open" /\ PhaseOf("completed") = "done"
      /\ PhaseOf("failed") = "dead" /\ PhaseOf("cancelled") = "withdrawn"
  BY DEF PhaseOf, Open
<1>s. ASSUME phase' = phase, succeeded' = succeeded
      PROVE  UNCHANGED Contract!vars
  BY <1>s DEF Contract!vars
<1>m. ASSUME NEW k \in Job, NEW r \in Row, row' = [row EXCEPT ![k] = r]
      PROVE  phase' = [phase EXCEPT ![k] = PhaseOf(r.status)]
  BY <1>m, <1>t DEF TypeOK
<1>0. CASE UNCHANGED vars
  BY <1>0, <1>s DEF vars, history
<1>1. ASSUME NEW j \in Job, NEW delay \in Delays, Enqueue(j, delay)
      PROVE  Contract!Submit(j)
  <2>1. PendingRow(delay, FreshFor) \in Row /\ PendingRow(delay, FreshFor).status = "pending"
    BY DEF PendingRow, Row, Status, LastError
  <2>2. phase' = [phase EXCEPT ![j] = "open"] /\ phase[j] = "absent"
    BY <1>1, <1>m, <1>p, <2>1 DEF Enqueue
  <2> QED
    BY <1>1, <2>2 DEF Enqueue, history, Contract!Submit, Contract!Move
<1>2. ASSUME NEW w \in Worker, NEW j \in Job, Claim(w, j)
      PROVE  UNCHANGED Contract!vars
  <2>1. \A k \in Job : PhaseOf(row'[k].status) = PhaseOf(row[k].status)
    BY <1>2, <1>t, <1>p DEF Claim, ClaimRow, Claimable, TypeOK, Row
  <2> QED
    BY <1>2, <2>1, <1>s DEF Claim, history
<1>3. ASSUME NEW w \in Worker, NEW o \in Outcome, RunHandler(w, o)
      PROVE  [Contract!Next]_(Contract!vars)
  <2>1. CASE o = "ok"
    <3>1. worker[w].job \in Job /\ phase[worker[w].job] # "absent"
      BY <1>3, <1>t, <1>p DEF RunHandler, IInv, HeldWasEnqueued, TypeOK, Busy, Row, Status
    <3> QED
      BY <1>3, <2>1, <3>1 DEF RunHandler, Contract!Deliver, Contract!Next
  <2>2. CASE o # "ok"
    BY <1>3, <2>2, <1>s DEF RunHandler
  <2> QED
    BY <2>1, <2>2
<1>4. ASSUME NEW w \in Worker, Complete(w)
      PROVE  [Contract!Next]_(Contract!vars)
  <2>1. worker[w].job \in Job /\ worker[w].job \in succeeded
    BY <1>4, <1>t DEF Complete, IInv, SuccessIsReal, TypeOK, Busy
  <2>2. CASE Matches(worker[w].job)
    <3>1. /\ CompleteRow(row[worker[w].job]) \in Row
          /\ CompleteRow(row[worker[w].job]).status = "completed"
      <4>1. row[worker[w].job] \in Row
        BY <1>t, <2>1 DEF TypeOK
      <4>2. CompleteRow(row[worker[w].job]).status = "completed"
        BY <4>1 DEF CompleteRow, Row
      <4> QED
        BY <4>1, <4>2, RowOps
    <3>2. /\ phase' = [phase EXCEPT ![worker[w].job] = "done"]
          /\ phase[worker[w].job] = "open"
      BY <1>4, <1>m, <1>p, <2>1, <2>2, <3>1 DEF Complete, Matches
    <3> QED
      BY <1>4, <2>1, <3>2 DEF Complete, history, Contract!Finish, Contract!Move, Contract!Next
  <2>3. CASE ~Matches(worker[w].job)
    BY <1>4, <2>3, <1>s DEF Complete, history
  <2> QED
    BY <2>2, <2>3
<1>5. ASSUME NEW w \in Worker, Fail(w)
      PROVE  [Contract!Next]_(Contract!vars)
  <2>1. worker[w].job \in Job /\ worker[w] \in Work /\ worker[w].outcome # "ok"
    BY <1>5, <1>t DEF Fail, TypeOK, Busy
  <2>2. CASE Matches(worker[w].job)
    <3> DEFINE r == row[worker[w].job]
    <3>1. FailRow(w, r) \in Row
      BY <1>t, <2>1, FailRowType DEF TypeOK
    <3>2. FailRow(w, r).status = IF Exhausted(w) THEN "failed" ELSE "pending"
      BY <1>t, <2>1, FailFields DEF TypeOK
    <3>3. /\ phase' = [phase EXCEPT ![worker[w].job] = PhaseOf(FailRow(w, r).status)]
          /\ phase[worker[w].job] = "open"
      BY <1>5, <1>m, <1>p, <2>1, <2>2, <3>1 DEF Fail, Matches
    <3>4. CASE Exhausted(w)
      <4>1. phase' = [phase EXCEPT ![worker[w].job] = "dead"]
        BY <1>p, <3>2, <3>3, <3>4
      <4>2. UNCHANGED succeeded
        BY <1>5 DEF Fail, history
      <4>3. Contract!GiveUp(worker[w].job)
        BY <3>3, <4>1, <4>2 DEF Contract!GiveUp, Contract!Move
      <4> QED
        BY <2>1, <4>3 DEF Contract!Next
    <3>5. CASE ~Exhausted(w)
      <4>1. phase' = phase
        BY <1>p, <2>1, <3>2, <3>3, <3>5
      <4> QED
        BY <1>5, <4>1, <1>s DEF Fail, history
    <3> QED
      BY <3>4, <3>5
  <2>3. CASE ~Matches(worker[w].job)
    BY <1>5, <2>3, <1>s DEF Fail, history
  <2> QED
    BY <2>2, <2>3
<1>6. ASSUME NEW w \in Worker, Abandon(w)
      PROVE  UNCHANGED Contract!vars
  BY <1>6, <1>s DEF Abandon, history
<1>7. CASE Recover
  <2>1. \A k \in Job : PhaseOf(row'[k].status) = PhaseOf(row[k].status)
    BY <1>7, <1>t, <1>p DEF Recover, RecoverRow, Stuck, TypeOK, Row
  <2> QED
    BY <1>7, <2>1, <1>s DEF Recover
<1>8. ASSUME NEW j \in Job, RunNow(j)
      PROVE  UNCHANGED Contract!vars
  <2>1. \A k \in Job : row'[k].status = row[k].status
    BY <1>8, <1>t DEF RunNow, TypeOK, Row
  <2> QED
    BY <1>8, <2>1, <1>s DEF RunNow, history
<1>9. ASSUME NEW j \in Job, Reset(j)
      PROVE  Contract!Reopen({j})
  <2>1. PendingRow(0, row[j].fresh) \in Row /\ PendingRow(0, row[j].fresh).status = "pending"
    BY <1>t DEF PendingRow, TypeOK, Row, Status, LastError
  <2>2. phase' = [phase EXCEPT ![j] = "open"] /\ phase[j] \in {"dead", "withdrawn"}
    BY <1>9, <1>m, <1>p, <2>1 DEF Reset
  <2> QED
    BY <1>9, <2>2 DEF Reset, Contract!Reopen
<1>10. ASSUME NEW j \in Job, Cancel(j)
       PROVE  Contract!Withdraw(j)
  <2>1. CancelRow(row[j]) \in Row /\ CancelRow(row[j]).status = "cancelled"
    <3>1. row[j] \in Row
      BY <1>t DEF TypeOK
    <3>2. CancelRow(row[j]).status = "cancelled"
      BY <3>1 DEF CancelRow, Row
    <3> QED
      BY <3>1, <3>2, RowOps
  <2>2. phase' = [phase EXCEPT ![j] = "withdrawn"] /\ phase[j] = "open"
    BY <1>10, <1>m, <1>p, <2>1 DEF Cancel, Open
  <2> QED
    BY <1>10, <2>2 DEF Cancel, history, Contract!Withdraw, Contract!Move
<1>11. CASE RetryFailedWelcome
  <2>1. \A k \in Job : row'[k].status = IF k \in Resurrectable THEN "pending" ELSE row[k].status
    BY <1>11, <1>t, ResurrectFields DEF RetryFailedWelcome, TypeOK
  <2>2. Resurrectable \in SUBSET Job /\ \A k \in Resurrectable : row[k].status = "failed"
    BY DEF Resurrectable
  <2>3. Contract!Reopen(Resurrectable)
    BY <1>11, <1>p, <2>1, <2>2 DEF RetryFailedWelcome, Contract!Reopen
  <2> QED
    BY <2>2, <2>3 DEF Contract!Next
<1>12. CASE Tick
  <2>1. \A k \in Job : row'[k].status = row[k].status
    BY <1>12, <1>t, TickFields DEF Tick, TypeOK
  <2> QED
    BY <1>12, <2>1, <1>s DEF Tick
<1>n. \/ \E j \in Job : Contract!Submit(j) \/ Contract!Withdraw(j) \/ Contract!Reopen({j})
      \/ [Contract!Next]_(Contract!vars)
  BY <1>0, <1>1, <1>2, <1>3, <1>4, <1>5, <1>6, <1>7, <1>8, <1>9, <1>10, <1>11, <1>12
  DEF Next, WorkerStep
<1> QED
  BY <1>n DEF Contract!Next

\* The queue implements JobContract: done only after a success, done forever,
\* open until done, dead or withdrawn, for any jobs, workers and timings.
THEOREM KeepsContract == Spec => ContractSpec
<1>1. Init => Contract!Init
  BY DEF Init, NoRow, PhaseOf, Open, Contract!Init
<1> QED
  BY <1>1, InvHolds, ContractStep, PTL DEF Spec, ContractSpec, Contract!Spec
=============================================================================
