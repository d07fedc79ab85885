-------------------------------- MODULE Jobs --------------------------------
(***************************************************************************)
(* The background-job queue: the _jobs table (internal/jobs/store.go), the *)
(* worker loops that claim and run rows (runner.go), the stuck-job sweep   *)
(* of the scheduler tick and the welcome-mail sweeper.                     *)
(*                                                                         *)
(* Every SQL statement is one atomic step.  Between the statements of one  *)
(* worker anything may happen: other workers, operators, the sweep, the    *)
(* passing of time, and the death of the worker.                           *)
(*                                                                         *)
(* Timestamps are kept relative to now(): "due" is run_after - now(),      *)
(* "lock" is locked_until - now(), "cool" and "fresh" are what is left of  *)
(* the two windows of the welcome sweeper.  Tick lets one unit pass.  A    *)
(* difference that no guard can tell from a smaller one saturates, so the  *)
(* clock itself needs no bound.                                            *)
(***************************************************************************)
EXTENDS Integers, FiniteSets

CONSTANTS
  Job,           \* ids of the rows that may be enqueued
  Worker,        \* worker goroutines, over all processes
  None,          \* SQL NULL
  WelcomeJob,    \* rows of kind send_email_async with a welcome template
  MaxAttempts,   \* max_attempts of a row
  LockTTL,       \* RunnerOptions.LockTTL, in ticks
  BackoffBase,   \* nextBackoff's base, in ticks
  BackoffCap,    \* nextBackoff's cap, in ticks
  Delays,        \* the delays callers pass to Enqueue
  RetryAfter,    \* the sweeper's "15 minutes", in ticks
  FreshFor,      \* the sweeper's "7 days", in ticks
  Overdue,       \* bound: how far past run_after the model distinguishes
  MaxFaults,     \* bound on abandoned claims and on locks that lapse under a handler
  MaxResets      \* bound on operator resets

ASSUME JobsAssumption ==
  /\ None \notin Worker
  /\ None \notin Job
  /\ WelcomeJob \subseteq Job
  /\ MaxAttempts \in Nat \ {0}
  /\ LockTTL \in Nat \ {0}
  /\ BackoffBase \in Nat \ {0}
  /\ BackoffCap \in Nat \ {0}
  /\ Delays \subseteq Nat
  /\ RetryAfter \in Nat
  /\ FreshFor \in Nat
  /\ Overdue \in Nat
  /\ MaxFaults \in Nat
  /\ MaxResets \in Nat

VARIABLES
  row,        \* the _jobs table
  worker,     \* what each worker goroutine holds
  faults,     \* claims abandoned and locks lapsed so far
  resets,     \* operator resets so far
  succeeded,  \* history: jobs a handler has returned nil for
  disturbed,  \* history: jobs reset while some worker still held them
  lapsed,     \* history: jobs whose lock ran out under a worker at work on them
  revived     \* history: times a row was re-queued by a sweep since its reset

history == <<succeeded, disturbed, lapsed, revived>>
vars == <<row, worker, faults, resets, history>>

-----------------------------------------------------------------------------
(* Rows and workers *)

Status == {"absent", "pending", "running", "completed", "failed", "cancelled"}
Open == {"pending", "running"}
Settled == {"completed", "failed", "cancelled"}

\* What last_error tells a reader: NULL, an ordinary message, one with the
\* "permanent failure" sentinel of ErrPermanent, or "unknown kind".
LastError == {"none", "error", "permanent", "unknown"}
Outcome == {"ok", "error", "permanent", "unknown"}

Row == [status: Status, attempts: Nat, due: Int, lockedBy: Worker \cup {None},
        lock: Int, lastError: LastError, cool: Nat, fresh: Nat]

NoRow == [status |-> "absent", attempts |-> 0, due |-> 0, lockedBy |-> None,
          lock |-> 0, lastError |-> "none", cool |-> 0, fresh |-> 0]

\* A worker's snapshot of the row it claimed ("attempts" is the value Claim
\* returned, not the current one), and "left", the time to its lock's expiry.
Work == [pc: {"idle", "running", "record"}, job: Job \cup {None},
         attempts: Nat, outcome: Outcome, left: Int]

Idle == [pc |-> "idle", job |-> None, attempts |-> 0, outcome |-> "ok", left |-> 0]

Busy(w) == worker[w].pc # "idle"
Holds(w, j) == Busy(w) /\ worker[w].job = j

TypeOK ==
  /\ row \in [Job -> Row]
  /\ worker \in [Worker -> Work]
  /\ \A w \in Worker : Busy(w) => worker[w].job \in Job
  /\ faults \in Nat
  /\ resets \in Nat
  /\ succeeded \subseteq Job
  /\ disturbed \subseteq Job
  /\ lapsed \subseteq Job
  /\ revived \in [Job -> Nat]

\* 1 << (attempts-1) for the twelve values the code shifts by.
Shift == <<1, 2, 4, 8, 16, 32, 64, 128, 256, 512, 1024, 2048>>

nextBackoff(attempts) ==
  IF attempts > 12
  THEN BackoffCap
  ELSE LET n == IF attempts < 1 THEN 1 ELSE attempts
           d == BackoffBase * Shift[n]
       IN  IF d > BackoffCap THEN BackoffCap ELSE d

Init ==
  /\ row = [j \in Job |-> NoRow]
  /\ worker = [w \in Worker |-> Idle]
  /\ faults = 0
  /\ resets = 0
  /\ succeeded = {}
  /\ disturbed = {}
  /\ lapsed = {}
  /\ revived = [j \in Job |-> 0]

-----------------------------------------------------------------------------
(* Store operations *)

\* A pending row with no attempt behind it.
PendingRow(delay, fresh) ==
  [status |-> "pending", attempts |-> 0, due |-> delay, lockedBy |-> None,
   lock |-> 0, lastError |-> "none", cool |-> 0, fresh |-> fresh]

Enqueue(j, delay) ==
  /\ row[j].status = "absent"
  /\ row' = [row EXCEPT ![j] = PendingRow(delay, FreshFor)]
  /\ UNCHANGED <<worker, faults, resets, history>>

Claimable == {j \in Job : row[j].status = "pending" /\ row[j].due <= 0}

ClaimRow(w, r) ==
  [r EXCEPT !.status = "running", !.attempts = r.attempts + 1,
            !.lockedBy = w, !.lock = LockTTL]

\* The claim of one due row, earliest run_after first.  The attempt is counted
\* here; attempts is not compared with max_attempts.
Claim(w, j) ==
  /\ ~Busy(w)
  /\ j \in Claimable
  /\ \A k \in Claimable : row[j].due <= row[k].due
  /\ row' = [row EXCEPT ![j] = ClaimRow(w, @)]
  /\ worker' = [worker EXCEPT ![w] = [pc |-> "running", job |-> j,
                                      attempts |-> row[j].attempts + 1,
                                      outcome |-> "ok", left |-> LockTTL]]
  /\ UNCHANGED <<faults, resets, history>>

\* The handler returns: nil, an error (a panic and a timeout are errors too),
\* a wrapped ErrPermanent; or the kind has no handler at all.
RunHandler(w, outcome) ==
  /\ worker[w].pc = "running"
  /\ worker' = [worker EXCEPT ![w] = [@ EXCEPT !.pc = "record", !.outcome = outcome]]
  /\ succeeded' = IF outcome = "ok" THEN succeeded \cup {worker[w].job} ELSE succeeded
  /\ UNCHANGED <<row, faults, resets, disturbed, lapsed, revived>>

\* Mutant: Complete and Fail update the row whatever its status.
MatchesAlways(j) == TRUE

\* UPDATE ... WHERE id = $1 AND status = 'running': no row matches otherwise,
\* and nothing compares locked_by with the caller.
Matches(j) == row[j].status = "running"

CompleteRow(r) ==
  [r EXCEPT !.status = "completed", !.lockedBy = None, !.lock = 0, !.lastError = "none"]

Complete(w) ==
  LET j == worker[w].job
  IN  /\ worker[w].pc = "record"
      /\ worker[w].outcome = "ok"
      /\ row' = IF Matches(j) THEN [row EXCEPT ![j] = CompleteRow(@)] ELSE row
      /\ worker' = [worker EXCEPT ![w] = Idle]
      /\ UNCHANGED <<faults, resets, history>>

\* Mutants: the budget is compared one too early, one too late.
ExhaustedEarly(w) ==
  worker[w].outcome \in {"permanent", "unknown"} \/ worker[w].attempts >= MaxAttempts - 1

ExhaustedLate(w) ==
  worker[w].outcome \in {"permanent", "unknown"} \/ worker[w].attempts > MaxAttempts

\* Fail is called with max_attempts twice for outcomes that no retry can help,
\* and with the claimed snapshot's attempts otherwise.
Exhausted(w) ==
  worker[w].outcome \in {"permanent", "unknown"} \/ worker[w].attempts >= MaxAttempts

FailRow(w, r) ==
  IF Exhausted(w)
  THEN [r EXCEPT !.status = "failed", !.lockedBy = None, !.lock = 0,
                 !.lastError = worker[w].outcome, !.cool = RetryAfter]
  ELSE [r EXCEPT !.status = "pending", !.lockedBy = None, !.lock = 0,
                 !.lastError = worker[w].outcome,
                 !.due = nextBackoff(worker[w].attempts)]

Fail(w) ==
  LET j == worker[w].job
  IN  /\ worker[w].pc = "record"
      /\ worker[w].outcome # "ok"
      /\ row' = IF Matches(j) THEN [row EXCEPT ![j] = FailRow(w, @)] ELSE row
      /\ worker' = [worker EXCEPT ![w] = Idle]
      /\ UNCHANGED <<faults, resets, history>>

\* The process dies, or shutdown cancels the context Complete and Fail use, or
\* their statement fails: the worker forgets the job, the row stays running.
Abandon(w) ==
  /\ Busy(w)
  /\ faults < MaxFaults
  /\ worker' = [worker EXCEPT ![w] = Idle]
  /\ faults' = faults + 1
  /\ UNCHANGED <<row, resets, history>>

\* Mutants: the sweep forgets the expiry; it tests locked_until IS NULL.
StuckUnexpired == {j \in Job : row[j].status = "running"}

StuckUnlocked == {j \in Job : row[j].status = "running" /\ row[j].lockedBy = None}

\* One UPDATE returns every running row with an expired lock to pending.
\* attempts and run_after keep their values; last_error is appended to.
Stuck == {j \in Job : row[j].status = "running" /\ row[j].lock < 0}

RecoverRow(r) ==
  [r EXCEPT !.status = "pending", !.lockedBy = None, !.lock = 0,
            !.lastError = IF r.lastError = "none" THEN "error" ELSE r.lastError]

Recover ==
  /\ Stuck # {}
  /\ row' = [j \in Job |-> IF j \in Stuck THEN RecoverRow(row[j]) ELSE row[j]]
  /\ revived' = [j \in Job |-> IF j \in Stuck THEN revived[j] + 1 ELSE revived[j]]
  /\ UNCHANGED <<worker, faults, resets, succeeded, disturbed, lapsed>>

RunNow(j) ==
  /\ row[j].status = "pending"
  /\ row' = [row EXCEPT ![j].due = 0]
  /\ UNCHANGED <<worker, faults, resets, history>>

Reset(j) ==
  /\ row[j].status \in {"failed", "cancelled"}
  /\ resets < MaxResets
  /\ row' = [row EXCEPT ![j] = PendingRow(0, @.fresh)]
  /\ resets' = resets + 1
  /\ disturbed' = IF \E w \in Worker : Holds(w, j) THEN disturbed \cup {j} ELSE disturbed
  /\ revived' = [revived EXCEPT ![j] = 0]
  /\ UNCHANGED <<worker, faults, succeeded, lapsed>>

CancelRow(r) == [r EXCEPT !.status = "cancelled", !.lockedBy = None, !.lock = 0]

\* The handler of a cancelled running job is not interrupted.
Cancel(j) ==
  /\ row[j].status \in Open
  /\ row' = [row EXCEPT ![j] = CancelRow(@)]
  /\ UNCHANGED <<worker, faults, resets, history>>

\* retry_failed_welcome_emails: one UPDATE over the failed welcome mails whose
\* failure is old enough and not permanent.  attempts is kept.
Resurrectable ==
  {j \in WelcomeJob : /\ row[j].status = "failed"
                      /\ row[j].lastError # "permanent"
                      /\ row[j].cool = 0
                      /\ row[j].fresh > 0}

ResurrectRow(r) == [r EXCEPT !.status = "pending", !.due = 0, !.lastError = "none"]

RetryFailedWelcome ==
  /\ Resurrectable # {}
  /\ row' = [j \in Job |->
               IF j \in Resurrectable THEN ResurrectRow(row[j]) ELSE row[j]]
  /\ revived' = [j \in Job |-> IF j \in Resurrectable THEN revived[j] + 1 ELSE revived[j]]
  /\ UNCHANGED <<worker, faults, resets, succeeded, disturbed, lapsed>>

-----------------------------------------------------------------------------
(* Time *)

Down(n) == IF n > 0 THEN n - 1 ELSE 0

\* run_after of a settled row is never read again, nor is the age of an open
\* row's failure.
TickRow(r) ==
  [r EXCEPT !.due = IF r.status \in Open /\ r.due > -Overdue THEN r.due - 1 ELSE r.due,
            !.lock = IF r.status = "running" /\ r.lock >= 0 THEN r.lock - 1 ELSE r.lock,
            !.cool = Down(r.cool),
            !.fresh = Down(r.fresh)]

\* The handler timeout (1 min) is below the lock TTL (5 min), so a worker whose
\* handler honours its context records the outcome, or dies, before its lock
\* expires.  A handler that ignores the context, or a stalled process, does not.
Lapsing == {w \in Worker : Busy(w) /\ worker[w].left = 0}

Tick ==
  /\ Lapsing # {} => faults < MaxFaults
  /\ faults' = IF Lapsing # {} THEN faults + 1 ELSE faults
  /\ lapsed' = lapsed \cup {worker[w].job : w \in Lapsing}
  /\ row' = [j \in Job |-> TickRow(row[j])]
  /\ worker' = [w \in Worker |->
                  IF Busy(w) /\ worker[w].left >= 0
                  THEN [worker[w] EXCEPT !.left = @ - 1]
                  ELSE worker[w]]
  /\ UNCHANGED <<resets, succeeded, disturbed, revived>>

-----------------------------------------------------------------------------

WorkerStep(w) ==
  \/ \E j \in Job : Claim(w, j)
  \/ \E outcome \in Outcome : RunHandler(w, outcome)
  \/ Complete(w)
  \/ Fail(w)

Next ==
  \/ \E j \in Job, delay \in Delays : Enqueue(j, delay)
  \/ \E w \in Worker : WorkerStep(w) \/ Abandon(w)
  \/ Recover
  \/ \E j \in Job : RunNow(j) \/ Reset(j) \/ Cancel(j)
  \/ RetryFailedWelcome
  \/ Tick

Spec == Init /\ [][Next]_vars

\* Workers loop and handlers return by their timeout; the scheduler sweeps on
\* every tick; time passes.  Operators, faults and callers owe nothing.
Fairness ==
  /\ \A w \in Worker : WF_vars(WorkerStep(w))
  /\ WF_vars(Recover)
  /\ WF_vars(Tick)

FairSpec == Spec /\ Fairness
-----------------------------------------------------------------------------
(* Properties *)

\* Claim exclusivity.  Two workers are at work on the same job only if the lock
\* ran out under one of them, or if an operator reset the job under a running
\* worker (Cancel does not interrupt the handler; Reset then re-queues the row).
ExclusiveClaim ==
  \A j \in Job \ (disturbed \cup lapsed) : \A v, w \in Worker :
    Holds(v, j) /\ Holds(w, j) => v = w

\* A job is given up only for a reason its own row shows: the retry budget is
\* used up or the error is one no retry can help.  Fail decides on the attempts
\* of the caller's snapshot, so a late worker could fail a row that still has
\* attempts left; only a reset under a running worker makes that happen.
FailedIsEarned ==
  \A j \in Job \ disturbed :
    row[j].status = "failed" => \/ row[j].attempts >= MaxAttempts
                               \/ row[j].lastError \in {"permanent", "unknown"}

\* The retry budget, with what really extends it: a row is claimed at most
\* max_attempts times plus once per re-queueing by the stuck-job sweep or the
\* welcome sweeper.  Stale Fail calls of overrunning workers do not add to it.
AttemptsAccounted ==
  \A j \in Job \ disturbed : row[j].attempts <= MaxAttempts + revived[j]

\* The strengthening that makes the properties above inductive.  An undisturbed
\* holder's claim is still the row's claim, with the same time left, or the row
\* was cancelled under it; its snapshot is not ahead of the row; what it holds
\* was enqueued; and an outcome about to be recorded as success is one.
HolderOwns ==
  \A j \in Job \ (disturbed \cup lapsed) : \A w \in Worker :
    Holds(w, j) => \/ /\ row[j].status = "running"
                      /\ row[j].lockedBy = w
                      /\ row[j].lock = worker[w].left
                      /\ worker[w].left >= 0
                   \/ row[j].status = "cancelled"

SnapshotNotAhead ==
  \A j \in Job \ disturbed : \A w \in Worker :
    Holds(w, j) => worker[w].attempts <= row[j].attempts

HeldWasEnqueued ==
  \A w \in Worker : Busy(w) => row[worker[w].job].status # "absent"

SuccessIsReal ==
  \A w \in Worker :
    worker[w].pc = "record" /\ worker[w].outcome = "ok" => worker[w].job \in succeeded

IInv ==
  /\ TypeOK
  /\ HolderOwns
  /\ ExclusiveClaim
  /\ SnapshotNotAhead
  /\ HeldWasEnqueued
  /\ SuccessIsReal
  /\ FailedIsEarned

\* The queue keeps its contract (JobContract): no interleaving of late
\* workers, sweeps and operators completes a job no handler succeeded for,
\* loses an open job, or opens a completed one again.
PhaseOf(status) ==
  CASE status \in Open -> "open"
    [] status = "completed" -> "done"
    [] status = "failed" -> "dead"
    [] status = "cancelled" -> "withdrawn"
    [] OTHER -> "absent"

Contract == INSTANCE JobContract WITH
  phase <- [j \in Job |-> PhaseOf(row[j].status)],
  delivered <- succeeded

ContractSpec == Contract!Spec

\* Every queued job is eventually settled, whatever claims were abandoned on
\* the way: crashed workers' rows come back, backoffs elapse, retries end.
EverySettles ==
  \A j \in Job : row[j].status \in Open ~> row[j].status \in Settled
=============================================================================
