-------------------------------- MODULE Cron --------------------------------
(***************************************************************************)
(* Persisted cron schedules (internal/jobs/cron.go): the _cron table, the  *)
(* scheduler loop of every process, the operators' edits, and the seeding  *)
(* of the default schedules at boot (pkg/railbase/app.go).                 *)
(*                                                                         *)
(* MaterialiseDue runs on a pool, outside a transaction: the row locks of  *)
(* its SELECT ... FOR UPDATE SKIP LOCKED end with that statement, so the   *)
(* SELECT, each INSERT INTO _jobs and each UPDATE _cron are separate steps.*)
(*                                                                         *)
(* An expression is the period of its slots.  next_run_at is kept relative *)
(* to now(): a schedule is due when next <= 0; how long it has been due is *)
(* not told apart.                                                         *)
(***************************************************************************)
EXTENDS Integers

CONSTANTS
  Name,         \* schedule names
  Proc,         \* processes, each with one scheduler loop
  None,
  Expr,         \* the expressions in use, as periods
  Cycle,        \* a common multiple of the periods: the clock's modulus
  Default,      \* names of DefaultSchedules()
  DefaultExpr,  \* their expression
  MaxIds,       \* bound on re-creations of a deleted schedule
  MaxFaults     \* bound on failed statements and process deaths

ASSUME CronAssumption ==
  /\ None \notin [name: Name, id: Nat, slot: Int]
  /\ Expr \subseteq Nat \ {0}
  /\ Cycle \in Nat \ {0}
  /\ \A e \in Expr : Cycle % e = 0
  /\ Default \subseteq Name
  /\ DefaultExpr \in Expr
  /\ MaxIds \in Nat
  /\ MaxFaults \in Nat

VARIABLES
  clock,      \* the time of day, modulo Cycle
  cron,       \* the _cron table
  proc,       \* the state of every process
  faults,     \* failed statements and deaths so far
  fired,      \* history: jobs schedulers inserted for the row's current slot (2: or more)
  raced,      \* history: schedules two passes held at once, or whose pass was cut short
  clobbered   \* history: schedules upserted while a pass held the old row

vars == <<clock, cron, proc, faults, fired, raced, clobbered>>

-----------------------------------------------------------------------------

CronRow == [exists: BOOLEAN, id: Nat, expr: Expr, enabled: BOOLEAN, next: Int]

\* A row of a pass: what SELECT returned, and when the slot after now() comes.
Item == [name: Name, id: Nat, slot: Int]

ProcState == [pc: {"down", "seeding", "idle", "pass"},
              todo: SUBSET Default,
              batch: SUBSET Item,
              inserted: Item \cup {None}]

Down == [pc |-> "down", todo |-> {}, batch |-> {}, inserted |-> None]
Loop == [pc |-> "idle", todo |-> {}, batch |-> {}, inserted |-> None]

Due(n) == cron[n].exists /\ cron[n].enabled /\ cron[n].next <= 0

\* Schedule.Next: the first slot strictly after now.
Next_(e) == e - (clock % e)

\* The rows process p still has in hand.
InHand(p) == proc[p].batch \cup ({proc[p].inserted} \ {None})
\* The row an item was selected from is still there (jobs carry its cron_id).
Current(i) == cron[i.name].exists /\ cron[i.name].id = i.id

Held(p, n) == \E i \in InHand(p) : i.name = n

TypeOK ==
  /\ clock \in 0..(Cycle - 1)
  /\ cron \in [Name -> CronRow]
  /\ proc \in [Proc -> ProcState]
  /\ \A p \in Proc : proc[p].todo # {} => proc[p].pc = "seeding"
  /\ \A p \in Proc : InHand(p) # {} => proc[p].pc = "pass"
  /\ \A p \in Proc : \A i \in InHand(p) : i.id <= cron[i.name].id
  /\ faults \in 0..MaxFaults
  /\ fired \in [Name -> 0..2]
  /\ raced \subseteq Name
  /\ clobbered \subseteq Name

Init ==
  /\ clock = 0
  /\ cron = [n \in Name |-> [exists |-> FALSE, id |-> 0, expr |-> DefaultExpr,
                             enabled |-> FALSE, next |-> 0]]
  /\ proc = [p \in Proc |-> Down]
  /\ faults = 0
  /\ fired = [n \in Name |-> 0]
  /\ raced = {}
  /\ clobbered = {}

-----------------------------------------------------------------------------
(* The CronStore *)

\* Mutant: ON CONFLICT leaves next_run_at alone.
UpsertKeepsNext(n, e) ==
  [exists |-> TRUE,
   id |-> IF cron[n].exists THEN cron[n].id ELSE cron[n].id + 1,
   expr |-> e,
   enabled |-> cron[n].exists => cron[n].enabled,
   next |-> IF cron[n].exists THEN cron[n].next ELSE Next_(e)]

\* INSERT ... ON CONFLICT (name) DO UPDATE: a new row is enabled, an existing
\* one keeps its id and its enabled flag; next_run_at is recomputed either way.
UpsertRow(n, e) ==
  [exists |-> TRUE,
   id |-> IF cron[n].exists THEN cron[n].id ELSE cron[n].id + 1,
   expr |-> e,
   enabled |-> cron[n].exists => cron[n].enabled,
   next |-> Next_(e)]

Store(n, e) ==
  /\ cron[n].exists \/ cron[n].id < MaxIds
  /\ cron' = [cron EXCEPT ![n] = UpsertRow(n, e)]
  /\ fired' = [fired EXCEPT ![n] = 0]
  /\ clobbered' = IF \E p \in Proc : Held(p, n) THEN clobbered \cup {n} ELSE clobbered

Upsert(n, e) ==
  /\ Store(n, e)
  /\ UNCHANGED <<clock, proc, faults, raced>>

Delete(n) ==
  /\ cron[n].exists
  /\ cron' = [cron EXCEPT ![n].exists = FALSE]
  /\ UNCHANGED <<clock, proc, faults, fired, raced, clobbered>>

SetEnabled(n) ==
  /\ cron[n].exists
  /\ cron' = [cron EXCEPT ![n].enabled = ~@]
  /\ UNCHANGED <<clock, proc, faults, fired, raced, clobbered>>

-----------------------------------------------------------------------------
(* A process: boot, seed the defaults, then tick *)

Boot(p) ==
  /\ proc[p].pc = "down"
  /\ proc' = [proc EXCEPT ![p] = [Loop EXCEPT !.pc = "seeding", !.todo = Default]]
  /\ UNCHANGED <<clock, cron, faults, fired, raced, clobbered>>

\* Every boot upserts every default.
Seed(p) ==
  /\ proc[p].pc = "seeding"
  /\ \/ \E n \in proc[p].todo :
          /\ Store(n, DefaultExpr)
          /\ proc' = [proc EXCEPT ![p].todo = @ \ {n}]
     \/ /\ proc[p].todo = {}
        /\ proc' = [proc EXCEPT ![p] = Loop]
        /\ UNCHANGED <<cron, fired, clobbered>>
  /\ UNCHANGED <<clock, faults, raced>>

\* Mutant: the SELECT asks for paused schedules.
SelectPaused(p) ==
  LET due == {n \in Name : cron[n].exists /\ ~cron[n].enabled /\ cron[n].next <= 0}
  IN  /\ proc[p].pc = "idle"
      /\ due # {}
      /\ proc' = [proc EXCEPT ![p].pc = "pass",
                              ![p].batch = {[name |-> n, id |-> cron[n].id,
                                             slot |-> Next_(cron[n].expr)] : n \in due}]
      /\ UNCHANGED <<clock, cron, faults, fired, raced, clobbered>>

\* The SELECT of one pass.
SelectDue(p) ==
  LET due == {n \in Name : Due(n)}
  IN  /\ proc[p].pc = "idle"
      /\ due # {}
      /\ proc' = [proc EXCEPT ![p].pc = "pass",
                              ![p].batch = {[name |-> n, id |-> cron[n].id,
                                             slot |-> Next_(cron[n].expr)] : n \in due}]
      /\ raced' = raced \cup {n \in due : \E q \in Proc : Held(q, n)}
      /\ UNCHANGED <<clock, cron, faults, fired, clobbered>>

\* The INSERT INTO _jobs of the next row of the batch.
Insert(p) ==
  /\ proc[p].inserted = None
  /\ \E i \in proc[p].batch :
       /\ proc' = [proc EXCEPT ![p].batch = @ \ {i}, ![p].inserted = i]
       /\ fired' = [fired EXCEPT ![i.name] = IF Current(i) /\ @ < 2 THEN @ + 1 ELSE @]
  /\ UNCHANGED <<clock, cron, faults, raced, clobbered>>

\* Mutant: the UPDATE is forgotten.
AdvanceForgotten(p) ==
  /\ proc[p].inserted # None
  /\ proc' = [proc EXCEPT ![p].inserted = None]
  /\ UNCHANGED <<clock, cron, faults, fired, raced, clobbered>>

\* The UPDATE of next_run_at, by id: no row matches once it is deleted, whether
\* or not another row has its name by now.
Advance(p) ==
  LET i == proc[p].inserted
      n == i.name
  IN  /\ i # None
      /\ IF Current(i)
         THEN /\ cron' = [cron EXCEPT ![n].next = i.slot]
              /\ fired' = [fired EXCEPT ![n] = 0]
         ELSE UNCHANGED <<cron, fired>>
      /\ proc' = [proc EXCEPT ![p].inserted = None]
      /\ UNCHANGED <<clock, faults, raced, clobbered>>

PassDone(p) ==
  /\ proc[p].pc = "pass"
  /\ InHand(p) = {}
  /\ proc' = [proc EXCEPT ![p].pc = "idle"]
  /\ UNCHANGED <<clock, cron, faults, fired, raced, clobbered>>

\* Mutant: after a failed INSERT the loop falls through to the UPDATE.
StatementFallsThrough(p) ==
  /\ faults < MaxFaults
  /\ faults' = faults + 1
  /\ proc[p].inserted = None
  /\ \E i \in proc[p].batch :
       proc' = [proc EXCEPT ![p].batch = @ \ {i}, ![p].inserted = i]
  /\ UNCHANGED <<clock, cron, fired, raced, clobbered>>

\* A statement of a pass, or of the seeding, fails: the loop continues with the
\* next row.
StatementFails(p) ==
  /\ faults < MaxFaults
  /\ faults' = faults + 1
  /\ \/ \E i \in proc[p].batch :
          /\ proc[p].inserted = None
          /\ proc' = [proc EXCEPT ![p].batch = @ \ {i}]
          /\ UNCHANGED raced
     \/ /\ proc[p].inserted # None
        /\ proc' = [proc EXCEPT ![p].inserted = None]
        /\ raced' = raced \cup {proc[p].inserted.name}
     \/ \E n \in proc[p].todo :
          /\ proc' = [proc EXCEPT ![p].todo = @ \ {n}]
          /\ UNCHANGED raced
  /\ UNCHANGED <<clock, cron, fired, clobbered>>

Die(p) ==
  /\ proc[p].pc # "down"
  /\ faults < MaxFaults
  /\ faults' = faults + 1
  /\ proc' = [proc EXCEPT ![p] = Down]
  /\ raced' = raced \cup {i.name : i \in {proc[p].inserted} \ {None}}
  /\ UNCHANGED <<clock, cron, fired, clobbered>>

-----------------------------------------------------------------------------

Earlier(t) == IF t > 0 THEN t - 1 ELSE 0
Later(i) == [i EXCEPT !.slot = Earlier(@)]

Tick ==
  /\ clock' = (clock + 1) % Cycle
  /\ cron' = [n \in Name |-> [cron[n] EXCEPT !.next = Earlier(@)]]
  /\ proc' = [p \in Proc |->
                [proc[p] EXCEPT
                   !.batch = {Later(i) : i \in @},
                   !.inserted = IF @ = None THEN None ELSE Later(@)]]
  /\ UNCHANGED <<faults, fired, raced, clobbered>>

Scheduler(p) == Seed(p) \/ SelectDue(p) \/ Insert(p) \/ Advance(p) \/ PassDone(p)

Next ==
  \/ \E n \in Name : Delete(n) \/ SetEnabled(n) \/ \E e \in Expr : Upsert(n, e)
  \/ \E p \in Proc : Boot(p) \/ Scheduler(p) \/ StatementFails(p) \/ Die(p)
  \/ Tick

\* A running scheduler keeps running, and a dead process is started again.
Spec == Init /\ [][Next]_vars

FairSpec == Spec /\ \A p \in Proc : WF_vars(Boot(p)) /\ WF_vars(Scheduler(p))

-----------------------------------------------------------------------------
(* Properties *)

\* "Persisted schedules produce one job-row per tick": a slot is fired more than
\* once only after two passes held the schedule at once, or after a pass was cut
\* between its INSERT and its UPDATE.
FiredOncePerSlot == \A n \in Name \ raced : fired[n] <= 1

\* next_run_at is a slot of the stored expression, so the schedule fires within
\* one period, unless an upsert raced a pass that then wrote the old
\* expression's slot over it.
NextMatchesExpression ==
  \A n \in Name \ clobbered : cron[n].exists => cron[n].next <= cron[n].expr

\* A pass does not pass over a due slot: it moves next_run_at of a due schedule
\* into the future only with a job inserted for that slot, unless it overlapped
\* with another pass or with an upsert.
NoSilentSkip ==
  [][\A n \in Name :
       /\ Due(n)
       /\ cron[n].id = cron'[n].id
       /\ cron'[n].next > 0
       /\ fired[n] = 0
       /\ \E p \in Proc : proc[p].inserted # proc'[p].inserted
       => n \in raced \cup clobbered]_vars

\* A due schedule eventually has its job, from whichever process survives,
\* unless it is paused, deleted or upserted first.
DueIsServed == \A n \in Name : Due(n) ~> (fired[n] > 0 \/ ~Due(n))
=============================================================================
