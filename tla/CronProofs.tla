----------------------------- MODULE CronProofs -----------------------------
(***************************************************************************)
(* Proofs about Cron, for any schedules, processes and periods, and any    *)
(* number of faults.                                                       *)
(*                                                                         *)
(* The argument follows the items that passes have in hand: a pass has at  *)
(* most one per schedule, only one pass has it unless the schedule is      *)
(* raced, and a job is counted for the current slot exactly while the pass *)
(* that inserted it has the row still to advance.                          *)
(***************************************************************************)
EXTENDS Cron, TLAPS

\* The schedule p has inserted a job for and not yet advanced.
Owes(p, n) == proc[p].inserted # None /\ proc[p].inserted.name = n

\* A pass has one item per schedule in hand.
OneEach ==
  \A p \in Proc :
    /\ \A i, j \in proc[p].batch : i.name = j.name => i = j
    /\ \A i \in proc[p].batch : ~Owes(p, i.name)

\* Two passes with the same schedule in hand make it raced.
Alone ==
  \A n \in Name \ raced : \A p, q \in Proc : Held(p, n) /\ Held(q, n) => p = q

\* A job counted for the current slot is one that a pass has yet to advance
\* past, or the row is gone.
CountedIsOwed ==
  \A n \in Name \ raced : fired[n] > 0 =>
    /\ fired[n] = 1
    /\ cron[n].exists => \E p \in Proc : Owes(p, n) /\ Current(proc[p].inserted)

\* And the other way round.
OwedIsCounted ==
  \A p \in Proc : proc[p].inserted # None /\ Current(proc[p].inserted) =>
    \/ fired[proc[p].inserted.name] > 0
    \/ proc[p].inserted.name \in raced \cup clobbered

\* What a pass will write to next_run_at fits the expression of the row.
SlotFits ==
  \A p \in Proc : \A i \in InHand(p) : i.name \in clobbered \/ i.slot <= cron[i.name].expr

IInv == TypeOK /\ OneEach /\ Alone /\ CountedIsOwed /\ OwedIsCounted /\ SlotFits
        /\ NextMatchesExpression

USE CronAssumption

-----------------------------------------------------------------------------
(* What steps do to the items in hand *)

\* A slot is at most one period away, and in the future.
LEMMA NextRange == ASSUME TypeOK, NEW e \in Expr PROVE Next_(e) \in Int /\ Next_(e) <= e
<1>1. clock \in Nat /\ e \in Nat \ {0}
  BY DEF TypeOK
<1>2. clock % e \in 0..(e - 1)
  BY <1>1
<1> QED
  BY <1>1, <1>2 DEF Next_

\* Time brings a slot no further than it was.
LEMMA EarlierRange ==
  ASSUME NEW t \in Int, NEW e \in Expr, t <= e
  PROVE  Earlier(t) \in Int /\ Earlier(t) <= e /\ (t <= 0 => Earlier(t) <= 0)
BY DEF Earlier

\* An item one unit of time later.
LEMMA ItemLater ==
  ASSUME NEW i \in Item
  PROVE  /\ Later(i) \in Item /\ Later(i).name = i.name /\ Later(i).id = i.id
         /\ Later(i).slot = Earlier(i.slot)
BY DEF Item, Earlier, Later

\* The parts of a process state.
LEMMA ProcFields ==
  ASSUME TypeOK, NEW p \in Proc
  PROVE  /\ proc[p] \in ProcState
         /\ proc[p].batch \subseteq Item
         /\ proc[p].inserted \in Item \cup {None}
         /\ proc[p].todo \subseteq Default
         /\ InHand(p) \subseteq Item
         /\ \A i \in InHand(p) : i.name \in Name
         /\ \A n : Held(p, n) <=> Owes(p, n) \/ \E i \in proc[p].batch : i.name = n
         /\ None \notin Item
<1>1. proc[p] \in ProcState
  BY DEF TypeOK
<1>2. /\ proc[p].batch \subseteq Item /\ proc[p].inserted \in Item \cup {None}
      /\ proc[p].todo \subseteq Default
  BY <1>1 DEF ProcState
<1>3. InHand(p) \subseteq Item
  BY <1>2 DEF InHand
<1>4. \A i \in InHand(p) : i.name \in Name
  BY <1>3 DEF Item
<1>5. \A n : Held(p, n) <=> Owes(p, n) \/ \E i \in proc[p].batch : i.name = n
  BY DEF Held, InHand, Owes
<1>6. None \notin Item
  BY DEF Item
<1> QED
  BY <1>1, <1>2, <1>3, <1>4, <1>5, <1>6

\* A step of p that only drops things in hand: the loops of boot and of a pass
\* going on, failed statements, and death.  An item dropped between its INSERT and
\* its UPDATE makes the schedule raced.
Drops(p) ==
  /\ UNCHANGED <<cron, fired, clobbered>>
  /\ \A q \in Proc : q # p => proc'[q] = proc[q]
  /\ proc'[p].batch \subseteq proc[p].batch
  /\ \/ proc'[p].inserted = proc[p].inserted /\ raced' = raced
     \/ /\ proc'[p].inserted = None /\ raced \subseteq raced'
        /\ proc[p].inserted # None => proc[p].inserted.name \in raced'

\* The invariant's parts apart from the types.
Sound == OneEach /\ Alone /\ CountedIsOwed /\ OwedIsCounted /\ SlotFits /\ NextMatchesExpression

\* Dropping items is harmless.
LEMMA DropsSound ==
  ASSUME IInv, NEW p \in Proc, Drops(p)
  PROVE  Sound'
<1>0. TypeOK /\ Sound
  BY DEF IInv, Sound
<1>1. /\ UNCHANGED <<cron, fired, clobbered>> /\ raced \subseteq raced'
      /\ \A q \in Proc : proc'[q].batch \subseteq proc[q].batch
      /\ \A q \in Proc : \/ proc'[q].inserted = proc[q].inserted
                          \/ /\ proc'[q].inserted = None
                             /\ proc[q].inserted # None => proc[q].inserted.name \in raced'
  BY DEF Drops
<1>2. \A q \in Proc : \A n :
                         /\ Held(q, n)' => Held(q, n)
                         /\ Owes(q, n)' => Owes(q, n) /\ proc'[q].inserted = proc[q].inserted
                         /\ Owes(q, n) => Owes(q, n)' \/ n \in raced'
  BY <1>1 DEF Held, InHand, Owes
<1>3. \A i : Current(i)' <=> Current(i)
  BY <1>1 DEF Current
<1>4. OneEach'
  BY <1>0, <1>1, <1>2 DEF Sound, OneEach
<1>5. Alone'
  BY <1>0, <1>1, <1>2 DEF Sound, Alone
<1>6. CountedIsOwed'
  <2>1. ASSUME NEW n \in Name \ raced', fired[n] > 0
        PROVE  /\ fired[n] = 1
               /\ cron[n].exists => \E q \in Proc : Owes(q, n)' /\ Current(proc[q].inserted)'
    <3>1. fired[n] = 1 /\ (cron[n].exists => \E q \in Proc : Owes(q, n) /\ Current(proc[q].inserted))
      BY <1>0, <1>1, <2>1 DEF Sound, CountedIsOwed
    <3> QED
      BY <1>2, <1>3, <2>1, <3>1 DEF Current
  <2> QED
    BY <1>1, <2>1 DEF CountedIsOwed
<1>7. OwedIsCounted'
  BY <1>0, <1>1, <1>3 DEF Sound, OwedIsCounted, Current
<1>8. SlotFits'
  <2>1. \A q \in Proc : InHand(q)' \subseteq InHand(q)
    BY <1>1 DEF InHand
  <2> QED
    BY <1>0, <1>1, <2>1 DEF Sound, SlotFits
<1>9. NextMatchesExpression'
  BY <1>0, <1>1 DEF Sound, NextMatchesExpression
<1> QED
  BY <1>4, <1>5, <1>6, <1>7, <1>8, <1>9 DEF Sound

\* Writing a schedule makes its slot fit, and marks it if a pass had the old row.
LEMMA StoreSound ==
  ASSUME IInv, NEW n \in Name, NEW e \in Expr, Store(n, e), UNCHANGED raced,
         \A p \in Proc : proc'[p].batch = proc[p].batch /\ proc'[p].inserted = proc[p].inserted
  PROVE  Sound'
<1>0. TypeOK /\ Sound
  BY DEF IInv, Sound
<1>1. \A p \in Proc : \A m :
                         /\ InHand(p)' = InHand(p)
                         /\ Held(p, m)' <=> Held(p, m)
                         /\ Owes(p, m)' <=> Owes(p, m)
  BY DEF Held, InHand, Owes
<1>2. /\ \A m \in Name : m # n => cron'[m] = cron[m] /\ fired'[m] = fired[m]
      /\ cron'[n] = UpsertRow(n, e) /\ fired'[n] = 0
      /\ clobbered \subseteq clobbered'
      /\ \A p \in Proc : Held(p, n) => n \in clobbered'
  BY <1>0 DEF Store, TypeOK
<1>3. cron'[n].expr = e /\ cron'[n].next = Next_(e)
  BY <1>2 DEF UpsertRow
<1>4. OneEach'
  BY <1>0, <1>1 DEF Sound, OneEach
<1>5. Alone'
  BY <1>0, <1>1 DEF Sound, Alone
<1>6. CountedIsOwed'
  <2>1. ASSUME NEW m \in Name \ raced, m # n, fired'[m] > 0
        PROVE  /\ fired'[m] = 1
               /\ cron'[m].exists => \E p \in Proc : Owes(p, m)' /\ Current(proc[p].inserted)'
    <3>1. fired[m] = 1 /\ (cron[m].exists => \E p \in Proc : Owes(p, m) /\ Current(proc[p].inserted))
      BY <1>0, <1>2, <2>1 DEF Sound, CountedIsOwed
    <3>2. \A p \in Proc : Owes(p, m) /\ Current(proc[p].inserted) => Current(proc[p].inserted)'
      BY <1>2, <2>1 DEF Owes, Current
    <3> QED
      BY <1>1, <1>2, <2>1, <3>1, <3>2
  <2> QED
    BY <1>2, <2>1 DEF CountedIsOwed
<1>7. OwedIsCounted'
  <2>1. ASSUME NEW p \in Proc, proc[p].inserted # None, Current(proc[p].inserted)'
        PROVE  fired'[proc[p].inserted.name] > 0 \/ proc[p].inserted.name \in raced \cup clobbered'
    <3>1. proc[p].inserted.name \in Name /\ Held(p, proc[p].inserted.name)
      BY <1>0, <2>1, ProcFields DEF Held, InHand
    <3>2. CASE proc[p].inserted.name = n
      BY <1>2, <3>1, <3>2
    <3>3. CASE proc[p].inserted.name # n
      <4>1. Current(proc[p].inserted)
        BY <1>2, <2>1, <3>1, <3>3 DEF Current
      <4> QED
        BY <1>0, <1>2, <2>1, <3>1, <3>3, <4>1 DEF Sound, OwedIsCounted
    <3> QED
      BY <3>2, <3>3
  <2> QED
    BY <2>1 DEF OwedIsCounted
<1>8. SlotFits'
  <2>1. ASSUME NEW p \in Proc, NEW i \in InHand(p)
        PROVE  i.name \in clobbered' \/ i.slot <= cron'[i.name].expr
    <3>1. i.name \in Name /\ Held(p, i.name)
      BY <1>0, ProcFields DEF Held
    <3> QED
      BY <1>0, <1>2, <3>1 DEF Sound, SlotFits
  <2> QED
    BY <1>1, <2>1 DEF SlotFits
<1>9. NextMatchesExpression'
  <2>1. cron'[n].next <= cron'[n].expr
    BY <1>0, <1>3, NextRange
  <2> QED
    BY <1>0, <1>2, <2>1 DEF Sound, NextMatchesExpression
<1> QED
  BY <1>4, <1>5, <1>6, <1>7, <1>8, <1>9 DEF Sound

\* Deleting or pausing a schedule leaves what is in hand as it is.
LEMMA EditSound ==
  ASSUME IInv, NEW n \in Name, Delete(n) \/ SetEnabled(n)
  PROVE  Sound'
<1>0. TypeOK /\ Sound
  BY DEF IInv, Sound
<1>1. UNCHANGED <<proc, fired, raced, clobbered>>
  BY DEF Delete, SetEnabled
<1>2. \A m \in Name : /\ cron'[m].id = cron[m].id /\ cron'[m].expr = cron[m].expr
                      /\ cron'[m].next = cron[m].next
                      /\ cron'[m].exists => cron[m].exists
  <2>1. cron \in [Name -> CronRow]
    BY <1>0 DEF TypeOK
  <2>2. CASE Delete(n)
    BY <2>1, <2>2 DEF Delete, CronRow
  <2>3. CASE SetEnabled(n)
    BY <2>1, <2>3 DEF SetEnabled, CronRow
  <2> QED
    BY <2>2, <2>3
<1>3. \A p \in Proc : \A m :
                         /\ InHand(p)' = InHand(p)
                         /\ Held(p, m)' <=> Held(p, m)
                         /\ Owes(p, m)' <=> Owes(p, m)
  BY <1>1 DEF Held, InHand, Owes
<1>4. OneEach' /\ Alone'
  BY <1>0, <1>1, <1>3 DEF Sound, OneEach, Alone
<1>5. CountedIsOwed'
  <2>1. ASSUME NEW m \in Name, cron'[m].exists, NEW p \in Proc, Owes(p, m), Current(proc[p].inserted)
        PROVE  Current(proc[p].inserted)'
    BY <1>1, <1>2, <2>1 DEF Owes, Current
  <2> QED
    BY <1>0, <1>1, <1>2, <1>3, <2>1 DEF Sound, CountedIsOwed
<1>6. OwedIsCounted'
  <2>1. ASSUME NEW p \in Proc, proc[p].inserted # None, Current(proc[p].inserted)'
        PROVE  Current(proc[p].inserted)
    <3>1. proc[p].inserted.name \in Name
      BY <1>0, <2>1, ProcFields DEF InHand
    <3> QED
      BY <1>1, <1>2, <2>1, <3>1 DEF Current
  <2> QED
    BY <1>0, <1>1, <2>1 DEF Sound, OwedIsCounted
<1>7. SlotFits'
  <2>1. \A p \in Proc : \A i \in InHand(p) : i.name \in Name
    BY <1>0, ProcFields
  <2> QED
    BY <1>0, <1>1, <1>2, <1>3, <2>1 DEF Sound, SlotFits
<1>8. NextMatchesExpression'
  BY <1>0, <1>1, <1>2 DEF Sound, NextMatchesExpression
<1> QED
  BY <1>4, <1>5, <1>6, <1>7, <1>8 DEF Sound

\* What a SELECT leaves its process with.
LEMMA SelectFields ==
  ASSUME TypeOK, NEW p \in Proc, NEW b \in SUBSET Item,
         proc' = [proc EXCEPT ![p].pc = "pass", ![p].batch = b]
  PROVE  /\ \A q \in Proc : q # p => proc'[q] = proc[q]
         /\ proc'[p].pc = "pass" /\ proc'[p].batch = b
         /\ proc'[p].inserted = proc[p].inserted /\ proc'[p].todo = proc[p].todo
         /\ proc' \in [Proc -> ProcState]
<1> DEFINE x == [proc[p] EXCEPT !.pc = "pass", !.batch = b]
<1>0. proc \in [Proc -> ProcState] /\ proc[p] \in ProcState
  BY DEF TypeOK
<1>1. proc' = [proc EXCEPT ![p] = x]
  BY <1>0
<1>2. /\ x \in ProcState /\ x.pc = "pass" /\ x.batch = b
      /\ x.inserted = proc[p].inserted /\ x.todo = proc[p].todo
  BY <1>0 DEF ProcState
<1> HIDE DEF x
<1> QED
  BY <1>0, <1>1, <1>2

\* What an INSERT leaves its process with.
LEMMA InsertFields ==
  ASSUME TypeOK, NEW p \in Proc, NEW i \in Item,
         proc' = [proc EXCEPT ![p].batch = @ \ {i}, ![p].inserted = i]
  PROVE  /\ \A q \in Proc : q # p => proc'[q] = proc[q]
         /\ proc'[p].pc = proc[p].pc /\ proc'[p].batch = proc[p].batch \ {i}
         /\ proc'[p].inserted = i /\ proc'[p].todo = proc[p].todo
         /\ proc' \in [Proc -> ProcState]
<1> DEFINE b == proc[p].batch \ {i}
           x == [proc[p] EXCEPT !.batch = b, !.inserted = i]
<1>0. proc \in [Proc -> ProcState] /\ proc[p] \in ProcState
  BY DEF TypeOK
<1>1. proc' = [proc EXCEPT ![p] = x]
  BY <1>0
<1>2. b \in SUBSET Item
  BY <1>0 DEF ProcState
<1>3. /\ x \in ProcState /\ x.pc = proc[p].pc /\ x.batch = b
      /\ x.inserted = i /\ x.todo = proc[p].todo
  <2> HIDE DEF b
  <2> QED
    BY <1>0, <1>2 DEF ProcState
<1> HIDE DEF x
<1> QED
  BY <1>0, <1>1, <1>3

\* What an UPDATE, or its failure, leaves its process with.
LEMMA AdvanceFields ==
  ASSUME TypeOK, NEW p \in Proc, proc' = [proc EXCEPT ![p].inserted = None]
  PROVE  /\ \A q \in Proc : q # p => proc'[q] = proc[q]
         /\ proc'[p].pc = proc[p].pc /\ proc'[p].batch = proc[p].batch
         /\ proc'[p].inserted = None /\ proc'[p].todo = proc[p].todo
         /\ proc' \in [Proc -> ProcState]
<1> DEFINE x == [proc[p] EXCEPT !.inserted = None]
<1>0. proc \in [Proc -> ProcState] /\ proc[p] \in ProcState
  BY DEF TypeOK
<1>1. proc' = [proc EXCEPT ![p] = x]
  BY <1>0
<1>2. /\ x \in ProcState /\ x.pc = proc[p].pc /\ x.batch = proc[p].batch
      /\ x.inserted = None /\ x.todo = proc[p].todo
  BY <1>0 DEF ProcState
<1> HIDE DEF x
<1> QED
  BY <1>0, <1>1, <1>2

\* A pass begins with one item per due schedule, and races with those who have
\* one of them in hand already.
LEMMA SelectSound ==
  ASSUME IInv, NEW p \in Proc, SelectDue(p)
  PROVE  Sound' /\ proc' \in [Proc -> ProcState]
<1> DEFINE due == {n \in Name : Due(n)}
           b == {[name |-> n, id |-> cron[n].id, slot |-> Next_(cron[n].expr)] : n \in due}
<1>0. TypeOK /\ Sound
  BY DEF IInv, Sound
<1>1. \A n \in Name : cron[n].id \in Nat /\ cron[n].expr \in Expr
  BY <1>0 DEF TypeOK, CronRow
<1>2. b \in SUBSET Item
  <2>1. \A n \in Name : Next_(cron[n].expr) \in Int
    BY <1>0, <1>1, NextRange
  <2> QED
    BY <1>1, <2>1 DEF Item
<1>3. \A i \in b : i.name \in due /\ i.slot = Next_(cron[i.name].expr)
  OBVIOUS
<1>4. \A i, j \in b : i.name = j.name => i = j
  OBVIOUS
<1>5. proc' = [proc EXCEPT ![p].pc = "pass", ![p].batch = b]
      /\ raced' = raced \cup {n \in due : \E q \in Proc : Held(q, n)}
      /\ UNCHANGED <<cron, fired, clobbered>> /\ proc[p].pc = "idle"
  BY DEF SelectDue
<1> HIDE DEF b
<1>6. /\ \A q \in Proc : q # p => proc'[q] = proc[q]
      /\ proc'[p].batch = b /\ proc'[p].inserted = proc[p].inserted
      /\ proc' \in [Proc -> ProcState]
  BY <1>0, <1>2, <1>5, SelectFields
<1>7. InHand(p) = {}
  BY <1>0, <1>5 DEF TypeOK
<1>8. proc[p].batch = {} /\ proc[p].inserted = None
  BY <1>7 DEF InHand
<1>9. /\ \A q \in Proc : q # p => \A n : Held(q, n)' <=> Held(q, n)
      /\ \A n : Held(p, n)' => \E i \in b : i.name = n
      /\ \A q \in Proc : \A n : Owes(q, n)' <=> Owes(q, n)
      /\ \A q \in Proc : proc'[q].inserted = proc[q].inserted
  BY <1>6, <1>8 DEF Held, InHand, Owes
<1>10. OneEach'
  BY <1>0, <1>4, <1>6, <1>8, <1>9 DEF Sound, OneEach, Owes
<1>11. Alone'
  <2>1. \A n \in Name \ raced' : Held(p, n)' => \A q \in Proc : ~Held(q, n)
    BY <1>3, <1>5, <1>9
  <2> QED
    BY <1>0, <1>5, <1>9, <2>1 DEF Sound, Alone
<1>12. CountedIsOwed' /\ OwedIsCounted'
  <2>1. \A q \in Proc : Current(proc[q].inserted)' <=> Current(proc[q].inserted)
    BY <1>5, <1>9 DEF Current
  <2>2. CountedIsOwed'
    BY <1>0, <1>5, <1>9, <2>1 DEF Sound, CountedIsOwed
  <2>3. ASSUME NEW q \in Proc, proc'[q].inserted # None, Current(proc[q].inserted)'
        PROVE  fired'[proc'[q].inserted.name] > 0 \/ proc'[q].inserted.name \in (raced \cup clobbered)'
    <3>1. /\ proc'[q].inserted = proc[q].inserted /\ raced \subseteq raced'
          /\ fired' = fired /\ clobbered' = clobbered
      BY <1>5, <1>9
    <3>2. fired[proc[q].inserted.name] > 0 \/ proc[q].inserted.name \in raced \cup clobbered
      BY <1>0, <2>1, <2>3, <3>1 DEF Sound, OwedIsCounted
    <3> QED
      BY <3>1, <3>2
  <2>4. OwedIsCounted'
    BY <2>3 DEF OwedIsCounted
  <2> QED
    BY <2>2, <2>4
<1>13. SlotFits'
  <2>1. ASSUME NEW q \in Proc, NEW i \in InHand(q)'
        PROVE  i.name \in clobbered \/ i.slot <= cron[i.name].expr
    <3>1. CASE q = p
      <4>1. i \in b
        BY <1>6, <1>8, <3>1 DEF InHand
      <4> QED
        BY <1>0, <1>1, <1>3, <4>1, NextRange
    <3>2. CASE q # p
      <4>1. i \in InHand(q)
        BY <1>6, <3>2 DEF InHand
      <4> QED
        BY <1>0, <4>1 DEF Sound, SlotFits
    <3> QED
      BY <3>1, <3>2
  <2> QED
    BY <1>5, <2>1 DEF SlotFits
<1>14. NextMatchesExpression'
  BY <1>0, <1>5 DEF Sound, NextMatchesExpression
<1> QED
  BY <1>6, <1>10, <1>11, <1>12, <1>13, <1>14 DEF Sound

\* An INSERT counts a job for the row's slot, once.
LEMMA InsertSound ==
  ASSUME IInv, NEW p \in Proc, Insert(p)
  PROVE  Sound' /\ proc' \in [Proc -> ProcState] /\ fired' \in [Name -> 0..2]
<1>0. TypeOK /\ Sound
  BY DEF IInv, Sound
<1>1. PICK i \in proc[p].batch :
        /\ proc' = [proc EXCEPT ![p].batch = @ \ {i}, ![p].inserted = i]
        /\ fired' = [fired EXCEPT ![i.name] = IF Current(i) /\ @ < 2 THEN @ + 1 ELSE @]
  BY DEF Insert
<1>2. proc[p].inserted = None /\ UNCHANGED <<cron, raced, clobbered>>
  BY DEF Insert
<1>3. i \in Item /\ i # None /\ i.name \in Name /\ i \in InHand(p)
  BY <1>0, ProcFields DEF InHand
<1>4. /\ \A q \in Proc : q # p => proc'[q] = proc[q]
      /\ proc'[p].batch = proc[p].batch \ {i} /\ proc'[p].inserted = i
      /\ proc' \in [Proc -> ProcState]
  BY <1>0, <1>1, <1>3, InsertFields
<1>5. fired \in [Name -> 0..2]
  BY <1>0 DEF TypeOK
<1>6. /\ fired' \in [Name -> 0..2]
      /\ \A n \in Name : n # i.name => fired'[n] = fired[n]
      /\ fired'[i.name] >= fired[i.name]
      /\ Current(i) => fired'[i.name] > 0
      /\ Current(i) /\ fired[i.name] = 0 => fired'[i.name] = 1
      /\ ~Current(i) => fired'[i.name] = fired[i.name]
  BY <1>1, <1>3, <1>5
<1>7. \A q \in Proc : InHand(q)' = InHand(q)
  BY <1>2, <1>3, <1>4 DEF InHand
<1>8. \A q \in Proc : \A n : Held(q, n)' <=> Held(q, n)
  BY <1>7 DEF Held
<1>9. \A j : Current(j)' <=> Current(j)
  BY <1>2 DEF Current
<1>10. OneEach'
  <2>1. \A q \in Proc : \A n : q # p => (Owes(q, n)' <=> Owes(q, n))
    BY <1>4 DEF Owes
  <2>2. \A n : Owes(p, n)' <=> n = i.name
    BY <1>3, <1>4 DEF Owes
  <2>3. \A j \in proc[p].batch : j # i => j.name # i.name
    BY <1>0 DEF Sound, OneEach
  <2> QED
    BY <1>0, <1>4, <2>1, <2>2, <2>3 DEF Sound, OneEach
<1>11. Alone'
  BY <1>0, <1>2, <1>8 DEF Sound, Alone
<1>12. CountedIsOwed'
  <2>1. ASSUME NEW n \in Name \ raced, fired'[n] > 0
        PROVE  /\ fired'[n] = 1
               /\ cron[n].exists => \E q \in Proc : Owes(q, n)' /\ Current(proc[q].inserted)'
    <3>1. CASE n = i.name
      <4>1. ~(cron[n].exists /\ fired[n] > 0)
        <5>1. SUFFICES ASSUME cron[n].exists, fired[n] > 0 PROVE FALSE
          OBVIOUS
        <5>2. PICK q \in Proc : Owes(q, n)
          BY <1>0, <5>1 DEF Sound, CountedIsOwed
        <5>3. Held(q, n) /\ Held(p, n)
          BY <1>3, <3>1, <5>2 DEF Owes, Held, InHand
        <5> QED
          BY <1>0, <1>2, <5>2, <5>3 DEF Sound, Alone, Owes
      <4>2. CASE Current(i)
        <5>1. cron[n].exists /\ fired[n] = 0
          BY <1>5, <3>1, <4>1, <4>2 DEF Current
        <5>2. Owes(p, n)' /\ Current(proc[p].inserted)'
          BY <1>2, <1>3, <1>4, <3>1, <4>2 DEF Owes, Current
        <5> QED
          BY <1>6, <3>1, <4>2, <5>1, <5>2
      <4>3. CASE ~Current(i)
        <5>1. fired[n] > 0 /\ ~cron[n].exists
          BY <1>6, <2>1, <3>1, <4>1, <4>3
        <5> QED
          BY <1>0, <1>6, <3>1, <4>3, <5>1 DEF Sound, CountedIsOwed
      <4> QED
        BY <4>2, <4>3
    <3>2. CASE n # i.name
      <4>1. fired[n] = 1 /\ (cron[n].exists => \E q \in Proc : Owes(q, n) /\ Current(proc[q].inserted))
        BY <1>0, <1>6, <2>1, <3>2 DEF Sound, CountedIsOwed
      <4>2. \A q \in Proc : Owes(q, n) /\ Current(proc[q].inserted) => Owes(q, n)' /\ Current(proc[q].inserted)'
        BY <1>2, <1>4 DEF Owes, Current
      <4> QED
        BY <1>6, <3>2, <4>1, <4>2
    <3> QED
      BY <3>1, <3>2
  <2> QED
    BY <1>2, <2>1 DEF CountedIsOwed
<1>13. OwedIsCounted'
  <2>1. ASSUME NEW q \in Proc, proc'[q].inserted # None, Current(proc[q].inserted)'
        PROVE  fired'[proc'[q].inserted.name] > 0 \/ proc'[q].inserted.name \in raced \cup clobbered
    <3>1. CASE q = p
      <4>1. Current(i)
        BY <1>2, <1>4, <2>1, <3>1 DEF Current
      <4> QED
        BY <1>4, <1>6, <3>1, <4>1
    <3>2. CASE q # p
      <4>1. proc'[q].inserted = proc[q].inserted /\ Current(proc[q].inserted)
        BY <1>2, <1>4, <2>1, <3>2 DEF Current
      <4>2. proc[q].inserted.name \in Name
        BY <1>0, <2>1, <4>1, ProcFields DEF InHand
      <4>3. fired'[proc[q].inserted.name] >= fired[proc[q].inserted.name]
        BY <1>5, <1>6, <4>2
      <4> QED
        BY <1>0, <1>5, <1>6, <2>1, <4>1, <4>2, <4>3 DEF Sound, OwedIsCounted
    <3> QED
      BY <3>1, <3>2
  <2> QED
    BY <1>2, <2>1 DEF OwedIsCounted
<1>14. SlotFits' /\ NextMatchesExpression'
  BY <1>0, <1>2, <1>7 DEF Sound, SlotFits, NextMatchesExpression
<1> QED
  BY <1>4, <1>6, <1>10, <1>11, <1>12, <1>13, <1>14 DEF Sound

\* An UPDATE ends the slot, with a slot of the row's expression; it misses a row
\* that is gone.
LEMMA AdvanceSound ==
  ASSUME IInv, NEW p \in Proc, Advance(p)
  PROVE  /\ Sound' /\ proc' \in [Proc -> ProcState] /\ fired' \in [Name -> 0..2]
         /\ cron' \in [Name -> CronRow] /\ \A n \in Name : cron'[n].id = cron[n].id
<1>0. TypeOK /\ Sound
  BY DEF IInv, Sound
<1>1. PICK i : i = proc[p].inserted
  OBVIOUS
<1>2. i # None /\ proc' = [proc EXCEPT ![p].inserted = None] /\ UNCHANGED <<raced, clobbered>>
  BY <1>1 DEF Advance
<1>3. i \in Item /\ i.name \in Name /\ i.slot \in Int /\ i \in InHand(p) /\ Owes(p, i.name) /\ Held(p, i.name)
  <2>1. i \in Item
    BY <1>0, <1>1, <1>2, ProcFields
  <2>2. i.name \in Name /\ i.slot \in Int
    BY <2>1 DEF Item
  <2> QED
    BY <1>1, <1>2, <2>1, <2>2 DEF InHand, Owes, Held
<1>4. /\ \A q \in Proc : q # p => proc'[q] = proc[q]
      /\ proc'[p].batch = proc[p].batch /\ proc'[p].inserted = None
      /\ proc' \in [Proc -> ProcState]
  BY <1>0, <1>2, AdvanceFields
<1>5. /\ cron' \in [Name -> CronRow] /\ fired' \in [Name -> 0..2]
      /\ \A n \in Name : /\ cron'[n].id = cron[n].id /\ cron'[n].exists = cron[n].exists
                         /\ cron'[n].expr = cron[n].expr
      /\ \A n \in Name : n # i.name => cron'[n] = cron[n] /\ fired'[n] = fired[n]
      /\ Current(i) => fired'[i.name] = 0 /\ cron'[i.name].next = i.slot
      /\ ~Current(i) => fired' = fired /\ cron' = cron
  <2>1. cron \in [Name -> CronRow] /\ fired \in [Name -> 0..2]
    BY <1>0 DEF TypeOK
  <2>2. CASE Current(i)
    <3>1. cron' = [cron EXCEPT ![i.name].next = i.slot] /\ fired' = [fired EXCEPT ![i.name] = 0]
      BY <1>1, <2>2 DEF Advance
    <3>2. cron' = [cron EXCEPT ![i.name] = [cron[i.name] EXCEPT !.next = i.slot]]
      BY <2>1, <3>1
    <3> DEFINE x == [cron[i.name] EXCEPT !.next = i.slot]
    <3>3. /\ x \in CronRow /\ x.id = cron[i.name].id /\ x.exists = cron[i.name].exists
          /\ x.expr = cron[i.name].expr /\ x.next = i.slot
      <4>1. cron[i.name] \in CronRow
        BY <1>3, <2>1
      <4> QED
        BY <1>3, <4>1 DEF CronRow
    <3>4. fired' \in [Name -> 0..2] /\ fired'[i.name] = 0 /\ \A n \in Name : n # i.name => fired'[n] = fired[n]
      BY <1>3, <2>1, <3>1
    <3> HIDE DEF x
    <3>5. /\ cron' \in [Name -> CronRow] /\ cron'[i.name] = x
          /\ \A n \in Name : n # i.name => cron'[n] = cron[n]
      BY <1>3, <2>1, <3>2, <3>3 DEF x
    <3> QED
      BY <2>2, <3>3, <3>4, <3>5
  <2>3. CASE ~Current(i)
    <3>1. cron' = cron /\ fired' = fired
      BY <1>1, <2>3 DEF Advance
    <3> QED
      BY <2>1, <2>3, <3>1
  <2> QED
    BY <2>2, <2>3
<1>6. \A j : j.name \in Name => (Current(j)' <=> Current(j))
  BY <1>5 DEF Current
<1>7. /\ \A q \in Proc : InHand(q)' \subseteq InHand(q)
      /\ \A q \in Proc : \A n :
                            /\ Held(q, n)' => Held(q, n)
                            /\ Owes(q, n)' <=> q # p /\ Owes(q, n)
  BY <1>4 DEF InHand, Held, Owes
<1>8. OneEach'
  <2>1. \A q \in Proc : proc'[q].batch = proc[q].batch
    BY <1>4
  <2> QED
    BY <1>0, <1>7, <2>1 DEF Sound, OneEach
<1>9. Alone'
  BY <1>0, <1>2, <1>7 DEF Sound, Alone
<1>10. CountedIsOwed'
  <2>1. ASSUME NEW n \in Name \ raced, fired'[n] > 0
        PROVE  /\ fired'[n] = 1
               /\ cron'[n].exists => \E q \in Proc : Owes(q, n)' /\ Current(proc[q].inserted)'
    <3>1. ~(Current(i) /\ n = i.name) /\ fired'[n] = fired[n]
      BY <1>5, <2>1
    <3>2. fired[n] = 1 /\ (cron[n].exists => \E q \in Proc : Owes(q, n) /\ Current(proc[q].inserted))
      BY <1>0, <2>1, <3>1 DEF Sound, CountedIsOwed
    <3>3. ASSUME NEW q \in Proc, Owes(q, n), Current(proc[q].inserted)
          PROVE  Owes(q, n)' /\ Current(proc[q].inserted)'
      <4>1. q # p
        BY <1>1, <3>1, <3>3 DEF Owes
      <4>2. proc'[q].inserted = proc[q].inserted
        BY <1>4, <4>1
      <4> QED
        BY <1>5, <1>7, <3>3, <4>1, <4>2 DEF Owes, Current
    <3> QED
      BY <1>5, <3>1, <3>2, <3>3
  <2> QED
    BY <1>2, <2>1 DEF CountedIsOwed
<1>11. OwedIsCounted'
  <2>1. ASSUME NEW q \in Proc, proc'[q].inserted # None, Current(proc[q].inserted)'
        PROVE  fired'[proc'[q].inserted.name] > 0 \/ proc'[q].inserted.name \in raced \cup clobbered
    <3>1. q # p /\ proc'[q].inserted = proc[q].inserted
      BY <1>4, <2>1
    <3>2. proc[q].inserted.name \in Name /\ Held(q, proc[q].inserted.name)
      BY <1>0, <2>1, <3>1, ProcFields DEF InHand, Held
    <3>3. Current(proc[q].inserted)
      BY <1>5, <2>1, <3>1, <3>2 DEF Current
    <3>4. fired[proc[q].inserted.name] > 0 \/ proc[q].inserted.name \in raced \cup clobbered
      BY <1>0, <2>1, <3>1, <3>3 DEF Sound, OwedIsCounted
    <3>5. CASE proc[q].inserted.name = i.name
      BY <1>0, <1>3, <3>1, <3>2, <3>5 DEF Sound, Alone
    <3>6. CASE proc[q].inserted.name # i.name
      BY <1>5, <3>1, <3>2, <3>4, <3>6
    <3> QED
      BY <3>5, <3>6
  <2> QED
    BY <1>2, <2>1 DEF OwedIsCounted
<1>12. SlotFits'
  <2>1. \A q \in Proc : \A j \in InHand(q) : j.name \in Name
    BY <1>0, ProcFields
  <2> QED
    BY <1>0, <1>2, <1>5, <1>7, <2>1 DEF Sound, SlotFits
<1>13. NextMatchesExpression'
  <2>1. ASSUME NEW n \in Name \ clobbered, cron'[n].exists
        PROVE  cron'[n].next <= cron'[n].expr
    <3>1. CASE n = i.name /\ Current(i)
      <4>1. i.slot <= cron[n].expr
        BY <1>0, <1>3, <2>1, <3>1 DEF Sound, SlotFits
      <4> QED
        BY <1>5, <3>1, <4>1
    <3>2. CASE ~(n = i.name /\ Current(i))
      <4>1. cron'[n] = cron[n]
        BY <1>5, <3>2
      <4> QED
        BY <1>0, <2>1, <4>1 DEF Sound, NextMatchesExpression
    <3> QED
      BY <3>1, <3>2
  <2> QED
    BY <1>2, <2>1 DEF NextMatchesExpression
<1> QED
  BY <1>4, <1>5, <1>8, <1>9, <1>10, <1>11, <1>12, <1>13 DEF Sound

\* Time moves slots, and nothing else of what is in hand.
LEMMA TickSound ==
  ASSUME IInv, Tick
  PROVE  /\ Sound' /\ proc' \in [Proc -> ProcState] /\ cron' \in [Name -> CronRow]
         /\ \A n \in Name : cron'[n].id = cron[n].id /\ (cron[n].next <= 0 => cron'[n].next <= 0)
         /\ \A p \in Proc : proc'[p].pc = proc[p].pc /\ proc'[p].todo = proc[p].todo
         /\ \A p \in Proc : \A j \in InHand(p)' : \E i \in InHand(p) : j.name = i.name /\ j.id = i.id
<1>0. TypeOK /\ Sound
  BY DEF IInv, Sound
<1>1. UNCHANGED <<fired, raced, clobbered>>
  BY DEF Tick
<1>2. \A n \in Name : cron[n] \in CronRow /\ cron'[n] = [cron[n] EXCEPT !.next = Earlier(@)]
  BY <1>0 DEF Tick, TypeOK
<1>3. /\ cron' \in [Name -> CronRow]
      /\ \A n \in Name : /\ cron'[n].id = cron[n].id /\ cron'[n].exists = cron[n].exists
                         /\ cron'[n].expr = cron[n].expr /\ cron'[n].next = Earlier(cron[n].next)
                         /\ cron[n].next \in Int /\ cron[n].expr \in Expr
  <2>1. ASSUME NEW n \in Name
        PROVE  /\ cron'[n] \in CronRow
               /\ cron'[n].id = cron[n].id /\ cron'[n].exists = cron[n].exists
               /\ cron'[n].expr = cron[n].expr /\ cron'[n].next = Earlier(cron[n].next)
               /\ cron[n].next \in Int /\ cron[n].expr \in Expr
    <3>1. cron[n].next \in Int
      BY <1>2 DEF CronRow
    <3>2. Earlier(cron[n].next) \in Int
      BY <3>1 DEF Earlier
    <3> QED
      BY <1>2, <3>1, <3>2 DEF CronRow
  <2> QED
    BY <2>1 DEF Tick
<1>4. ASSUME NEW p \in Proc
      PROVE  /\ proc'[p] \in ProcState /\ proc'[p].pc = proc[p].pc /\ proc'[p].todo = proc[p].todo
             /\ proc'[p].batch = {Later(i) : i \in proc[p].batch}
             /\ proc'[p].inserted = IF proc[p].inserted = None THEN None ELSE Later(proc[p].inserted)
  <2> DEFINE b == {Later(i) : i \in proc[p].batch}
             t == IF proc[p].inserted = None THEN None ELSE Later(proc[p].inserted)
             x == [proc[p] EXCEPT !.batch = b, !.inserted = t]
  <2>1. proc[p] \in ProcState /\ proc[p].batch \subseteq Item /\ proc[p].inserted \in Item \cup {None}
    BY <1>0, ProcFields
  <2>2. \A i \in Item : Later(i) \in Item
    BY ItemLater
  <2>3. b \in SUBSET Item /\ t \in Item \cup {None}
    BY <2>1, <2>2
  <2>4. proc'[p] = x
    BY DEF Tick
  <2> HIDE DEF b, t
  <2>5. /\ x \in ProcState /\ x.pc = proc[p].pc /\ x.todo = proc[p].todo
        /\ x.batch = b /\ x.inserted = t
    BY <2>1, <2>3 DEF ProcState
  <2> QED
    BY <2>4, <2>5 DEF b, t
<1>5. proc' \in [Proc -> ProcState]
  BY <1>4 DEF Tick
<1>6. \A i \in Item : /\ Later(i) \in Item /\ Later(i) # None /\ Later(i).name = i.name /\ Later(i).id = i.id
                      /\ Later(i).slot = Earlier(i.slot) /\ i.slot \in Int
  <2>1. None \notin Item /\ \A i \in Item : i.slot \in Int
    BY DEF Item
  <2> QED
    BY <2>1, ItemLater
<1>7. \A p \in Proc : InHand(p)' = {Later(i) : i \in InHand(p)}
  <2>1. ASSUME NEW p \in Proc PROVE InHand(p)' = {Later(i) : i \in InHand(p)}
    <3>1. proc[p].inserted \in Item \cup {None}
      BY <1>0, ProcFields
    <3>2. InHand(p)' = proc'[p].batch \cup ({proc'[p].inserted} \ {None})
      BY DEF InHand
    <3>3. CASE proc[p].inserted = None
      BY <1>4, <3>2, <3>3 DEF InHand
    <3>4. CASE proc[p].inserted # None
      <4>1. proc'[p].inserted = Later(proc[p].inserted) /\ proc'[p].inserted # None
        BY <1>4, <1>6, <3>1, <3>4
      <4> QED
        BY <1>4, <3>2, <3>4, <4>1 DEF InHand
    <3> QED
      BY <3>3, <3>4
  <2> QED
    BY <2>1
<1>8. \A p \in Proc : InHand(p) \subseteq Item
  BY <1>0, ProcFields
<1>9. \A p \in Proc : \A n : Held(p, n)' <=> Held(p, n)
  BY <1>6, <1>7, <1>8 DEF Held
<1>10. ASSUME NEW p \in Proc
       PROVE  /\ proc'[p].inserted = None <=> proc[p].inserted = None
              /\ proc[p].inserted # None =>
                   /\ proc[p].inserted.name \in Name
                   /\ proc'[p].inserted.name = proc[p].inserted.name
                   /\ proc'[p].inserted.id = proc[p].inserted.id
  <2>1. proc[p].inserted \in Item \cup {None}
    BY <1>0, ProcFields
  <2>2. CASE proc[p].inserted = None
    BY <1>4, <2>2
  <2>3. CASE proc[p].inserted # None
    <3>1. proc'[p].inserted = Later(proc[p].inserted) /\ proc[p].inserted \in Item
      BY <1>4, <2>1, <2>3
    <3>2. proc[p].inserted.name \in Name
      BY <3>1 DEF Item
    <3> QED
      BY <1>6, <3>1, <3>2, <2>3
  <2> QED
    BY <2>2, <2>3
<1>11. \A p \in Proc : \A n : Owes(p, n)' <=> Owes(p, n)
  BY <1>10 DEF Owes
<1>12. \A p \in Proc : proc[p].inserted # None => (Current(proc[p].inserted)' <=> Current(proc[p].inserted))
  BY <1>3, <1>10 DEF Current
<1>13. OneEach'
  <2>1. ASSUME NEW p \in Proc, NEW i \in proc'[p].batch, NEW j \in proc'[p].batch, i.name = j.name
        PROVE  i = j
    <3>1. PICK k \in proc[p].batch : i = Later(k)
      BY <1>4
    <3>2. PICK l \in proc[p].batch : j = Later(l)
      BY <1>4
    <3>3. k \in Item /\ l \in Item
      BY <1>8 DEF InHand
    <3>4. k.name = l.name
      BY <1>6, <2>1, <3>1, <3>2, <3>3
    <3> QED
      BY <1>0, <3>1, <3>2, <3>4 DEF Sound, OneEach
  <2>2. ASSUME NEW p \in Proc, NEW i \in proc'[p].batch
        PROVE  ~Owes(p, i.name)
    <3>1. PICK k \in proc[p].batch : i = Later(k)
      BY <1>4
    <3>2. k \in Item
      BY <1>8 DEF InHand
    <3>3. i.name = k.name
      BY <1>6, <3>1, <3>2
    <3> QED
      BY <1>0, <3>3 DEF Sound, OneEach
  <2>3. ASSUME NEW p \in Proc, NEW i \in proc'[p].batch
        PROVE  ~Owes(p, i.name)'
    <3>1. PICK n : n = i.name
      OBVIOUS
    <3>2. ~Owes(p, n)
      BY <2>2, <3>1
    <3> QED
      BY <1>11, <3>1, <3>2 DEF Owes
  <2> QED
    BY <2>1, <2>3 DEF OneEach
<1>14. Alone'
  BY <1>0, <1>1, <1>9 DEF Sound, Alone
<1>15. CountedIsOwed'
  <2>1. \A p \in Proc : \A n : Owes(p, n) /\ Current(proc[p].inserted) => Owes(p, n)' /\ Current(proc[p].inserted)'
    BY <1>11, <1>12 DEF Owes
  <2> QED
    BY <1>0, <1>1, <1>3, <2>1 DEF Sound, CountedIsOwed
<1>16. OwedIsCounted'
  BY <1>0, <1>1, <1>10, <1>12 DEF Sound, OwedIsCounted
<1>17. SlotFits'
  <2>1. ASSUME NEW p \in Proc, NEW j \in InHand(p)'
        PROVE  j.name \in clobbered \/ j.slot <= cron'[j.name].expr
    <3>1. PICK i \in InHand(p) : j = Later(i)
      BY <1>7
    <3>2. i \in Item /\ i.name \in Name
      BY <1>0, <1>8, ProcFields
    <3>3. i.name \in clobbered \/ i.slot <= cron[i.name].expr
      BY <1>0 DEF Sound, SlotFits
    <3>4. i.slot <= cron[i.name].expr => Earlier(i.slot) <= cron[i.name].expr
      BY <1>3, <1>6, <3>2, EarlierRange
    <3> QED
      BY <1>3, <1>6, <3>1, <3>2, <3>3, <3>4
  <2> QED
    BY <1>1, <2>1 DEF SlotFits
<1>18. NextMatchesExpression'
  <2>1. \A n \in Name : cron[n].next <= cron[n].expr => Earlier(cron[n].next) <= cron[n].expr
    BY <1>3, EarlierRange
  <2> QED
    BY <1>0, <1>1, <1>3, <2>1 DEF Sound, NextMatchesExpression
<1>19. \A n \in Name : cron[n].next <= 0 => cron'[n].next <= 0
  BY <1>3 DEF Earlier
<1>20. \A p \in Proc : \A j \in InHand(p)' : \E i \in InHand(p) : j.name = i.name /\ j.id = i.id
  BY <1>6, <1>7, <1>8
<1> QED
  BY <1>3, <1>4, <1>5, <1>13, <1>14, <1>15, <1>16, <1>17, <1>18, <1>19, <1>20 DEF Sound

-----------------------------------------------------------------------------
(* Types *)

\* The parts of the type invariant that tie what is in hand to the process and to
\* the table.
LEMMA TypeParts ==
  ASSUME NEW p \in Proc, TypeOK
  PROVE  /\ proc \in [Proc -> ProcState] /\ cron \in [Name -> CronRow]
         /\ proc[p] \in ProcState
         /\ proc[p].pc # "seeding" => proc[p].todo = {}
         /\ proc[p].pc # "pass" => proc[p].batch = {} /\ proc[p].inserted = None
         /\ \A i \in proc[p].batch : i \in Item /\ i.name \in Name /\ i.id <= cron[i.name].id
         /\ proc[p].inserted # None =>
              /\ proc[p].inserted \in Item /\ proc[p].inserted.name \in Name
              /\ proc[p].inserted.id <= cron[proc[p].inserted.name].id
<1>1. proc \in [Proc -> ProcState] /\ cron \in [Name -> CronRow] /\ proc[p] \in ProcState
  BY DEF TypeOK
<1>2. /\ proc[p].todo # {} => proc[p].pc = "seeding"
      /\ InHand(p) # {} => proc[p].pc = "pass"
      /\ \A i \in InHand(p) : i.id <= cron[i.name].id
  BY DEF TypeOK
<1>3. InHand(p) \subseteq Item /\ \A i \in InHand(p) : i.name \in Name
  BY ProcFields
<1> QED
  BY <1>1, <1>2, <1>3 DEF InHand

\* A process that drops things, or goes on with its loop, keeps the types.
LEMMA DropsType ==
  ASSUME TypeOK, NEW p \in Proc, NEW x, proc' = [proc EXCEPT ![p] = x], x \in ProcState,
         x.todo # {} => x.pc = "seeding",
         x.batch # {} \/ x.inserted # None => x.pc = "pass",
         x.batch \subseteq proc[p].batch,
         x.inserted = proc[p].inserted \/ x.inserted = None,
         cron' = cron, fired' = fired, clobbered' = clobbered, clock' = clock,
         faults' \in 0..MaxFaults, raced' \subseteq Name
  PROVE  TypeOK'
<1>0. proc \in [Proc -> ProcState]
  BY DEF TypeOK
<1>1. proc' \in [Proc -> ProcState] /\ proc'[p] = x /\ \A q \in Proc : q # p => proc'[q] = proc[q]
  BY <1>0
<1>2. \A q \in Proc : q # p => InHand(q)' = InHand(q)
  BY <1>1 DEF InHand
<1>3. InHand(p)' = x.batch \cup ({x.inserted} \ {None}) /\ InHand(p)' \subseteq InHand(p)
  BY <1>1 DEF InHand
<1>4. \A q \in Proc : proc'[q].todo # {} => proc'[q].pc = "seeding"
  BY <1>1 DEF TypeOK
<1>5. \A q \in Proc : InHand(q)' # {} => proc'[q].pc = "pass"
  BY <1>1, <1>2, <1>3 DEF TypeOK
<1>6. \A q \in Proc : \A i \in InHand(q)' : i.id <= cron[i.name].id
  BY <1>2, <1>3 DEF TypeOK
<1>7. clock' \in 0..(Cycle - 1) /\ cron' \in [Name -> CronRow] /\ fired' \in [Name -> 0..2] /\ clobbered' \subseteq Name
  BY DEF TypeOK
<1> QED
  BY <1>1, <1>4, <1>5, <1>6, <1>7 DEF TypeOK

\* The same with the rest of the invariant.
LEMMA DropsKeep ==
  ASSUME IInv, NEW p \in Proc, NEW x, proc' = [proc EXCEPT ![p] = x], x \in ProcState,
         x.todo # {} => x.pc = "seeding",
         x.batch # {} \/ x.inserted # None => x.pc = "pass",
         x.batch \subseteq proc[p].batch,
         cron' = cron, fired' = fired, clobbered' = clobbered, clock' = clock,
         faults' \in 0..MaxFaults, raced' \subseteq Name, raced \subseteq raced',
         \/ x.inserted = proc[p].inserted /\ raced' = raced
         \/ x.inserted = None /\ (proc[p].inserted # None => proc[p].inserted.name \in raced')
  PROVE  IInv'
<1>1. TypeOK
  BY DEF IInv
<1>2. TypeOK'
  BY <1>1, DropsType
<1>3. proc'[p] = x /\ \A q \in Proc : q # p => proc'[q] = proc[q]
  BY <1>1 DEF TypeOK
<1>4. Drops(p)
  BY <1>3 DEF Drops
<1>5. Sound'
  BY <1>4, DropsSound
<1> QED
  BY <1>2, <1>5 DEF IInv, Sound

\* A process boots, ends its seeding, ends a pass.
LEMMA LoopKeeps ==
  ASSUME IInv, NEW p \in Proc,
         Boot(p) \/ PassDone(p) \/ (Seed(p) /\ proc[p].todo = {})
  PROVE  IInv'
<1>0. TypeOK
  BY DEF IInv
<1>1. /\ proc \in [Proc -> ProcState] /\ proc[p] \in ProcState
      /\ proc[p].pc # "seeding" => proc[p].todo = {}
      /\ proc[p].pc # "pass" => proc[p].batch = {} /\ proc[p].inserted = None
  BY <1>0, TypeParts
<1>2. faults \in 0..MaxFaults /\ raced \subseteq Name
  BY <1>0 DEF TypeOK
<1>3. CASE Boot(p)
  <2> DEFINE x == [Loop EXCEPT !.pc = "seeding", !.todo = Default]
  <2>1. /\ proc' = [proc EXCEPT ![p] = x] /\ proc[p].pc = "down"
        /\ UNCHANGED <<clock, cron, faults, fired, raced, clobbered>>
    BY <1>3 DEF Boot
  <2>2. x \in ProcState /\ x.pc = "seeding" /\ x.batch = {} /\ x.inserted = None
    BY DEF ProcState, Loop
  <2> HIDE DEF x
  <2> QED
    BY <1>1, <1>2, <2>1, <2>2, DropsKeep
<1>4. CASE PassDone(p)
  <2> DEFINE x == [proc[p] EXCEPT !.pc = "idle"]
  <2>1. /\ proc' = [proc EXCEPT ![p].pc = "idle"] /\ proc[p].pc = "pass" /\ InHand(p) = {}
        /\ UNCHANGED <<clock, cron, faults, fired, raced, clobbered>>
    BY <1>4 DEF PassDone
  <2>2. proc' = [proc EXCEPT ![p] = x]
    BY <1>1, <2>1
  <2>3. x \in ProcState /\ x.pc = "idle" /\ x.batch = proc[p].batch /\ x.inserted = proc[p].inserted /\ x.todo = proc[p].todo
    BY <1>1 DEF ProcState
  <2>4. proc[p].batch = {} /\ proc[p].inserted = None /\ proc[p].todo = {}
    BY <1>1, <2>1 DEF InHand
  <2> HIDE DEF x
  <2> QED
    BY <1>1, <1>2, <2>1, <2>2, <2>3, <2>4, DropsKeep
<1>5. CASE Seed(p) /\ proc[p].todo = {}
  <2>1. /\ proc' = [proc EXCEPT ![p] = Loop] /\ proc[p].pc = "seeding"
        /\ UNCHANGED <<clock, cron, faults, fired, raced, clobbered>>
    BY <1>5 DEF Seed
  <2>2. Loop \in ProcState /\ Loop.pc = "idle" /\ Loop.batch = {} /\ Loop.inserted = None /\ Loop.todo = {}
    BY DEF ProcState, Loop
  <2> QED
    BY <1>1, <1>2, <2>1, <2>2, DropsKeep
<1> QED
  BY <1>3, <1>4, <1>5

\* A failed statement or a death.
LEMMA FaultKeeps ==
  ASSUME IInv, NEW p \in Proc, StatementFails(p) \/ Die(p)
  PROVE  IInv'
<1>0. TypeOK
  BY DEF IInv
<1>1. /\ proc \in [Proc -> ProcState] /\ proc[p] \in ProcState
      /\ proc[p].pc # "seeding" => proc[p].todo = {}
      /\ proc[p].pc # "pass" => proc[p].batch = {} /\ proc[p].inserted = None
      /\ proc[p].inserted # None => proc[p].inserted.name \in Name
  BY <1>0, TypeParts
<1>2. /\ proc[p].pc \in {"down", "seeding", "idle", "pass"} /\ proc[p].batch \subseteq Item
      /\ proc[p].todo \subseteq Default /\ proc[p].inserted \in Item \cup {None}
  BY <1>1 DEF ProcState
<1>3. faults' \in 0..MaxFaults /\ raced \subseteq Name /\ UNCHANGED <<clock, cron, fired, clobbered>>
  <2>1. /\ faults < MaxFaults /\ faults' = faults + 1
        /\ UNCHANGED <<clock, cron, fired, clobbered>>
    BY DEF StatementFails, Die
  <2>2. faults \in 0..MaxFaults /\ raced \subseteq Name
    BY <1>0 DEF TypeOK
  <2> QED
    BY <2>1, <2>2
<1>4. CASE Die(p)
  <2>1. /\ proc' = [proc EXCEPT ![p] = Down]
        /\ raced' = raced \cup {i.name : i \in {proc[p].inserted} \ {None}}
    BY <1>4 DEF Die
  <2>2. Down \in ProcState /\ Down.pc = "down" /\ Down.batch = {} /\ Down.inserted = None /\ Down.todo = {}
    BY DEF ProcState, Down
  <2>3. raced' \subseteq Name /\ raced \subseteq raced' /\ (proc[p].inserted # None => proc[p].inserted.name \in raced')
    BY <1>1, <1>3, <2>1
  <2> QED
    BY <1>1, <1>3, <2>1, <2>2, <2>3, DropsKeep
<1>5. CASE StatementFails(p)
  <2>1. CASE \E i \in proc[p].batch : /\ proc[p].inserted = None
                                      /\ proc' = [proc EXCEPT ![p].batch = @ \ {i}]
                                      /\ UNCHANGED raced
    <3>1. PICK i \in proc[p].batch : proc' = [proc EXCEPT ![p].batch = @ \ {i}] /\ raced' = raced
      BY <2>1
    <3> DEFINE x == [proc[p] EXCEPT !.batch = @ \ {i}]
    <3>2. proc' = [proc EXCEPT ![p] = x]
      BY <1>1, <3>1
    <3>3. x \in ProcState /\ x.pc = proc[p].pc /\ x.batch = proc[p].batch \ {i} /\ x.inserted = proc[p].inserted /\ x.todo = proc[p].todo
      BY <1>1, <1>2 DEF ProcState
    <3> HIDE DEF x
    <3> QED
      BY <1>1, <1>3, <3>1, <3>2, <3>3, DropsKeep
  <2>2. CASE /\ proc[p].inserted # None
             /\ proc' = [proc EXCEPT ![p].inserted = None]
             /\ raced' = raced \cup {proc[p].inserted.name}
    <3> DEFINE x == [proc[p] EXCEPT !.inserted = None]
    <3>2. proc' = [proc EXCEPT ![p] = x]
      BY <1>1, <2>2
    <3>3. x \in ProcState /\ x.pc = proc[p].pc /\ x.batch = proc[p].batch /\ x.inserted = None /\ x.todo = proc[p].todo
      BY <1>1, <1>2 DEF ProcState
    <3>4. raced' \subseteq Name /\ raced \subseteq raced' /\ proc[p].inserted.name \in raced'
      BY <1>1, <1>3, <2>2
    <3> HIDE DEF x
    <3> QED
      BY <1>1, <1>3, <3>2, <3>3, <3>4, DropsKeep
  <2>3. CASE \E n \in proc[p].todo : /\ proc' = [proc EXCEPT ![p].todo = @ \ {n}]
                                     /\ UNCHANGED raced
    <3>1. PICK n \in proc[p].todo : proc' = [proc EXCEPT ![p].todo = @ \ {n}] /\ raced' = raced
      BY <2>3
    <3> DEFINE x == [proc[p] EXCEPT !.todo = @ \ {n}]
    <3>2. proc' = [proc EXCEPT ![p] = x]
      BY <1>1, <3>1
    <3>3. x \in ProcState /\ x.pc = proc[p].pc /\ x.batch = proc[p].batch /\ x.inserted = proc[p].inserted /\ x.todo = proc[p].todo \ {n}
      BY <1>1, <1>2 DEF ProcState
    <3> HIDE DEF x
    <3> QED
      BY <1>1, <1>3, <3>1, <3>2, <3>3, DropsKeep
  <2> QED
    BY <1>5, <2>1, <2>2, <2>3 DEF StatementFails
<1> QED
  BY <1>4, <1>5

\* A step keeps the types when the rows keep theirs and no id gets smaller, and
\* what is in hand keeps its names and ids, in processes in a pass.
LEMMA TypesFollow ==
  ASSUME TypeOK, proc' \in [Proc -> ProcState], cron' \in [Name -> CronRow],
         fired' \in [Name -> 0..2], raced' \subseteq Name, clobbered' \subseteq Name,
         clock' \in 0..(Cycle - 1), faults' = faults,
         \A n \in Name : cron[n].id <= cron'[n].id,
         \A p \in Proc : proc'[p].todo # {} => proc'[p].pc = "seeding",
         \A p \in Proc : InHand(p)' # {} => proc'[p].pc = "pass",
         \A p \in Proc : \A j \in InHand(p)' :
           /\ j.id \in Nat /\ j.name \in Name
           /\ j.id <= cron[j.name].id
  PROVE  TypeOK'
<1>1. \A n \in Name : cron[n].id \in Nat /\ cron'[n].id \in Nat
  <2>1. \A n \in Name : cron[n] \in CronRow /\ cron'[n] \in CronRow
    BY DEF TypeOK
  <2> QED
    BY <2>1 DEF CronRow
<1>2. \A p \in Proc : \A j \in InHand(p)' : j.id <= cron'[j.name].id
  BY <1>1
<1>3. faults' \in 0..MaxFaults
  BY DEF TypeOK
<1> QED
  BY <1>2, <1>3 DEF TypeOK

\* An item in hand names a row that is not older.
LEMMA ItemsFollow ==
  ASSUME TypeOK, NEW p \in Proc, NEW i \in InHand(p)
  PROVE  i.id \in Nat /\ i.name \in Name /\ i.id <= cron[i.name].id
<1>1. i \in Item
  BY ProcFields
<1> QED
  BY <1>1 DEF Item, TypeOK

\* An upsert, from an operator or from the seeding of a boot.
LEMMA StoreKeeps ==
  ASSUME IInv, NEW n \in Name, NEW e \in Expr, Store(n, e), UNCHANGED <<clock, faults, raced>>,
         proc' \in [Proc -> ProcState],
         \A p \in Proc : /\ proc'[p].batch = proc[p].batch /\ proc'[p].inserted = proc[p].inserted
                         /\ proc'[p].pc = proc[p].pc /\ proc'[p].todo \subseteq proc[p].todo
  PROVE  IInv'
<1>0. TypeOK
  BY DEF IInv
<1>1. Sound'
  BY StoreSound
<1>2. cron \in [Name -> CronRow] /\ cron[n] \in CronRow /\ fired \in [Name -> 0..2]
  BY <1>0 DEF TypeOK
<1>3. /\ cron' = [cron EXCEPT ![n] = UpsertRow(n, e)] /\ fired' = [fired EXCEPT ![n] = 0]
      /\ clobbered' = IF \E p \in Proc : Held(p, n) THEN clobbered \cup {n} ELSE clobbered
  BY DEF Store
<1>4. Next_(e) \in Int /\ cron[n].exists \in BOOLEAN /\ cron[n].enabled \in BOOLEAN /\ cron[n].id \in Nat
  BY <1>0, <1>2, NextRange DEF CronRow
<1>5. UpsertRow(n, e) \in CronRow /\ UpsertRow(n, e).id >= cron[n].id
  <2>1. (IF cron[n].exists THEN cron[n].id ELSE cron[n].id + 1) \in Nat
    BY <1>4
  <2>2. (cron[n].exists => cron[n].enabled) \in BOOLEAN
    OBVIOUS
  <2>3. UpsertRow(n, e).id >= cron[n].id
    BY <1>4 DEF UpsertRow
  <2> QED
    BY <1>4, <2>1, <2>2, <2>3 DEF UpsertRow, CronRow
<1>6. \A m \in Name : cron[m].id \in Nat
  BY <1>2 DEF CronRow
<1>7. cron' \in [Name -> CronRow] /\ \A m \in Name : cron[m].id <= cron'[m].id
  BY <1>2, <1>3, <1>5, <1>6
<1>8. fired' \in [Name -> 0..2] /\ clobbered' \subseteq Name /\ raced' \subseteq Name /\ clock' \in 0..(Cycle - 1)
  BY <1>0, <1>2, <1>3 DEF TypeOK
<1>9. \A p \in Proc : InHand(p)' = InHand(p)
  BY DEF InHand
<1>10. \A p \in Proc : /\ proc'[p].todo # {} => proc'[p].pc = "seeding"
                       /\ InHand(p)' # {} => proc'[p].pc = "pass"
  BY <1>0, <1>9 DEF TypeOK
<1>11. \A p \in Proc : \A j \in InHand(p)' : j.id \in Nat /\ j.name \in Name /\ j.id <= cron[j.name].id
  BY <1>0, <1>9, ItemsFollow
<1>12. TypeOK'
  BY <1>0, <1>7, <1>8, <1>10, <1>11, TypesFollow
<1> QED
  BY <1>1, <1>12 DEF IInv, Sound

\* The operators' edits.
LEMMA EditKeeps ==
  ASSUME IInv, NEW n \in Name,
         Delete(n) \/ SetEnabled(n) \/ \E e \in Expr : Upsert(n, e)
  PROVE  IInv'
<1>0. TypeOK
  BY DEF IInv
<1>1. CASE Delete(n) \/ SetEnabled(n)
  <2>1. Sound'
    BY <1>1, EditSound
  <2>2. UNCHANGED <<clock, proc, faults, fired, raced, clobbered>>
    BY <1>1 DEF Delete, SetEnabled
  <2>3. cron \in [Name -> CronRow] /\ cron[n] \in CronRow
    BY <1>0 DEF TypeOK
  <2>4. cron' \in [Name -> CronRow] /\ \A m \in Name : cron[m].id = cron'[m].id
    <3>1. CASE Delete(n)
      <4> DEFINE x == [cron[n] EXCEPT !.exists = FALSE]
      <4>1. cron' = [cron EXCEPT ![n] = x]
        BY <2>3, <3>1 DEF Delete
      <4>2. x \in CronRow /\ x.id = cron[n].id
        BY <2>3 DEF CronRow
      <4> HIDE DEF x
      <4> QED
        BY <2>3, <4>1, <4>2
    <3>2. CASE SetEnabled(n)
      <4> DEFINE x == [cron[n] EXCEPT !.enabled = ~@]
      <4>1. cron' = [cron EXCEPT ![n] = x]
        BY <2>3, <3>2 DEF SetEnabled
      <4>2. x \in CronRow /\ x.id = cron[n].id
        BY <2>3 DEF CronRow
      <4> HIDE DEF x
      <4> QED
        BY <2>3, <4>1, <4>2
    <3> QED
      BY <1>1, <3>1, <3>2
  <2>5. \A m \in Name : cron[m].id \in Nat
    BY <1>0 DEF TypeOK, CronRow
  <2>6. \A m \in Name : cron[m].id <= cron'[m].id
    BY <2>4, <2>5
  <2>7. \A p \in Proc : InHand(p)' = InHand(p)
    BY <2>2 DEF InHand
  <2>8. \A p \in Proc : \A j \in InHand(p)' : j.id \in Nat /\ j.name \in Name /\ j.id <= cron[j.name].id
    BY <1>0, <2>7, ItemsFollow
  <2>9. TypeOK'
    <3>1. /\ proc' \in [Proc -> ProcState] /\ fired' \in [Name -> 0..2] /\ raced' \subseteq Name
          /\ clobbered' \subseteq Name /\ clock' \in 0..(Cycle - 1) /\ faults' = faults
          /\ \A p \in Proc : proc'[p].todo # {} => proc'[p].pc = "seeding"
          /\ \A p \in Proc : InHand(p)' # {} => proc'[p].pc = "pass"
      BY <1>0, <2>2, <2>7 DEF TypeOK
    <3> QED
      BY <1>0, <2>4, <2>6, <2>8, <3>1, TypesFollow
  <2> QED
    BY <2>1, <2>9 DEF IInv, Sound
<1>2. ASSUME NEW e \in Expr, Upsert(n, e) PROVE IInv'
  <2>1. Store(n, e) /\ UNCHANGED <<clock, proc, faults, raced>>
    BY <1>2 DEF Upsert
  <2>2. proc' \in [Proc -> ProcState]
    BY <1>0, <2>1 DEF TypeOK
  <2> QED
    BY <2>1, <2>2, StoreKeeps
<1> QED
  BY <1>1, <1>2

\* The seeding of a boot.
LEMMA SeedKeeps ==
  ASSUME IInv, NEW p \in Proc, Seed(p)
  PROVE  IInv'
<1>0. proc \in [Proc -> ProcState] /\ proc[p] \in ProcState
  BY DEF IInv, TypeOK
<1>1. CASE proc[p].todo = {}
  BY <1>1, LoopKeeps
<1>2. CASE proc[p].todo # {}
  <2>1. PICK n \in proc[p].todo :
          Store(n, DefaultExpr) /\ proc' = [proc EXCEPT ![p].todo = @ \ {n}]
    BY <1>2 DEF Seed
  <2>2. n \in Name /\ UNCHANGED <<clock, faults, raced>>
    BY <1>0 DEF ProcState, Seed
  <2> DEFINE x == [proc[p] EXCEPT !.todo = @ \ {n}]
  <2>3. proc' = [proc EXCEPT ![p] = x]
    BY <1>0, <2>1
  <2>4. x \in ProcState /\ x.pc = proc[p].pc /\ x.batch = proc[p].batch /\ x.inserted = proc[p].inserted /\ x.todo = proc[p].todo \ {n}
    BY <1>0 DEF ProcState
  <2> HIDE DEF x
  <2>5. /\ proc' \in [Proc -> ProcState]
        /\ \A q \in Proc : /\ proc'[q].batch = proc[q].batch /\ proc'[q].inserted = proc[q].inserted
                            /\ proc'[q].pc = proc[q].pc /\ proc'[q].todo \subseteq proc[q].todo
    BY <1>0, <2>3, <2>4
  <2> QED
    BY <2>1, <2>2, <2>5, StoreKeeps
<1> QED
  BY <1>1, <1>2

\* The statements of a pass.
LEMMA PassKeeps ==
  ASSUME IInv, NEW p \in Proc, SelectDue(p) \/ Insert(p) \/ Advance(p)
  PROVE  IInv'
<1>0. TypeOK
  BY DEF IInv
<1>1. \A q \in Proc : /\ proc[q].todo # {} => proc[q].pc = "seeding"
                      /\ InHand(q) # {} => proc[q].pc = "pass"
                      /\ \A i \in InHand(q) : i.id \in Nat /\ i.name \in Name /\ i.id <= cron[i.name].id
  <2>1. \A q \in Proc : \A i \in InHand(q) : i.id \in Nat /\ i.name \in Name /\ i.id <= cron[i.name].id
    BY <1>0, ItemsFollow
  <2> QED
    BY <1>0, <2>1 DEF TypeOK
<1>2. /\ clock \in 0..(Cycle - 1) /\ cron \in [Name -> CronRow] /\ fired \in [Name -> 0..2]
      /\ raced \subseteq Name /\ clobbered \subseteq Name
  BY <1>0 DEF TypeOK
<1>3. \A n \in Name : cron[n].id \in Nat /\ cron[n].expr \in Expr
  BY <1>2 DEF CronRow
<1>4. UNCHANGED <<clock, faults, clobbered>>
  BY DEF SelectDue, Insert, Advance
<1>5. CASE SelectDue(p)
  <2> DEFINE due == {n \in Name : Due(n)}
             b == {[name |-> n, id |-> cron[n].id, slot |-> Next_(cron[n].expr)] : n \in due}
  <2>1. Sound' /\ proc' \in [Proc -> ProcState]
    BY <1>5, SelectSound
  <2>2. /\ proc' = [proc EXCEPT ![p].pc = "pass", ![p].batch = b] /\ proc[p].pc = "idle"
        /\ raced' = raced \cup {n \in due : \E q \in Proc : Held(q, n)}
        /\ UNCHANGED <<cron, fired>>
    BY <1>5 DEF SelectDue
  <2>3. b \in SUBSET Item /\ \A i \in b : i.id \in Nat /\ i.name \in Name /\ i.id = cron[i.name].id
    <3>1. \A n \in Name : Next_(cron[n].expr) \in Int
      BY <1>0, <1>3, NextRange
    <3> QED
      BY <1>3, <3>1 DEF Item
  <2> HIDE DEF b
  <2>4. /\ \A q \in Proc : q # p => proc'[q] = proc[q]
        /\ proc'[p].pc = "pass" /\ proc'[p].batch = b
        /\ proc'[p].inserted = proc[p].inserted /\ proc'[p].todo = proc[p].todo
    BY <1>0, <2>2, <2>3, SelectFields
  <2>5. proc[p].todo = {} /\ proc[p].inserted = None
    BY <1>1, <2>2 DEF InHand
  <2>6. InHand(p)' = b /\ \A q \in Proc : q # p => InHand(q)' = InHand(q)
    BY <2>4, <2>5 DEF InHand
  <2>7. \A q \in Proc : /\ proc'[q].todo # {} => proc'[q].pc = "seeding"
                        /\ InHand(q)' # {} => proc'[q].pc = "pass"
                        /\ \A j \in InHand(q)' : j.id \in Nat /\ j.name \in Name /\ j.id <= cron[j.name].id
    BY <1>1, <1>3, <2>3, <2>4, <2>5, <2>6
  <2>8. raced' \subseteq Name /\ \A n \in Name : cron[n].id <= cron'[n].id
    BY <1>2, <1>3, <2>2
  <2>9. TypeOK'
    BY <1>0, <1>2, <1>4, <2>1, <2>2, <2>7, <2>8, TypesFollow
  <2> QED
    BY <2>1, <2>9 DEF IInv, Sound
<1>6. CASE Insert(p)
  <2>1. Sound' /\ proc' \in [Proc -> ProcState] /\ fired' \in [Name -> 0..2]
    BY <1>6, InsertSound
  <2>2. proc[p].inserted = None /\ UNCHANGED <<cron, raced>>
    BY <1>6 DEF Insert
  <2>3. PICK i \in proc[p].batch : proc' = [proc EXCEPT ![p].batch = @ \ {i}, ![p].inserted = i]
    BY <1>6 DEF Insert
  <2>4. i \in Item /\ i # None
    BY <1>0, ProcFields
  <2>5. /\ \A q \in Proc : q # p => proc'[q] = proc[q]
        /\ proc'[p].pc = proc[p].pc /\ proc'[p].batch = proc[p].batch \ {i}
        /\ proc'[p].inserted = i /\ proc'[p].todo = proc[p].todo
    BY <1>0, <2>3, <2>4, InsertFields
  <2>6. \A q \in Proc : InHand(q)' = InHand(q)
    BY <2>2, <2>4, <2>5 DEF InHand
  <2>7. \A q \in Proc : /\ proc'[q].todo # {} => proc'[q].pc = "seeding"
                        /\ InHand(q)' # {} => proc'[q].pc = "pass"
                        /\ \A j \in InHand(q)' : j.id \in Nat /\ j.name \in Name /\ j.id <= cron[j.name].id
    BY <1>1, <2>5, <2>6
  <2>8. \A n \in Name : cron[n].id <= cron'[n].id
    BY <1>3, <2>2
  <2>9. TypeOK'
    BY <1>0, <1>2, <1>4, <2>1, <2>2, <2>7, <2>8, TypesFollow
  <2> QED
    BY <2>1, <2>9 DEF IInv, Sound
<1>7. CASE Advance(p)
  <2>1. /\ Sound' /\ proc' \in [Proc -> ProcState] /\ fired' \in [Name -> 0..2]
        /\ cron' \in [Name -> CronRow] /\ \A n \in Name : cron'[n].id = cron[n].id
    BY <1>7, AdvanceSound
  <2>2. proc' = [proc EXCEPT ![p].inserted = None] /\ UNCHANGED raced
    BY <1>7 DEF Advance
  <2>3. /\ \A q \in Proc : q # p => proc'[q] = proc[q]
        /\ proc'[p].pc = proc[p].pc /\ proc'[p].batch = proc[p].batch
        /\ proc'[p].inserted = None /\ proc'[p].todo = proc[p].todo
    BY <1>0, <2>2, AdvanceFields
  <2>4. \A q \in Proc : InHand(q)' \subseteq InHand(q)
    BY <2>3 DEF InHand
  <2>5. \A q \in Proc : /\ proc'[q].todo # {} => proc'[q].pc = "seeding"
                        /\ InHand(q)' # {} => proc'[q].pc = "pass"
                        /\ \A j \in InHand(q)' : j.id \in Nat /\ j.name \in Name /\ j.id <= cron[j.name].id
    BY <1>1, <2>3, <2>4
  <2>6. \A n \in Name : cron[n].id <= cron'[n].id
    BY <1>3, <2>1
  <2>9. TypeOK'
    BY <1>0, <1>2, <1>4, <2>1, <2>2, <2>5, <2>6, TypesFollow
  <2> QED
    BY <2>1, <2>9 DEF IInv, Sound
<1> QED
  BY <1>5, <1>6, <1>7

\* The clock.
LEMMA TickKeeps == ASSUME IInv, Tick PROVE IInv'
<1>0. TypeOK
  BY DEF IInv
<1>1. /\ Sound' /\ proc' \in [Proc -> ProcState] /\ cron' \in [Name -> CronRow]
      /\ \A n \in Name : cron'[n].id = cron[n].id
      /\ \A p \in Proc : proc'[p].pc = proc[p].pc /\ proc'[p].todo = proc[p].todo
      /\ \A p \in Proc : \A j \in InHand(p)' : \E i \in InHand(p) : j.name = i.name /\ j.id = i.id
  BY TickSound
<1>2. UNCHANGED <<faults, fired, raced, clobbered>> /\ clock' = (clock + 1) % Cycle
  BY DEF Tick
<1>3. clock' \in 0..(Cycle - 1)
  BY <1>0, <1>2 DEF TypeOK
<1>4. \A p \in Proc : \A i \in InHand(p) : i.id \in Nat /\ i.name \in Name /\ i.id <= cron[i.name].id
  BY <1>0, ItemsFollow
<1>5. \A p \in Proc : \A j \in InHand(p)' : j.id \in Nat /\ j.name \in Name /\ j.id <= cron[j.name].id
  BY <1>1, <1>4
<1>6. \A p \in Proc : /\ proc'[p].todo # {} => proc'[p].pc = "seeding"
                      /\ InHand(p)' # {} => proc'[p].pc = "pass"
  <2>1. \A p \in Proc : InHand(p)' # {} => InHand(p) # {}
    BY <1>1
  <2> QED
    BY <1>0, <1>1, <2>1 DEF TypeOK
<1>7. \A n \in Name : cron[n].id <= cron'[n].id
  BY <1>0, <1>1 DEF TypeOK, CronRow
<1>8. fired' \in [Name -> 0..2] /\ raced' \subseteq Name /\ clobbered' \subseteq Name
  BY <1>0, <1>2 DEF TypeOK
<1>9. TypeOK'
  BY <1>0, <1>1, <1>2, <1>3, <1>5, <1>6, <1>7, <1>8, TypesFollow
<1> QED
  BY <1>1, <1>9 DEF IInv, Sound

-----------------------------------------------------------------------------
(* The theorems *)

\* Before anything ran, nothing is in hand and nothing is counted.
LEMMA InitIInv == Init => IInv
<1> SUFFICES ASSUME Init PROVE IInv
  OBVIOUS
<1>1. /\ clock = 0 /\ faults = 0 /\ raced = {} /\ clobbered = {}
      /\ fired = [n \in Name |-> 0] /\ proc = [p \in Proc |-> Down]
      /\ cron = [n \in Name |-> [exists |-> FALSE, id |-> 0, expr |-> DefaultExpr,
                                enabled |-> FALSE, next |-> 0]]
  BY DEF Init
<1>2. Down \in ProcState /\ Down.batch = {} /\ Down.inserted = None /\ Down.todo = {}
  BY DEF Down, ProcState
<1>3. \A p \in Proc : proc[p] = Down /\ InHand(p) = {}
  BY <1>1, <1>2 DEF InHand
<1>4. cron \in [Name -> CronRow] /\ \A n \in Name : ~cron[n].exists
  BY <1>1 DEF CronRow
<1>5. proc \in [Proc -> ProcState]
  BY <1>1, <1>2
<1>6. TypeOK
  <2>1. clock \in 0..(Cycle - 1) /\ faults \in 0..MaxFaults /\ fired \in [Name -> 0..2]
        /\ raced \subseteq Name /\ clobbered \subseteq Name
    BY <1>1
  <2>2. \A p \in Proc : proc[p].todo = {} /\ InHand(p) = {}
    BY <1>2, <1>3
  <2> QED
    BY <1>4, <1>5, <2>1, <2>2 DEF TypeOK
<1>7. OneEach /\ Alone /\ SlotFits
  BY <1>2, <1>3 DEF OneEach, Alone, SlotFits, Held, Owes
<1>8. CountedIsOwed /\ OwedIsCounted /\ NextMatchesExpression
  BY <1>1, <1>2, <1>3, <1>4 DEF CountedIsOwed, OwedIsCounted, NextMatchesExpression
<1> QED
  BY <1>6, <1>7, <1>8 DEF IInv

\* Every step keeps the invariant.
LEMMA Inductive == IInv /\ [Next]_vars => IInv'
<1> SUFFICES ASSUME IInv, [Next]_vars PROVE IInv'
  OBVIOUS
<1>1. ASSUME NEW n \in Name, Delete(n) \/ SetEnabled(n) \/ \E e \in Expr : Upsert(n, e)
      PROVE  IInv'
  BY <1>1, EditKeeps
<1>2. ASSUME NEW p \in Proc, Boot(p) PROVE IInv'
  BY <1>2, LoopKeeps
<1>3. ASSUME NEW p \in Proc, Scheduler(p) PROVE IInv'
  BY <1>3, SeedKeeps, PassKeeps, LoopKeeps DEF Scheduler
<1>4. ASSUME NEW p \in Proc, StatementFails(p) \/ Die(p) PROVE IInv'
  BY <1>4, FaultKeeps
<1>5. CASE Tick
  BY <1>5, TickKeeps
<1>6. CASE UNCHANGED vars
  BY <1>6 DEF vars, IInv, TypeOK, OneEach, Alone, CountedIsOwed, OwedIsCounted, SlotFits,
              NextMatchesExpression, Held, InHand, Owes, Current
<1> QED
  BY <1>1, <1>2, <1>3, <1>4, <1>5, <1>6 DEF Next

\* The type invariant and the bookkeeping of items in hand hold of every process
\* and schedule, for any number of processes, schedules and faults.
THEOREM Invariant == Spec => []IInv
BY InitIInv, Inductive, PTL DEF Spec

\* "Persisted schedules produce one job-row per tick": MaterialiseDue inserts at
\* most one job for a slot, unless two passes held the schedule or a pass was cut
\* between its INSERT and its UPDATE.
THEOREM OncePerSlot == Spec => []FiredOncePerSlot
<1>1. IInv => FiredOncePerSlot
  <2>1. ASSUME IInv, NEW n \in Name \ raced PROVE fired[n] <= 1
    <3>1. fired[n] \in 0..2
      BY <2>1 DEF IInv, TypeOK
    <3> QED
      BY <2>1, <3>1 DEF IInv, CountedIsOwed
  <2> QED
    BY <2>1 DEF FiredOncePerSlot
<1> QED
  BY <1>1, Invariant, PTL

\* next_run_at stays within one period of the stored expression, unless an upsert
\* raced a pass.
THEOREM WithinOnePeriod == Spec => []NextMatchesExpression
<1>1. IInv => NextMatchesExpression
  BY DEF IInv
<1> QED
  BY <1>1, Invariant, PTL

\* Only the UPDATE after an INSERT moves a due schedule into the future while it
\* takes an item out of a pass's hands.
LEMMA StepSkipsNothing ==
  ASSUME IInv, [Next]_vars, NEW n \in Name,
         Due(n), cron[n].id = cron'[n].id, cron'[n].next > 0, fired[n] = 0,
         NEW p \in Proc, proc[p].inserted # proc'[p].inserted
  PROVE  n \in raced \cup clobbered
<1>0. TypeOK /\ cron[n].next <= 0 /\ cron[n].next \in Int
  BY DEF IInv, Due, TypeOK, CronRow
<1>1. ~(proc' = proc) /\ ~(cron' = cron)
  BY <1>0
<1>2. ASSUME NEW m \in Name, Delete(m) \/ SetEnabled(m) \/ \E e \in Expr : Upsert(m, e)
      PROVE  FALSE
  BY <1>1, <1>2 DEF Delete, SetEnabled, Upsert
<1>3. ASSUME NEW q \in Proc, Boot(q) PROVE FALSE
  BY <1>1, <1>3 DEF Boot
<1>4. ASSUME NEW q \in Proc, StatementFails(q) \/ Die(q) PROVE FALSE
  BY <1>1, <1>4 DEF StatementFails, Die
<1>5. ASSUME Tick PROVE FALSE
  <2>1. cron'[n].next <= 0
    BY <1>0, <1>5, TickSound
  <2>2. cron' \in [Name -> CronRow]
    BY <1>5, TickSound
  <2>3. cron'[n].next \in Int
    BY <2>2 DEF CronRow
  <2> QED
    BY <2>1, <2>3
<1>6. ASSUME NEW q \in Proc, Seed(q) PROVE FALSE
  <2>1. PICK m \in proc[q].todo : proc' = [proc EXCEPT ![q].todo = @ \ {m}]
    BY <1>1, <1>6 DEF Seed
  <2>2. proc \in [Proc -> ProcState] /\ proc[q] \in ProcState
    BY <1>0 DEF TypeOK
  <2>3. proc'[p].inserted = proc[p].inserted
    BY <2>1, <2>2 DEF ProcState
  <2> QED
    BY <2>3
<1>7. ASSUME NEW q \in Proc, SelectDue(q) \/ Insert(q) \/ PassDone(q) PROVE FALSE
  BY <1>1, <1>7 DEF SelectDue, Insert, PassDone
<1>8. ASSUME NEW q \in Proc, Advance(q) PROVE n \in raced \cup clobbered
  <2>1. PICK i : i = proc[q].inserted
    OBVIOUS
  <2>2. Current(i) /\ i # None
    BY <1>1, <1>8, <2>1 DEF Advance
  <2>3. i.name = n
    <3>1. cron' = [cron EXCEPT ![i.name].next = i.slot]
      BY <1>8, <2>1, <2>2 DEF Advance
    <3>2. cron \in [Name -> CronRow]
      BY <1>0 DEF TypeOK
    <3>3. i.name # n => cron'[n] = cron[n]
      BY <3>1, <3>2
    <3> QED
      BY <1>0, <3>3
  <2>4. fired[i.name] > 0 \/ i.name \in raced \cup clobbered
    BY <2>1, <2>2 DEF IInv, OwedIsCounted
  <2> QED
    BY <2>3, <2>4
<1> QED
  BY <1>1, <1>2, <1>3, <1>4, <1>5, <1>6, <1>7, <1>8 DEF Next, Scheduler, vars

\* A pass never passes over a due slot: it moves next_run_at of a due schedule
\* into the future only with a job inserted for the slot, unless it overlapped with
\* another pass or an upsert.
THEOREM NothingSkipped == Spec => NoSilentSkip
<1> DEFINE A == \A n \in Name :
                  /\ Due(n)
                  /\ cron[n].id = cron'[n].id
                  /\ cron'[n].next > 0
                  /\ fired[n] = 0
                  /\ \E p \in Proc : proc[p].inserted # proc'[p].inserted
                  => n \in raced \cup clobbered
<1>1. IInv /\ [Next]_vars => A
  BY StepSkipsNothing
<1> QED
  BY <1>1, Invariant, PTL DEF Spec, NoSilentSkip
=============================================================================
