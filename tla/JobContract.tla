---------------------------- MODULE JobContract ----------------------------
(***************************************************************************)
(* What the job queue promises its callers, without workers, locks, clocks *)
(* or sweeps: a submitted job stays open until it is done, dead or         *)
(* withdrawn; it is done only after its handler succeeded (at least once,  *)
(* perhaps again later); done is forever; a dead or withdrawn job may be   *)
(* opened again.                                                           *)
(***************************************************************************)
CONSTANT Job

VARIABLES phase, delivered

vars == <<phase, delivered>>

Phase == {"absent", "open", "done", "dead", "withdrawn"}

TypeOK == phase \in [Job -> Phase] /\ delivered \subseteq Job

Init == phase = [j \in Job |-> "absent"] /\ delivered = {}

Move(j, from, to) ==
  /\ phase[j] = from
  /\ phase' = [phase EXCEPT ![j] = to]
  /\ UNCHANGED delivered

Submit(j) == Move(j, "absent", "open")
Finish(j) == j \in delivered /\ Move(j, "open", "done")
GiveUp(j) == Move(j, "open", "dead")
Withdraw(j) == Move(j, "open", "withdrawn")

\* A handler may succeed for any submitted job, a done one included.
Deliver(j) ==
  /\ phase[j] # "absent"
  /\ delivered' = delivered \cup {j}
  /\ UNCHANGED phase

Reopen(S) ==
  /\ \A j \in S : phase[j] \in {"dead", "withdrawn"}
  /\ phase' = [j \in Job |-> IF j \in S THEN "open" ELSE phase[j]]
  /\ UNCHANGED delivered

Next ==
  \/ \E j \in Job : Submit(j) \/ Finish(j) \/ GiveUp(j) \/ Withdraw(j) \/ Deliver(j)
  \/ \E S \in SUBSET Job : Reopen(S)

Spec == Init /\ [][Next]_vars
=============================================================================
