------------------------------- MODULE MCJobs -------------------------------
(* Jobs for TLC: one welcome-mail job with faults, a reset and the sweeper,  *)
(* then two jobs that compete for the workers, one of which may vanish.      *)
EXTENDS Jobs

CONSTANTS j1, j2

VARIABLE bound   \* the instance being explored

MCInstances ==
  {[jobs |-> {j1}, faults |-> 2, resets |-> 1, revives |-> TRUE],
   [jobs |-> {j1, j2}, faults |-> 1, resets |-> 0, revives |-> FALSE]}

\* What a step may do in the instance: without revivals a job that was given up
\* stays so, and operators cancel nothing.
Within ==
  /\ UNCHANGED bound
  /\ \A j \in Job \ bound.jobs : row'[j] = row[j]
  /\ faults' <= bound.faults
  /\ resets' <= bound.resets
  /\ bound.revives \/ \A j \in Job : /\ row[j].status = "failed" => row'[j].status = "failed"
                                     /\ row'[j].status # "cancelled"

MCInit == Init /\ bound \in MCInstances

MCNext == Next /\ Within

\* Fairness of Jobs, within the instance.
MCFairness ==
  /\ \A w \in Worker : WF_<<vars, bound>>(WorkerStep(w) /\ Within)
  /\ WF_<<vars, bound>>(Recover /\ Within)
  /\ WF_<<vars, bound>>(Tick /\ Within)

MCSpec == MCInit /\ [][MCNext]_<<vars, bound>> /\ MCFairness
=============================================================================
