----------------------------- MODULE MCRecovery -----------------------------
(***************************************************************************)
(* What repeated recovery brings to an end, for TLC: one worker on the     *)
(* jobs of an item, or the sweep over the lists of all.  A behaviour is of *)
(* one of the two.                                                         *)
(***************************************************************************)
EXTENDS KnowledgeIndex, RecoverySweep

VARIABLE part

mcVars == <<part, vars, sweepVars>>

RecoveryInit == part \in {"jobs", "sweep"} /\ Init /\ SweepInit

RecoveryNext ==
  \/ part = "jobs" /\ Next /\ UNCHANGED <<part, sweepVars>>
  \/ part = "sweep" /\ SweepNext /\ UNCHANGED <<part, vars>>

\* Nothing of the part that does not run is ever enabled, so the fairness of
\* each asks nothing of the other.
RecoverySpec == RecoveryInit /\ [][RecoveryNext]_mcVars /\ Fairness /\ SweepFairness
=============================================================================
