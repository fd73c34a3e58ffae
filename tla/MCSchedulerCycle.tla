-------------------------- MODULE MCSchedulerCycle --------------------------
(* Instances of SchedulerCycle for TLC. *)
EXTENDS SchedulerCycle, TLC

CONSTANTS a1, a2, a3, t1, t2, t3

TwoAgents == {a1, a2}
ThreeAgents == {a1, a2, a3}
OneTurn == {t1}
TwoTurns == {t1, t2}
ThreeTurns == {t1, t2, t3}

\* Turn identities are interchangeable.  Agents are not: the pool is ordered.
TurnSymmetry == Permutations(Turns)
=============================================================================
