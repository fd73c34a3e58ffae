----------------------------- MODULE MCCompaction -----------------------------
(* Instances of Compaction for TLC. *)
EXTENDS Compaction, TLC

CONSTANTS small, large, t1, t2

TwoModels == {small, large}
Windows == small :> 1 @@ large :> 2
TwoTurns == {t1, t2}
Symmetry == Permutations(TwoTurns)
=============================================================================
