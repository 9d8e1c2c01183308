---------------------------- MODULE MCDifficulty -----------------------------
(* Difficulty instantiated for TLC: the timestamp steps include a negative  *)
(* one (an out-of-order timestamp), which a .cfg file cannot write.         *)
EXTENDS Difficulty

\* Out of order, equal, on target, and beyond the 7 * T clamp (T = 20).
MCTimestampSteps == {-30, 0, 20, 150}

=============================================================================
