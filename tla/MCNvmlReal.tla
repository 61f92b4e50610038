----------------------------- MODULE MCNvmlReal -----------------------------
(* Small instances of NvmlReal for TLC. *)
EXTENDS NvmlReal, TLC

CONSTANTS p1, p2

OnePid  == {p1}
TwoPids == {p1, p2}

\* No definition tells two processes apart.
PidSymmetry == Permutations(Pids)
=============================================================================
