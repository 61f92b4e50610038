------------------------------- MODULE MCDump -------------------------------
(* Small instances of Dump for TLC. *)
EXTENDS Dump, TLC

CONSTANTS p1, p2

OnePid  == {p1}
TwoPids == {p1, p2}

\* No definition tells two processes apart.
PidSymmetry == Permutations(Pids)
=============================================================================
