------------------------------ MODULE MCPoller ------------------------------
(* Small instances of Poller for TLC. *)
EXTENDS Poller, TLC

CONSTANTS p1, p2

TwoPids == {p1, p2}
OnePid  == {p1}

\* No definition tells two processes apart.
PidSymmetry == Permutations(Pids)
=============================================================================
