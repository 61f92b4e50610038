----------------------------- MODULE MCFreshness -----------------------------
(* Small instances of Freshness for TLC. *)
EXTENDS Freshness

\* The wall clock may be set back and forth by up to three units.
Settable == 8 .. 11

\* Nobody sets it; it is far ahead of the time since boot.
Epoch == {40}
=============================================================================
