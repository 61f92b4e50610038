----------------------------- MODULE MCLifecycle -----------------------------
(* Bridge processes sharing one pin directory. *)
EXTENDS Lifecycle, TLC

CONSTANTS p1, p2

OneProc  == {p1}
TwoProcs == {p1, p2}

\* One bridge at a time with any flags, or two that keep their pins.
Prudent == {[flags |-> AllFlags, together |-> FALSE],
            [flags |-> {<<"mock", TRUE>>}, together |-> TRUE]}

\* One bridge on real devices.
RealOnly == {[flags |-> {<<"real", FALSE>>}, together |-> FALSE]}

\* Two bridges with the default --keep-pins=false.
Default == {[flags |-> {<<"mock", FALSE>>}, together |-> TRUE]}
=============================================================================
