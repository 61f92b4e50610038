---------------------------- MODULE MCSampleFold ----------------------------
(* A small instance of SampleFold for TLC. *)
EXTENDS SampleFold
=============================================================================
