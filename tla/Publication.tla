---------------------------- MODULE Publication ----------------------------
(***************************************************************************)
(* What the bridge promises to the readers of its pinned maps.             *)
(*                                                                         *)
(* The maps hold items (device entries, per-process rows, per-process and  *)
(* device rows), each stamped with the poll round its value comes from,    *)
(* and one freshness signal, gpu_meta.  A consumer reads the signal, and   *)
(* trusts the items it covers to be at least that recent; the only excuse  *)
(* is an item whose write failed or that the kernel evicted.  The promise  *)
(* says nothing of loops, program counters or tickers: Poller implements   *)
(* it.                                                                     *)
(***************************************************************************)
EXTENDS Naturals

CONSTANTS Items,    \* everything a reader may look up
          MaxStamp  \* bound on the poll rounds considered

VARIABLES data,     \* round of the value each item holds, 0 when it holds none
          signal,   \* round advertised by the freshness signal, 0 before the first
          covered,  \* items the last advertised round announced
          missed    \* items whose last write failed or that were evicted since

vars == <<data, signal, covered, missed>>

Stamps == 0 .. MaxStamp

TypeOK == /\ data \in [Items -> Stamps]
          /\ signal \in Stamps
          /\ covered \in SUBSET Items
          /\ missed \in SUBSET Items

Init == /\ data = [i \in Items |-> 0]
        /\ signal = 0
        /\ covered = {}
        /\ missed = {}

\* One item moves forward, to the advertised round or a later one; the items in gone
\* make room for it.
Rewrite(i, v, gone) ==
    /\ data[i] <= v
    /\ signal <= v
    /\ i \notin gone
    /\ data' = [j \in Items |-> IF j = i THEN v ELSE IF j \in gone THEN 0 ELSE data[j]]
    /\ missed' = (missed \ {i}) \cup gone
    /\ UNCHANGED <<signal, covered>>

\* The write of one item fails: readers keep its previous value.
Miss(i) ==
    /\ missed' = missed \cup {i}
    /\ UNCHANGED <<data, signal, covered>>

\* The signal moves forward over items that are all there already.
Advertise(v, items) ==
    /\ signal <= v
    /\ \A i \in items : i \in missed \/ data[i] >= v
    /\ signal' = v
    /\ covered' = items
    /\ UNCHANGED <<data, missed>>

Next == \/ \E i \in Items, v \in Stamps, gone \in SUBSET Items : Rewrite(i, v, gone)
        \/ \E i \in Items : Miss(i)
        \/ \E v \in Stamps, items \in SUBSET Items : Advertise(v, items)

Spec == Init /\ [][Next]_vars

----------------------------------------------------------------------------

\* The consumer's view: everything the signal covers is at least as recent as
\* the signal, unless its write was lost.  This is the promise of the comment
\* "gpu_meta last, so consumers that gate enrichment on last_update_ns see the
\* data first" (src/internal/poller/poller.go:278).
CoveredIsFresh == \A i \in covered : i \in missed \/ data[i] >= signal
=============================================================================
