----------------------------- MODULE SampleFold -----------------------------
(***************************************************************************)
(* What tick (src/internal/poller/poller.go:130-276) makes of the samples  *)
(* of one round: it folds them into one aggregate per (pid, device), hands *)
(* each to gpu_per_pid_per_device, groups them by pid, and hands the       *)
(* groups to gpu_per_pid.  Poller models when the maps are written, this   *)
(* module what is written.                                                 *)
(*                                                                         *)
(* util stands for SmUtilPct and MemUtilPct, which are treated alike.      *)
(* EncUtilPct and DecUtilPct are folded the same way and never summed up.  *)
(***************************************************************************)
EXTENDS Integers, FiniteSets, FiniteSetsExt

CONSTANTS Pids,        \* host process ids; 0 is NVML's unattributed bucket
          Devs,        \* device indices
          Byte,        \* 2^8: the range of the uint8 fields
          Values,      \* utilization and memory values
          Stamps,      \* sample timestamps
          MaxSamples   \* bound on the samples of a round

ASSUME SampleFoldAssumption == /\ Pids \subseteq Nat
                               /\ Devs \subseteq Nat
                               /\ Byte \in Nat \ {0}
                               /\ Values \subseteq Nat
                               /\ Stamps \subseteq Nat
                               /\ MaxSamples \in Nat

VARIABLES
    pc,         \* loop that runs: "fold", "group", "summary"
    seen,       \* history: the samples folded so far
    count,      \* how many there were
    perDev,     \* (pid, dev) -> aggregate
    keysLeft,   \* keys of perDev the second loop has still to visit
    agg,        \* pid -> builder
    detail,     \* values handed to UpdatePerPidPerDevice this round
    summary     \* values handed to UpdatePerPid this round

vars == <<pc, seen, count, perDev, keysLeft, agg, detail, summary>>

Keys    == (Pids \ {0}) \X Devs
Samples == [pid : Pids, dev : Devs, ts : Stamps, mem : Values, util : Values]
Multi   == Byte - 1                    \* DevicePrimaryMulti, 0xFF

Latest(a, b) == b                                                 \* variant
Higher(a, b) == IF b > a THEN b ELSE a
Nothing      == [x \in {} |-> 0]
With(f, x, v) == [y \in DOMAIN f \cup {x} |-> IF y = x THEN v ELSE f[y]]

Init == /\ pc = "fold"
        /\ seen = {} /\ count = 0
        /\ perDev = Nothing /\ agg = Nothing /\ keysLeft = {}
        /\ detail = Nothing /\ summary = Nothing

-----------------------------------------------------------------------------
(* First loop: one sample.                                                 *)

\* The aggregate of a key after sample s; the first one also starts it.
Folded(s) ==
    LET k == <<s.pid, s.dev>>
        a == IF k \in DOMAIN perDev THEN perDev[k]
             ELSE [ts |-> s.ts, mem |-> s.mem, util |-> 0]
    IN  [ts |-> Higher(a.ts, s.ts), mem |-> Higher(a.mem, s.mem), util |-> Higher(a.util, s.util)]

\* Pid 0, what NVML cannot attribute to a process, is skipped.
NeverSkipped(s) == FALSE                                          \* variant
Skipped(s)      == s.pid = 0

Fold(s) ==
    /\ pc = "fold"
    /\ count < MaxSamples
    /\ count' = count + 1
    /\ seen' = seen \cup {s}
    /\ perDev' = IF Skipped(s) THEN perDev ELSE With(perDev, <<s.pid, s.dev>>, Folded(s))
    /\ UNCHANGED <<pc, keysLeft, agg, detail, summary>>

FoldEnds ==
    /\ pc = "fold"
    /\ pc' = "group"
    /\ keysLeft' = DOMAIN perDev
    /\ UNCHANGED <<seen, count, perDev, agg, detail, summary>>

(* Second loop: one key, in the arbitrary order of a Go map.               *)

\* variant: the device set is replaced, not extended
GroupedLast(k) ==
    LET a == perDev[k] b == IF k[1] \in DOMAIN agg THEN agg[k[1]].total ELSE 0
    IN  [ts |-> a.ts, total |-> b + a.mem, util |-> a.util,
         first |-> k[2] % Byte, devSet |-> {k[2] % Byte}]

\* The builder of a pid after one more of its keys; the first device stays.
Grouped(k) ==
    LET a == perDev[k]
        dev == k[2] % Byte
        b == IF k[1] \in DOMAIN agg THEN agg[k[1]]
             ELSE [ts |-> a.ts, total |-> 0, util |-> 0, first |-> dev, devSet |-> {}]
    IN  [ts |-> Higher(b.ts, a.ts), total |-> b.total + a.mem, util |-> Higher(b.util, a.util),
         first |-> b.first, devSet |-> b.devSet \cup {dev}]

Group(k) ==
    /\ pc = "group"
    /\ k \in keysLeft
    /\ keysLeft' = keysLeft \ {k}
    /\ detail' = With(detail, k, perDev[k])
    /\ agg' = With(agg, k[1], Grouped(k))
    /\ UNCHANGED <<pc, seen, count, perDev, summary>>

GroupEnds ==
    /\ pc = "group"
    /\ keysLeft = {}
    /\ pc' = "summary"
    /\ UNCHANGED <<seen, count, perDev, keysLeft, agg, detail, summary>>

(* Third loop: one pid, in the arbitrary order of a Go map.                *)

Summarised(b) ==
    LET n == Cardinality(b.devSet) % Byte
        devCount == IF n = 0 THEN 1 ELSE n
    IN  [ts |-> b.ts, total |-> b.total, util |-> b.util,
         primary |-> IF devCount > 1 THEN Multi ELSE b.first, devCount |-> devCount]

Summarise(p) ==
    /\ pc = "summary"
    /\ p \in DOMAIN agg \ DOMAIN summary
    /\ summary' = With(summary, p, Summarised(agg[p]))
    /\ UNCHANGED <<pc, seen, count, perDev, keysLeft, agg, detail>>

\* All of perDev, agg and the values handed out are local to a round.
NextRound ==
    /\ pc = "summary"
    /\ DOMAIN summary = DOMAIN agg
    /\ pc' = "fold"
    /\ seen' = {} /\ count' = 0
    /\ perDev' = Nothing /\ agg' = Nothing
    /\ detail' = Nothing /\ summary' = Nothing
    /\ UNCHANGED keysLeft

Next == \/ \E s \in Samples : Fold(s)
        \/ FoldEnds
        \/ \E k \in keysLeft : Group(k)
        \/ GroupEnds
        \/ \E p \in DOMAIN agg : Summarise(p)
        \/ NextRound

Spec == Init /\ [][Next]_vars
-----------------------------------------------------------------------------

Aggregates == [ts : Stamps, mem : Values \cup {0}, util : Values \cup {0}]

TypeOK ==
    /\ pc \in {"fold", "group", "summary"}
    /\ seen \subseteq Samples
    /\ count \in 0 .. MaxSamples
    /\ DOMAIN perDev \subseteq Keys
    /\ \A k \in DOMAIN perDev : perDev[k] \in Aggregates
    /\ keysLeft \subseteq DOMAIN perDev
    /\ DOMAIN detail \subseteq DOMAIN perDev
    /\ DOMAIN agg = {k[1] : k \in DOMAIN detail}
    /\ DOMAIN summary \subseteq DOMAIN agg

OfKey(k) == {s \in seen : <<s.pid, s.dev>> = k}

\* v is the highest of the values S holds.
IsPeak(v, S) == v \in S /\ \A w \in S : w <= v

\* Each detailed row holds, field by field, the peak of the samples of its process
\* and device, whatever their order and number: "taking the max over the
\* utilization fields so consumers see the busiest moment in the window
\* (last-write-wins would arbitrarily drop the peaks)" (poller.go:134).
DetailIsPeak ==
    \A k \in DOMAIN detail :
        /\ IsPeak(detail[k].ts, {s.ts : s \in OfKey(k)})
        /\ IsPeak(detail[k].mem, {s.mem : s \in OfKey(k)})
        /\ IsPeak(detail[k].util, {s.util : s \in OfKey(k)})

\* Once the second loop is over, the processes and devices with a detailed row are
\* exactly those sampled, pid 0 excepted (poller.go:159: its rows would "let
\* consumers wrongly enrich kernel-init-side eBPF events").
DetailOfEachSampled ==
    pc = "summary" => DOMAIN detail = {<<s.pid, s.dev>> : s \in seen} \ ({0} \X Devs)

\* The memory of some of the rows, summed up.
MemOf(rowOf, keys) == MapThenSumSet(LAMBDA k : rowOf[k].mem, keys)

\* Each summary is what gpu_types.h:120 says of the detailed rows handed out with
\* it, whatever the order the Go maps are visited in: memory summed over the
\* devices, utilization at its highest, the devices counted, the single device or
\* the multi-device mark.
SummaryOfDetail ==
    \A p \in DOMAIN summary :
        LET rows == {k \in DOMAIN detail : k[1] = p}
            row  == summary[p]
        IN  /\ row.total = MemOf(detail, rows)
            /\ IsPeak(row.util, {detail[k].util : k \in rows})
            /\ IsPeak(row.ts, {detail[k].ts : k \in rows})
            /\ row.devCount = Cardinality(rows)
            /\ IF \E d \in Devs : rows = {<<p, d>>}
                 THEN <<p, row.primary>> \in rows
                 ELSE row.primary = Multi
=============================================================================
