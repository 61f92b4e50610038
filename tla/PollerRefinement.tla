-------------------------- MODULE PollerRefinement --------------------------
(***************************************************************************)
(* TLAPS proof that the poll loop implements Publication: each step        *)
(* rewrites one item, loses one, advertises the round, or is invisible to  *)
(* readers.                                                                *)
(***************************************************************************)
EXTENDS PollerProofs

USE DEF MetaEntry, DeviceEntry, DetailRow, SummaryRow

(***************************************************************************)
(* The readers' view of the maps, kind by kind.                            *)
(***************************************************************************)
View == [i \in Items |-> Held(i)]

LEMMA ItemKinds ==
  /\ \A s \in Slots : <<"device", s>> \in Items /\ Held(<<"device", s>>) = gpu_device[s]
  /\ \A k \in Keys : <<"key", k>> \in Items /\ Held(<<"key", k>>) = gpu_per_pid_per_device[k]
  /\ \A p \in Pids : <<"pid", p>> \in Items /\ Held(<<"pid", p>>) = gpu_per_pid[p].stamp
  /\ \A i \in Items : \/ \E s \in Slots : i = <<"device", s>>
                      \/ \E k \in Keys : i = <<"key", k>>
                      \/ \E p \in Pids : i = <<"pid", p>>
  BY DEF Items, Held

LEMMA ItemKindsNext ==
  /\ \A s \in Slots : Held(<<"device", s>>)' = gpu_device'[s]
  /\ \A k \in Keys : Held(<<"key", k>>)' = gpu_per_pid_per_device'[k]
  /\ \A p \in Pids : Held(<<"pid", p>>)' = gpu_per_pid'[p].stamp
  BY DEF Held

LEMMA LostItems ==
  ASSUME TypeOK
  PROVE  /\ Lost \subseteq Items
         /\ \A s : <<"device", s>> \notin Lost
         /\ \A k : <<"key", k>> \in Lost <=> k \in lostKeys
         /\ \A p : <<"pid", p>> \in Lost <=> p \in lostPids
  BY DEF TypeOK, Lost, Items

LEMMA HeldWithinTick ==
  ASSUME IInv, NEW i \in Items
  PROVE  Held(i) <= tick /\ Held(i) \in Rounds
  BY ItemKinds DEF IInv, WithinTick, TypeOK

LEMMA SignalWithinTick == ASSUME IInv PROVE gpu_meta.stamp <= tick
  BY DEF IInv, WithinTick

(***************************************************************************)
(* One lemma per kind of step.                                             *)
(***************************************************************************)
LEMMA Invisible ==
  ASSUME UNCHANGED <<maps, history>>
  PROVE  UNCHANGED <<View, gpu_meta.stamp, Announced, Lost>>
  BY DEF maps, history, View, Held, Announced, Lost

LEMMA DeviceRewrite ==
  ASSUME IInv, WriteDevice
  PROVE  Promise!Next \/ UNCHANGED <<View, gpu_meta.stamp, Announced, Lost>>
<1>type. TypeOK /\ tick \in Rounds
  BY DEF IInv, TypeOK
<1> PICK d \in devsLeft : UpdateDevice(d)
  BY DEF WriteDevice
<1>same. UNCHANGED <<gpu_meta, gpu_per_pid_per_device, gpu_per_pid, covered, lostKeys, lostPids>>
  BY DEF WriteDevice, history
<1>rest. UNCHANGED <<gpu_meta.stamp, Announced, Lost>>
  BY <1>same DEF Announced, Lost
<1>1. CASE d \notin Slots
  <2>1. gpu_device' = gpu_device
    BY <1>1 DEF UpdateDevice
  <2> QED
    BY <2>1, <1>same, Invisible DEF maps, history
<1>2. CASE d \in Slots
  <2> DEFINE i == <<"device", d>>
  <2>1. i \in Items
    BY <1>2, ItemKinds
  <2>2. View[i] <= tick
    BY <2>1, HeldWithinTick DEF View
  <2>3. View' = [j \in Items |-> IF j = i THEN tick ELSE IF j \in {} THEN 0 ELSE View[j]]
    <3>1. \A s \in Slots : gpu_device'[s] = IF s = d THEN tick ELSE gpu_device[s]
      BY <1>2, <1>type DEF UpdateDevice, TypeOK
    <3>2. \A j \in Items : Held(j)' = IF j = i THEN tick ELSE Held(j)
      BY <3>1, <1>2, <1>same, ItemKinds, ItemKindsNext
    <3> QED
      BY <3>2 DEF View
  <2>4. Lost' = (Lost \ {i}) \cup {}
    BY <1>type, <1>rest, LostItems
  <2>5. Promise!Rewrite(i, tick, {})
    BY <2>2, <2>3, <2>4, <1>rest, SignalWithinTick DEF Promise!Rewrite, View
  <2> QED
    BY <2>1, <2>5, <1>type DEF Promise!Next, Promise!Stamps, Rounds
<1> QED
  BY <1>1, <1>2

LEMMA DetailRewrite ==
  ASSUME IInv, NEW key \in Keys, WriteKey(key)
  PROVE  Promise!Next
<1>type. TypeOK /\ TypeOK' /\ tick \in Rounds
  BY InvStep DEF IInv, TypeOK, Next, RunStep
<1> DEFINE i == <<"key", key>>
<1>i. i \in Items /\ View[i] <= tick
  BY ItemKinds, HeldWithinTick DEF View
<1>same. UNCHANGED <<gpu_meta, gpu_device, gpu_per_pid, covered, lostPids>>
  BY DEF WriteKey
<1>rest. UNCHANGED <<gpu_meta.stamp, Announced>>
  BY <1>same DEF Announced
<1>1. CASE "detail" \in Fallible /\ lostKeys' = lostKeys \cup {key} /\ UNCHANGED gpu_per_pid_per_device
  <2>1. UNCHANGED View
    BY <1>1, <1>same DEF View, Held
  <2>2. Lost' = Lost \cup {i}
    BY <1>1, <1>same DEF Lost
  <2>3. Promise!Miss(i)
    BY <2>1, <2>2, <1>rest DEF Promise!Miss, View
  <2> QED
    BY <2>3, <1>i DEF Promise!Next
<1>2. ASSUME NEW gone \in Evictions({k \in Keys : gpu_per_pid_per_device[k] > 0}, key),
             gpu_per_pid_per_device' =
               [k \in Keys |-> IF k = key THEN tick
                               ELSE IF k \in gone THEN 0 ELSE gpu_per_pid_per_device[k]],
             lostKeys' = (lostKeys \ {key}) \cup gone
      PROVE  Promise!Next
  <2> DEFINE out == {"key"} \X gone
  <2>0. gone \subseteq Keys /\ key \notin gone
    BY EvictionsAreRows
  <2>1. View' = [j \in Items |-> IF j = i THEN tick ELSE IF j \in out THEN 0 ELSE View[j]]
    <3>1. \A j \in Items : Held(j)' = IF j = i THEN tick ELSE IF j \in out THEN 0 ELSE Held(j)
      BY <1>2, <1>same, ItemKinds, ItemKindsNext
    <3> QED
      BY <3>1 DEF View
  <2>2. Lost' = (Lost \ {i}) \cup out
    BY <1>2, <1>same DEF Lost
  <2>3. i \notin out /\ out \subseteq Items
    BY <2>0, ItemKinds
  <2>4. Promise!Rewrite(i, tick, out)
    BY <2>1, <2>2, <2>3, <1>i, <1>rest, SignalWithinTick DEF Promise!Rewrite, View
  <2> QED
    BY <2>3, <2>4, <1>i, <1>type DEF Promise!Next, Promise!Stamps, Rounds
<1> QED
  BY <1>1, <1>2 DEF WriteKey, UpdatePerPidPerDevice

LEMMA SummaryRewrite ==
  ASSUME IInv, NEW pid \in Pids, WritePid(pid)
  PROVE  Promise!Next
<1>type. TypeOK /\ tick \in Rounds
  BY DEF IInv, TypeOK
<1> DEFINE i == <<"pid", pid>>
           devs == DevsOf(perDev, pid)
<1>i. i \in Items /\ View[i] <= tick
  BY ItemKinds, HeldWithinTick DEF View
<1>same. UNCHANGED <<gpu_meta, gpu_device, gpu_per_pid_per_device, covered, lostKeys>>
  BY DEF WritePid
<1>rest. UNCHANGED <<gpu_meta.stamp, Announced>>
  BY <1>same DEF Announced
<1>1. CASE "summary" \in Fallible /\ lostPids' = lostPids \cup {pid} /\ UNCHANGED gpu_per_pid
  <2>1. UNCHANGED View
    BY <1>1, <1>same DEF View, Held
  <2>2. Lost' = Lost \cup {i}
    BY <1>1, <1>same DEF Lost
  <2>3. Promise!Miss(i)
    BY <2>1, <2>2, <1>rest DEF Promise!Miss, View
  <2> QED
    BY <2>3, <1>i DEF Promise!Next
<1>2. ASSUME NEW gone \in Evictions({p \in Pids : gpu_per_pid[p].stamp > 0}, pid),
             gpu_per_pid' =
               [p \in Pids |-> IF p = pid THEN [stamp |-> tick, devs |-> devs]
                               ELSE IF p \in gone THEN NoRow ELSE gpu_per_pid[p]],
             lostPids' = (lostPids \ {pid}) \cup gone
      PROVE  Promise!Next
  <2> DEFINE out == {"pid"} \X gone
  <2>0. gone \subseteq Pids /\ pid \notin gone
    BY EvictionsAreRows
  <2>1. View' = [j \in Items |-> IF j = i THEN tick ELSE IF j \in out THEN 0 ELSE View[j]]
    <3>1. \A p \in Pids : gpu_per_pid'[p].stamp =
                            IF p = pid THEN tick ELSE IF p \in gone THEN 0 ELSE gpu_per_pid[p].stamp
      BY <1>2 DEF NoRow
    <3>2. \A j \in Items : Held(j)' = IF j = i THEN tick ELSE IF j \in out THEN 0 ELSE Held(j)
      BY <3>1, <1>same, ItemKinds, ItemKindsNext
    <3> QED
      BY <3>2 DEF View
  <2>2. Lost' = (Lost \ {i}) \cup out
    BY <1>2, <1>same DEF Lost
  <2>3. i \notin out /\ out \subseteq Items
    BY <2>0, ItemKinds
  <2>4. Promise!Rewrite(i, tick, out)
    BY <2>1, <2>2, <2>3, <1>i, <1>rest, SignalWithinTick DEF Promise!Rewrite, View
  <2> QED
    BY <2>3, <2>4, <1>i, <1>type DEF Promise!Next, Promise!Stamps, Rounds
<1> QED
  BY <1>1, <1>2 DEF WritePid, UpdatePerPid

LEMMA RoundAdvertised ==
  ASSUME IInv, WriteMeta
  PROVE  Promise!Next \/ UNCHANGED <<View, gpu_meta.stamp, Announced, Lost>>
<1>type. TypeOK /\ tick \in Rounds
  BY DEF IInv, TypeOK
<1>same. UNCHANGED <<gpu_device, gpu_per_pid_per_device, gpu_per_pid, lostKeys, lostPids>>
  BY DEF WriteMeta
<1>rest. UNCHANGED <<View, Lost>>
  BY <1>same DEF View, Held, Lost
<1>1. CASE UNCHANGED <<gpu_meta, covered>>
  BY <1>1, <1>rest DEF Announced
<1>2. CASE gpu_meta' = Meta /\ covered' = perDev
  <2>1. IInv'
    BY InvStep DEF Next, RunStep
  <2>2. Announced' \subseteq Items
    <3>1. PidsOf(perDev) \subseteq Pids /\ perDev \subseteq Keys
      BY <1>type DEF TypeOK, PidsOf, Keys
    <3> QED
      BY <1>2, <3>1 DEF Announced, Items
  <2>3. gpu_meta'.stamp = tick /\ gpu_meta.stamp <= tick
    BY <1>2 DEF Meta, IInv, WithinTick
  <2>4. \A j \in Announced' : j \in Lost \/ View[j] >= tick
    <3> SUFFICES ASSUME NEW j \in Announced' PROVE j \in Lost \/ View[j] >= tick
      OBVIOUS
    <3>0. j \in Items
      BY <2>2
    <3>1. CASE \E s \in Slots : s < gpu_meta'.n_devices /\ j = <<"device", s>>
      BY <3>0, <3>1, <1>same, <2>1, <2>3, ItemKinds DEF View, IInv, DataBeforeMeta
    <3>2. CASE \E k \in perDev : j = <<"key", k>>
      <4> PICK k \in perDev : j = <<"key", k>>
        BY <3>2
      <4>1. k \in Keys /\ (k \in lostKeys \/ gpu_per_pid_per_device[k] >= tick)
        BY <1>type, <1>2, <1>same, <2>1, <2>3 DEF TypeOK, IInv, DataBeforeMeta
      <4> QED
        BY <3>0, <4>1, <1>type, ItemKinds, LostItems DEF View
    <3>3. CASE \E k \in perDev : j = <<"pid", k[1]>>
      <4> PICK k \in perDev : j = <<"pid", k[1]>>
        BY <3>3
      <4>1. k[1] \in Pids /\ (k[1] \in lostPids \/ gpu_per_pid[k[1]].stamp >= tick)
        BY <1>type, <1>2, <1>same, <2>1, <2>3 DEF TypeOK, Keys, IInv, DataBeforeMeta
      <4> QED
        BY <3>0, <4>1, <1>type, ItemKinds, LostItems DEF View
    <3> QED
      BY <3>1, <3>2, <3>3, <1>2 DEF Announced, PidsOf
  <2>5. Promise!Advertise(tick, Announced')
    BY <2>3, <2>4, <1>rest DEF Promise!Advertise, View
  <2> QED
    BY <2>2, <2>5, <1>type DEF Promise!Next, Promise!Stamps, Rounds
<1> QED
  BY <1>1, <1>2 DEF WriteMeta, UpdateMeta

(***************************************************************************)
(* Initial states map to initial states, steps to steps or stutters.       *)
(***************************************************************************)
LEMMA PromiseInit == Init => Promise!Init
<1> SUFFICES ASSUME Init PROVE Promise!Init
  OBVIOUS
<1>1. View = [i \in Items |-> 0]
  <2>1. \A i \in Items : Held(i) = 0
    BY ItemKinds DEF Init, NoRow
  <2> QED
    BY <2>1 DEF View
<1>2. gpu_meta.stamp = 0
  BY DEF Init
<1>3. Announced = {}
  BY DEF Init, Announced, PidsOf, Slots
<1>4. Lost = {}
  BY DEF Init, Lost
<1> QED
  BY <1>1, <1>2, <1>3, <1>4 DEF Promise!Init, View

LEMMA PromiseStep == IInv /\ [Next]_vars => [Promise!Next]_(Promise!vars)
<1> SUFFICES ASSUME IInv, [Next]_vars
             PROVE  Promise!Next \/ UNCHANGED <<View, gpu_meta.stamp, Announced, Lost>>
  BY DEF Promise!vars, View
<1>1. CASE SourceInit \/ ReadDevices \/ ReadSamples \/ GroupByPid \/ SelectDone \/ SelectTick
           \/ TickerFires \/ Cancel \/ Crash \/ Restart \/ UNCHANGED vars
  <2>1. UNCHANGED <<maps, history>>
    BY <1>1 DEF SourceInit, ReadDevices, ReadSamples, GroupByPid, SelectDone, SelectTick,
                TickerFires, Cancel, Crash, Restart, vars
  <2> QED
    BY <2>1, Invisible
<1>2. CASE WriteDevice
  BY <1>2, DeviceRewrite
<1>3. CASE \E key \in Keys : WriteKey(key)
  BY <1>3, DetailRewrite
<1>4. CASE \E pid \in Pids : WritePid(pid)
  BY <1>4, SummaryRewrite
<1>5. CASE WriteMeta
  BY <1>5, RoundAdvertised
<1> QED
  BY <1>1, <1>2, <1>3, <1>4, <1>5 DEF Next, RunStep

(***************************************************************************)
(* The poll loop keeps the promise of Publication to its readers, whatever *)
(* fails, is evicted or is killed (poller.go:107-293).                     *)
(***************************************************************************)
THEOREM PromiseKept == Spec => ImplementsPublication
  BY InvInit, InvStep, PromiseInit, PromiseStep, PTL DEF Spec, ImplementsPublication, Promise!Spec
=============================================================================
