---------------------------- MODULE PollerProofs ----------------------------
(***************************************************************************)
(* TLAPS proofs about Poller: for any number of processes and devices, any *)
(* capacity of the maps, with or without failing updates.                  *)
(***************************************************************************)
EXTENDS Poller, TLAPS

\* The entries of the maps are plain records and numbers to every proof below.
USE DEF MetaEntry, DeviceEntry, DetailRow, SummaryRow

LEMMA RoundsArith == /\ \A r \in Rounds : r \in Int
                     /\ 0 \in Rounds
                     /\ \A r \in Rounds : r < MaxTick => r + 1 \in Rounds
  BY PollerAssumption DEF Rounds

(***************************************************************************)
(* Every step keeps every variable in its type.                            *)
(***************************************************************************)
LEMMA NoRowType == NoRow \in [stamp : Rounds, devs : SUBSET Devices]
  BY RoundsArith DEF NoRow

LEMMA TypeInit == Init => TypeOK
<1> SUFFICES ASSUME Init PROVE TypeOK
  OBVIOUS
<1>1. gpu_meta \in [stamp : Rounds, n_devices : {0, NumDevices}]
  BY RoundsArith DEF Init
<1>2. gpu_per_pid \in [Pids -> [stamp : Rounds, devs : SUBSET Devices]]
  BY NoRowType DEF Init
<1> QED
  BY <1>1, <1>2, RoundsArith DEF Init, TypeOK

(***************************************************************************)
(* What an update of an LRU hash does to each row, failed or not.          *)
(***************************************************************************)
LEMMA EvictionsAreRows == \A present, x, gone : gone \in Evictions(present, x) =>
                            /\ gone \subseteq present
                            /\ x \notin gone
  BY DEF Evictions

KeyChange(key) ==
    /\ gpu_per_pid_per_device' \in [Keys -> Rounds]
    /\ lostKeys' \in SUBSET Keys
    /\ \/ gpu_per_pid_per_device'[key] = tick
       \/ key \in lostKeys' /\ gpu_per_pid_per_device'[key] = gpu_per_pid_per_device[key]
    /\ \A k \in Keys \ {key} :
         \/ /\ gpu_per_pid_per_device'[k] = gpu_per_pid_per_device[k]
            /\ k \in lostKeys => k \in lostKeys'
         \/ gpu_per_pid_per_device'[k] = 0 /\ k \in lostKeys'

PidChange(pid, devs) ==
    /\ gpu_per_pid' \in [Pids -> [stamp : Rounds, devs : SUBSET Devices]]
    /\ lostPids' \in SUBSET Pids
    /\ \/ gpu_per_pid'[pid] = [stamp |-> tick, devs |-> devs]
       \/ pid \in lostPids' /\ gpu_per_pid'[pid] = gpu_per_pid[pid]
    /\ \A p \in Pids \ {pid} :
         \/ /\ gpu_per_pid'[p] = gpu_per_pid[p]
            /\ p \in lostPids => p \in lostPids'
         \/ gpu_per_pid'[p] = NoRow /\ p \in lostPids'

LEMMA KeyUpdate ==
  ASSUME TypeOK, NEW key \in Keys, UpdatePerPidPerDevice(key)
  PROVE  KeyChange(key)
<1> USE DEF TypeOK, KeyChange
<1>1. CASE "detail" \in Fallible /\ lostKeys' = lostKeys \cup {key} /\ UNCHANGED gpu_per_pid_per_device
  BY <1>1
<1>2. ASSUME NEW gone \in Evictions({k \in Keys : gpu_per_pid_per_device[k] > 0}, key),
             gpu_per_pid_per_device' =
               [k \in Keys |-> IF k = key THEN tick
                               ELSE IF k \in gone THEN 0 ELSE gpu_per_pid_per_device[k]],
             lostKeys' = (lostKeys \ {key}) \cup gone
      PROVE  KeyChange(key)
  BY <1>2, EvictionsAreRows, RoundsArith
<1> QED
  BY <1>1, <1>2 DEF UpdatePerPidPerDevice

LEMMA PidUpdate ==
  ASSUME TypeOK, NEW pid \in Pids, NEW devs \in SUBSET Devices, UpdatePerPid(pid, devs)
  PROVE  PidChange(pid, devs)
<1> USE DEF TypeOK, PidChange
<1>1. CASE "summary" \in Fallible /\ lostPids' = lostPids \cup {pid} /\ UNCHANGED gpu_per_pid
  BY <1>1
<1>2. ASSUME NEW gone \in Evictions({p \in Pids : gpu_per_pid[p].stamp > 0}, pid),
             gpu_per_pid' =
               [p \in Pids |-> IF p = pid THEN [stamp |-> tick, devs |-> devs]
                               ELSE IF p \in gone THEN NoRow ELSE gpu_per_pid[p]],
             lostPids' = (lostPids \ {pid}) \cup gone
      PROVE  PidChange(pid, devs)
  <2>1. [stamp |-> tick, devs |-> devs] \in [stamp : Rounds, devs : SUBSET Devices]
    OBVIOUS
  <2> QED
    BY <1>2, <2>1, EvictionsAreRows, NoRowType
<1> QED
  BY <1>1, <1>2 DEF UpdatePerPid

LEMMA TypeStep == TypeOK /\ [Next]_vars => TypeOK'
<1> SUFFICES ASSUME TypeOK, [Next]_vars PROVE TypeOK'
  OBVIOUS
<1> USE DEF TypeOK, maps, history, EnterSelect
<1>1. CASE SourceInit
  BY <1>1 DEF SourceInit
<1>2. CASE ReadDevices
  BY <1>2, RoundsArith DEF ReadDevices
<1>3. CASE WriteDevice
  BY <1>3 DEF WriteDevice, UpdateDevice
<1>4. CASE ReadSamples
  BY <1>4 DEF ReadSamples
<1>5. ASSUME NEW key \in Keys, WriteKey(key) PROVE TypeOK'
  BY <1>5, KeyUpdate DEF WriteKey, KeyChange
<1>6. CASE GroupByPid
  BY <1>6 DEF GroupByPid, PidsOf, Keys
<1>7. ASSUME NEW pid \in Pids, WritePid(pid) PROVE TypeOK'
  <2>1. DevsOf(perDev, pid) \in SUBSET Devices
    BY DEF DevsOf
  <2> QED
    BY <1>7, <2>1, PidUpdate DEF WritePid, PidChange
<1>8. CASE WriteMeta
  <2>1. gpu_meta' \in [stamp : Rounds, n_devices : {0, NumDevices}] /\ covered' \in SUBSET Keys
    BY <1>8 DEF WriteMeta, UpdateMeta, Meta
  <2> QED
    BY <1>8, <2>1 DEF WriteMeta
<1>9. CASE SelectDone
  BY <1>9 DEF SelectDone
<1>10. CASE SelectTick
  BY <1>10 DEF SelectTick
<1>11. CASE TickerFires
  BY <1>11 DEF TickerFires
<1>12. CASE Cancel
  BY <1>12 DEF Cancel
<1>13. CASE Crash
  BY <1>13 DEF Crash
<1>14. CASE Restart
  BY <1>14 DEF Restart
<1>15. CASE UNCHANGED vars
  BY <1>15 DEF vars, process
<1> QED
  BY <1>1, <1>2, <1>3, <1>4, <1>5, <1>6, <1>7, <1>8, <1>9, <1>10, <1>11,
     <1>12, <1>13, <1>14, <1>15 DEF Next, RunStep

(***************************************************************************)
(* TypeOK is an invariant of the poll loop, crashes and restarts included. *)
(***************************************************************************)
THEOREM TypeCorrect == Spec => []TypeOK
  BY TypeInit, TypeStep, PTL DEF Spec

(***************************************************************************)
(* The inductive invariant.  The steps that write no map and no history    *)
(* preserve everything but LoopProgress at once, whatever they do to the   *)
(* control state.                                                          *)
(***************************************************************************)
LEMMA InvInit == Init => IInv
<1> SUFFICES ASSUME Init PROVE IInv
  OBVIOUS
<1>1. TypeOK
  BY TypeInit
<1>2. WithinTick
  BY DEF Init, WithinTick, NoRow
<1>3. LoopProgress
  BY DEF Init, LoopProgress
<1>4. DataBeforeMeta
  BY PollerAssumption DEF Init, DataBeforeMeta, Slots
<1>5. SummaryAfterDetail
  BY DEF Init, SummaryAfterDetail, NoRow
<1>6. DeviceBeforeDetail
  BY PollerAssumption DEF Init, DeviceBeforeDetail, Slots, Keys
<1> QED
  BY <1>1, <1>2, <1>3, <1>4, <1>5, <1>6 DEF IInv

\* A step that leaves the maps alone keeps the properties that only read them.
LEMMA MapsAlone ==
  ASSUME IInv, UNCHANGED <<maps, history>>, tick' \in Rounds, tick' >= tick
  PROVE  WithinTick' /\ DataBeforeMeta' /\ SummaryAfterDetail' /\ DeviceBeforeDetail'
<1>1. WithinTick'
  BY RoundsArith DEF IInv, TypeOK, WithinTick, maps, history
<1>2. DataBeforeMeta'
  BY DEF IInv, DataBeforeMeta, maps, history
<1>3. SummaryAfterDetail'
  BY DEF IInv, SummaryAfterDetail, maps, history
<1>4. DeviceBeforeDetail'
  BY DEF IInv, DeviceBeforeDetail, maps, history
<1> QED
  BY <1>1, <1>2, <1>3, <1>4

LEMMA InvStep == IInv /\ [Next]_vars => IInv'
<1> SUFFICES ASSUME IInv, [Next]_vars PROVE IInv'
  OBVIOUS
<1>type. TypeOK /\ TypeOK'
  BY TypeStep DEF IInv
<1>tick. tick \in Rounds /\ tick \in Int
  BY <1>type, RoundsArith DEF TypeOK
<1>1. CASE SourceInit \/ GroupByPid \/ SelectDone \/ SelectTick \/ TickerFires
           \/ Cancel \/ Crash \/ Restart \/ UNCHANGED vars
  <2>1. UNCHANGED <<tick, maps, history>>
    BY <1>1 DEF SourceInit, GroupByPid, SelectDone, SelectTick, TickerFires,
                Cancel, Crash, Restart, vars, process
  <2>2. LoopProgress'
    BY <1>1, <2>1 DEF SourceInit, GroupByPid, DetailsDone, SelectDone, SelectTick, TickerFires,
                Cancel, Crash, Restart, vars, process, maps, history, IInv, LoopProgress, DevicesWritten
  <2> QED
    BY <1>type, <1>tick, <2>1, <2>2, MapsAlone DEF IInv
<1>2. CASE ReadDevices
  <2>1. UNCHANGED <<maps, history>> /\ tick' \in Rounds /\ tick' >= tick
    BY <1>2, <1>type, RoundsArith DEF ReadDevices, TypeOK
  <2>2. LoopProgress'
    BY <1>2 DEF ReadDevices, EnterSelect, LoopProgress, DevicesWritten
  <2> QED
    BY <1>type, <2>1, <2>2, MapsAlone DEF IInv
<1>3. CASE WriteDevice
  <2> PICK d \in devsLeft : UpdateDevice(d) /\ devsLeft' = devsLeft \ {d}
    BY <1>3 DEF WriteDevice
  <2> USE <1>3 DEF WriteDevice, UpdateDevice, history
  <2>1. \A s \in Slots : gpu_device'[s] = IF s = d THEN tick ELSE gpu_device[s]
    BY <1>type DEF TypeOK
  <2>2. WithinTick'
    BY <1>type, <1>tick, <2>1 DEF IInv, WithinTick, TypeOK
  <2>3. LoopProgress'
    BY <2>1, <1>type DEF IInv, LoopProgress, DevicesWritten
  <2>4. DataBeforeMeta'
    BY <2>1, <1>type, <1>tick DEF IInv, DataBeforeMeta, WithinTick, TypeOK
  <2>5. SummaryAfterDetail'
    BY DEF IInv, SummaryAfterDetail
  <2>6. DeviceBeforeDetail'
    BY <2>1, <1>type, <1>tick DEF IInv, DeviceBeforeDetail, WithinTick
  <2> QED
    BY <1>type, <2>2, <2>3, <2>4, <2>5, <2>6 DEF IInv
<1>4. CASE ReadSamples
  <2>1. UNCHANGED <<tick, maps, history>>
    BY <1>4 DEF ReadSamples
  <2>2. LoopProgress'
    BY <1>4, <2>1 DEF ReadSamples, DevicesDone, IInv, LoopProgress, DevicesWritten, maps, history
  <2> QED
    BY <1>type, <1>tick, <2>1, <2>2, MapsAlone DEF IInv
<1>5. ASSUME NEW key \in Keys, WriteKey(key) PROVE IInv'
  <2> USE <1>5 DEF WriteKey
  <2>1. KeyChange(key)
    BY <1>type, KeyUpdate
  <2>2. /\ UNCHANGED <<pc, tick, perDev, gpu_meta, gpu_device, gpu_per_pid, covered, lostPids>>
        /\ pc = "writeKey" /\ keysLeft' = keysLeft \ {key}
    OBVIOUS
  <2>3. \A k \in Keys : \/ gpu_per_pid_per_device'[k] = tick
                        \/ k \in lostKeys' /\ gpu_per_pid_per_device'[k] \in {0, gpu_per_pid_per_device[k]}
                        \/ /\ k # key
                           /\ gpu_per_pid_per_device'[k] = gpu_per_pid_per_device[k]
                           /\ k \in lostKeys => k \in lostKeys'
    BY <2>1 DEF KeyChange
  <2>4. \A k \in Keys : gpu_per_pid_per_device[k] \in Nat
    BY <1>type DEF TypeOK, Rounds
  <2>5. WithinTick'
    BY <1>type, <1>tick, <2>2, <2>3, <2>4 DEF IInv, WithinTick, TypeOK, Rounds
  <2>6. LoopProgress'
    BY <1>type, <2>2, <2>3 DEF IInv, LoopProgress, DevicesWritten, TypeOK
  <2>7. DataBeforeMeta'
    BY <1>type, <1>tick, <2>2, <2>3, <2>4 DEF IInv, DataBeforeMeta, WithinTick, TypeOK, Rounds
  <2>8. SummaryAfterDetail'
    <3> SUFFICES ASSUME NEW p \in Pids, NEW d \in gpu_per_pid[p].devs
                 PROVE  \/ <<p, d>> \in lostKeys'
                        \/ gpu_per_pid_per_device'[<<p, d>>] >= gpu_per_pid[p].stamp
      BY <2>2 DEF SummaryAfterDetail
    <3>1. <<p, d>> \in Keys
      BY <1>type DEF TypeOK, Keys
    <3>2. gpu_per_pid[p].stamp <= tick
      BY DEF IInv, WithinTick
    <3>3. \/ <<p, d>> \in lostKeys
          \/ gpu_per_pid_per_device[<<p, d>>] >= gpu_per_pid[p].stamp
      BY DEF IInv, SummaryAfterDetail
    <3> QED
      BY <1>type, <1>tick, <2>3, <3>1, <3>2, <3>3 DEF TypeOK, Rounds
  <2>9. DeviceBeforeDetail'
    BY <1>type, <1>tick, <2>2, <2>3, <2>4
       DEF IInv, DeviceBeforeDetail, LoopProgress, DevicesWritten, TypeOK, Rounds, Keys
  <2> QED
    BY <1>type, <2>5, <2>6, <2>7, <2>8, <2>9 DEF IInv
<1>6. ASSUME NEW pid \in Pids, WritePid(pid) PROVE IInv'
  <2> USE <1>6 DEF WritePid
  <2> DEFINE devs == DevsOf(perDev, pid)
  <2>1. PidChange(pid, devs)
    BY <1>type, PidUpdate DEF DevsOf
  <2>2. /\ UNCHANGED <<pc, tick, perDev, keysLeft, gpu_meta, gpu_device, gpu_per_pid_per_device,
                       covered, lostKeys>>
        /\ pc = "writePid" /\ pidsLeft' = pidsLeft \ {pid}
    OBVIOUS
  <2> HIDE DEF devs
  <2>3. \A p \in Pids : \/ p = pid /\ gpu_per_pid'[p] = [stamp |-> tick, devs |-> devs]
                        \/ p \in lostPids' /\ gpu_per_pid'[p] \in {NoRow, gpu_per_pid[p]}
                        \/ /\ p # pid
                           /\ gpu_per_pid'[p] = gpu_per_pid[p]
                           /\ p \in lostPids => p \in lostPids'
    BY <2>1 DEF PidChange
  <2>4. \A p \in Pids : gpu_per_pid[p].stamp \in Nat
    BY <1>type DEF TypeOK, Rounds
  <2>5. NoRow.stamp = 0 /\ NoRow.devs = {}
    BY DEF NoRow
  <2>6. WithinTick'
    BY <1>type, <1>tick, <2>2, <2>3, <2>4, <2>5 DEF IInv, WithinTick, TypeOK, Rounds
  <2>7. LoopProgress'
    <3>1. \A p \in PidsOf(perDev) : p \in Pids
      BY <1>type DEF TypeOK, PidsOf, Keys
    <3> QED
      BY <1>type, <2>2, <2>3, <2>5, <3>1 DEF IInv, LoopProgress, DevicesWritten
  <2>8. DataBeforeMeta'
    <3>1. \A k \in covered : k[1] \in Pids
      BY <1>type DEF TypeOK, Keys
    <3> QED
      BY <1>type, <1>tick, <2>2, <2>3, <2>4, <2>5, <3>1
         DEF IInv, DataBeforeMeta, WithinTick, TypeOK, Rounds
  <2>9. SummaryAfterDetail'
    <3> SUFFICES ASSUME NEW p \in Pids, NEW d \in gpu_per_pid'[p].devs
                 PROVE  \/ <<p, d>> \in lostKeys
                        \/ gpu_per_pid_per_device[<<p, d>>] >= gpu_per_pid'[p].stamp
      BY <2>2 DEF SummaryAfterDetail
    <3>1. CASE p = pid /\ gpu_per_pid'[p] = [stamp |-> tick, devs |-> devs]
      <4>1. <<p, d>> \in perDev
        BY <3>1 DEF devs, DevsOf
      <4>2. <<p, d>> \in lostKeys \/ gpu_per_pid_per_device[<<p, d>>] = tick
        BY <4>1, <2>2 DEF IInv, LoopProgress
      <4> QED
        BY <3>1, <4>2, <1>tick
    <3>2. CASE gpu_per_pid'[p] = gpu_per_pid[p]
      BY <3>2 DEF IInv, SummaryAfterDetail
    <3>3. CASE gpu_per_pid'[p] = NoRow
      BY <3>3, <2>5
    <3> QED
      BY <2>3, <3>1, <3>2, <3>3
  <2>10. DeviceBeforeDetail'
    BY <2>2 DEF IInv, DeviceBeforeDetail
  <2> QED
    BY <1>type, <2>6, <2>7, <2>8, <2>9, <2>10 DEF IInv
<1>7. CASE WriteMeta
  <2>1. UNCHANGED <<tick, gpu_device, gpu_per_pid_per_device, gpu_per_pid, lostKeys, lostPids>>
    BY <1>7 DEF WriteMeta
  <2>2. \/ UNCHANGED <<gpu_meta, covered>>
        \/ gpu_meta' = [stamp |-> tick, n_devices |-> NumDevices] /\ covered' = perDev
    BY <1>7 DEF WriteMeta, UpdateMeta, Meta
  <2>3. WithinTick'
    BY <1>tick, <2>1, <2>2 DEF IInv, WithinTick
  <2>4. LoopProgress'
    BY <1>7 DEF WriteMeta, EnterSelect, LoopProgress
  <2>5. DataBeforeMeta'
    <3>1. CASE UNCHANGED <<gpu_meta, covered>>
      BY <2>1, <3>1 DEF IInv, DataBeforeMeta
    <3>2. CASE gpu_meta' = [stamp |-> tick, n_devices |-> NumDevices] /\ covered' = perDev
      <4>1. \A d \in Slots : d < NumDevices => gpu_device[d] = tick
        BY <1>7, PollerAssumption
           DEF WriteMeta, IInv, LoopProgress, DevicesWritten, Slots, Devices
      <4>2. \A k \in perDev : k \in lostKeys \/ gpu_per_pid_per_device[k] = tick
        BY <1>7 DEF WriteMeta, IInv, LoopProgress
      <4>3. \A k \in perDev : k[1] \in lostPids \/ gpu_per_pid[k[1]].stamp = tick
        BY <1>7 DEF WriteMeta, SummariesDone, IInv, LoopProgress, PidsOf
      <4> QED
        BY <1>tick, <2>1, <3>2, <4>1, <4>2, <4>3 DEF DataBeforeMeta
    <3> QED
      BY <2>2, <3>1, <3>2
  <2>6. SummaryAfterDetail' /\ DeviceBeforeDetail'
    BY <2>1 DEF IInv, SummaryAfterDetail, DeviceBeforeDetail
  <2> QED
    BY <1>type, <2>3, <2>4, <2>5, <2>6 DEF IInv
<1> QED
  BY <1>1, <1>2, <1>3, <1>4, <1>5, <1>6, <1>7 DEF Next, RunStep

(***************************************************************************)
(* The inductive invariant holds throughout (poller.go:77-293): what       *)
(* the loop has done of a round is what its place in the code says.        *)
(***************************************************************************)
THEOREM Invariance == Spec => []IInv
  BY InvInit, InvStep, PTL DEF Spec

(***************************************************************************)
(* gpu_meta is written last: in every reachable state, whatever round is   *)
(* in progress, whatever failed or was evicted, and wherever the process   *)
(* was killed, the advertised round is in the maps (poller.go:278).        *)
(***************************************************************************)
THEOREM MetaIsLast == Spec => []DataBeforeMeta
<1>1. IInv => DataBeforeMeta
  BY DEF IInv
<1> QED
  BY <1>1, Invariance, PTL

(***************************************************************************)
(* No summary is newer than the detailed rows it counts (tick writes the   *)
(* per-device rows in its second loop, the summaries in its third).        *)
(***************************************************************************)
THEOREM SummaryIsAfterDetail == Spec => []SummaryAfterDetail
<1>1. IInv => SummaryAfterDetail
  BY DEF IInv
<1> QED
  BY <1>1, Invariance, PTL

(***************************************************************************)
(* No detailed row is newer than the entry of its device (tick writes the  *)
(* devices in its first loop, and nothing at all when Devices fails).      *)
(***************************************************************************)
THEOREM DeviceIsBeforeDetail == Spec => []DeviceBeforeDetail
<1>1. IInv => DeviceBeforeDetail
  BY DEF IInv
<1> QED
  BY <1>1, Invariance, PTL
=============================================================================
