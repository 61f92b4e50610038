----------------------------- MODULE DumpProofs -----------------------------
(***************************************************************************)
(* TLAPS proofs about Dump: what a reader may conclude from the order in   *)
(* which it reads the maps, for any number of processes and devices, any   *)
(* capacity of the maps and any failures, while the bridge goes on.        *)
(***************************************************************************)
EXTENDS Dump, PollerProofs

\* As in PollerProofs, the entries of the maps are plain records and numbers.
USE DEF MetaEntry, DeviceEntry, DetailRow, SummaryRow

(***************************************************************************)
(* The inductive invariant: that of the poll loop, and what the reader's   *)
(* place in its sequence of reads says of the maps as they are now.        *)
(***************************************************************************)

\* What is printed was read from a map.
ShownTypes ==
    /\ shown.meta \in MetaEntry
    /\ \A d \in DOMAIN shown.device : shown.device[d] \in DeviceEntry
    /\ \A p \in DOMAIN shown.per_pid : shown.per_pid[p] \in SummaryRow
    /\ \A k \in DOMAIN shown.per_key : shown.per_key[k] \in DetailRow

\* A map that was not reached yet has nothing printed of it.
InOrder ==
    /\ stage = "meta" => DOMAIN shown.device = {} /\ due.keys = {} /\ due.pids = {}
    /\ stage \in {"meta", "device"} => DOMAIN shown.per_pid = {}
    /\ stage \in {"meta", "device", "per_pid"} => DOMAIN shown.per_key = {}

\* Whatever the bridge did since the gpu_meta line was read, what that line promised
\* has been replaced by something newer, was lost, or is still there.
StillPromised ==
    /\ shown.meta.stamp <= tick
    /\ \A d \in Slots : d < shown.meta.n_devices => gpu_device[d] >= shown.meta.stamp
    /\ \A k \in due.keys : gpu_per_pid_per_device[k] = 0 \/ gpu_per_pid_per_device[k] >= shown.meta.stamp
    /\ \A p \in due.pids : gpu_per_pid[p] = NoRow \/ gpu_per_pid[p].stamp >= shown.meta.stamp

\* The detailed rows that a printed summary counts are as recent, or gone.
StillCounted ==
    \A p \in DOMAIN shown.per_pid :
        /\ shown.per_pid[p].stamp <= tick
        /\ \A d \in shown.per_pid[p].devs :
             \/ <<p, d>> \in blamed
             \/ gpu_per_pid_per_device[<<p, d>>] = 0
             \/ gpu_per_pid_per_device[<<p, d>>] >= shown.per_pid[p].stamp

DInv == /\ IInv
        /\ DumpTypeOK
        /\ ShownTypes /\ InOrder
        /\ StillPromised /\ StillCounted
        /\ NothingOlderThanMeta /\ DetailNotOlderThanSummary

(***************************************************************************)
(* What a step of the bridge may do to the rows a reader has seen.         *)
(***************************************************************************)
MapsMove ==
    /\ tick' \in Rounds /\ tick' >= tick
    /\ \A d \in Slots : gpu_device'[d] \in {gpu_device[d], tick}
    /\ \A k \in Keys : gpu_per_pid_per_device'[k] \in {gpu_per_pid_per_device[k], tick, 0}
    /\ \A p \in Pids : \/ gpu_per_pid'[p] \in {gpu_per_pid[p], NoRow}
                      \/ gpu_per_pid'[p].stamp = tick

LEMMA BridgeMoves ==
  ASSUME TypeOK, [Next]_vars
  PROVE  MapsMove
<1>type. tick \in Rounds /\ \A r \in Rounds : r \in Int
  BY RoundsArith DEF TypeOK
<1> USE DEF maps, history
<1>1. CASE SourceInit \/ ReadSamples \/ GroupByPid \/ SelectDone \/ SelectTick
           \/ TickerFires \/ Cancel \/ Crash \/ Restart \/ UNCHANGED vars
  <2>1. UNCHANGED <<tick, maps>>
    BY <1>1 DEF SourceInit, ReadSamples, GroupByPid, SelectDone, SelectTick,
                TickerFires, Cancel, Crash, Restart, vars, process
  <2> QED
    BY <1>type, <2>1 DEF MapsMove
<1>2. CASE ReadDevices
  <2>1. UNCHANGED maps
    BY <1>2 DEF ReadDevices
  <2>2. tick' \in Rounds /\ tick' >= tick
    BY <1>2, <1>type, PollerAssumption DEF ReadDevices, EnterSelect, Rounds
  <2> QED
    BY <1>type, <2>1, <2>2 DEF MapsMove
<1>3. CASE WriteDevice
  <2>1. UNCHANGED <<tick, gpu_per_pid_per_device, gpu_per_pid>>
    BY <1>3 DEF WriteDevice
  <2>2. \A d \in Slots : gpu_device'[d] \in {gpu_device[d], tick}
    BY <1>3 DEF WriteDevice, UpdateDevice, TypeOK
  <2> QED
    BY <1>type, <2>1, <2>2 DEF MapsMove
<1>4. ASSUME NEW key \in Keys, WriteKey(key) PROVE MapsMove
  <2>1. KeyChange(key)
    BY <1>4, KeyUpdate DEF WriteKey
  <2>2. UNCHANGED <<tick, gpu_device, gpu_per_pid>>
    BY <1>4 DEF WriteKey
  <2> QED
    BY <1>type, <2>1, <2>2 DEF KeyChange, MapsMove
<1>5. ASSUME NEW pid \in Pids, WritePid(pid) PROVE MapsMove
  <2>1. PidChange(pid, DevsOf(perDev, pid))
    BY <1>5, PidUpdate DEF WritePid, DevsOf
  <2>2. UNCHANGED <<tick, gpu_device, gpu_per_pid_per_device>>
    BY <1>5 DEF WritePid
  <2> QED
    BY <1>type, <2>1, <2>2 DEF PidChange, MapsMove
<1>6. CASE WriteMeta
  <2>1. UNCHANGED <<tick, gpu_device, gpu_per_pid_per_device, gpu_per_pid>>
    BY <1>6 DEF WriteMeta, EnterSelect
  <2> QED
    BY <1>type, <2>1 DEF MapsMove
<1> QED
  BY <1>1, <1>2, <1>3, <1>4, <1>5, <1>6 DEF Next, RunStep

LEMMA DumpInvInit == DumpInit => DInv
<1> SUFFICES ASSUME DumpInit PROVE DInv
  OBVIOUS
<1>1. IInv
  BY InvInit DEF DumpInit
<1>2. /\ shown = [meta |-> gpu_meta, device |-> Nothing, per_pid |-> Nothing, per_key |-> Nothing]
      /\ stage = "meta" /\ ahead = {} /\ moved = FALSE /\ blamed = {}
      /\ due.keys = {} /\ due.pids = {}
  BY DEF DumpInit
<1>3. DOMAIN Nothing = {}
  BY DEF Nothing
<1>4. DumpTypeOK /\ ShownTypes /\ InOrder
  BY <1>1, <1>2, <1>3 DEF DumpTypeOK, ShownTypes, InOrder, IInv, TypeOK
<1>5. StillPromised /\ StillCounted
  BY <1>1, <1>2, <1>3 DEF StillPromised, StillCounted, IInv, WithinTick, DataBeforeMeta
<1>6. NothingOlderThanMeta /\ DetailNotOlderThanSummary
  BY <1>2, <1>3 DEF NothingOlderThanMeta, DetailNotOlderThanSummary
<1> QED
  BY <1>1, <1>4, <1>5, <1>6 DEF DInv

(***************************************************************************)
(* The bridge goes on: what was promised stays, moves up or is lost.       *)
(***************************************************************************)
LEMMA BridgeKeeps ==
  ASSUME DInv, [Next]_vars, UNCHANGED <<stage, shown, due, blamed>>,
         ahead' \subseteq ahead, moved' \in BOOLEAN
  PROVE  DInv'
<1>1. IInv' /\ MapsMove
  BY InvStep, BridgeMoves DEF DInv, IInv
<1>2. TypeOK /\ TypeOK' /\ (\A r \in Rounds : r \in Int) /\ tick \in Rounds
  BY <1>1, RoundsArith DEF DInv, IInv, TypeOK
<1>3. due.keys \subseteq Keys /\ due.pids \subseteq Pids
  BY DEF DInv, DumpTypeOK
<1>4. DumpTypeOK' /\ ShownTypes' /\ InOrder'
  BY DEF DInv, DumpTypeOK, ShownTypes, InOrder
<1>5. StillPromised'
  <2>1. shown.meta.stamp \in Int /\ shown.meta.stamp <= tick
    BY <1>2 DEF DInv, ShownTypes, StillPromised
  <2>2. shown.meta.stamp <= tick'
    BY <1>1, <1>2, <2>1 DEF MapsMove
  <2>3. \A d \in Slots : d < shown.meta.n_devices => gpu_device'[d] >= shown.meta.stamp
    BY <1>1, <1>2, <2>1 DEF MapsMove, DInv, StillPromised, TypeOK
  <2>4. \A k \in due.keys : \/ gpu_per_pid_per_device'[k] = 0
                            \/ gpu_per_pid_per_device'[k] >= shown.meta.stamp
    BY <1>1, <1>2, <1>3, <2>1 DEF MapsMove, DInv, StillPromised
  <2>5. \A p \in due.pids : gpu_per_pid'[p] = NoRow \/ gpu_per_pid'[p].stamp >= shown.meta.stamp
    BY <1>1, <1>2, <1>3, <2>1 DEF MapsMove, DInv, StillPromised
  <2> QED
    BY <2>2, <2>3, <2>4, <2>5 DEF StillPromised
<1>6. StillCounted'
  <2> SUFFICES ASSUME NEW p \in DOMAIN shown.per_pid
               PROVE  /\ shown.per_pid[p].stamp <= tick'
                      /\ \A d \in shown.per_pid[p].devs :
                           \/ <<p, d>> \in blamed
                           \/ gpu_per_pid_per_device'[<<p, d>>] = 0
                           \/ gpu_per_pid_per_device'[<<p, d>>] >= shown.per_pid[p].stamp
    BY DEF StillCounted
  <2>1. /\ shown.per_pid[p].stamp \in Rounds /\ shown.per_pid[p].stamp <= tick
        /\ \A d \in shown.per_pid[p].devs : <<p, d>> \in Keys
    BY DEF DInv, ShownTypes, DumpTypeOK, StillCounted, Keys
  <2>2. shown.per_pid[p].stamp <= tick'
    BY <1>1, <1>2, <2>1 DEF MapsMove
  <2>3. ASSUME NEW d \in shown.per_pid[p].devs
        PROVE  \/ <<p, d>> \in blamed
               \/ gpu_per_pid_per_device'[<<p, d>>] = 0
               \/ gpu_per_pid_per_device'[<<p, d>>] >= shown.per_pid[p].stamp
    BY <1>1, <1>2, <2>1 DEF MapsMove, DInv, StillCounted
  <2> QED
    BY <2>2, <2>3
<1>7. NothingOlderThanMeta' /\ DetailNotOlderThanSummary'
  BY DEF DInv, NothingOlderThanMeta, DetailNotOlderThanSummary
<1> QED
  BY <1>1, <1>4, <1>5, <1>6, <1>7 DEF DInv

(***************************************************************************)
(* What a reader finds in a map.                                           *)
(***************************************************************************)
LEMMA ContentOf ==
  /\ stage = "device" => /\ DOMAIN Content(stage) = {d \in Slots : gpu_device[d] > 0}
                         /\ \A d \in DOMAIN Content(stage) : Content(stage)[d] = gpu_device[d]
  /\ stage = "per_pid" => /\ DOMAIN Content(stage) = {p \in Pids : gpu_per_pid[p] # NoRow}
                          /\ \A p \in DOMAIN Content(stage) : Content(stage)[p] = gpu_per_pid[p]
  /\ stage = "per_key" => /\ DOMAIN Content(stage) = {k \in Keys : gpu_per_pid_per_device[k] > 0}
                          /\ \A k \in DOMAIN Content(stage) :
                               Content(stage)[k] = gpu_per_pid_per_device[k]
  /\ stage \in {"meta", "done"} => DOMAIN Content(stage) = {}
<1>1. CASE stage = "device"
  BY <1>1 DEF Content
<1>2. CASE stage = "per_pid"
  BY <1>2 DEF Content
<1>3. CASE stage = "per_key"
  BY <1>3 DEF Content
<1>4. CASE stage \in {"meta", "done"}
  BY <1>4 DEF Content, Nothing
<1> QED
  BY <1>1, <1>2, <1>3, <1>4

(***************************************************************************)
(* The steps of the reader change no map.                                  *)
(***************************************************************************)
LEMMA MetaKeeps == DInv /\ DumpMeta => DInv'
<1> SUFFICES ASSUME DInv, DumpMeta PROVE DInv'
  OBVIOUS
<1> USE DEF DumpMeta
<1>1. IInv'
  BY InvStep DEF DInv
<1>2. /\ UNCHANGED <<tick, gpu_meta, gpu_device, gpu_per_pid_per_device, gpu_per_pid, covered, lostKeys, lostPids>>
      /\ TypeOK /\ DumpTypeOK /\ stage = "meta"
  BY DEF DInv, IInv, vars, process, maps, history
<1>3. stage' = "device" /\ ahead' = DOMAIN Content("device") /\ moved' = FALSE
  BY DEF Open, NextStage
<1>4. /\ DOMAIN shown' = {"meta", "device", "per_pid", "per_key"}
      /\ shown'.meta = gpu_meta
      /\ DOMAIN shown'.device = {} /\ DOMAIN shown'.per_pid = {} /\ DOMAIN shown'.per_key = {}
  BY <1>2 DEF DumpTypeOK, DInv, InOrder
<1>5. /\ due'.keys = covered \ lostKeys /\ due'.pids = PidsOf(covered) \ lostPids
      /\ due'.keys \subseteq Keys /\ due'.pids \subseteq Pids
  BY <1>2 DEF TypeOK, PidsOf, Keys
<1>6. DumpTypeOK'
  BY <1>2, <1>3, <1>4, <1>5 DEF DumpTypeOK, Content
<1>7. ShownTypes' /\ InOrder'
  BY <1>2, <1>3, <1>4 DEF ShownTypes, InOrder, TypeOK
<1>8. StillPromised'
  <2>1. gpu_meta.stamp <= tick /\ gpu_meta.stamp \in Int 
    BY <1>2, RoundsArith DEF DInv, IInv, WithinTick, TypeOK
  <2>2. \A d \in Slots : d < gpu_meta.n_devices => gpu_device[d] >= gpu_meta.stamp
    BY DEF DInv, IInv, DataBeforeMeta
  <2>3. \A k \in due'.keys : gpu_per_pid_per_device[k] >= gpu_meta.stamp
    BY <1>2, <1>5, <2>1, RoundsArith DEF DInv, IInv, DataBeforeMeta, TypeOK
  <2>4. \A p \in due'.pids : gpu_per_pid[p].stamp >= gpu_meta.stamp
    BY <1>2, <1>5, <2>1, RoundsArith DEF DInv, IInv, DataBeforeMeta, TypeOK, PidsOf
  <2> QED
    BY <1>2, <1>4, <1>5, <2>1, <2>2, <2>3, <2>4 DEF StillPromised
<1>9. StillCounted'
  BY <1>4 DEF StillCounted
<1>10. NothingOlderThanMeta' /\ DetailNotOlderThanSummary'
  BY <1>4 DEF NothingOlderThanMeta, DetailNotOlderThanSummary
<1> QED
  BY <1>1, <1>6, <1>7, <1>8, <1>9, <1>10 DEF DInv

(***************************************************************************)
(* A visited entry is printed as the map holds it, over what was printed   *)
(* of it before if the iterator starts over.                               *)
(***************************************************************************)
\* f holds v for x and is otherwise as before.
Printed(f, g, x, v) == /\ DOMAIN g = DOMAIN f \cup {x}
                       /\ g[x] = v
                       /\ \A y \in DOMAIN f \ {x} : g[y] = f[y]

LEMMA PutPrints == \A f, x, v : Printed(f, Put(f, x, v), x, v)
  BY DEF Put, Printed

LEMMA EntryKeeps == DInv /\ DumpEntry => DInv'
<1> SUFFICES ASSUME DInv, DumpEntry PROVE DInv'
  OBVIOUS
<1> PICK x \in DOMAIN Content(stage) :
      /\ shown' = [shown EXCEPT ![stage] = Put(@, x, Content(stage)[x])]
      /\ blamed' = IF stage = "per_pid" THEN blamed \cup {k \in lostKeys : k[1] = x} ELSE blamed
  BY DEF DumpEntry
<1>1. IInv'
  BY InvStep DEF DumpEntry, DInv
<1>2. /\ UNCHANGED <<tick, gpu_meta, gpu_device, gpu_per_pid_per_device, gpu_per_pid, lostKeys>>
      /\ UNCHANGED <<stage, moved, due>> /\ ahead' \subseteq ahead
      /\ TypeOK /\ DumpTypeOK
  BY DEF DumpEntry, DInv, IInv, vars, process, maps, history
<1>3. /\ DOMAIN shown' = {"meta", "device", "per_pid", "per_key"}
      /\ shown'.meta = shown.meta
      /\ stage # "device" => shown'.device = shown.device
      /\ stage # "per_pid" => shown'.per_pid = shown.per_pid
      /\ stage # "per_key" => shown'.per_key = shown.per_key
  BY <1>2, ContentOf DEF DumpTypeOK
<1>4. StillPromised'
  BY <1>2, <1>3 DEF DInv, StillPromised
<1>5. stage \in {"device", "per_pid", "per_key"}
  BY <1>2, ContentOf DEF DumpTypeOK
<1>6. CASE stage = "device"
  <2>1. x \in Slots /\ Printed(shown.device, shown'.device, x, gpu_device[x]) /\ blamed' = blamed
    BY <1>2, <1>6, ContentOf, PutPrints DEF DumpTypeOK
  <2>2. DOMAIN shown'.device = DOMAIN shown.device \cup {x}
    BY <2>1 DEF Printed
  <2>3. DumpTypeOK'
    BY <1>2, <1>3, <1>6, <2>1, <2>2 DEF DumpTypeOK
  <2>4. ShownTypes'
    BY <1>2, <1>3, <1>6, <2>1 DEF ShownTypes, Printed, DInv, TypeOK
  <2>5. InOrder' /\ StillCounted'
    BY <1>2, <1>3, <1>6, <2>1 DEF InOrder, StillCounted, DInv
  <2>6. NothingOlderThanMeta'
    BY <1>2, <1>3, <1>6, <2>1 DEF NothingOlderThanMeta, StillPromised, Printed, DInv
  <2>7. DetailNotOlderThanSummary'
    BY <1>3, <1>6, <2>1 DEF DetailNotOlderThanSummary, DInv
  <2> QED
    BY <1>1, <1>4, <2>3, <2>4, <2>5, <2>6, <2>7 DEF DInv
<1>7. CASE stage = "per_pid"
  <2>1. /\ x \in Pids /\ Printed(shown.per_pid, shown'.per_pid, x, gpu_per_pid[x])
        /\ gpu_per_pid[x] # NoRow
        /\ blamed' = blamed \cup {k \in lostKeys : k[1] = x}
    BY <1>2, <1>7, ContentOf, PutPrints DEF DumpTypeOK
  <2>2. DOMAIN shown'.per_pid = DOMAIN shown.per_pid \cup {x}
    BY <2>1 DEF Printed
  <2>3. DumpTypeOK'
    BY <1>2, <1>3, <1>7, <2>1, <2>2 DEF DumpTypeOK, TypeOK
  <2>4. ShownTypes'
    BY <1>2, <1>3, <1>7, <2>1 DEF ShownTypes, Printed, DInv, TypeOK
  <2>5. InOrder'
    BY <1>2, <1>3, <1>7, <2>2 DEF InOrder, DInv
  <2>6. StillCounted'
    <3> SUFFICES ASSUME NEW p \in DOMAIN shown'.per_pid
                 PROVE  /\ shown'.per_pid[p].stamp <= tick
                        /\ \A d \in shown'.per_pid[p].devs :
                             \/ <<p, d>> \in blamed'
                             \/ gpu_per_pid_per_device[<<p, d>>] = 0
                             \/ gpu_per_pid_per_device[<<p, d>>] >= shown'.per_pid[p].stamp
      BY <1>2 DEF StillCounted
    <3>1. CASE p = x
      <4>1. shown'.per_pid[p] = gpu_per_pid[x]
        BY <2>1, <3>1 DEF Printed
      <4>2. gpu_per_pid[x].stamp <= tick
        BY <2>1 DEF DInv, IInv, WithinTick
      <4>3. \A d \in gpu_per_pid[x].devs :
              <<x, d>> \in blamed' \/ gpu_per_pid_per_device[<<x, d>>] >= gpu_per_pid[x].stamp
        BY <2>1 DEF DInv, IInv, SummaryAfterDetail
      <4> QED
        BY <3>1, <4>1, <4>2, <4>3
    <3>2. CASE p # x
      <4>1. p \in DOMAIN shown.per_pid /\ shown'.per_pid[p] = shown.per_pid[p]
        BY <2>1, <3>2 DEF Printed
      <4> QED
        BY <2>1, <4>1 DEF DInv, StillCounted
    <3> QED
      BY <3>1, <3>2
  <2>7. NothingOlderThanMeta'
    BY <1>2, <1>3, <1>7, <2>1 DEF NothingOlderThanMeta, StillPromised, Printed, DInv
  <2>8. DetailNotOlderThanSummary'
    BY <1>2, <1>3, <1>7, <2>5 DEF DetailNotOlderThanSummary, InOrder
  <2> QED
    BY <1>1, <1>4, <2>3, <2>4, <2>5, <2>6, <2>7, <2>8 DEF DInv
<1>8. CASE stage = "per_key"
  <2>1. /\ x \in Keys /\ gpu_per_pid_per_device[x] > 0
        /\ Printed(shown.per_key, shown'.per_key, x, gpu_per_pid_per_device[x])
        /\ blamed' = blamed
    BY <1>2, <1>8, ContentOf, PutPrints DEF DumpTypeOK
  <2>2. DOMAIN shown'.per_key = DOMAIN shown.per_key \cup {x}
    BY <2>1 DEF Printed
  <2>3. DumpTypeOK'
    BY <1>2, <1>3, <1>8, <2>1, <2>2 DEF DumpTypeOK
  <2>4. ShownTypes'
    BY <1>2, <1>3, <1>8, <2>1 DEF ShownTypes, Printed, DInv, TypeOK
  <2>5. InOrder' /\ StillCounted'
    BY <1>2, <1>3, <1>8, <2>1, <2>2 DEF InOrder, StillCounted, DInv
  <2>6. NothingOlderThanMeta'
    <3>1. gpu_per_pid_per_device[x] # 0
      BY <2>1
    <3> QED
      BY <1>2, <1>3, <1>8, <2>1, <3>1 DEF NothingOlderThanMeta, StillPromised, Printed, DInv
  <2>7. DetailNotOlderThanSummary'
    <3> SUFFICES ASSUME NEW p \in DOMAIN shown.per_pid, NEW d \in shown.per_pid[p].devs,
                        <<p, d>> \in DOMAIN shown'.per_key \ blamed
                 PROVE  shown'.per_key[<<p, d>>] >= shown.per_pid[p].stamp
      BY <1>3, <1>8, <2>1 DEF DetailNotOlderThanSummary
    <3>1. CASE <<p, d>> = x
      <4>1. shown'.per_key[<<p, d>>] = gpu_per_pid_per_device[<<p, d>>]
        BY <2>1, <3>1 DEF Printed
      <4>2. gpu_per_pid_per_device[<<p, d>>] # 0
        BY <2>1, <3>1
      <4> QED
        BY <4>1, <4>2 DEF DInv, StillCounted
    <3>2. CASE <<p, d>> # x
      <4>1. /\ <<p, d>> \in DOMAIN shown.per_key
            /\ shown'.per_key[<<p, d>>] = shown.per_key[<<p, d>>]
        BY <2>1, <3>2 DEF Printed
      <4> QED
        BY <4>1 DEF DInv, DetailNotOlderThanSummary
    <3> QED
      BY <3>1, <3>2
  <2> QED
    BY <1>1, <1>4, <2>3, <2>4, <2>5, <2>6, <2>7 DEF DInv
<1> QED
  BY <1>5, <1>6, <1>7, <1>8

(***************************************************************************)
(* The end of a map, whatever the iterator missed of it.                   *)
(***************************************************************************)
LEMMA NextMapKeeps == DInv /\ DumpNextMap => DInv'
<1> SUFFICES ASSUME DInv, DumpNextMap PROVE DInv'
  OBVIOUS
<1> USE DEF DumpNextMap
<1>1. IInv'
  BY InvStep DEF DInv
<1>2. /\ UNCHANGED <<tick, gpu_meta, gpu_device, gpu_per_pid_per_device, gpu_per_pid, lostKeys>>
      /\ UNCHANGED <<shown, due, blamed>>
      /\ DumpTypeOK
  BY DEF DInv, vars, process, maps, history
<1>3. /\ stage = "device" => stage' = "per_pid"
      /\ stage = "per_pid" => stage' = "per_key"
      /\ stage = "per_key" => stage' = "done"
      /\ ahead' = DOMAIN Content(NextStage[stage]) /\ moved' = FALSE
  BY <1>2 DEF Open, NextStage
<1>4. DumpTypeOK'
  <2>1. CASE stage = "device"
    BY <1>2, <1>3, <2>1 DEF DumpTypeOK, NextStage, Content
  <2>2. CASE stage = "per_pid"
    BY <1>2, <1>3, <2>2 DEF DumpTypeOK, NextStage, Content
  <2>3. CASE stage = "per_key"
    BY <1>2, <1>3, <2>3 DEF DumpTypeOK, NextStage, Content, Nothing
  <2> QED
    BY <2>1, <2>2, <2>3
<1>5. ShownTypes' /\ InOrder' /\ StillPromised' /\ StillCounted'
  BY <1>2, <1>3 DEF DInv, ShownTypes, InOrder, StillPromised, StillCounted
<1>6. NothingOlderThanMeta' /\ DetailNotOlderThanSummary'
  BY <1>2 DEF DInv, NothingOlderThanMeta, DetailNotOlderThanSummary
<1> QED
  BY <1>1, <1>4, <1>5, <1>6 DEF DInv

LEMMA AbortKeeps == DInv /\ DumpAborts => DInv'
<1> SUFFICES ASSUME DInv, DumpAborts PROVE DInv'
  OBVIOUS
<1> USE DEF DumpAborts
<1>1. IInv'
  BY InvStep DEF DInv
<1>2. /\ UNCHANGED <<tick, gpu_meta, gpu_device, gpu_per_pid_per_device, gpu_per_pid, lostKeys>>
      /\ UNCHANGED <<shown, due, blamed>>
      /\ stage' = "done" /\ ahead' = {} /\ moved' = FALSE
  BY DEF vars, process, maps, history
<1>3. DumpTypeOK' /\ ShownTypes' /\ InOrder' /\ StillPromised' /\ StillCounted'
  BY <1>2 DEF DInv, DumpTypeOK, ShownTypes, InOrder, StillPromised, StillCounted
<1>4. NothingOlderThanMeta' /\ DetailNotOlderThanSummary'
  BY <1>2 DEF DInv, NothingOlderThanMeta, DetailNotOlderThanSummary
<1> QED
  BY <1>1, <1>3, <1>4 DEF DInv

-----------------------------------------------------------------------------

LEMMA DumpInvStep == DInv /\ [BridgeStep \/ DumpStep]_dvars => DInv'
<1> SUFFICES ASSUME DInv, [BridgeStep \/ DumpStep]_dvars PROVE DInv'
  OBVIOUS
<1>1. CASE BridgeStep
  BY <1>1, BridgeKeeps DEF BridgeStep, Next
<1>2. CASE DumpStep
  BY <1>2, MetaKeeps, EntryKeeps, NextMapKeeps, AbortKeeps DEF DumpStep
<1>3. CASE UNCHANGED dvars
  <2>1. UNCHANGED vars /\ UNCHANGED <<stage, ahead, moved, shown, due, blamed>>
    BY <1>3 DEF dvars, dump
  <2>2. IInv'
    BY <2>1, InvStep DEF DInv
  <2> QED
    BY <2>1, <2>2 DEF DInv, DumpTypeOK, ShownTypes, InOrder, StillPromised, StillCounted,
                      NothingOlderThanMeta, DetailNotOlderThanSummary, vars, process, maps, history
<1> QED
  BY <1>1, <1>2, <1>3

LEMMA DumpInvariance == DumpSpec => []DInv
  BY DumpInvInit, DumpInvStep, PTL DEF DumpSpec

(***************************************************************************)
(* A reader is never more than a reader: with one around, the bridge takes *)
(* the steps it takes alone (dump.go:31-108 only looks entries up).        *)
(***************************************************************************)
THEOREM ReadersDoNotInterfere == DumpSpec => Spec
<1>1. DumpInit => Init
  BY DEF DumpInit
<1>2. [BridgeStep \/ DumpStep]_dvars => [Next]_vars
  BY DEF BridgeStep, DumpStep, DumpMeta, DumpEntry, DumpNextMap, DumpAborts, dvars, Next
<1> QED
  BY <1>1, <1>2, PTL DEF DumpSpec, Spec

(***************************************************************************)
(* The reader and its history stay in their types, and the iterator only   *)
(* holds entries of the map it reads (dump.go:31-108).                     *)
(***************************************************************************)
THEOREM DumpTypeCorrect == DumpSpec => []DumpTypeOK
<1>1. DInv => DumpTypeOK
  BY DEF DInv
<1> QED
  BY <1>1, DumpInvariance, PTL

(***************************************************************************)
(* The gpu_meta line is read first, so nothing printed of its round is     *)
(* older than it, however many rounds the bridge writes meanwhile          *)
(* (dump.go:18-29, poller.go:278).                                         *)
(***************************************************************************)
THEOREM DumpIsNotOlder == DumpSpec => []NothingOlderThanMeta
<1>1. DInv => NothingOlderThanMeta
  BY DEF DInv
<1> QED
  BY <1>1, DumpInvariance, PTL

(***************************************************************************)
(* The summaries are read before the details and written after them, so no *)
(* printed detail is older than a printed summary that counts it           *)
(* (dump.go:18-29, the second and third loop of tick).                     *)
(***************************************************************************)
THEOREM DumpOrderSuitsWriter == DumpSpec => []DetailNotOlderThanSummary
<1>1. DInv => DetailNotOlderThanSummary
  BY DEF DInv
<1> QED
  BY <1>1, DumpInvariance, PTL
=============================================================================
