------------------------------- MODULE Poller -------------------------------
(***************************************************************************)
(* The poll loop of src/internal/poller/poller.go (Run and tick) and the   *)
(* four pinned maps it writes through src/internal/maps/maps.go.           *)
(*                                                                         *)
(* Every map write is a step of its own, so that readers see each          *)
(* intermediate state.  A value is represented by the round (tick) that    *)
(* produced it; the metrics themselves are left to SampleFold.  The        *)
(* process may be killed between any two steps and started again on the    *)
(* maps it left pinned.                                                    *)
(***************************************************************************)
EXTENDS Integers, FiniteSets

CONSTANTS Pids,           \* processes that may use a GPU
          NumDevices,     \* devices the telemetry source reports
          MaxDevices,     \* slots of the gpu_device array (GPU_MAX_DEVICES)
          Cap,            \* rows at which an LRU hash evicts (max_entries)
          Fallible,       \* maps whose update may fail, the device array's slots apart
          MaxTick         \* bound: rounds are numbered up to MaxTick, then repeat it

ASSUME PollerAssumption == /\ NumDevices \in Nat \ {0}
                           /\ MaxDevices \in Nat \ {0}
                           /\ Cap \in Nat \ {0}
                           /\ Fallible \subseteq {"meta", "detail", "summary"}
                           /\ MaxTick \in Nat \ {0}

VARIABLES
    \* the process
    pc,         \* where Run or tick stands
    ctxDone,    \* the context was cancelled by SIGINT or SIGTERM
    ticker,     \* the ticker's one-slot channel: "none", "armed" or "ready"
    tick,       \* number of the current round
    perDev,     \* keys of the perDev map: the (pid, device) pairs sampled
    devsLeft,   \* devices the first loop has still to write
    keysLeft,   \* (pid, device) pairs the second loop has still to write
    pidsLeft,   \* pids the third loop has still to write
    \* the pinned maps
    gpu_meta,               \* [stamp: round advertised, n_devices]
    gpu_device,             \* slot -> round
    gpu_per_pid_per_device, \* key -> round, 0 when there is no row
    gpu_per_pid,            \* pid -> [stamp: round, devs: devices summed up]
    \* history, for the properties only
    covered,    \* the perDev keys of the round gpu_meta advertises
    lostKeys,   \* keys whose last write failed or that were evicted since
    lostPids    \* pids whose last write failed or that were evicted since

process == <<pc, ctxDone, ticker, tick, perDev, devsLeft, keysLeft, pidsLeft>>
maps    == <<gpu_meta, gpu_device, gpu_per_pid_per_device, gpu_per_pid>>
history == <<covered, lostKeys, lostPids>>
vars    == <<process, maps, history>>

Devices == 0 .. NumDevices - 1
Slots   == 0 .. MaxDevices - 1
Keys    == Pids \X Devices
Rounds  == 0 .. MaxTick
NoRow   == [stamp |-> 0, devs |-> {}]

\* The values of the four maps: what the model keeps of each struct of gpu_types.h.
MetaEntry   == [stamp : Rounds, n_devices : {0, NumDevices}]
DeviceEntry == Rounds
DetailRow   == Rounds
SummaryRow  == [stamp : Rounds, devs : SUBSET Devices]

PidsOf(keys)     == {k[1] : k \in keys}
DevsOf(keys, p)  == {d \in Devices : <<p, d>> \in keys}

TypeOK ==
    /\ pc \in {"start", "devices", "writeDev", "writeKey", "writePid", "select", "stopped"}
    /\ ctxDone \in BOOLEAN
    /\ ticker \in {"none", "armed", "ready"}
    /\ tick \in Rounds
    /\ perDev \in SUBSET Keys
    /\ devsLeft \in SUBSET Devices
    /\ keysLeft \in SUBSET Keys
    /\ pidsLeft \in SUBSET Pids
    /\ gpu_meta \in MetaEntry
    /\ gpu_device \in [Slots -> DeviceEntry]
    /\ gpu_per_pid_per_device \in [Keys -> DetailRow]
    /\ gpu_per_pid \in [Pids -> SummaryRow]
    /\ covered \in SUBSET Keys
    /\ lostKeys \in SUBSET Keys
    /\ lostPids \in SUBSET Pids

Init ==
    /\ pc = "start"
    /\ ctxDone = FALSE
    /\ ticker = "none"
    /\ tick = 0
    /\ perDev = {} /\ devsLeft = {} /\ keysLeft = {} /\ pidsLeft = {}
    /\ gpu_meta = [stamp |-> 0, n_devices |-> 0]
    /\ gpu_device = [s \in Slots |-> 0]
    /\ gpu_per_pid_per_device = [k \in Keys |-> 0]
    /\ gpu_per_pid = [p \in Pids |-> NoRow]
    /\ covered = {} /\ lostKeys = {} /\ lostPids = {}

-----------------------------------------------------------------------------
(* The maps: one operator per Update method of maps.Bridge.                *)

\* Rows the kernel may evict to insert x in an LRU hash whose rows are present:
\* none while there is room or x is there already, else any nonempty set of
\* other rows (the kernel recycles in batches, approximately oldest first).
Evictions(present, x) ==
    IF x \in present \/ Cardinality(present) < Cap
      THEN {{}}
      ELSE SUBSET present \ {{}}

\* An array refuses an index beyond its slots and accepts any other.
UpdateDevice(d) ==
    gpu_device' = IF d \in Slots THEN [gpu_device EXCEPT ![d] = tick] ELSE gpu_device

UpdatePerPidPerDevice(key) ==
    \/ LET present == {k \in Keys : gpu_per_pid_per_device[k] > 0}
       IN  \E gone \in Evictions(present, key) :
             /\ gpu_per_pid_per_device' =
                  [k \in Keys |-> IF k = key THEN tick
                                  ELSE IF k \in gone THEN 0 ELSE gpu_per_pid_per_device[k]]
             /\ lostKeys' = (lostKeys \ {key}) \cup gone
    \/ /\ "detail" \in Fallible
       /\ lostKeys' = lostKeys \cup {key}
       /\ UNCHANGED gpu_per_pid_per_device

UpdatePerPid(pid, devs) ==
    \/ LET present == {p \in Pids : gpu_per_pid[p].stamp > 0}
       IN  \E gone \in Evictions(present, pid) :
             /\ gpu_per_pid' =
                  [p \in Pids |-> IF p = pid THEN [stamp |-> tick, devs |-> devs]
                                  ELSE IF p \in gone THEN NoRow ELSE gpu_per_pid[p]]
             /\ lostPids' = (lostPids \ {pid}) \cup gone
    \/ /\ "summary" \in Fallible
       /\ lostPids' = lostPids \cup {pid}
       /\ UNCHANGED gpu_per_pid

MetaOneMore == [stamp |-> tick, n_devices |-> NumDevices + 1]     \* variant
Meta        == [stamp |-> tick, n_devices |-> NumDevices]

\* variant: a round without samples is not advertised
UpdateMetaIfSampled ==
    IF perDev = {} THEN UNCHANGED <<gpu_meta, covered>> ELSE gpu_meta' = Meta /\ covered' = perDev

UpdateMeta ==
    \/ /\ gpu_meta' = Meta
       /\ covered' = perDev
    \/ "meta" \in Fallible /\ UNCHANGED <<gpu_meta, covered>>

-----------------------------------------------------------------------------
(* The steps of Run and tick.                                              *)

\* What ends each of the three loops.
NotWaiting       == TRUE                                          \* variant
DevicesDone      == devsLeft = {}
DetailsDone      == keysLeft = {}
SummariesDone    == pidsLeft = {}

\* What the select of Run finds ready.
DoneUnlessTicked == ctxDone /\ ticker # "ready"                   \* variant
DoneReady        == ctxDone
TickReady        == ticker = "ready"

\* tick returns to the loop of Run; the first return creates the ticker.
EnterSelect ==
    /\ pc' = "select"
    /\ ticker' = IF ticker = "none" THEN "armed" ELSE ticker

\* Run initialises its source, and gives up when that fails.
SourceInit ==
    /\ pc = "start"
    /\ pc' \in {"devices", "stopped"}
    /\ UNCHANGED <<ctxDone, ticker, tick, perDev, devsLeft, keysLeft, pidsLeft, maps, history>>

\* Source.Devices: its failure ends the round before anything is written.
ReadDevices ==
    /\ pc = "devices"
    /\ \/ /\ EnterSelect
          /\ UNCHANGED <<tick, devsLeft>>
       \/ /\ pc' = "writeDev"
          /\ tick' = IF tick < MaxTick THEN tick + 1 ELSE tick
          /\ devsLeft' = Devices
          /\ UNCHANGED ticker
    /\ UNCHANGED <<ctxDone, perDev, keysLeft, pidsLeft, maps, history>>

\* First loop, in index order; a refused index is only logged.
WriteDevice ==
    /\ pc = "writeDev"
    /\ \E d \in devsLeft :
         /\ \A e \in devsLeft : d <= e
         /\ UpdateDevice(d)
         /\ devsLeft' = devsLeft \ {d}
    /\ UNCHANGED <<pc, ctxDone, ticker, tick, perDev, keysLeft, pidsLeft,
                   gpu_meta, gpu_per_pid_per_device, gpu_per_pid, history>>

\* Source.ProcessSamples: any set of pairs, also when it reports an error.
ReadSamples ==
    /\ pc = "writeDev"
    /\ DevicesDone
    /\ pc' = "writeKey"
    /\ devsLeft' = {}
    /\ perDev' \in SUBSET Keys
    /\ keysLeft' = perDev'
    /\ pidsLeft' = {}
    /\ UNCHANGED <<ctxDone, ticker, tick, maps, history>>

\* Second loop, in the arbitrary order of a Go map.
WriteKey(key) ==
    /\ pc = "writeKey"
    /\ key \in keysLeft
    /\ UpdatePerPidPerDevice(key)
    /\ keysLeft' = keysLeft \ {key}
    /\ UNCHANGED <<pc, ctxDone, ticker, tick, perDev, devsLeft, pidsLeft,
                   gpu_meta, gpu_device, gpu_per_pid, covered, lostPids>>

GroupByPid ==
    /\ pc = "writeKey"
    /\ DetailsDone
    /\ pc' = "writePid"
    /\ keysLeft' = {}
    /\ pidsLeft' = PidsOf(perDev)
    /\ UNCHANGED <<ctxDone, ticker, tick, perDev, devsLeft, maps, history>>

\* Third loop, in the arbitrary order of a Go map.
WritePid(pid) ==
    /\ pc = "writePid"
    /\ pid \in pidsLeft
    /\ UpdatePerPid(pid, DevsOf(perDev, pid))
    /\ pidsLeft' = pidsLeft \ {pid}
    /\ UNCHANGED <<pc, ctxDone, ticker, tick, perDev, devsLeft, keysLeft,
                   gpu_meta, gpu_device, gpu_per_pid_per_device, covered, lostKeys>>

WriteMeta ==
    /\ pc = "writePid"
    /\ SummariesDone
    /\ UpdateMeta
    /\ EnterSelect
    /\ perDev' = {} /\ pidsLeft' = {}
    /\ UNCHANGED <<ctxDone, tick, devsLeft, keysLeft,
                   gpu_device, gpu_per_pid_per_device, gpu_per_pid, lostKeys, lostPids>>

\* The two arms of the select; Go chooses freely when both are ready.
SelectDone ==
    /\ pc = "select"
    /\ DoneReady
    /\ pc' = "stopped"
    /\ ticker' = "none"
    /\ UNCHANGED <<ctxDone, tick, perDev, devsLeft, keysLeft, pidsLeft, maps, history>>

SelectTick ==
    /\ pc = "select"
    /\ TickReady
    /\ pc' = "devices"
    /\ ticker' = "armed"
    /\ UNCHANGED <<ctxDone, tick, perDev, devsLeft, keysLeft, pidsLeft, maps, history>>

-----------------------------------------------------------------------------
(* The environment.                                                        *)

\* The interval elapses; a tick nobody took yet absorbs the next one.
TickerFires ==
    /\ ticker = "armed"
    /\ ticker' = "ready"
    /\ UNCHANGED <<pc, ctxDone, tick, perDev, devsLeft, keysLeft, pidsLeft, maps, history>>

Cancel ==
    /\ pc # "stopped"
    /\ ~ctxDone
    /\ ctxDone' = TRUE
    /\ UNCHANGED <<pc, ticker, tick, perDev, devsLeft, keysLeft, pidsLeft, maps, history>>

\* The process is killed: its local state is gone, the pinned maps stay.
Crash ==
    /\ pc # "stopped"
    /\ pc' = "stopped"
    /\ ticker' = "none"
    /\ perDev' = {} /\ devsLeft' = {} /\ keysLeft' = {} /\ pidsLeft' = {}
    /\ UNCHANGED <<ctxDone, tick, maps, history>>

\* A new process opens the maps that are pinned already (after a crash, or a
\* clean exit under --keep-pins).
Restart ==
    /\ pc = "stopped"
    /\ pc' = "start"
    /\ ctxDone' = FALSE
    /\ perDev' = {} /\ devsLeft' = {} /\ keysLeft' = {} /\ pidsLeft' = {}
    /\ UNCHANGED <<ticker, tick, maps, history>>

RunStep == \/ SourceInit \/ ReadDevices \/ WriteDevice \/ ReadSamples
           \/ \E key \in Keys : WriteKey(key)
           \/ GroupByPid
           \/ \E pid \in Pids : WritePid(pid)
           \/ WriteMeta \/ SelectDone \/ SelectTick

Next == RunStep \/ TickerFires \/ Cancel \/ Crash \/ Restart

\* The poller's thread runs when it can, the runtime fires the ticker, and a
\* select that finds the context done again and again takes that arm at last
\* (Go chooses among ready arms at random).
Fairness == /\ WF_vars(RunStep)
            /\ WF_vars(TickerFires)
            /\ SF_vars(SelectDone)

Spec == Init /\ [][Next]_vars

\* A bridge that nobody kills or signals, and whose source never fails.
SourceFails == (pc = "start" /\ pc' = "stopped") \/ (pc = "devices" /\ pc' = "select")
SteadySpec  == Init /\ [][(RunStep \/ TickerFires) /\ ~SourceFails]_vars

FairSpec == Spec /\ Fairness
-----------------------------------------------------------------------------
(* Safety.                                                                 *)

\* Whenever gpu_meta advertises a round, every device entry within the array,
\* every detailed row and every summary of that round is there: "gpu_meta last,
\* so consumers that gate enrichment on last_update_ns see the data first"
\* (poller.go:278).  It must hold in every state, the next rounds being written
\* and the process being killed included.
DataBeforeMeta ==
    /\ \A d \in Slots : d < gpu_meta.n_devices => gpu_device[d] >= gpu_meta.stamp
    /\ \A k \in covered :
         /\ k \in lostKeys \/ gpu_per_pid_per_device[k] >= gpu_meta.stamp
         /\ k[1] \in lostPids \/ gpu_per_pid[k[1]].stamp >= gpu_meta.stamp

\* A summary never runs ahead of what it sums up: the detailed rows it counts
\* are at least as recent (gpu_types.h:114, loops 2 and 3 of tick).
SummaryAfterDetail ==
    \A p \in Pids : \A d \in gpu_per_pid[p].devs :
        <<p, d>> \in lostKeys \/ gpu_per_pid_per_device[<<p, d>>] >= gpu_per_pid[p].stamp

\* The row of a process on a device never runs ahead of the device's own entry,
\* even across failed rounds and restarts: a consumer that joins the two never
\* pairs a new process row with an older device entry.
DeviceBeforeDetail ==
    \A k \in Keys : k[2] \in Slots => gpu_device[k[2]] >= gpu_per_pid_per_device[k]

\* gpu_types.h:55 says gpu_device is "Indexed by GPU device index
\* (0 .. n_devices-1)": every index gpu_meta advertises has an entry.
AdvertisedDevicesPresent ==
    \A d \in 0 .. gpu_meta.n_devices - 1 : d \in Slots /\ gpu_device[d] >= gpu_meta.stamp

\* README.md:91 has consumers check gpu_meta alone "to detect stale data", and its
\* example (README.md:375) then uses whatever row the process has: a row that is
\* present belongs to the advertised round or a later one.
FreshnessGateSuffices ==
    \A p \in Pids : gpu_per_pid[p] # NoRow => gpu_per_pid[p].stamp >= gpu_meta.stamp

\* What makes the three above inductive: no stamp is ahead of the round, and a
\* loop of the round has left behind it only entries of this round, or lost ones.
WithinTick ==
    /\ gpu_meta.stamp <= tick
    /\ \A d \in Slots : gpu_device[d] <= tick
    /\ \A k \in Keys : gpu_per_pid_per_device[k] <= tick
    /\ \A p \in Pids : gpu_per_pid[p].stamp <= tick

DevicesWritten(ds) == \A d \in ds : d \in Slots => gpu_device[d] = tick

LoopProgress ==
    /\ pc = "writeDev" => DevicesWritten(Devices \ devsLeft)
    /\ pc \in {"writeKey", "writePid"} =>
         /\ DevicesWritten(Devices)
         /\ \A k \in perDev \ keysLeft : k \in lostKeys \/ gpu_per_pid_per_device[k] = tick
    /\ pc = "writePid" =>
         /\ keysLeft = {}
         /\ \A p \in PidsOf(perDev) \ pidsLeft : p \in lostPids \/ gpu_per_pid[p].stamp = tick

\* The inductive invariant of the poll loop (poller.go:107-293): each part is
\* preserved by every step that starts in a state satisfying all of them.
IInv == /\ TypeOK /\ WithinTick /\ LoopProgress
        /\ DataBeforeMeta /\ SummaryAfterDetail /\ DeviceBeforeDetail

-----------------------------------------------------------------------------
(* What the maps promise to their readers.                                 *)

Items == ({"device"} \X Slots) \cup ({"key"} \X Keys) \cup ({"pid"} \X Pids)

Held(i) == IF i[1] = "device" THEN gpu_device[i[2]]
           ELSE IF i[1] = "key" THEN gpu_per_pid_per_device[i[2]]
           ELSE gpu_per_pid[i[2]].stamp

Announced == ({"device"} \X {d \in Slots : d < gpu_meta.n_devices})
             \cup ({"key"} \X covered) \cup ({"pid"} \X PidsOf(covered))

Lost == ({"key"} \X lostKeys) \cup ({"pid"} \X lostPids)

\* Each step of the poller changes the maps the way Publication allows, or not
\* at all: items only move forward unless they are evicted, and gpu_meta only
\* moves forward over items written before it.
Promise == INSTANCE Publication WITH
             MaxStamp <- MaxTick, data <- [i \in Items |-> Held(i)],
             signal <- gpu_meta.stamp, covered <- Announced, missed <- Lost

ImplementsPublication == Promise!Spec

-----------------------------------------------------------------------------
(* Liveness, under FairSpec.                                               *)

\* A cancelled poller stops, though its ticker never does: the loop is not
\* starved of its ctx.Done arm and no round goes on for ever (poller.go:92).
Shutdown == ctxDone ~> (pc = "stopped")

\* When no update of gpu_meta fails, each round that begins is advertised, unless the
\* process is killed first: consumers keep seeing gpu_meta move.
RoundsAreAdvertised ==
    \A t \in 1 .. MaxTick :
        (pc = "writeDev" /\ tick = t) ~> (gpu_meta.stamp >= t \/ pc = "stopped")
=============================================================================
