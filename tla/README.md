# A TLA+ model of gpu-ebpf-bridge

The bridge polls GPU telemetry from NVML and writes it into four BPF maps pinned
under `/sys/fs/bpf`, from which eBPF programs and `--dump` read it without any
lock. What is hard about it is not arithmetic but order: what a reader may find
in the maps between two writes, after a kill, after a restart, when a map is
full or a write fails; what two watermarks kept by two packages make of a
driver that goes on sampling; what processes that share a pin directory do to
one another; which clock a reader may trust. This directory models that, checks
it with TLC, and proves its safety properties with TLAPS.

Paths below are relative to the repository.

## 1. Inventory

| part | source | state | operations | interacts with |
|---|---|---|---|---|
| poll loop | `internal/poller/poller.go` `Run`, `tick` | place in the loop, ticker, `lastSeenPerDevice`, the round's locals | Init/Close of the source, immediate first round, `select` of `ctx.Done` and the ticker, one round: devices, samples, three write loops, `gpu_meta` | calls the source and `maps.Bridge`; cancelled by signals |
| sample folding | `poller.go:130-276` | `perDev`, `agg` | per (pid, device) peaks, grouping by pid, uint8 conversions | fed by the source, feeds the maps |
| pinned maps | `internal/maps/maps.go`, `bpf/gpu_types.bpf.c`, `include/gpu_types.h` | two arrays, two LRU hashes, four bpffs entries | `Open`, `Close`, `Unpin`, four `Update*`; two `Delete*` nobody calls | written by the bridge, read by anyone; survive the process |
| NVML backend | `internal/nvml/real.go` | handles, `lastSeenTs`, `initialized`, `closed` | `Init`, `Devices`, `ProcessSamples`, `Close` | driver: a sampling buffer, a reference count |
| mock backend | `internal/nvml/mock.go` | `devs`, start time | the same four; silent while the watermark is ahead of its clock | wall clock, the poller's watermark |
| freshness clock | `poller.go:83-104, 278-293`, `gpu_types.h:40-51` | the ticker and its one-slot channel, `last_update_ns` | stamping, ticking, the consumer's comparison | wall clock, monotonic clock |
| bridge process | `cmd/gpu-ebpf-bridge/main.go` `run`, `chooseSource` | mode, source, file descriptors | choose source, open, run, close, unpin | bpffs, signals, other bridges |
| dump and consumers | `cmd/gpu-ebpf-bridge/dump.go`, README.md §consumers | position in the maps | read `gpu_meta`, then the others | races with the poll loop |
| flags, logger, build tags, generated bindings, `vmlinux.h`, workload examples | `main.go:26-86`, `real.go`, `real_stub.go`, `gputypes_*`, `examples/` | none of interest | | |

Hard behaviours, each listed with its line in `PROJECT.json` under `hazards`:
the order of the writes of a round under kills, failures and evictions; readers
interleaved with writers; rows that nobody deletes; the two watermarks; the
double initialisation of NVML; interrupted `Open` and `Unpin`; two bridges on one
directory; shutdown under a busy ticker; rounds longer than the interval; a wall
clock that is set; limits (16 devices, full LRU hashes, `uint8`).

What makes each part correct: of the poll loop, that the signal covers data that
is there (`DataBeforeMeta`, `ImplementsPublication`) and that rounds go on
(`RoundsAreAdvertised`, `Shutdown`); of the folding, that a row is the peak or the
sum of what was sampled, in any order; of the backend, that no sample is returned
twice and none skipped but those its caller gave up; of the process, that what it writes is what readers find; of a
dump, that the order of its reads makes up for the writes in between; of the
clock, that a live bridge is advertised in time.

## 2. Modules

| module | models | state ↔ code |
|---|---|---|
| `Publication` | the promise to readers: items with stamps, a signal that covers items, losses | abstract |
| `Poller` | `Run`, `tick`, the `Update*` methods, kills and restarts | `pc` is the place in `Run`/`tick`; `devsLeft`, `keysLeft`, `pidsLeft` what each loop has still to write; `gpu_*` the maps, each value represented by the number of the round that wrote it |
| `Dump` | `runDump` reading while `Poller` writes; extends `Poller` | `stage` is the map being read, `ahead` the entries its iterator cannot miss any more, `moved` whether it may be set back, `shown` what was printed |
| `SampleFold` | the three loops of `tick` as functions on data | `perDev`, `agg` as in the code; `detail`, `summary` the values handed to the maps |
| `NvmlReal` | `Real.ProcessSamples` called round after round, with the driver and both watermarks | `lastSeenTs`, `lastSeenPerDevice`, `memByPidDev`, `out` as in the code; `dev` the device of the loop |
| `Lifecycle` | `main.run` of several processes, `Real.Init`/`Close`, `Open`/`Close`/`Unpin`, pins, consumers | `proc[p].pc` is the place in `run`; `loads` NVML's count; `pinned` the bpffs directory; `policy` how operators start bridges |
| `Freshness` | `Run`'s ticker, the stamp of `gpu_meta`, the clock gate of `Mock.ProcessSamples`, the consumer's comparison | `due`, `ready` are the ticker and its channel; `lead` is the watermark minus the wall clock; `age` the age of `gpu_meta` |
| `PollerProofs`, `PollerRefinement`, `PublicationProofs`, `DumpProofs`, `SampleFoldProofs`, `NvmlRealProofs`, `LifecycleProofs`, `FreshnessProofs` | the proofs | |
| `MC*` | instances for TLC | |

Each map write of the poll loop is one step, since a reader may look between
any two; what the loop does between two writes touches only locals and is part
of the next step. `tick` is cut where it calls out: `ReadDevices` (a failure ends
the round), `WriteDevice` (once per device, in order, a refused index is only
logged), `ReadSamples` (any set of pairs; an error leaves the round to go on
without samples), `WriteKey` and `WritePid` (once per key of a Go map, in any
order, each may fail and is then only logged), `WriteMeta`. `GroupByPid` is the
end of the second loop. The first return of `tick` creates the ticker
(`poller.go:89`).

`Poller` and `SampleFold` are two views of the same loops: `Poller` says when a
row is written and by which round, `SampleFold` what is in it. `NvmlReal` opens
the step that `Poller` calls `ReadSamples`, `Lifecycle` what `Poller` calls
`SourceInit`, `Crash` and `Restart`, `Freshness` what it calls `TickerFires` and
how long its steps may take.

`Freshness` keeps no clock: every instant the code remembers is kept as its
distance from the present, exact up to a horizon beyond all that it is compared
with, so that time never ends and the state space is finite. The wall clock is
the monotonic one plus an offset, and setting it changes the offset. In this
module updates of `gpu_meta` succeed (`Poller` has the failures) and the source is
the mock.

A query of `NvmlReal` succeeds, fails softly or fails for good, whatever samples are
pending: `real.go:14-21` has NOT_FOUND for a process that exits mid-query. A soft
failure gives no sample but leaves the memory rows, which carry the time of the call.

The iterator of `Dump` visits every entry that stays where it was when the map was
opened. A kernel update of an LRU row inserts it anew at the head of its bucket, so an
entry that was rewritten, like one that was evicted or inserted, is visited or missed,
and if the iterator stood on it, entries it had visited come up again. The bridge may
be killed and started again on its pins during a dump; a default restart, which unpins
the maps and creates others, is left out: the dump opens each map when it gets to it
(`dump.go:31-94`) and may then read old maps and new ones.

Definitions marked *variant* in the modules are plausible mistakes (a loop that
is not waited for, the other watermark, a map read too early). No specification uses
them: each property is re-checked with the variant in place of the definition
that follows it, and must then fail. `PROJECT.json` pairs them.

## 3. Runs

| run | shows | bounds |
|---|---|---|
| `poller_rounds` | the inductive invariant `IInv`, the refinement of `Publication`, `Shutdown` and `RoundsAreAdvertised` under fairness | 1 process, 2 devices, 1 slot, hashes of 1 row, updates of rows fail, 2 rounds |
| `poller_indices` | violation: indices below `n_devices` without an entry | 2 devices, 1 slot |
| `poller_stale` | violation: a stale row passes the documented freshness check | 1 process, 1 device, no failures |
| `dump_reader` | the three orders among the maps (`DataBeforeMeta`, `SummaryAfterDetail`, `DeviceBeforeDetail`), and what a dump, or a consumer, may conclude from the order of its reads, whatever its iterators miss | 2 processes, 1 device, hashes of 1 row, `gpu_meta` may fail, 2 rounds |
| `sample_fold` | peaks, sums, counts and marks for every sequence of samples and every map order | 3 pids (0 among them), 2 devices, 3 samples |
| `nvml_calls` | no sample repeated, none skipped by the backend but those the poller's watermark has passed, memory counted once, whatever queries fail | 1 process, 2 devices, clock up to 3, soft and hard errors, `K = 1` (the theorems of section 4 are for any `K`) |
| `nvml_units` | violation: with `K = 1000` samples are lost | 1 device, no errors |
| `lifecycle` | pins, consumers and NVML through one bridge after another with any flags, or two at once that keep their pins; a signal ends a bridge | 2 processes |
| `lifecycle_balance` | violation: NVML's count is not zero at exit | 1 process |
| `lifecycle_second` | violation: a bridge that exits takes the pins of a running one | 2 processes, default flags |
| `freshness` | rounds are advertised in time, missed ticks make no burst, the mock is silent for a bounded time | interval 2, rounds up to 3, the clock set back by up to 3 between two samples |
| `freshness_gate` | violation: a live bridge is judged dead by the documented comparison | a wall clock ahead by 40, subtraction modulo 256 |

Why the bounds are enough. Two rounds are a round that is advertised and one
that overwrites it; once the round number is at `MaxTick` the model goes on
repeating that number, so the behaviours stay infinite. In `poller_rounds` a
hash of one row and two devices make each row evict the other, and one slot for
two devices has an index refused; in `dump_reader` two processes do. The three
orders, the refinement and every other invariant of a passing run are proved, so
the runs need not be large: they show that the formulas hold before they are
proved, and that the variants break them. Two devices are what it takes
for the minimum watermark to differ from a device's own. In `lifecycle` the
operators' policy is chosen at the start: one process at a time gives every state
that the four pins can be left in by kills, two give the races of `Open`. In
`freshness` a round may be shorter than, equal to or longer than the interval, so
that ticks are taken late and dropped; the clock may be set any number of times,
forward and back. The number of devices is a constant: a backend enumerates its
handles once, in `Init`, and a restart that finds another number is outside the
model.

`MaxBack` bounds how far the clock is set back between two rounds that sample, not
how often it is set: once samples are taken the count begins anew.

### Fairness

`Poller`'s `FairSpec` has weak fairness of the loop's steps (the goroutine is
scheduled; calls to NVML and the kernel return), weak fairness of the ticker,
and strong fairness of `SelectDone`: Go picks among the ready arms of a `select`
at random, so an arm that is ready again and again is taken. In
`Lifecycle` each process takes its next step at last. No fairness is asked of
signals, kills or consumers. `Dump` and `NvmlReal` state safety only, and
`Freshness` needs no fairness: its bounds are invariants. What it asks of the scheduler
is in the guards of `TimePasses`, that a loop which could take a tick does so at
once, and that a round takes at most `MaxRound`.

## 4. Proofs

`PollerProofs` proves, for every value of the constants that satisfies
`PollerAssumption` (positive numbers of devices, slots, rows and rounds; any set
of processes):

- `TypeCorrect`: `Spec => []TypeOK`
- `Invariance`: `Spec => []IInv`
- `MetaIsLast`: `Spec => []DataBeforeMeta`
- `SummaryIsAfterDetail`: `Spec => []SummaryAfterDetail`
- `DeviceIsBeforeDetail`: `Spec => []DeviceBeforeDetail`

None of the three safety invariants is inductive: a state may satisfy
`DataBeforeMeta` with `pc = "writePid"` and nothing written, and the next
`WriteMeta` then breaks it. `IInv` adds what the loop knows of its own progress:
`WithinTick` (no stamp is ahead of the round) and `LoopProgress` (entries left
behind by a loop carry the round's number, or are known to be lost). `InvInit`
and `InvStep` prove it inductive, action by action; `KeyUpdate`, `PidUpdate` and
`EvictionsAreRows` say what an LRU update does to the rows, and `MapsAlone`
disposes of the steps that leave the maps alone.

`DumpProofs` proves, under the same assumption, for any number of the bridge's
rounds between two reads:

- `ReadersDoNotInterfere`: `DumpSpec => Spec`
- `DumpTypeCorrect`: `DumpSpec => []DumpTypeOK`
- `DumpIsNotOlder`: `DumpSpec => []NothingOlderThanMeta`
- `DumpOrderSuitsWriter`: `DumpSpec => []DetailNotOlderThanSummary`

What a dump printed is fixed, and the maps go on changing, so the invariant `DInv`
must say what the present maps still owe to what was printed. `StillPromised`: what
the `gpu_meta` line covered has been replaced by something newer, was lost, or is
still there. `StillCounted`: the details that a printed summary counts are as recent,
or gone. `InOrder` fixes the reader's place. `IInv` is a conjunct, since what a line
promises when it is read is `DataBeforeMeta`. Nothing of this depends on which entries
the iterators visit. That a dump is complete is not claimed (section 5).
`BridgeMoves` says in one formula, `MapsMove`, what a step of the bridge can do to
a row a reader has seen, and `BridgeKeeps` draws from it that `DInv` is kept.

`SampleFoldProofs` proves, for every set of processes, devices, values and time
stamps, and any number of samples:

- `TypeCorrect`: `Spec => []TypeOK`
- `DetailHoldsPeaks`: `Spec => []DetailIsPeak`
- `DetailsAreTheSampled`: `Spec => []DetailOfEachSampled`
- `SummariesAddUp`: `Spec => []SummaryOfDetail`, if devices are numbered below the
  mark `0xFF`, which makes the `uint8` conversions exact (`GPU_MAX_DEVICES` is 16,
  `gpu_types.h:38`)

The first invariant is `FoldInv`: the aggregate of a key holds the peaks of the
samples folded so far, and the keys are those sampled. `FoldStep` is the fold of one
sample, `HigherIsPeak` its arithmetic. For the summaries `SumInv` adds that the
builder of a pid holds what its rows written so far amount to (`Groups`). The memory
is a sum over a set, which the community modules define as a fold that takes the
elements in an order of its own choosing. The proof needs that this function exists
and that one more row adds that row's memory, whichever is taken first (`MemOfOneMore`).
Induction over finite sets would give both, and is out of reach; `SmallestSet` stands
in for it, a least counterexample under strict inclusion, by the well-foundedness
theorem of the library. `SumExists`, `SumSplits` and `SumAgrees` are arguments of
that form.

`NvmlRealProofs` proves, for any number of devices and processes, any ratio `K` of the
two time units, and soft and hard errors:

- `TypeCorrect`: `Spec => []TypeOK`
- `SamplesComeOnce`: `Spec => []NothingRepeated`
- `BackendSkipsNothing`: `Spec => []OnlyForgottenIsSkipped`
- `MemoryCountedOnce`: `Spec => []MemoryOnce`

`RInv` has two: what a device returned is behind the backend's own watermark
(`DeliveredIsSeen`), and the memory read in this call is in `memByPidDev` or, for each
device left behind whose query did not fail for good, in exactly one row
(`MemoryProgress`). `SInv` has the samples that are skipped: it carries
`OnlyForgottenIsSkipped` through the call, from device to device (`Forgotten`), which
needs that the poller's watermarks are still those of the call's argument (`Asked`) and
that no sample and no stamp is ahead of the clock (`InThePast`). `NothingTakenBack` is
the step that ends a call: the least of the poller's watermarks never falls, though a
device that had none enters the minimum, since its stamp is that of the last call.
That no sample is skipped at all is false of the code, as `nvml_units` shows, and not
only for its units (section 5).

`PollerRefinement` proves `PromiseKept`: `Spec => ImplementsPublication`, that is,
`Poller` implements `Publication` under the mapping of `Poller`'s `Promise`
instance. The argument is `IInv` again: a write of a row is a `Rewrite` of its item,
with the evicted rows gone; a failed one is a `Miss`; `UpdateMeta` is an
`Advertise`, whose guard is what `LoopProgress` says at `writeMeta`; every other
step, kills and restarts included, stutters. `PublicationProofs` proves
`SignalIsTrustworthy`: `Spec => []CoveredIsFresh` of the abstract protocol, what a
consumer relies on. The two together say it of the poll loop.

`LifecycleProofs` proves, for every finite set of processes and every set of
policies that is `Careful` (bridges that live together keep their pins, the
condition that `lifecycle_second` shows to be necessary):

- `TypeCorrect`: `Spec => []TypeOK`
- `RunningBridgeOwnsPins`: `Spec => []RunningOwnsPins`
- `ConsumersKeepReading`: `Spec => []ConsumersSurvive`
- `CleanExitUnpins`: `Spec => []CleanExitLeavesNoPin`
- `SourceIsLoaded`: `Spec => []SourceLoadedWhenUsed`

from `SafeInv`: besides types it says who may live together (`Company`), what
NVML's count is at each place of `run` (`Loaded`), that the maps opened so far are
the pinned ones (`Owns`), that the entries removed so far are gone (`Removed`) and
that a consumer's maps stay pinned until an entry is removed (`Attached`).
`FreshMap` counts the maps to show that a new one finds a free name; `GoesStep`
disposes of every step that changes one process only; `PinMap` and `UnpinMap` are
the two that change what others see.

`FreshnessProofs` proves, for every interval, bound on rounds, and settings of the
clock:

- `TypeCorrect`: `Spec => []TypeOK`
- `RoundsInTime`: `Spec => []AdvertisedInTime`
- `MockSpeaksAgain`: `Spec => []SilenceIsBounded`
- `RoundsAreSpaced`: `Spec => NoBurst`

from `FInv`, which keeps at each place of the loop what is left of each bound: a
bridge that waits has `age + due <= Interval`, one at work `age <= Interval +
spent`; the watermark's lead and the silence add up to no more than the clock was
set back; a tick in the channel is later than the round before the last.

The strengthened invariants `DInv`, `RInv`, `SInv`, `SafeInv` and `FInv` were checked
with TLC on the instances of `dump_reader`, `nvml_calls`, `lifecycle` and `freshness`
before they were proved.

Every invariant and safety action property of a passing run is thus a theorem.
Model-checked only are the properties under fairness (`Shutdown`, `RoundsAreAdvertised`,
`SignalEnds`): liveness is out of the prover's reach, as is
ENABLED. No module declares a RECURSIVE operator.

## 5. Where the code and its documents disagree

1. `n_devices` may exceed the slots of `gpu_device` (`poller_indices`).
2. `gpu_meta` says nothing of a row's age: rows are never deleted (`poller_stale`).
3. The poller's nanoseconds are compared with NVML's microseconds, and samples
   are lost (`nvml_units`).
4. NVML is initialised twice and shut down at most once (`lifecycle_balance`).
5. A bridge that exits removes the pins of another one that runs; README.md:553
   announces a check that refuses a second bridge, and README.md:241 says that pins
   exist as long as the bridge is running (`lifecycle_second`).
6. `last_update_ns` is wall-clock time, documented as CLOCK_MONOTONIC, and the
   documented comparison judges every live bridge dead (`freshness_gate`).

Read, not shown by a run:

- `real.go:20-21` says that other errors are returned to the poller, while `Devices`
  and `ProcessSamples` drop them.
- A failed query may lose the samples pending on its device, whatever the units. After
  a soft error the memory rows of that very device advance the poller's watermark to
  the time of the call, past what is pending. After a hard error on a device that has
  no watermark yet, the other devices advance the minimum, which ignores it
  (`minLastSeen`). The backend's own watermark stays behind such samples
  (`OnlyForgottenIsSkipped`); it is the poller's that passes them.
- A poll shorter than the driver's sampling period overwrites the last utilization of
  a process with 0.
- A dump next to a running bridge may miss a row without an error: one rewritten while
  its map is read moves to the head of its bucket, where an iterator already past it
  does not see it; and a default restart during the dump replaces the maps it has not
  opened yet by empty ones.

## 6. Not modelled, and why

- `Devices` of the real backend copies one value per field: no state. That a lost
  GPU yields an entry of zeros is listed under the hazards.
- The mock's sinusoidal values: `SampleFold` takes any.
- `DeletePerPid*` have no caller outside the tests.
- The logger, `--version`, `--pin-dir`, build tags: nothing a property is about.
- Byte layouts of the records are left to the compiler: the models keep of each
  record what the properties tell apart.
- Generated code, and `vmlinux.h` above all: 149140 of the 149526 lines of the C
  files are that one dump of kernel types, so no honest map of this repository
  covers a large share of its C lines.
- The workload examples keep a GPU busy; no part of the bridge calls them.
- `Unpin` racing a consumer's `Open` is one step per name.
- A failure of `UpdateMeta` and the passing of time in one model: `Poller` has the
  one, `Freshness` the other. While `gpu_meta` cannot be written no bound on its age
  holds, by design (`poller.go:286-289`).

## 7. Plan

Done, in this order: `Publication` and `Poller`, their proofs; `Dump`;
`SampleFold` and its proofs; `NvmlReal`; `Lifecycle`; `Freshness` and its proofs;
the refinement of `Publication`; the proofs of `Lifecycle`, of `Dump` and of
`NvmlReal`; the summaries of `SampleFold`.

Left: `Lifecycle` composed with the rounds of `Poller`, for two writers of the same
maps: what a reader may conclude while two bridges that keep their pins write one
round each.
