------------------------------ MODULE NvmlReal ------------------------------
(***************************************************************************)
(* Real.ProcessSamples (src/internal/nvml/real.go:215) called round after  *)
(* round by the poller, which remembers in lastSeenPerDevice how far each  *)
(* device got and asks for what came after (src/internal/poller/poller.go  *)
(* minLastSeen, advanceLastSeen).  Two watermarks bound each query: the    *)
(* poller's, and the backend's own lastSeenTs.                             *)
(*                                                                         *)
(* A sample is the process it is about and the driver's time stamp.  The   *)
(* driver counts time in units worth K of the bridge's nanoseconds; it     *)
(* keeps running between any two of its calls.                             *)
(***************************************************************************)
EXTENDS Integers, FiniteSets, FiniteSetsExt

CONSTANTS Pids,          \* processes using the devices
          NumDevices,    \* handles enumerated by Init
          K,             \* bridge time units per driver time unit
          Errors,        \* how GetProcessUtilization may fail: "soft", "hard" or both
          MaxTime        \* bound on the driver's clock

ASSUME NvmlRealAssumption == /\ NumDevices \in Nat \ {0}
                             /\ K \in Nat \ {0}
                             /\ Errors \subseteq {"soft", "hard"}
                             /\ MaxTime \in Nat

VARIABLES
    \* the driver
    now,                \* its clock
    produced,           \* device -> samples it ever produced, as <<pid, time stamp>>
    running,            \* device -> processes that hold memory on it
    \* the backend
    dev,                \* device the loop stands on, NumDevices outside a call
    memRead,            \* whether that device's running processes were read already
    tsNs,               \* time stamp given to every sample of the call
    lastSeenNs,         \* argument of the call
    memByPidDev,        \* (pid, device) pairs whose memory was not emitted yet
    out,                \* rows of the call: [pid, dev, ts, mem], ts = 0 for memory only
    lastSeenTs,         \* device -> latest driver time stamp returned
    \* the poller
    lastSeenPerDevice,  \* device -> latest TimestampNs it got, 0 when it got none
    \* history
    holders,            \* (pid, device) pairs read in this call
    failed,             \* devices whose query failed hard in this call
    delivered,          \* device -> samples returned so far
    repeated            \* whether a sample was returned twice

driver  == <<now, produced, running>>
call    == <<dev, memRead, tsNs, lastSeenNs, memByPidDev, out, holders, failed>>
vars    == <<driver, call, lastSeenTs, lastSeenPerDevice, delivered, repeated>>

Devices == 0 .. NumDevices - 1
Times   == 0 .. MaxTime + 1          \* the driver's clock starts at 1
InCall  == dev \in Devices

TypeOK ==
    /\ now \in Times
    /\ produced \in [Devices -> SUBSET (Pids \X Times)]
    /\ running \in [Devices -> SUBSET Pids]
    /\ dev \in 0 .. NumDevices
    /\ memRead \in BOOLEAN
    /\ tsNs \in {t * K : t \in Times} /\ lastSeenNs \in {t * K : t \in Times}
    /\ memByPidDev \subseteq Pids \X Devices
    /\ out \subseteq [pid : Pids, dev : Devices, ts : Times, mem : BOOLEAN]
    /\ lastSeenTs \in [Devices -> Times]
    /\ lastSeenPerDevice \in [Devices -> {t * K : t \in Times}]
    /\ holders \subseteq Pids \X Devices
    /\ failed \subseteq Devices
    /\ delivered \in [Devices -> SUBSET (Pids \X Times)]
    /\ repeated \in BOOLEAN

Init ==
    /\ now = 1
    /\ produced = [d \in Devices |-> {}]
    /\ running = [d \in Devices |-> {}]
    /\ dev = NumDevices /\ memRead = FALSE
    /\ tsNs = 0 /\ lastSeenNs = 0
    /\ memByPidDev = {} /\ out = {} /\ holders = {} /\ failed = {}
    /\ lastSeenTs = [d \in Devices |-> 0]
    /\ lastSeenPerDevice = [d \in Devices |-> 0]
    /\ delivered = [d \in Devices |-> {}]
    /\ repeated = FALSE

-----------------------------------------------------------------------------
(* The driver (external).                                                  *)

\* Time passes; devices may sample processes, which may come and go.
DriverSamples ==
    /\ now <= MaxTime
    /\ now' = now + 1
    /\ \E s \in [Devices -> SUBSET Pids] :
         produced' = [d \in Devices |-> produced[d] \cup (s[d] \X {now + 1})]
    /\ UNCHANGED <<running, call, lastSeenTs, lastSeenPerDevice, delivered, repeated>>

MemoryChanges ==
    /\ \E d \in Devices, ps \in SUBSET Pids :
         /\ ps # running[d]
         /\ running' = [running EXCEPT ![d] = ps]
    /\ UNCHANGED <<now, produced, call, lastSeenTs, lastSeenPerDevice, delivered, repeated>>

\* Samples newer than seen.  With none it answers NOT_FOUND, which here is no other
\* than success with no sample.
GetProcessUtilization(d, seen) == {s \in produced[d] : s[2] > seen}

-----------------------------------------------------------------------------
(* The poller's side.                                                      *)

Later(a, b) == IF b > a THEN b ELSE a

\* The least watermark of the devices that have one.
minLastSeen == LET known == {d \in Devices : lastSeenPerDevice[d] > 0}
               IN  IF known = {} THEN 0 ELSE Min({lastSeenPerDevice[d] : d \in known})

\* tick calls ProcessSamples.
Call ==
    /\ ~InCall
    /\ dev' = 0 /\ memRead' = FALSE
    /\ tsNs' = now * K
    /\ lastSeenNs' = minLastSeen
    /\ memByPidDev' = {} /\ out' = {} /\ holders' = {} /\ failed' = {}
    /\ UNCHANGED <<driver, lastSeenTs, lastSeenPerDevice, delivered, repeated>>

\* variant: one past the last sample
advancePast(rows) ==
    lastSeenPerDevice' = [d \in Devices |-> IF \E r \in rows : r.dev = d
                                              THEN Later(lastSeenPerDevice[d], tsNs + 1)
                                              ELSE lastSeenPerDevice[d]]

\* The call returns after its last device; tick advances the poller's watermarks
\* by every sample it got.
advanceLastSeen(rows) ==
    lastSeenPerDevice' = [d \in Devices |-> IF \E r \in rows : r.dev = d
                                              THEN Later(lastSeenPerDevice[d], tsNs)
                                              ELSE lastSeenPerDevice[d]]

NextDevice(rows) ==
    /\ dev' = dev + 1 /\ memRead' = FALSE
    /\ IF dev + 1 = NumDevices THEN advanceLastSeen(rows) ELSE UNCHANGED lastSeenPerDevice

-----------------------------------------------------------------------------
(* The loop of ProcessSamples.                                             *)

\* GetComputeRunningProcesses, which may fail: then no memory is known.
ReadMemory ==
    /\ InCall /\ ~memRead
    /\ memRead' = TRUE
    /\ \E ps \in {running[dev], {}} :
         /\ memByPidDev' = memByPidDev \cup (ps \X {dev})
         /\ holders' = holders \cup (ps \X {dev})
    /\ UNCHANGED <<driver, dev, tsNs, lastSeenNs, out, failed, lastSeenTs,
                   lastSeenPerDevice, delivered, repeated>>

\* Where the query of the device starts: the later of the two watermarks.
SeenByCaller == lastSeenNs                                         \* variant
Seen         == Later(lastSeenTs[dev], lastSeenNs)

\* One row per sample; the first of a process carries its memory.
SampleRows(samples) ==
    {[pid |-> s[1], dev |-> dev, ts |-> s[2],
      mem |-> <<s[1], dev>> \in memByPidDev /\ \A t \in samples : t[1] = s[1] => s[2] <= t[2]]
       : s \in samples}

\* variant: also the processes that have samples
AllMemoryRows(samples) ==
    {[pid |-> k[1], dev |-> dev, ts |-> 0, mem |-> TRUE] : k \in {j \in memByPidDev : j[2] = dev}}

\* One row for each process with memory left, on this device only.
MemoryRows(samples) ==
    {[pid |-> k[1], dev |-> dev, ts |-> 0, mem |-> TRUE]
       : k \in {j \in memByPidDev : j[2] = dev /\ \A s \in samples : s[1] # j[1]}}

\* variant: the time of the query
QueryTime(samples) == now

\* The backend's watermark: the latest sample it returned.
Newest(samples) == Max({lastSeenTs[dev]} \cup {s[2] : s \in samples})

\* What the loop makes of the samples its query gave it.
Return(samples) ==
    /\ out' = out \cup SampleRows(samples) \cup MemoryRows(samples)
    /\ lastSeenTs' = [lastSeenTs EXCEPT ![dev] = Newest(samples)]
    /\ delivered' = [delivered EXCEPT ![dev] = @ \cup samples]
    /\ repeated' = (repeated \/ samples \cap delivered[dev] # {})
    /\ memByPidDev' = {k \in memByPidDev : k[2] # dev}
    /\ NextDevice(out')
    /\ UNCHANGED <<driver, tsNs, lastSeenNs, holders, failed>>

ReadUtilization == InCall /\ memRead /\ Return(GetProcessUtilization(dev, Seen))

\* A soft error, NOT_FOUND for a process that exits mid-query or NOT_SUPPORTED,
\* gives no sample whatever is pending; the loop goes on to the memory rows.
ReadUtilizationSoftly == "soft" \in Errors /\ InCall /\ memRead /\ Return({})

\* A hard error skips the device, memory rows included.
SkipDevice ==
    /\ "hard" \in Errors
    /\ InCall /\ memRead
    /\ failed' = failed \cup {dev}
    /\ NextDevice(out)
    /\ UNCHANGED <<driver, tsNs, lastSeenNs, memByPidDev, out, holders, lastSeenTs,
                   delivered, repeated>>

Next == \/ DriverSamples \/ MemoryChanges \/ Call \/ ReadMemory
        \/ ReadUtilization \/ ReadUtilizationSoftly \/ SkipDevice

Spec == Init /\ [][Next]_vars

-----------------------------------------------------------------------------

\* A sample not returned yet is still ahead of both watermarks: the next call will
\* ask for it.  nvml.go:45 has ProcessSamples return the "samples produced since
\* lastSeenNs", and poller.go:121 takes the minimum over devices "to avoid missing
\* samples for newly-appearing devices".
NothingSkipped ==
    ~InCall => \A d \in Devices : \A s \in produced[d] \ delivered[d] :
                  s[2] > lastSeenTs[d] /\ s[2] > minLastSeen

\* Of its own the backend skips nothing, whichever queries failed and whatever the
\* units: a sample it has not returned and will not ask for again is one that its
\* caller's watermark has passed, "Caller is willing to forget older samples"
\* (real.go:249-253).  Its own watermark moves only over what it returned, or over
\* what the caller gave up before, and the caller never takes back what it gave up.
OnlyForgottenIsSkipped ==
    ~InCall => \A d \in Devices : \A s \in produced[d] \ delivered[d] :
                  s[2] > lastSeenTs[d] \/ s[2] <= minLastSeen

\* No sample is returned twice, though the poller's watermark lags behind on the
\* busier devices: the backend's own one makes up for it (real.go:244-253).
NothingRepeated == ~repeated

\* The rows of a call account for each process's memory on a device exactly once,
\* so that summing them up neither drops nor doubles any (real.go:266-301).
MemoryOnce ==
    ~InCall =>
        /\ {<<r.pid, r.dev>> : r \in {q \in out : q.mem}} \subseteq holders
        /\ \A k \in holders : k[2] \notin failed =>
             Cardinality({r \in out : r.mem /\ <<r.pid, r.dev>> = k}) = 1
=============================================================================
