--------------------------- MODULE NvmlRealProofs ---------------------------
(***************************************************************************)
(* TLAPS proofs about NvmlReal: no sample is returned twice, the memory of *)
(* each process is accounted for once, and the backend skips nothing of    *)
(* its own, for any number of processes and devices, any ratio K of the    *)
(* two time units and any failures of the driver's queries.                *)
(***************************************************************************)
EXTENDS NvmlReal, FiniteSetTheorems, WellFoundedInduction, TLAPS

(***************************************************************************)
(* Extrema of sets of numbers, for Max, Min and the first sample of a      *)
(* process.                                                                *)
(***************************************************************************)
LEMMA LeastNat == \A S \in SUBSET Nat : S # {} => \E m \in S : \A x \in S : m <= x
<1> SUFFICES ASSUME NEW S \in SUBSET Nat, S # {} PROVE \E m \in S : \A x \in S : m <= x
  OBVIOUS
<1> DEFINE R == OpToRel(<, Nat)
<1>1. IsWellFoundedOn(R, Nat)
  BY NatLessThanWellFounded
<1>2. \A x, y \in Nat : x < y => <<x, y>> \in R
  BY DEF OpToRel
<1> HIDE DEF R
<1>3. PICK m \in S : \A x \in S : ~(<<x, m>> \in R)
  BY <1>1, WFMin
<1>4. ASSUME NEW x \in S PROVE m <= x
  <2>1. x \in Nat /\ m \in Nat /\ ~(x < m)
    BY <1>2, <1>3
  <2> QED
    BY <2>1
<1> QED
  BY <1>4

LEMMA GreatestBounded ==
  \A B \in Nat : \A S \in SUBSET (0 .. B) : S # {} => \E m \in S : \A x \in S : x <= m
<1> SUFFICES ASSUME NEW B \in Nat, NEW S \in SUBSET (0 .. B), S # {}
             PROVE  \E m \in S : \A x \in S : x <= m
  OBVIOUS
<1> DEFINE T == {B - x : x \in S}
<1>1. \A x \in S : x \in Nat /\ B - x \in Nat
  OBVIOUS
<1>2. T \in SUBSET Nat /\ T # {}
  BY <1>1
<1>3. PICK t \in T : \A y \in T : t <= y
  BY <1>2, LeastNat
<1>4. PICK m \in S : t = B - m
  OBVIOUS
<1>5. ASSUME NEW x \in S PROVE x <= m
  <2>1. B - m <= B - x
    BY <1>3, <1>4
  <2> QED
    BY <1>1, <2>1
<1> QED
  BY <1>5

LEMMA MinIsLeast ==
  ASSUME NEW S \in SUBSET Nat, S # {}
  PROVE  Min(S) \in S /\ \A x \in S : Min(S) <= x
  BY LeastNat DEF Min

LEMMA MaxIsGreatest ==
  ASSUME NEW B \in Nat, NEW S \in SUBSET (0 .. B), S # {}
  PROVE  Max(S) \in S /\ \A x \in S : x <= Max(S)
  BY GreatestBounded DEF Max

(***************************************************************************)
(* The types.  Nanos are the instants of the bridge.                       *)
(***************************************************************************)
Nanos == {t * K : t \in Times}

LEMMA Arith == /\ NumDevices \in Nat /\ NumDevices > 0
               /\ Times \in SUBSET Nat /\ 0 \in Times /\ 1 \in Times
               /\ \A t \in Times : t <= MaxTime => t + 1 \in Times
               /\ Nanos \in SUBSET Nat /\ 0 \in Nanos
               /\ \A t \in Times : t * K \in Nanos
               /\ Devices = 0 .. NumDevices - 1
<1>1. K \in Nat /\ MaxTime \in Nat /\ 0 * K = 0
  BY NvmlRealAssumption
<1>2. Times \in SUBSET Nat /\ 0 \in Times /\ 1 \in Times /\ \A t \in Times : t <= MaxTime => t + 1 \in Times
  BY <1>1 DEF Times
<1>3. \A t \in Nat : t * K \in Nat
  BY <1>1
<1> QED
  BY <1>1, <1>2, <1>3, NvmlRealAssumption DEF Nanos, Devices

LEMMA LaterIs == \A a, b \in Nat : /\ Later(a, b) \in {a, b}
                                   /\ Later(a, b) >= a /\ Later(a, b) >= b
  BY DEF Later

\* The least watermark is that of some device, or 0 when none has any.
LeastKnown(f) == LET known == {d \in Devices : f[d] > 0}
                 IN  IF known = {} THEN 0 ELSE Min({f[d] : d \in known})

LEMMA LeastKnownIs ==
  ASSUME NEW f \in [Devices -> Nanos]
  PROVE  /\ LeastKnown(f) \in Nanos
         /\ \/ LeastKnown(f) = 0 /\ \A d \in Devices : ~(f[d] > 0)
            \/ \E d \in Devices : f[d] > 0 /\ LeastKnown(f) = f[d]
         /\ \A d \in Devices : f[d] > 0 => LeastKnown(f) <= f[d]
<1> DEFINE known == {d \in Devices : f[d] > 0}
           S == {f[d] : d \in known}
<1>1. CASE known = {}
  BY <1>1, Arith DEF LeastKnown
<1>2. CASE known # {}
  <2>1. S \in SUBSET Nat /\ S # {} /\ S \in SUBSET Nanos
    BY <1>2, Arith
  <2>2. LeastKnown(f) = Min(S)
    BY <1>2 DEF LeastKnown
  <2>3. \A d \in Devices : f[d] > 0 => f[d] \in S
    OBVIOUS
  <2>4. \A m \in S : \E d \in Devices : f[d] > 0 /\ m = f[d]
    OBVIOUS
  <2> HIDE DEF S
  <2>5. Min(S) \in S /\ \A x \in S : Min(S) <= x
    BY <2>1, MinIsLeast
  <2> QED
    BY <2>1, <2>2, <2>3, <2>4, <2>5
<1> QED
  BY <1>1, <1>2

LEMMA MinLastSeenIs == minLastSeen = LeastKnown(lastSeenPerDevice)
  BY DEF minLastSeen, LeastKnown

Rows == [pid : Pids, dev : Devices, ts : Times, mem : BOOLEAN]

LEMMA RowTypes ==
  ASSUME NEW samples \in SUBSET (Pids \X Times), dev \in Devices,
         memByPidDev \subseteq Pids \X Devices
  PROVE  SampleRows(samples) \subseteq Rows /\ MemoryRows(samples) \subseteq Rows
<1>1. ASSUME NEW s \in samples
      PROVE  [pid |-> s[1], dev |-> dev, ts |-> s[2],
              mem |-> <<s[1], dev>> \in memByPidDev /\ \A t \in samples : t[1] = s[1] => s[2] <= t[2]]
             \in Rows
  <2> DEFINE m == <<s[1], dev>> \in memByPidDev /\ \A t \in samples : t[1] = s[1] => s[2] <= t[2]
  <2>1. m \in BOOLEAN
    OBVIOUS
  <2> HIDE DEF m
  <2>2. s[1] \in Pids /\ s[2] \in Times
    OBVIOUS
  <2>3. [pid |-> s[1], dev |-> dev, ts |-> s[2], mem |-> m] \in Rows
    BY <2>1, <2>2 DEF Rows
  <2> QED
    BY <2>3 DEF m
<1>2. SampleRows(samples) \subseteq Rows
  BY <1>1 DEF SampleRows
<1>3. ASSUME NEW k \in memByPidDev
      PROVE  [pid |-> k[1], dev |-> dev, ts |-> 0, mem |-> TRUE] \in Rows
  <2>1. k[1] \in Pids /\ 0 \in Times
    BY Arith
  <2> QED
    BY <2>1 DEF Rows
<1>4. MemoryRows(samples) \subseteq Rows
  BY <1>3 DEF MemoryRows
<1> QED
  BY <1>2, <1>4

\* What a query may return: samples of its device that came after Seen.
Answers == {samples \in SUBSET produced[dev] : \A s \in samples : s[2] > Seen}

LEMMA SeenIs ==
  ASSUME TypeOK, dev \in Devices
  PROVE  /\ Seen \in Nat /\ Seen >= lastSeenTs[dev] /\ Seen >= lastSeenNs
         /\ Seen \in {lastSeenTs[dev], lastSeenNs}
<1>1. lastSeenTs[dev] \in Nat /\ lastSeenNs \in Nat
  BY Arith DEF TypeOK, Nanos
<1> QED
  BY <1>1, LaterIs DEF Seen

LEMMA AnswersType ==
  ASSUME TypeOK, dev \in Devices, NEW samples \in Answers
  PROVE  samples \in SUBSET (Pids \X Times) /\ \A s \in samples : s[2] \in Nat /\ s[2] > lastSeenTs[dev]
<1>1. samples \in SUBSET (Pids \X Times)
  BY DEF TypeOK, Answers
<1>2. ASSUME NEW s \in samples PROVE s[2] \in Nat /\ s[2] > lastSeenTs[dev]
  <2>1. s[2] \in Nat /\ lastSeenTs[dev] \in Nat /\ s[2] > Seen
    BY <1>1, Arith DEF TypeOK, Answers
  <2> QED
    BY <2>1, SeenIs
<1> QED
  BY <1>1, <1>2

\* The backend's watermark moves up to the last sample, and no sample passes it.
LEMMA NewestIs ==
  ASSUME TypeOK, dev \in Devices, NEW samples \in Answers
  PROVE  /\ Newest(samples) \in Times /\ Newest(samples) >= lastSeenTs[dev]
         /\ \A s \in samples : s[2] <= Newest(samples)
         /\ Newest(samples) = lastSeenTs[dev] \/ \E s \in samples : Newest(samples) = s[2]
<1> DEFINE S == {lastSeenTs[dev]} \cup {s[2] : s \in samples}
<1>1. S \in SUBSET Times /\ S # {}
  BY AnswersType DEF TypeOK
<1>2. S \in SUBSET (0 .. MaxTime + 1) /\ MaxTime + 1 \in Nat
  BY <1>1, NvmlRealAssumption DEF Times
<1>3. lastSeenTs[dev] \in S /\ (\A s \in samples : s[2] \in S)
      /\ \A x \in S : x = lastSeenTs[dev] \/ \E s \in samples : x = s[2]
  OBVIOUS
<1>4. Newest(samples) = Max(S)
  BY DEF Newest
<1> HIDE DEF S
<1>5. Max(S) \in S /\ \A x \in S : x <= Max(S)
  BY <1>1, <1>2, MaxIsGreatest
<1> QED
  BY <1>1, <1>3, <1>4, <1>5, Arith

(***************************************************************************)
(* What the steps do, put for the proofs: the poller's watermarks move up  *)
(* to the call's time stamp at its end, and only for devices with rows.    *)
(***************************************************************************)
Advances(rows) ==
    /\ dev' = dev + 1 /\ dev' \in 0 .. NumDevices /\ memRead' = FALSE
    /\ lastSeenPerDevice' \in [Devices -> Nanos]
    /\ \A d \in Devices :
         lastSeenPerDevice'[d] = IF dev + 1 = NumDevices /\ \E r \in rows : r.dev = d
                                   THEN Later(lastSeenPerDevice[d], tsNs)
                                   ELSE lastSeenPerDevice[d]

LEMMA NextDeviceIs ==
  ASSUME TypeOK, dev \in Devices, NEW rows, NextDevice(rows)
  PROVE  Advances(rows)
<1>1. dev' = dev + 1 /\ dev' \in 0 .. NumDevices /\ memRead' = FALSE
  BY Arith DEF NextDevice
<1>2. CASE dev + 1 = NumDevices
  <2>1. lastSeenPerDevice' = [d \in Devices |-> IF \E r \in rows : r.dev = d
                                                  THEN Later(lastSeenPerDevice[d], tsNs)
                                                  ELSE lastSeenPerDevice[d]]
    BY <1>2 DEF NextDevice, advanceLastSeen
  <2>2. ASSUME NEW d \in Devices
        PROVE  Later(lastSeenPerDevice[d], tsNs) \in Nanos /\ lastSeenPerDevice[d] \in Nanos
    <3>1. lastSeenPerDevice[d] \in Nanos /\ tsNs \in Nanos
      BY DEF TypeOK, Nanos
    <3> QED
      BY <3>1, LaterIs, Arith
  <2> QED
    BY <1>1, <1>2, <2>1, <2>2 DEF Advances
<1>3. CASE dev + 1 # NumDevices
  BY <1>1, <1>3 DEF NextDevice, Advances, TypeOK, Nanos
<1> QED
  BY <1>2, <1>3

(***************************************************************************)
(* The inductive invariant for any K.                                      *)
(***************************************************************************)

\* What a device returned is behind the backend's own watermark.
DeliveredIsSeen == \A d \in Devices : \A s \in delivered[d] : s[2] <= lastSeenTs[d]

CarriesMemoryOf(r, k) == r.mem /\ <<r.pid, r.dev>> = k

\* The rows are of the devices left behind.  The memory read of the present device
\* is in memByPidDev, that of each device left behind is in exactly one row, unless
\* its query failed.
MemoryProgress ==
    /\ \A r \in out : r.dev < dev /\ (r.mem => <<r.pid, r.dev>> \in holders)
    /\ \A k \in holders : k[2] < dev \/ (k[2] = dev /\ memRead /\ k \in memByPidDev)
    /\ memByPidDev \subseteq holders
    /\ \A k \in holders : k[2] < dev /\ k[2] \notin failed =>
         \E r \in out : CarriesMemoryOf(r, k) /\ \A q \in out : CarriesMemoryOf(q, k) => q = r

RInv == TypeOK /\ DeliveredIsSeen /\ NothingRepeated /\ MemoryProgress

(***************************************************************************)
(* What RInv lacks for OnlyForgottenIsSkipped.                             *)
(***************************************************************************)

\* No watermark is ahead of the latest call, and no call ahead of the clock.
InThePast ==
    /\ tsNs <= now * K
    /\ \A d \in Devices : /\ lastSeenTs[d] <= now /\ lastSeenPerDevice[d] <= tsNs
                          /\ \A s \in produced[d] : s[2] <= now

\* The poller's watermarks do not move while a call is under way.
Asked == InCall => lastSeenNs = minLastSeen

\* OnlyForgottenIsSkipped, between the devices of a call too.
Forgotten ==
    \A d \in Devices : \A s \in produced[d] \ delivered[d] :
        s[2] > lastSeenTs[d] \/ s[2] <= minLastSeen

SInv == TypeOK /\ InThePast /\ Asked /\ Forgotten

-----------------------------------------------------------------------------

LEMMA RInit == Init => RInv
<1> SUFFICES ASSUME Init PROVE RInv
  OBVIOUS
<1>1. TypeOK
  <2>1. memRead \in BOOLEAN /\ repeated \in BOOLEAN
    BY DEF Init
  <2>2. dev \in 0 .. NumDevices
    BY Arith DEF Init
  <2> QED
    BY <2>1, <2>2, Arith DEF Init, TypeOK, Nanos
<1> QED
  BY <1>1 DEF Init, RInv, DeliveredIsSeen, NothingRepeated, MemoryProgress

\* A query that does not fail hard: it gives all that came after Seen, or nothing.
LEMMA UtilizationIs ==
  ASSUME TypeOK, ReadUtilization \/ ReadUtilizationSoftly
  PROVE  /\ InCall /\ memRead /\ dev \in Devices
         /\ \E samples \in Answers :
              /\ samples = {} \/ \A s \in produced[dev] : s[2] > Seen => s \in samples
              /\ Return(samples)
<1>1. GetProcessUtilization(dev, Seen) \in Answers /\ {} \in Answers
  BY DEF GetProcessUtilization, Answers
<1>2. \A s \in produced[dev] : s[2] > Seen => s \in GetProcessUtilization(dev, Seen)
  BY DEF GetProcessUtilization
<1>3. InCall /\ memRead /\ dev \in Devices
  BY DEF ReadUtilization, ReadUtilizationSoftly, InCall
<1>4. CASE ReadUtilization
  BY <1>1, <1>2, <1>3, <1>4 DEF ReadUtilization
<1>5. CASE ReadUtilizationSoftly
  BY <1>1, <1>3, <1>5 DEF ReadUtilizationSoftly
<1> QED
  BY <1>4, <1>5

LEMMA ReturnIs ==
  ASSUME TypeOK, dev \in Devices, NEW samples, Return(samples)
  PROVE  /\ out' = out \cup SampleRows(samples) \cup MemoryRows(samples)
         /\ lastSeenTs' = [lastSeenTs EXCEPT ![dev] = Newest(samples)]
         /\ delivered' = [delivered EXCEPT ![dev] = @ \cup samples]
         /\ repeated' = (repeated \/ samples \cap delivered[dev] # {})
         /\ memByPidDev' = {k \in memByPidDev : k[2] # dev}
         /\ Advances(out')
         /\ UNCHANGED <<now, produced, running, tsNs, lastSeenNs, holders, failed>>
<1>1. NextDevice(out')
  BY DEF Return
<1>2. Advances(out')
  BY <1>1, NextDeviceIs
<1> QED
  BY <1>2 DEF Return, driver

LEMMA TypeStep == TypeOK /\ [Next]_vars => TypeOK'
<1> SUFFICES ASSUME TypeOK, [Next]_vars PROVE TypeOK'
  OBVIOUS
<1> USE DEF TypeOK, driver, call
<1>1. CASE DriverSamples
  <2> PICK t \in [Devices -> SUBSET Pids] :
        produced' = [d \in Devices |-> produced[d] \cup (t[d] \X {now + 1})]
    BY <1>1 DEF DriverSamples
  <2>1. now + 1 \in Times
    BY <1>1, Arith DEF DriverSamples
  <2>2. \A d \in Devices : produced[d] \cup (t[d] \X {now + 1}) \in SUBSET (Pids \X Times)
    BY <2>1
  <2>3. produced' \in [Devices -> SUBSET (Pids \X Times)]
    BY <2>2
  <2> QED
    BY <1>1, <2>1, <2>3 DEF DriverSamples
<1>2. CASE MemoryChanges
  BY <1>2 DEF MemoryChanges
<1>3. CASE Call
  <2>1. minLastSeen \in Nanos /\ now * K \in Nanos
    BY MinLastSeenIs, LeastKnownIs, Arith DEF Nanos
  <2>2. 0 \in 0 .. NumDevices
    BY Arith
  <2>3. memRead' \in BOOLEAN
    BY <1>3 DEF Call
  <2> QED
    BY <1>3, <2>1, <2>2, <2>3 DEF Call, Nanos
<1>4. CASE ReadMemory
  <2>1. PICK ps \in SUBSET Pids : /\ memByPidDev' = memByPidDev \cup (ps \X {dev})
                                  /\ holders' = holders \cup (ps \X {dev})
    BY <1>4 DEF ReadMemory, InCall
  <2>2. memRead' \in BOOLEAN
    BY <1>4 DEF ReadMemory
  <2> QED
    BY <1>4, <2>1, <2>2 DEF ReadMemory, InCall
<1>5. CASE ReadUtilization \/ ReadUtilizationSoftly
  <2>1. PICK samples \in Answers : dev \in Devices /\ Return(samples)
    BY <1>5, UtilizationIs
  <2>2. /\ samples \in SUBSET (Pids \X Times) /\ Newest(samples) \in Times
        /\ out' = out \cup SampleRows(samples) \cup MemoryRows(samples)
        /\ lastSeenTs' = [lastSeenTs EXCEPT ![dev] = Newest(samples)]
        /\ delivered' = [delivered EXCEPT ![dev] = @ \cup samples]
        /\ repeated' = (repeated \/ samples \cap delivered[dev] # {})
        /\ memByPidDev' = {k \in memByPidDev : k[2] # dev}
        /\ Advances(out')
        /\ UNCHANGED <<driver, tsNs, lastSeenNs, holders, failed>>
    BY <2>1, ReturnIs, AnswersType, NewestIs
  <2>3. out' \subseteq Rows
    BY <2>1, <2>2, RowTypes DEF Rows
  <2>4. delivered' \in [Devices -> SUBSET (Pids \X Times)] /\ lastSeenTs' \in [Devices -> Times]
    BY <2>2
  <2>5. repeated' \in BOOLEAN /\ memRead' \in BOOLEAN
    BY <2>2 DEF Advances
  <2> QED
    BY <2>2, <2>3, <2>4, <2>5 DEF Advances, Rows, Nanos
<1>6. CASE SkipDevice
  <2>1. Advances(out)
    BY <1>6, NextDeviceIs DEF SkipDevice, InCall
  <2>2. memRead' \in BOOLEAN
    BY <2>1 DEF Advances
  <2> QED
    BY <1>6, <2>1, <2>2 DEF SkipDevice, InCall, Advances, Nanos
<1>7. CASE UNCHANGED vars
  BY <1>7 DEF vars
<1> QED
  BY <1>1, <1>2, <1>3, <1>4, <1>5, <1>6, <1>7 DEF Next

(***************************************************************************)
(* The memory of a process is in one row of its device: that of its first  *)
(* sample, or, when it has none, a row of its own.                         *)
(***************************************************************************)
LEMMA OneRowCarriesMemory ==
  ASSUME TypeOK, dev \in Devices, NEW samples \in SUBSET (Pids \X Times),
         NEW k \in memByPidDev, k[2] = dev
  PROVE  LET rows == SampleRows(samples) \cup MemoryRows(samples)
         IN  \E r \in rows : /\ CarriesMemoryOf(r, k)
                             /\ \A q \in rows : CarriesMemoryOf(q, k) => q = r
<1> DEFINE first(s) == <<s[1], dev>> \in memByPidDev /\ \A t \in samples : t[1] = s[1] => s[2] <= t[2]
           row(s) == [pid |-> s[1], dev |-> dev, ts |-> s[2], mem |-> first(s)]
<1>1. k \in Pids \X Devices /\ k = <<k[1], dev>>
  BY DEF TypeOK
<1>2. \A q \in SampleRows(samples) : \E s \in samples : q = row(s)
  BY DEF SampleRows
<1>3. \A s \in samples : row(s) \in SampleRows(samples)
  BY DEF SampleRows
<1>4. ASSUME NEW s \in samples PROVE s = <<s[1], s[2]>> /\ s[2] \in Nat
  <2>1. s = <<s[1], s[2]>> /\ s[2] \in Times
    OBVIOUS
  <2>2. s[2] \in Nat
    BY <2>1, Arith
  <2> QED
    BY <2>1, <2>2
<1>5. CASE \E s \in samples : s[1] = k[1]
  <2> DEFINE T == {s[2] : s \in {t \in samples : t[1] = k[1]}}
  <2>1. T \in SUBSET Nat /\ T # {}
    BY <1>4, <1>5
  <2>2. PICK m \in T : \A x \in T : m <= x
    BY <2>1, LeastNat
  <2>3. PICK s \in samples : s[1] = k[1] /\ s[2] = m
    OBVIOUS
  <2>4. \A t \in samples : t[1] = k[1] => m <= t[2]
    BY <2>2
  <2>5. first(s)
    BY <1>1, <2>3, <2>4
  <2>6. ASSUME NEW t \in samples, t[1] = k[1], first(t) PROVE t = s
    <3>1. t[2] <= m /\ m <= t[2]
      BY <2>3, <2>4, <2>6
    <3> QED
      BY <1>4, <2>3, <2>6, <3>1
  <2> HIDE DEF T, first
  <2>7. CarriesMemoryOf(row(s), k)
    BY <1>1, <2>3, <2>5 DEF CarriesMemoryOf
  <2>8. ASSUME NEW q \in SampleRows(samples), CarriesMemoryOf(q, k) PROVE q = row(s)
    <3>1. PICK t \in samples : q = row(t)
      BY <1>2
    <3>2. first(t) /\ <<t[1], dev>> = k
      BY <2>8, <3>1 DEF CarriesMemoryOf
    <3>3. t[1] = k[1]
      BY <3>2
    <3>4. t = s
      BY <2>6, <3>2, <3>3
    <3> QED
      BY <3>1, <3>4
  <2>9. ASSUME NEW q \in MemoryRows(samples) PROVE ~CarriesMemoryOf(q, k)
    BY <1>1, <2>3 DEF MemoryRows, CarriesMemoryOf
  <2> QED
    BY <1>3, <2>7, <2>8, <2>9
<1>6. CASE \A s \in samples : s[1] # k[1]
  <2> DEFINE r == [pid |-> k[1], dev |-> dev, ts |-> 0, mem |-> TRUE]
  <2>1. r \in MemoryRows(samples) /\ CarriesMemoryOf(r, k)
    BY <1>1, <1>6 DEF MemoryRows, CarriesMemoryOf
  <2>2. \A q \in MemoryRows(samples) : CarriesMemoryOf(q, k) => q = r
    BY <1>1 DEF MemoryRows, CarriesMemoryOf
  <2>3. ASSUME NEW q \in SampleRows(samples) PROVE ~CarriesMemoryOf(q, k)
    <3>1. PICK t \in samples : q = row(t)
      BY <1>2
    <3>2. q.pid = t[1] /\ t[1] # k[1]
      BY <1>6, <3>1
    <3> QED
      BY <1>1, <3>2 DEF CarriesMemoryOf
  <2> QED
    BY <2>1, <2>2, <2>3
<1> QED
  BY <1>5, <1>6

(***************************************************************************)
(* A query that does not fail hard.                                        *)
(***************************************************************************)
LEMMA UtilizationKeeps ==
  ASSUME RInv, ReadUtilization \/ ReadUtilizationSoftly, TypeOK'
  PROVE  RInv'
<1>0. TypeOK /\ dev \in Devices /\ memRead /\ dev \in Int
  BY UtilizationIs, Arith DEF RInv
<1>a. PICK samples \in Answers : Return(samples)
  BY <1>0, UtilizationIs
<1>1. /\ TypeOK /\ dev \in Devices /\ memRead /\ dev \in Int
      /\ out' = out \cup SampleRows(samples) \cup MemoryRows(samples)
      /\ lastSeenTs' = [lastSeenTs EXCEPT ![dev] = Newest(samples)]
      /\ delivered' = [delivered EXCEPT ![dev] = @ \cup samples]
      /\ repeated' = (repeated \/ samples \cap delivered[dev] # {})
      /\ memByPidDev' = {k \in memByPidDev : k[2] # dev}
      /\ dev' = dev + 1 /\ holders' = holders /\ failed' = failed
  BY <1>0, <1>a, ReturnIs DEF Advances
<1>2. samples \in SUBSET (Pids \X Times) /\ \A s \in samples : s[2] > lastSeenTs[dev]
  BY <1>1, AnswersType
<1>3. DeliveredIsSeen'
  <2> SUFFICES ASSUME NEW d \in Devices, NEW s \in delivered'[d] PROVE s[2] <= lastSeenTs'[d]
    BY DEF DeliveredIsSeen
  <2>1. CASE d # dev
    BY <1>1, <2>1 DEF TypeOK, RInv, DeliveredIsSeen
  <2>2. CASE d = dev
    <3>1. lastSeenTs'[d] = Newest(samples) /\ s \in delivered[dev] \cup samples
      BY <1>1, <2>2 DEF TypeOK
    <3>2. CASE s \in samples
      BY <1>1, <3>1, <3>2, NewestIs
    <3>3. CASE s \in delivered[dev]
      <4>1. s[2] <= lastSeenTs[dev] /\ s[2] \in Times /\ lastSeenTs[dev] \in Times
        BY <1>1, <3>3 DEF RInv, DeliveredIsSeen, TypeOK
      <4>2. Newest(samples) \in Times /\ lastSeenTs[dev] <= Newest(samples)
        BY <1>1, NewestIs
      <4>3. s[2] \in Nat /\ lastSeenTs[dev] \in Nat /\ Newest(samples) \in Nat
        BY <4>1, <4>2, Arith
      <4> QED
        BY <3>1, <4>1, <4>2, <4>3
    <3> QED
      BY <3>1, <3>2, <3>3
  <2> QED
    BY <2>1, <2>2
<1>4. NothingRepeated'
  <2>1. ASSUME NEW s \in samples PROVE s \notin delivered[dev]
    <3>1. s[2] \in Nat /\ lastSeenTs[dev] \in Nat
      BY <1>1, <1>2, Arith DEF TypeOK
    <3> QED
      BY <1>1, <1>2, <3>1 DEF RInv, DeliveredIsSeen
  <2>2. samples \cap delivered[dev] = {}
    BY <2>1
  <2> QED
    BY <1>1, <2>2 DEF RInv, NothingRepeated
<1>5. MemoryProgress'
  <2> DEFINE new == SampleRows(samples) \cup MemoryRows(samples)
  <2>1. ASSUME NEW r \in new
        PROVE  r.dev = dev /\ (r.mem => <<r.pid, r.dev>> \in memByPidDev)
    <3>1. CASE r \in SampleRows(samples)
      <4> DEFINE first(t) == /\ <<t[1], dev>> \in memByPidDev
                             /\ \A u \in samples : u[1] = t[1] => t[2] <= u[2]
      <4>1. PICK t \in samples : r = [pid |-> t[1], dev |-> dev, ts |-> t[2], mem |-> first(t)]
        BY <3>1 DEF SampleRows
      <4>2. r.dev = dev /\ r.pid = t[1] /\ (r.mem => first(t))
        BY <4>1
      <4> QED
        BY <4>2
    <3>2. CASE r \in MemoryRows(samples)
      <4>1. PICK k \in memByPidDev : k[2] = dev /\ r = [pid |-> k[1], dev |-> dev, ts |-> 0, mem |-> TRUE]
        BY <3>2 DEF MemoryRows
      <4>2. k = <<k[1], k[2]>>
        BY <1>1 DEF TypeOK
      <4> QED
        BY <4>1, <4>2
    <3> QED
      BY <3>1, <3>2
  <2> HIDE DEF new
  <2>2. ASSUME NEW r \in out
        PROVE  r.dev \in Int /\ r.dev < dev /\ (r.mem => <<r.pid, r.dev>> \in holders)
    <3>1. r.dev \in Devices
      BY <1>1 DEF TypeOK
    <3>2. r.dev \in Int
      BY <3>1, Arith
    <3> QED
      BY <3>2 DEF RInv, MemoryProgress
  <2>3. memByPidDev \subseteq holders
    BY DEF RInv, MemoryProgress
  <2>4. \A r \in out' : r.dev < dev' /\ (r.mem => <<r.pid, r.dev>> \in holders')
    <3> SUFFICES ASSUME NEW r \in out'
                 PROVE  r.dev < dev' /\ (r.mem => <<r.pid, r.dev>> \in holders')
      OBVIOUS
    <3>1. r \in out \/ r \in new
      BY <1>1 DEF new
    <3>dev. dev' = dev + 1 /\ dev \in Int
      BY <1>1
    <3>2. CASE r \in out
      <4>0. r.dev \in Int /\ r.dev < dev
        BY <2>2, <3>2
      <4>1. r.dev < dev'
        BY <3>dev, <4>0
      <4> QED
        BY <1>1, <2>2, <3>2, <4>1
    <3>3. CASE r \in new
      <4>0. r.dev = dev
        BY <2>1, <3>3
      <4>1. r.dev < dev'
        BY <3>dev, <4>0
      <4> QED
        BY <1>1, <2>1, <2>3, <3>3, <4>1
    <3> QED
      BY <3>1, <3>2, <3>3
  <2>5. \A k \in holders : k[2] \in Int /\ (k[2] < dev \/ (k[2] = dev /\ k \in memByPidDev))
    BY <1>1 DEF RInv, MemoryProgress, TypeOK, Devices
  <2>6. ASSUME NEW k \in holders, k[2] \notin failed
        PROVE  \E r \in out' : CarriesMemoryOf(r, k) /\ \A q \in out' : CarriesMemoryOf(q, k) => q = r
    <3>1. out' = out \cup new
      BY <1>1 DEF new
    <3>2. k = <<k[1], k[2]>>
      BY <1>1 DEF TypeOK
    <3>3. CASE k[2] < dev
      <4>1. PICK r \in out : CarriesMemoryOf(r, k) /\ \A q \in out : CarriesMemoryOf(q, k) => q = r
        BY <2>6, <3>3 DEF RInv, MemoryProgress
      <4>2. ASSUME NEW q \in new PROVE ~CarriesMemoryOf(q, k)
        <5>1. q.dev = dev
          BY <2>1
        <5>2. dev # k[2]
          BY <1>1, <2>5, <3>3
        <5> QED
          BY <3>2, <5>1, <5>2 DEF CarriesMemoryOf
      <4> QED
        BY <3>1, <4>1, <4>2
    <3>4. CASE k[2] = dev /\ k \in memByPidDev
      <4>1. PICK r \in new : CarriesMemoryOf(r, k) /\ \A q \in new : CarriesMemoryOf(q, k) => q = r
        BY <1>1, <1>2, <3>4, OneRowCarriesMemory DEF new
      <4>2. ASSUME NEW q \in out PROVE ~CarriesMemoryOf(q, k)
        <5>1. q.dev < dev /\ q.dev \in Int
          BY <2>2
        <5>2. q.dev # k[2]
          BY <1>1, <3>4, <5>1
        <5> QED
          BY <3>2, <5>2 DEF CarriesMemoryOf
      <4> QED
        BY <3>1, <4>1, <4>2
    <3> QED
      BY <2>5, <3>3, <3>4
  <2> QED
    BY <1>1, <2>3, <2>4, <2>5, <2>6 DEF MemoryProgress
<1> QED
  BY <1>3, <1>4, <1>5 DEF RInv

LEMMA RStep == RInv /\ [Next]_vars => RInv'
<1> SUFFICES ASSUME RInv, [Next]_vars PROVE RInv'
  OBVIOUS
<1>type. TypeOK /\ TypeOK'
  BY TypeStep DEF RInv
<1>dev. dev \in Int /\ \A d \in Devices : d \in Int /\ d < NumDevices
  BY <1>type, Arith DEF TypeOK
<1>1. CASE DriverSamples \/ MemoryChanges \/ UNCHANGED vars
  <2>1. UNCHANGED <<call, lastSeenTs, delivered, repeated>>
    BY <1>1 DEF DriverSamples, MemoryChanges, vars
  <2> QED
    BY <1>type, <2>1 DEF RInv, DeliveredIsSeen, NothingRepeated, MemoryProgress, call
<1>2. CASE Call
  <2>1. UNCHANGED <<lastSeenTs, delivered, repeated>> /\ memByPidDev' = {} /\ out' = {} /\ holders' = {}
    BY <1>2 DEF Call
  <2> QED
    BY <1>type, <2>1 DEF RInv, DeliveredIsSeen, NothingRepeated, MemoryProgress
<1>3. CASE ReadMemory
  <2>1. PICK ps \in SUBSET Pids : /\ memByPidDev' = memByPidDev \cup (ps \X {dev})
                                  /\ holders' = holders \cup (ps \X {dev})
    BY <1>3, <1>type DEF ReadMemory, InCall, TypeOK
  <2>2. UNCHANGED <<dev, out, failed, lastSeenTs, delivered, repeated>> /\ ~memRead /\ memRead'
    BY <1>3 DEF ReadMemory
  <2>3. \A k \in holders : k[2] < dev
    BY <2>2 DEF RInv, MemoryProgress
  <2>4. MemoryProgress'
    <3>1. \A k \in ps \X {dev} : k[2] = dev /\ k \in memByPidDev' /\ k \in holders'
      BY <2>1
    <3>2. ~(dev < dev)
      BY <1>dev
    <3> QED
      BY <2>1, <2>2, <2>3, <3>1, <3>2 DEF RInv, MemoryProgress
  <2> QED
    BY <1>type, <2>2, <2>4 DEF RInv, DeliveredIsSeen, NothingRepeated
<1>4. CASE ReadUtilization \/ ReadUtilizationSoftly
  BY <1>4, <1>type, UtilizationKeeps
<1>5. CASE SkipDevice
  <2>1. /\ dev' = dev + 1 /\ failed' = failed \cup {dev}
        /\ UNCHANGED <<memByPidDev, out, holders, lastSeenTs, delivered, repeated>>
    BY <1>5 DEF SkipDevice, NextDevice
  <2>2. \A k \in holders : k[2] \in Int /\ (k[2] < dev \/ k[2] = dev)
    BY <1>type, <1>dev DEF RInv, MemoryProgress, TypeOK
  <2>3. \A r \in out : r.dev \in Int
    BY <1>type, <1>dev DEF TypeOK
  <2>4. MemoryProgress'
    BY <1>dev, <2>1, <2>2, <2>3 DEF RInv, MemoryProgress
  <2> QED
    BY <1>type, <2>1, <2>4 DEF RInv, DeliveredIsSeen, NothingRepeated
<1> QED
  BY <1>1, <1>2, <1>3, <1>4, <1>5 DEF Next

-----------------------------------------------------------------------------
(* What is skipped.                                                        *)

LEMMA SInit == Init => SInv
<1> SUFFICES ASSUME Init PROVE SInv
  OBVIOUS
<1>1. TypeOK
  BY RInit DEF RInv
<1>2. ~InCall
  BY Arith DEF Init, InCall
<1>3. tsNs <= now * K
  BY NvmlRealAssumption DEF Init
<1> QED
  BY <1>1, <1>2, <1>3 DEF Init, SInv, InThePast, Asked, Forgotten

\* The numbers the invariant compares.
LEMMA Numbers ==
  ASSUME TypeOK
  PROVE  /\ now \in Nat /\ now * K \in Nat /\ (now + 1) * K = now * K + K /\ K \in Nat
         /\ tsNs \in Nat /\ lastSeenNs \in Nat /\ minLastSeen \in Nat
         /\ lastSeenPerDevice \in [Devices -> Nanos]
         /\ \A d \in Devices : /\ lastSeenTs[d] \in Nat /\ lastSeenPerDevice[d] \in Nat
                               /\ \A s \in produced[d] : s[2] \in Nat
<1>1. now \in Nat /\ K \in Nat
  BY Arith, NvmlRealAssumption DEF TypeOK
<1>2. now * K \in Nat /\ (now + 1) * K = now * K + K
  BY <1>1
<1>3. tsNs \in Nat /\ lastSeenNs \in Nat /\ lastSeenPerDevice \in [Devices -> Nanos]
  BY Arith DEF TypeOK, Nanos
<1>4. minLastSeen \in Nat
  BY <1>3, MinLastSeenIs, LeastKnownIs, Arith
<1>5. ASSUME NEW d \in Devices
      PROVE  /\ lastSeenTs[d] \in Nat /\ lastSeenPerDevice[d] \in Nat
             /\ \A s \in produced[d] : s[2] \in Nat
  <2>1. lastSeenTs[d] \in Times /\ \A s \in produced[d] : s[2] \in Times
    BY DEF TypeOK
  <2> QED
    BY <1>3, <2>1, Arith
<1> QED
  BY <1>1, <1>2, <1>3, <1>4, <1>5

\* What the caller gave up stays given up: the least watermark never falls, though
\* a device that gets its first one joins the minimum.
LEMMA NothingTakenBack ==
  ASSUME NEW f \in [Devices -> Nanos], NEW g \in [Devices -> Nanos], NEW t \in Nat,
         \A d \in Devices : f[d] <= t /\ g[d] \in {f[d], Later(f[d], t)}
  PROVE  LeastKnown(f) <= LeastKnown(g)
<1>1. \A d \in Devices : f[d] \in Nat /\ g[d] \in Nat
  BY Arith
<1>2. /\ LeastKnown(f) \in Nat /\ LeastKnown(g) \in Nat
      /\ \/ LeastKnown(f) = 0
         \/ \E d \in Devices : f[d] > 0 /\ LeastKnown(f) = f[d]
      /\ \A d \in Devices : f[d] > 0 => LeastKnown(f) <= f[d]
      /\ \/ \A d \in Devices : ~(g[d] > 0)
         \/ \E d \in Devices : g[d] > 0 /\ LeastKnown(g) = g[d]
  BY LeastKnownIs, Arith
<1>3. \A d \in Devices : g[d] >= f[d] /\ (g[d] = f[d] \/ g[d] = t)
  BY <1>1, LaterIs
<1>4. CASE LeastKnown(f) = 0
  BY <1>2, <1>4
<1>5. CASE \E d \in Devices : f[d] > 0 /\ LeastKnown(f) = f[d]
  <2>1. PICK d \in Devices : f[d] > 0 /\ LeastKnown(f) = f[d]
    BY <1>5
  <2>2. g[d] > 0 /\ LeastKnown(f) <= t
    BY <1>1, <1>3, <2>1
  <2>3. PICK e \in Devices : g[e] > 0 /\ LeastKnown(g) = g[e]
    BY <1>2, <2>2
  <2>4. CASE g[e] = f[e]
    BY <1>2, <2>3, <2>4
  <2>5. CASE g[e] = t
    BY <2>2, <2>3, <2>5
  <2> QED
    BY <1>3, <2>4, <2>5
<1> QED
  BY <1>2, <1>4, <1>5

\* The call leaves its device: the least watermark does not fall, and moves at the
\* end of the call only.
LEMMA AdvancesIs ==
  ASSUME SInv, dev \in Devices, NEW rows, Advances(rows)
  PROVE  /\ minLastSeen' \in Nat /\ minLastSeen <= minLastSeen'
         /\ InCall' => minLastSeen' = minLastSeen
         /\ \A d \in Devices : lastSeenPerDevice'[d] <= tsNs
<1>1. /\ TypeOK /\ tsNs \in Nat
      /\ \A d \in Devices : lastSeenPerDevice[d] <= tsNs /\ lastSeenPerDevice[d] \in Nat
      /\ lastSeenPerDevice \in [Devices -> Nanos] /\ lastSeenPerDevice' \in [Devices -> Nanos]
  BY Numbers DEF SInv, InThePast, Advances
<1>2. \A d \in Devices : lastSeenPerDevice'[d] \in {lastSeenPerDevice[d], Later(lastSeenPerDevice[d], tsNs)}
  BY DEF Advances
<1>3. minLastSeen = LeastKnown(lastSeenPerDevice) /\ minLastSeen' = LeastKnown(lastSeenPerDevice')
  BY DEF minLastSeen, LeastKnown
<1>4. LeastKnown(lastSeenPerDevice) <= LeastKnown(lastSeenPerDevice')
  BY <1>1, <1>2, NothingTakenBack
<1>5. LeastKnown(lastSeenPerDevice') \in Nat
  BY <1>1, LeastKnownIs, Arith
<1>6. ASSUME InCall' PROVE lastSeenPerDevice' = lastSeenPerDevice
  <2>1. dev + 1 # NumDevices
    BY <1>6, Arith DEF Advances, InCall
  <2> QED
    BY <1>1, <2>1 DEF Advances
<1>7. \A d \in Devices : lastSeenPerDevice'[d] <= tsNs
  BY <1>1, <1>2, LaterIs
<1> QED
  BY <1>3, <1>4, <1>5, <1>6, <1>7

\* The query leaves unreturned what is at most Seen, which is one watermark or the
\* other; or it leaves all, and its watermark stands.
LEMMA UtilizationSkipsNothing ==
  ASSUME SInv, ReadUtilization \/ ReadUtilizationSoftly, TypeOK'
  PROVE  SInv'
<1>0. TypeOK /\ InThePast /\ dev \in Devices /\ InCall
  BY UtilizationIs DEF SInv
<1>1. PICK samples \in Answers :
        /\ samples = {} \/ \A s \in produced[dev] : s[2] > Seen => s \in samples
        /\ Return(samples)
  BY <1>0, UtilizationIs
<1>2. /\ lastSeenTs' = [lastSeenTs EXCEPT ![dev] = Newest(samples)]
      /\ delivered' = [delivered EXCEPT ![dev] = @ \cup samples]
      /\ Advances(out')
      /\ UNCHANGED <<now, produced, tsNs, lastSeenNs>>
  BY <1>0, <1>1, ReturnIs
<1>3. /\ minLastSeen' \in Nat /\ minLastSeen <= minLastSeen' /\ minLastSeen \in Nat
      /\ InCall' => minLastSeen' = minLastSeen
      /\ \A d \in Devices : lastSeenPerDevice'[d] <= tsNs
  BY <1>0, <1>2, AdvancesIs, Numbers
<1>4. /\ lastSeenTs'[dev] = Newest(samples) /\ delivered'[dev] = delivered[dev] \cup samples
      /\ \A d \in Devices : d # dev => lastSeenTs'[d] = lastSeenTs[d] /\ delivered'[d] = delivered[d]
  BY <1>0, <1>2 DEF TypeOK
<1>5. \A s \in samples : s[2] <= now /\ s[2] \in Nat
  BY <1>0, AnswersType DEF InThePast, Answers
<1>6. InThePast'
  <2>1. lastSeenTs'[dev] <= now
    <3>1. Newest(samples) = lastSeenTs[dev] \/ \E s \in samples : Newest(samples) = s[2]
      BY <1>0, NewestIs
    <3> QED
      BY <1>0, <1>4, <1>5, <3>1 DEF InThePast
  <2>2. \A d \in Devices : lastSeenTs'[d] <= now
    BY <1>0, <1>4, <2>1 DEF InThePast
  <2> QED
    BY <1>0, <1>2, <1>3, <2>2 DEF InThePast
<1>7. Asked'
  BY <1>0, <1>2, <1>3 DEF SInv, Asked
<1>8. Forgotten'
  <2> SUFFICES ASSUME NEW d \in Devices, NEW s \in produced[d] \ delivered'[d]
               PROVE  s[2] > lastSeenTs'[d] \/ s[2] <= minLastSeen'
    BY <1>2 DEF Forgotten
  <2>0. s \in produced[d] \ delivered[d] /\ s[2] \in Nat /\ lastSeenTs[d] \in Nat
    BY <1>0, <1>2, <1>4, Numbers
  <2>1. s[2] > lastSeenTs[d] \/ s[2] <= minLastSeen
    BY <2>0 DEF SInv, Forgotten
  <2>2. CASE s[2] <= minLastSeen
    BY <1>3, <2>0, <2>2
  <2>3. CASE s[2] > lastSeenTs[d] /\ d # dev
    BY <1>4, <2>3
  <2>4. CASE s[2] > lastSeenTs[d] /\ d = dev
    <3>1. CASE samples = {}
      <4>1. Newest(samples) = lastSeenTs[dev]
        BY <1>0, <3>1, NewestIs
      <4> QED
        BY <1>4, <2>4, <4>1
    <3>2. CASE \A t \in produced[dev] : t[2] > Seen => t \in samples
      <4>1. ~(s[2] > Seen)
        BY <1>4, <2>4, <3>2
      <4>2. Seen \in Nat /\ Seen \in {lastSeenTs[dev], lastSeenNs}
        BY <1>0, SeenIs
      <4>3. s[2] <= lastSeenNs
        BY <2>0, <2>4, <4>1, <4>2
      <4>4. lastSeenNs = minLastSeen
        BY <1>0 DEF SInv, Asked
      <4> QED
        BY <1>3, <2>0, <4>3, <4>4
    <3> QED
      BY <1>1, <3>1, <3>2
  <2> QED
    BY <2>1, <2>2, <2>3, <2>4
<1> QED
  BY <1>6, <1>7, <1>8 DEF SInv

LEMMA SStep == SInv /\ [Next]_vars => SInv'
<1> SUFFICES ASSUME SInv, [Next]_vars PROVE SInv'
  OBVIOUS
<1>type. TypeOK /\ TypeOK'
  BY TypeStep DEF SInv
<1>1. CASE DriverSamples
  <2> PICK t \in [Devices -> SUBSET Pids] :
        produced' = [d \in Devices |-> produced[d] \cup (t[d] \X {now + 1})]
    BY <1>1 DEF DriverSamples
  <2>1. now' = now + 1 /\ UNCHANGED <<dev, tsNs, lastSeenNs, lastSeenTs, lastSeenPerDevice, delivered>>
    BY <1>1 DEF DriverSamples, call
  <2>2. minLastSeen' = minLastSeen /\ InCall' = InCall
    BY <2>1 DEF minLastSeen, InCall
  <2>3. \A d \in Devices : \A s \in produced'[d] : s \in produced[d] \/ s[2] = now + 1
    OBVIOUS
  <2>4. now' * K = now * K + K
    BY <1>type, <2>1, Numbers
  <2>5. tsNs <= now' * K
    BY <1>type, <2>4, Numbers DEF SInv, InThePast
  <2>6. ASSUME NEW d \in Devices
        PROVE  /\ lastSeenTs[d] <= now' /\ lastSeenTs[d] < now + 1
               /\ \A s \in produced'[d] : s[2] <= now'
    BY <1>type, <2>1, <2>3, Numbers DEF SInv, InThePast
  <2>7. InThePast'
    BY <2>1, <2>5, <2>6 DEF SInv, InThePast
  <2>8. Asked'
    BY <2>1, <2>2 DEF SInv, Asked
  <2>9. Forgotten'
    <3> SUFFICES ASSUME NEW d \in Devices, NEW s \in produced'[d] \ delivered[d]
                 PROVE  s[2] > lastSeenTs[d] \/ s[2] <= minLastSeen
      BY <2>1, <2>2 DEF Forgotten
    <3>1. CASE s \in produced[d]
      BY <3>1 DEF SInv, Forgotten
    <3>2. CASE s[2] = now + 1
      <4>1. now \in Nat /\ lastSeenTs[d] \in Nat
        BY <1>type, Numbers
      <4> QED
        BY <2>6, <3>2, <4>1
    <3> QED
      BY <2>3, <3>1, <3>2
  <2> QED
    BY <1>type, <2>7, <2>8, <2>9 DEF SInv
<1>2. CASE MemoryChanges \/ ReadMemory \/ UNCHANGED vars
  <2>1. UNCHANGED <<now, produced, dev, tsNs, lastSeenNs, lastSeenTs, lastSeenPerDevice, delivered>>
    BY <1>2 DEF MemoryChanges, ReadMemory, vars, driver, call
  <2>2. minLastSeen' = minLastSeen /\ InCall' = InCall
    BY <2>1 DEF minLastSeen, InCall
  <2>3. InThePast' /\ Asked' /\ Forgotten'
    BY <2>1, <2>2 DEF SInv, InThePast, Asked, Forgotten
  <2> QED
    BY <1>type, <2>3 DEF SInv
<1>3. CASE Call
  <2>1. /\ tsNs' = now * K /\ lastSeenNs' = minLastSeen
        /\ UNCHANGED <<now, produced, lastSeenTs, lastSeenPerDevice, delivered>>
    BY <1>3 DEF Call, driver
  <2>2. minLastSeen' = minLastSeen
    BY <2>1 DEF minLastSeen
  <2>3. \A d \in Devices : lastSeenPerDevice[d] <= now * K
    BY <1>type, Numbers DEF SInv, InThePast
  <2>4. now * K <= now * K
    BY <1>type, Numbers
  <2>5. InThePast' /\ Asked' /\ Forgotten'
    BY <2>1, <2>2, <2>3, <2>4 DEF SInv, InThePast, Asked, Forgotten
  <2> QED
    BY <1>type, <2>5 DEF SInv
<1>4. CASE ReadUtilization \/ ReadUtilizationSoftly
  BY <1>4, <1>type, UtilizationSkipsNothing
<1>5. CASE SkipDevice
  <2>1. /\ dev \in Devices /\ InCall
        /\ UNCHANGED <<now, produced, tsNs, lastSeenNs, lastSeenTs, delivered>>
    BY <1>5 DEF SkipDevice, InCall, driver
  <2>2. Advances(out)
    BY <1>5, <1>type, <2>1, NextDeviceIs DEF SkipDevice
  <2>3. /\ minLastSeen' \in Nat /\ minLastSeen <= minLastSeen' /\ minLastSeen \in Nat
        /\ InCall' => minLastSeen' = minLastSeen
        /\ \A d \in Devices : lastSeenPerDevice'[d] <= tsNs
    BY <1>type, <2>1, <2>2, AdvancesIs, Numbers
  <2>4. InThePast' /\ Asked'
    BY <2>1, <2>3 DEF SInv, InThePast, Asked
  <2>5. Forgotten'
    <3> SUFFICES ASSUME NEW d \in Devices, NEW s \in produced[d] \ delivered[d]
                 PROVE  s[2] > lastSeenTs[d] \/ s[2] <= minLastSeen'
      BY <2>1 DEF Forgotten
    <3>1. s[2] > lastSeenTs[d] \/ s[2] <= minLastSeen
      BY DEF SInv, Forgotten
    <3>2. s[2] \in Nat
      BY <1>type, Numbers
    <3> QED
      BY <2>3, <3>1, <3>2
  <2> QED
    BY <1>type, <2>4, <2>5 DEF SInv
<1> QED
  BY <1>1, <1>2, <1>3, <1>4, <1>5 DEF Next

-----------------------------------------------------------------------------

LEMMA RInvHolds == Spec => []RInv
  BY RInit, RStep, PTL DEF Spec

LEMMA SInvHolds == Spec => []SInv
  BY SInit, SStep, PTL DEF Spec

LEMMA RInvCountsMemoryOnce == RInv => MemoryOnce
<1> SUFFICES ASSUME RInv, ~InCall PROVE MemoryOnce
  BY DEF MemoryOnce
<1>1. TypeOK /\ MemoryProgress
  BY DEF RInv
<1>2. dev = NumDevices
  BY <1>1, Arith DEF TypeOK, InCall
<1>3. {<<r.pid, r.dev>> : r \in {q \in out : q.mem}} \subseteq holders
  BY <1>1 DEF MemoryProgress
<1>4. ASSUME NEW k \in holders, k[2] \notin failed
      PROVE  Cardinality({r \in out : r.mem /\ <<r.pid, r.dev>> = k}) = 1
  <2>1. k[2] \in Devices
    BY <1>1 DEF TypeOK
  <2>2. k[2] < dev
    BY <1>2, <2>1, Arith
  <2>3. PICK r \in out : CarriesMemoryOf(r, k) /\ \A q \in out : CarriesMemoryOf(q, k) => q = r
    BY <1>1, <1>4, <2>2 DEF MemoryProgress
  <2>4. {q \in out : q.mem /\ <<q.pid, q.dev>> = k} = {r}
    BY <2>3 DEF CarriesMemoryOf
  <2> QED
    BY <2>4, FS_Singleton
<1> QED
  BY <1>3, <1>4 DEF MemoryOnce

(***************************************************************************)
(* The types of the state hold throughout: the row set of ProcessSamples   *)
(* (real.go:215) and both sides' watermarks stay what they are declared.   *)
(***************************************************************************)
THEOREM TypeCorrect == Spec => []TypeOK
<1>1. RInv => TypeOK
  BY DEF RInv
<1> QED
  BY <1>1, RInvHolds, PTL

(***************************************************************************)
(* No sample is returned twice, though the poller asks with the watermark  *)
(* of its slowest device (poller.go minLastSeen): the backend's own        *)
(* lastSeenTs makes up for it (real.go:244-253).  This holds for any ratio *)
(* K of the two time units.                                                *)
(***************************************************************************)
THEOREM SamplesComeOnce == Spec => []NothingRepeated
<1>1. RInv => NothingRepeated
  BY DEF RInv
<1> QED
  BY <1>1, RInvHolds, PTL

(***************************************************************************)
(* The rows of a call carry the memory of each process on each device      *)
(* once: with its first sample, or in a row of its own when it has none    *)
(* (real.go:266-301); only a device whose query failed is left out.        *)
(***************************************************************************)
THEOREM MemoryCountedOnce == Spec => []MemoryOnce
  BY RInvCountsMemoryOnce, RInvHolds, PTL

(***************************************************************************)
(* A sample the backend has not returned and will not ask for again is one *)
(* that the poller's watermark has passed (real.go:249-253): the backend's *)
(* own bookkeeping loses none, for any ratio K of the units, whether the   *)
(* queries succeed, fail softly or fail hard.                              *)
(***************************************************************************)
THEOREM BackendSkipsNothing == Spec => []OnlyForgottenIsSkipped
<1>1. SInv => OnlyForgottenIsSkipped
  BY DEF SInv, Forgotten, OnlyForgottenIsSkipped
<1> QED
  BY <1>1, SInvHolds, PTL
=============================================================================
