------------------------------ MODULE Freshness ------------------------------
(***************************************************************************)
(* Time in the bridge: the ticker of src/internal/poller/poller.go (Run),  *)
(* the wall clock that stamps gpu_meta and that the mock source            *)
(* (src/internal/nvml/mock.go) compares with the poller's watermark, and   *)
(* the monotonic clock a consumer compares with the stamp.                 *)
(*                                                                         *)
(* No clock is a variable: every instant the code remembers is kept as its *)
(* distance from the present, so that time never ends.  A distance is      *)
(* exact up to a horizon chosen beyond everything compared with it.  The   *)
(* wall clock runs with the monotonic one, ahead of it by an offset that   *)
(* changes when somebody sets it.                                          *)
(***************************************************************************)
EXTENDS Integers

CONSTANTS Interval,  \* --poll-interval
          MaxRound,  \* longest duration of a round
          Offsets,   \* by how much the wall clock may be ahead of the monotonic one
          MaxBack,   \* bound: how far the wall clock is set back between two rounds
                     \* that sample
          Width      \* unsigned subtraction wraps at Width

ASSUME FreshnessAssumption == /\ Interval \in Nat \ {0}
                              /\ MaxRound \in Nat
                              /\ Offsets \subseteq Int
                              /\ MaxBack \in Nat
                              /\ Width \in Nat \ {0}

VARIABLES
    pc,          \* where the bridge stands
    spent,       \* time since the round began
    due,         \* time until the ticker fires, 0 while there is no ticker
    ready,       \* the ticker's one-slot channel is full
    lead,        \* lastSeenPerDevice minus the wall clock
    offset,      \* wall clock minus monotonic clock
    age,         \* time since gpu_meta was written
    stampOffset, \* the offset when it was
    \* history, for the properties only
    published,   \* this process has written gpu_meta
    quiet,       \* time since the source last gave samples, or since it began
    setBack,     \* how far the wall clock was set back since
    started      \* time since the latest and since the previous round began

vars == <<pc, spent, due, ready, lead, offset, age, stampOffset,
          published, quiet, setBack, started>>

Horizon == 2 * (Interval + MaxRound + MaxBack) + 1
Oldest  == -(MaxBack + 1)              \* a watermark no setting of the clock reaches

AtMost(x, y)  == IF x < y THEN x ELSE y
AtLeast(x, y) == IF x > y THEN x ELSE y
Older(x)      == AtMost(x + 1, Horizon)

InRound == pc \in {"devices", "samples", "meta"}

TypeOK ==
    /\ pc \in {"off", "devices", "samples", "meta", "select"}
    /\ spent \in 0 .. MaxRound
    /\ due \in 0 .. Interval
    /\ ready \in BOOLEAN
    /\ lead \in Oldest .. MaxBack
    /\ offset \in Offsets /\ stampOffset \in Offsets
    /\ age \in 0 .. Horizon
    /\ published \in BOOLEAN
    /\ quiet \in 0 .. Horizon
    /\ setBack \in 0 .. MaxBack
    /\ started \in [latest : 0 .. Horizon, previous : 0 .. Horizon]

Init ==
    /\ pc = "off"
    /\ spent = 0
    /\ due = 0
    /\ ready = FALSE
    /\ lead = Oldest
    /\ offset \in Offsets
    /\ age = Horizon
    /\ stampOffset = offset
    /\ published = FALSE
    /\ quiet = 0
    /\ setBack = 0
    /\ started = [latest |-> Horizon, previous |-> Horizon]

-----------------------------------------------------------------------------
(* Run and the mock.                                                       *)

RoundBegins ==
    /\ pc' = "devices"
    /\ spent' = 0
    /\ started' = [latest |-> 0, previous |-> started.latest]

\* New makes an empty lastSeenPerDevice, whose minimum is 0, before any reading of
\* the wall clock; Run ticks at once, without a ticker.
Start ==
    /\ pc = "off"
    /\ RoundBegins
    /\ lead' = Oldest
    /\ quiet' = 0
    /\ setBack' = 0
    /\ published' = FALSE
    /\ UNCHANGED <<due, ready, offset, age, stampOffset>>

\* Mock.Devices: the devices are there from Init to Close.
ReadDevices ==
    /\ pc = "devices"
    /\ pc' = "samples"
    /\ UNCHANGED <<spent, due, ready, lead, offset, age, stampOffset,
                   published, quiet, setBack, started>>

\* Mock.ProcessSamples has nothing to give when lastSeenNs >= tsNs.
NothingNewSoon == lead + 2 * Interval >= 0                        \* variant
NothingNew     == lead >= 0

\* Otherwise every process gets a sample stamped with the wall clock, on every
\* device, and the poller's watermarks all move up to that stamp.
ReadSamples ==
    /\ pc = "samples"
    /\ pc' = "meta"
    /\ IF NothingNew
         THEN UNCHANGED <<lead, quiet, setBack>>
         ELSE lead' = 0 /\ quiet' = 0 /\ setBack' = 0
    /\ UNCHANGED <<spent, due, ready, offset, age, stampOffset, published, started>>

NewTickerLong == Interval + 1                                     \* variant
NewTicker     == Interval

\* gpu_meta is written on an empty round too.
StampIfSampled == quiet <= spent                                  \* variant
Stamped        == TRUE

\* The round ends with UpdateMeta; the first one is followed by NewTicker.
WriteMeta ==
    /\ pc = "meta"
    /\ pc' = "select"
    /\ spent' = 0
    /\ due' = IF due = 0 THEN NewTicker ELSE due
    /\ IF Stamped
         THEN age' = 0 /\ stampOffset' = offset /\ published' = TRUE
         ELSE UNCHANGED <<age, stampOffset, published>>
    /\ UNCHANGED <<ready, lead, offset, quiet, setBack, started>>

TickKept  == ready                                                \* variant
TickTaken == FALSE

\* select takes the tick.
SelectTick ==
    /\ pc = "select"
    /\ ready
    /\ ready' = TickTaken
    /\ RoundBegins
    /\ UNCHANGED <<due, lead, offset, age, stampOffset, published, quiet, setBack>>

\* The bridge ends, by a signal that select sees or by a kill anywhere.
Stop ==
    /\ pc # "off"
    /\ pc' = "off"
    /\ spent' = 0
    /\ due' = 0
    /\ ready' = FALSE
    /\ UNCHANGED <<lead, offset, age, stampOffset, published, quiet, setBack, started>>

-----------------------------------------------------------------------------
(* Time.                                                                   *)

\* The ticker fires every Interval, and drops the tick when the last one is still
\* in its channel.
TickerRuns ==
    /\ due' = IF due > 1 THEN due - 1 ELSE IF due = 1 THEN Interval ELSE 0
    /\ ready' = (ready \/ due = 1)

\* Time passes: at most MaxRound in a round, and none while the loop could take a
\* tick (the goroutine is scheduled at once).
TimePasses ==
    /\ InRound => spent < MaxRound
    /\ pc = "select" => ~ready
    /\ spent' = IF InRound THEN spent + 1 ELSE 0
    /\ TickerRuns
    /\ lead' = AtLeast(lead - 1, Oldest)
    /\ age' = Older(age)
    /\ quiet' = Older(quiet)
    /\ started' = [latest |-> Older(started.latest), previous |-> Older(started.previous)]
    /\ UNCHANGED <<pc, offset, stampOffset, published, setBack>>

\* Somebody sets the wall clock, forward or back.
ClockSet ==
    /\ \E o \in Offsets \ {offset} :
         /\ setBack + AtLeast(offset - o, 0) <= MaxBack
         /\ offset' = o
         /\ setBack' = setBack + AtLeast(offset - o, 0)
         /\ lead' = IF lead = Oldest THEN Oldest ELSE AtLeast(lead + offset - o, Oldest)
    /\ UNCHANGED <<pc, spent, due, ready, age, stampOffset, published, quiet, started>>

Round == ReadDevices \/ ReadSamples \/ WriteMeta

Next == Start \/ Round \/ SelectTick \/ Stop \/ TimePasses \/ ClockSet

Spec == Init /\ [][Next]_vars

-----------------------------------------------------------------------------

\* README.md:91 takes 2 * poll_interval for a threshold beyond which the bridge is
\* "dead or paused".  A running bridge that has advertised a round advertises the
\* next one within Interval + MaxRound, whatever the durations of its rounds, their
\* overlap with the ticker and the settings of the clock; that is within the
\* threshold as long as no round is longer than the interval (poller.go:83-104).
AdvertisedInTime ==
    pc # "off" /\ published => age <= Interval + MaxRound

\* Ticks missed during a long round are not made up for by a burst: a third round
\* never begins before Interval has passed since the first (poller.go:89, 96).
NoBurst ==
    [][pc = "select" /\ pc' = "devices" => started.previous >= Interval]_vars

\* The mock falls silent when the wall clock is set back behind the watermark
\* (mock.go:153), but for no longer than the clock was set back and the longest time
\* between the readings of two rounds, however often it is set meanwhile.
SilenceIsBounded ==
    pc # "off" => quiet <= setBack + Interval + 2 * MaxRound

\* What a consumer computes (README.md:375): the monotonic clock minus
\* last_update_ns, without a sign.
Difference == (age - stampOffset) % Width
JudgedStale == Difference > 2 * Interval

\* gpu_types.h:42-48 has last_update_ns in CLOCK_MONOTONIC and consumers "compare
\* last_update_ns against bpf_ktime_get_ns()": a bridge that advertises its rounds in
\* time is not judged dead.
LiveIsFresh == pc # "off" /\ published /\ age <= 2 * Interval => ~JudgedStale
=============================================================================
