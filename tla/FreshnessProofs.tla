--------------------------- MODULE FreshnessProofs ---------------------------
(***************************************************************************)
(* TLAPS proofs about Freshness: for any interval, any bound on the        *)
(* duration of a round and any settings of the wall clock.                 *)
(***************************************************************************)
EXTENDS Freshness, TLAPS

(***************************************************************************)
(* The inductive invariant.  The three bounds speak of a moment only; each *)
(* needs to know how much of its allowance is used up by then.             *)
(***************************************************************************)

\* A tick in the channel comes from a ticker; while the loop waits it has one, and a
\* bridge that has ended has none.
TickerThere == /\ ready => due > 0
               /\ pc = "off" => due = 0
               /\ pc = "select" => due > 0 /\ published

\* A bridge that waits will be woken before Interval is over; one at work has used
\* the part of MaxRound it has spent.
AdvertiseProgress ==
    /\ pc = "select" => age <= Interval /\ (~ready => age + due <= Interval)
    /\ InRound /\ published => age <= Interval + spent

\* The watermark is ahead of the wall clock by no more than it was set back, less the
\* time that has passed since.
WatermarkLead == lead # Oldest => lead + quiet <= setBack

\* What is left of the silence at each place of the loop.
SilenceProgress ==
    /\ pc = "meta" => quiet <= setBack + spent
    /\ pc = "select" => quiet <= setBack + MaxRound + age
    /\ pc \in {"devices", "samples"} => quiet <= setBack + MaxRound + Interval + spent

\* The tick in the channel is later than the round before; the next tick will be.
TickSpacing ==
    /\ ready => started.latest + due >= Interval /\ started.previous >= Interval
    /\ ~ready /\ due > 0 => started.previous + due >= Interval

FInv == /\ TypeOK
        /\ TickerThere
        /\ AdvertiseProgress
        /\ WatermarkLead
        /\ SilenceProgress
        /\ TickSpacing

-----------------------------------------------------------------------------

LEMMA Arith == /\ Interval \in Int /\ Interval > 0
               /\ MaxRound \in Int /\ MaxRound >= 0
               /\ MaxBack \in Int /\ MaxBack >= 0
               /\ \A o \in Offsets : o \in Int
               /\ Horizon = 2 * (Interval + MaxRound + MaxBack) + 1
               /\ Oldest = -(MaxBack + 1)
  BY FreshnessAssumption DEF Horizon, Oldest

LEMMA InvInit == Init => FInv
<1> SUFFICES ASSUME Init PROVE FInv
  OBVIOUS
<1>1. TypeOK
  <2>1. ready \in BOOLEAN /\ published \in BOOLEAN
    BY DEF Init
  <2>2. 0 \in 0 .. Horizon /\ Horizon \in 0 .. Horizon /\ Oldest \in Oldest .. MaxBack
    BY Arith
  <2>3. 0 \in 0 .. MaxRound /\ 0 \in 0 .. Interval /\ 0 \in 0 .. MaxBack
    BY Arith
  <2> QED
    BY <2>1, <2>2, <2>3 DEF Init, TypeOK
<1>2. pc = "off" /\ ~ready /\ due = 0 /\ ~(due > 0) /\ lead = Oldest
  BY DEF Init
<1>3. TickerThere /\ AdvertiseProgress /\ WatermarkLead /\ SilenceProgress /\ TickSpacing
  BY <1>2 DEF TickerThere, AdvertiseProgress, WatermarkLead, SilenceProgress,
              TickSpacing, InRound
<1> QED
  BY <1>1, <1>3 DEF FInv

LEMMA InvStep == FInv /\ [Next]_vars => FInv'
<1> SUFFICES ASSUME FInv, [Next]_vars PROVE FInv'
  OBVIOUS
<1> USE Arith DEF FInv, TypeOK, InRound
<1>1. CASE Start
  <2> USE <1>1 DEF Start, RoundBegins
  <2>1. TypeOK'
    <3>1. ready' \in BOOLEAN /\ published' \in BOOLEAN
      OBVIOUS
    <3>2. 0 \in 0 .. Horizon /\ 0 \in 0 .. MaxRound /\ 0 \in 0 .. MaxBack
      OBVIOUS
    <3>3. 0 \in 0 .. Interval /\ Oldest \in Oldest .. MaxBack
      OBVIOUS
    <3> QED
      BY <3>1, <3>2, <3>3
  <2>2. TickerThere' /\ AdvertiseProgress' /\ WatermarkLead'
    BY DEF TickerThere, AdvertiseProgress, WatermarkLead
  <2>3. SilenceProgress'
    BY DEF SilenceProgress
  <2>4. TickSpacing'
    BY DEF TickSpacing, TickerThere
  <2> QED
    BY <2>1, <2>2, <2>3, <2>4
<1>2. CASE ReadDevices
  <2> USE <1>2 DEF ReadDevices
  <2>1. TypeOK'
    OBVIOUS
  <2>2. TickerThere' /\ AdvertiseProgress' /\ WatermarkLead'
    BY DEF TickerThere, AdvertiseProgress, WatermarkLead
  <2>3. SilenceProgress' /\ TickSpacing'
    BY DEF SilenceProgress, TickSpacing
  <2> QED
    BY <2>1, <2>2, <2>3
<1>3. CASE ReadSamples
  <2> USE <1>3 DEF ReadSamples, NothingNew
  <2>1. TypeOK'
    OBVIOUS
  <2>2. TickerThere' /\ AdvertiseProgress' /\ WatermarkLead'
    BY DEF TickerThere, AdvertiseProgress, WatermarkLead
  <2>3. SilenceProgress' /\ TickSpacing'
    BY DEF SilenceProgress, TickSpacing, WatermarkLead
  <2> QED
    BY <2>1, <2>2, <2>3
<1>4. CASE WriteMeta
  <2> USE <1>4 DEF WriteMeta, NewTicker, Stamped
  <2>1. TypeOK'
    OBVIOUS
  <2>2. TickerThere' /\ AdvertiseProgress' /\ WatermarkLead'
    BY DEF TickerThere, AdvertiseProgress, WatermarkLead
  <2>3. SilenceProgress' /\ TickSpacing'
    BY DEF SilenceProgress, TickSpacing, TickerThere
  <2> QED
    BY <2>1, <2>2, <2>3
<1>5. CASE SelectTick
  <2> USE <1>5 DEF SelectTick, RoundBegins, TickTaken
  <2>1. TypeOK'
    <3>1. ready' \in BOOLEAN /\ published' \in BOOLEAN
      OBVIOUS
    <3>2. 0 \in 0 .. Horizon /\ 0 \in 0 .. MaxRound /\ 0 \in 0 .. MaxBack
      OBVIOUS
    <3>3. 0 \in 0 .. Interval /\ Oldest \in Oldest .. MaxBack
      OBVIOUS
    <3> QED
      BY <3>1, <3>2, <3>3
  <2>2. TickerThere' /\ AdvertiseProgress' /\ WatermarkLead'
    BY DEF TickerThere, AdvertiseProgress, WatermarkLead
  <2>3. SilenceProgress' /\ TickSpacing'
    BY DEF SilenceProgress, TickSpacing, AdvertiseProgress
  <2> QED
    BY <2>1, <2>2, <2>3
<1>6. CASE Stop
  <2> USE <1>6 DEF Stop
  <2>1. TypeOK'
    <3>1. ready' \in BOOLEAN /\ published' \in BOOLEAN
      OBVIOUS
    <3>2. 0 \in 0 .. Horizon /\ 0 \in 0 .. MaxRound /\ 0 \in 0 .. MaxBack
      OBVIOUS
    <3>3. 0 \in 0 .. Interval /\ Oldest \in Oldest .. MaxBack
      OBVIOUS
    <3> QED
      BY <3>1, <3>2, <3>3
  <2>2. TickerThere' /\ AdvertiseProgress' /\ WatermarkLead'
    BY DEF TickerThere, AdvertiseProgress, WatermarkLead
  <2>3. SilenceProgress' /\ TickSpacing'
    BY DEF SilenceProgress, TickSpacing
  <2> QED
    BY <2>1, <2>2, <2>3
<1>7. CASE TimePasses
  <2> USE <1>7 DEF TimePasses, TickerRuns, Older, AtMost, AtLeast
  <2>1. TypeOK'
    OBVIOUS
  <2>2. TickerThere'
    BY DEF TickerThere
  <2>3. AdvertiseProgress'
    BY DEF AdvertiseProgress, TickerThere
  <2>4. WatermarkLead'
    BY DEF WatermarkLead
  <2>5. SilenceProgress'
    BY DEF SilenceProgress
  <2>6. TickSpacing'
    BY DEF TickSpacing, TickerThere
  <2> QED
    BY <2>1, <2>2, <2>3, <2>4, <2>5, <2>6
<1>8. CASE ClockSet
  <2>1. PICK o \in Offsets \ {offset} :
          /\ setBack + AtLeast(offset - o, 0) <= MaxBack
          /\ offset' = o
          /\ setBack' = setBack + AtLeast(offset - o, 0)
          /\ lead' = IF lead = Oldest THEN Oldest ELSE AtLeast(lead + offset - o, Oldest)
    BY <1>8 DEF ClockSet
  <2> USE <1>8, <2>1 DEF ClockSet, AtLeast
  <2>2. WatermarkLead'
    BY DEF WatermarkLead
  <2>3. TypeOK'
    BY <2>2 DEF WatermarkLead
  <2>4. TickerThere' /\ AdvertiseProgress' /\ TickSpacing'
    BY DEF TickerThere, AdvertiseProgress, TickSpacing
  <2>5. SilenceProgress'
    BY DEF SilenceProgress
  <2> QED
    BY <2>2, <2>3, <2>4, <2>5
<1>9. CASE UNCHANGED vars
  BY <1>9 DEF vars, TickerThere, AdvertiseProgress, WatermarkLead, SilenceProgress, TickSpacing
<1> QED
  BY <1>1, <1>2, <1>3, <1>4, <1>5, <1>6, <1>7, <1>8, <1>9 DEF Next, Round

LEMMA Invariance == Spec => []FInv
  BY InvInit, InvStep, PTL DEF Spec

-----------------------------------------------------------------------------

(***************************************************************************)
(* Every duration the loop remembers stays within its range, however the   *)
(* clock is set: the watermark of mock.go:153 is never further ahead of    *)
(* the wall clock than MaxBack.                                            *)
(***************************************************************************)
THEOREM TypeCorrect == Spec => []TypeOK
<1>1. FInv => TypeOK
  BY DEF FInv
<1> QED
  BY <1>1, Invariance, PTL

(***************************************************************************)
(* A running bridge advertises its rounds in time (poller.go:83-104),      *)
(* whatever the interval and the durations of the rounds.                  *)
(***************************************************************************)
THEOREM RoundsInTime == Spec => []AdvertisedInTime
<1>1. FInv => AdvertisedInTime
  BY Arith DEF FInv, TypeOK, AdvertiseProgress, AdvertisedInTime, InRound
<1> QED
  BY <1>1, Invariance, PTL

(***************************************************************************)
(* The mock is silent (mock.go:153) for no longer than the wall clock was  *)
(* set back and two rounds take, however often and however far it is set.  *)
(***************************************************************************)
THEOREM MockSpeaksAgain == Spec => []SilenceIsBounded
<1>1. FInv => SilenceIsBounded
  <2> SUFFICES ASSUME FInv, pc # "off" PROVE quiet <= setBack + Interval + 2 * MaxRound
    BY DEF SilenceIsBounded
  <2>1. age <= Interval \/ pc # "select"
    BY DEF FInv, AdvertiseProgress
  <2> QED
    BY <2>1, Arith DEF FInv, TypeOK, SilenceProgress
<1> QED
  BY <1>1, Invariance, PTL

(***************************************************************************)
(* Missed ticks do not make a burst of rounds (poller.go:89, 96).          *)
(***************************************************************************)
THEOREM RoundsAreSpaced == Spec => NoBurst
<1>1. FInv /\ [Next]_vars => [pc = "select" /\ pc' = "devices" => started.previous >= Interval]_vars
  BY DEF FInv, TickSpacing, Next, Round, Start, ReadDevices, ReadSamples, WriteMeta,
         SelectTick, Stop, TimePasses, ClockSet, vars
<1> QED
  BY <1>1, Invariance, PTL DEF Spec, NoBurst
=============================================================================
