-------------------------- MODULE CongestionWindow --------------------------
(***************************************************************************)
(* How flowcontrol.c computes the congestion window from the round trips   *)
(* it measures: HandleRTTPong, UpdateCongestion, and the closing of the    *)
(* window in rfbIsCongested.  All the arithmetic is that of unsigned       *)
(* numbers, modulo Word.  Round trips are in milliseconds; the window and  *)
(* the bytes in flight are in any unit that divides 4096 bytes, and Word   *)
(* is 2^32 in the same unit.                                               *)
(***************************************************************************)
EXTENDS MachineWord

CONSTANTS
  Minimum, Initial, Maximum,  \* MINIMUM_WINDOW, INITIAL_WINDOW, MAXIMUM_WINDOW
  Step,                       \* 4096 bytes
  RoundTrips,                 \* what msSince may return
  InFlights                   \* what RTTInfo.inFlight may hold

ASSUME CongestionWindowAssumption ==
  /\ Minimum \in Nat \ {0} /\ Initial \in Nat /\ Maximum \in Nat
  /\ Minimum <= Initial /\ Initial <= Maximum
  /\ Step \in Nat \ {0} /\ Step <= Minimum
  /\ Maximum + 2 * Step < Word
  /\ RoundTrips \subseteq 0 .. Word - 2 /\ InFlights \subseteq 0 .. Word - 1

VARIABLES congWindow, baseRTT, minRTT, seenCongestion

windowVars == <<congWindow, baseRTT, minRTT, seenCongestion>>

Unset == Word - 1

Least(a, b) == IF a < b THEN a ELSE b
Most(a, b) == IF a < b THEN b ELSE a
Minus(a, b) == (a - b) % Word

WindowInit ==
  /\ congWindow = Initial
  /\ baseRTT = Unset /\ minRTT = Unset
  /\ seenCongestion = FALSE

-----------------------------------------------------------------------------
\* Mutant: the compensated round trip may fall below the wire latency.
CompensateFreely(rtt, base, inFlight) ==
  LET delay == (((inFlight - congWindow) * base) % Word) \div congWindow
  IN  IF inFlight <= congWindow THEN rtt
      ELSE IF delay < rtt THEN rtt - delay ELSE 1

\* The round trip without the delay that overtaxed buffers have added, but
\* never less than the wire latency.
Compensate(rtt, base, inFlight) ==
  LET delay == (((inFlight - congWindow) * base) % Word) \div congWindow
  IN  IF inFlight <= congWindow THEN rtt
      ELSE Most(IF delay < rtt THEN rtt - delay ELSE 1, base)

\* HandleRTTPong.
HandleRTTPong(measured, inFlight) ==
  LET rtt  == Most(measured, 1)
      base == Least(rtt, baseRTT)
  IN  /\ baseRTT' = base
      /\ minRTT' = Least(Compensate(rtt, base, inFlight), minRTT)
      /\ seenCongestion' = (seenCongestion \/ inFlight > congWindow)
      /\ UNCHANGED congWindow

\* Mutant: the ratio of the round trips is inverted.
AdjustedInverted(diff) ==
  IF diff > Least(100, baseRTT)
  THEN ((congWindow * minRTT) % Word) \div baseRTT
  ELSE IF diff > Least(50, baseRTT \div 2) THEN Minus(congWindow, Step)
  ELSE IF diff < 5 THEN congWindow + 2 * Step
  ELSE congWindow

\* Way too fast, slightly too fast, way too slow, too slow, or about right.
Adjusted(diff) ==
  IF diff > Least(100, baseRTT)
  THEN ((congWindow * baseRTT) % Word) \div minRTT
  ELSE IF diff > Least(50, baseRTT \div 2) THEN Minus(congWindow, Step)
  ELSE IF diff < 5 THEN congWindow + 2 * Step
  ELSE IF diff < 25 THEN congWindow + Step
  ELSE congWindow

\* Mutant: the window is bounded from above only.
BoundedAbove(w) == Least(w, Maximum)

Bounded(w) == Least(Most(w, Minimum), Maximum)

\* Mutant: the next interval starts with the congestion of the last.
UpdateCongestionStillSeen ==
  /\ seenCongestion
  /\ congWindow' = Bounded(Adjusted(Minus(minRTT, baseRTT)))
  /\ minRTT' = Unset
  /\ UNCHANGED <<baseRTT, seenCongestion>>

\* UpdateCongestion, from congestionCallback.
UpdateCongestion ==
  /\ seenCongestion
  /\ congWindow' = Bounded(Adjusted(Minus(minRTT, baseRTT)))
  /\ minRTT' = Unset
  /\ seenCongestion' = FALSE
  /\ UNCHANGED baseRTT

\* rfbIsCongested finds that the link has been idle.
ReturnToInitial ==
  /\ congWindow' = Least(Initial, congWindow)
  /\ UNCHANGED <<baseRTT, minRTT, seenCongestion>>

WindowNext ==
  \/ \E measured \in RoundTrips, inFlight \in InFlights :
       HandleRTTPong(measured, inFlight)
  \/ UpdateCongestion
  \/ ReturnToInitial

WindowSpec == WindowInit /\ [][WindowNext]_windowVars

-----------------------------------------------------------------------------
\* The round trips are positive: minRTT divides.
WindowTypeOK ==
  /\ congWindow \in Nat
  /\ baseRTT \in 1 .. Unset /\ minRTT \in 1 .. Unset
  /\ seenCongestion \in BOOLEAN

(***************************************************************************)
(* The window stays within its limits although it is recomputed by         *)
(* unsigned products, quotients and differences.                           *)
(***************************************************************************)
WindowBounded == congWindow \in Minimum .. Maximum

(***************************************************************************)
(* The least round trip of an interval is never below the wire latency,    *)
(* although both are sampled at different times and the first is           *)
(* compensated for congestion: the unsigned difference from which          *)
(* UpdateCongestion decides never wraps.                                   *)
(***************************************************************************)
LatencyIsLeast == baseRTT <= minRTT

\* An interval in which congestion was seen has a measured round trip: the
\* window is never adjusted from the initial (unsigned)-1.
CongestionWasMeasured == seenCongestion => minRTT # Unset /\ baseRTT # Unset

(***************************************************************************)
(* "Way too fast": when the round trip has grown by more than the wire     *)
(* latency, or 100 ms, the window does not grow, even where the product    *)
(* of the window and the latency exceeds 32 bits.                          *)
(***************************************************************************)
WayTooFast == minRTT - baseRTT > Least(100, baseRTT)

SlowsDown == [][UpdateCongestion /\ WayTooFast => congWindow' <= congWindow]_windowVars
=============================================================================
