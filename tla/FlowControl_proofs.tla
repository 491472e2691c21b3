------------------------- MODULE FlowControl_proofs -------------------------
(***************************************************************************)
(* Flow control for all windows, all sizes of messages and all word sizes: *)
(* what MCCongestionWindow and MCFlowControl check for a few of them.      *)
(*                                                                         *)
(* The first part is about the window.  The rest is about the link: the    *)
(* messages in each direction as sequences (FlowControl's toViewer and     *)
(* toServer), the pings among them, and what every operation of the server *)
(* and of the viewer does to them.  LinkInv holds of every link; OrderInv, *)
(* which also orders the offsets, as long as there is Room.                *)
(***************************************************************************)
EXTENDS FlowControl, CongestionWindow, SequenceTheorems, FiniteSetTheorems, TLAPS

-----------------------------------------------------------------------------
(***************************************************************************)
(* The congestion window (module CongestionWindow).                        *)
(***************************************************************************)
WindowInv == WindowTypeOK /\ WindowBounded /\ LatencyIsLeast /\
    CongestionWasMeasured

\* A remainder is a natural number no greater than the number itself.
LEMMA RemainderLeast ==
  ASSUME NEW a \in Nat, NEW b \in Nat \ {0}
  PROVE  a % b \in Nat /\ a % b <= a
OBVIOUS

\* Scaling a window down by a ratio of at most one does not enlarge it,
\* whatever the word drops of the product.
LEMMA ScaleDown ==
  ASSUME NEW w \in Nat, NEW b \in Nat, NEW m \in Nat \ {0}, b <= m,
         NEW W \in Nat \ {0}
  PROVE  /\ ((w * b) % W) \div m \in Nat
         /\ ((w * b) % W) \div m <= w
<1> DEFINE x == (w * b) % W
           q == x \div m
<1>1. w * b \in Nat /\ w * b <= w * m
  <2>1. PICK d \in Nat : m = b + d
    <3>1. m - b \in Nat /\ m = b + (m - b)
      OBVIOUS
    <3>. QED
      BY <3>1
  <2>2. w * m = w * b + w * d
    BY <2>1
  <2>3. w * b \in Nat /\ w * d \in Nat
    OBVIOUS
  <2>. QED
    BY <2>2, <2>3
<1>2. x \in Nat /\ x <= w * b
  BY <1>1, RemainderLeast
<1>3. q \in Nat /\ m * q <= x
  BY <1>2
<1>4. m * q <= m * w
  BY <1>1, <1>2, <1>3
<1>5. ASSUME q > w
      PROVE  FALSE
  <2>1. m * q >= m * (w + 1)
    BY <1>3, <1>5
  <2>2. m * (w + 1) = m * w + m
    OBVIOUS
  <2>. QED
    BY <1>3, <1>4, <2>1, <2>2
<1>. QED
  BY <1>3, <1>5

\* The compensated round trip lies between the wire latency and the one that
\* was measured.
LEMMA CompensateBetween ==
  ASSUME NEW rtt \in Nat, NEW base \in Nat \ {0}, base <= rtt,
         NEW inFlight \in 0 .. Word - 1, WindowBounded
  PROVE  Compensate(rtt, base, inFlight) \in base .. rtt
<1>1. CASE inFlight <= congWindow
  BY <1>1 DEF Compensate
<1>2. CASE ~(inFlight <= congWindow)
  <2> DEFINE excess == inFlight - congWindow
             x      == (excess * base) % Word
             delay  == x \div congWindow
  <2>1. congWindow \in Nat \ {0} /\ Word \in Nat \ {0} /\ excess \in Nat
    BY <1>2, WordAssumption, CongestionWindowAssumption DEF WindowBounded
  <2>2. excess * base \in Nat
    BY <2>1
  <2> HIDE DEF excess
  <2>3. x \in Nat
    BY <2>1, <2>2, RemainderLeast
  <2> HIDE DEF x
  <2>4. delay \in Nat
    BY <2>1, <2>3
  <2>5. Compensate(rtt, base, inFlight) =
          Most(IF delay < rtt THEN rtt - delay ELSE 1, base)
    BY <1>2 DEF Compensate, x, excess
  <2> HIDE DEF delay
  <2>. QED
    BY <2>4, <2>5 DEF Most
<1>. QED
  BY <1>1, <1>2

\* The adjusted window is a number, and one that is not larger than before when
\* the sender is way too fast.
LEMMA AdjustedLemma ==
  ASSUME WindowInv, NEW diff \in Nat
  PROVE  /\ Adjusted(diff) \in Nat
         /\ diff > Least(100, baseRTT) => Adjusted(diff) <= congWindow
<1>1. /\ congWindow \in Nat /\ baseRTT \in Nat /\ minRTT \in Nat \ {0}
      /\ baseRTT <= minRTT
      /\ Word \in Nat \ {0} /\ Step \in Nat
  BY WordAssumption, CongestionWindowAssumption
     DEF WindowInv, WindowTypeOK, LatencyIsLeast, Unset
<1> DEFINE scaled == ((congWindow * baseRTT) % Word) \div minRTT
<1>2. scaled \in Nat /\ scaled <= congWindow
  BY <1>1, ScaleDown
<1>3. Minus(congWindow, Step) \in Nat
  BY <1>1 DEF Minus
<1>4. congWindow + 2 * Step \in Nat /\ congWindow + Step \in Nat
  BY <1>1
<1>5. /\ diff > Least(100, baseRTT) => Adjusted(diff) = scaled
      /\ Adjusted(diff) \in {scaled, Minus(congWindow, Step),
                             congWindow + 2 * Step, congWindow + Step,
                             congWindow}
  BY DEF Adjusted
<1> HIDE DEF scaled
<1>. QED
  BY <1>1, <1>2, <1>3, <1>4, <1>5

\* The unsigned difference of the round trips is their difference.
LEMMA DifferenceLemma ==
  ASSUME WindowInv
  PROVE  /\ Minus(minRTT, baseRTT) = minRTT - baseRTT
         /\ minRTT - baseRTT \in Nat
<1>1. /\ minRTT - baseRTT \in 0 .. Word - 1
      /\ Word \in Nat \ {0}
  BY WordAssumption, CongestionWindowAssumption
     DEF WindowInv, WindowTypeOK, LatencyIsLeast, Unset
<1>. QED
  BY <1>1 DEF Minus

\* The initial window and the unmeasured round trips.
LEMMA WindowInitInv == WindowInit => WindowInv
<1> SUFFICES ASSUME WindowInit
             PROVE  WindowInv
  OBVIOUS
<1>1. Unset \in Nat /\ Unset \in 1 .. Unset
  BY WordAssumption, CongestionWindowAssumption DEF Unset
<1>2. Initial \in Nat /\ Initial \in Minimum .. Maximum
  BY WordAssumption, CongestionWindowAssumption
<1>3. /\ congWindow = Initial /\ baseRTT = Unset /\ minRTT = Unset
      /\ ~seenCongestion /\ seenCongestion \in BOOLEAN
  BY DEF WindowInit
<1>. QED
  BY <1>1, <1>2, <1>3
     DEF WindowInv, WindowTypeOK, WindowBounded, LatencyIsLeast, CongestionWasMeasured

\* A pong, an adjustment and the closing of the window keep the invariant.
LEMMA WindowNextInv == WindowInv /\ [WindowNext]_windowVars => WindowInv'
<1> SUFFICES ASSUME WindowInv, [WindowNext]_windowVars
             PROVE  WindowInv'
  OBVIOUS
<1> USE DEF WindowInv
<1>1. ASSUME NEW measured \in RoundTrips, NEW inFlight \in InFlights,
             HandleRTTPong(measured, inFlight)
      PROVE  WindowInv'
  <2> DEFINE rtt  == Most(measured, 1)
             base == Least(rtt, baseRTT)
             comp == Compensate(rtt, base, inFlight)
  <2>1. /\ rtt \in 1 .. Word - 2 /\ inFlight \in 0 .. Word - 1
        /\ Unset = Word - 1 /\ Word \in Nat
    BY WordAssumption, CongestionWindowAssumption DEF Most, Unset
  <2>2. base \in 1 .. Word - 2 /\ base <= rtt /\ base <= baseRTT
    BY <2>1 DEF WindowTypeOK, Least
  <2>3. /\ baseRTT' = base /\ minRTT' = Least(comp, minRTT)
        /\ seenCongestion' = (seenCongestion \/ inFlight > congWindow)
        /\ congWindow' = congWindow
    BY <1>1 DEF HandleRTTPong
  <2> HIDE DEF rtt, base
  <2>4. comp \in base .. rtt
    BY <2>1, <2>2, CompensateBetween, SMTT(40)
  <2> HIDE DEF comp
  <2>5. minRTT' \in 1 .. Word - 2 /\ base <= minRTT'
    BY <2>1, <2>2, <2>3, <2>4 DEF WindowTypeOK, LatencyIsLeast, Least
  <2>. QED
    BY <2>1, <2>2, <2>3, <2>5
       DEF WindowTypeOK, WindowBounded, LatencyIsLeast, CongestionWasMeasured
<1>2. CASE UpdateCongestion
  <2> DEFINE w == Adjusted(Minus(minRTT, baseRTT))
  <2>1. w \in Nat
    BY DifferenceLemma, AdjustedLemma
  <2>2. /\ congWindow' = Bounded(w) /\ minRTT' = Unset
        /\ ~seenCongestion' /\ seenCongestion' \in BOOLEAN
        /\ baseRTT' = baseRTT
    BY <1>2 DEF UpdateCongestion
  <2> HIDE DEF w
  <2>3. congWindow' \in Minimum .. Maximum
    BY <2>1, <2>2, WordAssumption, CongestionWindowAssumption
       DEF Bounded, Least, Most
  <2>4. congWindow' \in Nat
    BY <2>3, WordAssumption, CongestionWindowAssumption
  <2>5. Unset \in Nat /\ Unset \in 1 .. Unset
    BY WordAssumption, CongestionWindowAssumption DEF Unset
  <2>6. baseRTT \in 1 .. Unset /\ baseRTT <= Unset
    BY <2>5 DEF WindowTypeOK
  <2>. QED
    BY <2>2, <2>3, <2>4, <2>5, <2>6
       DEF WindowTypeOK, WindowBounded, LatencyIsLeast, CongestionWasMeasured
<1>3. CASE ReturnToInitial
  BY <1>3, WordAssumption, CongestionWindowAssumption
     DEF ReturnToInitial, WindowTypeOK, WindowBounded, LatencyIsLeast,
         CongestionWasMeasured, Least
<1>4. CASE UNCHANGED windowVars
  BY <1>4 DEF windowVars, WindowTypeOK, WindowBounded, LatencyIsLeast,
              CongestionWasMeasured
<1>. QED
  BY <1>1, <1>2, <1>3, <1>4 DEF WindowNext

(***************************************************************************)
(* The window keeps within MINIMUM_WINDOW and MAXIMUM_WINDOW.              *)
(***************************************************************************)
THEOREM WindowStaysBounded == WindowSpec => []WindowBounded
<1>1. WindowInv => WindowBounded
  BY DEF WindowInv
<1>. QED
  BY <1>1, WindowInitInv, WindowNextInv, PTL DEF WindowSpec

(***************************************************************************)
(* minRTT never falls below baseRTT, so that their unsigned difference is  *)
(* the delay that congestion has added.                                    *)
(***************************************************************************)
THEOREM LatencyStaysLeast == WindowSpec => []LatencyIsLeast
<1>1. WindowInv => LatencyIsLeast
  BY DEF WindowInv
<1>. QED
  BY <1>1, WindowInitInv, WindowNextInv, PTL DEF WindowSpec

(***************************************************************************)
(* UpdateCongestion never enlarges the window of a link whose round trip   *)
(* has grown too much.                                                     *)
(***************************************************************************)
THEOREM NeverSpeedsUpWhenTooFast == WindowSpec => SlowsDown
<1>1. ASSUME WindowInv, UpdateCongestion, WayTooFast
      PROVE  congWindow' <= congWindow
  <2> DEFINE w == Adjusted(minRTT - baseRTT)
  <2>1. w \in Nat /\ w <= congWindow
    BY <1>1, DifferenceLemma, AdjustedLemma DEF WayTooFast
  <2>2. congWindow' = Bounded(w)
    BY <1>1, DifferenceLemma DEF UpdateCongestion
  <2>3. congWindow \in Minimum .. Maximum
    BY <1>1 DEF WindowInv, WindowBounded
  <2> HIDE DEF w
  <2>. QED
    BY <2>1, <2>2, <2>3, WordAssumption, CongestionWindowAssumption
       DEF Bounded, Least, Most
<1>2. WindowInv /\ [WindowNext]_windowVars =>
        [UpdateCongestion /\ WayTooFast => congWindow' <= congWindow]_windowVars
  BY <1>1
<1>. QED
  BY <1>2, WindowInitInv, WindowNextInv, PTL DEF WindowSpec, SlowsDown

(***************************************************************************)
(* The window and the round trips are unsigned numbers of one machine word *)
(* (rfb.h 431-434).                                                        *)
(***************************************************************************)
THEOREM WindowTyped == WindowSpec => []WindowTypeOK
<1>1. WindowInv => WindowTypeOK
  BY DEF WindowInv
<1>. QED
  BY <1>1, WindowInitInv, WindowNextInv, PTL DEF WindowSpec

(***************************************************************************)
(* The window is adjusted only by round trips that were measured           *)
(* (flowcontrol.c 57-64 and 212-219).                                      *)
(***************************************************************************)
THEOREM AdjustedOnceMeasured == WindowSpec => []CongestionWasMeasured
<1>1. WindowInv => CongestionWasMeasured
  BY DEF WindowInv
<1>. QED
  BY <1>1, WindowInitInv, WindowNextInv, PTL DEF WindowSpec

-----------------------------------------------------------------------------
(***************************************************************************)
(* The messages in each direction.                                         *)
(***************************************************************************)
Stamped(kind) == [kind: {kind}, offset: Offsets, inFlight: Offsets]
Sized ==
    [kind: {"update"}, size: UpdateSizes] \cup [kind: {"data"}, size: DataSizes]
Bare(kinds) == [kind: kinds]

ToViewer == Stamped("ping") \cup Sized \cup Bare({"probe", "reply", "endOfCU"})
ToServer == Stamped("pong") \cup [kind: {"request"}, incremental: BOOLEAN]
              \cup Bare({"encodings", "probed", "sync", "enable", "input"})

-----------------------------------------------------------------------------
(* Where the messages of a kind are when the sequence grows or shrinks. *)

\* The places of a kind are finitely many.
LEMMA PlacesFinite ==
  ASSUME NEW S, NEW q \in Seq(S), NEW kind
  PROVE  /\ Places(q, kind) \subseteq 1 .. Len(q)
         /\ IsFiniteSet(Places(q, kind))
         /\ Cardinality(Places(q, kind)) \in Nat
<1>1. Len(q) \in Nat /\ DOMAIN q = 1 .. Len(q)
  BY LenProperties
<1>2. Places(q, kind) \subseteq 1 .. Len(q)
  BY <1>1 DEF Places
<1>3. IsFiniteSet(1 .. Len(q))
  BY <1>1, FS_Interval
<1>. QED
  BY <1>2, <1>3, FS_Subset, FS_CardinalityType

\* A message that is appended adds its own place.
LEMMA PlacesAppend ==
  ASSUME NEW S, NEW q \in Seq(S), NEW m \in S, NEW kind
  PROVE  /\ m.kind = kind =>
              /\ Places(Append(q, m), kind) = Places(q, kind) \cup {Len(q) + 1}
              /\ Cardinality(Places(Append(q, m), kind)) =
                   Cardinality(Places(q, kind)) + 1
         /\ m.kind # kind => Places(Append(q, m), kind) = Places(q, kind)
<1> DEFINE a == Append(q, m)
<1>1. /\ Len(q) \in Nat /\ DOMAIN q = 1 .. Len(q)
      /\ DOMAIN a = 1 .. Len(q) + 1
      /\ \A i \in 1 .. Len(q) : a[i] = q[i]
      /\ a[Len(q) + 1] = m
  BY LenProperties, AppendProperties
<1> HIDE DEF a
<1>2. /\ m.kind = kind => Places(a, kind) = Places(q, kind) \cup {Len(q) + 1}
      /\ m.kind # kind => Places(a, kind) = Places(q, kind)
  BY <1>1 DEF Places
<1>3. Len(q) + 1 \notin Places(q, kind)
  BY <1>1 DEF Places
<1>4. m.kind = kind =>
        Cardinality(Places(a, kind)) = Cardinality(Places(q, kind)) + 1
  BY <1>2, <1>3, PlacesFinite, FS_AddElement
<1>. QED
  BY <1>2, <1>4 DEF a

\* The same for the answer to a ping.
LEMMA PongAppend ==
  ASSUME NEW q \in Seq(ToServer), NEW m \in ToServer, m.kind = "pong"
  PROVE  /\ Places(Append(q, m), "pong") = Places(q, "pong") \cup {Len(q) + 1}
         /\ Cardinality(Places(Append(q, m), "pong")) = Cardinality(Places(q, "pong")) + 1
<1> DEFINE S == ToServer
           kind == "pong"
<1>1. q \in Seq(S) /\ m \in S /\ m.kind = kind
  OBVIOUS
<1> HIDE DEF S, kind
<1>2. Places(Append(q, m), kind) = Places(q, kind) \cup {Len(q) + 1}
  BY <1>1, PlacesAppend
<1>3. Cardinality(Places(Append(q, m), kind)) = Cardinality(Places(q, kind)) + 1
  BY <1>1, PlacesAppend
<1>. QED
  BY <1>2, <1>3 DEF kind

\* Without its head a sequence has every other place, one to the left.
LEMMA PlacesTail ==
  ASSUME NEW S, NEW q \in Seq(S), q # <<>>, NEW kind
  PROVE  /\ Places(Tail(q), kind) = {i \in 1 .. Len(q) - 1 :
                i + 1 \in Places(q, kind)}
         /\ \A i \in Places(Tail(q), kind) : Tail(q)[i] = q[i + 1] /\
                i + 1 \in Places(q, kind)
         /\ \A i \in Places(q, kind) : i > 1 => i - 1 \in Places(Tail(q), kind)
         /\ 1 \in Places(q, kind) <=> Head(q).kind = kind
         /\ q[1] = Head(q)
         /\ Cardinality(Places(q, kind)) = Cardinality(Places(Tail(q), kind))
              + (IF Head(q).kind = kind THEN 1 ELSE 0)
<1> DEFINE t == Tail(q)
<1>1. /\ Len(q) \in Nat \ {0} /\ DOMAIN q = 1 .. Len(q)
      /\ DOMAIN t = 1 .. Len(q) - 1
      /\ \A i \in 1 .. Len(q) - 1 : t[i] = q[i + 1]
      /\ t \in Seq(S)
  BY LenProperties, HeadTailProperties, EmptySeq
<1>2. q[1] = Head(q)
  OBVIOUS
<1> HIDE DEF t
<1>3. Places(t, kind) = {i \in 1 .. Len(q) - 1 : i + 1 \in Places(q, kind)}
  BY <1>1 DEF Places
<1>4. \A i \in Places(q, kind) : i > 1 => i - 1 \in Places(t, kind)
  BY <1>1 DEF Places
<1>5. 1 \in Places(q, kind) <=> Head(q).kind = kind
  BY <1>1, <1>2 DEF Places
<1>6. Cardinality(Places(q, kind) \ {1}) = Cardinality(Places(t, kind))
  <2> DEFINE f == [i \in Places(t, kind) |-> i + 1]
  <2>1. f \in [Places(t, kind) -> Places(q, kind) \ {1}]
    BY <1>3
  <2>2. \A i, j \in Places(t, kind) : f[i] = f[j] => i = j
    BY <1>3
  <2>3. \A j \in Places(q, kind) \ {1} : \E i \in Places(t, kind) : f[i] = j
    <3> TAKE j \in Places(q, kind) \ {1}
    <3>1. j \in 1 .. Len(q) /\ j > 1
      BY <1>1 DEF Places
    <3>2. j - 1 \in Places(t, kind) /\ f[j - 1] = j
      BY <3>1, <1>4
    <3>. QED
      BY <3>2
  <2> HIDE DEF f
  <2>4. f \in Bijection(Places(t, kind), Places(q, kind) \ {1})
    BY <2>1, <2>2, <2>3 DEF Bijection, Injection, Surjection, IsInjective
  <2>5. IsFiniteSet(Places(t, kind))
    BY <1>1, PlacesFinite
  <2>. QED
    BY <2>4, <2>5, FS_Bijection DEF ExistsBijection
<1>7. Cardinality(Places(q, kind)) = Cardinality(Places(t, kind))
        + (IF Head(q).kind = kind THEN 1 ELSE 0)
  <2>1. IsFiniteSet(Places(q, kind)) /\ Cardinality(Places(q, kind)) \in Nat
    BY PlacesFinite
  <2>2. Cardinality(Places(q, kind) \ {1}) =
          IF 1 \in Places(q, kind) THEN Cardinality(Places(q, kind)) - 1
          ELSE Cardinality(Places(q, kind))
    BY <2>1, FS_RemoveElement
  <2>. QED
    BY <2>1, <2>2, <1>5, <1>6
<1>. QED
  BY <1>1, <1>2, <1>3, <1>4, <1>5, <1>7 DEF t

\* What is added holds no message of the kind.
LEMMA PlacesConcat ==
  ASSUME NEW S, NEW q \in Seq(S), NEW e \in Seq(S), NEW kind,
         \A i \in 1 .. Len(e) : e[i].kind # kind
  PROVE  /\ Places(q \o e, kind) = Places(q, kind)
         /\ \A i \in Places(q, kind) : (q \o e)[i] = q[i]
<1>1. /\ Len(q) \in Nat /\ DOMAIN q = 1 .. Len(q) /\ Len(e) \in Nat
      /\ DOMAIN (q \o e) = 1 .. Len(q) + Len(e)
      /\ \A i \in 1 .. Len(q) + Len(e) : (q \o e)[i] =
           IF i <= Len(q) THEN q[i] ELSE e[i - Len(q)]
  BY LenProperties, ConcatProperties
<1>2. \A i \in 1 .. Len(q) + Len(e) : i > Len(q) => (q \o e)[i].kind # kind
  BY <1>1
<1>. QED
  BY <1>1, <1>2 DEF Places

-----------------------------------------------------------------------------
(***************************************************************************)
(* The server's operations on a record and the messages it has written.    *)
(***************************************************************************)
ServerRecord ==
  [fence: BOOLEAN, sock: Offsets, sent: Offsets, acked: Offsets,
   window: Windows, pings: Nat, measured: BOOLEAN, seen: BOOLEAN,
   timer: BOOLEAN, idle: BOOLEAN, pendingSync: BOOLEAN,
   modified: BOOLEAN, requested: BOOLEAN, continuous: BOOLEAN,
   deferred: BOOLEAN, retry: BOOLEAN]

Pair == [s: ServerRecord, out: Seq(ToViewer)]

\* Two records that agree on what was written, sent and acknowledged.
SameLink(c, d) ==
  /\ d.fence = c.fence /\ d.sock = c.sock /\ d.sent = c.sent
  /\ d.acked = c.acked /\ d.pings = c.pings /\ d.measured = c.measured

\* What writing leaves alone.
SameButWritten(c, d) ==
  /\ d.fence = c.fence /\ d.sent = c.sent /\ d.acked = c.acked
  /\ d.pings = c.pings /\ d.measured = c.measured
  /\ d.window = c.window

\* A remainder is a number below the divisor.
LEMMA RemainderIn ==
  ASSUME NEW a \in Int, NEW W \in Nat \ {0}
  PROVE  a % W \in 0 .. W - 1
OBVIOUS

\* A distance between offsets is an offset.
LEMMA BeforeType ==
  ASSUME NEW a \in Offsets, NEW b \in Offsets
  PROVE  Before(a, b) \in Offsets
<1>1. b - a \in Int
  BY WordAssumption DEF Offsets
<1>. QED
  BY <1>1, WordAssumption, RemainderIn DEF Before, Offsets

\* The bytes of a message.
LEMMA SizeType ==
  ASSUME NEW m \in ToViewer
  PROVE  /\ Size(m) \in Nat
         /\ m.kind = "ping" => Size(m) = FenceSize
         /\ m.kind \in {"update", "data"} => Size(m) = m.size
         /\ m.kind \in {"probe", "reply"} => Size(m) = FenceSize
         /\ m.kind = "endOfCU" => Size(m) = 0
  BY FlowControlAssumption DEF ToViewer, Stamped, Sized, Bare, Size

\* What writing a message does.
LEMMA WriteFacts ==
  ASSUME NEW p \in Pair, NEW m \in ToViewer
  PROVE  /\ Write(p, m) \in Pair
         /\ Write(p, m).out = Append(p.out, m)
         /\ Write(p, m).s = [p.s EXCEPT !.sock = (p.s.sock + Size(m)) % Word,
                                        !.idle = FALSE]
         /\ SameButWritten(p.s, Write(p, m).s)
         /\ Write(p, m).s.sock = (p.s.sock + Size(m)) % Word
<1>1. p.s \in ServerRecord /\ p.out \in Seq(ToViewer)
  BY DEF Pair
<1>2. (p.s.sock + Size(m)) % Word \in Offsets
  <2>1. p.s.sock + Size(m) \in Int
    BY <1>1, SizeType, WordAssumption DEF ServerRecord, Offsets
  <2>. QED
    BY <2>1, WordAssumption, RemainderIn DEF Offsets
<1>3. Append(p.out, m) \in Seq(ToViewer)
  BY <1>1, AppendProperties
<1> DEFINE o == (p.s.sock + Size(m)) % Word
           c == [p.s EXCEPT !.sock = o, !.idle = FALSE]
<1>4. Write(p, m) = [s |-> c, out |-> Append(p.out, m)]
  BY DEF Write
<1> HIDE DEF o
<1>5. c \in ServerRecord /\ SameButWritten(p.s, c) /\ c.sock = o
  BY <1>1, <1>2 DEF ServerRecord, SameButWritten, o
<1> HIDE DEF c
<1>6. /\ Write(p, m).s = c /\ Write(p, m).out = Append(p.out, m)
      /\ Write(p, m) \in Pair
  BY <1>3, <1>4, <1>5 DEF Pair
<1>. QED
  BY <1>5, <1>6 DEF c, o

\* A ping is a message to the viewer.
LEMMA PingType ==
  ASSUME NEW a \in Offsets, NEW b \in Offsets
  PROVE  Ping(a, b) \in ToViewer /\ Ping(a, b).kind = "ping" /\
             Ping(a, b).offset = a
  BY DEF Ping, ToViewer, Stamped

\* What a ping does.
LEMMA PingFacts ==
  ASSUME NEW p \in Pair, p.s.fence
  PROVE  LET ping == Ping(p.s.sock, Before(p.s.acked, p.s.sock))
         IN  /\ ping \in ToViewer
             /\ SendPing(p) \in Pair
             /\ SendPing(p).out = Append(p.out, ping)
             /\ SendPing(p).s =
                  [p.s EXCEPT !.sock = (p.s.sock + FenceSize) % Word,
                              !.idle = FALSE,
                              !.pings = p.s.pings + 1,
                              !.sent = p.s.sock,
                              !.timer = TRUE]
             /\ SendPing(p).s.sock = (p.s.sock + FenceSize) % Word
             /\ SendPing(p).s.pings = p.s.pings + 1
             /\ SendPing(p).s.sent = p.s.sock
             /\ SendPing(p).s.fence = p.s.fence
             /\ SendPing(p).s.acked = p.s.acked
             /\ SendPing(p).s.measured = p.s.measured
             /\ SendPing(p).s.window = p.s.window
<1> DEFINE ping == Ping(p.s.sock, Before(p.s.acked, p.s.sock))
           w == Write(p, ping)
<1>1. p.s.sock \in Offsets /\ p.s.acked \in Offsets /\ p.s.pings \in Nat
  BY DEF Pair, ServerRecord
<1>2. ping \in ToViewer /\ ping.kind = "ping"
  BY <1>1, BeforeType, PingType, SMTT(40)
<1>3. SendPing(p) = [w EXCEPT !.s.pings = @ + 1, !.s.sent = p.s.sock, !.s.timer = TRUE]
  BY DEF SendPing
<1> HIDE DEF ping
<1>4. /\ w \in Pair /\ w.out = Append(p.out, ping)
      /\ w.s = [p.s EXCEPT !.sock = (p.s.sock + FenceSize) % Word, !.idle = FALSE]
  <2>1. Size(ping) = FenceSize
    BY <1>2, SizeType
  <2>2. /\ w \in Pair /\ w.out = Append(p.out, ping)
        /\ w.s = [p.s EXCEPT !.sock = (p.s.sock + Size(ping)) % Word, !.idle = FALSE]
    BY <1>2, WriteFacts
  <2>. QED
    BY <2>1, <2>2
<1> HIDE DEF w
<1>5. /\ SendPing(p).out = w.out
      /\ SendPing(p).s = [w.s EXCEPT !.pings = w.s.pings + 1, !.sent = p.s.sock, !.timer = TRUE]
      /\ SendPing(p) = [s |-> SendPing(p).s, out |-> SendPing(p).out]
  BY <1>3, <1>4 DEF Pair
<1>6. w.s.pings = p.s.pings
  BY <1>4 DEF Pair, ServerRecord
<1>7. SendPing(p).s \in ServerRecord
  <2>1. w.s \in ServerRecord /\ w.s.pings + 1 \in Nat
    BY <1>1, <1>4, <1>6 DEF Pair
  <2>. QED
    BY <1>1, <1>5, <2>1, ZenonT(60) DEF ServerRecord
<1>8. SendPing(p).s = [p.s EXCEPT !.sock = (p.s.sock + FenceSize) % Word,
                              !.idle = FALSE,
                              !.pings = p.s.pings + 1,
                              !.sent = p.s.sock,
                              !.timer = TRUE]
  BY <1>4, <1>5, <1>6 DEF Pair, ServerRecord
<1>9. /\ SendPing(p).s.sock = (p.s.sock + FenceSize) % Word
      /\ SendPing(p).s.pings = p.s.pings + 1
      /\ SendPing(p).s.sent = p.s.sock
      /\ SendPing(p).s.fence = p.s.fence
      /\ SendPing(p).s.acked = p.s.acked
      /\ SendPing(p).s.measured = p.s.measured
      /\ SendPing(p).s.window = p.s.window
  <2> DEFINE c == p.s
             d == SendPing(p).s
             o == (p.s.sock + FenceSize) % Word
             k == p.s.pings + 1
  <2>1. c \in ServerRecord
    BY DEF Pair
  <2>2. d = [c EXCEPT !.sock = o, !.idle = FALSE, !.pings = k, !.sent = c.sock,
                      !.timer = TRUE]
    BY <1>8
  <2> HIDE DEF c, d, o, k
  <2>3. /\ d.sock = o /\ d.pings = k /\ d.sent = c.sock /\ d.fence = c.fence
        /\ d.acked = c.acked /\ d.measured = c.measured /\ d.window = c.window
    BY <2>1, <2>2 DEF ServerRecord
  <2>. QED
    BY <2>3 DEF c, d, o, k
<1>. QED
  BY <1>2, <1>4, <1>5, <1>7, <1>8, <1>9 DEF Pair, ping

-----------------------------------------------------------------------------
(***************************************************************************)
(* The invariant, of a record c, the messages out to the viewer and the    *)
(* messages in to the server.                                              *)
(***************************************************************************)
Counted(c, out, in) ==
  c.pings = Cardinality(Places(in, "pong")) + Cardinality(Places(out, "ping"))

LastSent(c, out, in) ==
  /\ \A i \in Places(out, "ping") :
       (\A j \in Places(out, "ping") : j <= i) => out[i].offset = c.sent
  /\ Places(out, "ping") = {} => \A i \in Places(in, "pong") :
       (\A j \in Places(in, "pong") : j <= i) => in[i].offset = c.sent
  /\ Places(out, "ping") = {} /\ Places(in, "pong") = {} /\ c.measured =>
       c.sent = c.acked

Account(c, out, in) == Counted(c, out, in) /\ LastSent(c, out, in)

\* The account is about the link only.
LEMMA AccountSameLink ==
  ASSUME NEW c, NEW d, NEW out, NEW in, SameLink(c, d), Account(c, out, in)
  PROVE  Account(d, out, in)
BY DEF Account, Counted, LastSent, SameLink

\* Writing anything but a ping does not change it.
LEMMA AccountWrite ==
  ASSUME NEW p \in Pair, NEW m \in ToViewer, m.kind # "ping", NEW in,
         Account(p.s, p.out, in)
  PROVE  Account(Write(p, m).s, Write(p, m).out, in)
<1> DEFINE out == Append(p.out, m)
<1>1. /\ Places(out, "ping") = Places(p.out, "ping")
      /\ \A i \in Places(p.out, "ping") : out[i] = p.out[i]
  <2>1. p.out \in Seq(ToViewer)
    BY DEF Pair
  <2>2. Places(out, "ping") = Places(p.out, "ping")
    BY <2>1, PlacesAppend
  <2>3. \A i \in Places(p.out, "ping") : out[i] = p.out[i]
    BY <2>1, PlacesFinite
  <2>. QED
    BY <2>2, <2>3
<1>2. /\ Write(p, m).out = out
      /\ Write(p, m).s.pings = p.s.pings
      /\ Write(p, m).s.sent = p.s.sent
      /\ Write(p, m).s.acked = p.s.acked
      /\ Write(p, m).s.measured = p.s.measured
  BY WriteFacts DEF SameButWritten
<1> HIDE DEF out
<1>. QED
  BY <1>1, <1>2 DEF Account, Counted, LastSent

\* A ping adds one to it, and becomes the last.
LEMMA AccountPing ==
  ASSUME NEW p \in Pair, p.s.fence, NEW in \in Seq(ToServer),
         Account(p.s, p.out, in)
  PROVE  Account(SendPing(p).s, SendPing(p).out, in)
<1> DEFINE ping == Ping(p.s.sock, Before(p.s.acked, p.s.sock))
           out  == Append(p.out, ping)
           n    == Len(p.out) + 1
<1>1. /\ ping \in ToViewer /\ ping.kind = "ping" /\ ping.offset = p.s.sock
      /\ SendPing(p).out = out
      /\ SendPing(p).s.pings = p.s.pings + 1
      /\ SendPing(p).s.sent = p.s.sock
  <2>1. p.s.sock \in Offsets /\ p.s.acked \in Offsets
    BY DEF Pair, ServerRecord
  <2>2. ping \in ToViewer /\ ping.kind = "ping" /\ ping.offset = p.s.sock
    BY <2>1, PingType, BeforeType
  <2>3. /\ SendPing(p).out = out
        /\ SendPing(p).s.pings = p.s.pings + 1
        /\ SendPing(p).s.sent = p.s.sock
    BY PingFacts
  <2>. QED
    BY <2>2, <2>3
<1>2. p.out \in Seq(ToViewer)
  BY DEF Pair
<1> HIDE DEF ping
<1>3. /\ Places(out, "ping") = Places(p.out, "ping") \cup {n}
      /\ Cardinality(Places(out, "ping")) = Cardinality(Places(p.out, "ping")) + 1
      /\ out[n] = ping
  <2>1. /\ Places(out, "ping") = Places(p.out, "ping") \cup {n}
        /\ Cardinality(Places(out, "ping")) = Cardinality(Places(p.out, "ping")) + 1
    <3>1. ping \in ToViewer /\ ping.kind = "ping"
      BY <1>1
    <3> DEFINE q == p.out
    <3>2. q \in Seq(ToViewer)
      BY <1>2
    <3> HIDE DEF q
    <3>3. /\ Places(Append(q, ping), "ping") = Places(q, "ping") \cup {Len(q) + 1}
          /\ Cardinality(Places(Append(q, ping), "ping")) = Cardinality(Places(q, "ping")) + 1
      BY <3>1, <3>2, PlacesAppend, SMTT(40)
    <3>. QED
      BY <3>3 DEF q
  <2>2. out[n] = ping
    BY <1>2
  <2>. QED
    BY <2>1, <2>2
<1>4. Places(p.out, "ping") \subseteq 1 .. Len(p.out) /\ Len(p.out) \in Nat
  BY <1>2, PlacesFinite, LenProperties
<1>5. Cardinality(Places(p.out, "ping")) \in Nat /\
          Cardinality(Places(in, "pong")) \in Nat
  BY <1>2, PlacesFinite
<1> HIDE DEF out
<1>6. Counted(SendPing(p).s, out, in)
  BY <1>1, <1>3, <1>5 DEF Account, Counted
<1>7. LastSent(SendPing(p).s, out, in)
  <2>1. \A i \in Places(out, "ping") :
          (\A j \in Places(out, "ping") : j <= i) => i = n
    <3>1. \A i \in Places(p.out, "ping") : i \in Nat /\ ~(n <= i)
      BY <1>4
    <3>. QED
      BY <1>3, <3>1
  <2>2. Places(out, "ping") # {}
    BY <1>3
  <2>. QED
    BY <1>1, <1>3, <2>1, <2>2 DEF LastSent
<1>. QED
  BY <1>1, <1>6, <1>7 DEF Account

\* What the server reads, when it is no pong.
LEMMA AccountTail ==
  ASSUME NEW c, NEW out, NEW in \in Seq(ToServer), in # <<>>,
         Head(in).kind # "pong", Account(c, out, in)
  PROVE  Account(c, out, Tail(in))
<1> DEFINE t == Tail(in)
<1>1. /\ \A i \in Places(t, "pong") : t[i] = in[i + 1] /\
             i + 1 \in Places(in, "pong")
      /\ \A i \in Places(in, "pong") : i > 1 => i - 1 \in Places(t, "pong")
      /\ 1 \notin Places(in, "pong")
      /\ Cardinality(Places(in, "pong")) = Cardinality(Places(t, "pong"))
  <2>1. Cardinality(Places(t, "pong")) \in Nat
    BY HeadTailProperties, PlacesFinite
  <2>. QED
    BY <2>1, PlacesTail
<1>2. /\ Places(in, "pong") \subseteq 1 .. Len(in) /\
             Places(t, "pong") \subseteq 1 .. Len(t)
      /\ Len(in) \in Nat /\ Len(t) \in Nat
  BY HeadTailProperties, PlacesFinite, LenProperties
<1> HIDE DEF t
<1>3. \A i \in Places(in, "pong") : i \in Nat /\ i > 1
  BY <1>1, <1>2
<1>4. Places(t, "pong") = {} <=> Places(in, "pong") = {}
  BY <1>1, <1>3
<1>5. \A i \in Places(t, "pong") :
        (\A j \in Places(t, "pong") : j <= i) =>
          \A j \in Places(in, "pong") : j <= i + 1
  BY <1>1, <1>2, <1>3
<1>. QED
  BY <1>1, <1>4, <1>5 DEF Account, Counted, LastSent, t

\* What the viewer reads, when it is no ping, and what it writes, when it is
\* no pong.
LEMMA AccountRead ==
  ASSUME NEW c, NEW out \in Seq(ToViewer), out # <<>>, Head(out).kind # "ping",
         NEW in \in Seq(ToServer), NEW e \in Seq(ToServer),
         \A i \in 1 .. Len(e) : e[i].kind # "pong",
         Account(c, out, in)
  PROVE  Account(c, Tail(out), in \o e)
<1> DEFINE t == Tail(out)
           in2 == in \o e
<1>1. /\ \A i \in Places(t, "ping") : t[i] = out[i + 1] /\
             i + 1 \in Places(out, "ping")
      /\ \A i \in Places(out, "ping") : i > 1 => i - 1 \in Places(t, "ping")
      /\ 1 \notin Places(out, "ping")
      /\ Cardinality(Places(out, "ping")) = Cardinality(Places(t, "ping"))
  <2>1. Cardinality(Places(t, "ping")) \in Nat
    BY HeadTailProperties, PlacesFinite
  <2>. QED
    BY <2>1, PlacesTail
<1>2. /\ Places(out, "ping") \subseteq 1 .. Len(out) /\
             Places(t, "ping") \subseteq 1 .. Len(t)
      /\ Len(out) \in Nat /\ Len(t) \in Nat
  BY HeadTailProperties, PlacesFinite, LenProperties
<1>3. /\ Places(in2, "pong") = Places(in, "pong")
      /\ \A i \in Places(in, "pong") : in2[i] = in[i]
  BY PlacesConcat, ZenonT(60)
<1> HIDE DEF t, in2
<1>4. \A i \in Places(out, "ping") : i \in Nat /\ i > 1
  BY <1>1, <1>2
<1>5. Places(t, "ping") = {} <=> Places(out, "ping") = {}
  BY <1>1, <1>4
<1>6. \A i \in Places(t, "ping") :
        (\A j \in Places(t, "ping") : j <= i) =>
          \A j \in Places(out, "ping") : j <= i + 1
  BY <1>1, <1>2, <1>4
<1>. QED
  BY <1>1, <1>3, <1>5, <1>6, ZenonT(60) DEF Account, Counted, LastSent, t, in2

\* What the server reads, when it is a pong.
LEMMA AccountPong ==
  ASSUME NEW c, NEW d, NEW out \in Seq(ToViewer), NEW in \in Seq(ToServer), in # <<>>,
         Head(in).kind = "pong", Account(c, out, in),
         d.pings = c.pings - 1, d.sent = c.sent, d.acked = Head(in).offset
  PROVE  Account(d, out, Tail(in)) /\ d.pings \in Nat
<1> DEFINE t == Tail(in)
           pongs == Places(in, "pong")
           rest == Places(t, "pong")
<1>1. /\ \A i \in rest : t[i] = in[i + 1] /\ i + 1 \in pongs
      /\ \A i \in pongs : i > 1 => i - 1 \in rest
      /\ 1 \in pongs /\ in[1] = Head(in)
      /\ Cardinality(pongs) = Cardinality(rest) + 1
  BY PlacesTail
<1>2. /\ pongs \subseteq 1 .. Len(in) /\ rest \subseteq 1 .. Len(t)
      /\ Len(in) \in Nat /\ Len(t) \in Nat
      /\ Cardinality(rest) \in Nat /\ Cardinality(Places(out, "ping")) \in Nat
  BY HeadTailProperties, PlacesFinite, LenProperties
<1>3. \A i \in pongs : i \in Nat /\ i >= 1
  BY <1>2
<1>4. \A i \in rest : i \in Nat
  BY <1>2
<1> HIDE DEF t, pongs, rest
<1>5. Counted(d, out, t) /\ d.pings \in Nat
  BY <1>1, <1>2 DEF Account, Counted, pongs, rest
<1>6. \A i \in rest : (\A j \in rest : j <= i) => \A j \in pongs : j <= i + 1
  BY <1>1, <1>3, <1>4
<1>7. rest = {} => \A j \in pongs : j <= 1
  BY <1>1, <1>3
<1>8. LastSent(d, out, t)
  BY <1>1, <1>6, <1>7 DEF Account, LastSent, pongs, rest
<1>. QED
  BY <1>5, <1>8 DEF Account, t

\* What the viewer reads, when it is a ping.
LEMMA AccountAnswer ==
  ASSUME NEW c, NEW out \in Seq(ToViewer), out # <<>>, Head(out).kind = "ping",
         NEW in \in Seq(ToServer), NEW pong \in ToServer,
         pong.kind = "pong", pong.offset = Head(out).offset,
         Account(c, out, in)
  PROVE  Account(c, Tail(out), Append(in, pong))
<1>0. /\ Places(Append(in, pong), "pong") = Places(in, "pong") \cup {Len(in) + 1}
      /\ Cardinality(Places(Append(in, pong), "pong")) = Cardinality(Places(in, "pong")) + 1
  BY PongAppend
<1> DEFINE t == Tail(out)
           a == Append(in, pong)
           n == Len(in) + 1
           pings == Places(out, "ping")
           rest  == Places(t, "ping")
           pongs == Places(in, "pong")
           more  == Places(a, "pong")
<1>1. /\ \A i \in rest : t[i] = out[i + 1] /\ i + 1 \in pings
      /\ \A i \in pings : i > 1 => i - 1 \in rest
      /\ 1 \in pings /\ out[1] = Head(out)
      /\ Cardinality(pings) = Cardinality(rest) + 1
  BY PlacesTail
<1>2. /\ more = pongs \cup {n}
      /\ Cardinality(more) = Cardinality(pongs) + 1
  BY <1>0
<1>3. a[n] = pong
  OBVIOUS
<1>4. /\ pings \subseteq 1 .. Len(out) /\ rest \subseteq 1 .. Len(t)
      /\ pongs \subseteq 1 .. Len(in) /\ Len(in) \in Nat
      /\ Len(out) \in Nat /\ Len(t) \in Nat
      /\ Cardinality(rest) \in Nat /\ Cardinality(pongs) \in Nat
  BY HeadTailProperties, PlacesFinite, LenProperties
<1> HIDE DEF t, pings, rest, pongs, more, a
<1>5. Counted(c, t, a)
  BY <1>1, <1>2, <1>4 DEF Account, Counted, pings, rest, pongs, more
<1>6. \A i \in pings : i \in Nat /\ i >= 1
  BY <1>4
<1>7. \A i \in rest : i \in Nat
  BY <1>4
<1>8. \A i \in rest : (\A j \in rest : j <= i) => \A j \in pings : j <= i + 1
  BY <1>1, <1>6, <1>7
<1>9. rest = {} => \A j \in pings : j <= 1
  BY <1>1, <1>6
<1>10. \A i \in more : (\A j \in more : j <= i) => i = n
  BY <1>2, <1>4
<1>11. more # {}
  BY <1>2
<1>12. LastSent(c, t, a)
  <2>1. LastSent(c, out, in)
    BY DEF Account
  <2>2. \A i \in rest : (\A j \in rest : j <= i) => t[i].offset = c.sent
    BY <1>1, <1>8, <2>1 DEF LastSent, pings
  <2>3. rest = {} => pong.offset = c.sent
    BY <1>1, <1>9, <2>1 DEF LastSent, pings
  <2>. QED
    BY <1>3, <1>10, <1>11, <2>2, <2>3 DEF LastSent, rest, more
<1>. QED
  BY <1>5, <1>12 DEF Account, t, a

-----------------------------------------------------------------------------
(***************************************************************************)
(* An attempt at an update: it writes nothing, or an update between two    *)
(* pings.                                                                  *)
(***************************************************************************)
Burst(q, size) == SendPing(Write(SendPing(q), Update(size)))

\* The attempt leaves what was written, and grants no request of its own.
Quiet(p, a) ==
  /\ a.out = p.out /\ SameLink(p.s, a.s)
  /\ a.s.requested => p.s.requested \/ p.s.continuous
  /\ a.s.continuous = p.s.continuous

\* The attempt sends an update to a link with room for it.
Sends(p, a, size) ==
  /\ ~Congested(p.s)
  /\ p.s.requested \/ p.s.continuous
  /\ \E q \in Pair :
       /\ q.out = p.out /\ SameLink(p.s, q.s)
       /\ a.out = Burst(q, size).out /\ SameLink(Burst(q, size).s, a.s)

\* An update is a message to the viewer.
LEMMA UpdateType ==
  ASSUME NEW size \in UpdateSizes
  PROVE  /\ Update(size) \in ToViewer /\ Update(size).kind = "update"
         /\ Update(size).size = size /\ Size(Update(size)) = size
BY DEF Update, ToViewer, Sized, Size

\* A ping leaves a record and messages.
LEMMA SendPingType ==
  ASSUME NEW p \in Pair
  PROVE  SendPing(p) \in Pair
<1>1. CASE p.s.fence
  BY <1>1, PingFacts
<1>2. CASE ~p.s.fence
  BY <1>2 DEF SendPing
<1>. QED
  BY <1>1, <1>2

\* So do an update and its pings.
LEMMA BurstType ==
  ASSUME NEW q \in Pair, NEW size \in UpdateSizes
  PROVE  Burst(q, size) \in Pair
BY SendPingType, WriteFacts, UpdateType DEF Burst

\* What rfbSendFramebufferUpdate does: nothing to the link, or an update.
LEMMA AttemptCases ==
  ASSUME NEW p \in Pair, NEW syncing \in BOOLEAN, NEW size \in UpdateSizes
  PROVE  LET a == Attempt(p, syncing, size)
         IN  a \in Pair /\ (Quiet(p, a) \/ Sends(p, a, size))
<1> DEFINE c == [p.s EXCEPT !.retry = FALSE]
           ready == [CloseWindow(c) EXCEPT !.requested = @ \/ c.continuous]
           a == Attempt(p, syncing, size)
           q == [p EXCEPT !.s = ready]
           sent == Burst(q, size)
<1>1. p.s \in ServerRecord /\ p.out \in Seq(ToViewer) /\
          p = [s |-> p.s, out |-> p.out]
  BY DEF Pair
<1>2. /\ c \in ServerRecord /\ SameLink(p.s, c)
      /\ c.requested = p.s.requested /\ c.continuous = p.s.continuous
      /\ c.modified = p.s.modified /\ c.idle = p.s.idle /\ c.window = p.s.window
  BY <1>1 DEF ServerRecord, SameLink
<1>3. Congested(c) <=> Congested(p.s)
  BY <1>2 DEF Congested, Idle, SameLink
<1> HIDE DEF c
<1>4. /\ CloseWindow(c) \in ServerRecord /\ SameLink(c, CloseWindow(c))
      /\ CloseWindow(c).requested = c.requested
      /\ CloseWindow(c).continuous = c.continuous
      /\ CloseWindow(c).modified = c.modified
  BY <1>2, FlowControlAssumption DEF CloseWindow, ServerRecord, SameLink
<1>5. /\ ready \in ServerRecord /\ SameLink(CloseWindow(c), ready)
      /\ ready.requested = (c.requested \/ c.continuous)
      /\ ready.continuous = c.continuous
  BY <1>2, <1>4 DEF ServerRecord, SameLink
<1>6. a = IF syncing THEN [p EXCEPT !.s = c]
          ELSE IF Congested(c) THEN [p EXCEPT !.s = [c EXCEPT !.retry = TRUE]]
          ELSE IF ~(ready.modified /\ ready.requested) THEN q
          ELSE [sent EXCEPT !.s.modified = FALSE, !.s.requested = FALSE]
  BY DEF Attempt, Burst, c
<1>7. SameLink(p.s, ready)
  BY <1>2, <1>4, <1>5 DEF SameLink
<1> HIDE DEF ready, a
<1>8. q \in Pair /\ q.s = ready /\ q.out = p.out
  BY <1>1, <1>5 DEF Pair
<1> HIDE DEF q
<1>9. sent \in Pair
  BY <1>8, BurstType
<1> HIDE DEF sent
<1>10. CASE syncing
  <2>1. a = [p EXCEPT !.s = c]
    BY <1>6, <1>10
  <2>2. a \in Pair /\ a.s = c /\ a.out = p.out
    BY <1>1, <1>2, <2>1 DEF Pair
  <2>. QED
    BY <1>2, <2>2 DEF Quiet, a
<1>11. CASE ~syncing /\ Congested(c)
  <2> DEFINE d == [c EXCEPT !.retry = TRUE]
  <2>1. /\ d \in ServerRecord /\ SameLink(c, d) /\ d.requested = c.requested
        /\ d.continuous = c.continuous
    BY <1>2 DEF ServerRecord, SameLink
  <2>2. a = [p EXCEPT !.s = d]
    BY <1>6, <1>11
  <2> HIDE DEF d
  <2>3. a \in Pair /\ a.s = d /\ a.out = p.out
    BY <1>1, <2>1, <2>2 DEF Pair
  <2>. QED
    BY <1>2, <2>1, <2>3 DEF Quiet, SameLink, a
<1>12. CASE ~syncing /\ ~Congested(c) /\ ~(ready.modified /\ ready.requested)
  <2>1. a = q
    BY <1>6, <1>12
  <2>. QED
    BY <1>2, <1>5, <1>7, <1>8, <2>1 DEF Quiet, a
<1>13. CASE ~syncing /\ ~Congested(c) /\ ready.modified /\ ready.requested
  <2>1. a = [sent EXCEPT !.s.modified = FALSE, !.s.requested = FALSE]
    BY <1>6, <1>13
  <2> DEFINE d == [sent.s EXCEPT !.modified = FALSE, !.requested = FALSE]
  <2>2. sent.s \in ServerRecord /\ sent = [s |-> sent.s, out |-> sent.out]
    BY <1>9 DEF Pair
  <2>3. d \in ServerRecord /\ SameLink(sent.s, d)
    BY <2>2 DEF ServerRecord, SameLink
  <2>4. a.s = d /\ a.out = sent.out /\ a = [s |-> d, out |-> sent.out]
    BY <2>1, <2>2
  <2> HIDE DEF d
  <2>5. a \in Pair
    BY <1>9, <2>3, <2>4 DEF Pair
  <2>. QED
    BY <1>2, <1>3, <1>5, <1>7, <1>8, <1>13, <2>3, <2>4, <2>5 DEF Sends, a, sent
<1>. QED
  BY <1>10, <1>11, <1>12, <1>13 DEF a

-----------------------------------------------------------------------------
(***************************************************************************)
(* Distances from the acknowledged offset.                                 *)
(***************************************************************************)
LEMMA BeforeAdd ==
  ASSUME NEW a \in Offsets, NEW b \in Offsets, NEW n \in Nat,
         Before(a, b) + n < Word
  PROVE  /\ (b + n) % Word \in Offsets
         /\ Before(a, (b + n) % Word) = Before(a, b) + n
<1> DEFINE W == Word
           e == (b + n) % W
           k == (b + n) \div W
<1>1. W \in Nat \ {0} /\ a \in 0 .. W - 1 /\ b \in 0 .. W - 1 /\ b + n \in Nat
  BY WordAssumption DEF Offsets
<1>2. e \in 0 .. W - 1
  <2> DEFINE x == b + n
  <2>1. x \in Int
    BY <1>1
  <2> HIDE DEF x
  <2>2. x % W \in 0 .. W - 1
    BY <1>1, <2>1, RemainderIn
  <2>. QED
    BY <2>2 DEF x
<1>3. Before(a, b) = IF a <= b THEN b - a ELSE b - a + W
  BY <1>1 DEF Before
<1>4. Before(a, e) = IF a <= e THEN e - a ELSE e - a + W
  <2> HIDE DEF e
  <2>. QED
    BY <1>1, <1>2 DEF Before
<1>5. e = b + n \/ e = b + n - W
  <2>1. b + n < 2 * W
    BY <1>1, <1>3
  <2>2. b + n < W => e = b + n
    BY <1>1
  <2>3. b + n >= W => e = b + n - W
    <3>1. ASSUME b + n >= W
          PROVE  (b + n - W) % W = b + n - W
      BY <1>1, <2>1, <3>1
    <3>2. ASSUME b + n >= W
          PROVE  (b + n) % W = (b + n - W) % W
      <4> DEFINE x == b + n
      <4>1. x \in Nat /\ x - W \in Nat /\ x - W < W
        BY <1>1, <2>1, <3>2
      <4> HIDE DEF x
      <4>. QED
        BY <1>1, <4>1 DEF x
    <3>. QED
      BY <3>1, <3>2
  <2>. QED
    BY <1>1, <2>2, <2>3
<1> HIDE DEF e
<1>. QED
  BY <1>1, <1>2, <1>3, <1>4, <1>5 DEF e, Offsets

\* A later start shortens the distance to what comes after it.
LEMMA BeforeShift ==
  ASSUME NEW a \in Offsets, NEW x \in Offsets, NEW y \in Offsets,
         Before(a, x) <= Before(a, y)
  PROVE  Before(x, y) = Before(a, y) - Before(a, x)
<1> DEFINE W == Word
<1>1. W \in Nat \ {0} /\ a \in 0 .. W - 1 /\ x \in 0 .. W - 1 /\ y \in 0 .. W - 1
  BY WordAssumption DEF Offsets
<1>2. Before(a, x) = IF a <= x THEN x - a ELSE x - a + W
  BY <1>1 DEF Before
<1>3. Before(a, y) = IF a <= y THEN y - a ELSE y - a + W
  BY <1>1 DEF Before
<1>4. Before(x, y) = IF x <= y THEN y - x ELSE y - x + W
  BY <1>1 DEF Before
<1>. QED
  BY <1>1, <1>2, <1>3, <1>4

-----------------------------------------------------------------------------
(***************************************************************************)
(* What is on the wire lies in order between the acknowledged offset and   *)
(* the end of the stream.                                                  *)
(***************************************************************************)
Reach(c, m) == Before(c.acked, m.offset)
SentAt(c) == Before(c.acked, c.sent)
End(c) == Before(c.acked, c.sock)

\* The pings and their answers.
Marks(c, out, in) ==
  LET pings == Places(out, "ping")
      pongs == Places(in, "pong")
  IN  /\ \A i, j \in pongs : i < j => Reach(c, in[i]) <= Reach(c, in[j])
      /\ \A i \in pongs, j \in pings : Reach(c, in[i]) <= Reach(c, out[j])
      /\ \A i, j \in pings : i < j => Reach(c, out[i]) <= Reach(c, out[j])
      /\ \A i \in pongs : Reach(c, in[i]) <= SentAt(c)
      /\ \A i \in pings : Reach(c, out[i]) <= SentAt(c)
      /\ c.measured \/ pings # {} \/ pongs # {} => SentAt(c) <= End(c)

\* An update on the way takes its bytes of the stream after every mark that
\* was written before it.
Span(c, out, in) ==
  LET pings   == Places(out, "ping")
      pongs   == Places(in, "pong")
      updates == Places(out, "update")
  IN  \A u \in updates :
        /\ out[u].size <= End(c)
        /\ \A k \in pongs : Reach(c, in[k]) + out[u].size <= End(c)
        /\ \A k \in pings : k < u => Reach(c, out[k]) + out[u].size <= End(c)
        /\ \A j \in pings : u < j =>
             /\ out[u].size <= Reach(c, out[j])
             /\ \A k \in pongs : Reach(c, in[k]) + out[u].size <= Reach(c, out[j])
             /\ \A k \in pings : k < u =>
                  Reach(c, out[k]) + out[u].size <= Reach(c, out[j])

Ordered(c, out, in) == Marks(c, out, in) /\ Span(c, out, in)

\* The order is about the link only.
LEMMA OrderedSameLink ==
  ASSUME NEW c, NEW d, NEW out, NEW in, SameLink(c, d), Ordered(c, out, in)
  PROVE  Ordered(d, out, in)
BY DEF Ordered, Marks, Span, Reach, SentAt, End, SameLink

\* The distances are numbers.
LEMMA DistanceTypes ==
  ASSUME NEW c \in ServerRecord, NEW out \in Seq(ToViewer), NEW in \in Seq(ToServer)
  PROVE  /\ SentAt(c) \in Nat /\ End(c) \in Nat
         /\ \A i \in Places(out, "ping") : out[i].offset \in Offsets /\
                Reach(c, out[i]) \in Nat
         /\ \A i \in Places(in, "pong") : in[i].offset \in Offsets /\
                Reach(c, in[i]) \in Nat
         /\ \A u \in Places(out, "update") : out[u].size \in Nat
<1>1. /\ c.acked \in Offsets /\ c.sent \in Offsets /\ c.sock \in Offsets
      /\ \A x \in Offsets : x \in Nat
  BY WordAssumption DEF ServerRecord, Offsets
<1>2. SentAt(c) \in Nat /\ End(c) \in Nat
  BY <1>1, BeforeType DEF SentAt, End
<1>3. \A i \in Places(out, "ping") : out[i] \in ToViewer /\ out[i].kind = "ping"
  BY ElementOfSeq, LenProperties DEF Places
<1>4. \A i \in Places(out, "ping") : out[i].offset \in Offsets
  BY <1>3 DEF ToViewer, Stamped, Sized, Bare
<1>5. \A i \in Places(in, "pong") : in[i] \in ToServer /\ in[i].kind = "pong"
  BY ElementOfSeq, LenProperties DEF Places
<1>6. \A i \in Places(in, "pong") : in[i].offset \in Offsets
  BY <1>5 DEF ToServer, Stamped, Bare
<1>7. \A u \in Places(out, "update") : out[u] \in ToViewer /\ out[u].kind = "update"
  BY ElementOfSeq, LenProperties DEF Places
<1>8. \A u \in Places(out, "update") : out[u].size \in Nat
  BY <1>7, FlowControlAssumption DEF ToViewer, Stamped, Sized, Bare
<1>9. \A x \in Offsets : Before(c.acked, x) \in Nat
  BY <1>1, BeforeType
<1>. QED
  BY <1>2, <1>4, <1>6, <1>8, <1>9 DEF Reach

\* The places of the messages to the viewer when one is written.
LEMMA OutAppend ==
  ASSUME NEW q \in Seq(ToViewer), NEW m \in ToViewer, NEW kind
  PROVE  /\ Append(q, m) \in Seq(ToViewer)
         /\ m.kind = kind =>
                Places(Append(q, m), kind) = Places(q, kind) \cup {Len(q) + 1}
         /\ m.kind # kind => Places(Append(q, m), kind) = Places(q, kind)
<1>1. Append(q, m) \in Seq(ToViewer)
  BY AppendProperties
<1>2. ASSUME m.kind = kind
      PROVE  Places(Append(q, m), kind) = Places(q, kind) \cup {Len(q) + 1}
  BY <1>2, PlacesAppend
<1>3. ASSUME m.kind # kind
      PROVE  Places(Append(q, m), kind) = Places(q, kind)
  BY <1>3, PlacesAppend
<1>. QED
  BY <1>1, <1>2, <1>3

\* Writing anything but a ping moves the end of the stream by its size.
LEMMA OrderedWrite ==
  ASSUME NEW p \in Pair, NEW m \in ToViewer, m.kind # "ping", NEW in \in Seq(ToServer),
         Ordered(p.s, p.out, in), End(p.s) + Size(m) < Word
  PROVE  /\ Ordered(Write(p, m).s, Write(p, m).out, in)
         /\ End(Write(p, m).s) = End(p.s) + Size(m)
<1> DEFINE c == p.s
           d == Write(p, m).s
           out == p.out
           out2 == Write(p, m).out
           n == Len(out) + 1
           z == Size(m)
<1>1. /\ c \in ServerRecord /\ out \in Seq(ToViewer) /\ z \in Nat
      /\ Write(p, m) \in Pair /\ out2 = Append(out, m)
      /\ d.sent = c.sent /\ d.acked = c.acked /\ d.measured = c.measured
      /\ d.sock = (c.sock + z) % Word
  BY WriteFacts, SizeType DEF Pair, SameButWritten
<1>2. d \in ServerRecord /\ out2 \in Seq(ToViewer)
  BY <1>1 DEF Pair
<1>3. /\ Places(out2, "ping") = Places(out, "ping")
      /\ m.kind = "update" =>
             Places(out2, "update") = Places(out, "update") \cup {n}
      /\ m.kind # "update" => Places(out2, "update") = Places(out, "update")
  BY <1>1, OutAppend
<1>4. out2[n] = m /\ \A i \in 1 .. Len(out) : out2[i] = out[i]
  <2> HIDE DEF out
  <2>. QED
    BY <1>1
<1>5. /\ Places(out, "ping") \subseteq 1 .. Len(out)
      /\ Places(out, "update") \subseteq 1 .. Len(out)
      /\ Len(out) \in Nat
  BY <1>1, PlacesFinite, LenProperties
<1>6. /\ SentAt(c) \in Nat /\ End(c) \in Nat
      /\ \A i \in Places(out, "ping") : Reach(c, out[i]) \in Nat
      /\ \A i \in Places(in, "pong") : Reach(c, in[i]) \in Nat
      /\ \A u \in Places(out, "update") : out[u].size \in Nat
  BY <1>1, DistanceTypes
<1>7. m.kind = "update" => m.size = z
  BY SizeType
<1>8. c.acked \in Offsets /\ c.sock \in Offsets
  BY <1>1 DEF ServerRecord
<1>9. Ordered(c, out, in) /\ End(c) + z < Word
  OBVIOUS
<1> HIDE DEF c, d, out, out2, z
<1>10. End(d) = End(c) + z
  BY <1>1, <1>8, <1>9, BeforeAdd DEF End
<1>11. SentAt(d) = SentAt(c)
  BY <1>1 DEF SentAt
<1>12. /\ \A i \in Places(out, "ping") : Reach(d, out2[i]) = Reach(c, out[i])
       /\ \A i \in Places(in, "pong") : Reach(d, in[i]) = Reach(c, in[i])
       /\ \A u \in Places(out, "update") : out2[u] = out[u]
  BY <1>1, <1>4, <1>5 DEF Reach
<1>13. Marks(d, out2, in)
  <2>0. Marks(c, out, in)
    BY <1>9 DEF Ordered
  <2>1. \A i, j \in Places(in, "pong") : i < j => Reach(d, in[i]) <= Reach(d, in[j])
    BY <1>12, <2>0 DEF Marks
  <2>2. \A i \in Places(in, "pong"), j \in Places(out2, "ping") :
            Reach(d, in[i]) <= Reach(d, out2[j])
    BY <1>3, <1>12, <2>0 DEF Marks
  <2>3. \A i, j \in Places(out2, "ping") : i < j =>
            Reach(d, out2[i]) <= Reach(d, out2[j])
    BY <1>3, <1>12, <2>0 DEF Marks
  <2>4. \A i \in Places(in, "pong") : Reach(d, in[i]) <= SentAt(d)
    BY <1>11, <1>12, <2>0 DEF Marks
  <2>5. \A i \in Places(out2, "ping") : Reach(d, out2[i]) <= SentAt(d)
    BY <1>3, <1>11, <1>12, <2>0 DEF Marks
  <2>6. d.measured \/ Places(out2, "ping") # {} \/ Places(in, "pong") # {} =>
            SentAt(d) <= End(d)
    BY <1>1, <1>3, <1>6, <1>10, <1>11, <1>12, <2>0 DEF Marks
  <2>. QED
    BY <2>1, <2>2, <2>3, <2>4, <2>5, <2>6 DEF Marks
<1>14. Span(d, out2, in)
  <2>1. ASSUME NEW u \in Places(out, "update")
        PROVE  /\ out2[u].size <= End(d)
               /\ \A k \in Places(in, "pong") :
                      Reach(d, in[k]) + out2[u].size <= End(d)
               /\ \A k \in Places(out2, "ping") : k < u =>
                      Reach(d, out2[k]) + out2[u].size <= End(d)
               /\ \A j \in Places(out2, "ping") : u < j =>
                    /\ out2[u].size <= Reach(d, out2[j])
                    /\ \A k \in Places(in, "pong") :
                           Reach(d, in[k]) + out2[u].size <= Reach(d, out2[j])
                    /\ \A k \in Places(out2, "ping") : k < u =>
                         Reach(d, out2[k]) + out2[u].size <= Reach(d, out2[j])
    <3>0. Span(c, out, in)
      BY <1>9 DEF Ordered
    <3>1. out2[u].size = out[u].size /\ out[u].size \in Nat
      BY <1>6, <1>12
    <3>2. out2[u].size <= End(d)
      BY <1>1, <1>3, <1>6, <1>10, <1>12, <3>0, <3>1 DEF Span
    <3>3. ASSUME NEW k \in Places(in, "pong")
          PROVE  Reach(d, in[k]) + out2[u].size <= End(d)
      BY <1>1, <1>3, <1>6, <1>10, <1>12, <3>0, <3>1 DEF Span
    <3>4. ASSUME NEW k \in Places(out2, "ping"), k < u
          PROVE  Reach(d, out2[k]) + out2[u].size <= End(d)
      <4>1. /\ k \in Places(out, "ping") /\ Reach(d, out2[k]) = Reach(c, out[k])
            /\ Reach(c, out[k]) \in Nat
        BY <1>3, <1>6, <1>12
      <4>2. Reach(c, out[k]) + out[u].size <= End(c)
        BY <3>0, <3>4, <4>1 DEF Span
      <4>. QED
        BY <1>1, <1>6, <1>10, <3>1, <4>1, <4>2
    <3>5. ASSUME NEW j \in Places(out2, "ping"), u < j
          PROVE  /\ out2[u].size <= Reach(d, out2[j])
                 /\ \A k \in Places(in, "pong") :
                        Reach(d, in[k]) + out2[u].size <= Reach(d, out2[j])
                 /\ \A k \in Places(out2, "ping") : k < u =>
                      Reach(d, out2[k]) + out2[u].size <= Reach(d, out2[j])
      <4>1. out2[u].size <= Reach(d, out2[j])
        BY <1>1, <1>3, <1>6, <1>10, <1>12, <3>0, <3>1, <3>5 DEF Span
      <4>2. ASSUME NEW k \in Places(in, "pong")
            PROVE  Reach(d, in[k]) + out2[u].size <= Reach(d, out2[j])
        BY <1>1, <1>3, <1>6, <1>10, <1>12, <3>0, <3>1, <3>5 DEF Span
      <4>3. ASSUME NEW k \in Places(out2, "ping"), k < u
            PROVE  Reach(d, out2[k]) + out2[u].size <= Reach(d, out2[j])
        BY <1>1, <1>3, <1>6, <1>10, <1>12, <3>0, <3>1, <3>5, <4>3 DEF Span
      <4>. QED
        BY <4>1, <4>2, <4>3
    <3>. QED
      BY <3>2, <3>3, <3>4, <3>5
  <2>2. ASSUME m.kind = "update"
        PROVE  /\ out2[n].size <= End(d)
               /\ \A k \in Places(in, "pong") :
                      Reach(d, in[k]) + out2[n].size <= End(d)
               /\ \A k \in Places(out2, "ping") :
                      Reach(d, out2[k]) + out2[n].size <= End(d)
               /\ \A j \in Places(out2, "ping") : ~(n < j)
    <3>1. out2[n].size = z
      BY <1>4, <1>7, <2>2
    <3>2. \A j \in Places(out2, "ping") : ~(n < j)
      BY <1>3, <1>5
    <3>3. /\ \A k \in Places(in, "pong") : Reach(c, in[k]) <= End(c)
          /\ \A k \in Places(out, "ping") : Reach(c, out[k]) <= End(c)
      BY <1>6, <1>9 DEF Ordered, Marks
    <3>4. out2[n].size <= End(d)
      BY <1>1, <1>6, <1>10, <3>1
    <3>5. \A k \in Places(in, "pong") : Reach(d, in[k]) + out2[n].size <= End(d)
      BY <1>1, <1>6, <1>10, <1>12, <3>1, <3>3
    <3>6. ASSUME NEW k \in Places(out2, "ping")
          PROVE  Reach(d, out2[k]) + out2[n].size <= End(d)
      <4>1. /\ Reach(d, out2[k]) = Reach(c, out[k]) /\ Reach(c, out[k]) \in Nat
            /\ Reach(c, out[k]) <= End(c)
        BY <1>3, <1>6, <1>12, <3>3
      <4>. QED
        BY <1>1, <1>6, <1>10, <3>1, <4>1
    <3>. QED
      BY <3>2, <3>4, <3>5, <3>6
  <2>. QED
    BY <1>3, <2>1, <2>2 DEF Span
<1>. QED
  BY <1>10, <1>13, <1>14 DEF Ordered, c, d, out, out2, z

\* Writing a ping moves the last mark to the end of the stream.
LEMMA OrderedPing ==
  ASSUME NEW p \in Pair, p.s.fence, NEW in \in Seq(ToServer),
         Ordered(p.s, p.out, in), End(p.s) + FenceSize < Word
  PROVE  /\ Ordered(SendPing(p).s, SendPing(p).out, in)
         /\ End(SendPing(p).s) = End(p.s) + FenceSize
<1> DEFINE c == p.s
           d == SendPing(p).s
           out == p.out
           out2 == SendPing(p).out
           n == Len(out) + 1
           ping == Ping(c.sock, Before(c.acked, c.sock))
<1>1. c \in ServerRecord /\ out \in Seq(ToViewer) /\ FenceSize \in Nat
  BY FlowControlAssumption DEF Pair
<1>2. c.acked \in Offsets /\ c.sock \in Offsets
  BY <1>1 DEF ServerRecord
<1>3. ping \in ToViewer /\ ping.kind = "ping" /\ ping.offset = c.sock
  BY <1>2, BeforeType, PingType
<1>4. /\ out2 = Append(out, ping)
      /\ d.sent = c.sock /\ d.acked = c.acked /\ d.measured = c.measured
      /\ d.sock = (c.sock + FenceSize) % Word
  BY PingFacts
<1> HIDE DEF ping
<1>5. /\ Places(out2, "ping") = Places(out, "ping") \cup {n}
      /\ Places(out2, "update") = Places(out, "update")
  <2> HIDE DEF out
  <2>0. out \in Seq(ToViewer) /\ ping \in ToViewer /\ ping.kind = "ping"
    BY <1>1, <1>3
  <2>1. Places(Append(out, ping), "ping") = Places(out, "ping") \cup {Len(out) + 1}
    BY <2>0, OutAppend
  <2>2. Places(Append(out, ping), "update") = Places(out, "update")
    BY <2>0, OutAppend
  <2>. QED
    BY <1>4, <2>1, <2>2
<1>6. out2[n] = ping /\ \A i \in 1 .. Len(out) : out2[i] = out[i]
  <2> HIDE DEF out
  <2>. QED
    BY <1>1, <1>4
<1>7. /\ Places(out, "ping") \subseteq 1 .. Len(out)
      /\ Places(out, "update") \subseteq 1 .. Len(out)
      /\ Len(out) \in Nat
  BY <1>1, PlacesFinite, LenProperties
<1>8. /\ SentAt(c) \in Nat /\ End(c) \in Nat
      /\ \A i \in Places(out, "ping") : Reach(c, out[i]) \in Nat
      /\ \A i \in Places(in, "pong") : Reach(c, in[i]) \in Nat
      /\ \A u \in Places(out, "update") : out[u].size \in Nat
  BY <1>1, DistanceTypes
<1>9. Ordered(c, out, in) /\ End(c) + FenceSize < Word
  OBVIOUS
<1> HIDE DEF c, d, out, out2
<1>10. End(d) = End(c) + FenceSize
  BY <1>1, <1>2, <1>4, <1>9, BeforeAdd DEF End
<1>11. SentAt(d) = End(c) /\ Reach(d, out2[n]) = End(c)
  BY <1>3, <1>4, <1>6 DEF SentAt, End, Reach
<1>12. /\ \A i \in Places(out, "ping") : Reach(d, out2[i]) = Reach(c, out[i])
       /\ \A i \in Places(in, "pong") : Reach(d, in[i]) = Reach(c, in[i])
       /\ \A u \in Places(out, "update") : out2[u] = out[u]
  BY <1>4, <1>6, <1>7 DEF Reach
<1>13. /\ \A k \in Places(in, "pong") : Reach(c, in[k]) <= End(c)
       /\ \A k \in Places(out, "ping") : Reach(c, out[k]) <= End(c)
  BY <1>8, <1>9 DEF Ordered, Marks
<1>14. \A i \in Places(out, "ping") \cup Places(out, "update") : i \in Nat /\ i < n
  BY <1>7
<1>15. Marks(d, out2, in)
  <2>0. Marks(c, out, in)
    BY <1>9 DEF Ordered
  <2>1. \A i, j \in Places(in, "pong") : i < j => Reach(d, in[i]) <= Reach(d, in[j])
    BY <1>1, <1>5, <1>8, <1>10, <1>11, <1>12, <1>13, <1>14, <2>0 DEF Marks
  <2>2. \A i \in Places(in, "pong"), j \in Places(out2, "ping") :
            Reach(d, in[i]) <= Reach(d, out2[j])
    BY <1>1, <1>5, <1>8, <1>10, <1>11, <1>12, <1>13, <1>14, <2>0 DEF Marks
  <2>3. \A i, j \in Places(out2, "ping") : i < j =>
            Reach(d, out2[i]) <= Reach(d, out2[j])
    BY <1>1, <1>5, <1>8, <1>10, <1>11, <1>12, <1>13, <1>14, <2>0 DEF Marks
  <2>4. \A i \in Places(in, "pong") : Reach(d, in[i]) <= SentAt(d)
    BY <1>1, <1>5, <1>8, <1>10, <1>11, <1>12, <1>13, <1>14, <2>0 DEF Marks
  <2>5. \A i \in Places(out2, "ping") : Reach(d, out2[i]) <= SentAt(d)
    BY <1>1, <1>5, <1>8, <1>10, <1>11, <1>12, <1>13, <1>14, <2>0 DEF Marks
  <2>6. d.measured \/ Places(out2, "ping") # {} \/ Places(in, "pong") # {} =>
            SentAt(d) <= End(d)
    BY <1>1, <1>5, <1>8, <1>10, <1>11, <1>12, <1>13, <1>14, <2>0 DEF Marks
  <2>. QED
    BY <2>1, <2>2, <2>3, <2>4, <2>5, <2>6 DEF Marks
<1>16. Span(d, out2, in)
  <2>1. ASSUME NEW u \in Places(out, "update")
        PROVE  /\ out2[u].size <= End(d)
               /\ \A k \in Places(in, "pong") :
                      Reach(d, in[k]) + out2[u].size <= End(d)
               /\ \A k \in Places(out2, "ping") : k < u =>
                      Reach(d, out2[k]) + out2[u].size <= End(d)
               /\ \A j \in Places(out2, "ping") : u < j =>
                    /\ out2[u].size <= Reach(d, out2[j])
                    /\ \A k \in Places(in, "pong") :
                           Reach(d, in[k]) + out2[u].size <= Reach(d, out2[j])
                    /\ \A k \in Places(out2, "ping") : k < u =>
                         Reach(d, out2[k]) + out2[u].size <= Reach(d, out2[j])
    <3>0. Span(c, out, in)
      BY <1>9 DEF Ordered
    <3>1. out2[u].size = out[u].size /\ out[u].size \in Nat
      BY <1>8, <1>12
    <3>2. out2[u].size <= End(d)
      BY <1>1, <1>5, <1>8, <1>10, <1>11, <1>12, <1>14, <3>0, <3>1 DEF Span
    <3>3. ASSUME NEW k \in Places(in, "pong")
          PROVE  Reach(d, in[k]) + out2[u].size <= End(d)
      BY <1>1, <1>5, <1>8, <1>10, <1>11, <1>12, <1>14, <3>0, <3>1 DEF Span
    <3>4. ASSUME NEW k \in Places(out2, "ping"), k < u
          PROVE  Reach(d, out2[k]) + out2[u].size <= End(d)
      BY <1>1, <1>5, <1>8, <1>10, <1>11, <1>12, <1>14, <3>0, <3>1, <3>4, SMTT(40) DEF Span
    <3>5. ASSUME NEW j \in Places(out2, "ping"), u < j
          PROVE  /\ out2[u].size <= Reach(d, out2[j])
                 /\ \A k \in Places(in, "pong") :
                        Reach(d, in[k]) + out2[u].size <= Reach(d, out2[j])
                 /\ \A k \in Places(out2, "ping") : k < u =>
                      Reach(d, out2[k]) + out2[u].size <= Reach(d, out2[j])
      <4>1. out2[u].size <= Reach(d, out2[j])
        BY <1>1, <1>5, <1>8, <1>10, <1>11, <1>12, <1>14, <3>0, <3>1, <3>5 DEF Span
      <4>2. ASSUME NEW k \in Places(in, "pong")
            PROVE  Reach(d, in[k]) + out2[u].size <= Reach(d, out2[j])
        BY <1>1, <1>5, <1>8, <1>10, <1>11, <1>12, <1>14, <3>0, <3>1, <3>5 DEF Span
      <4>3. ASSUME NEW k \in Places(out2, "ping"), k < u
            PROVE  Reach(d, out2[k]) + out2[u].size <= Reach(d, out2[j])
        <5>1. k \in Places(out, "ping") /\ u \in Places(out, "update")
          BY <1>5, <1>14, <4>3
        <5>2. CASE j = n
          <6>1. Reach(c, out[k]) + out[u].size <= End(c)
            BY <3>0, <4>3, <5>1 DEF Span
          <6>. QED
            BY <1>11, <1>12, <3>1, <5>1, <5>2, <6>1
        <5>3. CASE j \in Places(out, "ping")
          <6>1. Reach(c, out[k]) + out[u].size <= Reach(c, out[j])
            BY <3>0, <3>5, <4>3, <5>1, <5>3 DEF Span
          <6>. QED
            BY <1>12, <3>1, <5>1, <5>3, <6>1
        <5>. QED
          BY <1>5, <3>5, <5>2, <5>3
      <4>. QED
        BY <4>1, <4>2, <4>3
    <3>. QED
      BY <3>2, <3>3, <3>4, <3>5
  <2>. QED
    BY <1>5, <2>1 DEF Span
<1>. QED
  BY <1>10, <1>15, <1>16 DEF Ordered, c, d, out, out2

\* Places are numbers.
LEMMA PlacesInt ==
  ASSUME NEW S, NEW q \in Seq(S), NEW kind
  PROVE  \A i \in Places(q, kind) : i \in Nat /\ i \in Int /\ i + 0 = i /\
             q[i] \in S
<1>1. Places(q, kind) \subseteq 1 .. Len(q) /\ Len(q) \in Nat
  BY PlacesFinite, LenProperties
<1>2. \A i \in 1 .. Len(q) : q[i] \in S
  BY ElementOfSeq
<1>. QED
  BY <1>1, <1>2

\* Messages that leave the wire leave the others in order.
LEMMA OrderedDrop ==
  ASSUME NEW c, NEW out, NEW in, NEW out2, NEW in2,
         NEW a \in Nat, NEW b \in Nat, Ordered(c, out, in),
         \A i \in Places(out2, "ping") : i \in Int /\
             i + a \in Places(out, "ping") /\ out2[i] = out[i + a],
         \A i \in Places(out2, "update") : i \in Int /\
             i + a \in Places(out, "update") /\ out2[i] = out[i + a],
         \A i \in Places(in2, "pong") : i \in Int /\
             i + b \in Places(in, "pong") /\ in2[i] = in[i + b]
  PROVE  Ordered(c, out2, in2)
<1>1. Marks(c, out, in) /\ Span(c, out, in)
  BY DEF Ordered
<1>2. \A i, j \in Int : i < j => i + a < j + a /\ i + b < j + b
  OBVIOUS
<1>3. Marks(c, out2, in2)
  <2>1. \A i, j \in Places(in2, "pong") : i < j =>
            Reach(c, in2[i]) <= Reach(c, in2[j])
    BY <1>1, <1>2 DEF Marks
  <2>2. \A i \in Places(in2, "pong"), j \in Places(out2, "ping") :
            Reach(c, in2[i]) <= Reach(c, out2[j])
    BY <1>1 DEF Marks
  <2>3. \A i, j \in Places(out2, "ping") : i < j =>
            Reach(c, out2[i]) <= Reach(c, out2[j])
    BY <1>1, <1>2 DEF Marks
  <2>4. \A i \in Places(in2, "pong") : Reach(c, in2[i]) <= SentAt(c)
    BY <1>1 DEF Marks
  <2>5. \A i \in Places(out2, "ping") : Reach(c, out2[i]) <= SentAt(c)
    BY <1>1 DEF Marks
  <2>6. c.measured \/ Places(out2, "ping") # {} \/ Places(in2, "pong") # {} =>
            SentAt(c) <= End(c)
    <3>1. Places(out2, "ping") # {} => Places(out, "ping") # {}
      OBVIOUS
    <3>2. Places(in2, "pong") # {} => Places(in, "pong") # {}
      OBVIOUS
    <3>. QED
      BY <1>1, <3>1, <3>2 DEF Marks
  <2>. QED
    BY <2>1, <2>2, <2>3, <2>4, <2>5, <2>6 DEF Marks
<1>4. Span(c, out2, in2)
  <2>1. SUFFICES ASSUME NEW u \in Places(out2, "update")
                 PROVE  /\ out2[u].size <= End(c)
                        /\ \A k \in Places(in2, "pong") :
                               Reach(c, in2[k]) + out2[u].size <= End(c)
                        /\ \A k \in Places(out2, "ping") : k < u =>
                               Reach(c, out2[k]) + out2[u].size <= End(c)
                        /\ \A j \in Places(out2, "ping") : u < j =>
                             /\ out2[u].size <= Reach(c, out2[j])
                             /\ \A k \in Places(in2, "pong") :
                                    Reach(c, in2[k]) + out2[u].size <= Reach(c, out2[j])
                             /\ \A k \in Places(out2, "ping") : k < u =>
                                  Reach(c, out2[k]) + out2[u].size <= Reach(c, out2[j])
    BY DEF Span
  <2>2. u \in Int /\ u + a \in Places(out, "update") /\ out2[u] = out[u + a]
    OBVIOUS
  <2>3. out2[u].size <= End(c)
    BY <1>1, <2>2 DEF Span
  <2>4. ASSUME NEW k \in Places(in2, "pong")
        PROVE  Reach(c, in2[k]) + out2[u].size <= End(c)
    BY <1>1, <2>2 DEF Span
  <2>5. ASSUME NEW k \in Places(out2, "ping"), k < u
        PROVE  Reach(c, out2[k]) + out2[u].size <= End(c)
    <3>1. k + a \in Places(out, "ping") /\ out2[k] = out[k + a] /\ k + a < u + a
      BY <1>2, <2>2, <2>5
    <3>. QED
      BY <1>1, <2>2, <3>1 DEF Span
  <2>6. ASSUME NEW j \in Places(out2, "ping"), u < j
        PROVE  /\ out2[u].size <= Reach(c, out2[j])
               /\ \A k \in Places(in2, "pong") :
                      Reach(c, in2[k]) + out2[u].size <= Reach(c, out2[j])
               /\ \A k \in Places(out2, "ping") : k < u =>
                    Reach(c, out2[k]) + out2[u].size <= Reach(c, out2[j])
    <3>1. j + a \in Places(out, "ping") /\ out2[j] = out[j + a] /\ u + a < j + a
      BY <1>2, <2>2, <2>6
    <3>2. out2[u].size <= Reach(c, out2[j])
      BY <1>1, <2>2, <3>1 DEF Span
    <3>3. ASSUME NEW k \in Places(in2, "pong")
          PROVE  Reach(c, in2[k]) + out2[u].size <= Reach(c, out2[j])
      <4>1. k + b \in Places(in, "pong") /\ in2[k] = in[k + b]
        OBVIOUS
      <4>. QED
        BY <1>1, <2>2, <3>1, <4>1 DEF Span
    <3>4. ASSUME NEW k \in Places(out2, "ping"), k < u
          PROVE  Reach(c, out2[k]) + out2[u].size <= Reach(c, out2[j])
      <4>1. k + a \in Places(out, "ping") /\ out2[k] = out[k + a] /\ k + a < u + a
        BY <1>2, <2>2, <3>4
      <4>. QED
        BY <1>1, <2>2, <3>1, <4>1 DEF Span
    <3>. QED
      BY <3>2, <3>3, <3>4
  <2>. QED
    BY <2>3, <2>4, <2>5, <2>6
<1>. QED
  BY <1>3, <1>4 DEF Ordered

\* A message that the server reads leaves the others in order.
LEMMA OrderedTail ==
  ASSUME NEW c, NEW out \in Seq(ToViewer), NEW in \in Seq(ToServer), in # <<>>,
         Ordered(c, out, in)
  PROVE  Ordered(c, out, Tail(in))
<1>1. \A i \in Places(out, "ping") \cup Places(out, "update") :
        i \in Int /\ i + 0 = i
  BY PlacesInt
<1>2. \A i \in Places(Tail(in), "pong") :
        i \in Int /\ i + 1 \in Places(in, "pong") /\ Tail(in)[i] = in[i + 1]
  <2>1. \A i \in Places(Tail(in), "pong") : i \in Int
    <3>1. Tail(in) \in Seq(ToServer)
      BY HeadTailProperties
    <3>. QED
      BY <3>1, PlacesInt
  <2>. QED
    BY <2>1, PlacesTail
<1> DEFINE t == Tail(in)
<1> HIDE DEF t
<1>3. \A i \in Places(t, "pong") :
        i \in Int /\ i + 1 \in Places(in, "pong") /\ t[i] = in[i + 1]
  BY <1>2 DEF t
<1>4. Ordered(c, out, t)
  BY <1>1, <1>3, OrderedDrop
<1>. QED
  BY <1>4 DEF t

\* So does one that the viewer reads, and what it answers to it.
LEMMA OrderedRead ==
  ASSUME NEW c, NEW out \in Seq(ToViewer), out # <<>>,
         NEW in \in Seq(ToServer), NEW e \in Seq(ToServer),
         \A i \in 1 .. Len(e) : e[i].kind # "pong",
         Ordered(c, out, in)
  PROVE  Ordered(c, Tail(out), in \o e)
<1> DEFINE t == Tail(out)
           more == in \o e
<1>1. t \in Seq(ToViewer)
  BY HeadTailProperties
<1>2. \A i \in Places(t, "ping") :
        i \in Int /\ i + 1 \in Places(out, "ping") /\ t[i] = out[i + 1]
  <2>1. \A i \in Places(t, "ping") : i \in Int
    BY <1>1, PlacesInt
  <2>. QED
    BY <2>1, PlacesTail
<1>3. \A i \in Places(t, "update") :
        i \in Int /\ i + 1 \in Places(out, "update") /\ t[i] = out[i + 1]
  <2>1. \A i \in Places(t, "update") : i \in Int
    BY <1>1, PlacesInt
  <2>. QED
    BY <2>1, PlacesTail
<1>4. \A i \in Places(more, "pong") :
        i \in Int /\ i + 0 \in Places(in, "pong") /\ more[i] = in[i + 0]
  <2>1. \A i \in Places(in, "pong") : i \in Int /\ i + 0 = i
    BY PlacesInt
  <2>2. /\ Places(more, "pong") = Places(in, "pong")
        /\ \A i \in Places(in, "pong") : more[i] = in[i]
    BY PlacesConcat
  <2> HIDE DEF more
  <2>. QED
    BY <2>1, <2>2
<1> HIDE DEF t, more
<1>5. Ordered(c, t, more)
  BY <1>2, <1>3, <1>4, OrderedDrop
<1>. QED
  BY <1>5 DEF t, more

\* A pong moves the acknowledged offset to the first mark.
LEMMA OrderedAck ==
  ASSUME NEW c \in ServerRecord, NEW d \in ServerRecord, NEW out \in Seq(ToViewer),
         NEW in \in Seq(ToServer), in # <<>>, Head(in).kind = "pong",
         Ordered(c, out, in),
         d.sent = c.sent, d.sock = c.sock, d.acked = Head(in).offset
  PROVE  /\ Ordered(d, out, Tail(in))
         /\ End(d) <= End(c)
<1> DEFINE t == Tail(in)
           z == Reach(c, in[1])
<1>1. /\ in[1] = Head(in) /\ 1 \in Places(in, "pong")
      /\ \A i \in Places(t, "pong") : t[i] = in[i + 1] /\
             i + 1 \in Places(in, "pong")
  BY PlacesTail
<1>2. t \in Seq(ToServer)
  BY HeadTailProperties
<1>3. \A i \in Places(t, "pong") : i \in Int /\ i >= 1
  <2>1. Places(t, "pong") \subseteq 1 .. Len(t) /\ Len(t) \in Nat
    BY <1>2, PlacesFinite, LenProperties
  <2>. QED
    BY <2>1
<1> HIDE DEF t
<1>4. Ordered(c, out, t)
  BY OrderedTail DEF t
<1>5. /\ SentAt(c) \in Nat /\ End(c) \in Nat
      /\ \A i \in Places(out, "ping") : out[i].offset \in Offsets /\
             Reach(c, out[i]) \in Nat
      /\ \A i \in Places(in, "pong") : in[i].offset \in Offsets /\
             Reach(c, in[i]) \in Nat
      /\ \A u \in Places(out, "update") : out[u].size \in Nat
  BY DistanceTypes
<1>6. Marks(c, out, in) /\ Span(c, out, in) /\ Marks(c, out, t) /\ Span(c, out, t)
  BY <1>4 DEF Ordered
<1>7. /\ c.acked \in Offsets /\ c.sent \in Offsets /\ c.sock \in Offsets
      /\ in[1].offset \in Offsets /\ z \in Nat
  BY <1>1, <1>5 DEF ServerRecord
<1>8. /\ z <= SentAt(c) /\ z <= End(c)
      /\ \A i \in Places(out, "ping") : z <= Reach(c, out[i])
      /\ \A i \in Places(t, "pong") : z <= Reach(c, t[i])
  <2>1. z <= SentAt(c) /\ SentAt(c) <= End(c)
    BY <1>1, <1>6 DEF Marks
  <2>2. \A i \in Places(out, "ping") : z <= Reach(c, out[i])
    BY <1>1, <1>6 DEF Marks
  <2>3. \A i \in Places(t, "pong") : z <= Reach(c, t[i])
    <3>1. \A i \in Places(t, "pong") : 1 < i + 1
      BY <1>3
    <3>. QED
      BY <1>1, <1>6, <3>1 DEF Marks
  <2>. QED
    BY <1>5, <1>7, <2>1, <2>2, <2>3
<1>9. /\ SentAt(d) = SentAt(c) - z /\ End(d) = End(c) - z
      /\ \A i \in Places(out, "ping") : Reach(d, out[i]) = Reach(c, out[i]) - z
      /\ \A i \in Places(t, "pong") : Reach(d, t[i]) = Reach(c, t[i]) - z
  <2>1. d.acked = in[1].offset
    BY <1>1
  <2>2. \A y \in Offsets : z <= Before(c.acked, y) =>
            Before(d.acked, y) = Before(c.acked, y) - z
    BY <1>7, <2>1, BeforeShift DEF Reach
  <2>3. \A i \in Places(t, "pong") : t[i].offset \in Offsets
    BY <1>1, <1>5
  <2>. QED
    BY <1>5, <1>7, <1>8, <2>2, <2>3 DEF SentAt, End, Reach
<1>10. \A i \in Places(t, "pong") : Reach(c, t[i]) \in Nat
  BY <1>1, <1>5
<1>11. \A u \in Places(out, "update") :
         /\ z + out[u].size <= End(c)
         /\ \A j \in Places(out, "ping") : u < j =>
                z + out[u].size <= Reach(c, out[j])
  BY <1>1, <1>6 DEF Span
<1> HIDE DEF z
<1>12. Marks(d, out, t)
  <2>1. \A i, j \in Places(t, "pong") : i < j => Reach(d, t[i]) <= Reach(d, t[j])
    BY <1>6, <1>7, <1>9, <1>10 DEF Marks
  <2>2. \A i \in Places(t, "pong"), j \in Places(out, "ping") :
            Reach(d, t[i]) <= Reach(d, out[j])
    BY <1>5, <1>6, <1>7, <1>9, <1>10 DEF Marks
  <2>3. \A i, j \in Places(out, "ping") : i < j =>
            Reach(d, out[i]) <= Reach(d, out[j])
    BY <1>5, <1>6, <1>7, <1>9 DEF Marks
  <2>4. \A i \in Places(t, "pong") : Reach(d, t[i]) <= SentAt(d)
    BY <1>5, <1>6, <1>7, <1>9, <1>10 DEF Marks
  <2>5. \A i \in Places(out, "ping") : Reach(d, out[i]) <= SentAt(d)
    BY <1>5, <1>6, <1>7, <1>9 DEF Marks
  <2>6. SentAt(d) <= End(d)
    <3>1. SentAt(c) <= End(c)
      BY <1>1, <1>6 DEF Marks
    <3>. QED
      BY <1>5, <1>7, <1>9, <3>1
  <2>. QED
    BY <2>1, <2>2, <2>3, <2>4, <2>5, <2>6 DEF Marks
<1>13. Span(d, out, t)
  <2>1. SUFFICES ASSUME NEW u \in Places(out, "update")
                 PROVE  /\ out[u].size <= End(d)
                        /\ \A k \in Places(t, "pong") :
                               Reach(d, t[k]) + out[u].size <= End(d)
                        /\ \A k \in Places(out, "ping") : k < u =>
                               Reach(d, out[k]) + out[u].size <= End(d)
                        /\ \A j \in Places(out, "ping") : u < j =>
                             /\ out[u].size <= Reach(d, out[j])
                             /\ \A k \in Places(t, "pong") :
                                    Reach(d, t[k]) + out[u].size <= Reach(d, out[j])
                             /\ \A k \in Places(out, "ping") : k < u =>
                                  Reach(d, out[k]) + out[u].size <= Reach(d, out[j])
    BY DEF Span
  <2> DEFINE size == out[u].size
  <2>2. size \in Nat
    BY <1>5
  <2>3. size <= End(d)
    BY <1>5, <1>7, <1>9, <1>11, <2>2
  <2>4. ASSUME NEW k \in Places(t, "pong")
        PROVE  Reach(d, t[k]) + size <= End(d)
    <3>1. Reach(c, t[k]) + size <= End(c)
      BY <1>6 DEF Span
    <3>. QED
      BY <1>5, <1>7, <1>9, <1>10, <2>2, <3>1, SMTT(40)
  <2>5. ASSUME NEW k \in Places(out, "ping"), k < u
        PROVE  Reach(d, out[k]) + size <= End(d)
    <3>1. Reach(c, out[k]) + size <= End(c)
      BY <1>6, <2>5 DEF Span
    <3>. QED
      BY <1>5, <1>7, <1>9, <2>2, <3>1
  <2>6. ASSUME NEW j \in Places(out, "ping"), u < j
        PROVE  /\ size <= Reach(d, out[j])
               /\ \A k \in Places(t, "pong") :
                      Reach(d, t[k]) + size <= Reach(d, out[j])
               /\ \A k \in Places(out, "ping") : k < u =>
                    Reach(d, out[k]) + size <= Reach(d, out[j])
    <3>1. size <= Reach(d, out[j])
      BY <1>5, <1>7, <1>9, <1>11, <2>2, <2>6
    <3>2. ASSUME NEW k \in Places(t, "pong")
          PROVE  Reach(d, t[k]) + size <= Reach(d, out[j])
      <4>1. Reach(c, t[k]) + size <= Reach(c, out[j])
        BY <1>6, <2>6 DEF Span
      <4>. QED
        BY <1>5, <1>7, <1>9, <1>10, <2>2, <4>1, SMTT(40)
    <3>3. ASSUME NEW k \in Places(out, "ping"), k < u
          PROVE  Reach(d, out[k]) + size <= Reach(d, out[j])
      <4>1. Reach(c, out[k]) + size <= Reach(c, out[j])
        BY <1>6, <2>6, <3>3 DEF Span
      <4>. QED
        BY <1>5, <1>7, <1>9, <2>2, <4>1, SMTT(40)
    <3>. QED
      BY <3>1, <3>2, <3>3
  <2>. QED
    BY <2>3, <2>4, <2>5, <2>6
<1>14. End(d) <= End(c)
  BY <1>5, <1>7, <1>9
<1>. QED
  BY <1>12, <1>13, <1>14 DEF Ordered, t

\* The viewer answers the first ping: a mark changes sides.
LEMMA OrderedAnswer ==
  ASSUME NEW c \in ServerRecord, NEW out \in Seq(ToViewer), out # <<>>,
         Head(out).kind = "ping", NEW in \in Seq(ToServer), NEW pong \in ToServer,
         pong.kind = "pong", pong.offset = Head(out).offset,
         Ordered(c, out, in)
  PROVE  Ordered(c, Tail(out), Append(in, pong))
<1>0. Places(Append(in, pong), "pong") = Places(in, "pong") \cup {Len(in) + 1}
  BY PongAppend
<1> DEFINE t == Tail(out)
           more == Append(in, pong)
           n == Len(in) + 1
<1>1. /\ out[1] = Head(out) /\ 1 \in Places(out, "ping")
      /\ \A i \in Places(t, "ping") : t[i] = out[i + 1] /\
             i + 1 \in Places(out, "ping")
  BY PlacesTail
<1>2. \A i \in Places(t, "update") : t[i] = out[i + 1] /\
          i + 1 \in Places(out, "update")
  BY PlacesTail
<1>3. t \in Seq(ToViewer)
  BY HeadTailProperties
<1> HIDE DEF t
<1>4. \A i \in Places(t, "ping") \cup Places(t, "update") : i \in Int /\ i >= 1
  <2>1. /\ Places(t, "ping") \subseteq 1 .. Len(t) /\
               Places(t, "update") \subseteq 1 .. Len(t)
        /\ Len(t) \in Nat
    BY <1>3, PlacesFinite, LenProperties
  <2>. QED
    BY <2>1
<1>5. more[n] = pong /\ \A i \in 1 .. Len(in) : more[i] = in[i]
  OBVIOUS
<1>6. /\ Places(in, "pong") \subseteq 1 .. Len(in) /\ Len(in) \in Nat
  BY PlacesFinite, LenProperties
<1>7. \A i \in Places(in, "pong") : i \in Int /\ i < n /\ more[i] = in[i]
  BY <1>5, <1>6
<1>8. Places(more, "pong") = Places(in, "pong") \cup {n}
  BY <1>0
<1> HIDE DEF more
<1>9. Reach(c, more[n]) = Reach(c, out[1])
  BY <1>1, <1>5 DEF Reach
<1>10. /\ SentAt(c) \in Nat /\ End(c) \in Nat
       /\ \A i \in Places(out, "ping") : Reach(c, out[i]) \in Nat
       /\ \A i \in Places(in, "pong") : Reach(c, in[i]) \in Nat
       /\ \A u \in Places(out, "update") : out[u].size \in Nat
  BY DistanceTypes
<1>11. Marks(c, out, in) /\ Span(c, out, in)
  BY DEF Ordered
<1>12. \A i, j \in Int : i < j <=> i + 1 < j + 1
  OBVIOUS
<1>13. Marks(c, t, more)
  <2>1. ASSUME NEW i \in Places(more, "pong"), NEW j \in Places(more, "pong"), i < j
        PROVE  Reach(c, more[i]) <= Reach(c, more[j])
    <3>1. i \in Places(in, "pong")
      BY <1>6, <1>7, <1>8, <2>1
    <3>2. CASE j = n
      BY <1>1, <1>7, <1>9, <1>11, <3>1, <3>2 DEF Marks
    <3>3. CASE j \in Places(in, "pong")
      BY <1>7, <1>11, <2>1, <3>1, <3>3 DEF Marks
    <3>. QED
      BY <1>8, <3>2, <3>3
  <2>2. ASSUME NEW i \in Places(more, "pong"), NEW j \in Places(t, "ping")
        PROVE  Reach(c, more[i]) <= Reach(c, t[j])
    <3>1. j + 1 \in Places(out, "ping") /\ t[j] = out[j + 1] /\ 1 < j + 1
      BY <1>1, <1>4
    <3>2. CASE i = n
      BY <1>1, <1>9, <1>11, <3>1, <3>2 DEF Marks
    <3>3. CASE i \in Places(in, "pong")
      BY <1>7, <1>11, <3>1, <3>3 DEF Marks
    <3>. QED
      BY <1>8, <3>2, <3>3
  <2>3. ASSUME NEW i \in Places(t, "ping"), NEW j \in Places(t, "ping"), i < j
        PROVE  Reach(c, t[i]) <= Reach(c, t[j])
    <3>1. i + 1 < j + 1
      BY <1>4, <2>3
    <3>. QED
      BY <1>1, <1>11, <3>1 DEF Marks
  <2>4. \A i \in Places(more, "pong") : Reach(c, more[i]) <= SentAt(c)
    BY <1>1, <1>7, <1>8, <1>9, <1>11 DEF Marks
  <2>5. \A i \in Places(t, "ping") : Reach(c, t[i]) <= SentAt(c)
    BY <1>1, <1>11 DEF Marks
  <2>6. SentAt(c) <= End(c)
    BY <1>1, <1>11 DEF Marks
  <2>. QED
    BY <2>1, <2>2, <2>3, <2>4, <2>5, <2>6 DEF Marks
<1>14. Span(c, t, more)
  <2>1. SUFFICES ASSUME NEW u \in Places(t, "update")
                 PROVE  /\ t[u].size <= End(c)
                        /\ \A k \in Places(more, "pong") :
                               Reach(c, more[k]) + t[u].size <= End(c)
                        /\ \A k \in Places(t, "ping") : k < u =>
                               Reach(c, t[k]) + t[u].size <= End(c)
                        /\ \A j \in Places(t, "ping") : u < j =>
                             /\ t[u].size <= Reach(c, t[j])
                             /\ \A k \in Places(more, "pong") :
                                    Reach(c, more[k]) + t[u].size <= Reach(c, t[j])
                             /\ \A k \in Places(t, "ping") : k < u =>
                                  Reach(c, t[k]) + t[u].size <= Reach(c, t[j])
    BY DEF Span
  <2>2. /\ u \in Int /\ u + 1 \in Places(out, "update") /\ t[u] = out[u + 1]
        /\ 1 < u + 1
    BY <1>2, <1>4
  <2>3. t[u].size <= End(c)
    BY <1>11, <2>2 DEF Span
  <2>4. ASSUME NEW k \in Places(more, "pong")
        PROVE  Reach(c, more[k]) + t[u].size <= End(c)
    <3>1. CASE k = n
      BY <1>1, <1>9, <1>11, <2>2, <3>1 DEF Span
    <3>2. CASE k \in Places(in, "pong")
      BY <1>7, <1>11, <2>2, <3>2 DEF Span
    <3>. QED
      BY <1>8, <3>1, <3>2
  <2>5. ASSUME NEW k \in Places(t, "ping"), k < u
        PROVE  Reach(c, t[k]) + t[u].size <= End(c)
    <3>1. k + 1 < u + 1
      BY <1>4, <2>2, <2>5
    <3>. QED
      BY <1>1, <1>11, <2>2, <3>1 DEF Span
  <2>6. ASSUME NEW j \in Places(t, "ping"), u < j
        PROVE  /\ t[u].size <= Reach(c, t[j])
               /\ \A k \in Places(more, "pong") :
                      Reach(c, more[k]) + t[u].size <= Reach(c, t[j])
               /\ \A k \in Places(t, "ping") : k < u =>
                    Reach(c, t[k]) + t[u].size <= Reach(c, t[j])
    <3>1. j + 1 \in Places(out, "ping") /\ t[j] = out[j + 1] /\ u + 1 < j + 1
      BY <1>1, <1>4, <2>2, <2>6
    <3>2. t[u].size <= Reach(c, t[j])
      BY <1>11, <2>2, <3>1 DEF Span
    <3>3. ASSUME NEW k \in Places(more, "pong")
          PROVE  Reach(c, more[k]) + t[u].size <= Reach(c, t[j])
      <4>1. CASE k = n
        BY <1>1, <1>9, <1>11, <2>2, <3>1, <4>1 DEF Span
      <4>2. CASE k \in Places(in, "pong")
        BY <1>7, <1>11, <2>2, <3>1, <4>2 DEF Span
      <4>. QED
        BY <1>8, <4>1, <4>2
    <3>4. ASSUME NEW k \in Places(t, "ping"), k < u
          PROVE  Reach(c, t[k]) + t[u].size <= Reach(c, t[j])
      <4>1. k + 1 < u + 1 /\ k + 1 \in Places(out, "ping") /\ t[k] = out[k + 1]
        BY <1>1, <1>4, <2>2, <3>4
      <4>. QED
        BY <1>11, <2>2, <3>1, <4>1 DEF Span
    <3>. QED
      BY <3>2, <3>3, <3>4
  <2>. QED
    BY <2>3, <2>4, <2>5, <2>6
<1>. QED
  BY <1>13, <1>14 DEF Ordered, t, more

-----------------------------------------------------------------------------
(***************************************************************************)
(* Updates that fill the window.                                           *)
(***************************************************************************)
Fills(out) == {i \in Places(out, "update") : \A w \in Windows : out[i].size >= w}

\* Every update is followed by a ping.
Followed(out) == \A u \in Places(out, "update") : u + 1 \in Places(out, "ping")

Backlog(out) == Followed(out) /\ Cardinality(Fills(out)) <= 2

\* They are finitely many.
LEMMA FillsFinite ==
  ASSUME NEW out \in Seq(ToViewer)
  PROVE  IsFiniteSet(Fills(out)) /\ Cardinality(Fills(out)) \in Nat
<1>1. Fills(out) \subseteq Places(out, "update")
  BY DEF Fills
<1>. QED
  BY <1>1, PlacesFinite, FS_Subset, FS_CardinalityType

\* Other messages add none.
LEMMA BacklogWrite ==
  ASSUME NEW out \in Seq(ToViewer), NEW m \in ToViewer,
         m.kind \notin {"ping", "update"}, Backlog(out)
  PROVE  Backlog(Append(out, m))
<1> DEFINE out2 == Append(out, m)
<1>1. Places(out2, "ping") = Places(out, "ping")
  BY OutAppend
<1>2. Places(out2, "update") = Places(out, "update")
  BY OutAppend
<1>3. \A i \in Places(out, "update") : out2[i] = out[i]
  BY PlacesFinite
<1> HIDE DEF out2
<1>4. Fills(out2) = Fills(out)
  BY <1>2, <1>3 DEF Fills
<1>. QED
  BY <1>1, <1>2, <1>4 DEF Backlog, Followed, out2

\* Reading takes none away from its ping.
LEMMA BacklogRead ==
  ASSUME NEW out \in Seq(ToViewer), out # <<>>, Backlog(out)
  PROVE  Backlog(Tail(out))
<1> DEFINE t == Tail(out)
<1>1. t \in Seq(ToViewer)
  BY HeadTailProperties
<1>2. \A i \in Places(out, "ping") : i > 1 => i - 1 \in Places(t, "ping")
  BY PlacesTail
<1>3. \A i \in Places(t, "update") : t[i] = out[i + 1] /\
          i + 1 \in Places(out, "update")
  BY PlacesTail
<1> HIDE DEF t
<1>4. \A i \in Places(t, "update") : i \in Int /\ i >= 1
  <2>1. Places(t, "update") \subseteq 1 .. Len(t) /\ Len(t) \in Nat
    BY <1>1, PlacesFinite, LenProperties
  <2>. QED
    BY <2>1
<1>5. Followed(t)
  <2>1. ASSUME NEW u \in Places(t, "update")
        PROVE  u + 1 \in Places(t, "ping")
    <3>1. (u + 1) + 1 \in Places(out, "ping")
      BY <1>3 DEF Backlog, Followed
    <3>2. (u + 1) + 1 > 1 /\ ((u + 1) + 1) - 1 = u + 1
      BY <1>4
    <3>. QED
      BY <1>2, <3>1, <3>2
  <2>. QED
    BY <2>1 DEF Followed
<1>6. Cardinality(Fills(t)) <= Cardinality(Fills(out))
  <2> DEFINE f == [i \in Fills(t) |-> i + 1]
  <2>1. \A i \in Fills(t) : i \in Int /\ i + 1 \in Fills(out)
    BY <1>3, <1>4 DEF Fills
  <2>2. f \in [Fills(t) -> Fills(out)]
    BY <2>1
  <2>3. \A i, j \in Fills(t) : f[i] = f[j] => i = j
    BY <2>1
  <2> HIDE DEF f
  <2>4. f \in Injection(Fills(t), Fills(out))
    BY <2>2, <2>3 DEF Injection, IsInjective
  <2>. QED
    BY <2>4, FillsFinite, FS_Injection
<1>7. Cardinality(Fills(t)) \in Nat /\ Cardinality(Fills(out)) \in Nat
  BY <1>1, FillsFinite
<1>8. Cardinality(Fills(out)) <= 2
  BY DEF Backlog
<1>. QED
  BY <1>5, <1>6, <1>7, <1>8 DEF Backlog, t

\* With two updates that fill the window on the way, the link is congested.
LEMMA NoThird ==
  ASSUME NEW c \in ServerRecord, NEW out \in Seq(ToViewer), NEW in \in Seq(ToServer),
         c.fence, Account(c, out, in), Ordered(c, out, in), Backlog(out),
         ~Congested(c)
  PROVE  Cardinality(Fills(out)) <= 1
<1>1. SUFFICES ASSUME Cardinality(Fills(out)) = 2
               PROVE  FALSE
  BY FillsFinite DEF Backlog
<1>2. PICK u \in Fills(out) : TRUE
  BY <1>1, FillsFinite, FS_EmptySet
<1>3. PICK v \in Fills(out) : v # u
  <2> DEFINE S == Fills(out)
  <2>1. IsFiniteSet(S) /\ Cardinality(S) = 2 /\ u \in S
    BY <1>1, <1>2, FillsFinite
  <2> HIDE DEF S
  <2>2. Cardinality(S \ {u}) = IF u \in S THEN Cardinality(S) - 1 ELSE Cardinality(S)
    BY <2>1, FS_RemoveElement
  <2>3. S \ {u} # {}
    <3>1. Cardinality(S \ {u}) # 0
      BY <2>1, <2>2
    <3>. QED
      BY <3>1, FS_EmptySet
  <2>. QED
    BY <2>3 DEF S
<1>4. /\ u \in Places(out, "update") /\ v \in Places(out, "update")
      /\ u + 1 \in Places(out, "ping") /\ v + 1 \in Places(out, "ping")
      /\ out[u].size >= c.window
  BY DEF Fills, Backlog, Followed, ServerRecord
<1>5. u \in Int /\ v \in Int
  BY <1>4, PlacesInt
<1>6. c.window \in Nat \ {0} /\ c.pings \in Nat
  BY FlowControlAssumption DEF ServerRecord
<1>7. /\ SentAt(c) \in Nat /\ End(c) \in Nat /\ out[u].size \in Nat
      /\ \A i \in Places(out, "ping") : Reach(c, out[i]) \in Nat
  BY <1>4, DistanceTypes
<1>8. c.pings # 1
  <2>1. IsFiniteSet(Places(out, "ping")) /\ Cardinality(Places(out, "ping")) \in Nat
    BY PlacesFinite
  <2>2. Cardinality(Places(in, "pong")) \in Nat
    BY PlacesFinite
  <2>3. /\ IsFiniteSet({u + 1} \cup {v + 1})
        /\ Cardinality({u + 1} \cup {v + 1}) = 2
    <3>1. IsFiniteSet({u + 1}) /\ Cardinality({u + 1}) = 1
      BY FS_Singleton
    <3>2. v + 1 \notin {u + 1}
      BY <1>3, <1>5
    <3> DEFINE S == {u + 1}
               x == v + 1
    <3>3. IsFiniteSet(S) /\ Cardinality(S) = 1 /\ x \notin S
      BY <3>1, <3>2
    <3> HIDE DEF S, x
    <3>4. IsFiniteSet(S \cup {x}) /\ Cardinality(S \cup {x}) = 2
      BY <3>3, FS_AddElement
    <3>. QED
      BY <3>4 DEF S, x
  <2>4. ({u + 1} \cup {v + 1}) \in SUBSET Places(out, "ping")
    BY <1>4
  <2>5. 2 <= Cardinality(Places(out, "ping"))
    BY <2>1, <2>3, <2>4, FS_Subset
  <2>. QED
    BY <2>1, <2>2, <2>5 DEF Account, Counted
<1>9. End(c) >= c.window
  <2>1. out[u].size <= End(c)
    BY <1>4 DEF Ordered, Span
  <2>. QED
    BY <1>4, <1>6, <1>7, <2>1
<1>10. c.sent # c.acked
  <2>1. u < u + 1
    BY <1>5
  <2>2. out[u].size <= Reach(c, out[u + 1])
    BY <1>4, <2>1 DEF Ordered, Span
  <2>3. Reach(c, out[u + 1]) <= SentAt(c)
    BY <1>4 DEF Ordered, Marks
  <2>4. SentAt(c) > 0
    BY <1>4, <1>6, <1>7, <2>2, <2>3, SMTT(40)
  <2>5. c.acked \in Offsets
    BY DEF ServerRecord
  <2>6. Before(c.acked, c.acked) = 0
    BY <2>5, WordAssumption DEF Before, Offsets
  <2>. QED
    BY <2>4, <2>6 DEF SentAt
<1>. QED
  BY <1>8, <1>9, <1>10 DEF Congested, Idle, End

-----------------------------------------------------------------------------
(***************************************************************************)
(* An update between two pings, for both parts of the invariant.           *)
(***************************************************************************)
LEMMA AccountSendPing ==
  ASSUME NEW p \in Pair, NEW in \in Seq(ToServer), Account(p.s, p.out, in)
  PROVE  Account(SendPing(p).s, SendPing(p).out, in)
<1>1. CASE p.s.fence
  BY <1>1, AccountPing
<1>2. CASE ~p.s.fence
  BY <1>2 DEF SendPing
<1>. QED
  BY <1>1, <1>2

\* An update between two pings keeps the account.
LEMMA AccountBurst ==
  ASSUME NEW q \in Pair, NEW size \in UpdateSizes, NEW in \in Seq(ToServer),
         Account(q.s, q.out, in)
  PROVE  Account(Burst(q, size).s, Burst(q, size).out, in)
<1> DEFINE q1 == SendPing(q)
           q2 == Write(q1, Update(size))
<1>1. Update(size) \in ToViewer /\ Update(size).kind # "ping"
  BY UpdateType
<1>2. q1 \in Pair /\ Account(q1.s, q1.out, in)
  BY SendPingType, AccountSendPing
<1> HIDE DEF q1
<1>3. q2 \in Pair /\ Account(q2.s, q2.out, in)
  BY <1>1, <1>2, WriteFacts, AccountWrite
<1> HIDE DEF q2
<1>4. Account(SendPing(q2).s, SendPing(q2).out, in)
  BY <1>3, AccountSendPing
<1>. QED
  BY <1>4 DEF Burst, q1, q2

\* It keeps the order, and moves the end of the stream by its size and theirs.
LEMMA OrderedBurst ==
  ASSUME NEW q \in Pair, q.s.fence, NEW size \in UpdateSizes, NEW in \in Seq(ToServer),
         Ordered(q.s, q.out, in), End(q.s) + size + 2 * FenceSize < Word
  PROVE  LET b == Burst(q, size)
         IN  /\ Ordered(b.s, b.out, in)
             /\ End(b.s) = End(q.s) + size + 2 * FenceSize
             /\ b.s.fence
<1> DEFINE q1 == SendPing(q)
           m  == Update(size)
           q2 == Write(q1, m)
           q3 == SendPing(q2)
<1>1. m \in ToViewer /\ m.kind # "ping" /\ Size(m) = size
  BY UpdateType
<1>2. size \in Nat /\ FenceSize \in Nat /\ End(q.s) \in Nat /\ Word \in Nat
  <2>1. q.s.acked \in Offsets /\ q.s.sock \in Offsets
    BY DEF Pair, ServerRecord
  <2>2. End(q.s) \in Offsets
    BY <2>1, BeforeType DEF End
  <2>. QED
    BY <2>2, WordAssumption, FlowControlAssumption DEF Offsets
<1>3. q1 \in Pair /\ q1.s.fence
  BY PingFacts
<1>4. Ordered(q1.s, q1.out, in) /\ End(q1.s) = End(q.s) + FenceSize
  <2>1. End(q.s) + FenceSize < Word
    BY <1>2
  <2>. QED
    BY <2>1, OrderedPing
<1> HIDE DEF q1, m
<1>5. q2 \in Pair /\ q2.s.fence
  <2>1. q2 \in Pair /\ SameButWritten(q1.s, q2.s)
    BY <1>1, <1>3, WriteFacts
  <2>. QED
    BY <1>3, <2>1 DEF SameButWritten
<1>6. Ordered(q2.s, q2.out, in) /\ End(q2.s) = End(q.s) + FenceSize + size
  <2>1. End(q1.s) + Size(m) < Word
    BY <1>1, <1>2, <1>4
  <2>2. Ordered(q2.s, q2.out, in) /\ End(q2.s) = End(q1.s) + Size(m)
    BY <1>1, <1>3, <1>4, <2>1, OrderedWrite
  <2>. QED
    BY <1>1, <1>2, <1>4, <2>2
<1> HIDE DEF q2
<1>7. q3.s.fence
  BY <1>5, PingFacts
<1>8. Ordered(q3.s, q3.out, in) /\ End(q3.s) = End(q.s) + size + 2 * FenceSize
  <2>1. End(q2.s) + FenceSize < Word
    BY <1>2, <1>6
  <2>2. Ordered(q3.s, q3.out, in) /\ End(q3.s) = End(q2.s) + FenceSize
    BY <1>5, <1>6, <2>1, OrderedPing
  <2>. QED
    BY <1>2, <1>6, <2>2
<1>9. Burst(q, size) = q3
  BY DEF Burst, q1, q2, m
<1>. QED
  BY <1>7, <1>8, <1>9

\* It is the second one on the way at most.
LEMMA BacklogBurst ==
  ASSUME NEW q \in Pair, q.s.fence, NEW size \in UpdateSizes,
         Followed(q.out), Cardinality(Fills(q.out)) <= 1
  PROVE  Backlog(Burst(q, size).out)
<1> DEFINE q1 == SendPing(q)
           m  == Update(size)
           q2 == Write(q1, m)
           q3 == SendPing(q2)
           out == q.out
           n == Len(out)
<1>1. m \in ToViewer /\ m.kind = "update"
  BY UpdateType
<1>2. out \in Seq(ToViewer)
  BY DEF Pair
<1>3. /\ q1 \in Pair /\ q1.s.fence
      /\ \E x \in ToViewer : x.kind = "ping" /\ q1.out = Append(out, x)
  <2>1. q.s.sock \in Offsets /\ q.s.acked \in Offsets
    BY DEF Pair, ServerRecord
  <2> DEFINE x == Ping(q.s.sock, Before(q.s.acked, q.s.sock))
  <2>2. x \in ToViewer /\ x.kind = "ping"
    BY <2>1, PingType, BeforeType
  <2> HIDE DEF x
  <2>3. q1 \in Pair /\ q1.s.fence /\ q1.out = Append(out, x)
    BY PingFacts DEF x
  <2>. QED
    BY <2>2, <2>3
<1> HIDE DEF q1, m, out
<1>4. /\ q2 \in Pair /\ q2.s.fence /\ q2.out = Append(q1.out, m)
  <2>1. q2 \in Pair /\ SameButWritten(q1.s, q2.s) /\ q2.out = Append(q1.out, m)
    BY <1>1, <1>3, WriteFacts
  <2>. QED
    BY <1>3, <2>1 DEF SameButWritten
<1> HIDE DEF q2
<1>5. \E x \in ToViewer : x.kind = "ping" /\ q3.out = Append(q2.out, x)
  <2>1. q2.s.sock \in Offsets /\ q2.s.acked \in Offsets
    BY <1>4 DEF Pair, ServerRecord
  <2> DEFINE x == Ping(q2.s.sock, Before(q2.s.acked, q2.s.sock))
  <2>2. x \in ToViewer /\ x.kind = "ping"
    BY <2>1, PingType, BeforeType
  <2> HIDE DEF x
  <2>3. q3.out = Append(q2.out, x)
    BY <1>4, PingFacts DEF x
  <2>. QED
    BY <2>2, <2>3
<1>6. PICK x \in ToViewer : x.kind = "ping" /\ q1.out = Append(out, x)
  BY <1>3
<1>7. PICK y \in ToViewer : y.kind = "ping" /\ q3.out = Append(q2.out, y)
  BY <1>5
<1> DEFINE o1 == Append(out, x)
           o2 == Append(o1, m)
           o3 == Append(o2, y)
<1>8. q3.out = o3
  BY <1>4, <1>6, <1>7
<1>9. o1 \in Seq(ToViewer) /\ Len(o1) = n + 1 /\ n \in Nat
  BY <1>2, <1>6, AppendProperties, LenProperties
<1>10. /\ Places(o1, "ping") = Places(out, "ping") \cup {n + 1}
       /\ Places(o1, "update") = Places(out, "update")
  <2>1. Places(o1, "ping") = Places(out, "ping") \cup {n + 1}
    BY <1>2, <1>6, OutAppend, ZenonT(60)
  <2>2. Places(o1, "update") = Places(out, "update")
    BY <1>2, <1>6, OutAppend
  <2>. QED
    BY <2>1, <2>2
<1>11. \A i \in 1 .. n : o1[i] = out[i]
  BY <1>2
<1> HIDE DEF o1
<1>12. o2 \in Seq(ToViewer) /\ Len(o2) = n + 2
  BY <1>1, <1>9, AppendProperties
<1>13. /\ Places(o2, "ping") = Places(out, "ping") \cup {n + 1}
       /\ Places(o2, "update") = Places(out, "update") \cup {n + 2}
  <2>0. o1 \in Seq(ToViewer)
    BY <1>9
  <2>1. Places(o2, "ping") = Places(o1, "ping")
    BY <1>1, <2>0, OutAppend
  <2>2. Places(o2, "update") = Places(o1, "update") \cup {Len(o1) + 1}
    BY <1>1, <2>0, OutAppend
  <2>3. Len(o1) + 1 = n + 2
    BY <1>9
  <2>. QED
    BY <1>10, <2>1, <2>2, <2>3
<1>14. \A i \in 1 .. n + 1 : o2[i] = o1[i]
  BY <1>9
<1> HIDE DEF o2
<1>15. /\ Places(o3, "ping") = Places(out, "ping") \cup {n + 1, n + 3}
       /\ Places(o3, "update") = Places(out, "update") \cup {n + 2}
  <2>1. Places(o3, "ping") = Places(o2, "ping") \cup {Len(o2) + 1}
    BY <1>7, <1>12, OutAppend
  <2>2. Places(o3, "update") = Places(o2, "update")
    BY <1>7, <1>12, OutAppend
  <2>3. Len(o2) + 1 = n + 3
    BY <1>9, <1>12
  <2>. QED
    BY <1>13, <2>1, <2>2, <2>3
<1>16. \A i \in 1 .. n + 2 : o3[i] = o2[i]
  BY <1>12
<1> HIDE DEF o3
<1>17. Followed(o3)
  <2>1. (n + 2) + 1 = n + 3
    BY <1>9
  <2>2. Followed(out)
    BY DEF out
  <2>. QED
    BY <1>15, <2>1, <2>2 DEF Followed
<1>18. Fills(o3) \subseteq Fills(out) \cup {n + 2}
  <2>1. Places(out, "update") \subseteq 1 .. n
    BY <1>2, PlacesFinite
  <2>2. \A i \in Places(out, "update") : o3[i] = out[i]
    BY <1>9, <1>11, <1>14, <1>16, <2>1
  <2>. QED
    BY <1>15, <2>2 DEF Fills
<1>19. Cardinality(Fills(o3)) <= 2
  <2>1. /\ IsFiniteSet(Fills(out)) /\ Cardinality(Fills(out)) \in Nat
        /\ Cardinality(Fills(out)) <= 1
    BY <1>2, FillsFinite DEF out
  <2> DEFINE S == Fills(out)
             k == n + 2
  <2> HIDE DEF S, k
  <2>2. IsFiniteSet(S \cup {k}) /\ Cardinality(S \cup {k}) <= 2 /\
            Cardinality(S \cup {k}) \in Nat
    <3>1. IsFiniteSet(S) /\ Cardinality(S) \in Nat /\ Cardinality(S) <= 1
      BY <2>1 DEF S
    <3>. QED
      BY <3>1, FS_AddElement, SMTT(40)
  <2>3. Fills(o3) \in SUBSET (S \cup {k})
    BY <1>18 DEF S, k
  <2>4. Cardinality(Fills(o3)) <= Cardinality(S \cup {k}) /\ IsFiniteSet(Fills(o3))
    BY <2>2, <2>3, FS_Subset
  <2>5. Cardinality(Fills(o3)) \in Nat
    BY <2>4, FS_CardinalityType
  <2>. QED
    BY <2>2, <2>4, <2>5
<1>20. Burst(q, size) = q3
  BY DEF Burst, q1, q2, m
<1>. QED
  BY <1>8, <1>17, <1>19, <1>20 DEF Backlog

-----------------------------------------------------------------------------
(***************************************************************************)
(* What handling a message does to the link.                               *)
(***************************************************************************)
Kept(p, h) == h.out = p.out /\ SameLink(p.s, h.s)

\* An update was sent, to a link that was found uncongested.
Sent(p, h, size) ==
  \E x, q \in Pair :
    /\ Kept(p, x) /\ ~Congested(x.s)
    /\ Kept(p, q) /\ Kept(Burst(q, size), h)

Greeting(p) ==
    Write(Write([p EXCEPT !.s.fence = TRUE], Plain("probe")), Plain("endOfCU"))

\* What is kept twice is kept.
LEMMA KeptTransitive ==
  ASSUME NEW p, NEW q, NEW r, Kept(p, q), Kept(q, r)
  PROVE  Kept(p, r)
BY DEF Kept, SameLink

\* An attempt keeps the link or sends an update.
LEMMA AttemptKeeps ==
  ASSUME NEW p \in Pair, NEW syncing \in BOOLEAN, NEW size \in UpdateSizes
  PROVE  LET a == Attempt(p, syncing, size)
         IN  a \in Pair /\ (Kept(p, a) \/ Sent(p, a, size))
<1> DEFINE a == Attempt(p, syncing, size)
<1>1. a \in Pair /\ (Quiet(p, a) \/ Sends(p, a, size))
  BY AttemptCases
<1> HIDE DEF a
<1>2. Kept(p, p)
  BY DEF Kept, SameLink
<1>3. ASSUME Sends(p, a, size)
      PROVE  Sent(p, a, size)
  <2>1. PICK q \in Pair : Kept(p, q) /\ Kept(Burst(q, size), a)
    BY <1>3 DEF Sends, Kept
  <2>. QED
    BY <1>2, <1>3, <2>1 DEF Sends, Sent
<1>. QED
  BY <1>1, <1>3 DEF Quiet, Kept, a

\* The record before an attempt is as good as the one it starts from.
LEMMA SentFrom ==
  ASSUME NEW p \in Pair, NEW r \in Pair, NEW h, NEW k, NEW size,
         Kept(p, r), Kept(h, k), Sent(r, h, size)
  PROVE  Sent(p, k, size)
BY KeptTransitive DEF Sent

\* The record with what a request asks for.
LEMMA RequestRecord ==
  ASSUME NEW p \in Pair, NEW v, NEW w
  PROVE  [p EXCEPT !.s.requested = v, !.s.modified = w] =
           [s |-> [p.s EXCEPT !.requested = v, !.modified = w], out |-> p.out]
<1> DEFINE d == [p.s EXCEPT !.requested = v]
           e == [p EXCEPT !.s = d]
<1>1. e = [s |-> d, out |-> p.out]
  BY DEF Pair
<1>2. [p EXCEPT !.s.requested = v, !.s.modified = w] = [e EXCEPT !.s.modified = w]
  BY DEF Pair
<1>3. [p.s EXCEPT !.requested = v, !.modified = w] = [d EXCEPT !.modified = w]
  OBVIOUS
<1> HIDE DEF d, e
<1>4. [e EXCEPT !.s.modified = w] = [s |-> [d EXCEPT !.modified = w], out |-> p.out]
  BY <1>1
<1>. QED
  BY <1>2, <1>3, <1>4

\* The record with continuous updates.
LEMMA EnableRecord ==
  ASSUME NEW p \in Pair, NEW v, NEW w
  PROVE  [p EXCEPT !.s.continuous = v, !.s.requested = w] =
           [s |-> [p.s EXCEPT !.continuous = v, !.requested = w], out |-> p.out]
<1> DEFINE d == [p.s EXCEPT !.continuous = v]
           e == [p EXCEPT !.s = d]
<1>1. e = [s |-> d, out |-> p.out]
  BY DEF Pair
<1>2. [p EXCEPT !.s.continuous = v, !.s.requested = w] = [e EXCEPT !.s.requested = w]
  BY DEF Pair
<1>3. [p.s EXCEPT !.continuous = v, !.requested = w] = [d EXCEPT !.requested = w]
  OBVIOUS
<1> HIDE DEF d, e
<1>4. [e EXCEPT !.s.requested = w] = [s |-> [d EXCEPT !.requested = w], out |-> p.out]
  BY <1>1
<1>. QED
  BY <1>2, <1>3, <1>4

\* A request keeps the link or sends an update.
LEMMA RequestKeeps ==
  ASSUME NEW p \in Pair, NEW incremental \in BOOLEAN, NEW syncing \in BOOLEAN,
         NEW elapsed \in BOOLEAN, NEW size \in UpdateSizes
  PROVE  LET h == HandleRequest(p, incremental, syncing, elapsed, size)
         IN  h \in Pair /\ (Kept(p, h) \/ Sent(p, h, size))
<1> DEFINE h == HandleRequest(p, incremental, syncing, elapsed, size)
           c ==
               [p.s EXCEPT !.requested = p.s.requested \/ ~incremental \/ ~p.s.continuous,
                            !.modified = p.s.modified \/ ~incremental]
           asked == [s |-> c, out |-> p.out]
           a == Attempt(asked, syncing, size)
<1>1. p.s \in ServerRecord /\ p.out \in Seq(ToViewer) /\
          p = [s |-> p.s, out |-> p.out]
  BY DEF Pair
<1>2. c \in ServerRecord /\ SameLink(p.s, c)
  BY <1>1, ZenonT(60) DEF ServerRecord, SameLink
<1>3. asked = [p EXCEPT !.s.requested = @ \/ ~incremental \/ ~p.s.continuous,
                        !.s.modified = @ \/ ~incremental]
  BY RequestRecord
<1> HIDE DEF c
<1>4. asked \in Pair /\ Kept(p, asked)
  BY <1>1, <1>2 DEF Pair, Kept
<1>5. h = IF asked.s.modified /\ (~asked.s.deferred \/ elapsed)
          THEN [a EXCEPT !.s.deferred = FALSE] ELSE asked
  BY <1>3 DEF HandleRequest
<1> HIDE DEF asked, h
<1>6. a \in Pair /\ (Kept(asked, a) \/ Sent(asked, a, size))
  BY <1>4, AttemptKeeps
<1> HIDE DEF a
<1>7. CASE h = asked
  BY <1>4, <1>7 DEF h
<1>8. CASE h = [a EXCEPT !.s.deferred = FALSE]
  <2> DEFINE d == [a.s EXCEPT !.deferred = FALSE]
  <2>1. a.s \in ServerRecord /\ a.out \in Seq(ToViewer) /\
            a = [s |-> a.s, out |-> a.out]
    BY <1>6 DEF Pair
  <2>2. d \in ServerRecord /\ SameLink(a.s, d)
    BY <2>1 DEF ServerRecord, SameLink
  <2>3. h.s = d /\ h.out = a.out /\ h = [s |-> d, out |-> a.out]
    BY <1>8, <2>1
  <2> HIDE DEF d
  <2>4. h \in Pair /\ Kept(a, h)
    BY <2>1, <2>2, <2>3 DEF Pair, Kept
  <2>5. CASE Kept(asked, a)
    <3>1. Kept(asked, h)
      BY <2>4, <2>5, KeptTransitive
    <3>2. Kept(p, h)
      BY <1>4, <3>1, KeptTransitive
    <3>. QED
      BY <2>4, <3>2 DEF h
  <2>6. CASE Sent(asked, a, size)
    <3>1. Sent(p, h, size)
      BY <1>4, <2>4, <2>6, SentFrom
    <3>. QED
      BY <2>4, <3>1 DEF h
  <2>. QED
    BY <1>6, <2>5, <2>6
<1>. QED
  BY <1>5, <1>7, <1>8

\* So does the message that turns on continuous updates.
LEMMA EnableKeeps ==
  ASSUME NEW p \in Pair, NEW syncing \in BOOLEAN, NEW size \in UpdateSizes
  PROVE  LET h == HandleEnable(p, syncing, size)
         IN  h \in Pair /\ (Kept(p, h) \/ Sent(p, h, size))
<1> DEFINE h == HandleEnable(p, syncing, size)
           c == [p.s EXCEPT !.continuous = TRUE, !.requested = FALSE]
           asked == [s |-> c, out |-> p.out]
           a == Attempt(asked, syncing, size)
<1>1. p.s \in ServerRecord /\ p.out \in Seq(ToViewer) /\
          p = [s |-> p.s, out |-> p.out]
  BY DEF Pair
<1>2. c \in ServerRecord /\ SameLink(p.s, c)
  BY <1>1 DEF ServerRecord, SameLink
<1>3. asked = [p EXCEPT !.s.continuous = TRUE, !.s.requested = FALSE]
  BY EnableRecord
<1> HIDE DEF c
<1>4. asked \in Pair /\ Kept(p, asked)
  BY <1>1, <1>2 DEF Pair, Kept
<1>5. h = IF ~p.s.fence THEN p ELSE a
  BY <1>3 DEF HandleEnable
<1> HIDE DEF asked, h
<1>6. a \in Pair /\ (Kept(asked, a) \/ Sent(asked, a, size))
  BY <1>4, AttemptKeeps
<1> HIDE DEF a
<1>7. Kept(p, p) /\ Kept(a, a)
  BY DEF Kept, SameLink
<1>8. Kept(asked, a) => Kept(p, a)
  BY <1>4, KeptTransitive
<1>9. Sent(asked, a, size) => Sent(p, a, size)
  BY <1>4, <1>7, SentFrom
<1>. QED
  BY <1>5, <1>6, <1>7, <1>8, <1>9 DEF h

\* So does every message but a pong and the first encodings.
LEMMA HandleCases ==
  ASSUME NEW p \in Pair, NEW m \in ToServer, m.kind # "pong",
         NEW syncing \in BOOLEAN, NEW elapsed \in BOOLEAN, NEW size \in UpdateSizes
  PROVE  LET h == Handle(p, m, syncing, elapsed, size)
         IN  \/ h \in Pair /\ (Kept(p, h) \/ Sent(p, h, size))
                /\ (m.kind = "encodings" => p.s.fence)
             \/ m.kind = "encodings" /\ ~p.s.fence /\ h = Greeting(p)
<1> DEFINE h == Handle(p, m, syncing, elapsed, size)
<1>1. Kept(p, p)
  BY DEF Kept, SameLink
<1>2. CASE m.kind = "encodings"
  <2>1. h = HandleEncodings(p)
    BY <1>2 DEF Handle
  <2> HIDE DEF h
  <2>2. p.s.fence => h = p
    BY <2>1 DEF HandleEncodings
  <2>3. ~p.s.fence => h = Greeting(p)
    BY <2>1 DEF HandleEncodings, Greeting
  <2>. QED
    BY <1>1, <1>2, <2>2, <2>3 DEF h
<1>3. CASE m.kind = "sync"
  <2> DEFINE d == [p.s EXCEPT !.pendingSync = TRUE]
  <2>1. p.s \in ServerRecord /\ p.out \in Seq(ToViewer) /\
            p = [s |-> p.s, out |-> p.out]
    BY DEF Pair
  <2>2. d \in ServerRecord /\ SameLink(p.s, d)
    BY <2>1 DEF ServerRecord, SameLink
  <2>3. h = [p EXCEPT !.s.pendingSync = TRUE]
    BY <1>3 DEF Handle
  <2> HIDE DEF h
  <2>4. h = [s |-> d, out |-> p.out]
    BY <2>1, <2>3
  <2> HIDE DEF d
  <2>5. h \in Pair /\ Kept(p, h)
    BY <2>1, <2>2, <2>4 DEF Pair, Kept
  <2>. QED
    BY <1>3, <2>5 DEF h
<1>4. CASE m.kind = "request"
  <2>1. m.incremental \in BOOLEAN
    BY <1>4 DEF ToServer, Stamped, Bare
  <2>2. h = HandleRequest(p, m.incremental, syncing, elapsed, size)
    BY <1>4 DEF Handle
  <2> HIDE DEF h
  <2>3. h \in Pair /\ (Kept(p, h) \/ Sent(p, h, size))
    BY <2>1, <2>2, RequestKeeps
  <2>. QED
    BY <1>4, <2>3 DEF h
<1>5. CASE m.kind = "enable"
  <2>1. h = HandleEnable(p, syncing, size)
    BY <1>5 DEF Handle
  <2> HIDE DEF h
  <2>2. h \in Pair /\ (Kept(p, h) \/ Sent(p, h, size))
    BY <2>1, EnableKeeps
  <2>. QED
    BY <1>5, <2>2 DEF h
<1>6. CASE m.kind \in {"probed", "input"}
  <2>1. h = p
    BY <1>6 DEF Handle
  <2>. QED
    BY <1>1, <1>6, <2>1
<1>7. m.kind \in {"encodings", "pong", "sync", "request", "enable", "probed", "input"}
  BY DEF ToServer, Stamped, Bare
<1>. QED
  BY <1>2, <1>3, <1>4, <1>5, <1>6, <1>7

-----------------------------------------------------------------------------
(***************************************************************************)
(* What holds of every link.                                               *)
(***************************************************************************)
ViewerRecord == [supportsFence: BOOLEAN, supportsCU: BOOLEAN,
                 continuous: BOOLEAN, first: BOOLEAN]

\* Before the viewer has sent its encodings nothing was asked for.
Start(c, out, in) ==
  ~c.fence =>
    /\ ~c.requested /\ ~c.continuous /\ ~c.measured
    /\ \A i \in DOMAIN out : out[i].kind = "data"
    /\ in = <<Plain("encodings"), Request(FALSE)>>

Types == /\ s \in ServerRecord /\ viewer \in ViewerRecord
         /\ toViewer \in Seq(ToViewer) /\ toServer \in Seq(ToServer)

LinkInv ==
  /\ Types
  /\ Account(s, toViewer, toServer)
  /\ Start(s, toViewer, toServer)

\* The record without the suppressed message, and with its first fence.
LEMMA DeferredRecord ==
  ASSUME NEW p \in Pair, NEW v
  PROVE  [p EXCEPT !.s.deferred = v] = [s |-> [p.s EXCEPT !.deferred = v], out |-> p.out]
BY DEF Pair

\* The record with fences.
LEMMA FenceRecord ==
  ASSUME NEW p \in Pair, NEW v
  PROVE  [p EXCEPT !.s.fence = v] = [s |-> [p.s EXCEPT !.fence = v], out |-> p.out]
BY DEF Pair

\* The server's side of the state is a record with its messages.
LEMMA HereType ==
  ASSUME LinkInv
  PROVE  Here \in Pair /\ Here.s = s /\ Here.out = toViewer
BY DEF LinkInv, Types, Here, Pair

\* The messages without content.
LEMMA PlainTypes ==
  /\ \A kind \in {"probe", "reply", "endOfCU"} :
       Plain(kind) \in ToViewer /\ Plain(kind).kind = kind
  /\ \A kind \in {"encodings", "probed", "sync", "enable", "input"} :
       Plain(kind) \in ToServer /\ Plain(kind).kind = kind
  /\ \A incremental \in BOOLEAN :
       Request(incremental) \in ToServer /\ Request(incremental).kind = "request"
<1>1. \A kind \in {"probe", "reply", "endOfCU"} :
        Plain(kind) \in ToViewer /\ Plain(kind).kind = kind
  BY DEF Plain, ToViewer, Bare
<1>2. \A kind \in {"encodings", "probed", "sync", "enable", "input"} :
        Plain(kind) \in ToServer /\ Plain(kind).kind = kind
  BY DEF Plain, ToServer, Bare
<1>3. \A incremental \in BOOLEAN :
        Request(incremental) \in ToServer /\ Request(incremental).kind = "request"
  BY DEF Request, ToServer
<1>. QED
  BY <1>1, <1>2, <1>3

\* An update does not change whether there are fences.
LEMMA BurstFence ==
  ASSUME NEW q \in Pair, NEW size \in UpdateSizes
  PROVE  Burst(q, size).s.fence = q.s.fence
<1>1. \A p \in Pair : SendPing(p).s.fence = p.s.fence
  <2> TAKE p \in Pair
  <2>1. CASE p.s.fence
    BY <2>1, PingFacts, ZenonT(60)
  <2>2. CASE ~p.s.fence
    BY <2>2 DEF SendPing
  <2>. QED
    BY <2>1, <2>2
<1>2. SendPing(q) \in Pair
  BY SendPingType
<1>3. /\ Write(SendPing(q), Update(size)) \in Pair
      /\ Write(SendPing(q), Update(size)).s.fence = SendPing(q).s.fence
  BY <1>2, UpdateType, WriteFacts DEF SameButWritten
<1>. QED
  BY <1>1, <1>3 DEF Burst

\* An attempt on a link that has not been asked for anything sends nothing.
LEMMA AttemptUnasked ==
  ASSUME NEW p \in Pair, NEW syncing \in BOOLEAN, NEW size \in UpdateSizes,
         ~p.s.requested, ~p.s.continuous
  PROVE  LET a == Attempt(p, syncing, size)
         IN  a \in Pair /\ Kept(p, a) /\ ~a.s.requested /\ ~a.s.continuous
<1> DEFINE a == Attempt(p, syncing, size)
<1>1. a \in Pair /\ (Quiet(p, a) \/ Sends(p, a, size))
  BY AttemptCases
<1> HIDE DEF a
<1>2. Quiet(p, a)
  BY <1>1 DEF Sends
<1>. QED
  BY <1>1, <1>2 DEF Quiet, Kept, a

Opened(h, size) ==
  \/ s.fence /\ (Kept(Here, h) \/ Sent(Here, h, size))
  \/ ~s.fence /\ Kept(Here, h) /\ ~h.s.requested /\ ~h.s.continuous

\* The attempts that the server makes on its own.
LEMMA OwnAttempt ==
  ASSUME LinkInv, DeferredUpdate \/ RetryUpdate
  PROVE  /\ \E h \in Pair, size \in UpdateSizes :
              s' = h.s /\ toViewer' = h.out /\ Opened(h, size)
         /\ UNCHANGED <<viewer, toServer>>
<1>1. Here \in Pair /\ Here.s = s /\ Here.out = toViewer
  BY HereType
<1>2. ASSUME NEW size \in UpdateSizes
      PROVE  Attempt(Here, FALSE, size) \in Pair /\
                 Opened(Attempt(Here, FALSE, size), size)
  <2>1. CASE s.fence
    BY <1>1, <2>1, AttemptKeeps DEF Opened
  <2>2. CASE ~s.fence
    <3>1. ~Here.s.requested /\ ~Here.s.continuous
      BY <1>1, <2>2 DEF LinkInv, Start
    <3>. QED
      BY <1>1, <2>2, <3>1, AttemptUnasked DEF Opened
  <2>. QED
    BY <2>1, <2>2
<1>3. ASSUME RetryUpdate
      PROVE  \E h \in Pair, size \in UpdateSizes :
               s' = h.s /\ toViewer' = h.out /\ Opened(h, size)
  BY <1>2, <1>3 DEF RetryUpdate, Becomes
<1>4. ASSUME DeferredUpdate
      PROVE  \E h \in Pair, size \in UpdateSizes :
               s' = h.s /\ toViewer' = h.out /\ Opened(h, size)
  <2>1. PICK size \in UpdateSizes :
          Becomes([IF s.modified THEN Attempt(Here, FALSE, size) ELSE Here
                     EXCEPT !.s.deferred = FALSE])
    BY <1>4 DEF DeferredUpdate
  <2> DEFINE a == IF s.modified THEN Attempt(Here, FALSE, size) ELSE Here
             d == [a.s EXCEPT !.deferred = FALSE]
             h == [s |-> d, out |-> a.out]
  <2>2. a \in Pair /\ Opened(a, size)
    <3>1. Kept(Here, Here)
      BY DEF Kept, SameLink
    <3>2. Opened(Here, size)
      BY <1>1, <3>1 DEF Opened, LinkInv, Start
    <3>. QED
      BY <1>1, <1>2, <3>2
  <2> HIDE DEF a
  <2>3. a.s \in ServerRecord /\ a.out \in Seq(ToViewer) /\
            a = [s |-> a.s, out |-> a.out]
    BY <2>2 DEF Pair
  <2>4. /\ d \in ServerRecord /\ SameLink(a.s, d)
        /\ d.requested = a.s.requested /\ d.continuous = a.s.continuous
    BY <2>3 DEF ServerRecord, SameLink
  <2>5. Becomes(h)
    <3>1. [a EXCEPT !.s.deferred = FALSE] = h
      BY <2>2, DeferredRecord
    <3>. QED
      BY <2>1, <3>1 DEF a
  <2> HIDE DEF d
  <2>6. h \in Pair /\ h.s = d /\ h.out = a.out /\ Kept(a, h)
    BY <2>3, <2>4 DEF Pair, Kept
  <2> HIDE DEF h
  <2>7. Opened(h, size)
    <3>1. CASE s.fence /\ Kept(Here, a)
      BY <2>6, <3>1, KeptTransitive DEF Opened
    <3>2. CASE s.fence /\ Sent(Here, a, size)
      <4>1. Kept(Here, Here)
        BY DEF Kept, SameLink
      <4>. QED
        BY <1>1, <2>6, <3>2, <4>1, SentFrom DEF Opened
    <3>3. CASE ~s.fence /\ Kept(Here, a) /\ ~a.s.requested /\ ~a.s.continuous
      <4>1. Kept(Here, h)
        BY <2>6, <3>3, KeptTransitive
      <4>. QED
        BY <2>4, <2>6, <3>3, <4>1 DEF Opened
    <3>. QED
      BY <2>2, <3>1, <3>2, <3>3 DEF Opened
  <2>. QED
    BY <2>5, <2>6, <2>7 DEF Becomes
<1>5. UNCHANGED <<viewer, toServer>>
  BY DEF DeferredUpdate, RetryUpdate, ViewerKeeps
<1>. QED
  BY <1>3, <1>4, <1>5

\* The record after the answer to a ping.
Acked(h) ==
  /\ h.out = toViewer /\ h.s.fence
  /\ h.s.pings = s.pings - 1 /\ h.s.sent = s.sent /\ h.s.sock = s.sock
  /\ h.s.acked = Head(toServer).offset

\* The first answer to the viewer's encodings.
Greets(h) ==
  \E q \in Pair :
    /\ q.out = toViewer /\ q.s.fence
    /\ q.s.sock = s.sock /\ q.s.sent = s.sent /\ q.s.acked = s.acked
    /\ q.s.pings = s.pings /\ q.s.measured = s.measured
    /\ h = Write(Write(q, Plain("probe")), Plain("endOfCU"))

Handled(h, size) ==
  \/ Head(toServer).kind # "pong" /\ s.fence /\
      (Kept(Here, h) \/ Sent(Here, h, size))
  \/ Head(toServer).kind = "pong" /\ s.fence /\ Acked(h)
  \/ Head(toServer).kind # "pong" /\ ~s.fence /\ Greets(h)

\* What the server does with a message.
LEMMA ReceiveCases ==
  ASSUME LinkInv, ServerReceives
  PROVE  /\ toServer # <<>> /\ toServer' = Tail(toServer) /\ viewer' = viewer
         /\ \E h \in Pair, size \in UpdateSizes :
              /\ Handled(h, size)
              /\ \/ s' = h.s /\ toViewer' = h.out
                 \/ /\ s' = Write(h, Plain("reply")).s
                    /\ toViewer' = Write(h, Plain("reply")).out
<1>1. toServer # <<>> /\ toServer' = Tail(toServer) /\ viewer' = viewer
  BY DEF ServerReceives
<1> DEFINE p == [s |-> [s EXCEPT !.pendingSync = FALSE], out |-> toViewer]
           m == Head(toServer)
<1>2. PICK elapsed \in BOOLEAN, size \in UpdateSizes :
        LET done == Handle(p, m, s.pendingSync, elapsed, size)
            end  == IF s.pendingSync THEN Write(done, Plain("reply")) ELSE done
        IN  s' = end.s /\ toViewer' = end.out
  BY DEF ServerReceives
<1> DEFINE h == Handle(p, m, s.pendingSync, elapsed, size)
<1>3. /\ s \in ServerRecord /\ toViewer \in Seq(ToViewer) /\
             toServer \in Seq(ToServer)
      /\ s.pendingSync \in BOOLEAN
  BY DEF LinkInv, Types, ServerRecord
<1>4. m \in ToServer
  BY <1>1, <1>3, HeadTailProperties
<1>5. Here \in Pair /\ Here.s = s /\ Here.out = toViewer
  BY HereType
<1>6. /\ p \in Pair /\ p.out = toViewer /\ SameLink(s, p.s)
  <2> DEFINE c == [s EXCEPT !.pendingSync = FALSE]
  <2>1. c \in ServerRecord /\ SameLink(s, c)
    BY <1>3 DEF ServerRecord, SameLink
  <2>2. p = [s |-> c, out |-> toViewer]
    OBVIOUS
  <2> HIDE DEF c, p
  <2>. QED
    BY <1>3, <2>1, <2>2 DEF Pair
<1>7. Kept(Here, p)
  BY <1>5, <1>6 DEF Kept
<1>8. h \in Pair /\ Handled(h, size)
  <2> HIDE DEF p, m
  <2>1. ~s.fence => m.kind = "encodings"
    <3>1. ~s.fence => m = Plain("encodings")
      <4>1. ~s.fence => toServer = <<Plain("encodings"), Request(FALSE)>>
        BY DEF LinkInv, Start
      <4>2. Head(<<Plain("encodings"), Request(FALSE)>>) = Plain("encodings")
        OBVIOUS
      <4>. QED
        BY <4>1, <4>2 DEF m
    <3>. QED
      BY <3>1 DEF Plain
  <2>2. p.s.fence = s.fence
    BY <1>6 DEF SameLink
  <2>3. CASE m.kind # "pong" /\ s.fence
    <3> HIDE DEF h
    <3>1. h \in Pair /\ (Kept(p, h) \/ Sent(p, h, size))
      BY <1>3, <1>4, <1>6, <2>2, <2>3, HandleCases DEF h
    <3>2. Kept(p, h) => Kept(Here, h)
      BY <1>7, KeptTransitive
    <3>3. Sent(p, h, size) => Sent(Here, h, size)
      <4>1. Kept(h, h)
        BY DEF Kept, SameLink
      <4>. QED
        BY <1>5, <1>6, <1>7, <4>1, SentFrom
    <3>. QED
      BY <2>3, <3>1, <3>2, <3>3 DEF Handled, m
  <2>4. CASE m.kind = "pong" /\ s.fence
    <3> DEFINE d == [p.s EXCEPT !.pings = p.s.pings - 1, !.acked = m.offset,
                                !.measured = TRUE,
                                !.seen = p.s.seen \/ m.inFlight > p.s.window]
    <3>1. h = HandlePong(p, m)
      BY <2>4 DEF Handle
    <3> HIDE DEF h
    <3>2. m.offset \in Offsets /\ m.inFlight \in Offsets
      BY <1>4, <2>4 DEF ToServer, Stamped, Bare
    <3>3. p.s \in ServerRecord /\ p = [s |-> p.s, out |-> p.out]
      BY <1>6 DEF Pair
    <3>4. /\ h.s = d /\ h.out = p.out /\ h = [s |-> h.s, out |-> h.out]
      <4>1. h.s = d
        BY <3>1, <3>3 DEF HandlePong, ServerRecord
      <4>2. h.out = p.out
        BY <1>6, <3>1 DEF HandlePong, Pair
      <4>3. h = [s |-> h.s, out |-> h.out]
        BY <1>6, <3>1 DEF HandlePong, Pair
      <4>. QED
        BY <4>1, <4>2, <4>3
    <3>5. /\ d.pings = p.s.pings - 1 /\ d.acked = m.offset /\ d.sent = p.s.sent
          /\ d.sock = p.s.sock /\ d.fence = p.s.fence
      BY <3>3 DEF ServerRecord
    <3>6. d.pings \in Nat
      <4> HIDE DEF d
      <4>1. d.pings = s.pings - 1 /\ d.sent = s.sent
        BY <1>6, <3>5 DEF SameLink
      <4>2. Account(s, toViewer, toServer)
        BY DEF LinkInv
      <4>. QED
        BY <1>1, <1>3, <2>4, <3>5, <4>1, <4>2, AccountPong DEF m
    <3>7. d \in ServerRecord
      BY <3>2, <3>3, <3>5, <3>6 DEF ServerRecord
    <3> HIDE DEF d
    <3>8. h \in Pair
      BY <1>3, <1>6, <3>4, <3>7 DEF Pair
    <3>9. Acked(h)
      BY <1>6, <2>4, <3>4, <3>5 DEF Acked, SameLink, m
    <3>. QED
      BY <2>4, <3>8, <3>9 DEF Handled, m
  <2>5. CASE ~s.fence
    <3> HIDE DEF h
    <3>1. m.kind = "encodings" /\ ~p.s.fence
      BY <2>1, <2>2, <2>5
    <3>2. h = Greeting(p)
      BY <1>3, <1>4, <1>6, <3>1, HandleCases DEF h
    <3> DEFINE c == [p.s EXCEPT !.fence = TRUE]
               q == [s |-> c, out |-> p.out]
    <3>3. p.s \in ServerRecord /\ p = [s |-> p.s, out |-> p.out]
      BY <1>6 DEF Pair
    <3>4. /\ c \in ServerRecord /\ c.fence /\ c.sock = p.s.sock /\ c.sent = p.s.sent
          /\ c.acked = p.s.acked /\ c.pings = p.s.pings /\ c.measured = p.s.measured
      BY <3>3 DEF ServerRecord
    <3>5. [p EXCEPT !.s.fence = TRUE] = q
      BY <1>6, FenceRecord
    <3> HIDE DEF c
    <3>6. q \in Pair
      BY <1>3, <1>6, <3>4 DEF Pair
    <3>7. Greets(h)
      BY <1>6, <3>2, <3>4, <3>5, <3>6 DEF Greets, Greeting, SameLink
    <3>8. h \in Pair
      <4>1. Write(q, Plain("probe")) \in Pair
        BY <3>6, PlainTypes, WriteFacts
      <4>2. Write(Write(q, Plain("probe")), Plain("endOfCU")) \in Pair
        BY <4>1, PlainTypes, WriteFacts
      <4>. QED
        BY <3>2, <3>5, <4>2 DEF Greeting
    <3>. QED
      BY <2>5, <3>1, <3>7, <3>8 DEF Handled, m
  <2>. QED
    BY <2>3, <2>4, <2>5
<1> HIDE DEF h
<1>9. \/ s' = h.s /\ toViewer' = h.out
      \/ /\ s' = Write(h, Plain("reply")).s
         /\ toViewer' = Write(h, Plain("reply")).out
  BY <1>2 DEF h
<1>. QED
  BY <1>1, <1>8, <1>9

\* What the viewer does with a message.
Answers(e) ==
  /\ toServer' = toServer \o e
  /\ \A i \in 1 .. Len(e) : e[i].kind # "pong"
  /\ Head(toViewer).kind = "data" => e = <<>>

\* What the viewer does with a message.
LEMMA ViewerCases ==
  ASSUME LinkInv, ViewerReceives
  PROVE  /\ toViewer # <<>> /\ toViewer' = Tail(toViewer) /\ s' = s
         /\ viewer' \in ViewerRecord
         /\ \/ /\ Head(toViewer).kind = "ping"
               /\ \E pong \in ToServer :
                    /\ pong.kind = "pong" /\ pong.offset = Head(toViewer).offset
                    /\ toServer' = Append(toServer, pong)
            \/ /\ Head(toViewer).kind # "ping"
               /\ \E e \in Seq(ToServer) : Answers(e)
<1>1. toViewer # <<>> /\ toViewer' = Tail(toViewer) /\ s' = s
  BY DEF ViewerReceives
<1> DEFINE m == Head(toViewer)
<1>2. /\ m \in ToViewer /\ toServer \in Seq(ToServer) /\ viewer \in ViewerRecord
  BY <1>1, HeadTailProperties DEF LinkInv, Types
<1>3. toServer \o <<>> = toServer
  BY <1>2, ConcatEmptySeq
<1>4. ASSUME UNCHANGED <<viewer, toServer>>, m.kind # "ping"
      PROVE  viewer' \in ViewerRecord /\ \E e \in Seq(ToServer) : Answers(e)
  <2>1. /\ <<>> \in Seq(ToServer) /\ toServer' = toServer \o <<>>
        /\ \A i \in 1 .. Len(<<>>) : <<>>[i].kind # "pong"
    BY <1>3, <1>4, EmptySeq
  <2>. QED
    BY <1>2, <1>4, <2>1 DEF Answers
<1>5. CASE m.kind = "data" /\ UNCHANGED <<viewer, toServer>>
  BY <1>1, <1>4, <1>5
<1>6. CASE /\ m.kind = "endOfCU" /\ viewer' = [viewer EXCEPT !.supportsCU = TRUE]
           /\ UNCHANGED toServer
  <2>1. viewer' \in ViewerRecord
    BY <1>2, <1>6 DEF ViewerRecord
  <2>2. /\ <<>> \in Seq(ToServer) /\ toServer' = toServer \o <<>>
        /\ \A i \in 1 .. Len(<<>>) : <<>>[i].kind # "pong"
    BY <1>3, <1>6, EmptySeq
  <2>3. \E e \in Seq(ToServer) : Answers(e)
    BY <1>6, <2>2 DEF Answers
  <2>. QED
    BY <1>1, <1>6, <2>1, <2>3
<1>7. CASE m.kind = "update" /\ ViewerUpdate
  <2> DEFINE e1 == NextRequest
             e2 == IF viewer.first /\
                 viewer.supportsFence THEN <<Plain("sync")>> ELSE <<>>
             e == e1 \o e2
  <2>1. viewer' = [viewer EXCEPT !.first = FALSE] /\
            toServer' = (toServer \o e1) \o e2
    BY <1>7 DEF ViewerUpdate
  <2>2. viewer' \in ViewerRecord
    BY <1>2, <2>1 DEF ViewerRecord
  <2>3. \A x \in ToServer : <<x>> \in Seq(ToServer) /\ Len(<<x>>) = 1 /\
            <<x>>[1] = x
    OBVIOUS
  <2>4. <<>> \in Seq(ToServer) /\ Len(<<>>) = 0
    BY EmptySeq
  <2>5. e1 \in Seq(ToServer) /\ \A i \in 1 .. Len(e1) : e1[i].kind # "pong"
    <3>1. CASE viewer.continuous
      <4>1. e1 = <<>>
        BY <3>1 DEF NextRequest
      <4> HIDE DEF e1
      <4>. QED
        BY <2>4, <4>1
    <3>2. CASE ~viewer.continuous
      <4> DEFINE x == Request(TRUE)
      <4>1. e1 = <<x>>
        BY <3>2 DEF NextRequest
      <4>2. x \in ToServer /\ x.kind # "pong"
        BY PlainTypes
      <4> HIDE DEF e1, x
      <4>. QED
        BY <2>3, <4>1, <4>2
    <3>. QED
      BY <3>1, <3>2
  <2>6. e2 \in Seq(ToServer) /\ \A i \in 1 .. Len(e2) : e2[i].kind # "pong"
    <3>1. CASE ~(viewer.first /\ viewer.supportsFence)
      <4>1. e2 = <<>>
        BY <3>1
      <4> HIDE DEF e2
      <4>. QED
        BY <2>4, <4>1
    <3>2. CASE viewer.first /\ viewer.supportsFence
      <4> DEFINE x == Plain("sync")
      <4>1. e2 = <<x>>
        BY <3>2
      <4>2. x \in ToServer /\ x.kind # "pong"
        BY PlainTypes
      <4> HIDE DEF e2, x
      <4>. QED
        BY <2>3, <4>1, <4>2
    <3>. QED
      BY <3>1, <3>2
  <2> HIDE DEF e1, e2
  <2>7. e \in Seq(ToServer) /\ \A i \in 1 .. Len(e) : e[i].kind # "pong"
    <3>1. /\ e \in Seq(ToServer) /\ Len(e) = Len(e1) + Len(e2)
          /\ \A i \in 1 .. Len(e1) + Len(e2) :
               e[i] = IF i <= Len(e1) THEN e1[i] ELSE e2[i - Len(e1)]
      BY <2>5, <2>6, ConcatProperties
    <3>2. Len(e1) \in Nat /\ Len(e2) \in Nat
      BY <2>5, <2>6, LenProperties
    <3> HIDE DEF e
    <3>3. ASSUME NEW i \in 1 .. Len(e)
          PROVE  e[i].kind # "pong"
      <4>1. CASE i <= Len(e1)
        <5>1. i \in 1 .. Len(e1) /\ e[i] = e1[i]
          BY <3>1, <3>2, <4>1
        <5>. QED
          BY <2>5, <5>1
      <4>2. CASE ~(i <= Len(e1))
        <5>1. i - Len(e1) \in 1 .. Len(e2) /\ e[i] = e2[i - Len(e1)]
          BY <3>1, <3>2, <4>2
        <5>. QED
          BY <2>6, <5>1
      <4>. QED
        BY <4>1, <4>2
    <3>. QED
      BY <3>1, <3>3
  <2>8. toServer' = toServer \o e
    BY <1>2, <2>1, <2>5, <2>6, ConcatAssociative, SMTT(40)
  <2> HIDE DEF e
  <2>9. \E x \in Seq(ToServer) : Answers(x)
    BY <1>7, <2>7, <2>8 DEF Answers
  <2>. QED
    BY <1>1, <1>7, <2>2, <2>9
<1>8. CASE m.kind \in {"ping", "probe", "reply"} /\ ViewerFence(m)
  <2> DEFINE enable == m.kind = "reply" /\ viewer.supportsCU
             answer == CASE m.kind = "ping"  -> <<Pong(m)>>
                         [] m.kind = "probe" -> <<Plain("probed")>>
                         [] enable           -> <<Plain("enable")>>
                         [] OTHER            -> <<>>
  <2>1. /\ viewer' = [viewer EXCEPT !.supportsFence = TRUE,
                                    !.continuous = viewer.continuous \/ enable]
        /\ toServer' = toServer \o answer
    BY <1>8 DEF ViewerFence
  <2>2. viewer' \in ViewerRecord
    BY <1>2, <2>1 DEF ViewerRecord
  <2>3. CASE m.kind = "ping"
    <3> DEFINE pong == Pong(m)
    <3>1. m \in Stamped("ping")
      BY <1>2, <2>3 DEF ToViewer, Sized, Bare
    <3>2. pong \in ToServer /\ pong.kind = "pong" /\ pong.offset = m.offset
      BY <3>1 DEF Pong, Stamped, ToServer
    <3>3. answer = <<pong>>
      BY <2>3
    <3> HIDE DEF pong, answer
    <3>4. toServer' = Append(toServer, pong)
      BY <1>2, <2>1, <3>2, <3>3, AppendIsConcat
    <3>. QED
      BY <1>1, <2>2, <2>3, <3>2, <3>4
  <2>4. CASE m.kind # "ping"
    <3>1. answer = <<>> \/ \E x \in ToServer : x.kind # "pong" /\ answer = <<x>>
      <4>1. CASE m.kind = "probe"
        BY <4>1, PlainTypes
      <4>2. CASE m.kind = "reply" /\ enable
        <5>1. answer = <<Plain("enable")>>
          BY <4>2
        <5>. QED
          BY <5>1, PlainTypes
      <4>3. CASE m.kind = "reply" /\ ~enable
        <5>1. answer = <<>>
          BY <4>3
        <5>. QED
          BY <5>1
      <4>. QED
        BY <1>8, <2>4, <4>1, <4>2, <4>3
    <3> HIDE DEF answer
    <3>2. answer \in Seq(ToServer) /\ \A i \in 1 .. Len(answer) :
              answer[i].kind # "pong"
      <4>1. CASE answer = <<>>
        BY <4>1, EmptySeq
      <4>2. ASSUME NEW x \in ToServer, x.kind # "pong", answer = <<x>>
            PROVE  answer \in Seq(ToServer) /\ \A i \in 1 .. Len(answer) :
                       answer[i].kind # "pong"
        BY <4>2
      <4>. QED
        BY <3>1, <4>1, <4>2
    <3>3. m.kind # "data"
      BY <1>8
    <3>4. \E e \in Seq(ToServer) : Answers(e)
      BY <2>1, <3>2, <3>3 DEF Answers
    <3>. QED
      BY <1>1, <2>2, <2>4, <3>4
  <2>. QED
    BY <2>3, <2>4
<1>. QED
  BY <1>5, <1>6, <1>7, <1>8 DEF ViewerReceives

-----------------------------------------------------------------------------
(***************************************************************************)
(* The invariant of every link is inductive.                               *)
(***************************************************************************)
\* No place, where no message is of the kind.
LEMMA NoneThere ==
  ASSUME NEW S, NEW q \in Seq(S), NEW kind, \A i \in 1 .. Len(q) : q[i].kind # kind
  PROVE  Places(q, kind) = {} /\ Cardinality(Places(q, kind)) = 0
<1>1. DOMAIN q = 1 .. Len(q)
  BY LenProperties
<1>2. Places(q, kind) = {}
  BY <1>1 DEF Places
<1>. QED
  BY <1>2, FS_EmptySet

\* At first only the viewer's encodings and request are on the wire.
LEMMA LinkInit == Init => LinkInv
<1> SUFFICES ASSUME Init
             PROVE  LinkInv
  OBVIOUS
<1>1. 0 \in Offsets /\ 1 \in Offsets /\ InitialWindow \in Windows /\ 0 \in Nat
  BY WordAssumption, FlowControlAssumption DEF Offsets
<1>2. s \in ServerRecord /\ viewer \in ViewerRecord
  BY <1>1 DEF Init, ServerRecord, ViewerRecord
<1>3. toViewer \in Seq(ToViewer) /\ toViewer = <<>> /\ Len(toViewer) = 0
  BY DEF Init
<1>4. /\ toServer \in Seq(ToServer) /\
             toServer = <<Plain("encodings"), Request(FALSE)>>
      /\ \A i \in 1 .. Len(toServer) : toServer[i].kind # "pong"
  <2> DEFINE x == Plain("encodings")
             y == Request(FALSE)
  <2>1. x \in ToServer /\ x.kind # "pong" /\ y \in ToServer /\ y.kind # "pong"
    BY PlainTypes
  <2>2. toServer = <<x, y>>
    BY DEF Init
  <2> HIDE DEF x, y
  <2>3. /\ <<x, y>> \in Seq(ToServer) /\ Len(<<x, y>>) = 2
        /\ <<x, y>>[1] = x /\ <<x, y>>[2] = y
    BY <2>1
  <2>4. \A i \in 1 .. 2 : i = 1 \/ i = 2
    OBVIOUS
  <2>5. \A i \in 1 .. Len(toServer) : toServer[i].kind # "pong"
    BY <2>1, <2>2, <2>3, <2>4
  <2>6. toServer = <<Plain("encodings"), Request(FALSE)>>
    BY DEF Init
  <2>. QED
    BY <2>2, <2>3, <2>5, <2>6
<1>5. /\ Places(toServer, "pong") = {} /\ Cardinality(Places(toServer, "pong")) = 0
  BY <1>4, NoneThere
<1>6. /\ Places(toViewer, "ping") = {} /\ Cardinality(Places(toViewer, "ping")) = 0
  <2>1. \A i \in 1 .. Len(toViewer) : toViewer[i].kind # "ping"
    BY <1>3
  <2>. QED
    BY <1>3, <2>1, NoneThere
<1>7. s.pings = 0 /\ ~s.measured /\ ~s.requested /\ ~s.continuous
  BY DEF Init
<1>8. Account(s, toViewer, toServer)
  BY <1>5, <1>6, <1>7 DEF Account, Counted, LastSent
<1>9. Start(s, toViewer, toServer)
  <2>1. DOMAIN toViewer = {}
    BY <1>3
  <2>. QED
    BY <1>4, <1>7, <2>1 DEF Start
<1>. QED
  BY <1>2, <1>3, <1>4, <1>8, <1>9 DEF LinkInv, Types

\* Handling a message keeps the account.
LEMMA KeepsAccount ==
  ASSUME NEW p \in Pair, NEW h \in Pair, NEW in \in Seq(ToServer),
         NEW size \in UpdateSizes,
         Account(p.s, p.out, in), Kept(p, h) \/ Sent(p, h, size)
  PROVE  Account(h.s, h.out, in) /\ h.s.fence = p.s.fence
<1>1. CASE Kept(p, h)
  BY <1>1, AccountSameLink DEF Kept, SameLink
<1>2. CASE Sent(p, h, size)
  <2>1. PICK q \in Pair : Kept(p, q) /\ Kept(Burst(q, size), h)
    BY <1>2 DEF Sent
  <2>2. Account(q.s, q.out, in) /\ q.s.fence = p.s.fence
    BY <2>1, AccountSameLink DEF Kept, SameLink
  <2> DEFINE b == Burst(q, size)
  <2>3. Account(b.s, b.out, in)
    BY <2>2, AccountBurst
  <2>4. b.s.fence = p.s.fence
    BY <2>2, BurstFence
  <2>5. Kept(b, h)
    BY <2>1
  <2> HIDE DEF b
  <2>. QED
    BY <2>3, <2>4, <2>5, AccountSameLink DEF Kept, SameLink
<1>. QED
  BY <1>1, <1>2

\* So does an attempt of the server's own.
LEMMA OpenedLink ==
  ASSUME LinkInv, NEW h \in Pair, NEW size \in UpdateSizes, Opened(h, size)
  PROVE  Account(h.s, h.out, toServer) /\ Start(h.s, h.out, toServer)
<1>1. Here \in Pair /\ Here.s = s /\ Here.out = toViewer
  BY HereType
<1>2. /\ Account(Here.s, Here.out, toServer) /\ toServer \in Seq(ToServer)
      /\ Start(s, toViewer, toServer)
  BY <1>1 DEF LinkInv, Types
<1>3. Account(h.s, h.out, toServer) /\ h.s.fence = s.fence
  BY <1>1, <1>2, KeepsAccount DEF Opened
<1>4. Start(h.s, h.out, toServer)
  BY <1>1, <1>2, <1>3 DEF Opened, Kept, Start, SameLink
<1>. QED
  BY <1>3, <1>4

\* So does handling the next message, which is then gone.
LEMMA HandledLink ==
  ASSUME LinkInv, toServer # <<>>, NEW h \in Pair, NEW size \in UpdateSizes,
         Handled(h, size)
  PROVE  Account(h.s, h.out, Tail(toServer)) /\ h.s.fence
<1>1. Here \in Pair /\ Here.s = s /\ Here.out = toViewer
  BY HereType
<1>2. /\ Account(s, toViewer, toServer) /\ toServer \in Seq(ToServer)
      /\ toViewer \in Seq(ToViewer)
  BY DEF LinkInv, Types
<1> DEFINE t == Tail(toServer)
<1>3. t \in Seq(ToServer)
  BY <1>2, HeadTailProperties
<1>4. CASE Head(toServer).kind # "pong" /\ s.fence /\
               (Kept(Here, h) \/ Sent(Here, h, size))
  <2>1. Account(Here.s, Here.out, t)
    BY <1>1, <1>2, <1>4, AccountTail
  <2> HIDE DEF t
  <2>. QED
    BY <1>1, <1>3, <1>4, <2>1, KeepsAccount DEF t
<1>5. CASE Head(toServer).kind = "pong" /\ s.fence /\ Acked(h)
  <2> DEFINE d == h.s
  <2>1. d.pings = s.pings - 1 /\ d.sent = s.sent /\ d.acked = Head(toServer).offset
    BY <1>5 DEF Acked
  <2> HIDE DEF d
  <2>2. Account(d, toViewer, t)
    BY <1>2, <1>5, <2>1, AccountPong
  <2>. QED
    BY <1>5, <2>2 DEF Acked, d
<1>6. CASE Head(toServer).kind # "pong" /\ ~s.fence /\ Greets(h)
  <2>1. PICK q \in Pair :
          /\ q.out = toViewer /\ q.s.fence
          /\ q.s.sock = s.sock /\ q.s.sent = s.sent /\ q.s.acked = s.acked
          /\ q.s.pings = s.pings /\ q.s.measured = s.measured
          /\ h = Write(Write(q, Plain("probe")), Plain("endOfCU"))
    BY <1>6 DEF Greets
  <2>2. Account(s, toViewer, t)
    BY <1>2, <1>6, AccountTail
  <2> HIDE DEF t
  <2>3. Account(q.s, q.out, t)
    BY <2>1, <2>2 DEF Account, Counted, LastSent
  <2> DEFINE x == Plain("probe")
             y == Plain("endOfCU")
             w == Write(q, x)
  <2>4. x \in ToViewer /\ x.kind # "ping" /\ y \in ToViewer /\ y.kind # "ping"
    BY PlainTypes
  <2>5. h = Write(w, y)
    BY <2>1
  <2> HIDE DEF x, y
  <2>6. w \in Pair /\ w.s.fence /\ Account(w.s, w.out, t)
    BY <2>1, <2>3, <2>4, WriteFacts, AccountWrite DEF SameButWritten
  <2> HIDE DEF w
  <2>7. Account(h.s, h.out, t) /\ h.s.fence
    BY <2>4, <2>5, <2>6, WriteFacts, AccountWrite DEF SameButWritten
  <2>. QED
    BY <2>7 DEF t
<1>. QED
  BY <1>4, <1>5, <1>6 DEF Handled

\* The server receives.
LEMMA LinkReceive == LinkInv /\ ServerReceives => LinkInv'
<1> SUFFICES ASSUME LinkInv, ServerReceives
             PROVE  LinkInv'
  OBVIOUS
<1>1. toServer # <<>> /\ toServer' = Tail(toServer) /\ viewer' = viewer
  BY ReceiveCases
<1>2. PICK h \in Pair, size \in UpdateSizes :
        /\ Handled(h, size)
        /\ \/ s' = h.s /\ toViewer' = h.out
           \/ /\ s' = Write(h, Plain("reply")).s
              /\ toViewer' = Write(h, Plain("reply")).out
  BY ReceiveCases
<1> DEFINE t == Tail(toServer)
<1>3. t \in Seq(ToServer) /\ toServer' = t
  BY <1>1, HeadTailProperties DEF LinkInv, Types
<1>4. Account(h.s, h.out, t) /\ h.s.fence
  BY <1>1, <1>2, HandledLink
<1> HIDE DEF t
<1>5. /\ s' \in ServerRecord /\ toViewer' \in Seq(ToViewer)
      /\ Account(s', toViewer', t) /\ s'.fence
  <2>1. CASE s' = h.s /\ toViewer' = h.out
    BY <1>2, <1>4, <2>1 DEF Pair
  <2>2. CASE /\ s' = Write(h, Plain("reply")).s
             /\ toViewer' = Write(h, Plain("reply")).out
    <3> DEFINE x == Plain("reply")
               w == Write(h, x)
    <3>1. x \in ToViewer /\ x.kind # "ping"
      BY PlainTypes
    <3>2. s' = w.s /\ toViewer' = w.out
      BY <2>2
    <3> HIDE DEF x
    <3>3. w \in Pair /\ w.s.fence /\ Account(w.s, w.out, t)
      BY <1>4, <3>1, WriteFacts, AccountWrite DEF SameButWritten
    <3> HIDE DEF w
    <3>. QED
      BY <3>2, <3>3 DEF Pair
  <2>. QED
    BY <1>2, <2>1, <2>2
<1>6. viewer' \in ViewerRecord
  BY <1>1 DEF LinkInv, Types
<1>. QED
  BY <1>3, <1>5, <1>6 DEF LinkInv, Types, Start

\* The viewer receives.
LEMMA LinkViewer == LinkInv /\ ViewerReceives => LinkInv'
<1> SUFFICES ASSUME LinkInv, ViewerReceives
             PROVE  LinkInv'
  OBVIOUS
<1>1. /\ toViewer # <<>> /\ toViewer' = Tail(toViewer) /\ s' = s
      /\ viewer' \in ViewerRecord
  BY ViewerCases
<1>2. /\ Account(s, toViewer, toServer) /\ toServer \in Seq(ToServer)
      /\ toViewer \in Seq(ToViewer) /\ s \in ServerRecord
      /\ Start(s, toViewer, toServer)
  BY DEF LinkInv, Types
<1>3. toViewer' \in Seq(ToViewer) /\ toViewer[1] = Head(toViewer) /\
          1 \in DOMAIN toViewer
  <2>1. toViewer' \in Seq(ToViewer)
    BY <1>1, <1>2, HeadTailProperties
  <2>2. toViewer[1] = Head(toViewer) /\ 1 \in DOMAIN toViewer
    BY <1>1, <1>2
  <2>. QED
    BY <2>1, <2>2
<1>4. ASSUME Head(toViewer).kind = "ping"
      PROVE  LinkInv'
  <2>1. PICK pong \in ToServer :
          /\ pong.kind = "pong" /\ pong.offset = Head(toViewer).offset
          /\ toServer' = Append(toServer, pong)
    BY <1>4, ViewerCases
  <2>2. Account(s, toViewer', toServer')
    BY <1>1, <1>2, <1>4, <2>1, AccountAnswer
  <2>3. toServer' \in Seq(ToServer)
    BY <1>2, <2>1, AppendProperties
  <2>4. s.fence
    BY <1>2, <1>3, <1>4 DEF Start
  <2>. QED
    BY <1>1, <1>2, <1>3, <2>2, <2>3, <2>4 DEF LinkInv, Types, Start
<1>5. ASSUME Head(toViewer).kind # "ping"
      PROVE  LinkInv'
  <2>1. PICK e \in Seq(ToServer) : Answers(e)
    BY <1>5, ViewerCases
  <2>2. toServer' = toServer \o e
    BY <2>1 DEF Answers
  <2>3. Account(s, toViewer', toServer')
    BY <1>1, <1>2, <1>5, <2>1, <2>2, AccountRead DEF Answers
  <2>4. toServer' \in Seq(ToServer)
    BY <1>2, <2>2, ConcatProperties
  <2>5. Start(s, toViewer', toServer')
    <3>1. SUFFICES ASSUME ~s.fence
                   PROVE  /\ \A i \in DOMAIN toViewer' : toViewer'[i].kind = "data"
                          /\ toServer' = toServer
      BY <1>2 DEF Start
    <3>2. \A i \in DOMAIN toViewer : toViewer[i].kind = "data"
      BY <1>2, <3>1 DEF Start
    <3>3. toServer' = toServer
      <4>1. e = <<>>
        BY <1>3, <2>1, <3>2 DEF Answers
      <4>. QED
        BY <1>2, <2>2, <4>1, ConcatEmptySeq
    <3>4. /\ Len(toViewer) \in Nat \ {0} /\ DOMAIN toViewer = 1 .. Len(toViewer)
          /\ DOMAIN Tail(toViewer) = 1 .. Len(toViewer) - 1
          /\ \A i \in 1 .. Len(toViewer) - 1 : Tail(toViewer)[i] = toViewer[i + 1]
      BY <1>1, <1>2, LenProperties, HeadTailProperties, EmptySeq
    <3>5. \A i \in DOMAIN toViewer' : toViewer'[i].kind = "data"
      BY <1>1, <3>2, <3>4
    <3>. QED
      BY <3>3, <3>5
  <2>. QED
    BY <1>1, <1>2, <1>3, <2>3, <2>4, <2>5 DEF LinkInv, Types
<1>. QED
  BY <1>4, <1>5

\* An update was deferred, or is tried again.
LEMMA LinkOwn == LinkInv /\ (DeferredUpdate \/ RetryUpdate) => LinkInv'
<1> SUFFICES ASSUME LinkInv, DeferredUpdate \/ RetryUpdate
             PROVE  LinkInv'
  OBVIOUS
<1>1. UNCHANGED <<viewer, toServer>>
  BY OwnAttempt
<1>2. PICK h \in Pair, size \in UpdateSizes :
        s' = h.s /\ toViewer' = h.out /\ Opened(h, size)
  BY OwnAttempt
<1>3. Account(h.s, h.out, toServer) /\ Start(h.s, h.out, toServer)
  BY <1>2, OpenedLink
<1>. QED
  BY <1>1, <1>2, <1>3 DEF LinkInv, Types, Pair

\* What changes neither the link nor what was asked for.
LEMMA LinkAside ==
  ASSUME LinkInv, s' \in ServerRecord, SameLink(s, s'),
         s'.requested = s.requested, s'.continuous = s.continuous,
         UNCHANGED <<viewer, toViewer, toServer>>
  PROVE  LinkInv'
<1>1. Account(s, toViewer, toServer) /\ Start(s, toViewer, toServer) /\ Types
  BY DEF LinkInv
<1> DEFINE d == s'
<1>2. SameLink(s, d) /\ d \in ServerRecord /\ d.requested = s.requested /\
          d.continuous = s.continuous
  OBVIOUS
<1>3. d = s'
  OBVIOUS
<1> HIDE DEF d
<1>4. Account(d, toViewer, toServer) /\ Start(d, toViewer, toServer)
  BY <1>1, <1>2, AccountSameLink DEF Start, SameLink
<1>. QED
  BY <1>1, <1>2, <1>3, <1>4 DEF LinkInv, Types

\* Drawing, the timer and time.
LEMMA AsideCases ==
  ASSUME LinkInv, Draw \/ AdjustWindow \/ TimePasses
  PROVE  /\ s' \in ServerRecord /\ SameLink(s, s')
         /\ s'.requested = s.requested /\ s'.continuous = s.continuous
         /\ UNCHANGED <<viewer, toViewer, toServer>>
<1>1. s \in ServerRecord
  BY DEF LinkInv, Types
<1>2. CASE Draw
  <2>1. s' = [s EXCEPT !.modified = TRUE, !.deferred = TRUE]
    BY <1>2 DEF Draw
  <2>2. UNCHANGED <<viewer, toViewer, toServer>>
    BY <1>2 DEF Draw, ViewerKeeps
  <2>. QED
    BY <1>1, <2>1, <2>2 DEF ServerRecord, SameLink
<1>3. CASE AdjustWindow
  <2>1. PICK w \in Windows :
          s' = [s EXCEPT !.timer = FALSE, !.window = IF s.seen THEN w ELSE s.window,
                         !.seen = FALSE]
    BY <1>3 DEF AdjustWindow
  <2>2. UNCHANGED <<viewer, toViewer, toServer>>
    BY <1>3 DEF AdjustWindow, ViewerKeeps
  <2>3. (IF s.seen THEN w ELSE s.window) \in Windows
    BY <1>1 DEF ServerRecord
  <2>. QED
    BY <1>1, <2>1, <2>2, <2>3 DEF ServerRecord, SameLink
<1>4. CASE TimePasses
  <2>1. s' = [s EXCEPT !.idle = TRUE]
    BY <1>4 DEF TimePasses
  <2>2. UNCHANGED <<viewer, toViewer, toServer>>
    BY <1>4 DEF TimePasses, ViewerKeeps
  <2>. QED
    BY <1>1, <2>1, <2>2 DEF ServerRecord, SameLink
<1>. QED
  BY <1>2, <1>3, <1>4

\* Other data is a message to the viewer.
LEMMA DataFacts ==
  ASSUME NEW size \in DataSizes
  PROVE  /\ Data(size) \in ToViewer /\ Data(size).kind = "data"
         /\ Size(Data(size)) = size
BY DEF Data, ToViewer, Sized, Size

\* Other data is sent.
LEMMA LinkData == LinkInv /\ SendData => LinkInv'
<1> SUFFICES ASSUME LinkInv, SendData
             PROVE  LinkInv'
  OBVIOUS
<1>1. PICK size \in DataSizes : Becomes(Write(Here, Data(size)))
  BY DEF SendData
<1> DEFINE m == Data(size)
           w == Write(Here, m)
<1>2. m \in ToViewer /\ m.kind = "data"
  BY DataFacts
<1>3. s' = w.s /\ toViewer' = w.out /\ viewer' = viewer /\ toServer' = toServer
  BY <1>1 DEF SendData, Becomes, ViewerKeeps
<1>4. Here \in Pair /\ Here.s = s /\ Here.out = toViewer
  BY HereType
<1> HIDE DEF m
<1>5. Account(s, toViewer, toServer) /\ Start(s, toViewer, toServer) /\ Types
  BY DEF LinkInv
<1>6. w \in Pair /\ Account(w.s, w.out, toServer)
  BY <1>2, <1>4, <1>5, WriteFacts, AccountWrite
<1>7. /\ w.s = [s EXCEPT !.sock = (s.sock + Size(m)) % Word, !.idle = FALSE]
      /\ w.out = Append(toViewer, m)
  BY <1>2, <1>4, WriteFacts
<1> HIDE DEF w
<1>8. /\ w.s.fence = s.fence /\ w.s.measured = s.measured
      /\ w.s.requested = s.requested /\ w.s.continuous = s.continuous
  <2> DEFINE o == (s.sock + Size(m)) % Word
  <2>1. w.s = [s EXCEPT !.sock = o, !.idle = FALSE]
    BY <1>7
  <2> HIDE DEF o
  <2>. QED
    BY <1>5, <2>1 DEF Types, ServerRecord
<1>9. (\A i \in DOMAIN toViewer : toViewer[i].kind = "data") =>
        \A i \in DOMAIN w.out : w.out[i].kind = "data"
  <2>1. toViewer \in Seq(ToViewer)
    BY <1>5 DEF Types
  <2>2. /\ DOMAIN toViewer = 1 .. Len(toViewer) /\ Len(toViewer) \in Nat
        /\ DOMAIN w.out = 1 .. Len(toViewer) + 1
        /\ \A i \in 1 .. Len(toViewer) : w.out[i] = toViewer[i]
        /\ w.out[Len(toViewer) + 1] = m
    BY <1>2, <1>7, <2>1, LenProperties, AppendProperties
  <2>3. \A i \in 1 .. Len(toViewer) + 1 :
            i \in 1 .. Len(toViewer) \/ i = Len(toViewer) + 1
    BY <2>2
  <2>. QED
    BY <1>2, <2>2, <2>3
<1>10. Start(w.s, w.out, toServer)
  BY <1>5, <1>8, <1>9 DEF Start
<1>. QED
  BY <1>3, <1>5, <1>6, <1>10 DEF LinkInv, Types, Pair

\* What the user does.
LEMMA UserCases ==
  ASSUME LinkInv, UserActs
  PROVE  /\ s' = s /\ toViewer' = toViewer /\ viewer' \in ViewerRecord
         /\ s.fence
         /\ \E e \in Seq(ToServer) :
              /\ toServer' = toServer \o e
              /\ \A i \in 1 .. Len(e) : e[i].kind # "pong"
<1>1. s' = s /\ toViewer' = toViewer /\ toServer = <<>>
  BY DEF UserActs
<1>2. viewer \in ViewerRecord /\ toServer \in Seq(ToServer)
  BY DEF LinkInv, Types
<1>3. s.fence
  <2>1. <<Plain("encodings"), Request(FALSE)>> # <<>>
    OBVIOUS
  <2>. QED
    BY <1>1, <2>1 DEF LinkInv, Start
<1>4. viewer' \in ViewerRecord
  BY <1>2 DEF UserActs, ViewerRecord
<1>5. \A m \in ToServer : m.kind # "pong" =>
        /\ <<m>> \in Seq(ToServer) /\ <<>> \o <<m>> = <<m>>
        /\ \A i \in 1 .. Len(<<m>>) : <<m>>[i].kind # "pong"
  <2> TAKE m \in ToServer
  <2>1. <<m>> \in Seq(ToServer) /\ Len(<<m>>) = 1 /\ <<m>>[1] = m
    OBVIOUS
  <2>2. <<>> \o <<m>> = <<m>>
    BY <2>1, ConcatEmptySeq
  <2>. QED
    BY <2>1, <2>2
<1>6. /\ <<>> \in Seq(ToServer) /\ <<>> \o <<>> = <<>>
      /\ \A i \in 1 .. Len(<<>>) : <<>>[i].kind # "pong"
  BY EmptySeq, ConcatEmptySeq
<1>7. \E e \in Seq(ToServer) :
        /\ toServer' = <<>> \o e
        /\ \A i \in 1 .. Len(e) : e[i].kind # "pong"
  <2>1. /\ Plain("input") \in ToServer /\ Plain("input").kind # "pong"
        /\ Request(FALSE) \in ToServer /\ Request(FALSE).kind # "pong"
    BY PlainTypes
  <2>2. toServer' = <<Plain("input")>> \/ toServer' = <<Request(FALSE)>> \/ toServer' = <<>>
    BY <1>1 DEF UserActs
  <2>. QED
    BY <1>5, <1>6, <2>1, <2>2
<1>. QED
  BY <1>1, <1>3, <1>4, <1>7

\* The user acts.
LEMMA LinkUser == LinkInv /\ UserActs => LinkInv'
<1> SUFFICES ASSUME LinkInv, UserActs
             PROVE  LinkInv'
  OBVIOUS
<1>1. s' = s /\ toViewer' = toViewer /\ viewer' \in ViewerRecord /\ s.fence
  BY UserCases
<1>2. PICK e \in Seq(ToServer) :
        toServer' = toServer \o e /\ \A i \in 1 .. Len(e) : e[i].kind # "pong"
  BY UserCases
<1>3. Account(s, toViewer, toServer) /\ Types
  BY DEF LinkInv
<1> DEFINE more == toServer \o e
<1>4. /\ Places(more, "pong") = Places(toServer, "pong")
      /\ \A i \in Places(toServer, "pong") : more[i] = toServer[i]
      /\ more \in Seq(ToServer)
  <2>1. toServer \in Seq(ToServer)
    BY <1>3 DEF Types
  <2>2. Places(more, "pong") = Places(toServer, "pong")
    BY <1>2, <2>1, PlacesConcat
  <2>3. \A i \in Places(toServer, "pong") : more[i] = toServer[i]
    BY <1>2, <2>1, PlacesConcat
  <2>4. more \in Seq(ToServer)
    BY <2>1, ConcatProperties
  <2>. QED
    BY <2>2, <2>3, <2>4
<1>5. toServer' = more
  BY <1>2
<1> HIDE DEF more
<1>6. Account(s, toViewer, more)
  BY <1>3, <1>4 DEF Account, Counted, LastSent
<1>. QED
  BY <1>1, <1>3, <1>4, <1>5, <1>6 DEF LinkInv, Types, Start

\* Every step keeps the invariant.
LEMMA LinkNext == LinkInv /\ [Next]_vars => LinkInv'
<1> SUFFICES ASSUME LinkInv, [Next]_vars
             PROVE  LinkInv'
  OBVIOUS
<1>1. CASE ServerReceives
  BY <1>1, LinkReceive
<1>2. CASE ViewerReceives
  BY <1>2, LinkViewer
<1>3. CASE Draw \/ AdjustWindow \/ TimePasses
  BY <1>3, AsideCases, LinkAside
<1>4. CASE DeferredUpdate \/ RetryUpdate
  BY <1>4, LinkOwn
<1>5. CASE SendData
  BY <1>5, LinkData
<1>6. CASE UserActs
  BY <1>6, LinkUser
<1>7. CASE UNCHANGED vars
  BY <1>7 DEF vars, LinkInv, Types
<1>. QED
  BY <1>1, <1>2, <1>3, <1>4, <1>5, <1>6, <1>7 DEF Next

-----------------------------------------------------------------------------
(***************************************************************************)
(* The order of the offsets is inductive as long as there is room.         *)
(***************************************************************************)
\* Fewer bytes than the word can count are unacknowledged, with the next
\* message and three fences more, once there are fences.
Room ==
  s.fence => \A size \in UpdateSizes \cup DataSizes \cup {0} :
               Before(s.acked, s.sock) + size + 3 * FenceSize < Word

OrderInv ==
  /\ LinkInv
  /\ Ordered(s, toViewer, toServer)
  /\ Backlog(toViewer)

\* Nothing was measured and there is nothing that could be.
Blank(c, out, in) ==
  /\ ~c.measured
  /\ Places(out, "ping") = {} /\ Places(out, "update") = {}
  /\ Places(in, "pong") = {}

\* Nothing is out of order then.
LEMMA BlankOrdered ==
  ASSUME NEW c, NEW out, NEW in, Blank(c, out, in)
  PROVE  Ordered(c, out, in) /\ Backlog(out)
<1>1. Ordered(c, out, in)
  BY DEF Blank, Ordered, Marks, Span
<1>2. Fills(out) = {}
  BY DEF Blank, Fills
<1>3. Cardinality(Fills(out)) = 0
  BY <1>2, FS_EmptySet
<1>. QED
  BY <1>1, <1>3 DEF Blank, Backlog, Followed

\* It stays so when other messages are written.
LEMMA BlankWrite ==
  ASSUME NEW p \in Pair, NEW in, NEW m \in ToViewer, m.kind \notin {"ping", "update"},
         Blank(p.s, p.out, in)
  PROVE  /\ Write(p, m) \in Pair
         /\ Blank(Write(p, m).s, Write(p, m).out, in)
<1>1. /\ Write(p, m) \in Pair /\ Write(p, m).out = Append(p.out, m)
      /\ Write(p, m).s.measured = p.s.measured
  BY WriteFacts DEF SameButWritten
<1>2. p.out \in Seq(ToViewer)
  BY DEF Pair
<1>3. Places(Append(p.out, m), "ping") = Places(p.out, "ping")
  BY <1>2, OutAppend
<1>4. Places(Append(p.out, m), "update") = Places(p.out, "update")
  BY <1>2, OutAppend
<1>. QED
  BY <1>1, <1>3, <1>4 DEF Blank

\* It is so until the server knows that the viewer has fences.
LEMMA BlankStart ==
  ASSUME LinkInv, ~s.fence
  PROVE  Blank(s, toViewer, toServer) /\ Blank(s, toViewer, Tail(toServer))
<1>1. /\ ~s.measured
      /\ \A i \in DOMAIN toViewer : toViewer[i].kind = "data"
      /\ toServer = <<Plain("encodings"), Request(FALSE)>>
  BY DEF LinkInv, Start
<1>2. Places(toViewer, "ping") = {} /\ Places(toViewer, "update") = {}
  BY <1>1 DEF Places
<1>3. Places(toServer, "pong") = {} /\ Places(Tail(toServer), "pong") = {}
  <2> DEFINE x == Plain("encodings")
             y == Request(FALSE)
  <2>1. x \in ToServer /\ x.kind # "pong" /\ y \in ToServer /\ y.kind # "pong"
    BY PlainTypes
  <2>2. toServer = <<x, y>>
    BY <1>1
  <2> HIDE DEF x, y
  <2>3. /\ <<x, y>> \in Seq(ToServer) /\ Len(<<x, y>>) = 2
        /\ <<x, y>>[1] = x /\ <<x, y>>[2] = y
    BY <2>1
  <2>4. \A i \in 1 .. 2 : i = 1 \/ i = 2
    OBVIOUS
  <2>5. \A i \in 1 .. Len(toServer) : toServer[i].kind # "pong"
    BY <2>1, <2>2, <2>3, <2>4
  <2>6. toServer \in Seq(ToServer) /\ toServer # <<>>
    BY <2>2, <2>3
  <2>7. Places(toServer, "pong") = {}
    BY <2>5, <2>6, NoneThere
  <2>8. Places(Tail(toServer), "pong") = {}
    BY <2>6, <2>7, PlacesTail
  <2>. QED
    BY <2>7, <2>8
<1>. QED
  BY <1>1, <1>2, <1>3 DEF Blank

\* The numbers that Room is about.
LEMMA RoomFacts ==
  ASSUME LinkInv, Room, s.fence, NEW size \in UpdateSizes \cup DataSizes
  PROVE  /\ End(s) \in Nat /\ size \in Nat /\ FenceSize \in Nat /\ Word \in Nat
         /\ End(s) + size + 3 * FenceSize < Word
<1>1. s \in ServerRecord /\ toViewer \in Seq(ToViewer) /\ toServer \in Seq(ToServer)
  BY DEF LinkInv, Types
<1>2. End(s) \in Nat
  BY <1>1, DistanceTypes
<1>3. size \in Nat /\ FenceSize \in Nat /\ Word \in Nat
  BY WordAssumption, FlowControlAssumption
<1>4. Before(s.acked, s.sock) + size + 3 * FenceSize < Word
  BY DEF Room
<1>. QED
  BY <1>2, <1>3, <1>4 DEF End

\* What an attempt that sends or not does to the order.
LEMMA SentOrder ==
  ASSUME NEW p \in Pair, NEW h \in Pair, NEW in \in Seq(ToServer),
         NEW size \in UpdateSizes, p.s.fence,
         Account(p.s, p.out, in), Ordered(p.s, p.out, in), Backlog(p.out),
         End(p.s) + size + 2 * FenceSize < Word,
         Kept(p, h) \/ Sent(p, h, size)
  PROVE  /\ Ordered(h.s, h.out, in) /\ Backlog(h.out)
         /\ End(h.s) <= End(p.s) + size + 2 * FenceSize
<1>1. /\ p.s \in ServerRecord /\ p.out \in Seq(ToViewer)
      /\ End(p.s) \in Nat /\ size \in Nat /\ FenceSize \in Nat
  <2>1. p.s \in ServerRecord /\ p.out \in Seq(ToViewer)
    BY DEF Pair
  <2>2. End(p.s) \in Nat
    BY <2>1, DistanceTypes
  <2>. QED
    BY <2>1, <2>2, FlowControlAssumption
<1>2. CASE Kept(p, h)
  <2>1. Ordered(h.s, h.out, in) /\ Backlog(h.out) /\ End(h.s) = End(p.s)
    BY <1>2, OrderedSameLink DEF Kept, SameLink, End
  <2>. QED
    BY <1>1, <2>1
<1>3. CASE Sent(p, h, size)
  <2>1. PICK x \in Pair, q \in Pair :
          /\ Kept(p, x) /\ ~Congested(x.s)
          /\ Kept(p, q) /\ Kept(Burst(q, size), h)
    BY <1>3 DEF Sent
  <2>2. /\ x.s \in ServerRecord /\ x.s.fence /\ x.out = p.out
        /\ Account(x.s, p.out, in) /\ Ordered(x.s, p.out, in)
    BY <2>1, AccountSameLink, OrderedSameLink DEF Kept, SameLink, Pair
  <2>3. Cardinality(Fills(p.out)) <= 1
    BY <1>1, <2>1, <2>2, NoThird
  <2>4. /\ q.s.fence /\ q.out = p.out /\ Ordered(q.s, q.out, in)
        /\ End(q.s) = End(p.s)
    BY <2>1, OrderedSameLink DEF Kept, SameLink, End
  <2> DEFINE b == Burst(q, size)
  <2>5. Backlog(b.out)
    BY <2>3, <2>4, BacklogBurst DEF Backlog
  <2>6. Ordered(b.s, b.out, in) /\ End(b.s) = End(q.s) + size + 2 * FenceSize
    <3>1. End(q.s) + size + 2 * FenceSize < Word
      BY <2>4
    <3>. QED
      BY <2>4, <3>1, OrderedBurst
  <2>7. Kept(b, h)
    BY <2>1
  <2> HIDE DEF b
  <2>8. Ordered(h.s, h.out, in) /\ Backlog(h.out) /\ End(h.s) = End(b.s)
    BY <2>5, <2>6, <2>7, OrderedSameLink DEF Kept, SameLink, End
  <2>. QED
    BY <1>1, <2>4, <2>6, <2>8
<1>. QED
  BY <1>2, <1>3

\* Nothing is out of order at first.
LEMMA OrderInit == Init => OrderInv
<1> SUFFICES ASSUME Init
             PROVE  OrderInv
  OBVIOUS
<1>1. LinkInv
  BY LinkInit
<1>2. ~s.fence
  BY DEF Init
<1>. QED
  BY <1>1, <1>2, BlankStart, BlankOrdered DEF OrderInv

\* An update was deferred, or is tried again.
LEMMA OrderOwn ==
  ASSUME OrderInv, Room, DeferredUpdate \/ RetryUpdate
  PROVE  Ordered(s', toViewer', toServer') /\ Backlog(toViewer')
<1>1. LinkInv /\ Ordered(s, toViewer, toServer) /\ Backlog(toViewer)
  BY DEF OrderInv
<1>2. /\ toServer \in Seq(ToServer) /\ Account(s, toViewer, toServer)
      /\ Here \in Pair /\ Here.s = s /\ Here.out = toViewer
  BY <1>1, HereType DEF LinkInv, Types
<1>3. toServer' = toServer
  BY <1>1, OwnAttempt
<1>4. PICK h \in Pair, size \in UpdateSizes :
        s' = h.s /\ toViewer' = h.out /\ Opened(h, size)
  BY <1>1, OwnAttempt
<1>5. CASE s.fence /\ (Kept(Here, h) \/ Sent(Here, h, size))
  <2>1. End(s) + size + 2 * FenceSize < Word
    BY <1>1, <1>5, RoomFacts
  <2> DEFINE p == Here
  <2>2. /\ p \in Pair /\ p.s.fence /\ Account(p.s, p.out, toServer)
        /\ Ordered(p.s, p.out, toServer) /\ Backlog(p.out)
        /\ End(p.s) + size + 2 * FenceSize < Word
        /\ Kept(p, h) \/ Sent(p, h, size)
    BY <1>1, <1>2, <1>5, <2>1
  <2> HIDE DEF p
  <2>3. Ordered(h.s, h.out, toServer) /\ Backlog(h.out)
    BY <1>2, <2>2, SentOrder
  <2>. QED
    BY <1>3, <1>4, <2>3
<1>6. CASE Kept(Here, h)
  BY <1>1, <1>2, <1>3, <1>4, <1>6, OrderedSameLink DEF Kept
<1>. QED
  BY <1>4, <1>5, <1>6 DEF Opened

\* What handling a message does to the order: one more fence fits.
LEMMA HandledOrder ==
  ASSUME OrderInv, Room, toServer # <<>>, NEW h \in Pair, NEW size \in UpdateSizes,
         Handled(h, size)
  PROVE  \/ Blank(h.s, h.out, Tail(toServer))
         \/ /\ Ordered(h.s, h.out, Tail(toServer)) /\ Backlog(h.out)
            /\ End(h.s) + FenceSize < Word
<1>1. LinkInv /\ Ordered(s, toViewer, toServer) /\ Backlog(toViewer)
  BY DEF OrderInv
<1>2. /\ toServer \in Seq(ToServer) /\ toViewer \in Seq(ToViewer)
      /\ s \in ServerRecord /\ Account(s, toViewer, toServer)
      /\ Here \in Pair /\ Here.s = s /\ Here.out = toViewer
  BY <1>1, HereType DEF LinkInv, Types
<1> DEFINE t == Tail(toServer)
<1>3. t \in Seq(ToServer)
  BY <1>2, HeadTailProperties
<1>4. h.s \in ServerRecord /\ h.out \in Seq(ToViewer)
  BY DEF Pair
<1>5. End(h.s) \in Nat
  BY <1>2, <1>4, DistanceTypes
<1>6. CASE Head(toServer).kind # "pong" /\ s.fence /\
               (Kept(Here, h) \/ Sent(Here, h, size))
  <2>1. /\ End(s) \in Nat /\ size \in Nat /\ FenceSize \in Nat /\ Word \in Nat
        /\ End(s) + size + 3 * FenceSize < Word
    BY <1>1, <1>6, RoomFacts
  <2>2. Account(s, toViewer, t) /\ Ordered(s, toViewer, t)
    BY <1>1, <1>2, <1>6, AccountTail, OrderedTail
  <2> HIDE DEF t
  <2> DEFINE p == Here
  <2>3. /\ p \in Pair /\ p.s.fence /\ Account(p.s, p.out, t)
        /\ Ordered(p.s, p.out, t) /\ Backlog(p.out)
        /\ End(p.s) + size + 2 * FenceSize < Word /\ End(p.s) = End(s)
        /\ Kept(p, h) \/ Sent(p, h, size)
    BY <1>1, <1>2, <1>6, <2>1, <2>2
  <2> HIDE DEF p
  <2>4. /\ Ordered(h.s, h.out, t) /\ Backlog(h.out)
        /\ End(h.s) <= End(p.s) + size + 2 * FenceSize
    BY <1>3, <2>3, SentOrder
  <2>5. End(h.s) + FenceSize < Word
    BY <1>5, <2>1, <2>3, <2>4
  <2>. QED
    BY <2>4, <2>5 DEF t
<1>7. CASE Head(toServer).kind = "pong" /\ s.fence /\ Acked(h)
  <2>1. /\ End(s) \in Nat /\ size \in Nat /\ FenceSize \in Nat /\ Word \in Nat
        /\ End(s) + size + 3 * FenceSize < Word
    BY <1>1, <1>7, RoomFacts
  <2> DEFINE d == h.s
  <2>2. /\ d \in ServerRecord /\ d.sent = s.sent /\ d.sock = s.sock
        /\ d.acked = Head(toServer).offset
    BY <1>4, <1>7 DEF Acked
  <2> HIDE DEF d
  <2>3. Ordered(d, toViewer, t)
    BY <1>1, <1>2, <1>7, <2>2, OrderedAck
  <2>4. End(d) <= End(s)
    BY <1>1, <1>2, <1>7, <2>2, OrderedAck
  <2>5. End(d) + FenceSize < Word
    BY <1>5, <2>1, <2>4 DEF d
  <2>6. h.out = toViewer
    BY <1>7 DEF Acked
  <2>. QED
    BY <1>1, <2>3, <2>5, <2>6 DEF d
<1>8. CASE Head(toServer).kind # "pong" /\ ~s.fence /\ Greets(h)
  <2>1. PICK q \in Pair :
          /\ q.out = toViewer /\ q.s.measured = s.measured
          /\ h = Write(Write(q, Plain("probe")), Plain("endOfCU"))
    BY <1>8 DEF Greets
  <2>2. Blank(s, toViewer, t)
    BY <1>1, <1>8, BlankStart
  <2> HIDE DEF t
  <2>3. Blank(q.s, q.out, t)
    BY <2>1, <2>2 DEF Blank
  <2> DEFINE x == Plain("probe")
             y == Plain("endOfCU")
             w == Write(q, x)
  <2>4. /\ x \in ToViewer /\ x.kind \notin {"ping", "update"}
        /\ y \in ToViewer /\ y.kind \notin {"ping", "update"}
    BY PlainTypes
  <2>5. h = Write(w, y)
    BY <2>1
  <2> HIDE DEF x, y
  <2>6. w \in Pair /\ Blank(w.s, w.out, t)
    BY <2>3, <2>4, BlankWrite
  <2> HIDE DEF w
  <2>7. Blank(h.s, h.out, t)
    BY <2>4, <2>5, <2>6, BlankWrite
  <2>. QED
    BY <2>7 DEF t
<1>. QED
  BY <1>6, <1>7, <1>8 DEF Handled

\* The server receives.
LEMMA OrderReceive ==
  ASSUME OrderInv, Room, ServerReceives
  PROVE  Ordered(s', toViewer', toServer') /\ Backlog(toViewer')
<1>1. LinkInv
  BY DEF OrderInv
<1>2. toServer # <<>> /\ toServer' = Tail(toServer)
  BY <1>1, ReceiveCases
<1>3. PICK h \in Pair, size \in UpdateSizes :
        /\ Handled(h, size)
        /\ \/ s' = h.s /\ toViewer' = h.out
           \/ /\ s' = Write(h, Plain("reply")).s
              /\ toViewer' = Write(h, Plain("reply")).out
  BY <1>1, ReceiveCases
<1> DEFINE t == Tail(toServer)
<1>4. \/ Blank(h.s, h.out, t)
      \/ /\ Ordered(h.s, h.out, t) /\ Backlog(h.out)
         /\ End(h.s) + FenceSize < Word
  BY <1>2, <1>3, HandledOrder
<1>5. t \in Seq(ToServer) /\ toServer' = t
  BY <1>1, <1>2, HeadTailProperties DEF LinkInv, Types
<1> HIDE DEF t
<1>6. CASE s' = h.s /\ toViewer' = h.out
  BY <1>4, <1>5, <1>6, BlankOrdered
<1>7. CASE /\ s' = Write(h, Plain("reply")).s
           /\ toViewer' = Write(h, Plain("reply")).out
  <2> DEFINE x == Plain("reply")
             w == Write(h, x)
  <2>1. x \in ToViewer /\ x.kind \notin {"ping", "update"} /\ Size(x) = FenceSize
    BY PlainTypes, SizeType
  <2>2. s' = w.s /\ toViewer' = w.out
    BY <1>7
  <2> HIDE DEF x
  <2>3. CASE Blank(h.s, h.out, t)
    <3>1. Blank(w.s, w.out, t)
      BY <2>1, <2>3, BlankWrite
    <3> HIDE DEF w
    <3>. QED
      BY <1>5, <2>2, <3>1, BlankOrdered
  <2>4. CASE /\ Ordered(h.s, h.out, t) /\ Backlog(h.out)
             /\ End(h.s) + FenceSize < Word
    <3>1. Ordered(w.s, w.out, t)
      BY <1>5, <2>1, <2>4, OrderedWrite
    <3>2. Backlog(w.out)
      <4>1. w.out = Append(h.out, x) /\ h.out \in Seq(ToViewer)
        BY <2>1, WriteFacts DEF Pair
      <4>. QED
        BY <2>1, <2>4, <4>1, BacklogWrite
    <3>. QED
      BY <1>5, <2>2, <3>1, <3>2
  <2>. QED
    BY <1>4, <2>3, <2>4
<1>. QED
  BY <1>3, <1>6, <1>7

\* The viewer receives.
LEMMA OrderViewer ==
  ASSUME OrderInv, ViewerReceives
  PROVE  Ordered(s', toViewer', toServer') /\ Backlog(toViewer')
<1>1. LinkInv /\ Ordered(s, toViewer, toServer) /\ Backlog(toViewer)
  BY DEF OrderInv
<1>2. /\ toServer \in Seq(ToServer) /\ toViewer \in Seq(ToViewer)
      /\ s \in ServerRecord
  BY <1>1 DEF LinkInv, Types
<1>3. toViewer # <<>> /\ toViewer' = Tail(toViewer) /\ s' = s
  BY <1>1, ViewerCases
<1>4. Backlog(toViewer')
  BY <1>1, <1>2, <1>3, BacklogRead
<1>5. ASSUME Head(toViewer).kind = "ping"
      PROVE  Ordered(s', toViewer', toServer')
  <2>1. PICK pong \in ToServer :
          /\ pong.kind = "pong" /\ pong.offset = Head(toViewer).offset
          /\ toServer' = Append(toServer, pong)
    BY <1>1, <1>5, ViewerCases
  <2>2. Ordered(s, Tail(toViewer), Append(toServer, pong))
    BY <1>1, <1>2, <1>3, <1>5, <2>1, OrderedAnswer
  <2>. QED
    BY <1>3, <2>1, <2>2
<1>6. ASSUME Head(toViewer).kind # "ping"
      PROVE  Ordered(s', toViewer', toServer')
  <2>1. PICK e \in Seq(ToServer) : Answers(e)
    BY <1>1, <1>6, ViewerCases
  <2>2. /\ toServer' = toServer \o e
        /\ \A i \in 1 .. Len(e) : e[i].kind # "pong"
    BY <2>1 DEF Answers
  <2>3. Ordered(s, Tail(toViewer), toServer \o e)
    BY <1>1, <1>2, <1>3, <2>2, OrderedRead
  <2>. QED
    BY <1>3, <2>2, <2>3
<1>. QED
  BY <1>4, <1>5, <1>6

\* Drawing, the timer and time.
LEMMA OrderAside ==
  ASSUME OrderInv, Draw \/ AdjustWindow \/ TimePasses
  PROVE  Ordered(s', toViewer', toServer') /\ Backlog(toViewer')
<1>1. LinkInv /\ Ordered(s, toViewer, toServer) /\ Backlog(toViewer)
  BY DEF OrderInv
<1>2. SameLink(s, s') /\ UNCHANGED <<toViewer, toServer>>
  BY <1>1, AsideCases
<1> DEFINE d == s'
<1>3. SameLink(s, d) /\ d = s'
  BY <1>2
<1> HIDE DEF d
<1>4. Ordered(d, toViewer, toServer)
  BY <1>1, <1>3, OrderedSameLink
<1>. QED
  BY <1>1, <1>2, <1>3, <1>4

\* Other data is sent.
LEMMA OrderData ==
  ASSUME OrderInv, Room, SendData
  PROVE  Ordered(s', toViewer', toServer') /\ Backlog(toViewer')
<1>1. LinkInv /\ Ordered(s, toViewer, toServer) /\ Backlog(toViewer)
  BY DEF OrderInv
<1>2. PICK size \in DataSizes : Becomes(Write(Here, Data(size)))
  BY DEF SendData
<1> DEFINE m == Data(size)
           w == Write(Here, m)
<1>3. m \in ToViewer /\ m.kind \notin {"ping", "update"} /\ Size(m) = size
  BY DataFacts
<1>4. s' = w.s /\ toViewer' = w.out /\ toServer' = toServer
  BY <1>2 DEF SendData, Becomes, ViewerKeeps
<1>5. Here \in Pair /\ Here.s = s /\ Here.out = toViewer /\
          toServer \in Seq(ToServer)
  BY <1>1, HereType DEF LinkInv, Types
<1> HIDE DEF m
<1>6. CASE s.fence
  <2>1. End(s) + Size(m) < Word
    <3>1. /\ End(s) \in Nat /\ size \in Nat /\ FenceSize \in Nat /\ Word \in Nat
          /\ End(s) + size + 3 * FenceSize < Word
      BY <1>1, <1>6, RoomFacts
    <3>. QED
      BY <1>3, <3>1
  <2>2. Ordered(w.s, w.out, toServer)
    <3> DEFINE p == Here
    <3>1. p \in Pair /\ Ordered(p.s, p.out, toServer) /\ End(p.s) + Size(m) < Word
      BY <1>1, <1>5, <2>1
    <3> HIDE DEF p
    <3>2. Ordered(Write(p, m).s, Write(p, m).out, toServer)
      BY <1>3, <1>5, <3>1, OrderedWrite
    <3>. QED
      BY <3>2 DEF p
  <2>3. Backlog(w.out)
    <3>1. w.out = Append(toViewer, m) /\ toViewer \in Seq(ToViewer)
      BY <1>1, <1>3, <1>5, WriteFacts DEF LinkInv, Types
    <3>. QED
      BY <1>1, <1>3, <3>1, BacklogWrite
  <2>. QED
    BY <1>4, <2>2, <2>3
<1>7. CASE ~s.fence
  <2>1. Blank(Here.s, Here.out, toServer)
    BY <1>1, <1>5, <1>7, BlankStart
  <2>2. Blank(w.s, w.out, toServer)
    BY <1>3, <1>5, <2>1, BlankWrite
  <2> HIDE DEF w
  <2>. QED
    BY <1>4, <2>2, BlankOrdered
<1>. QED
  BY <1>6, <1>7

\* The user acts.
LEMMA OrderUser ==
  ASSUME OrderInv, UserActs
  PROVE  Ordered(s', toViewer', toServer') /\ Backlog(toViewer')
<1>1. LinkInv /\ Ordered(s, toViewer, toServer) /\ Backlog(toViewer)
  BY DEF OrderInv
<1>2. s' = s /\ toViewer' = toViewer
  BY <1>1, UserCases
<1>3. PICK e \in Seq(ToServer) :
        toServer' = toServer \o e /\ \A i \in 1 .. Len(e) : e[i].kind # "pong"
  BY <1>1, UserCases
<1>4. toServer \in Seq(ToServer) /\ toViewer \in Seq(ToViewer)
  BY <1>1 DEF LinkInv, Types
<1> DEFINE more == toServer \o e
<1>5. \A i \in Places(more, "pong") :
        i \in Int /\ i + 0 \in Places(toServer, "pong") /\ more[i] = toServer[i + 0]
  <2>1. \A i \in Places(toServer, "pong") : i \in Int /\ i + 0 = i
    BY <1>4, PlacesInt
  <2>2. /\ Places(more, "pong") = Places(toServer, "pong")
        /\ \A i \in Places(toServer, "pong") : more[i] = toServer[i]
    BY <1>3, <1>4, PlacesConcat
  <2> HIDE DEF more
  <2>. QED
    BY <2>1, <2>2
<1>6. toServer' = more
  BY <1>3
<1> HIDE DEF more
<1>7. \A i \in Places(toViewer, "ping") \cup Places(toViewer, "update") :
        i \in Int /\ i + 0 = i
  BY <1>4, PlacesInt
<1>8. Ordered(s, toViewer, more)
  BY <1>1, <1>5, <1>7, OrderedDrop
<1>. QED
  BY <1>1, <1>2, <1>6, <1>8

\* Every step keeps the order, while there is room.
LEMMA OrderNext == OrderInv /\ Room /\ [Next]_vars => OrderInv'
<1> SUFFICES ASSUME OrderInv, Room, [Next]_vars
             PROVE  OrderInv'
  OBVIOUS
<1>1. LinkInv'
  BY LinkNext DEF OrderInv
<1>2. Ordered(s', toViewer', toServer') /\ Backlog(toViewer')
  <2>1. CASE ServerReceives
    BY <2>1, OrderReceive
  <2>2. CASE ViewerReceives
    BY <2>2, OrderViewer
  <2>3. CASE Draw \/ AdjustWindow \/ TimePasses
    BY <2>3, OrderAside
  <2>4. CASE DeferredUpdate \/ RetryUpdate
    BY <2>4, OrderOwn
  <2>5. CASE SendData
    BY <2>5, OrderData
  <2>6. CASE UserActs
    BY <2>6, OrderUser
  <2>7. CASE UNCHANGED vars
    BY <2>7 DEF vars, OrderInv
  <2>. QED
    BY <2>1, <2>2, <2>3, <2>4, <2>5, <2>6, <2>7 DEF Next
<1>. QED
  BY <1>1, <1>2 DEF OrderInv

-----------------------------------------------------------------------------
(***************************************************************************)
(* The record of the client and the viewer's state keep their types; in    *)
(* particular the unsigned pingCounter is never decremented below zero.    *)
(***************************************************************************)
THEOREM FlowControlTyped == Spec => []TypeOK
<1>1. LinkInv => TypeOK
  BY DEF LinkInv, Types, ServerRecord, ViewerRecord, TypeOK
<1>. QED
  BY <1>1, LinkInit, LinkNext, PTL DEF Spec

(***************************************************************************)
(* pingCounter counts the pings in flight in either direction              *)
(* (rfbSendRTTPing and HandleRTTPong).                                     *)
(***************************************************************************)
THEOREM PingsAreCounted == Spec => []PingsInTransit
<1>1. LinkInv => PingsInTransit
  BY DEF LinkInv, Account, Counted, PingsInTransit, Pings, Pongs
<1>. QED
  BY <1>1, LinkInit, LinkNext, PTL DEF Spec

(***************************************************************************)
(* rfbIsCongested lets a transfer through on an idle link whose round trip *)
(* was measured (flowcontrol.c 315-332).                                   *)
(***************************************************************************)
THEOREM IdleReopensOnceMeasured == Spec => []MeasuredLinkReopens
<1>1. LinkInv => MeasuredLinkReopens
  <2> SUFFICES ASSUME LinkInv, OnTheWire = <<>>, s.idle, s.measured
               PROVE  ~Congested(s)
    BY DEF MeasuredLinkReopens
  <2>1. toViewer \in Seq(ToViewer) /\ toServer \in Seq(ToServer)
    BY DEF LinkInv, Types
  <2>2. Len(toViewer) = 0 /\ Len(toServer) = 0
    <3>1. Len(toViewer \o toServer) = Len(toViewer) + Len(toServer)
      BY <2>1
    <3>2. Len(toViewer) + Len(toServer) = 0
      BY <3>1 DEF OnTheWire
    <3>. QED
      BY <2>1, <3>2, LenProperties
  <2>3. Places(toViewer, "ping") = {} /\ Places(toServer, "pong") = {}
    BY <2>1, <2>2, LenProperties DEF Places
  <2>4. s.sent = s.acked
    BY <2>3 DEF LinkInv, Account, LastSent
  <2>. QED
    BY <2>4 DEF Congested, Idle
<1>. QED
  BY <1>1, LinkInit, LinkNext, PTL DEF Spec

(***************************************************************************)
(* The acknowledged offset, the pings and their answers, sentOffset and    *)
(* the end of the stream are in this order, as long as fewer bytes than    *)
(* the 32-bit offsets can count are unacknowledged.                        *)
(***************************************************************************)
THEOREM OffsetsStayInOrder == Spec /\ []Room => []OffsetsInOrder
<1>1. OrderInv => OffsetsInOrder
  <2> SUFFICES ASSUME OrderInv
               PROVE  OffsetsInOrder
    OBVIOUS
  <2>1. Marks(s, toViewer, toServer)
    BY DEF OrderInv, Ordered
  <2>2. SentIsLast
    BY DEF OrderInv, LinkInv, Account, LastSent, SentIsLast, Pings, Pongs
  <2>. QED
    BY <2>1, <2>2
       DEF OffsetsInOrder, Marks, Unread, Reach, SentAt, End, Pings, Pongs
<1>. QED
  BY <1>1, OrderInit, OrderNext, PTL DEF Spec

(***************************************************************************)
(* At most two updates that fill the window are on the way: the transfer   *)
(* that rfbIsCongested allows when one ping is left builds up no backlog   *)
(* (flowcontrol.c 343-349).                                                *)
(***************************************************************************)
THEOREM NoBacklogBuildsUp == Spec /\ []Room => []NoBacklog
<1>1. OrderInv => NoBacklog
  BY DEF OrderInv, Backlog, Fills, NoBacklog, Filling
<1>. QED
  BY <1>1, OrderInit, OrderNext, PTL DEF Spec
=============================================================================
