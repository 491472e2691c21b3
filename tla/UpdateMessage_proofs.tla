------------------------ MODULE UpdateMessage_proofs ------------------------
(***************************************************************************)
(* For every update, framebuffer, copy region, displacement, number of     *)
(* threads and size of a piece: the properties of one update message.      *)
(*                                                                         *)
(* The copies.  Whatever was sent lies, in the order of the region's       *)
(* rectangles, on one side of what is left, on the side that the           *)
(* displacement points to (Ordered).                                       *)
(*                                                                         *)
(* The rectangles.  The jobs on the stack and the pieces sent cover every  *)
(* pixel of the update once (CoveredOnce): each action takes a job off the *)
(* stack and puts jobs or pieces in its place that, for every point, are   *)
(* together counted as often as the job was (Keeps).  A job of the kind    *)
(* "solid" has one colour, a job to search for one has rows left, and a    *)
(* piece either fits or has one colour (TightOk).                          *)
(*                                                                         *)
(* The number.  As long as it was not left open no job is searched, and    *)
(* the pieces sent and those that the jobs will make are together as many  *)
(* as were announced (Accounts).                                           *)
(*                                                                         *)
(* Loops of the code appear as recursive functions (Widths, Sum).  What    *)
(* they compute is proved by induction over the natural numbers, in the    *)
(* form that SetInduction gives it: a set that holds 0 and, with each      *)
(* number, the next one holds them all.                                    *)
(***************************************************************************)
EXTENDS UpdateMessage, SequenceTheorems, FiniteSetTheorems,
        WellFoundedInduction, TLAPS

-----------------------------------------------------------------------------
(***************************************************************************)
(* Induction over the natural numbers, for a set instead of an operator.   *)
(***************************************************************************)

Below == {p \in Nat \X Nat : p[1] < p[2]}

LEMMA SmallerInterval ==
  ASSUME NEW a \in Nat, NEW b \in Nat, a < b
  PROVE  <<0 .. a - 1, 0 .. b - 1>> \in StrictSubsetOrdering(Nat)
<1> DEFINE s == 0 .. a - 1
           t == 0 .. b - 1
<1>1. s \subseteq t /\ t \subseteq Nat /\ a \in t /\ a \notin s
  OBVIOUS
<1> HIDE DEF s, t
<1>2. s # t /\ s \in SUBSET Nat /\ t \in SUBSET Nat
  BY <1>1
<1>3. <<s, t>> \in (SUBSET Nat) \X (SUBSET Nat)
  BY <1>2
<1>4. <<s, t>> \in StrictSubsetOrdering(Nat)
  BY <1>1, <1>2, <1>3 DEF StrictSubsetOrdering
<1> QED
  BY <1>4 DEF s, t

\* The natural numbers are well-founded, by the intervals below them.
LEMMA BelowWellFounded == IsWellFoundedOn(Below, Nat)
<1> SUFFICES ASSUME NEW f \in [Nat -> Nat],
                    \A n \in Nat : <<f[n + 1], f[n]>> \in Below
             PROVE  FALSE
  BY DEF IsWellFoundedOn
<1> DEFINE g == [n \in Nat |-> 0 .. f[n] - 1]
<1>1. \A n \in Nat : f[n + 1] \in Nat /\ f[n] \in Nat /\ f[n + 1] < f[n]
  BY DEF Below
<1>2. g \in [Nat -> FiniteSubsetsOf(Nat)]
  <2>1. \A n \in Nat : IsFiniteSet(0 .. f[n] - 1) /\ 0 .. f[n] - 1 \subseteq Nat
    BY FS_Interval
  <2> QED
    BY <2>1 DEF FiniteSubsetsOf
<1>3. \A n \in Nat : <<g[n + 1], g[n]>> \in StrictSubsetOrdering(Nat)
  <2> TAKE n \in Nat
  <2>1. f[n + 1] \in Nat /\ f[n] \in Nat /\ f[n + 1] < f[n]
    BY <1>1
  <2>2. <<0 .. f[n + 1] - 1, 0 .. f[n] - 1>> \in StrictSubsetOrdering(Nat)
    BY <2>1, SmallerInterval
  <2>3. g[n + 1] = 0 .. f[n + 1] - 1 /\ g[n] = 0 .. f[n] - 1
    OBVIOUS
  <2> HIDE DEF g
  <2> QED
    BY <2>2, <2>3
<1> HIDE DEF g
<1> QED
  BY <1>2, <1>3, FS_StrictSubsetOrderingWellFounded DEF IsWellFoundedOn

\* Every set of natural numbers that is not empty has a least element.
LEMMA LeastNatural ==
  ASSUME NEW T, T \subseteq Nat, T # {}
  PROVE  \E m \in T : \A k \in T : m <= k
<1>1. PICK m \in T : \A k \in T : ~(<<k, m>> \in Below)
  BY BelowWellFounded, WFMin
<1>2. ASSUME NEW k \in T, ~(m <= k)
      PROVE  FALSE
  <2>1. k \in Nat /\ m \in Nat /\ k < m
    BY <1>2
  <2>2. <<k, m>> \in Below
    BY <2>1 DEF Below
  <2> QED
    BY <1>1, <2>2
<1> QED
  BY <1>2

\* Induction, for a set instead of a predicate.
LEMMA SetInduction ==
  ASSUME NEW S, 0 \in S, \A n \in Nat : n \in S => n + 1 \in S
  PROVE  Nat \subseteq S
<1> SUFFICES ASSUME Nat \ S # {} PROVE FALSE
  OBVIOUS
<1>1. PICK m \in Nat \ S : \A k \in Nat \ S : m <= k
  BY LeastNatural
<1>2. m # 0 /\ m - 1 \in Nat
  BY <1>1
<1>3. m - 1 \in S
  BY <1>1, <1>2
<1> QED
  BY <1>1, <1>2, <1>3

\* Max and Min are what they should be, for bounded sets of integers.
LEMMA MinFacts ==
  ASSUME NEW T, T \subseteq Int, T # {}, NEW b \in Int, \A x \in T : b <= x
  PROVE  Min(T) \in T /\ \A x \in T : Min(T) <= x
<1> DEFINE D == {x - b : x \in T}
<1>1. \A x \in T : x - b \in D /\ x - b \in Nat
  OBVIOUS
<1>2. D \subseteq Nat /\ D # {}
  BY <1>1
<1>3. PICK d \in D : \A k \in D : d <= k
  <2> HIDE DEF D
  <2> QED
    BY <1>2, LeastNatural
<1>4. PICK m \in T : d = m - b
  OBVIOUS
<1> HIDE DEF D
<1>5. \A x \in T : m <= x
  BY <1>1, <1>3, <1>4
<1> QED
  BY <1>5 DEF Min

LEMMA MaxFacts ==
  ASSUME NEW T, T \subseteq Int, T # {}, NEW b \in Int, \A x \in T : x <= b
  PROVE  Max(T) \in T /\ \A x \in T : x <= Max(T)
<1> DEFINE D == {b - x : x \in T}
<1>1. \A x \in T : b - x \in D /\ b - x \in Nat
  OBVIOUS
<1>2. D \subseteq Nat /\ D # {}
  BY <1>1
<1>3. PICK d \in D : \A k \in D : d <= k
  <2> HIDE DEF D
  <2> QED
    BY <1>2, LeastNatural
<1>4. PICK m \in T : d = b - m
  OBVIOUS
<1> HIDE DEF D
<1>5. \A x \in T : m >= x
  BY <1>1, <1>3, <1>4
<1>6. \E m1 \in T : \A x \in T : m1 >= x
  BY <1>5
<1>7. Max(T) \in T /\ \A x \in T : Max(T) >= x
  BY <1>6 DEF Max
<1> QED
  BY <1>7

-----------------------------------------------------------------------------
(***************************************************************************)
(* Products and quotients.                                                 *)
(***************************************************************************)

\* A product of natural numbers is one.
LEMMA ProductNat ==
  ASSUME NEW a \in Nat, NEW b \in Nat
  PROVE  a * b \in Nat
  OBVIOUS

\* Products grow with their factors.
LEMMA ProductMono ==
  ASSUME NEW a \in Int, NEW b \in Int, NEW c \in Nat, a <= b
  PROVE  a * c <= b * c /\ c * a <= c * b /\ a * c \in Int /\ b * c \in Int
<1>1. (b - a) * c >= 0
  <2>1. b - a \in Nat
    OBVIOUS
  <2>2. (b - a) * c \in Nat
    BY <2>1, ProductNat
  <2> QED
    BY <2>2
<1>2. (b - a) * c = b * c - a * c
  OBVIOUS
<1> QED
  BY <1>1, <1>2

\* What division yields, and that nothing else does.
LEMMA DivFacts ==
  ASSUME NEW a \in Int, NEW b \in Nat \ {0}
  PROVE  /\ a \div b \in Int /\ a % b \in 0 .. b - 1
         /\ a % b = a - b * (a \div b)
         /\ b * (a \div b) <= a /\ a < b * (a \div b) + b
         /\ a >= 0 => a \div b \in Nat
<1>1. a \div b \in Int /\ a % b \in 0 .. b - 1
  OBVIOUS
<1>2. a % b = a - b * (a \div b)
  OBVIOUS
<1> DEFINE d == a \div b
<1>3. b * d <= a /\ a < b * d + b
  OBVIOUS
<1>4. ASSUME a >= 0, ~(d >= 0)
      PROVE  FALSE
  <2> HIDE DEF d
  <2>1. d \in Int /\ d <= -1
    BY <1>1, <1>4 DEF d
  <2>2. b * d <= b * (-1)
    BY <2>1, ProductMono
  <2> QED
    BY <1>3, <1>4, <2>1, <2>2
<1> QED
  BY <1>1, <1>2, <1>3, <1>4

\* The quotient is determined by a bound from each side.
LEMMA DivIs ==
  ASSUME NEW a \in Int, NEW b \in Nat \ {0}, NEW q \in Int,
         b * q <= a, a < b * q + b
  PROVE  a \div b = q /\ a % b = a - b * q
<1> DEFINE d == a \div b
<1>1. d \in Int /\ b * d <= a /\ a < b * d + b /\ a % b = a - b * d
  BY DivFacts
<1> HIDE DEF d
<1>2. ~(d < q)
  <2> SUFFICES ASSUME d + 1 <= q PROVE FALSE
    BY <1>1
  <2>1. b * (d + 1) <= b * q
    BY <1>1, ProductMono
  <2>2. b * (d + 1) = b * d + b
    BY <1>1
  <2> QED
    BY <1>1, <2>1, <2>2
<1>3. ~(q < d)
  <2> SUFFICES ASSUME q + 1 <= d PROVE FALSE
    BY <1>1
  <2>1. b * (q + 1) <= b * d
    BY <1>1, ProductMono
  <2>2. b * (q + 1) = b * q + b
    OBVIOUS
  <2> QED
    BY <1>1, <2>1, <2>2
<1>4. d = q
  BY <1>1, <1>2, <1>3
<1> QED
  BY <1>1, <1>4 DEF d

-----------------------------------------------------------------------------
(***************************************************************************)
(* How many elements of a sequence cover a pixel.                          *)
(***************************************************************************)

Coverings(s, p) == {i \in DOMAIN s : Covers(s[i].rect, p)}

Count(s, p) == Cardinality(Coverings(s, p))

\* A count is a number, and that of nothing is 0.
LEMMA CountType ==
  ASSUME NEW S, NEW s \in Seq(S), NEW p
  PROVE  Count(s, p) \in Nat /\ IsFiniteSet(Coverings(s, p))
<1>1. DOMAIN s = 1 .. Len(s) /\ Len(s) \in Nat
  BY LenProperties
<1>2. IsFiniteSet(1 .. Len(s))
  BY <1>1, FS_Interval
<1>3. IsFiniteSet(Coverings(s, p))
  BY <1>1, <1>2, FS_Subset DEF Coverings
<1> QED
  BY <1>3, FS_CardinalityType DEF Count

\* What is covered by two sequences one after the other.
LEMMA CountConcat ==
  ASSUME NEW S, NEW s \in Seq(S), NEW t \in Seq(S), NEW p
  PROVE  Count(s \o t, p) = Count(s, p) + Count(t, p)
<1> DEFINE n == Len(s)
           A == Coverings(s, p)
           B == Coverings(t, p)
           C == {i + n : i \in B}
           f == [i \in B |-> i + n]
<1>1. /\ n \in Nat /\ Len(t) \in Nat /\ DOMAIN s = 1 .. n /\ DOMAIN t = 1 .. Len(t)
      /\ s \o t \in Seq(S) /\ Len(s \o t) = n + Len(t)
      /\ \A i \in 1 .. n + Len(t) :
           (s \o t)[i] = IF i <= n THEN s[i] ELSE t[i - n]
  BY LenProperties, ConcatProperties
<1>2. DOMAIN (s \o t) = 1 .. n + Len(t)
  BY <1>1, LenProperties
<1>3. A \subseteq 1 .. n /\ B \subseteq 1 .. Len(t)
  BY <1>1 DEF Coverings
<1>4. Coverings(s \o t, p) = A \cup C
  <2> HIDE DEF n
  <2>1. ASSUME NEW i \in Coverings(s \o t, p) PROVE i \in A \cup C
    <3>1. i \in 1 .. n + Len(t) /\ Covers((s \o t)[i].rect, p)
      BY <1>2 DEF Coverings
    <3>2. CASE i <= n
      <4>1. (s \o t)[i] = s[i] /\ i \in DOMAIN s
        BY <1>1, <3>1, <3>2
      <4> QED
        BY <3>1, <4>1 DEF Coverings
    <3>3. CASE ~(i <= n)
      <4>1. (s \o t)[i] = t[i - n] /\ i - n \in DOMAIN t
        BY <1>1, <3>1, <3>3
      <4>2. i - n \in B /\ i = (i - n) + n
        BY <1>1, <3>1, <4>1 DEF Coverings
      <4> QED
        BY <4>2
    <3> QED
      BY <3>2, <3>3
  <2>2. ASSUME NEW i \in A PROVE i \in Coverings(s \o t, p)
    <3>1. i \in 1 .. n + Len(t) /\ (s \o t)[i] = s[i]
      BY <1>1, <1>3
    <3> QED
      BY <1>2, <3>1 DEF Coverings
  <2>3. ASSUME NEW j \in B PROVE j + n \in Coverings(s \o t, p)
    <3>1. j + n \in 1 .. n + Len(t) /\ (s \o t)[j + n] = t[j]
      BY <1>1, <1>3
    <3> QED
      BY <1>2, <3>1 DEF Coverings
  <2> QED
    BY <2>1, <2>2, <2>3
<1>5. IsFiniteSet(A) /\ IsFiniteSet(B)
  BY CountType
<1>6. f \in Bijection(B, C)
  <2>1. f \in Injection(B, C)
    <3>1. \A i, j \in B : i + n = j + n => i = j
      BY <1>1, <1>3
    <3> QED
      BY <3>1 DEF Injection, IsInjective
  <2>2. f \in Surjection(B, C)
    BY DEF Surjection
  <2> QED
    BY <2>1, <2>2 DEF Bijection
<1>7. IsFiniteSet(C) /\ Cardinality(C) = Cardinality(B)
  BY <1>5, <1>6, FS_Bijection DEF ExistsBijection
<1>8. A \cap C = {}
  BY <1>1, <1>3
<1>9. Cardinality(A \cap C) = 0
  BY <1>8, FS_EmptySet
<1>10. Cardinality(A) \in Nat /\ Cardinality(B) \in Nat
  BY <1>5, FS_CardinalityType
<1>11. Cardinality(A \cup C) = Cardinality(A) + Cardinality(C) - Cardinality(A \cap C)
  BY <1>5, <1>7, FS_Union
<1> HIDE DEF A, B, C
<1> QED
  BY <1>4, <1>7, <1>9, <1>10, <1>11 DEF Count, A, B

LEMMA CountEmpty == ASSUME NEW p PROVE Count(<<>>, p) = 0
<1>1. Coverings(<<>>, p) = {}
  BY DEF Coverings
<1> QED
  BY <1>1, FS_EmptySet DEF Count

\* What nothing, one and no other, or a single rectangle covers.
LEMMA CountNone ==
  ASSUME NEW s, NEW p, \A i \in DOMAIN s : ~Covers(s[i].rect, p)
  PROVE  Count(s, p) = 0
<1>1. Coverings(s, p) = {}
  BY DEF Coverings
<1> QED
  BY <1>1, FS_EmptySet DEF Count

LEMMA CountOne ==
  ASSUME NEW s, NEW p, NEW k \in DOMAIN s, Covers(s[k].rect, p),
         \A i \in DOMAIN s : Covers(s[i].rect, p) => i = k
  PROVE  Count(s, p) = 1
<1>1. Coverings(s, p) = {k}
  BY DEF Coverings
<1> QED
  BY <1>1, FS_Singleton DEF Count

LEMMA CountSingle ==
  ASSUME NEW j, NEW p
  PROVE  Count(<<j>>, p) = IF Covers(j.rect, p) THEN 1 ELSE 0
<1>1. DOMAIN <<j>> = {1} /\ <<j>>[1] = j
  OBVIOUS
<1>2. CASE Covers(j.rect, p)
  BY <1>1, <1>2, CountOne
<1>3. CASE ~Covers(j.rect, p)
  BY <1>1, <1>3, CountNone
<1> QED
  BY <1>2, <1>3

\* Conversely, a pixel is covered when it is counted, and only once when it is
\* counted once.
LEMMA CountedIsCovered ==
  ASSUME NEW S, NEW s \in Seq(S), NEW p
  PROVE  /\ Count(s, p) = 0 <=> \A i \in DOMAIN s : ~Covers(s[i].rect, p)
         /\ Count(s, p) = 1 => \A i, j \in DOMAIN s :
              Covers(s[i].rect, p) /\ Covers(s[j].rect, p) => i = j
<1>1. IsFiniteSet(Coverings(s, p))
  BY CountType
<1>2. Count(s, p) = 0 <=> Coverings(s, p) = {}
  BY <1>1, FS_EmptySet DEF Count
<1>3. ASSUME Count(s, p) = 1
      PROVE  \E x : Coverings(s, p) = {x}
  BY <1>1, <1>3, FS_Singleton DEF Count
<1> QED
  BY <1>2, <1>3 DEF Coverings

-----------------------------------------------------------------------------
(***************************************************************************)
(* The copies: how far the walk through the copy region has come, and that *)
(* what is left lies ahead of what was sent.                               *)
(***************************************************************************)

NumRects == Len(reg)

\* The n rectangles that come last in the walk, and the first of them.
Last(n) == IF dy <= 0 THEN NumRects - n + 1 .. NumRects ELSE 1 .. n

Front(n) == IF dy <= 0 THEN NumRects - n + 1 ELSE n

\* What is left of the band that is being sent.
Band ==
  IF dx <= 0 THEN thisRect .. thisRect + nrectsInBand - 1
             ELSE thisRect - nrectsInBand + 1 .. thisRect

SameRow(i, j) == reg[i].y1 = reg[j].y1

\* i lies ahead of j in the walk.
Ahead(i, j) ==
  IF SameRow(i, j) THEN IF dx <= 0 THEN j < i ELSE i < j
                   ELSE IF dy <= 0 THEN j < i ELSE i < j

Args ==
  \E c \in Copies :
    reg = c.reg /\ dx = c.dx /\ dy = c.dy /\ before = c.before

Counts ==
  /\ nrects \in 0 .. NumRects
  /\ nrectsInBand \in 0 .. NumRects
  /\ thisRect \in Int
  /\ firstInNextBand \in Int
  /\ copied \subseteq 1 .. NumRects
  /\ pc \in {"outer", "scan", "send", "done"}

AtNextBand ==
  pc = "outer" =>
    /\ thisRect = Front(nrects)
    /\ copied = (1 .. NumRects) \ Last(nrects)
    /\ \A i \in Last(nrects), j \in copied : ~SameRow(i, j)

AtScan ==
  pc = "scan" =>
    /\ nrects + nrectsInBand \in 1 .. NumRects
    /\ firstInNextBand = Front(nrects)
    /\ thisRect = Front(nrects + nrectsInBand)
    /\ copied = (1 .. NumRects) \ Last(nrects + nrectsInBand)
    /\ \A i \in Last(nrects + nrectsInBand), j \in copied : ~SameRow(i, j)
    /\ \A i \in Last(nrects + nrectsInBand) \ Last(nrects) :
         SameRow(i, thisRect)

AtSend ==
  pc = "send" =>
    /\ firstInNextBand = Front(nrects)
    /\ Band \subseteq 1 .. NumRects
    /\ copied = ((1 .. NumRects) \ Last(nrects)) \ Band
    /\ Band \cap Last(nrects) = {}
    /\ \A i \in Last(nrects), j \in (1 .. NumRects) \ Last(nrects) : ~SameRow(i, j)
    /\ \A i, j \in Band : SameRow(i, j)

AtDone == pc = "done" => copied = 1 .. NumRects

Ordered == \A j \in copied, i \in (1 .. NumRects) \ copied : Ahead(i, j)

Intact ==
  shown = [p \in Pixels |->
             IF \E i \in copied : Inside(p, reg[i])
             THEN before[Shifted(p)] ELSE before[p]]

CopyInv ==
  /\ Args /\ Counts
  /\ AtNextBand /\ AtScan /\ AtSend /\ AtDone
  /\ Ordered /\ Intact

-----------------------------------------------------------------------------
\* What the assumption on the constants says of the arguments.
LEMMA ArgsFacts ==
  ASSUME Args
  PROVE  /\ reg \in Seq(Box)
         /\ Banded(reg)
         /\ dx \in Int /\ dy \in Int
         /\ \A i \in 1 .. NumRects : \A p \in Corners(reg[i]) :
              p \in Pixels /\ Shifted(p) \in Pixels
         /\ before = [p \in Pixels |-> before[p]]
         /\ NumRects \in Nat /\ DOMAIN reg = 1 .. NumRects
<1>1. PICK c \in Copies :
        reg = c.reg /\ dx = c.dx /\ dy = c.dy /\ before = c.before
  BY DEF Args
<1>2. /\ c.reg \in Seq(Box) /\ Banded(c.reg) /\ c.dx \in Int /\ c.dy \in Int
      /\ OnScreen(c) /\ c.before = [p \in Pixels |-> c.before[p]]
  BY CopiesAssumption
<1>3. NumRects \in Nat /\ DOMAIN reg = 1 .. NumRects
  BY <1>1, <1>2 DEF NumRects
<1> QED
  BY <1>1, <1>2, <1>3 DEF OnScreen, Shifted

\* A pixel of a rectangle, and what it is copied from, are on the screen.
LEMMA SourceOnScreen ==
  ASSUME Args, NEW i \in 1 .. NumRects, NEW p \in Pixels, Inside(p, reg[i])
  PROVE  Shifted(p) \in Pixels
<1>1. reg[i] \in Box /\ dx \in Int /\ dy \in Int
  BY ArgsFacts DEF NumRects
<1> DEFINE b == reg[i]
<1>2. /\ <<b.x1, b.y1>> \in Corners(b) /\ <<b.x2 - 1, b.y2 - 1>> \in Corners(b)
  BY DEF Corners
<1>3. /\ <<b.x1 - dx, b.y1 - dy>> \in Pixels
      /\ <<b.x2 - 1 - dx, b.y2 - 1 - dy>> \in Pixels
  BY <1>2, ArgsFacts DEF Shifted
<1>4. /\ 0 <= b.x1 - dx /\ 0 <= b.y1 - dy
      /\ b.x2 - 1 - dx < Width /\ b.y2 - 1 - dy < Height
  BY <1>1, <1>3, ScreenAssumption DEF Pixels, Box
<1>5. /\ p[1] \in Int /\ p[2] \in Int
      /\ b.x1 <= p[1] /\ p[1] < b.x2 /\ b.y1 <= p[2] /\ p[2] < b.y2
  BY DEF Inside, Pixels
<1>6. p[1] - dx \in 0 .. Width - 1 /\ p[2] - dy \in 0 .. Height - 1
  BY <1>1, <1>4, <1>5, ScreenAssumption DEF Box
<1> QED
  BY <1>6 DEF Shifted, Pixels

\* The source of a rectangle does not meet one that the walk has passed.
LEMMA SourceIsApart ==
  ASSUME Args, NEW i \in 1 .. NumRects, NEW j \in 1 .. NumRects, Ahead(i, j),
         NEW p \in Pixels, Inside(p, reg[i])
  PROVE  ~Inside(Shifted(p), reg[j])
<1>1. reg[i] \in Box /\ reg[j] \in Box /\ dx \in Int /\ dy \in Int
  BY ArgsFacts DEF NumRects
<1>2. p[1] \in Int /\ p[2] \in Int
  BY DEF Pixels
<1>3. /\ reg[i].y1 < reg[i].y2 /\ reg[j].y1 < reg[j].y2
      /\ i < j => \/ reg[i].y2 <= reg[j].y1
                  \/ reg[i].y1 = reg[j].y1 /\ reg[i].x2 <= reg[j].x1
      /\ j < i => \/ reg[j].y2 <= reg[i].y1
                  \/ reg[i].y1 = reg[j].y1 /\ reg[j].x2 <= reg[i].x1
  BY ArgsFacts DEF Banded
<1>4. /\ reg[i].x1 <= p[1] /\ p[1] < reg[i].x2
      /\ reg[i].y1 <= p[2] /\ p[2] < reg[i].y2
  BY DEF Inside
<1>5. CASE SameRow(i, j)
  <2>1. IF dx <= 0 THEN reg[j].x2 <= reg[i].x1 ELSE reg[i].x2 <= reg[j].x1
    BY <1>1, <1>3, <1>5 DEF Ahead, SameRow, Box
  <2>2. p[1] - dx < reg[j].x1 \/ reg[j].x2 <= p[1] - dx
    BY <1>1, <1>2, <1>4, <2>1 DEF Box
  <2> QED
    BY <1>1, <1>2, <2>2 DEF Inside, Shifted, Box
<1>6. CASE ~SameRow(i, j)
  <2>1. IF dy <= 0 THEN reg[j].y2 <= reg[i].y1 ELSE reg[i].y2 <= reg[j].y1
    BY <1>1, <1>3, <1>6 DEF Ahead, SameRow, Box
  <2>2. p[2] - dy < reg[j].y1 \/ reg[j].y2 <= p[2] - dy
    BY <1>1, <1>2, <1>4, <2>1 DEF Box
  <2> QED
    BY <1>1, <1>2, <2>2 DEF Inside, Shifted, Box
<1> QED
  BY <1>5, <1>6

-----------------------------------------------------------------------------
\* The invariant of the walk holds at first and every step keeps it.
LEMMA CopyInitInv == CopyInit => CopyInv
<1> SUFFICES ASSUME CopyInit PROVE CopyInv
  OBVIOUS
<1>1. Args
  BY DEF CopyInit, CopyStart, Args
<1>2. /\ NumRects \in Nat /\ dx \in Int /\ dy \in Int
      /\ before = [p \in Pixels |-> before[p]]
  BY <1>1, ArgsFacts
<1>3. /\ shown = before /\ copied = {} /\ nrects = NumRects /\ nrectsInBand = 0
      /\ thisRect = (IF dy <= 0 THEN 1 ELSE NumRects)
      /\ firstInNextBand = thisRect /\ pc = "outer"
  BY DEF CopyInit, CopyStart, NumRects
<1>4. Counts
  BY <1>2, <1>3 DEF Counts
<1>5. AtNextBand
  <2>1. Last(nrects) = 1 .. NumRects /\ Front(nrects) = thisRect
    BY <1>2, <1>3 DEF Last, Front
  <2> QED
    BY <1>3, <2>1 DEF AtNextBand
<1>6. AtScan /\ AtSend /\ AtDone /\ Ordered
  BY <1>3 DEF AtScan, AtSend, AtDone, Ordered
<1>7. Intact
  BY <1>2, <1>3 DEF Intact
<1> QED
  BY <1>1, <1>4, <1>5, <1>6, <1>7 DEF CopyInv

\* What an action leaves alone when it sends nothing.
LEMMA Unsent ==
  ASSUME CopyInv, UNCHANGED <<args, shown, copied>>
  PROVE  Args' /\ Ordered' /\ Intact' /\ NumRects' = NumRects
<1>1. /\ reg' = reg /\ dx' = dx /\ dy' = dy /\ before' = before
      /\ shown' = shown /\ copied' = copied
  BY DEF args
<1>2. \A i, j : Ahead(i, j)' = Ahead(i, j)
  BY <1>1 DEF Ahead, SameRow
<1> QED
  BY <1>1, <1>2 DEF CopyInv, Args, Ordered, Intact, Inside, Shifted, NumRects

LEMMA StartBandInv == CopyInv /\ StartBand => CopyInv'
<1> SUFFICES ASSUME CopyInv, StartBand PROVE CopyInv'
  OBVIOUS
<1>1. Args' /\ Ordered' /\ Intact' /\ NumRects' = NumRects
  BY Unsent DEF StartBand
<1>2. /\ pc = "outer" /\ nrects > 0 /\ firstInNextBand' = thisRect
      /\ nrectsInBand' = 0 /\ pc' = "scan" /\ reg' = reg /\ dx' = dx /\ dy' = dy
      /\ copied' = copied /\ nrects' = nrects /\ thisRect' = thisRect
  BY DEF StartBand, args
<1>3. Counts /\ NumRects \in Nat /\ dy \in Int
  BY ArgsFacts DEF CopyInv
<1>4. /\ thisRect = Front(nrects) /\ copied = (1 .. NumRects) \ Last(nrects)
      /\ \A i \in Last(nrects), j \in copied : ~SameRow(i, j)
  BY <1>2 DEF CopyInv, AtNextBand
<1>5. nrects' + nrectsInBand' = nrects /\ nrects \in 1 .. NumRects
  BY <1>2, <1>3 DEF Counts
<1>6. Counts'
  BY <1>1, <1>2, <1>3 DEF Counts
<1>7. AtScan'
  <2>1. \A n : Last(n)' = Last(n) /\ Front(n)' = Front(n)
    BY <1>1, <1>2 DEF Last, Front
  <2>2. \A i, j : SameRow(i, j)' = SameRow(i, j)
    BY <1>2 DEF SameRow
  <2> QED
    BY <1>1, <1>2, <1>4, <1>5, <2>1, <2>2 DEF AtScan
<1>8. AtNextBand' /\ AtSend' /\ AtDone'
  BY <1>2 DEF AtNextBand, AtSend, AtDone
<1> QED
  BY <1>1, <1>6, <1>7, <1>8 DEF CopyInv

LEMMA ScanBandInv == CopyInv /\ ScanBand => CopyInv'
<1> SUFFICES ASSUME CopyInv, ScanBand PROVE CopyInv'
  OBVIOUS
<1>1. Args' /\ Ordered' /\ Intact' /\ NumRects' = NumRects
  BY Unsent DEF ScanBand
<1>2. /\ pc = "scan" /\ nrects > 0 /\ SameRow(firstInNextBand, thisRect)
      /\ firstInNextBand' = firstInNextBand + y_inc /\ nrects' = nrects - 1
      /\ nrectsInBand' = nrectsInBand + 1 /\ pc' = "scan"
      /\ reg' = reg /\ dx' = dx /\ dy' = dy
      /\ copied' = copied /\ thisRect' = thisRect
  BY DEF ScanBand, SameBand, SameRow, args
<1>3. Counts /\ NumRects \in Nat /\ dy \in Int
  BY ArgsFacts DEF CopyInv
<1>4. /\ nrects + nrectsInBand \in 1 .. NumRects
      /\ firstInNextBand = Front(nrects)
      /\ thisRect = Front(nrects + nrectsInBand)
      /\ copied = (1 .. NumRects) \ Last(nrects + nrectsInBand)
      /\ \A i \in Last(nrects + nrectsInBand), j \in copied : ~SameRow(i, j)
      /\ \A i \in Last(nrects + nrectsInBand) \ Last(nrects) :
           SameRow(i, thisRect)
  BY <1>2 DEF CopyInv, AtScan
<1>5. /\ nrects \in Nat /\ nrectsInBand \in Nat /\ nrects >= 1
      /\ nrects' + nrectsInBand' = nrects + nrectsInBand
  BY <1>2, <1>3 DEF Counts
<1>6. Counts'
  BY <1>1, <1>2, <1>3, <1>4, <1>5 DEF Counts, y_inc
<1>7. Front(nrects - 1) = Front(nrects) + y_inc
  BY <1>3, <1>5 DEF Front, y_inc
<1>8. Last(nrects) = Last(nrects - 1) \cup {Front(nrects)}
  BY <1>3, <1>5 DEF Last, Front
<1>9. AtScan'
  <2>1. \A n : Last(n)' = Last(n) /\ Front(n)' = Front(n)
    BY <1>1, <1>2 DEF Last, Front
  <2>2. \A i, j : SameRow(i, j)' = SameRow(i, j)
    BY <1>2 DEF SameRow
  <2>3. \A i \in Last(nrects + nrectsInBand) \ Last(nrects - 1) :
          SameRow(i, thisRect)
    BY <1>2, <1>4, <1>8
  <2>4. Front(nrects + nrectsInBand)' = thisRect'
    BY <1>2, <1>4, <1>5, <2>1
  <2>5. Last(nrects + nrectsInBand)' = Last(nrects + nrectsInBand)
    BY <1>5, <2>1
  <2>6. Front(nrects)' = firstInNextBand' /\ Last(nrects)' = Last(nrects - 1)
    BY <1>2, <1>4, <1>7, <2>1
  <2> QED
    BY <1>1, <1>2, <1>4, <1>5, <2>2, <2>3, <2>4, <2>5, <2>6 DEF AtScan
<1>10. AtNextBand' /\ AtSend' /\ AtDone'
  BY <1>2 DEF AtNextBand, AtSend, AtDone
<1> QED
  BY <1>1, <1>6, <1>9, <1>10 DEF CopyInv

LEMMA EndScanInv == CopyInv /\ EndScan => CopyInv'
<1> SUFFICES ASSUME CopyInv, EndScan PROVE CopyInv'
  OBVIOUS
<1>1. Args' /\ Ordered' /\ Intact' /\ NumRects' = NumRects
  BY Unsent DEF EndScan
<1>2. /\ pc = "scan" /\ (nrects > 0 => ~SameRow(firstInNextBand, thisRect))
      /\ thisRect' = (IF x_inc # y_inc THEN firstInNextBand - y_inc
                                      ELSE thisRect)
      /\ firstInNextBand' = firstInNextBand /\ nrects' = nrects
      /\ nrectsInBand' = nrectsInBand /\ pc' = "send"
      /\ reg' = reg /\ dx' = dx /\ dy' = dy /\ copied' = copied
  BY DEF EndScan, SameBand, SameRow, args
<1>3. Counts /\ NumRects \in Nat /\ dx \in Int /\ dy \in Int
  BY ArgsFacts DEF CopyInv
<1> DEFINE all == nrects + nrectsInBand
<1>4. /\ all \in 1 .. NumRects
      /\ firstInNextBand = Front(nrects)
      /\ thisRect = Front(all)
      /\ copied = (1 .. NumRects) \ Last(all)
      /\ \A i \in Last(all), j \in copied : ~SameRow(i, j)
      /\ \A i \in Last(all) \ Last(nrects) : SameRow(i, thisRect)
  BY <1>2 DEF CopyInv, AtScan
<1>5. nrects \in Nat /\ nrectsInBand \in Nat /\ nrects <= NumRects
  BY <1>3 DEF Counts
<1>6. Counts'
  BY <1>1, <1>2, <1>3 DEF Counts, x_inc, y_inc
<1>7. Last(all) \subseteq 1 .. NumRects /\ Last(nrects) \subseteq Last(all)
  BY <1>3, <1>4, <1>5 DEF Last
<1>8. Band' = Last(all) \ Last(nrects)
  BY <1>2, <1>3, <1>4, <1>5 DEF Band, Last, Front, x_inc, y_inc
<1>9. \A i, j \in Last(all) \ Last(nrects) : SameRow(i, j)
  BY <1>4 DEF SameRow
\* What is left is sorted by rows, and the first of it is in another row.
<1>10. \A i \in Last(nrects), j \in Last(all) \ Last(nrects) : ~SameRow(i, j)
  <2> SUFFICES ASSUME NEW i \in Last(nrects), NEW j \in Last(all) \ Last(nrects),
                      SameRow(i, j)
               PROVE  FALSE
    OBVIOUS
  <2> DEFINE f == firstInNextBand
  <2>1. nrects > 0 /\ f \in 1 .. NumRects /\ f \in Last(nrects)
    BY <1>3, <1>4, <1>5 DEF Last, Front
  <2>3. i \in 1 .. NumRects /\ j \in 1 .. NumRects
    BY <1>7
  <2>2. IF dy <= 0 THEN j < f /\ f <= i ELSE i <= f /\ f < j
    <3>1. CASE dy <= 0
      <4>1. f = NumRects - nrects + 1 /\ i \in f .. NumRects /\ j \notin f .. NumRects
        BY <1>4, <3>1 DEF Last, Front
      <4> QED
        BY <1>3, <1>5, <2>3, <3>1, <4>1
    <3>2. CASE ~(dy <= 0)
      <4>1. f = nrects /\ i \in 1 .. f /\ j \notin 1 .. f
        BY <1>4, <3>2 DEF Last, Front
      <4> QED
        BY <1>3, <1>5, <2>3, <3>2, <4>1
    <3> QED
      BY <3>1, <3>2
  <2>4. ~SameRow(f, j)
    BY <1>2, <1>4, <2>1 DEF SameRow
  <2>5. /\ \A k \in 1 .. NumRects : reg[k].y1 \in Int /\ reg[k].y2 \in Int
                              /\ reg[k].y1 < reg[k].y2
        /\ \A k, l \in 1 .. NumRects :
             k < l => reg[k].y2 <= reg[l].y1 \/ reg[k].y1 = reg[l].y1
    <3>1. reg \in Seq(Box) /\ Banded(reg) /\ DOMAIN reg = 1 .. NumRects
      BY ArgsFacts DEF CopyInv
    <3>2. \A k \in 1 .. NumRects : reg[k] \in Box
      BY <3>1 DEF NumRects
    <3>3. \A k \in 1 .. NumRects : reg[k].y1 \in Int /\ reg[k].y2 \in Int
      BY <3>2 DEF Box
    <3>4. /\ \A k \in 1 .. NumRects : reg[k].y1 < reg[k].y2
          /\ \A k, l \in 1 .. NumRects :
               k < l => reg[k].y2 <= reg[l].y1 \/ reg[k].y1 = reg[l].y1
      BY <3>1 DEF Banded
    <3> QED
      BY <3>3, <3>4
  <2>6. \A k, l \in 1 .. NumRects : k < l => reg[k].y1 <= reg[l].y1
    BY <2>5
  <2>7. f # i
    BY <2>4 DEF SameRow
  <2>8. reg[i].y1 = reg[j].y1 /\ reg[f].y1 # reg[j].y1
    BY <2>4 DEF SameRow
  <2>9. reg[f].y1 \in Int /\ reg[i].y1 \in Int /\ reg[j].y1 \in Int
    BY <2>1, <2>3, <2>5
  <2>10. CASE dy <= 0
    <3>1. reg[j].y1 <= reg[f].y1 /\ reg[f].y1 <= reg[i].y1
      BY <1>3, <2>1, <2>2, <2>3, <2>6, <2>7, <2>10
    <3> QED
      BY <2>8, <2>9, <3>1
  <2>11. CASE ~(dy <= 0)
    <3>1. reg[i].y1 <= reg[f].y1 /\ reg[f].y1 <= reg[j].y1
      BY <1>3, <2>1, <2>2, <2>3, <2>6, <2>7, <2>11
    <3> QED
      BY <2>8, <2>9, <3>1
  <2> QED
    BY <2>10, <2>11
<1>11. AtSend'
  <2>1. Last(nrects)' = Last(nrects) /\ Front(nrects)' = Front(nrects)
    BY <1>1, <1>2 DEF Last, Front
  <2>2. \A i, j : SameRow(i, j)' = SameRow(i, j)
    BY <1>2 DEF SameRow
  <2>3. Band' \subseteq 1 .. NumRects /\ Band' \cap Last(nrects) = {}
    BY <1>7, <1>8
  <2>4. copied = ((1 .. NumRects) \ Last(nrects)) \ Band'
    BY <1>4, <1>7, <1>8
  <2>5. \A i \in Last(nrects), j \in (1 .. NumRects) \ Last(nrects) : ~SameRow(i, j)
    BY <1>4, <1>7, <1>10
  <2>6. \A i, j \in Band' : SameRow(i, j)
    BY <1>8, <1>9
  <2> QED
    BY <1>1, <1>2, <1>4, <2>1, <2>2, <2>3, <2>4, <2>5, <2>6 DEF AtSend
<1>12. AtNextBand' /\ AtScan' /\ AtDone'
  BY <1>2 DEF AtNextBand, AtScan, AtDone
<1> QED
  BY <1>1, <1>6, <1>11, <1>12 DEF CopyInv

LEMMA EndBandInv == CopyInv /\ EndBand => CopyInv'
<1> SUFFICES ASSUME CopyInv, EndBand PROVE CopyInv'
  OBVIOUS
<1>1. Args' /\ Ordered' /\ Intact' /\ NumRects' = NumRects
  BY Unsent DEF EndBand
<1>2. /\ pc = "send" /\ nrectsInBand = 0 /\ thisRect' = firstInNextBand
      /\ firstInNextBand' = firstInNextBand /\ nrects' = nrects
      /\ nrectsInBand' = nrectsInBand /\ pc' = "outer"
      /\ reg' = reg /\ dx' = dx /\ dy' = dy /\ copied' = copied
  BY DEF EndBand, args
<1>3. Counts /\ NumRects \in Nat /\ dx \in Int /\ dy \in Int
  BY ArgsFacts DEF CopyInv
<1>4. /\ firstInNextBand = Front(nrects)
      /\ copied = ((1 .. NumRects) \ Last(nrects)) \ Band
      /\ \A i \in Last(nrects), j \in (1 .. NumRects) \ Last(nrects) : ~SameRow(i, j)
  BY <1>2 DEF CopyInv, AtSend
<1>5. Counts'
  BY <1>1, <1>2, <1>3 DEF Counts
<1>6. Band = {}
  BY <1>2, <1>3 DEF Band, Counts
<1>7. AtNextBand'
  <2>1. Last(nrects)' = Last(nrects) /\ Front(nrects)' = Front(nrects)
    BY <1>1, <1>2 DEF Last, Front
  <2>2. \A i, j : SameRow(i, j)' = SameRow(i, j)
    BY <1>2 DEF SameRow
  <2> QED
    BY <1>1, <1>2, <1>4, <1>6, <2>1, <2>2 DEF AtNextBand
<1>8. AtScan' /\ AtSend' /\ AtDone'
  BY <1>2 DEF AtScan, AtSend, AtDone
<1> QED
  BY <1>1, <1>5, <1>7, <1>8 DEF CopyInv

\* All rectangles were sent.
LEMMA FinishSendsAll ==
  ASSUME CopyInv, FinishCopies
  PROVE  copied = 1 .. NumRects
<1>1. pc = "outer" /\ nrects = 0
  BY DEF FinishCopies
<1>2. copied = (1 .. NumRects) \ Last(0) /\ NumRects \in Nat
  BY <1>1, ArgsFacts DEF CopyInv, AtNextBand
<1>3. Last(0) = {}
  BY <1>2 DEF Last
<1> QED
  BY <1>2, <1>3

LEMMA FinishCopiesInv == CopyInv /\ FinishCopies => CopyInv'
<1> SUFFICES ASSUME CopyInv, FinishCopies PROVE CopyInv'
  OBVIOUS
<1>1. Args' /\ Ordered' /\ Intact' /\ NumRects' = NumRects
  BY Unsent DEF FinishCopies
<1>2. pc' = "done" /\ UNCHANGED <<locals, copied>>
  BY DEF FinishCopies
<1>3. Counts'
  BY <1>1, <1>2 DEF CopyInv, Counts, locals
<1>4. AtDone'
  BY <1>1, <1>2, FinishSendsAll DEF AtDone
<1>5. AtNextBand' /\ AtScan' /\ AtSend'
  BY <1>2 DEF AtNextBand, AtScan, AtSend
<1> QED
  BY <1>1, <1>3, <1>4, <1>5 DEF CopyInv

-----------------------------------------------------------------------------
(***************************************************************************)
(* One rectangle is sent.                                                  *)
(***************************************************************************)

\* Where the walk through the band goes, seen from the rectangle it is at.
LEMMA BandStep ==
  ASSUME CopyInv, SendCopyRect
  PROVE  /\ thisRect \in Band
         /\ Band' = Band \ {thisRect}
         /\ \A i \in Band' : IF dx <= 0 THEN thisRect < i ELSE i < thisRect
<1>1. /\ Counts /\ dx \in Int /\ nrectsInBand > 0 /\ dx' = dx
      /\ thisRect' = thisRect + x_inc /\ nrectsInBand' = nrectsInBand - 1
  BY ArgsFacts DEF CopyInv, SendCopyRect, args
<1>2. thisRect \in Int /\ nrectsInBand \in Nat
  BY <1>1 DEF Counts
<1>3. CASE dx <= 0
  <2>1. /\ Band = thisRect .. thisRect + nrectsInBand - 1
        /\ Band' = thisRect + 1 .. (thisRect + 1) + (nrectsInBand - 1) - 1
    BY <1>1, <1>3 DEF Band, x_inc
  <2> QED
    BY <1>1, <1>2, <1>3, <2>1
<1>4. CASE ~(dx <= 0)
  <2>1. /\ Band = thisRect - nrectsInBand + 1 .. thisRect
        /\ Band' = (thisRect - 1) - (nrectsInBand - 1) + 1 .. thisRect - 1
    BY <1>1, <1>4 DEF Band, x_inc
  <2> QED
    BY <1>1, <1>2, <1>4, <2>1
<1> QED
  BY <1>3, <1>4

LEMMA SendCopyRectInv == CopyInv /\ SendCopyRect => CopyInv'
<1> SUFFICES ASSUME CopyInv, SendCopyRect PROVE CopyInv'
  OBVIOUS
<1>1. /\ pc = "send" /\ nrectsInBand > 0 /\ pc' = "send"
      /\ shown' = CopyRect(shown, reg[thisRect])
      /\ copied' = copied \cup {thisRect}
      /\ thisRect' = thisRect + x_inc /\ nrectsInBand' = nrectsInBand - 1
      /\ reg' = reg /\ dx' = dx /\ dy' = dy /\ before' = before
      /\ nrects' = nrects /\ firstInNextBand' = firstInNextBand
  BY DEF SendCopyRect, args
<1>2. Args /\ Counts /\ Ordered /\ Intact
  BY DEF CopyInv
<1>3. /\ firstInNextBand = Front(nrects)
      /\ Band \subseteq 1 .. NumRects
      /\ copied = ((1 .. NumRects) \ Last(nrects)) \ Band
      /\ Band \cap Last(nrects) = {}
      /\ \A i \in Last(nrects), j \in (1 .. NumRects) \ Last(nrects) : ~SameRow(i, j)
      /\ \A i, j \in Band : SameRow(i, j)
  BY <1>1 DEF CopyInv, AtSend
<1>4. /\ thisRect \in Band
      /\ Band' = Band \ {thisRect}
      /\ \A i \in Band' : IF dx <= 0 THEN thisRect < i ELSE i < thisRect
  BY BandStep
<1>5. /\ NumRects \in Nat /\ dx \in Int /\ dy \in Int
      /\ thisRect \in 1 .. NumRects /\ thisRect \notin copied
  BY <1>2, <1>3, <1>4, ArgsFacts
<1>6. NumRects' = NumRects /\ Args'
  BY <1>1, <1>2 DEF NumRects, Args
<1>7. Counts'
  BY <1>1, <1>2, <1>5, <1>6 DEF Counts, x_inc
<1>8. AtSend'
  <2>1. Last(nrects)' = Last(nrects) /\ Front(nrects)' = Front(nrects)
    BY <1>1, <1>6 DEF Last, Front
  <2>2. \A i, j : SameRow(i, j)' = SameRow(i, j)
    BY <1>1 DEF SameRow
  <2>3. copied' = ((1 .. NumRects) \ Last(nrects)) \ Band'
    BY <1>1, <1>3, <1>4, <1>5
  <2>4. Band' \subseteq 1 .. NumRects /\ Band' \cap Last(nrects) = {}
    BY <1>3, <1>4
  <2>5. \A i, j \in Band' : SameRow(i, j)
    BY <1>3, <1>4
  <2> QED
    BY <1>1, <1>3, <1>6, <2>1, <2>2, <2>3, <2>4, <2>5 DEF AtSend
<1>9. AtNextBand' /\ AtScan' /\ AtDone'
  BY <1>1 DEF AtNextBand, AtScan, AtDone
\* What is left lies ahead of the rectangle that is sent.
<1>10. \A i \in (1 .. NumRects) \ copied' : Ahead(i, thisRect)
  <2> SUFFICES ASSUME NEW i \in (1 .. NumRects) \ copied'
               PROVE  Ahead(i, thisRect)
    OBVIOUS
  <2>1. i \in Band' \/ i \in Last(nrects)
    BY <1>1, <1>3, <1>4
  <2>2. CASE i \in Band'
    <3>1. SameRow(i, thisRect)
      BY <1>3, <1>4, <2>2
    <3> QED
      BY <1>4, <2>2, <3>1 DEF Ahead
  <2>3. CASE i \in Last(nrects)
    <3>1. thisRect \in (1 .. NumRects) \ Last(nrects)
      BY <1>3, <1>4
    <3>2. ~SameRow(i, thisRect)
      BY <1>3, <2>3, <3>1
    <3>3. nrects \in Nat /\ i \in Int
      BY <1>2, <1>5 DEF Counts
    <3>4. IF dy <= 0 THEN thisRect < i ELSE i < thisRect
      BY <1>5, <2>3, <3>1, <3>3 DEF Last
    <3> QED
      BY <3>2, <3>4 DEF Ahead
  <2> QED
    BY <2>1, <2>2, <2>3
<1>11. Ordered'
  <2>1. \A i, j : Ahead(i, j)' = Ahead(i, j)
    BY <1>1 DEF Ahead, SameRow
  <2>2. \A j \in copied', i \in (1 .. NumRects) \ copied' : Ahead(i, j)
    BY <1>1, <1>2, <1>10 DEF Ordered
  <2> QED
    BY <1>6, <2>1, <2>2 DEF Ordered
<1>12. Intact'
  <2> DEFINE Overwritten(p, c) == \E i \in c : Inside(p, reg[i])
  <2> SUFFICES shown' = [p \in Pixels |-> IF Overwritten(p, copied')
                                         THEN before[Shifted(p)] ELSE before[p]]
    BY <1>1 DEF Intact, Inside, Shifted
  <2>1. shown = [p \in Pixels |-> IF Overwritten(p, copied)
                                 THEN before[Shifted(p)] ELSE before[p]]
    BY <1>2 DEF Intact
  <2>2. shown' = [p \in Pixels |-> IF Inside(p, reg[thisRect])
                                  THEN shown[Shifted(p)] ELSE shown[p]]
    BY <1>1 DEF CopyRect
  <2>3. \A p \in Pixels : Overwritten(p, copied') <=>
                            Overwritten(p, copied) \/ Inside(p, reg[thisRect])
    BY <1>1
  <2>4. ASSUME NEW p \in Pixels, Inside(p, reg[thisRect])
        PROVE  shown[Shifted(p)] = before[Shifted(p)]
    <3>1. Shifted(p) \in Pixels
      BY <1>2, <1>5, <2>4, SourceOnScreen
    <3>2. ~Overwritten(Shifted(p), copied)
      <4> SUFFICES ASSUME NEW j \in copied
                   PROVE  ~Inside(Shifted(p), reg[j])
        OBVIOUS
      <4>1. j \in 1 .. NumRects /\ Ahead(thisRect, j)
        BY <1>2, <1>5 DEF Counts, Ordered
      <4> QED
        BY <1>2, <1>5, <2>4, <4>1, SourceIsApart
    <3> QED
      BY <2>1, <3>1, <3>2
  <2> QED
    BY <2>1, <2>2, <2>3, <2>4
<1> QED
  BY <1>6, <1>7, <1>8, <1>9, <1>11, <1>12 DEF CopyInv

-----------------------------------------------------------------------------
LEMMA CopyNextInv == CopyInv /\ [CopyNext]_vars => CopyInv'
<1> SUFFICES ASSUME CopyInv, [CopyNext]_vars PROVE CopyInv'
  OBVIOUS
<1>1. CASE UNCHANGED vars
  <2>1. Args' /\ Ordered' /\ Intact' /\ NumRects' = NumRects
    BY <1>1, Unsent DEF vars
  <2>2. /\ reg' = reg /\ dx' = dx /\ dy' = dy /\ copied' = copied /\ pc' = pc
        /\ nrects' = nrects /\ nrectsInBand' = nrectsInBand
        /\ thisRect' = thisRect /\ firstInNextBand' = firstInNextBand
    BY <1>1 DEF vars, args, locals
  <2>3. Counts' /\ AtNextBand' /\ AtScan' /\ AtSend' /\ AtDone'
    BY <2>1, <2>2
    DEF CopyInv, Counts, AtNextBand, AtScan, AtSend, AtDone, Last, Front, Band,
        SameRow
  <2> QED
    BY <2>1, <2>3 DEF CopyInv
<1>2. CASE CopyNext
  BY <1>2, StartBandInv, ScanBandInv, EndScanInv, SendCopyRectInv, EndBandInv,
     FinishCopiesInv DEF CopyNext
<1> QED
  BY <1>1, <1>2

\* For every region of the X server, displacement and framebuffer, whatever
\* rfbSendCopyRegion has sent so far shows what the sources showed before it.
THEOREM CopySourcesIntact == CopySpec => []SourcesIntact
<1>1. CopyInv => SourcesIntact
  BY DEF CopyInv, Intact, SourcesIntact
<1> QED
  BY CopyInitInv, CopyNextInv, <1>1, PTL DEF CopySpec

\* rfbSendCopyRegion implements one copy of the whole region: this is the
\* justification of the operator Received of FramebufferUpdate.
THEOREM CopyImplementsSimultaneous == CopySpec => CopiesAtOnce
<1>1. CopyInit => Simultaneous!Init
  <2> SUFFICES ASSUME CopyInit PROVE Simultaneous!Init
    OBVIOUS
  <2>1. pc = "outer" /\ before \in {c.before : c \in Copies}
    BY DEF CopyInit, CopyStart
  <2> QED
    BY <2>1 DEF Simultaneous!Init
<1>2. ASSUME CopyInv, [CopyNext]_vars
      PROVE  [Simultaneous!Next]_Simultaneous!vars
  <2>1. CASE FinishCopies
    <3>1. /\ pc = "outer" /\ pc' = "done" /\ shown' = shown /\ reg' = reg
          /\ dx' = dx /\ dy' = dy
      BY <2>1 DEF FinishCopies, args
    <3>2. copied = 1 .. NumRects /\ DOMAIN reg = 1 .. NumRects
      BY <1>2, <2>1, FinishSendsAll, ArgsFacts DEF CopyInv
    <3>3. /\ DOMAIN before = Pixels
          /\ before = [p \in Pixels |-> before[p]]
      BY <1>2, ArgsFacts DEF CopyInv
    <3> DEFINE region == {p \in Pixels : \E i \in DOMAIN reg : Inside(p, reg[i])}
    <3>4. shown = [p \in DOMAIN before |->
                     IF p \in region
                     THEN before[<<p[1] - dx, p[2] - dy>>] ELSE before[p]]
      BY <1>2, <3>2, <3>3 DEF CopyInv, Intact, Shifted
    <3>5. region' = region
      BY <3>1 DEF Inside
    <3>6. Simultaneous!CopyAll
      BY <3>1, <3>4, <3>5 DEF Simultaneous!CopyAll, Simultaneous!Copied
    <3> QED
      BY <3>6 DEF Simultaneous!Next
  <2>2. ASSUME UNCHANGED args, pc # "done", pc' # "done"
        PROVE  UNCHANGED Simultaneous!vars
    BY <2>2 DEF Simultaneous!vars, args, Inside
  <2>3. CASE UNCHANGED vars
    BY <2>3 DEF vars, args, Simultaneous!vars, Inside
  <2>4. CASE StartBand
    BY <2>2, <2>4 DEF StartBand
  <2>5. CASE ScanBand
    BY <2>2, <2>5 DEF ScanBand
  <2>6. CASE EndScan
    BY <2>2, <2>6 DEF EndScan
  <2>7. CASE SendCopyRect
    BY <2>2, <2>7 DEF SendCopyRect
  <2>8. CASE EndBand
    BY <2>2, <2>8 DEF EndBand
  <2> QED
    BY <1>2, <2>1, <2>3, <2>4, <2>5, <2>6, <2>7, <2>8 DEF CopyNext
<1> QED
  BY CopyInitInv, CopyNextInv, <1>1, <1>2, PTL
  DEF CopySpec, CopiesAtOnce, Simultaneous!Spec

-----------------------------------------------------------------------------
(***************************************************************************)
(* Cutting a rectangle into pieces and bands.                              *)
(***************************************************************************)

Points == Int \X Int

\* What a rectangle contributes to a count.
One(r, p) == IF Covers(r, p) THEN 1 ELSE 0

\* What the assumption on the constants says of each of them.
LEMMA Sizes ==
  /\ NumThreads \in Nat \ {0} /\ MaxRectWidth \in Nat \ {0}
  /\ MinSplitSize \in Nat \ {0} /\ MinSolidSize \in Nat \ {0}
  /\ TileSize \in Nat \ {0}
  /\ MaxRectSize \in Nat \ {0} /\ MaxRectWidth <= MaxRectSize
<1>1. /\ NumThreads \in Nat \ {0} /\ MaxRectWidth \in Nat \ {0}
      /\ MinSplitSize \in Nat \ {0} /\ MinSolidSize \in Nat \ {0}
      /\ TileSize \in Nat \ {0} /\ MaxRectSize \in Nat
      /\ MaxRectSize >= MaxRectWidth * TileSize
  BY TightAssumption
<1>2. MaxRectWidth * 1 <= MaxRectWidth * TileSize
  BY <1>1, ProductMono
<1>3. MaxRectWidth * TileSize \in Nat
  BY <1>1
<1> QED
  BY <1>1, <1>2, <1>3

\* n pixels are cut at the multiples of a length.
LEMMA CutFacts ==
  ASSUME NEW n \in Nat \ {0}, NEW len \in Nat \ {0}
  PROVE  /\ (n - 1) \div len + 1 \in Nat \ {0}
         /\ \A a \in 0 .. (n - 1) \div len : a * len \in 0 .. n - 1
         /\ \A q \in 0 .. n - 1 :
              \E a \in 0 .. (n - 1) \div len : a * len <= q /\ q < a * len + len
<1> DEFINE last == (n - 1) \div len
<1>1. /\ last \in Nat /\ len * last <= n - 1 /\ n - 1 < len * last + len
      /\ last * len = len * last
  <2>1. n - 1 \in Int /\ n - 1 >= 0
    OBVIOUS
  <2>2. last \in Nat /\ len * last <= n - 1 /\ n - 1 < len * last + len
    BY <2>1, DivFacts
  <2> QED
    BY <2>2
<1>2. ASSUME NEW a \in 0 .. last
      PROVE  a * len \in 0 .. n - 1
  <2> HIDE DEF last
  <2>1. a \in Nat /\ a <= last
    BY <1>1
  <2>2. a * len <= last * len /\ a * len \in Nat
    BY <1>1, <2>1, ProductMono
  <2> QED
    BY <1>1, <2>2
<1>3. ASSUME NEW q \in 0 .. n - 1
      PROVE  \E a \in 0 .. last : a * len <= q /\ q < a * len + len
  <2> DEFINE a == q \div len
  <2>1. q \in Int /\ q >= 0 /\ q <= n - 1
    OBVIOUS
  <2>2. a \in Nat /\ len * a <= q /\ q < len * a + len /\ len * a = a * len
    BY <2>1, DivFacts
  <2> HIDE DEF a, last
  <2>3. a <= last
    <3> SUFFICES ASSUME last + 1 <= a PROVE FALSE
      BY <1>1, <2>2
    <3>1. (last + 1) * len <= a * len
      BY <1>1, <2>2, ProductMono
    <3>2. (last + 1) * len = len * last + len
      BY <1>1
    <3> QED
      BY <1>1, <2>1, <2>2, <3>1, <3>2
  <2> QED
    BY <1>1, <2>2, <2>3
<1> HIDE DEF last
<1>4. last + 1 \in Nat \ {0}
  BY <1>1
<1> QED
  BY <1>2, <1>3, <1>4 DEF last

\* Two multiples of a length are at least the length apart.
LEMMA Apart ==
  ASSUME NEW a \in Int, NEW b \in Int, NEW len \in Nat, NEW q \in Int,
         a * len <= q, q < a * len + len, b * len <= q, q < b * len + len
  PROVE  a = b
<1>1. ~(a < b)
  <2> SUFFICES ASSUME a + 1 <= b PROVE FALSE
    OBVIOUS
  <2>1. (a + 1) * len <= b * len
    BY ProductMono
  <2>2. (a + 1) * len = a * len + len
    OBVIOUS
  <2>3. a * len \in Int /\ b * len \in Int
    OBVIOUS
  <2> QED
    BY <2>1, <2>2, <2>3
<1>2. ~(b < a)
  <2> SUFFICES ASSUME b + 1 <= a PROVE FALSE
    OBVIOUS
  <2>1. (b + 1) * len <= a * len
    BY ProductMono
  <2>2. (b + 1) * len = b * len + len
    OBVIOUS
  <2>3. a * len \in Int /\ b * len \in Int
    OBVIOUS
  <2> QED
    BY <2>1, <2>2, <2>3
<1> QED
  BY <1>1, <1>2

\* A pair of numbers below two bounds, as one number, and back.
LEMMA PairFacts ==
  ASSUME NEW cols \in Nat \ {0}, NEW rows \in Nat
  PROVE  /\ cols * rows \in Nat
         /\ \A k \in 1 .. cols * rows :
              /\ (k - 1) % cols \in 0 .. cols - 1
              /\ (k - 1) \div cols \in 0 .. rows - 1
              /\ k = cols * ((k - 1) \div cols) + ((k - 1) % cols) + 1
         /\ \A a \in 0 .. cols - 1, b \in 0 .. rows - 1 :
              /\ cols * b + a + 1 \in 1 .. cols * rows
              /\ ((cols * b + a + 1) - 1) % cols = a
              /\ ((cols * b + a + 1) - 1) \div cols = b
<1>1. cols * rows \in Nat
  BY ProductNat
<1>2. ASSUME NEW k \in 1 .. cols * rows
      PROVE  /\ (k - 1) % cols \in 0 .. cols - 1
             /\ (k - 1) \div cols \in 0 .. rows - 1
             /\ k = cols * ((k - 1) \div cols) + ((k - 1) % cols) + 1
  <2> DEFINE a == (k - 1) % cols
             b == (k - 1) \div cols
             t == cols * b
  <2>1. k - 1 \in Int /\ k - 1 >= 0 /\ k - 1 < cols * rows
    BY <1>1
  <2>2. /\ b \in Nat /\ a \in 0 .. cols - 1 /\ a = k - 1 - cols * b
        /\ cols * b <= k - 1
    BY <2>1, DivFacts
  <2> HIDE DEF a, b
  <2>3. t \in Nat
    BY <2>2
  <2>4. b < rows
    <3> SUFFICES ASSUME rows <= b PROVE FALSE
      BY <2>2
    <3>1. cols * rows <= cols * b
      BY <2>2, ProductMono
    <3> QED
      BY <1>1, <2>1, <2>2, <2>3, <3>1
  <2>5. b \in 0 .. rows - 1
    BY <2>2, <2>4
  <2>6. k = t + a + 1
    <3> HIDE DEF t
    <3>1. a = k - 1 - t /\ t \in Nat
      BY <2>2, <2>3 DEF t
    <3> QED
      BY <2>2, <3>1
  <2> QED
    BY <2>2, <2>5, <2>6 DEF a, b
<1>3. ASSUME NEW a \in 0 .. cols - 1, NEW b \in 0 .. rows - 1
      PROVE  /\ cols * b + a + 1 \in 1 .. cols * rows
             /\ ((cols * b + a + 1) - 1) % cols = a
             /\ ((cols * b + a + 1) - 1) \div cols = b
  <2> DEFINE t == cols * b
             u == t + a
  <2>1. t \in Nat /\ u \in Int
    OBVIOUS
  <2>2. cols * (b + 1) <= cols * rows
    BY ProductMono
  <2>3. cols * (b + 1) = t + cols
    OBVIOUS
  <2>4. u + 1 \in 1 .. cols * rows
    <3> HIDE DEF t
    <3> QED
      BY <1>1, <2>1, <2>2, <2>3
  <2>5. u \div cols = b /\ u % cols = u - t
    <3>1. cols * b <= u /\ u < cols * b + cols
      <4> HIDE DEF t
      <4>1. t <= u /\ u < t + cols
        BY <2>1
      <4> QED
        BY <4>1 DEF t
    <3>2. u \in Int /\ b \in Int
      BY <2>1
    <3> HIDE DEF u
    <3>3. u \div cols = b /\ u % cols = u - cols * b
      BY <3>1, <3>2, DivIs
    <3> QED
      BY <3>3
  <2>6. u + 1 - 1 = u /\ u - t = a
    <3> HIDE DEF t
    <3> QED
      BY <2>1
  <2> QED
    BY <2>4, <2>5, <2>6
<1> QED
  BY <1>1, <1>2, <1>3

\* Its last part: each pair has its place.
LEMMA PlacesOfPairs ==
  ASSUME NEW cols \in Nat \ {0}, NEW rows \in Nat
  PROVE  \A a \in 0 .. cols - 1, b \in 0 .. rows - 1 :
           /\ cols * b + a + 1 \in 1 .. cols * rows
           /\ ((cols * b + a + 1) - 1) % cols = a
           /\ ((cols * b + a + 1) - 1) \div cols = b
  BY PairFacts, Zenon

LEMMA LeastFacts ==
  ASSUME NEW a \in Int, NEW b \in Int
  PROVE  /\ Least(a, b) \in {a, b}
         /\ Least(a, b) <= a /\ Least(a, b) <= b
  BY DEF Least

\* A piece of the greatest width and height holds at most MaxRectSize pixels.
LEMMA HighestPiece ==
  ASSUME NEW w \in Nat \ {0}
  PROVE  /\ SubrectMaxWidth(w) \in 1 .. MaxRectWidth /\ SubrectMaxWidth(w) <= w
         /\ SubrectMaxHeight(w) \in Nat \ {0}
         /\ SubrectMaxWidth(w) * SubrectMaxHeight(w) <= MaxRectSize
         /\ MaxRectSize < SubrectMaxWidth(w) * SubrectMaxHeight(w)
                            + SubrectMaxWidth(w)
<1> DEFINE sw == SubrectMaxWidth(w)
           high == MaxRectSize \div sw
<1>1. sw \in Nat \ {0} /\ sw <= MaxRectWidth /\ sw <= w
  BY Sizes, LeastFacts DEF SubrectMaxWidth
<1> HIDE DEF sw
<1>2. high \in Nat /\ sw * high <= MaxRectSize /\ MaxRectSize < sw * high + sw
  BY <1>1, Sizes, DivFacts
<1>3. high # 0
  <2> SUFFICES ASSUME high = 0 PROVE FALSE
    OBVIOUS
  <2>1. sw * 0 = 0
    BY <1>1
  <2>2. MaxRectSize < 0 + sw
    BY <1>2, <2>1
  <2> QED
    BY <1>1, <2>2, Sizes
<1> QED
  BY <1>1, <1>2, <1>3, Sizes DEF SubrectMaxHeight, sw

\* Where the rectangle of the a-th column and the b-th row lies.
Piece(r, a, b) ==
  LET high == SubrectMaxHeight(r.w)
  IN  Rect(r.x + a * MaxRectWidth, r.y + b * high,
           Least(MaxRectWidth, r.w - a * MaxRectWidth),
           Least(high, r.h - b * high))

\* A piece fits, and covers its part of the rectangle.
LEMMA PieceFacts ==
  ASSUME NEW r \in Rects, r.w > 0, r.h > 0,
         NEW a \in 0 .. (r.w - 1) \div MaxRectWidth,
         NEW b \in 0 .. (r.h - 1) \div SubrectMaxHeight(r.w)
  PROVE  /\ Piece(r, a, b) \in Rects
         /\ ~TooLarge(Piece(r, a, b).w, Piece(r, a, b).h)
         /\ \A p \in Points : Covers(Piece(r, a, b), p) <=>
              /\ Covers(r, p)
              /\ a * MaxRectWidth <= p[1] - r.x
              /\ p[1] - r.x < a * MaxRectWidth + MaxRectWidth
              /\ b * SubrectMaxHeight(r.w) <= p[2] - r.y
              /\ p[2] - r.y < b * SubrectMaxHeight(r.w) + SubrectMaxHeight(r.w)
<1> DEFINE wide == MaxRectWidth
           high == SubrectMaxHeight(r.w)
           sw   == SubrectMaxWidth(r.w)
           ox   == a * wide
           oy   == b * high
           w    == Least(wide, r.w - ox)
           h    == Least(high, r.h - oy)
<1>1. r.x \in Int /\ r.y \in Int /\ r.w \in Nat \ {0} /\ r.h \in Nat \ {0}
  BY DEF Rects
<1>2. /\ wide \in Nat \ {0} /\ high \in Nat \ {0}
      /\ sw \in 1 .. wide /\ sw <= r.w /\ sw * high <= MaxRectSize
      /\ sw = Least(r.w, wide)
  BY <1>1, Sizes, HighestPiece DEF SubrectMaxWidth
<1>3. ox \in 0 .. r.w - 1
  <2> HIDE DEF high
  <2> QED
    BY <1>1, <1>2, CutFacts
<1>4. oy \in 0 .. r.h - 1
  <2>1. \A c \in 0 .. (r.h - 1) \div high : c * high \in 0 .. r.h - 1
    <3> HIDE DEF high
    <3> QED
      BY <1>1, <1>2, CutFacts
  <2> QED
    BY <2>1
<1> HIDE DEF ox, oy, wide, high, sw
<1>5. /\ w \in Nat /\ w <= wide /\ w <= r.w - ox /\ w \in {wide, r.w - ox}
      /\ h \in Nat /\ h <= high /\ h <= r.h - oy /\ h \in {high, r.h - oy}
  BY <1>1, <1>2, <1>3, <1>4, LeastFacts DEF Least
<1>6. w <= sw
  BY <1>1, <1>2, <1>3, <1>5 DEF Least
<1> HIDE DEF w, h
<1>7. Piece(r, a, b) = Rect(r.x + ox, r.y + oy, w, h)
  BY DEF Piece, ox, oy, w, h, wide, high
<1>8. r.x + ox \in Int /\ r.y + oy \in Int
  BY <1>1, <1>3, <1>4
<1>9. /\ Piece(r, a, b) \in Rects
      /\ Piece(r, a, b).x = r.x + ox /\ Piece(r, a, b).y = r.y + oy
      /\ Piece(r, a, b).w = w /\ Piece(r, a, b).h = h
  <2> DEFINE ax == r.x + ox
             ay == r.y + oy
  <2>1. ax \in Int /\ ay \in Int /\ w \in Nat /\ h \in Nat
    BY <1>5, <1>8
  <2>2. Piece(r, a, b) = Rect(ax, ay, w, h)
    BY <1>7
  <2> HIDE DEF ax, ay
  <2>3. /\ Piece(r, a, b) \in Rects
        /\ Piece(r, a, b).x = ax /\ Piece(r, a, b).y = ay
        /\ Piece(r, a, b).w = w /\ Piece(r, a, b).h = h
    BY <2>1, <2>2 DEF Rect, Rects
  <2> QED
    BY <2>3 DEF ax, ay
<1>10. w * h <= MaxRectSize
  <2>1. w * h <= sw * h /\ sw * h <= sw * high
    BY <1>2, <1>5, <1>6, ProductMono
  <2>2. w * h \in Nat /\ sw * h \in Nat /\ sw * high \in Nat
    BY <1>2, <1>5
  <2> QED
    BY <1>2, <2>1, <2>2, Sizes
<1>11. ~TooLarge(w, h)
  <2>1. w * h \in Nat
    BY <1>5
  <2> QED
    BY <1>2, <1>5, <1>10, <2>1, Sizes DEF TooLarge, wide
<1>12. ASSUME NEW p \in Points
       PROVE  Covers(Piece(r, a, b), p) <=>
                /\ Covers(r, p)
                /\ ox <= p[1] - r.x /\ p[1] - r.x < ox + wide
                /\ oy <= p[2] - r.y /\ p[2] - r.y < oy + high
  <2>1. p[1] \in Int /\ p[2] \in Int
    BY DEF Points
  <2>2. Covers(Piece(r, a, b), p) <=>
          /\ r.x + ox <= p[1] /\ p[1] < r.x + ox + w
          /\ r.y + oy <= p[2] /\ p[2] < r.y + oy + h
    BY <1>9 DEF Covers
  <2>3. Covers(r, p) <=> /\ r.x <= p[1] /\ p[1] < r.x + r.w
                         /\ r.y <= p[2] /\ p[2] < r.y + r.h
    BY DEF Covers
  <2> QED
    BY <1>1, <1>2, <1>3, <1>4, <1>5, <2>1, <2>2, <2>3
<1> QED
  BY <1>9, <1>11, <1>12 DEF ox, oy, wide, high

\* SendRectSimple makes a piece of each row and column.
LEMMA SplitIs ==
  ASSUME NEW r \in Rects, TooLarge(r.w, r.h), r.h > 0
  PROVE  LET cols == (r.w - 1) \div MaxRectWidth + 1
             rows == (r.h - 1) \div SubrectMaxHeight(r.w) + 1
         IN  /\ r.w > 0 /\ cols \in Nat \ {0} /\ rows \in Nat \ {0}
             /\ cols * rows \in Nat
             /\ Split(r) = [k \in 1 .. cols * rows |->
                              Piece(r, (k - 1) % cols, (k - 1) \div cols)]
<1> DEFINE cols == (r.w - 1) \div MaxRectWidth + 1
           rows == (r.h - 1) \div SubrectMaxHeight(r.w) + 1
<1>1. r.w \in Nat \ {0} /\ r.h \in Nat \ {0}
  <2>1. r.w \in Nat /\ r.h \in Nat
    BY DEF Rects
  <2>2. ASSUME r.w = 0 PROVE FALSE
    <3>1. 0 * r.h = 0
      BY <2>1
    <3> QED
      BY <2>2, <3>1, Sizes DEF TooLarge
  <2> QED
    BY <2>1, <2>2
<1>2. cols \in Nat \ {0}
  BY <1>1, Sizes, CutFacts
<1>3. rows \in Nat \ {0}
  BY <1>1, HighestPiece, CutFacts
<1>4. cols * rows \in Nat
  <2> HIDE DEF cols, rows
  <2> QED
    BY <1>2, <1>3
<1>5. Split(r) = [k \in 1 .. cols * rows |->
                    Piece(r, (k - 1) % cols, (k - 1) \div cols)]
  BY DEF Split, Piece
<1> HIDE DEF cols, rows
<1>6. r.w > 0
  BY <1>1
<1> QED
  BY <1>2, <1>3, <1>4, <1>5, <1>6 DEF cols, rows

\* A rectangle without rows is not sent, unless it fits in one piece.
LEMMA SplitOfNothing ==
  ASSUME NEW r \in Rects, TooLarge(r.w, r.h), r.h = 0
  PROVE  Split(r) = <<>>
<1>1. r.w \in Nat \ {0}
  <2>1. r.w \in Nat
    BY DEF Rects
  <2>2. r.w * 0 = 0
    BY <2>1
  <2>3. r.w > MaxRectWidth
    BY <2>2, Sizes DEF TooLarge
  <2> QED
    BY <2>1, <2>3, Sizes
<1> DEFINE cols == (r.w - 1) \div MaxRectWidth + 1
           high == SubrectMaxHeight(r.w)
           rows == (0 - 1) \div high + 1
<1>2. cols \in Nat
  BY <1>1, Sizes, CutFacts
<1>3. rows = 0
  <2>1. high \in Nat \ {0}
    BY <1>1, HighestPiece
  <2> DEFINE q == (0 - 1) \div high
  <2>2. q \in Int /\ high * q <= -1 /\ -1 < high * q + high
    <3> HIDE DEF high
    <3>1. 0 - 1 \in Int /\ 0 - 1 = -1
      OBVIOUS
    <3> QED
      BY <2>1, <3>1, DivFacts
  <2> HIDE DEF high, q
  <2>3. high * (-1) <= -1 /\ -1 < high * (-1) + high
    BY <2>1
  <2>4. q = -1
    <3>1. q * high <= -1 /\ -1 < q * high + high
      BY <2>1, <2>2
    <3>2. -1 * high <= -1 /\ -1 < (-1) * high + high
      BY <2>1, <2>3
    <3>3. -1 \in Int /\ high \in Nat
      BY <2>1
    <3> QED
      BY <2>2, <3>1, <3>2, <3>3, Apart
  <2> QED
    BY <2>4 DEF q
<1>4. DOMAIN Split(r) = 1 .. cols * rows
  BY DEF Split
<1>5. cols * rows = 0
  <2> HIDE DEF cols, rows
  <2> QED
    BY <1>2, <1>3
<1>6. DOMAIN Split(r) = {}
  BY <1>4, <1>5
<1>7. Split(r) = [k \in 1 .. cols * rows |->
                    Piece(r, (k - 1) % cols, (k - 1) \div cols)]
  BY DEF Split, Piece
<1> QED
  BY <1>5, <1>7

Unmarked(s) == [k \in DOMAIN s |-> [solid |-> FALSE, rect |-> s[k]]]

SentPieces == [solid: BOOLEAN, rect: Rects]

\* SendRectSimple sends pieces that fit.
LEMMA SplitFits ==
  ASSUME NEW r \in Rects
  PROVE  /\ Split(r) \in Seq(Rects)
         /\ \A k \in DOMAIN Split(r) : ~TooLarge(Split(r)[k].w, Split(r)[k].h)
<1>1. CASE ~TooLarge(r.w, r.h)
  <2>1. Split(r) = <<r>>
    BY <1>1 DEF Split
  <2> QED
    BY <1>1, <2>1
<1>2. CASE TooLarge(r.w, r.h) /\ r.h = 0
  <2>1. Split(r) = <<>>
    BY <1>2, SplitOfNothing
  <2> QED
    BY <2>1
<1>3. CASE TooLarge(r.w, r.h) /\ r.h > 0
  <2> DEFINE cols == (r.w - 1) \div MaxRectWidth + 1
             rows == (r.h - 1) \div SubrectMaxHeight(r.w) + 1
             n    == cols * rows
             s    == [k \in 1 .. n |-> Piece(r, (k - 1) % cols, (k - 1) \div cols)]
  <2>1. /\ r.w > 0 /\ cols \in Nat \ {0} /\ rows \in Nat \ {0}
        /\ n \in Nat /\ Split(r) = s
    BY <1>3, SplitIs
  <2>2. /\ cols - 1 = (r.w - 1) \div MaxRectWidth
        /\ rows - 1 = (r.h - 1) \div SubrectMaxHeight(r.w)
    <3>1. (r.w - 1) \div MaxRectWidth \in Int
      BY Sizes DEF Rects
    <3>2. (r.h - 1) \div SubrectMaxHeight(r.w) \in Int
      <4>1. r.w \in Nat \ {0} /\ r.h - 1 \in Int
        BY <2>1 DEF Rects
      <4> QED
        BY <4>1, HighestPiece
    <3> QED
      BY <3>1, <3>2
  <2> HIDE DEF cols, rows
  <2>3. ASSUME NEW k \in 1 .. n
        PROVE  /\ s[k] \in Rects
               /\ ~TooLarge(s[k].w, s[k].h)
    <3>1. (k - 1) % cols \in 0 .. cols - 1 /\ (k - 1) \div cols \in 0 .. rows - 1
      BY <2>1, PairFacts
    <3> DEFINE a == (k - 1) % cols
               b == (k - 1) \div cols
    <3>2. s[k] = Piece(r, a, b)
      OBVIOUS
    <3>3. /\ a \in 0 .. (r.w - 1) \div MaxRectWidth
          /\ b \in 0 .. (r.h - 1) \div SubrectMaxHeight(r.w)
      BY <2>2, <3>1
    <3> HIDE DEF a, b, s
    <3>4. Piece(r, a, b) \in Rects /\ ~TooLarge(Piece(r, a, b).w, Piece(r, a, b).h)
      BY <1>3, <2>1, <3>3, PieceFacts
    <3> QED
      BY <3>2, <3>4
  <2>4. DOMAIN s = 1 .. n /\ s \in [1 .. n -> Rects]
    BY <2>3
  <2> HIDE DEF s, n
  <2>5. s \in Seq(Rects)
    BY <2>1, <2>4
  <2> QED
    BY <2>1, <2>3, <2>4, <2>5
<1> QED
  BY <1>1, <1>2, <1>3 DEF Rects

\* Between them they cover the rectangle, every pixel once.
LEMMA SplitCovers ==
  ASSUME NEW r \in Rects, NEW p \in Points
  PROVE  /\ Unmarked(Split(r)) \in Seq(SentPieces)
         /\ Count(Unmarked(Split(r)), p) = One(r, p)
<1> DEFINE sent == Unmarked(Split(r))
<1>1. /\ DOMAIN sent = DOMAIN Split(r)
      /\ \A k \in DOMAIN sent : sent[k].rect = Split(r)[k]
  BY DEF Unmarked
<1>2. sent \in Seq(SentPieces)
  <2>1. Split(r) \in Seq(Rects)
    BY SplitFits
  <2>2. DOMAIN Split(r) = 1 .. Len(Split(r)) /\ Len(Split(r)) \in Nat
    BY <2>1
  <2>3. sent \in [1 .. Len(Split(r)) -> SentPieces]
    BY <2>1, <2>2 DEF Unmarked, SentPieces
  <2> HIDE DEF sent
  <2> QED
    BY <2>2, <2>3
<1> HIDE DEF sent
<1>3. ASSUME NEW s, Split(r) = s, \A k \in DOMAIN s : ~Covers(s[k], p)
      PROVE  Count(sent, p) = 0
  BY <1>1, <1>3, CountNone
<1>4. ASSUME NEW s, Split(r) = s, NEW k \in DOMAIN s, Covers(s[k], p),
             \A i \in DOMAIN s : Covers(s[i], p) => i = k
      PROVE  Count(sent, p) = 1
  BY <1>1, <1>4, CountOne
<1>5. CASE ~TooLarge(r.w, r.h)
  <2>1. Split(r) = <<r>>
    BY <1>5 DEF Split
  <2>2. DOMAIN sent = {1} /\ sent[1].rect = r
    BY <1>1, <2>1
  <2>3. CASE Covers(r, p)
    <3>1. Count(sent, p) = 1
      BY <2>2, <2>3, CountOne
    <3> QED
      BY <1>2, <2>3, <3>1 DEF One, sent
  <2>4. CASE ~Covers(r, p)
    <3>1. Count(sent, p) = 0
      BY <2>2, <2>4, CountNone
    <3> QED
      BY <1>2, <2>4, <3>1 DEF One, sent
  <2> QED
    BY <2>3, <2>4
<1>6. CASE TooLarge(r.w, r.h) /\ r.h = 0
  <2>1. Split(r) = <<>> /\ DOMAIN <<>> = {}
    BY <1>6, SplitOfNothing
  <2>2. ~Covers(r, p)
    BY <1>6 DEF Covers, Points, Rects
  <2>3. Count(sent, p) = 0
    BY <1>3, <2>1
  <2> QED
    BY <1>2, <2>2, <2>3 DEF One, sent
<1>7. CASE TooLarge(r.w, r.h) /\ r.h > 0
  <2> DEFINE last1 == (r.w - 1) \div MaxRectWidth
             last2 == (r.h - 1) \div SubrectMaxHeight(r.w)
             cols == last1 + 1
             rows == last2 + 1
             high == SubrectMaxHeight(r.w)
             n    == cols * rows
             s    == [k \in 1 .. n |-> Piece(r, (k - 1) % cols, (k - 1) \div cols)]
  <2>1. /\ r.w > 0 /\ cols \in Nat \ {0} /\ rows \in Nat \ {0}
        /\ n \in Nat /\ Split(r) = s
    BY <1>7, SplitIs
  <2>2. r.w \in Nat \ {0} /\ r.h \in Nat \ {0} /\ r.x \in Int /\ r.y \in Int
    BY <1>7, <2>1 DEF Rects
  <2>3. high \in Nat \ {0} /\ MaxRectWidth \in Nat \ {0}
    BY <2>2, HighestPiece, Sizes
  <2>4. last1 \in Nat /\ last2 \in Nat /\ cols - 1 = last1 /\ rows - 1 = last2
    <3>1. last1 \in Int
      BY <2>2, Sizes
    <3>2. last2 \in Int
      <4>1. r.h - 1 \in Int
        BY <2>2
      <4> QED
        BY <2>3, <4>1
    <3> HIDE DEF last1, last2
    <3> QED
      BY <2>1, <3>1, <3>2
  <2>5. \A a \in 0 .. last1, b \in 0 .. last2 :
          Covers(Piece(r, a, b), p) <=>
            /\ Covers(r, p)
            /\ a * MaxRectWidth <= p[1] - r.x
            /\ p[1] - r.x < a * MaxRectWidth + MaxRectWidth
            /\ b * high <= p[2] - r.y
            /\ p[2] - r.y < b * high + high
    BY <1>7, <2>1, PieceFacts
  <2>6. \A q \in 0 .. r.w - 1 :
          \E a \in 0 .. last1 : a * MaxRectWidth <= q /\ q < a * MaxRectWidth + MaxRectWidth
    BY <2>2, <2>3, CutFacts
  <2>7. \A q \in 0 .. r.h - 1 :
          \E b \in 0 .. last2 : b * high <= q /\ q < b * high + high
    <3> HIDE DEF high
    <3>1. \A q \in 0 .. r.h - 1 :
          \E b \in 0 .. (r.h - 1) \div high : b * high <= q /\ q < b * high + high
      BY <2>2, <2>3, CutFacts
    <3> QED
      BY <3>1 DEF high
  <2>8. /\ DOMAIN s = 1 .. n
        /\ \A k \in 1 .. n : s[k] = Piece(r, (k - 1) % cols, (k - 1) \div cols)
    OBVIOUS
  <2> HIDE DEF last1, last2, high
  <2>9. \A k \in 1 .. n :
          /\ (k - 1) % cols \in 0 .. last1
          /\ (k - 1) \div cols \in 0 .. last2
          /\ k = cols * ((k - 1) \div cols) + ((k - 1) % cols) + 1
    <3> HIDE DEF cols, rows
    <3> QED
      BY <2>1, <2>4, PairFacts
  <2>10. \A a \in 0 .. last1, b \in 0 .. last2 :
           /\ cols * b + a + 1 \in 1 .. n
           /\ ((cols * b + a + 1) - 1) % cols = a
           /\ ((cols * b + a + 1) - 1) \div cols = b
    <3> HIDE DEF s, cols, rows
    <3>1. cols \in Nat \ {0} /\ rows \in Nat
      BY <2>1
    <3>2. \A a \in 0 .. cols - 1, b \in 0 .. rows - 1 :
            /\ cols * b + a + 1 \in 1 .. cols * rows
            /\ ((cols * b + a + 1) - 1) % cols = a
            /\ ((cols * b + a + 1) - 1) \div cols = b
      BY <3>1, PlacesOfPairs, Zenon
    <3>3. cols - 1 = last1 /\ rows - 1 = last2
      BY <2>4
    <3> QED
      BY <3>2, <3>3, Zenon
  <2> HIDE DEF s, n, cols, rows
  <2>11. CASE ~Covers(r, p)
    <3>1. \A k \in 1 .. n : ~Covers(s[k], p)
      BY <2>5, <2>8, <2>9, <2>11
    <3>2. Count(sent, p) = 0
      BY <1>3, <2>1, <2>8, <3>1
    <3> QED
      BY <1>2, <2>11, <3>2 DEF One, sent
  <2>12. CASE Covers(r, p)
    <3>1. p[1] \in Int /\ p[2] \in Int
      BY DEF Points
    <3>2. p[1] - r.x \in 0 .. r.w - 1 /\ p[2] - r.y \in 0 .. r.h - 1
      BY <2>2, <2>12, <3>1 DEF Covers
    <3>3. PICK a \in 0 .. last1 : /\ a * MaxRectWidth <= p[1] - r.x
                                  /\ p[1] - r.x < a * MaxRectWidth + MaxRectWidth
      BY <2>6, <3>2
    <3>4. PICK b \in 0 .. last2 : /\ b * high <= p[2] - r.y
                                  /\ p[2] - r.y < b * high + high
      BY <2>7, <3>2
    <3> DEFINE k == cols * b + a + 1
    <3>5. k \in 1 .. n /\ (k - 1) % cols = a /\ (k - 1) \div cols = b
      BY <2>10
    <3> HIDE DEF k
    <3>6. Covers(s[k], p)
      BY <2>5, <2>8, <2>12, <3>3, <3>4, <3>5
    <3>7. ASSUME NEW i \in 1 .. n, Covers(s[i], p)
          PROVE  i = k
      <4> DEFINE c == (i - 1) % cols
                 d == (i - 1) \div cols
      <4>1. c \in 0 .. last1 /\ d \in 0 .. last2 /\ i = cols * d + c + 1
        BY <2>9
      <4>2. s[i] = Piece(r, c, d)
        BY <2>8
      <4> HIDE DEF c, d
      <4>3. /\ c * MaxRectWidth <= p[1] - r.x
            /\ p[1] - r.x < c * MaxRectWidth + MaxRectWidth
            /\ d * high <= p[2] - r.y
            /\ p[2] - r.y < d * high + high
        BY <2>5, <3>7, <4>1, <4>2
      <4>4. p[1] - r.x \in Int /\ p[2] - r.y \in Int
        BY <2>2, <3>1
      <4>5. a = c
        <5> DEFINE q == p[1] - r.x
        <5>1. q \in Int /\ a \in Int /\ c \in Int /\ MaxRectWidth \in Nat
          BY <2>3, <2>4, <4>1, <4>4
        <5>2. /\ a * MaxRectWidth <= q /\ q < a * MaxRectWidth + MaxRectWidth
              /\ c * MaxRectWidth <= q /\ q < c * MaxRectWidth + MaxRectWidth
          BY <3>3, <4>3
        <5> HIDE DEF q
        <5> QED
          BY <5>1, <5>2, Apart
      <4>6. b = d
        <5> DEFINE q == p[2] - r.y
        <5>1. q \in Int /\ b \in Int /\ d \in Int /\ high \in Nat
          BY <2>3, <2>4, <4>1, <4>4
        <5>2. /\ b * high <= q /\ q < b * high + high
              /\ d * high <= q /\ q < d * high + high
          BY <3>4, <4>3
        <5> HIDE DEF q
        <5> QED
          BY <5>1, <5>2, Apart
      <4> QED
        BY <4>1, <4>5, <4>6 DEF k
    <3>8. Count(sent, p) = 1
      BY <1>4, <2>1, <2>8, <3>5, <3>6, <3>7
    <3> QED
      BY <1>2, <2>12, <3>8 DEF One, sent
  <2> QED
    BY <2>11, <2>12
<1> QED
  BY <1>5, <1>6, <1>7 DEF Rects

-----------------------------------------------------------------------------
(***************************************************************************)
(* The bands of the encoding threads.                                      *)
(***************************************************************************)

Kinds == {"update", "encode", "simple", "solid", "search"}

Jobs == [kind: Kinds, rect: Rects, dy: Int, rows: Nat]

\* The fields of a job.
LEMMA JobType ==
  ASSUME NEW kind \in Kinds, NEW r \in Rects
  PROVE  /\ Job(kind, r) \in Jobs
         /\ Job(kind, r).kind = kind /\ Job(kind, r).rect = r
         /\ Job(kind, r).dy = r.y
  BY DEF Job, Jobs, Rects

\* Threads get a band each when there is enough for more than one.
LEMMA NumBandsFacts ==
  ASSUME NEW r \in Rects
  PROVE  /\ NumBands(r) \in Nat \ {0}
         /\ NumBands(r) = 1 \/ NumBands(r) <= (r.w * r.h) \div MaxRectSize
<1> DEFINE n == (r.w * r.h) \div MaxRectSize
           T == {1, Least(NumThreads, n)}
<1>1. n \in Nat
  <2> DEFINE s == r.w * r.h
  <2>1. s \in Nat
    BY DEF Rects
  <2> HIDE DEF s
  <2>2. s \div MaxRectSize \in Nat
    BY <2>1, Sizes, DivFacts
  <2> QED
    BY <2>2 DEF s
<1> HIDE DEF n
<1>2. /\ Least(NumThreads, n) \in Int
      /\ Least(NumThreads, n) <= n
  BY <1>1, Sizes, LeastFacts
<1> DEFINE b == IF Least(NumThreads, n) >= 1 THEN Least(NumThreads, n) ELSE 1
<1>3. T \subseteq Int /\ T # {} /\ b \in Int /\ \A x \in T : x <= b
  BY <1>2
<1> HIDE DEF b
<1>4. Max(T) \in T /\ \A x \in T : x <= Max(T)
  <2> HIDE DEF T
  <2> QED
    BY <1>3, MaxFacts
<1>5. Max(T) \in Nat \ {0} /\ (Max(T) = 1 \/ Max(T) <= n)
  BY <1>2, <1>4
<1> QED
  BY <1>5 DEF NumBands, n

\* The height of the bands, but for the last.
BandHeight(r) == r.h \div NumBands(r)

\* Where the bands lie.
LEMMA BandFacts ==
  ASSUME NEW r \in Rects, NEW i \in 1 .. NumBands(r)
  PROVE  /\ Bands(r)[i].rect \in Rects
         /\ Bands(r)[i] = Job("encode", Bands(r)[i].rect)
         /\ Bands(r)[i].rect.w = r.w
         /\ Bands(r)[i].rect.h = IF i = NumBands(r)
                                 THEN r.h - BandHeight(r) * (NumBands(r) - 1)
                                 ELSE BandHeight(r)
         /\ BandHeight(r) \in Nat
         /\ BandHeight(r) * (NumBands(r) - 1) \in 0 .. r.h
         /\ \A p \in Points : Covers(Bands(r)[i].rect, p) <=>
              /\ Covers(r, p)
              /\ BandHeight(r) * (i - 1) <= p[2] - r.y
              /\ i # NumBands(r) =>
                   p[2] - r.y < BandHeight(r) * (i - 1) + BandHeight(r)
<1> DEFINE nt == NumBands(r)
           high == BandHeight(r)
           top == high * (i - 1)
           rest == high * (nt - 1)
           h == IF i = nt THEN r.h - top ELSE high
           band == Rect(r.x, r.y + top, r.w, h)
<1>1. r.x \in Int /\ r.y \in Int /\ r.w \in Nat /\ r.h \in Nat
  BY DEF Rects
<1>2. nt \in Nat \ {0}
  BY NumBandsFacts
<1>3. high \in Nat /\ nt * high <= r.h
  <2> DEFINE n == r.h
  <2>1. n \in Nat
    BY <1>1
  <2> HIDE DEF nt, n
  <2>2. n \div nt \in Nat /\ nt * (n \div nt) <= n
    <3>1. n \in Int /\ n >= 0
      BY <2>1
    <3>2. /\ nt * (n \div nt) <= n
          /\ n >= 0 => n \div nt \in Nat
      BY <1>2, <3>1, DivFacts
    <3> QED
      BY <3>1, <3>2
  <2>3. high = n \div nt
    BY DEF BandHeight, nt, n
  <2> HIDE DEF high
  <2>4. high \in Nat /\ nt * high <= n
    BY <2>2, <2>3
  <2> QED
    BY <2>4 DEF n
<1> HIDE DEF nt, high
<1>4. i \in Nat \ {0} /\ i <= nt
  BY <1>2 DEF nt
<1>5. top \in Nat /\ rest \in Nat /\ rest <= r.h /\ top <= rest
  <2>1. i - 1 \in Nat /\ nt - 1 \in Nat /\ i - 1 <= nt - 1 /\ nt - 1 <= nt
    BY <1>2, <1>4
  <2>2. top \in Nat /\ rest \in Nat
    BY <1>3, <2>1, ProductNat
  <2>3. top <= rest
    BY <1>3, <2>1, ProductMono
  <2>4. rest <= high * nt
    BY <1>2, <1>3, <2>1, ProductMono
  <2>5. high * nt = nt * high /\ high * nt \in Nat
    BY <1>2, <1>3
  <2> HIDE DEF rest, top
  <2> QED
    BY <1>1, <1>3, <2>2, <2>3, <2>4, <2>5
<1>6. i # nt => top + high <= rest
  <2> SUFFICES ASSUME i # nt PROVE top + high <= rest
    OBVIOUS
  <2>1. i <= nt - 1
    BY <1>2, <1>4
  <2>2. high * i <= high * (nt - 1)
    BY <1>2, <1>3, <1>4, <2>1, ProductMono
  <2>3. high * i = top + high
    BY <1>3, <1>4
  <2> QED
    BY <2>2, <2>3
<1>6a. i = nt => top = rest
  OBVIOUS
<1>7. Bands(r)[i] = Job("encode", band)
  <2>1. Bands(r) = [j \in 1 .. nt |->
           Job("encode", Rect(r.x, r.y + high * (j - 1), r.w,
                              IF j = nt THEN r.h - high * (j - 1) ELSE high))]
    BY DEF Bands, nt, high, BandHeight
  <2>2. i \in 1 .. nt
    BY DEF nt
  <2> QED
    BY <2>1, <2>2
<1> HIDE DEF top, rest
<1>8. h \in Nat /\ top + h <= r.h
  BY <1>1, <1>3, <1>5, <1>6
<1>9. r.y + top \in Int
  BY <1>1, <1>5
<1>9a. h = IF i = nt THEN r.h - rest ELSE high
  BY <1>6a
<1>9b. h = IF i = nt THEN r.h - top ELSE high
  OBVIOUS
<1> HIDE DEF h
<1>10. /\ band \in Rects /\ band.x = r.x /\ band.y = r.y + top /\ band.w = r.w
       /\ band.h = h
  <2> DEFINE ay == r.y + top
  <2>1. ay \in Int
    BY <1>9
  <2> HIDE DEF ay
  <2>2. LET b == Rect(r.x, ay, r.w, h)
        IN  b \in Rects /\ b.x = r.x /\ b.y = ay /\ b.w = r.w /\ b.h = h
    BY <1>1, <1>8, <2>1 DEF Rect, Rects
  <2> QED
    BY <2>2 DEF ay
<1> HIDE DEF band
<1>11. Bands(r)[i].rect = band
  BY <1>7, <1>10, JobType DEF Kinds
<1>12. ASSUME NEW p \in Points
       PROVE  Covers(band, p) <=>
                /\ Covers(r, p)
                /\ top <= p[2] - r.y
                /\ i # nt => p[2] - r.y < top + high
  <2>1. p[1] \in Int /\ p[2] \in Int
    BY DEF Points
  <2>2. Covers(band, p) <=>
          /\ r.x <= p[1] /\ p[1] < r.x + r.w
          /\ r.y + top <= p[2] /\ p[2] < r.y + top + h
    BY <1>10 DEF Covers
  <2>3. Covers(r, p) <=> /\ r.x <= p[1] /\ p[1] < r.x + r.w
                         /\ r.y <= p[2] /\ p[2] < r.y + r.h
    BY DEF Covers
  <2> QED
    BY <1>1, <1>3, <1>5, <1>6, <1>8, <1>9b, <2>1, <2>2, <2>3
<1>13. /\ band.h = IF i = nt THEN r.h - rest ELSE high
       /\ rest \in 0 .. r.h
  BY <1>1, <1>5, <1>9a, <1>10
<1> QED
  BY <1>3, <1>7, <1>10, <1>11, <1>12, <1>13 DEF nt, high, top, rest

\* The threads encode every pixel of the rectangle once.
LEMMA BandsCover ==
  ASSUME NEW r \in Rects, NEW p \in Points
  PROVE  Count(Bands(r), p) = One(r, p)
<1> DEFINE nt == NumBands(r)
           high == BandHeight(r)
           q == p[2] - r.y
<1>1. nt \in Nat \ {0} /\ DOMAIN Bands(r) = 1 .. nt
  BY NumBandsFacts DEF Bands
<1>2. high \in Nat /\ high * (nt - 1) \in Nat
  <2>1. nt \in 1 .. NumBands(r)
    BY <1>1
  <2>2. high \in Nat /\ nt - 1 \in Nat
    BY <1>1, <2>1, BandFacts
  <2> HIDE DEF high, nt
  <2> QED
    BY <2>2
<1>3. q \in Int
  BY DEF Points, Rects
<1>4. \A i \in 1 .. nt : Covers(Bands(r)[i].rect, p) <=>
        /\ Covers(r, p)
        /\ high * (i - 1) <= q
        /\ i # nt => q < high * (i - 1) + high
  BY BandFacts
<1>5. CASE ~Covers(r, p)
  <2>1. Count(Bands(r), p) = 0
    BY <1>1, <1>4, <1>5, CountNone
  <2> QED
    BY <1>5, <2>1 DEF One
<1>6. CASE Covers(r, p)
  <2>1. q >= 0
    BY <1>6 DEF Covers, Points, Rects
  <2> HIDE DEF nt, high, q
  <2>2. \E k \in 1 .. nt : /\ high * (k - 1) <= q
                           /\ k # nt => q < high * (k - 1) + high
    <3>1. CASE high * (nt - 1) <= q
      BY <1>1, <3>1
    <3>2. CASE q < high * (nt - 1)
      <4>1. high # 0
        <5> SUFFICES ASSUME high = 0 PROVE FALSE
          OBVIOUS
        <5>1. 0 * (nt - 1) = 0
          BY <1>1
        <5> QED
          BY <1>3, <2>1, <3>2, <5>1
      <4> DEFINE a == q \div high
      <4>2. a \in Nat /\ high * a <= q /\ q < high * a + high
        BY <1>2, <1>3, <2>1, <4>1, DivFacts
      <4> HIDE DEF a
      <4>3. a < nt - 1
        <5> SUFFICES ASSUME nt - 1 <= a PROVE FALSE
          BY <1>1, <4>2
        <5>1. high * (nt - 1) <= high * a
          BY <1>1, <1>2, <4>2, ProductMono
        <5>2. high * a \in Nat
          BY <1>2, <4>2
        <5> QED
          BY <1>2, <1>3, <3>2, <4>2, <5>1, <5>2
      <4>4. a + 1 \in 1 .. nt /\ (a + 1) - 1 = a
        BY <1>1, <4>2, <4>3
      <4> QED
        BY <4>2, <4>4
    <3> QED
      BY <1>2, <1>3, <3>1, <3>2
  <2>3. PICK k \in 1 .. nt : /\ high * (k - 1) <= q
                             /\ k # nt => q < high * (k - 1) + high
    BY <2>2
  <2>4. ASSUME NEW i \in 1 .. nt, high * (i - 1) <= q,
               i # nt => q < high * (i - 1) + high
        PROVE  i = k
    <3>1. i \in Int /\ k \in Int /\ i - 1 \in Int /\ k - 1 \in Int
      BY <1>1
    <3>2. ASSUME NEW a \in 1 .. nt, NEW b \in 1 .. nt, a < b,
                 q < high * (a - 1) + high, high * (b - 1) <= q
          PROVE  FALSE
      <4>1. a \in Int /\ b \in Int /\ a <= b - 1 /\ b - 1 \in Nat
        BY <1>1, <3>2
      <4>2. high * a <= high * (b - 1)
        BY <1>2, <4>1, ProductMono
      <4>3. high * a = high * (a - 1) + high
        BY <1>2, <4>1
      <4>4. high * a \in Int /\ high * (b - 1) \in Int
        BY <1>2, <4>1
      <4> QED
        BY <1>3, <3>2, <4>2, <4>3, <4>4
    <3>3. i < k => i # nt
      BY <1>1
    <3>4. k < i => k # nt
      BY <1>1
    <3> QED
      BY <2>3, <2>4, <3>1, <3>2, <3>3, <3>4
  <2>5. Covers(Bands(r)[k].rect, p)
    BY <1>4, <1>6, <2>3
  <2>6. \A i \in 1 .. nt : Covers(Bands(r)[i].rect, p) => i = k
    BY <1>4, <2>4
  <2>7. Count(Bands(r), p) = 1
    BY <1>1, <2>5, <2>6, CountOne
  <2> QED
    BY <1>6, <2>7 DEF One
<1> QED
  BY <1>5, <1>6

-----------------------------------------------------------------------------
(***************************************************************************)
(* An area of one colour and what lies around it.                          *)
(***************************************************************************)

Within(a, r) ==
  /\ a \in Rects /\ r.x <= a.x /\ r.y <= a.y
  /\ a.x + a.w <= r.x + r.w /\ a.y + a.h <= r.y + r.h

\* A job that is done on a condition.
LEMMA WhenFacts ==
  ASSUME NEW c \in BOOLEAN, NEW S, NEW j, c => j \in S
  PROVE  /\ When(c, j) \in Seq(S)
         /\ \A p : Count(When(c, j), p) = IF c THEN One(j.rect, p) ELSE 0
<1>1. CASE c
  <2>1. When(c, j) = <<j>>
    BY <1>1 DEF When
  <2>2. j \in S
    BY <1>1
  <2>3. <<j>> \in Seq(S)
    BY <2>2
  <2>4. \A p : Count(<<j>>, p) = One(j.rect, p)
    BY CountSingle DEF One
  <2> QED
    BY <1>1, <2>1, <2>3, <2>4
<1>2. CASE ~c
  <2>1. When(c, j) = <<>>
    BY <1>2 DEF When
  <2> QED
    BY <1>2, <2>1, CountEmpty
<1> QED
  BY <1>1, <1>2

\* What is cut around an area of a rectangle, and the area, cover it once.
AroundJobs(area) ==
  {j \in Jobs : j.kind \in {"simple", "encode"} \/ j = Job("solid", area)}

\* What is around an area, and the area, are the rectangle.
LEMMA AroundCovers ==
  ASSUME NEW r \in Rects, NEW area, Within(area, r)
  PROVE  /\ Around(r, area) \in Seq(AroundJobs(area))
         /\ \A p \in Points : Count(Around(r, area), p) = One(r, p)
<1> DEFINE right == area.x + area.w
           bottom == area.y + area.h
           r1 == Rect(r.x, r.y, r.w, area.y - r.y)
           r2 == Rect(r.x, area.y, area.x - r.x, area.h)
           r4 == Rect(right, area.y, r.x + r.w - right, area.h)
           r5 == Rect(r.x, bottom, r.w, r.y + r.h - bottom)
           c1 == area.y # r.y
           c2 == area.x # r.x
           c4 == right # r.x + r.w
           c5 == bottom # r.y + r.h
           S  == AroundJobs(area)
           s1 == When(c1, Job("simple", r1))
           s2 == When(c2, Job("encode", r2))
           s3 == <<Job("solid", area)>>
           s4 == When(c4, Job("encode", r4))
           s5 == When(c5, Job("encode", r5))
<1>1. /\ r.x \in Int /\ r.y \in Int /\ r.w \in Nat /\ r.h \in Nat
      /\ area \in Rects
      /\ area.x \in Int /\ area.y \in Int /\ area.w \in Nat /\ area.h \in Nat
      /\ r.x <= area.x /\ r.y <= area.y
      /\ right <= r.x + r.w /\ bottom <= r.y + r.h
  BY DEF Within, Rects
<1>2. /\ right \in Int /\ bottom \in Int
      /\ area.y - r.y \in Nat /\ area.x - r.x \in Nat
      /\ r.x + r.w - right \in Nat /\ r.y + r.h - bottom \in Nat
  BY <1>1
<1>3. r1 \in Rects /\ r2 \in Rects /\ r4 \in Rects /\ r5 \in Rects
  <2> HIDE DEF right, bottom
  <2> QED
    BY <1>1, <1>2 DEF Rect, Rects
<1>4. /\ Job("simple", r1) \in S /\ Job("encode", r2) \in S
      /\ Job("solid", area) \in S /\ Job("encode", r4) \in S
      /\ Job("encode", r5) \in S
  <2> HIDE DEF r1, r2, r4, r5
  <2> QED
    BY <1>1, <1>3, JobType DEF AroundJobs, Kinds
<1>5. /\ Job("simple", r1).rect = r1 /\ Job("encode", r2).rect = r2
      /\ Job("solid", area).rect = area /\ Job("encode", r4).rect = r4
      /\ Job("encode", r5).rect = r5
  BY DEF Job
<1>6. /\ c1 \in BOOLEAN /\ c2 \in BOOLEAN /\ c4 \in BOOLEAN /\ c5 \in BOOLEAN
  OBVIOUS
<1>7. Around(r, area) = s1 \o s2 \o s3 \o s4 \o s5
  BY DEF Around
<1> HIDE DEF S
<1>8. s1 \in Seq(S) /\ \A p : Count(s1, p) = IF c1 THEN One(r1, p) ELSE 0
  <2> HIDE DEF c1, r1
  <2> QED
    BY <1>4, <1>5, <1>6, WhenFacts
<1>9. s2 \in Seq(S) /\ \A p : Count(s2, p) = IF c2 THEN One(r2, p) ELSE 0
  <2> HIDE DEF c2, r2
  <2> QED
    BY <1>4, <1>5, <1>6, WhenFacts
<1>10. s4 \in Seq(S) /\ \A p : Count(s4, p) = IF c4 THEN One(r4, p) ELSE 0
  <2> HIDE DEF c4, r4
  <2> QED
    BY <1>4, <1>5, <1>6, WhenFacts
<1>11. s5 \in Seq(S) /\ \A p : Count(s5, p) = IF c5 THEN One(r5, p) ELSE 0
  <2> HIDE DEF c5, r5
  <2> QED
    BY <1>4, <1>5, <1>6, WhenFacts
<1>12. s3 \in Seq(S) /\ \A p : Count(s3, p) = One(area, p)
  BY <1>4, <1>5, CountSingle DEF One
<1>13. ASSUME NEW p \in Points
       PROVE  One(r, p) = (IF c1 THEN One(r1, p) ELSE 0)
                            + (IF c2 THEN One(r2, p) ELSE 0) + One(area, p)
                            + (IF c4 THEN One(r4, p) ELSE 0)
                            + (IF c5 THEN One(r5, p) ELSE 0)
  <2>1. p[1] \in Int /\ p[2] \in Int
    BY DEF Points
  <2>2. Covers(r1, p) <=> /\ r.x <= p[1] /\ p[1] < r.x + r.w
                          /\ r.y <= p[2] /\ p[2] < area.y
    BY <1>1, <2>1 DEF Covers, Rect
  <2>3. Covers(r2, p) <=> /\ r.x <= p[1] /\ p[1] < area.x
                          /\ area.y <= p[2] /\ p[2] < bottom
    BY <1>1, <2>1 DEF Covers, Rect
  <2>4. Covers(r4, p) <=> /\ right <= p[1] /\ p[1] < r.x + r.w
                          /\ area.y <= p[2] /\ p[2] < bottom
    BY <1>1, <2>1 DEF Covers, Rect
  <2>5. Covers(r5, p) <=> /\ r.x <= p[1] /\ p[1] < r.x + r.w
                          /\ bottom <= p[2] /\ p[2] < r.y + r.h
    BY <1>1, <2>1 DEF Covers, Rect
  <2>6. Covers(area, p) <=> /\ area.x <= p[1] /\ p[1] < right
                            /\ area.y <= p[2] /\ p[2] < bottom
    BY DEF Covers
  <2>7. Covers(r, p) <=> /\ r.x <= p[1] /\ p[1] < r.x + r.w
                         /\ r.y <= p[2] /\ p[2] < r.y + r.h
    BY DEF Covers
  <2>8. area.x <= right /\ area.y <= bottom
    BY <1>1
  <2> HIDE DEF right, bottom, r1, r2, r4, r5
  <2>9. (c1 /\ Covers(r1, p)) <=> (Covers(r, p) /\ p[2] < area.y)
    BY <1>1, <1>2, <2>1, <2>2, <2>7, <2>8
  <2>10. (c5 /\ Covers(r5, p)) <=> (Covers(r, p) /\ bottom <= p[2])
    BY <1>1, <1>2, <2>1, <2>5, <2>7, <2>8
  <2>11. (c2 /\ Covers(r2, p)) <=>
           (Covers(r, p) /\ area.y <= p[2] /\ p[2] < bottom /\ p[1] < area.x)
    BY <1>1, <1>2, <2>1, <2>3, <2>7, <2>8
  <2>12. (c4 /\ Covers(r4, p)) <=>
           (Covers(r, p) /\ area.y <= p[2] /\ p[2] < bottom /\ right <= p[1])
    BY <1>1, <1>2, <2>1, <2>4, <2>7, <2>8
  <2>13. Covers(area, p) <=>
           (Covers(r, p) /\ area.y <= p[2] /\ p[2] < bottom
              /\ area.x <= p[1] /\ p[1] < right)
    BY <1>1, <1>2, <2>1, <2>6, <2>7, <2>8
  <2> HIDE DEF c1, c2, c4, c5
  <2>14. CASE ~Covers(r, p)
    BY <2>9, <2>10, <2>11, <2>12, <2>13, <2>14 DEF One
  <2>15. CASE Covers(r, p) /\ p[2] < area.y
    <3>1. ~(area.y <= p[2]) /\ ~(bottom <= p[2])
      BY <1>1, <1>2, <2>1, <2>8, <2>15
    <3> QED
      BY <2>9, <2>10, <2>11, <2>12, <2>13, <2>15, <3>1 DEF One
  <2>16. CASE Covers(r, p) /\ bottom <= p[2]
    <3>1. ~(p[2] < area.y) /\ ~(p[2] < bottom)
      BY <1>1, <1>2, <2>1, <2>8, <2>16
    <3> QED
      BY <2>9, <2>10, <2>11, <2>12, <2>13, <2>16, <3>1 DEF One
  <2>17. CASE Covers(r, p) /\ area.y <= p[2] /\ p[2] < bottom
    <3>1. ~(p[2] < area.y) /\ ~(bottom <= p[2])
      BY <1>1, <1>2, <2>1, <2>8, <2>17
    <3>2. CASE p[1] < area.x
      <4>1. ~(area.x <= p[1]) /\ ~(right <= p[1])
        BY <1>1, <1>2, <2>1, <2>8, <3>2
      <4> QED
        BY <2>9, <2>10, <2>11, <2>12, <2>13, <2>17, <3>1, <3>2, <4>1 DEF One
    <3>3. CASE right <= p[1]
      <4>1. ~(p[1] < area.x) /\ ~(p[1] < right)
        BY <1>1, <1>2, <2>1, <2>8, <3>3
      <4> QED
        BY <2>9, <2>10, <2>11, <2>12, <2>13, <2>17, <3>1, <3>3, <4>1 DEF One
    <3>4. CASE area.x <= p[1] /\ p[1] < right
      <4>1. ~(p[1] < area.x) /\ ~(right <= p[1])
        BY <1>1, <1>2, <2>1, <3>4
      <4> QED
        BY <2>9, <2>10, <2>11, <2>12, <2>13, <2>17, <3>1, <3>4, <4>1 DEF One
    <3> QED
      BY <1>1, <1>2, <2>1, <3>2, <3>3, <3>4
  <2> QED
    BY <1>1, <1>2, <2>1, <2>14, <2>15, <2>16, <2>17
<1> DEFINE s12 == s1 \o s2
           s13 == s12 \o s3
           s14 == s13 \o s4
<1>14. ASSUME NEW p \in Points
       PROVE  Count(s14 \o s5, p) = One(r, p)
  <2> HIDE DEF s1, s2, s3, s4, s5
  <2>1. s12 \in Seq(S) /\ Count(s12, p) = Count(s1, p) + Count(s2, p)
    BY <1>8, <1>9, CountConcat
  <2> HIDE DEF s12
  <2>2. s13 \in Seq(S) /\ Count(s13, p) = Count(s12, p) + Count(s3, p)
    BY <1>12, <2>1, CountConcat
  <2> HIDE DEF s13
  <2>3. s14 \in Seq(S) /\ Count(s14, p) = Count(s13, p) + Count(s4, p)
    BY <1>10, <2>2, CountConcat
  <2> HIDE DEF s14
  <2>4. Count(s14 \o s5, p) = Count(s14, p) + Count(s5, p)
    BY <1>11, <2>3, CountConcat
  <2> HIDE DEF c1, c2, c4, c5, r1, r2, r4, r5
  <2> QED
    BY <1>8, <1>9, <1>10, <1>11, <1>12, <1>13, <2>1, <2>2, <2>3, <2>4, ZenonT(60)
<1>15. s14 \o s5 \in Seq(S)
  <2> HIDE DEF s1, s2, s3, s4, s5
  <2> QED
    BY <1>8, <1>9, <1>10, <1>11, <1>12
<1> HIDE DEF s1, s2, s3, s4, s5
<1> QED
  BY <1>7, <1>14, <1>15 DEF S

-----------------------------------------------------------------------------
(***************************************************************************)
(* The search for areas of one colour.                                     *)
(***************************************************************************)

\* The pixels of a rectangle are the points that it covers.
LEMMA PixelsCovered ==
  ASSUME NEW r \in Rects
  PROVE  \A p : p \in PixelsOf(r) <=> p \in Points /\ Covers(r, p)
  BY DEF PixelsOf, Points, Covers, Rects

\* Of one colour means: wherever it covers.
LEMMA SolidIs ==
  ASSUME NEW r \in Rects, NEW c
  PROVE  IsSolid(r, c) <=> \A p \in Points : Covers(r, p) => image[p] = c
  BY PixelsCovered DEF IsSolid

\* Nothing is of every colour.
LEMMA NothingIsSolid ==
  ASSUME NEW r \in Rects, r.w = 0 \/ r.h = 0, NEW c
  PROVE  IsSolid(r, c)
<1>1. \A p \in Points : ~Covers(r, p)
  BY DEF Covers, Points, Rects
<1> QED
  BY <1>1, SolidIs

\* Every row and column belongs to a tile.
LEMMA NumTilesFacts ==
  ASSUME NEW n \in Nat \ {0}
  PROVE  /\ NumTiles(n) \in Nat \ {0}
         /\ \A k \in 0 .. NumTiles(n) - 1 : k * TileSize \in 0 .. n - 1
         /\ \A q \in 0 .. n - 1 : \E k \in 0 .. NumTiles(n) - 1 :
              k * TileSize <= q /\ q < k * TileSize + TileSize
<1> DEFINE last == (n - 1) \div TileSize
<1>1. TileSize \in Nat \ {0} /\ n - 1 \in Int /\ n - 1 >= 0
  BY Sizes
<1>2. /\ last \in Nat /\ TileSize * last <= n - 1
      /\ n - 1 < TileSize * last + TileSize
  BY <1>1, DivFacts
<1>3. NumTiles(n) = last + 1
  <2> HIDE DEF last
  <2>1. TileSize * (last + 1) = TileSize * last + TileSize
    BY <1>1, <1>2
  <2>2. TileSize * last \in Nat
    BY <1>1, <1>2
  <2> DEFINE m == n + TileSize - 1
  <2>3. /\ m \in Int /\ TileSize * (last + 1) <= m
        /\ m < TileSize * (last + 1) + TileSize
    BY <1>1, <1>2, <2>1, <2>2
  <2> HIDE DEF m
  <2>4. m \div TileSize = last + 1
    BY <1>1, <1>2, <2>3, DivIs
  <2> QED
    BY <2>4 DEF NumTiles, m
<1>4. NumTiles(n) - 1 = last /\ NumTiles(n) \in Nat \ {0}
  <2> HIDE DEF last
  <2> QED
    BY <1>2, <1>3
<1>5. /\ \A k \in 0 .. last : k * TileSize \in 0 .. n - 1
      /\ \A q \in 0 .. n - 1 : \E k \in 0 .. last :
           k * TileSize <= q /\ q < k * TileSize + TileSize
  BY <1>1, CutFacts
<1> QED
  BY <1>4, <1>5

\* The part of the k-th row of tiles up to w.
Row(r, k, w) == Rect(r.x, r.y + k * TileSize, w, RowHeight(r, k))

\* Where the rows of tiles lie.
LEMMA RowFacts ==
  ASSUME NEW r \in Rects, r.h > 0, NEW k \in 0 .. NumTiles(r.h) - 1, NEW w \in Nat
  PROVE  /\ k * TileSize \in 0 .. r.h - 1
         /\ RowHeight(r, k) \in Nat \ {0} /\ RowHeight(r, k) <= TileSize
         /\ k * TileSize + RowHeight(r, k) <= r.h
         /\ Row(r, k, w) \in Rects
         /\ Row(r, k, w).x = r.x /\ Row(r, k, w).y = r.y + k * TileSize
         /\ Row(r, k, w).w = w /\ Row(r, k, w).h = RowHeight(r, k)
<1> DEFINE y == k * TileSize
           h == Least(TileSize, r.h - y)
<1>1. r.x \in Int /\ r.y \in Int /\ r.h \in Nat \ {0}
  BY DEF Rects
<1>2. y \in 0 .. r.h - 1
  BY <1>1, NumTilesFacts
<1> HIDE DEF y
<1>3. h \in Nat \ {0} /\ h <= TileSize /\ y + h <= r.h
  BY <1>1, <1>2, Sizes, LeastFacts DEF Least
<1>4. RowHeight(r, k) = h
  BY DEF RowHeight, y
<1> HIDE DEF h
<1>5. Row(r, k, w) = Rect(r.x, r.y + y, w, h)
  BY <1>4 DEF Row, y
<1> DEFINE ay == r.y + y
<1>6. ay \in Int
  BY <1>1, <1>2
<1> HIDE DEF ay
<1>7. Row(r, k, w) = Rect(r.x, ay, w, h)
  BY <1>5 DEF ay
<1>8. /\ Row(r, k, w) \in Rects
      /\ Row(r, k, w).x = r.x /\ Row(r, k, w).y = ay
      /\ Row(r, k, w).w = w /\ Row(r, k, w).h = h
  BY <1>1, <1>3, <1>6, <1>7 DEF Rect, Rects
<1> QED
  BY <1>2, <1>3, <1>4, <1>8 DEF ay, y

\* A row of tiles is searched up to the previous one's width at most, and what
\* is found is of the colour.
LEMMA RunFacts ==
  ASSUME NEW r \in Rects, r.h > 0, NEW k \in 0 .. NumTiles(r.h) - 1,
         NEW c, NEW max \in Nat
  PROVE  /\ Run(r, c, k, max) \in 0 .. max
         /\ IsSolid(Row(r, k, Run(r, c, k, max)), c)
<1> DEFINE n == max \div TileSize
           W == {max} \cup {i * TileSize : i \in 1 .. n}
           S == {w \in W : IsSolid(Row(r, k, w), c)}
           T == {0} \cup S
<1>1. n \in Nat /\ TileSize * n <= max /\ TileSize \in Nat
  <2>1. max \in Int /\ max >= 0 /\ TileSize \in Nat \ {0}
    BY Sizes
  <2>2. n \in Nat /\ TileSize * n <= max
    BY <2>1, DivFacts
  <2> QED
    BY <2>1, <2>2
<1> HIDE DEF n
<1>2. ASSUME NEW i \in 1 .. n
      PROVE  i * TileSize \in 0 .. max
  <2>1. i * TileSize <= n * TileSize /\ i * TileSize \in Nat
    BY <1>1, ProductMono
  <2>2. n * TileSize = TileSize * n /\ n * TileSize \in Nat
    BY <1>1
  <2> QED
    BY <1>1, <2>1, <2>2
<1>3. ASSUME NEW x \in T
      PROVE  x \in 0 .. max
  BY <1>2
<1>4. Max(T) \in T
  <2>1. 0 \in T
    OBVIOUS
  <2> HIDE DEF T
  <2>2. T \subseteq Int /\ T # {} /\ max \in Int /\ \A x \in T : x <= max
    BY <1>3, <2>1
  <2> QED
    BY <2>2, MaxFacts
<1>5. Max(T) \in T
  BY <1>4
<1>6. Run(r, c, k, max) = Max(T)
  BY DEF Run, Row, n
<1>7. IsSolid(Row(r, k, 0), c)
  BY RowFacts, NothingIsSolid
<1>8. IsSolid(Row(r, k, Max(T)), c)
  <2> DEFINE m == Max(T)
  <2>1. m \in T
    BY <1>5
  <2> HIDE DEF m
  <2>2. IsSolid(Row(r, k, m), c)
    BY <1>7, <2>1
  <2> QED
    BY <2>2 DEF m
<1> HIDE DEF T
<1> QED
  BY <1>3, <1>5, <1>6, <1>8

\* The recursive function is what its definition says.
LEMMA WidthsIs ==
  ASSUME NEW r \in Rects, r.h > 0, NEW c
  PROVE  Widths(r, c) =
           [k \in 0 .. NumTiles(r.h) - 1 |->
              Run(r, c, k, IF k = 0 THEN r.w ELSE Widths(r, c)[k - 1])]
<1> DEFINE Is(n, f) == f = [k \in 0 .. n - 1 |->
                              Run(r, c, k, IF k = 0 THEN r.w ELSE f[k - 1])]
           S == {n \in Nat : \E f : Is(n, f)}
           N == NumTiles(r.h)
<1>1. 0 \in S
  <2>1. Is(0, [k \in 0 .. 0 - 1 |-> 0])
    OBVIOUS
  <2> QED
    BY <2>1
<1>2. \A n \in Nat : n \in S => n + 1 \in S
  <2> SUFFICES ASSUME NEW n \in Nat, n \in S
               PROVE  n + 1 \in S
    OBVIOUS
  <2>1. PICK f : Is(n, f)
    OBVIOUS
  <2> DEFINE h == [k \in 0 .. n |->
                     Run(r, c, k, IF k = 0 THEN r.w ELSE f[k - 1])]
  <2>2. \A k \in 0 .. n - 1 : f[k] = Run(r, c, k, IF k = 0 THEN r.w ELSE f[k - 1])
    BY <2>1
  <2>3. \A k \in 0 .. n : h[k] = Run(r, c, k, IF k = 0 THEN r.w ELSE f[k - 1])
    OBVIOUS
  <2> HIDE DEF h
  <2>4. \A k \in 0 .. n - 1 : h[k] = f[k]
    BY <2>2, <2>3
  <2>5. \A k \in 0 .. n : h[k] = Run(r, c, k, IF k = 0 THEN r.w ELSE h[k - 1])
    <3> TAKE k \in 0 .. n
    <3>1. CASE k = 0
      BY <2>3, <3>1
    <3>2. CASE k # 0
      <4>1. k - 1 \in 0 .. n - 1
        BY <3>2
      <4>2. h[k - 1] = f[k - 1]
        BY <2>4, <4>1
      <4> QED
        BY <2>3, <3>2, <4>2
    <3> QED
      BY <3>1, <3>2
  <2>6. h = [k \in 0 .. n |-> h[k]]
    BY DEF h
  <2>7. h = [k \in 0 .. n |-> Run(r, c, k, IF k = 0 THEN r.w ELSE h[k - 1])]
    BY <2>5, <2>6
  <2>8. (n + 1) - 1 = n
    OBVIOUS
  <2>9. Is(n + 1, h)
    BY <2>7, <2>8
  <2>10. \E g : Is(n + 1, g)
    <3> HIDE DEF Is
    <3> QED
      BY <2>9
  <2> HIDE DEF Is
  <2> QED
    BY <2>10
<1> HIDE DEF S
<1>3. N \in S
  <2>1. r.h \in Nat \ {0}
    BY DEF Rects
  <2>2. N \in Nat
    BY <2>1, NumTilesFacts
  <2> QED
    BY <1>1, <1>2, <2>2, SetInduction
<1>4. \E f : Is(N, f)
  BY <1>3 DEF S
<1>5. Widths(r, c) = CHOOSE f : Is(N, f)
  BY Zenon DEF Widths
<1>6. Is(N, Widths(r, c))
  <2> HIDE DEF Is
  <2> QED
    BY <1>4, <1>5, Zenon
<1> QED
  BY <1>6

\* Every row is as wide as the one above or narrower, and of the colour.
LEMMA WidthsFacts ==
  ASSUME NEW r \in Rects, r.h > 0, NEW c
  PROVE  \A k \in 0 .. NumTiles(r.h) - 1 :
           /\ Widths(r, c)[k] \in 0 .. r.w
           /\ IsSolid(Row(r, k, Widths(r, c)[k]), c)
           /\ \A j \in 0 .. k : Widths(r, c)[k] <= Widths(r, c)[j]
<1> DEFINE N == NumTiles(r.h)
           f == Widths(r, c)
           Good(k) == k < N =>
                        /\ f[k] \in 0 .. r.w
                        /\ IsSolid(Row(r, k, f[k]), c)
                        /\ \A j \in 0 .. k : f[j] \in Int /\ f[k] <= f[j]
           S == {k \in Nat : Good(k)}
<1>1. \A k \in 0 .. N - 1 : f[k] = Run(r, c, k, IF k = 0 THEN r.w ELSE f[k - 1])
  <2>1. f = [k \in 0 .. N - 1 |-> Run(r, c, k, IF k = 0 THEN r.w ELSE f[k - 1])]
    BY WidthsIs
  <2> HIDE DEF f, N
  <2> QED
    BY <2>1
<1>2. r.w \in Nat /\ N \in Nat \ {0}
  <2>1. r.w \in Nat /\ r.h \in Nat \ {0}
    BY DEF Rects
  <2> QED
    BY <2>1, NumTilesFacts
<1>3. \A k \in 0 .. N - 1, m \in Nat :
        Run(r, c, k, m) \in 0 .. m /\ IsSolid(Row(r, k, Run(r, c, k, m)), c)
  BY RunFacts
<1> HIDE DEF f, N
<1>4. 0 \in S
  <2>1. 0 \in 0 .. N - 1
    BY <1>2
  <2>2. f[0] = Run(r, c, 0, r.w)
    BY <1>1, <2>1
  <2>3. f[0] \in 0 .. r.w /\ IsSolid(Row(r, 0, f[0]), c)
    BY <1>2, <1>3, <2>1, <2>2
  <2>4. \A j \in 0 .. 0 : f[j] \in Int /\ f[0] <= f[j]
    BY <2>3
  <2> QED
    BY <2>3, <2>4
<1>5. \A k \in Nat : k \in S => k + 1 \in S
  <2> SUFFICES ASSUME NEW k \in Nat, Good(k), k + 1 < N
               PROVE  /\ f[k + 1] \in 0 .. r.w
                      /\ IsSolid(Row(r, k + 1, f[k + 1]), c)
                      /\ \A j \in 0 .. k + 1 : f[j] \in Int /\ f[k + 1] <= f[j]
    OBVIOUS
  <2>1. f[k] \in 0 .. r.w /\ \A j \in 0 .. k : f[j] \in Int /\ f[k] <= f[j]
    BY <1>2
  <2>2. k + 1 \in 0 .. N - 1 /\ k + 1 # 0 /\ (k + 1) - 1 = k
    BY <1>2
  <2>3. f[k + 1] = Run(r, c, k + 1, f[k])
    BY <1>1, <2>2
  <2>4. f[k] \in Nat
    BY <2>1
  <2>5. f[k + 1] \in 0 .. f[k] /\ IsSolid(Row(r, k + 1, f[k + 1]), c)
    BY <1>3, <2>2, <2>3, <2>4
  <2>6. f[k + 1] \in 0 .. r.w
    BY <1>2, <2>1, <2>5
  <2>7. ASSUME NEW j \in 0 .. k + 1
        PROVE  f[j] \in Int /\ f[k + 1] <= f[j]
    <3>1. CASE j = k + 1
      BY <2>6, <3>1
    <3>2. CASE j \in 0 .. k
      <4>1. f[k] <= f[j] /\ f[k + 1] <= f[k]
        BY <2>1, <2>5, <3>2
      <4>2. f[j] \in Int
        BY <2>1, <3>2
      <4> QED
        BY <2>4, <2>5, <4>1, <4>2
    <3> QED
      BY <3>1, <3>2
  <2> QED
    BY <2>5, <2>6, <2>7
<1>6. Nat \subseteq S
  <2> HIDE DEF S
  <2> QED
    BY <1>4, <1>5, SetInduction
<1>7. \A k \in 0 .. N - 1 : Good(k) /\ k < N
  BY <1>2, <1>6
<1> QED
  BY <1>7 DEF f, N

\* Of some numbers one is the first of the greatest.
LEMMA FirstGreatest ==
  ASSUME NEW N \in Nat \ {0}, NEW f, NEW bound \in Nat,
         \A k \in 0 .. N - 1 : f[k] \in 0 .. bound
  PROVE  \E k \in 0 .. N - 1 :
           /\ \A j \in 0 .. N - 1 : f[j] <= f[k]
           /\ \A j \in 0 .. N - 1 : j < k => f[j] < f[k]
<1> DEFINE V == {f[k] : k \in 0 .. N - 1}
           m == Max(V)
           K == {k \in 0 .. N - 1 : f[k] = m}
<1>1. \A k \in 0 .. N - 1 : f[k] \in V
  OBVIOUS
<1>2. V \subseteq Int /\ V # {} /\ bound \in Int /\ \A v \in V : v <= bound
  <2>1. 0 \in 0 .. N - 1
    OBVIOUS
  <2>2. V # {}
    BY <1>1, <2>1
  <2>3. \A v \in V : v \in 0 .. bound
    OBVIOUS
  <2> HIDE DEF V
  <2> QED
    BY <2>2, <2>3
<1>3. m \in V /\ \A v \in V : v <= m
  <2> HIDE DEF V
  <2> QED
    BY <1>2, MaxFacts
<1>4. \E k \in 0 .. N - 1 : f[k] = m
  BY <1>3
<1>5. \A j \in 0 .. N - 1 : f[j] <= m
  BY <1>1, <1>3
<1> HIDE DEF m
<1>6. K \subseteq Nat /\ K # {}
  BY <1>4
<1>7. PICK k \in K : \A j \in K : k <= j
  <2> HIDE DEF K
  <2> QED
    BY <1>6, LeastNatural
<1>8. k \in 0 .. N - 1 /\ f[k] = m
  BY <1>7
<1>9. ASSUME NEW j \in 0 .. N - 1, j < k
      PROVE  f[j] < f[k]
  <2>1. f[j] # m
    BY <1>7, <1>8, <1>9
  <2>2. f[j] \in Int /\ f[k] \in Int
    BY <1>8
  <2> QED
    BY <1>5, <1>8, <2>1, <2>2
<1> QED
  BY <1>5, <1>8, <1>9

\* The area found is in the rectangle and of the colour.
LEMMA BestSolidAreaFacts ==
  ASSUME NEW r \in Rects, r.h > 0, NEW c
  PROVE  /\ Within(BestSolidArea(r, c), r)
         /\ BestSolidArea(r, c).x = r.x /\ BestSolidArea(r, c).y = r.y
         /\ IsSolid(BestSolidArea(r, c), c)
<1> DEFINE N == NumTiles(r.h)
           width == Widths(r, c)
           high(k) == k * TileSize + RowHeight(r, k)
           Area(k) == width[k] * high(k)
           best == CHOOSE k \in DOMAIN width :
                     /\ \A j \in DOMAIN width : Area(j) <= Area(k)
                     /\ \A j \in DOMAIN width : j < k => Area(j) < Area(k)
           a == Rect(r.x, r.y, width[best], high(best))
<1>1. /\ r.x \in Int /\ r.y \in Int /\ r.w \in Nat /\ r.h \in Nat \ {0}
      /\ TileSize \in Nat \ {0}
  BY Sizes DEF Rects
<1>2. N \in Nat \ {0}
  BY <1>1, NumTilesFacts
<1>3. DOMAIN width = 0 .. N - 1
  <2>1. width = [k \in 0 .. N - 1 |->
                   Run(r, c, k, IF k = 0 THEN r.w ELSE width[k - 1])]
    BY WidthsIs
  <2> HIDE DEF width, N
  <2> QED
    BY <2>1
<1>4. \A k \in 0 .. N - 1 :
        /\ width[k] \in 0 .. r.w
        /\ IsSolid(Row(r, k, width[k]), c)
        /\ \A j \in 0 .. k : width[k] <= width[j]
  BY WidthsFacts
<1>5. \A k \in 0 .. N - 1 :
        /\ k * TileSize \in Nat /\ RowHeight(r, k) \in Nat
        /\ high(k) \in Nat /\ high(k) <= r.h
  <2> TAKE k \in 0 .. N - 1
  <2>1. /\ k * TileSize \in 0 .. r.h - 1 /\ RowHeight(r, k) \in Nat \ {0}
        /\ high(k) <= r.h
    BY <1>1, RowFacts
  <2> DEFINE o == k * TileSize
  <2>2. o \in Nat /\ RowHeight(r, k) \in Nat
    BY <1>1, <2>1
  <2> HIDE DEF o
  <2>3. o + RowHeight(r, k) \in Nat
    BY <2>2
  <2> QED
    BY <2>1, <2>2, <2>3 DEF o
<1> HIDE DEF high, N, width
<1>6. ASSUME NEW k \in 0 .. N - 1
      PROVE  Area(k) \in 0 .. r.w * r.h
  <2>1. width[k] \in Nat /\ width[k] <= r.w /\ high(k) \in Nat /\ high(k) <= r.h
    BY <1>1, <1>4, <1>5
  <2>2. width[k] * high(k) <= r.w * high(k) /\ r.w * high(k) <= r.w * r.h
    BY <1>1, <2>1, ProductMono
  <2>3. width[k] * high(k) \in Nat /\ r.w * high(k) \in Nat /\ r.w * r.h \in Nat
    BY <1>1, <2>1, ProductNat
  <2> QED
    BY <2>2, <2>3
<1>7. \E k \in 0 .. N - 1 :
        /\ \A j \in 0 .. N - 1 : Area(j) <= Area(k)
        /\ \A j \in 0 .. N - 1 : j < k => Area(j) < Area(k)
  <2> DEFINE f == [k \in 0 .. N - 1 |-> Area(k)]
             b == r.w * r.h
  <2>1. \A k \in 0 .. N - 1 : f[k] = Area(k)
    OBVIOUS
  <2>2. b \in Nat
    BY <1>1, ProductNat
  <2>3. \A k \in 0 .. N - 1 : Area(k) \in 0 .. b
    BY <1>6
  <2> HIDE DEF f, b, Area
  <2>4. \E k \in 0 .. N - 1 :
          /\ \A j \in 0 .. N - 1 : f[j] <= f[k]
          /\ \A j \in 0 .. N - 1 : j < k => f[j] < f[k]
    <3>1. \A k \in 0 .. N - 1 : f[k] \in 0 .. b
      BY <2>1, <2>3, Zenon
    <3> QED
      BY <1>2, <2>2, <3>1, FirstGreatest, ZenonT(60)
  <2> QED
    BY <2>1, <2>4
<1>8. best \in 0 .. N - 1
  <2> HIDE DEF Area
  <2> QED
    BY <1>3, <1>7
<1>9. BestSolidArea(r, c) = a
  BY DEF BestSolidArea, width, high
<1> HIDE DEF best
<1> DEFINE w == width[best]
           h == high(best)
<1>10. w \in Nat /\ w <= r.w /\ h \in Nat /\ h <= r.h
  BY <1>1, <1>4, <1>5, <1>8
<1>11. h = best * TileSize + RowHeight(r, best)
  BY DEF high
<1> HIDE DEF w, h
<1>12. a = Rect(r.x, r.y, w, h)
  BY DEF w, h
<1> HIDE DEF a
<1>13. a \in Rects /\ a.x = r.x /\ a.y = r.y /\ a.w = w /\ a.h = h
  BY <1>1, <1>10, <1>12 DEF Rect, Rects
<1>14. Within(a, r)
  BY <1>1, <1>10, <1>13 DEF Within
<1>15. ASSUME NEW p \in Points, Covers(a, p)
       PROVE  image[p] = c
  <2> DEFINE q == p[2] - r.y
  <2>1. p[1] \in Int /\ p[2] \in Int
    BY DEF Points
  <2>2. r.x <= p[1] /\ p[1] < r.x + w /\ q \in 0 .. h - 1 /\ q \in 0 .. r.h - 1
    BY <1>1, <1>10, <1>13, <1>15, <2>1 DEF Covers
  <2>3. PICK k \in 0 .. N - 1 : k * TileSize <= q /\ q < k * TileSize + TileSize
    <3>1. \A n \in 0 .. r.h - 1 : \E k \in 0 .. N - 1 :
             k * TileSize <= n /\ n < k * TileSize + TileSize
      BY <1>1, NumTilesFacts DEF N
    <3> QED
      BY <2>2, <3>1
  <2>4. k <= best
    <3> SUFFICES ASSUME best + 1 <= k PROVE FALSE
      BY <1>2, <1>8, <2>3
    <3>1. (best + 1) * TileSize <= k * TileSize
      BY <1>1, <1>2, <1>8, <2>3, ProductMono
    <3>2. (best + 1) * TileSize = best * TileSize + TileSize
      BY <1>1, <1>2, <1>8
    <3>3. RowHeight(r, best) <= TileSize
      BY <1>8, RowFacts DEF N
    <3>4. k * TileSize \in Int /\ best * TileSize \in Int /\ RowHeight(r, best) \in Int
      BY <1>5, <1>8, <2>3
    <3>5. q < best * TileSize + RowHeight(r, best)
      BY <1>10, <1>11, <2>2
    <3>6. q \in Int
      BY <1>1, <2>1
    <3> HIDE DEF q
    <3> QED
      BY <1>1, <2>3, <3>1, <3>2, <3>3, <3>4, <3>5, <3>6
  <2>5. w <= width[k] /\ width[k] \in Nat
    BY <1>1, <1>4, <1>8, <2>3, <2>4 DEF w
  <2>6. q < k * TileSize + RowHeight(r, k)
    <3> DEFINE o == k * TileSize
    <3>1. RowHeight(r, k) \in {TileSize, r.h - o}
      <4>1. o \in Int /\ r.h - o \in Int
        BY <1>1, <1>5, <2>3
      <4> QED
        BY <1>1, <4>1, LeastFacts DEF RowHeight
    <3>2. o \in Int /\ q < o + TileSize /\ q < r.h /\ q \in Int
      BY <1>1, <1>5, <2>1, <2>2, <2>3
    <3> HIDE DEF o, q
    <3>3. q < o + RowHeight(r, k)
      BY <1>1, <3>1, <3>2
    <3> QED
      BY <3>3 DEF o
  <2> DEFINE row == Row(r, k, width[k])
  <2>7. /\ row \in Rects /\ row.x = r.x /\ row.y = r.y + k * TileSize
        /\ row.w = width[k] /\ row.h = RowHeight(r, k)
    BY <2>3, <2>5, RowFacts DEF N
  <2>8. IsSolid(row, c)
    BY <1>4, <2>3
  <2> HIDE DEF row
  <2>9. Covers(row, p)
    <3> DEFINE o == k * TileSize
    <3>1. o \in Int /\ o <= q /\ q < o + RowHeight(r, k) /\ RowHeight(r, k) \in Int
      BY <1>5, <2>3, <2>6
    <3>2. row.y = r.y + o
      BY <2>7
    <3> HIDE DEF o
    <3> QED
      BY <1>1, <1>10, <2>1, <2>2, <2>5, <2>7, <3>1, <3>2 DEF Covers
  <2> QED
    BY <2>7, <2>8, <2>9, SolidIs
<1>16. IsSolid(a, c)
  BY <1>13, <1>15, SolidIs
<1>17. BestSolidArea(r, c) = a
  BY <1>9 DEF a
<1> QED
  BY <1>13, <1>14, <1>16, <1>17

\* An area within an area.
LEMMA WithinIsTransitive ==
  ASSUME NEW r \in Rects, NEW s, NEW a, Within(s, r), Within(a, s)
  PROVE  Within(a, r)
<1>1. /\ s \in Rects /\ a \in Rects
      /\ r.x <= s.x /\ r.y <= s.y
      /\ s.x + s.w <= r.x + r.w /\ s.y + s.h <= r.y + r.h
      /\ s.x <= a.x /\ s.y <= a.y
      /\ a.x + a.w <= s.x + s.w /\ a.y + a.h <= s.y + s.h
  BY DEF Within
<1> QED
  BY <1>1 DEF Within, Rects

\* An area of a colour stays in the rectangle and of the colour when rows and
\* then columns are added.
LEMMA ExtendFacts ==
  ASSUME NEW r \in Rects, NEW area, Within(area, r), NEW c, IsSolid(area, c)
  PROVE  Within(Extend(area, r, c), r) /\ IsSolid(Extend(area, r, c), c)
<1> DEFINE Rows(a, b) == Rect(area.x, a, area.w, b - a)
           tops == {y \in r.y .. area.y : IsSolid(Rows(y, area.y), c)}
           bottoms == {y \in area.y + area.h .. r.y + r.h :
                         IsSolid(Rows(area.y + area.h, y), c)}
           top == Min(tops)
           bottom == Max(bottoms)
           Cols(a, b) == Rect(a, top, b - a, bottom - top)
           lefts == {x \in r.x .. area.x : IsSolid(Cols(x, area.x), c)}
           rights == {x \in area.x + area.w .. r.x + r.w :
                        IsSolid(Cols(area.x + area.w, x), c)}
           left == Min(lefts)
           right == Max(rights)
<1>1. /\ r.x \in Int /\ r.y \in Int /\ r.w \in Nat /\ r.h \in Nat
      /\ area \in Rects
      /\ area.x \in Int /\ area.y \in Int /\ area.w \in Nat /\ area.h \in Nat
      /\ r.x <= area.x /\ r.y <= area.y
      /\ area.x + area.w <= r.x + r.w /\ area.y + area.h <= r.y + r.h
  BY DEF Within, Rects
<1> DEFINE ax == area.x + area.w
           ay == area.y + area.h
           rx == r.x + r.w
           ry == r.y + r.h
<1>2. ax \in Int /\ ay \in Int /\ rx \in Int /\ ry \in Int
  BY <1>1
\* The rows and columns of which there are none are of the colour.
<1>3. \A a, b \in Int : a <= b =>
        /\ Rows(a, b) \in Rects
        /\ Rows(a, b).x = area.x /\ Rows(a, b).y = a
        /\ Rows(a, b).w = area.w /\ Rows(a, b).h = b - a
  BY <1>1 DEF Rect, Rects
<1>4. \A a \in Int : IsSolid(Rows(a, a), c)
  <2> TAKE a \in Int
  <2>1. Rows(a, a) \in Rects /\ Rows(a, a).h = 0
    BY <1>3
  <2> QED
    BY <2>1, NothingIsSolid
<1>5. top \in tops
  <2>1. area.y \in tops
    BY <1>1, <1>4
  <2>2. \A y \in tops : y \in Int /\ r.y <= y
    BY <1>1
  <2> HIDE DEF tops
  <2> QED
    BY <1>1, <2>1, <2>2, MinFacts
<1>6. bottom \in bottoms
  <2>1. ay \in bottoms
    BY <1>1, <1>2, <1>4
  <2>2. \A y \in bottoms : y \in Int /\ y <= ry
    BY <1>1, <1>2
  <2> HIDE DEF bottoms, ry
  <2> QED
    BY <1>1, <1>2, <2>1, <2>2, MaxFacts
<1>7. /\ top \in Int /\ r.y <= top /\ top <= area.y
      /\ IsSolid(Rows(top, area.y), c)
  <2>1. \A y \in tops : /\ y \in Int /\ r.y <= y /\ y <= area.y
                        /\ IsSolid(Rows(y, area.y), c)
    BY <1>1
  <2> HIDE DEF tops
  <2> QED
    BY <1>5, <2>1
<1>8. /\ bottom \in Int /\ ay <= bottom /\ bottom <= ry
      /\ IsSolid(Rows(ay, bottom), c)
  <2>1. \A y \in bottoms : /\ y \in Int /\ ay <= y /\ y <= ry
                           /\ IsSolid(Rows(ay, y), c)
    BY <1>1, <1>2
  <2> HIDE DEF bottoms
  <2> QED
    BY <1>6, <2>1
<1> HIDE DEF top, bottom
<1>9. top <= bottom
  BY <1>1, <1>7, <1>8
<1>10. \A a, b \in Int : a <= b =>
         /\ Cols(a, b) \in Rects
         /\ Cols(a, b).x = a /\ Cols(a, b).y = top
         /\ Cols(a, b).w = b - a /\ Cols(a, b).h = bottom - top
  BY <1>7, <1>8, <1>9 DEF Rect, Rects
<1>11. \A a \in Int : IsSolid(Cols(a, a), c)
  <2> TAKE a \in Int
  <2>1. Cols(a, a) \in Rects /\ Cols(a, a).w = 0
    BY <1>10
  <2> QED
    BY <2>1, NothingIsSolid
<1>12. left \in lefts
  <2>1. area.x \in lefts
    BY <1>1, <1>11
  <2>2. \A x \in lefts : x \in Int /\ r.x <= x
    BY <1>1
  <2> HIDE DEF lefts
  <2> QED
    BY <1>1, <2>1, <2>2, MinFacts
<1>13. right \in rights
  <2>1. ax \in rights
    BY <1>1, <1>2, <1>11
  <2>2. \A x \in rights : x \in Int /\ x <= rx
    BY <1>1, <1>2
  <2> HIDE DEF rights, rx
  <2> QED
    BY <1>1, <1>2, <2>1, <2>2, MaxFacts
<1>14. /\ left \in Int /\ r.x <= left /\ left <= area.x
       /\ IsSolid(Cols(left, area.x), c)
  <2>1. \A x \in lefts : /\ x \in Int /\ r.x <= x /\ x <= area.x
                         /\ IsSolid(Cols(x, area.x), c)
    BY <1>1
  <2> HIDE DEF lefts
  <2> QED
    BY <1>12, <2>1
<1>15. /\ right \in Int /\ ax <= right /\ right <= rx
       /\ IsSolid(Cols(ax, right), c)
  <2>1. \A x \in rights : /\ x \in Int /\ ax <= x /\ x <= rx
                          /\ IsSolid(Cols(ax, x), c)
    BY <1>1, <1>2
  <2> HIDE DEF rights
  <2> QED
    BY <1>13, <2>1
<1> DEFINE e == Rect(left, top, right - left, bottom - top)
<1>16. Extend(area, r, c) = e
  BY DEF Extend, top, bottom
<1> HIDE DEF left, right
<1>17. /\ e \in Rects /\ e.x = left /\ e.y = top /\ e.w = right - left
       /\ e.h = bottom - top
  BY <1>1, <1>7, <1>8, <1>9, <1>14, <1>15 DEF Rect, Rects
<1>18. Within(e, r)
  BY <1>1, <1>7, <1>8, <1>9, <1>14, <1>15, <1>17 DEF Within
<1>19. ASSUME NEW p \in Points, Covers(e, p)
       PROVE  image[p] = c
  <2>1. p[1] \in Int /\ p[2] \in Int
    BY DEF Points
  <2>2. left <= p[1] /\ p[1] < right /\ top <= p[2] /\ p[2] < bottom
    <3> HIDE DEF e
    <3> QED
      BY <1>7, <1>8, <1>14, <1>15, <1>17, <1>19, <2>1 DEF Covers
  <2>3. CASE p[1] < area.x
    <3> HIDE DEF Cols
    <3>1. /\ Cols(left, area.x) \in Rects
          /\ Cols(left, area.x).x = left /\ Cols(left, area.x).y = top
          /\ Cols(left, area.x).w = area.x - left /\ Cols(left, area.x).h = bottom - top
      BY <1>1, <1>2, <1>7, <1>8, <1>10, <1>14
    <3> DEFINE s == Cols(left, area.x)
    <3> HIDE DEF s
    <3>2. Covers(s, p)
      BY <1>1, <1>2, <1>7, <1>8, <1>14, <2>3, <2>1, <2>2, <3>1 DEF Covers, s
    <3>3. Covers(Cols(left, area.x), p)
      BY <3>2 DEF s
    <3> QED
      BY <1>14, <3>1, <3>3, SolidIs
  <2>4. CASE ax <= p[1]
    <3> HIDE DEF ax, Cols
    <3>1. /\ Cols(ax, right) \in Rects
          /\ Cols(ax, right).x = ax /\ Cols(ax, right).y = top
          /\ Cols(ax, right).w = right - ax /\ Cols(ax, right).h = bottom - top
      BY <1>1, <1>2, <1>7, <1>8, <1>10, <1>15
    <3> DEFINE s == Cols(ax, right)
    <3> HIDE DEF s
    <3>2. Covers(s, p)
      BY <1>1, <1>2, <1>7, <1>8, <1>15, <2>4, <2>1, <2>2, <3>1 DEF Covers, s
    <3>3. Covers(Cols(ax, right), p)
      BY <3>2 DEF s
    <3> QED
      BY <1>15, <3>1, <3>3, SolidIs
  <2>5. CASE area.x <= p[1] /\ p[1] < ax /\ p[2] < area.y
    <3> HIDE DEF Rows
    <3>1. /\ Rows(top, area.y) \in Rects
          /\ Rows(top, area.y).x = area.x /\ Rows(top, area.y).y = top
          /\ Rows(top, area.y).w = area.w /\ Rows(top, area.y).h = area.y - top
      BY <1>1, <1>2, <1>7, <1>8, <1>3, <1>7
    <3> DEFINE s == Rows(top, area.y)
    <3> HIDE DEF s
    <3>2. Covers(s, p)
      BY <1>1, <1>2, <1>7, <1>8, <1>7, <2>5, <2>1, <2>2, <3>1 DEF Covers, s
    <3>3. Covers(Rows(top, area.y), p)
      BY <3>2 DEF s
    <3> QED
      BY <1>7, <3>1, <3>3, SolidIs
  <2>6. CASE area.x <= p[1] /\ p[1] < ax /\ ay <= p[2]
    <3> HIDE DEF ay, Rows
    <3>1. /\ Rows(ay, bottom) \in Rects
          /\ Rows(ay, bottom).x = area.x /\ Rows(ay, bottom).y = ay
          /\ Rows(ay, bottom).w = area.w /\ Rows(ay, bottom).h = bottom - ay
      BY <1>1, <1>2, <1>7, <1>8, <1>3, <1>8
    <3> DEFINE s == Rows(ay, bottom)
    <3> HIDE DEF s
    <3>2. Covers(s, p)
      BY <1>1, <1>2, <1>7, <1>8, <1>8, <2>6, <2>1, <2>2, <3>1 DEF Covers, s
    <3>3. Covers(Rows(ay, bottom), p)
      BY <3>2 DEF s
    <3> QED
      BY <1>8, <3>1, <3>3, SolidIs
  <2>7. CASE area.x <= p[1] /\ p[1] < ax /\ area.y <= p[2] /\ p[2] < ay
    <3>1. Covers(area, p)
      BY <2>7 DEF Covers
    <3> QED
      BY <1>1, <3>1, SolidIs
  <2> QED
    BY <1>1, <1>2, <2>1, <2>3, <2>4, <2>5, <2>6, <2>7
<1>20. IsSolid(e, c)
  <2> HIDE DEF e
  <2> QED
    BY <1>17, <1>19, SolidIs
<1> QED
  BY <1>16, <1>18, <1>20

\* What the search finds from a tile of the rectangle is in the rectangle and
\* of the colour of its own first pixel.
LEMMA FoundArea ==
  ASSUME NEW r \in Rects, r.w > 0, r.h > 0, NEW row \in r.y .. r.y + r.h - 1,
         NEW i \in 0 .. NumTiles(r.w) - 1
  PROVE  LET first == TileAt(r, row, i)
             area == Extend(AreaFrom(r, first), r, ColourSought(first))
         IN  /\ Within(area, r)
             /\ IsSolid(area, image[<<area.x, area.y>>])
<1> DEFINE first == TileAt(r, row, i)
           c == ColourSought(first)
           rest == Rect(first.x, first.y, r.x + r.w - first.x,
                        r.y + r.h - first.y)
           found == AreaFrom(r, first)
           area == Extend(found, r, c)
<1>1. r.x \in Int /\ r.y \in Int /\ r.w \in Nat \ {0} /\ r.h \in Nat \ {0}
  BY DEF Rects
<1> DEFINE o == i * TileSize
<1>2. o \in 0 .. r.w - 1
  BY <1>1, NumTilesFacts
<1>3. first.x = r.x + o /\ first.y = row
  BY DEF TileAt, Rect
<1> HIDE DEF o, first
<1>4. /\ first.x \in Int /\ first.y \in Int
      /\ r.x <= first.x /\ first.x < r.x + r.w
      /\ r.y <= first.y /\ first.y < r.y + r.h
  BY <1>1, <1>2, <1>3
<1>5. /\ rest \in Rects /\ rest.h > 0 /\ Within(rest, r)
  <2> DEFINE w == r.x + r.w - first.x
             h == r.y + r.h - first.y
  <2>1. /\ w \in Nat /\ h \in Nat \ {0}
        /\ first.x + w = r.x + r.w /\ first.y + h = r.y + r.h
    BY <1>1, <1>4
  <2> HIDE DEF w, h
  <2>2. LET s == Rect(first.x, first.y, w, h)
        IN  s \in Rects /\ s.h > 0 /\ Within(s, r)
    BY <1>1, <1>4, <2>1 DEF Rect, Rects, Within
  <2> QED
    BY <2>2 DEF w, h
<1> HIDE DEF rest, c
<1>6. found = BestSolidArea(rest, c)
  BY DEF AreaFrom, rest, c
<1> HIDE DEF found
<1>7. Within(found, rest) /\ IsSolid(found, c)
  BY <1>5, <1>6, BestSolidAreaFacts
<1>8. Within(found, r)
  BY <1>5, <1>7, WithinIsTransitive
<1>9. Within(area, r) /\ IsSolid(area, c)
  BY <1>7, <1>8, ExtendFacts
<1> HIDE DEF area
<1>10. IsSolid(area, image[<<area.x, area.y>>])
  <2>1. area \in Rects /\ area.x \in Int /\ area.y \in Int /\ area.w \in Nat
        /\ area.h \in Nat
    BY <1>9 DEF Within, Rects
  <2>2. CASE area.w = 0 \/ area.h = 0
    BY <2>1, <2>2, NothingIsSolid
  <2>3. CASE area.w > 0 /\ area.h > 0
    <3>1. <<area.x, area.y>> \in Points /\ Covers(area, <<area.x, area.y>>)
      BY <2>1, <2>3 DEF Points, Covers
    <3>2. image[<<area.x, area.y>>] = c
      BY <1>9, <2>1, <3>1, SolidIs
    <3> QED
      BY <1>9, <3>2
  <2> QED
    BY <2>1, <2>2, <2>3
<1> QED
  BY <1>9, <1>10 DEF area, first, c, found

-----------------------------------------------------------------------------
(***************************************************************************)
(* The encoder: every action keeps the jobs and pieces in order, and sends *)
(* what it takes off the stack.                                            *)
(***************************************************************************)

OkJobs ==
  {j \in Jobs :
     /\ j.kind = "solid" => IsSolid(j.rect, image[<<j.rect.x, j.rect.y>>])
     /\ j.kind = "search" =>
          j.rect.w > 0 /\ j.rect.h > 0 /\ j.rect.y <= j.dy}

OkPieces ==
  {q \in SentPieces :
     IF q.solid THEN IsSolid(q.rect, image[<<q.rect.x, q.rect.y>>])
                ELSE ~TooLarge(q.rect.w, q.rect.h)}

TightOk == todo \in Seq(OkJobs) /\ pieces \in Seq(OkPieces)

\* A stack is its uppermost job and the others.
LEMMA HeadAndTail ==
  ASSUME NEW S, todo \in Seq(S), todo # <<>>
  PROVE  /\ Top \in S /\ Top = todo[1] /\ Len(todo) \in Nat \ {0}
         /\ Tail(todo) \in Seq(S)
         /\ Len(Tail(todo)) = Len(todo) - 1
         /\ \A i \in 1 .. Len(Tail(todo)) : Tail(todo)[i] = todo[i + 1]
         /\ todo = <<Top>> \o Tail(todo)
<1>1. /\ Top \in S /\ Tail(todo) \in Seq(S)
      /\ Len(Tail(todo)) = Len(todo) - 1
      /\ \A i \in 1 .. Len(Tail(todo)) : Tail(todo)[i] = todo[i + 1]
      /\ Top = todo[1]
  BY HeadTailProperties DEF Top
<1>2. Len(todo) \in Nat \ {0}
  BY EmptySeq, LenProperties
<1> DEFINE s == <<Top>>
<1>3. s \in Seq(S) /\ Len(s) = 1 /\ s[1] = Top
  BY <1>1
<1> HIDE DEF s
<1>4. /\ s \o Tail(todo) \in Seq(S)
      /\ Len(s \o Tail(todo)) = 1 + Len(Tail(todo))
      /\ \A i \in 1 .. 1 + Len(Tail(todo)) :
           (s \o Tail(todo))[i] = IF i <= 1 THEN s[i] ELSE Tail(todo)[i - 1]
  <2> DEFINE t == Tail(todo)
  <2>1. t \in Seq(S)
    BY <1>1
  <2> HIDE DEF t
  <2>2. /\ s \o t \in Seq(S) /\ Len(s \o t) = Len(s) + Len(t)
        /\ \A i \in 1 .. Len(s) + Len(t) :
             (s \o t)[i] = IF i <= Len(s) THEN s[i] ELSE t[i - Len(s)]
    BY <1>3, <2>1, ConcatProperties, ZenonT(60)
  <2>3. Len(s) = 1
    BY <1>3
  <2> QED
    BY <2>2, <2>3, Zenon DEF t
<1>5. ASSUME NEW i \in 1 .. Len(todo)
      PROVE  todo[i] = (s \o Tail(todo))[i]
  <2>1. CASE i = 1
    BY <1>1, <1>2, <1>3, <1>4, <2>1
  <2>2. CASE i # 1
    <3>1. i - 1 \in 1 .. Len(Tail(todo)) /\ ~(i <= 1) /\ (i - 1) + 1 = i
      BY <1>1, <1>2, <2>2
    <3> QED
      BY <1>1, <1>2, <1>4, <3>1
  <2> QED
    BY <2>1, <2>2
<1>6. Len(todo) = Len(s \o Tail(todo))
  BY <1>1, <1>2, <1>4
<1>7. todo = s \o Tail(todo)
  BY <1>4, <1>5, <1>6, SeqEqual
<1> QED
  BY <1>1, <1>2, <1>7 DEF s

\* The uppermost job and the others.
LEMMA TopFacts ==
  ASSUME TightOk, todo # <<>>
  PROVE  /\ Top \in OkJobs /\ Top.rect \in Rects /\ Tail(todo) \in Seq(OkJobs)
         /\ \A p : Count(todo, p) = One(Top.rect, p) + Count(Tail(todo), p)
<1>1. Top \in OkJobs /\ Tail(todo) \in Seq(OkJobs)
  BY HeadAndTail DEF TightOk
<1>2. todo = <<Top>> \o Tail(todo)
  BY HeadAndTail DEF TightOk
<1>3. ASSUME NEW p
      PROVE  Count(todo, p) = One(Top.rect, p) + Count(Tail(todo), p)
  <2> DEFINE s == <<Top>>
  <2>1. s \in Seq(OkJobs) /\ Count(s, p) = One(Top.rect, p)
    BY <1>1, CountSingle DEF One
  <2> HIDE DEF s
  <2>2. Count(s \o Tail(todo), p) = Count(s, p) + Count(Tail(todo), p)
    BY <1>1, <2>1, CountConcat
  <2> QED
    BY <1>2, <2>1, <2>2 DEF s
<1>4. Top.rect \in Rects
  BY <1>1 DEF OkJobs, Jobs
<1> QED
  BY <1>1, <1>3, <1>4

\* What an action does that puts jobs in the place of the uppermost one.
LEMMA Replaced ==
  ASSUME TightOk, todo # <<>>, NEW jobs \in Seq(OkJobs), Replace(jobs),
         UNCHANGED <<image, pieces>>,
         \A p \in Points : Count(jobs, p) = One(Top.rect, p)
  PROVE  TightOk' /\ \A p \in Points : Occurrences(p)' = Occurrences(p)
<1>1. /\ Tail(todo) \in Seq(OkJobs)
      /\ \A p : Count(todo, p) = One(Top.rect, p) + Count(Tail(todo), p)
  BY TopFacts
<1>2. todo' = jobs \o Tail(todo) /\ image' = image /\ pieces' = pieces
  BY DEF Replace
<1>3. OkJobs' = OkJobs /\ OkPieces' = OkPieces
  BY <1>2 DEF OkJobs, OkPieces, IsSolid
<1>4. todo' \in Seq(OkJobs)
  BY <1>1, <1>2, ConcatProperties
<1>5. TightOk'
  BY <1>2, <1>3, <1>4 DEF TightOk
<1>6. ASSUME NEW p \in Points
      PROVE  Occurrences(p)' = Occurrences(p)
  <2>1. Count(jobs \o Tail(todo), p) = Count(jobs, p) + Count(Tail(todo), p)
    <3> DEFINE t == Tail(todo)
    <3>1. t \in Seq(OkJobs)
      BY <1>1
    <3> HIDE DEF t
    <3>2. Count(jobs \o t, p) = Count(jobs, p) + Count(t, p)
      BY <3>1, CountConcat, ZenonT(60)
    <3> QED
      BY <3>2 DEF t
  <2>2. Count(todo', p) = Count(todo, p)
    BY <1>1, <1>2, <2>1
  <2>3. Occurrences(p) = Count(pieces, p) + Count(todo, p)
    BY DEF Occurrences, Count, Coverings
  <2>4. Occurrences(p)' = Count(pieces', p) + Count(todo', p)
    BY DEF Occurrences, Count, Coverings, Covers
  <2> QED
    BY <1>2, <2>2, <2>3, <2>4
<1> QED
  BY <1>5, <1>6

\* What an action does that sends the uppermost job in pieces.
LEMMA Sent ==
  ASSUME TightOk, todo # <<>>, NEW sent \in Seq(OkPieces), Replace(<<>>),
         UNCHANGED image, pieces' = pieces \o sent,
         \A p \in Points : Count(sent, p) = One(Top.rect, p)
  PROVE  TightOk' /\ \A p \in Points : Occurrences(p)' = Occurrences(p)
<1>1. /\ Tail(todo) \in Seq(OkJobs)
      /\ \A p : Count(todo, p) = One(Top.rect, p) + Count(Tail(todo), p)
  BY TopFacts
<1>2. todo' = Tail(todo) /\ image' = image
  BY <1>1, ConcatEmptySeq DEF Replace
<1>3. OkJobs' = OkJobs /\ OkPieces' = OkPieces
  BY <1>2 DEF OkJobs, OkPieces, IsSolid
<1>4. pieces \in Seq(OkPieces) /\ pieces' \in Seq(OkPieces)
  BY ConcatProperties DEF TightOk
<1>5. TightOk'
  BY <1>1, <1>2, <1>3, <1>4 DEF TightOk
<1>6. ASSUME NEW p \in Points
      PROVE  Occurrences(p)' = Occurrences(p)
  <2>1. Count(pieces \o sent, p) = Count(pieces, p) + Count(sent, p)
    BY <1>4, CountConcat
  <2>2. Occurrences(p) = Count(pieces, p) + Count(todo, p)
    BY DEF Occurrences, Count, Coverings
  <2>3. Occurrences(p)' = Count(pieces', p) + Count(todo', p)
    BY DEF Occurrences, Count, Coverings, Covers
  <2>4. /\ Count(pieces, p) \in Nat /\ Count(Tail(todo), p) \in Nat
        /\ One(Top.rect, p) \in Nat
    BY <1>1, <1>4, CountType DEF One
  <2> QED
    BY <1>1, <1>2, <2>1, <2>2, <2>3, <2>4
<1> QED
  BY <1>5, <1>6

\* A single job in the place of the uppermost one.
LEMMA SingleFacts ==
  ASSUME NEW j \in OkJobs
  PROVE  /\ <<j>> \in Seq(OkJobs)
         /\ \A p : Count(<<j>>, p) = One(j.rect, p)
<1>1. <<j>> \in Seq(OkJobs)
  OBVIOUS
<1> QED
  BY <1>1, CountSingle DEF One

Keeps == TightOk' /\ \A p \in Points : Occurrences(p)' = Occurrences(p)

\* Every action of the encoder keeps its jobs and pieces in order, and what
\* they cover together.
LEMMA EncodeBandsKeeps ==
  ASSUME TightOk, EncodeBands PROVE Keeps
<1> DEFINE r == Top.rect
<1>1. r \in Rects
  BY TopFacts DEF EncodeBands
<1>2. Bands(r) \in Seq(OkJobs)
  <2>1. NumBands(r) \in Nat /\ Bands(r) = [i \in 1 .. NumBands(r) |-> Bands(r)[i]]
    BY <1>1, NumBandsFacts DEF Bands
  <2>2. ASSUME NEW i \in 1 .. NumBands(r)
        PROVE  Bands(r)[i] \in OkJobs
    <3> DEFINE b == Bands(r)[i]
    <3>1. b.rect \in Rects /\ b = Job("encode", b.rect)
      BY <1>1, BandFacts
    <3> HIDE DEF b
    <3>2. b \in Jobs /\ b.kind = "encode"
      BY <3>1, JobType DEF Kinds
    <3>3. b \in OkJobs
      BY <3>2 DEF OkJobs
    <3> QED
      BY <3>3 DEF b
  <2> DEFINE n == NumBands(r)
             s == Bands(r)
  <2> HIDE DEF n, s
  <2>3. n \in Nat /\ s = [i \in 1 .. n |-> s[i]] /\ \A i \in 1 .. n : s[i] \in OkJobs
    BY <2>1, <2>2 DEF n, s
  <2>4. s \in [1 .. n -> OkJobs]
    BY <2>3
  <2>5. s \in Seq(OkJobs)
    BY <2>3, <2>4
  <2> QED
    BY <2>5 DEF s
<1>3. \A p \in Points : Count(Bands(r), p) = One(r, p)
  BY <1>1, BandsCover
<1> HIDE DEF r
<1>4. Replace(Bands(r)) /\ UNCHANGED <<image, pieces>> /\ todo # <<>>
  BY DEF EncodeBands, r
<1> QED
  BY <1>2, <1>3, <1>4, Replaced DEF r, Keeps

LEMMA EncodeRectKeeps ==
  ASSUME TightOk, EncodeRect PROVE Keeps
<1> DEFINE r == Top.rect
           rows == MaxRectSize \div SubrectMaxWidth(r.w)
           j == IF ~lastRect \/ r.w * r.h < MinSplitSize
                THEN Job("simple", r)
                ELSE [Job("search", r) EXCEPT !.rows = rows]
<1>1. r \in Rects
  BY TopFacts DEF EncodeRect
<1>2. j \in OkJobs /\ j.rect = r
  <2>1. CASE ~lastRect \/ r.w * r.h < MinSplitSize
    <3>1. j = Job("simple", r)
      BY <2>1
    <3> HIDE DEF j, r
    <3>2. j \in Jobs /\ j.rect = r /\ j.kind = "simple"
      BY <1>1, <3>1, JobType DEF Kinds
    <3> QED
      BY <3>2 DEF OkJobs
  <2>2. CASE ~(~lastRect \/ r.w * r.h < MinSplitSize)
    <3>1. r.w \in Nat \ {0} /\ r.h \in Nat \ {0} /\ r.y \in Int
      <4>1. r.w \in Nat /\ r.h \in Nat /\ r.y \in Int
        BY <1>1 DEF Rects
      <4>2. r.w * r.h > 0
        <5>1. r.w * r.h \in Nat /\ ~(r.w * r.h < MinSplitSize)
          BY <2>2, <4>1, ProductNat
        <5> QED
          BY <5>1, Sizes
      <4>3. r.w # 0 /\ r.h # 0
        <5>1. r.w = 0 => r.w * r.h = 0
          BY <4>1
        <5>2. r.h = 0 => r.w * r.h = 0
          BY <4>1
        <5> QED
          BY <4>1, <4>2, <5>1, <5>2
      <4> QED
        BY <4>1, <4>3
    <3>2. rows \in Nat
      BY <3>1, HighestPiece DEF SubrectMaxHeight
    <3>3. j = [Job("search", r) EXCEPT !.rows = rows]
      BY <2>2
    <3> HIDE DEF j, r, rows
    <3>4. j \in Jobs /\ j.kind = "search" /\ j.rect = r /\ j.dy = r.y
      BY <1>1, <3>1, <3>2, <3>3 DEF Job, Jobs, Kinds
    <3> QED
      BY <3>1, <3>4 DEF OkJobs
  <2> QED
    BY <2>1, <2>2
<1>3. Replace(<<j>>) /\ UNCHANGED <<image, pieces>> /\ todo # <<>>
  BY DEF EncodeRect
<1> HIDE DEF j
<1>4. /\ <<j>> \in Seq(OkJobs)
      /\ \A p \in Points : Count(<<j>>, p) = One(Top.rect, p)
  BY <1>2, SingleFacts
<1> QED
  BY <1>3, <1>4, Replaced DEF Keeps

LEMMA SendSimpleKeeps ==
  ASSUME TightOk, SendSimple PROVE Keeps
<1> DEFINE r == Top.rect
           sent == Unmarked(Split(r))
<1>1. r \in Rects /\ todo # <<>>
  BY TopFacts DEF SendSimple
<1>2. /\ Replace(<<>>) /\ image' = image
      /\ pieces' = pieces \o sent
  BY DEF SendSimple, Unmarked
<1>3. sent \in Seq(SentPieces)
  <2>1. <<0, 0>> \in Points
    BY DEF Points
  <2> HIDE DEF r
  <2> QED
    BY <1>1, <2>1, SplitCovers
<1>4. \A k \in DOMAIN sent : sent[k] \in OkPieces
  <2> HIDE DEF r
  <2>1. ASSUME NEW k \in DOMAIN sent
        PROVE  sent[k] \in OkPieces
    <3>1. k \in DOMAIN Split(r) /\ sent[k] = [solid |-> FALSE, rect |-> Split(r)[k]]
      BY DEF Unmarked
    <3>2. ~TooLarge(Split(r)[k].w, Split(r)[k].h)
      BY <1>1, <3>1, SplitFits
    <3>3. sent[k] \in SentPieces
      <4> HIDE DEF sent
      <4> QED
        BY <1>3
    <3> QED
      BY <3>1, <3>2, <3>3 DEF OkPieces
  <2> QED
    BY <2>1
<1>5. sent \in Seq(OkPieces)
  <2> HIDE DEF sent
  <2>1. Len(sent) \in Nat /\ DOMAIN sent = 1 .. Len(sent) /\ sent \in [1 .. Len(sent) -> SentPieces]
    BY <1>3, LenProperties
  <2>2. sent \in [1 .. Len(sent) -> OkPieces]
    BY <1>4, <2>1
  <2> QED
    BY <2>1, <2>2
<1>6. \A p \in Points : Count(sent, p) = One(r, p)
  <2> HIDE DEF r
  <2> QED
    BY <1>1, SplitCovers
<1> HIDE DEF sent
<1> QED
  BY <1>1, <1>2, <1>5, <1>6, Sent DEF Keeps

LEMMA SendSolidKeeps ==
  ASSUME TightOk, SendSolid PROVE Keeps
<1> DEFINE q == [solid |-> TRUE, rect |-> Top.rect]
<1>1. Top \in OkJobs /\ Top.rect \in Rects /\ Top.kind = "solid" /\ todo # <<>>
  BY TopFacts DEF SendSolid
<1>2. q \in OkPieces
  BY <1>1 DEF OkJobs, OkPieces, SentPieces
<1>3. Replace(<<>>) /\ image' = image /\ pieces' = Append(pieces, q)
  BY DEF SendSolid
<1>4. q.rect = Top.rect
  OBVIOUS
<1> HIDE DEF q
<1>5. pieces' = pieces \o <<q>>
  BY <1>2, <1>3, AppendIsConcat DEF TightOk
<1>6. <<q>> \in Seq(OkPieces)
  BY <1>2
<1>7. \A p \in Points : Count(<<q>>, p) = One(Top.rect, p)
  BY <1>4, CountSingle DEF One
<1> QED
  BY <1>1, <1>3, <1>5, <1>6, <1>7, Sent DEF Keeps

\* Two jobs, one above the other.
LEMMA PairCount ==
  ASSUME NEW a \in OkJobs, NEW b \in OkJobs
  PROVE  /\ <<a, b>> \in Seq(OkJobs)
         /\ \A p : Count(<<a, b>>, p) = One(a.rect, p) + One(b.rect, p)
<1> DEFINE s == <<a>>
           t == <<b>>
           u == <<a, b>>
<1>1. s \in Seq(OkJobs) /\ t \in Seq(OkJobs) /\ u \in Seq(OkJobs)
  OBVIOUS
<1>2. /\ Len(s) = 1 /\ Len(t) = 1 /\ Len(u) = 2
      /\ s[1] = a /\ t[1] = b /\ u[1] = a /\ u[2] = b
  OBVIOUS
<1>3. \A p : /\ Count(s, p) = One(a.rect, p)
            /\ Count(t, p) = One(b.rect, p)
  BY SingleFacts
<1> HIDE DEF s, t, u
<1>4. u = s \o t
  <2>1. /\ s \o t \in Seq(OkJobs) /\ Len(s \o t) = 2
        /\ \A i \in 1 .. 2 : (s \o t)[i] = IF i <= 1 THEN s[i] ELSE t[i - 1]
    BY <1>1, <1>2, ConcatProperties
  <2>2. (s \o t)[1] = a
    BY <1>2, <2>1
  <2>3. (s \o t)[2] = b
    <3>1. 2 \in 1 .. 2 /\ ~(2 <= 1) /\ 2 - 1 = 1
      OBVIOUS
    <3> QED
      BY <1>2, <2>1, <3>1
  <2>4. \A i \in 1 .. Len(u) : u[i] = (s \o t)[i]
    <3>1. \A i \in 1 .. Len(u) : i = 1 \/ i = 2
      BY <1>2
    <3> QED
      BY <1>2, <2>2, <2>3, <3>1
  <2> QED
    BY <1>1, <1>2, <2>1, <2>4, SeqEqual
<1>5. ASSUME NEW p
      PROVE  Count(u, p) = One(a.rect, p) + One(b.rect, p)
  <2>1. Count(s \o t, p) = Count(s, p) + Count(t, p)
    BY <1>1, CountConcat
  <2> QED
    BY <1>3, <1>4, <2>1
<1> QED
  BY <1>1, <1>5 DEF u

LEMMA SendUpperPartKeeps ==
  ASSUME TightOk, SendUpperPart PROVE Keeps
<1> DEFINE r == Top.rect
           n == Top.rows
           upper == [r EXCEPT !.h = n]
           top == r.y + n
           rest == r.h - n
           lower == [r EXCEPT !.y = top, !.h = rest]
           a == Job("simple", upper)
           b == [Top EXCEPT !.rect = lower]
<1>1. /\ Top \in OkJobs /\ r \in Rects /\ Top.kind = "search" /\ todo # <<>>
      /\ n \in Nat /\ Top.dy \in Int
      /\ r.y <= Top.dy /\ Top.dy < r.y + r.h /\ Top.dy - r.y >= n
  BY TopFacts DEF SendUpperPart, Searching, TooManyRows, OkJobs, Jobs
<1>2. r.x \in Int /\ r.y \in Int /\ r.w \in Nat /\ r.h \in Nat /\ r.w > 0
  BY <1>1 DEF Rects, OkJobs
<1>3. n < r.h
  BY <1>1, <1>2
<1>4. /\ upper \in Rects /\ lower \in Rects
      /\ upper.x = r.x /\ upper.y = r.y /\ upper.w = r.w /\ upper.h = n
      /\ lower.x = r.x /\ lower.y = r.y + n /\ lower.w = r.w /\ lower.h = r.h - n
  <2> HIDE DEF r, n
  <2>1. n \in Nat /\ r.y + n \in Int /\ r.h - n \in Nat
    BY <1>1, <1>2, <1>3
  <2>2. r = [x |-> r.x, y |-> r.y, w |-> r.w, h |-> r.h]
    BY <1>1 DEF Rects
  <2>3. upper = [x |-> r.x, y |-> r.y, w |-> r.w, h |-> n]
    BY <2>2
  <2>4. lower = [x |-> r.x, y |-> r.y + n, w |-> r.w, h |-> r.h - n]
    <3> HIDE DEF top, rest
    <3>1. [r EXCEPT !.y = top] = [x |-> r.x, y |-> top, w |-> r.w, h |-> r.h]
      BY <2>2
    <3>2. lower = [[r EXCEPT !.y = top] EXCEPT !.h = rest]
      OBVIOUS
    <3>3. [[r EXCEPT !.y = top] EXCEPT !.h = rest]
            = [x |-> r.x, y |-> top, w |-> r.w, h |-> rest]
      <4> DEFINE mid == [r EXCEPT !.y = top]
      <4>1. mid = [x |-> r.x, y |-> top, w |-> r.w, h |-> r.h]
        BY <3>1
      <4> HIDE DEF mid
      <4>2. [mid EXCEPT !.h = rest] = [x |-> r.x, y |-> top, w |-> r.w, h |-> rest]
        BY <4>1
      <4> QED
        BY <4>2 DEF mid
    <3> QED
      BY <3>2, <3>3 DEF top, rest
  <2> HIDE DEF upper, lower
  <2> QED
    BY <1>1, <1>2, <2>1, <2>3, <2>4 DEF Rects
<1>5. /\ Replace(<<Job("simple", [Top.rect EXCEPT !.h = Top.rows]),
                   [Top EXCEPT !.rect.y = @ + Top.rows,
                               !.rect.h = @ - Top.rows]>>)
      /\ UNCHANGED <<image, pieces>>
  BY DEF SendUpperPart
<1>6. [Top EXCEPT !.rect.y = @ + Top.rows, !.rect.h = @ - Top.rows] = b
  BY <1>1 DEF OkJobs, Jobs, Rects
<1>7. Replace(<<a, b>>)
  BY <1>5, <1>6
<1> HIDE DEF upper, lower, r, n
<1>8. a \in OkJobs /\ a.rect = upper
  <2>1. a \in Jobs /\ a.rect = upper /\ a.kind = "simple"
    BY <1>4, JobType DEF Kinds
  <2> HIDE DEF a
  <2> QED
    BY <2>1 DEF OkJobs
<1>9. b \in OkJobs /\ b.rect = lower
  <2>1. /\ b \in Jobs /\ b.rect = lower /\ b.kind = "search" /\ b.dy = Top.dy
    BY <1>1, <1>4 DEF OkJobs, Jobs
  <2>2. lower.w > 0 /\ lower.h > 0 /\ lower.y <= Top.dy
    BY <1>1, <1>2, <1>3, <1>4
  <2> HIDE DEF b
  <2> QED
    BY <2>1, <2>2 DEF OkJobs
<1> HIDE DEF a, b
<1>10. ASSUME NEW p \in Points
       PROVE  Count(<<a, b>>, p) = One(r, p)
  <2>1. Count(<<a, b>>, p) = One(upper, p) + One(lower, p)
    BY <1>8, <1>9, PairCount
  <2>2. p[1] \in Int /\ p[2] \in Int
    BY DEF Points
  <2>3. One(upper, p) + One(lower, p) = One(r, p)
    <3>1. /\ Covers(upper, p) <=> Covers(r, p) /\ p[2] < r.y + n
          /\ Covers(lower, p) <=> Covers(r, p) /\ ~(p[2] < r.y + n)
      <4>1. n \in Nat /\ n < r.h
        BY <1>1, <1>3
      <4> QED
        BY <1>2, <1>4, <2>2, <4>1 DEF Covers
    <3> QED
      BY <3>1 DEF One
  <2> QED
    BY <2>1, <2>3
<1>11. <<a, b>> \in Seq(OkJobs)
  BY <1>8, <1>9, PairCount
<1> QED
  BY <1>1, <1>5, <1>7, <1>10, <1>11, Replaced DEF Keeps, r

LEMMA SearchRowKeeps ==
  ASSUME TightOk, SearchRow PROVE Keeps
<1> DEFINE r == Top.rect
           row == Top.dy
           tiles == {i \in 0 .. NumTiles(r.w) - 1 : WorthIt(r, TileAt(r, row, i))}
           first == TileAt(r, row, Min(tiles))
           area == Extend(AreaFrom(r, first), r, ColourSought(first))
<1>1. /\ Top \in OkJobs /\ r \in Rects /\ Top.kind = "search" /\ todo # <<>>
      /\ row \in Int /\ r.y <= row /\ r.w > 0 /\ r.h > 0
  BY TopFacts DEF SearchRow, Searching, OkJobs, Jobs
<1>2. UNCHANGED <<image, pieces>>
  BY DEF SearchRow
<1>3. CASE row >= r.y + r.h
  <2>1. Replace(<<Job("simple", r)>>)
    BY <1>3 DEF SearchRow
  <2> DEFINE j == Job("simple", r)
  <2>2. j \in OkJobs /\ j.rect = r
    <3> HIDE DEF r
    <3>1. j \in Jobs /\ j.rect = r /\ j.kind = "simple"
      BY <1>1, JobType DEF Kinds
    <3> HIDE DEF j
    <3> QED
      BY <3>1 DEF OkJobs
  <2>3. Replace(<<j>>)
    BY <2>1
  <2> HIDE DEF j
  <2> QED
    BY <1>1, <1>2, <2>2, <2>3, SingleFacts, Replaced DEF Keeps
<1>4. CASE ~(row >= r.y + r.h) /\ tiles = {}
  <2> DEFINE j == [Top EXCEPT !.dy = @ + TileSize]
  <2>1. Replace(<<j>>)
    BY <1>4 DEF SearchRow
  <2>2. j \in OkJobs /\ j.rect = r
    <3>1. /\ j \in Jobs /\ j.rect = r /\ j.kind = "search" /\ j.dy = row + TileSize
      BY <1>1, Sizes, SMTT(40) DEF OkJobs, Jobs
    <3>2. r.y <= row + TileSize
      BY <1>1, Sizes DEF Rects
    <3> HIDE DEF j, r, row
    <3> QED
      BY <1>1, <3>1, <3>2 DEF OkJobs
  <2> HIDE DEF j
  <2> QED
    BY <1>1, <1>2, <2>1, <2>2, SingleFacts, Replaced DEF Keeps
<1>5. CASE ~(row >= r.y + r.h) /\ tiles # {}
  <2>1. Replace(Around(r, area))
    BY <1>5 DEF SearchRow
  <2>2. Min(tiles) \in 0 .. NumTiles(r.w) - 1
    <3>1. tiles \subseteq 0 .. NumTiles(r.w) - 1
      OBVIOUS
    <3>2. tiles \subseteq Int /\ \A x \in tiles : 0 <= x
      <4>1. NumTiles(r.w) \in Int
        <5>1. r.w \in Nat \ {0}
          BY <1>1 DEF Rects
        <5> QED
          BY <5>1, NumTilesFacts
      <4> HIDE DEF tiles
      <4> QED
        BY <3>1, <4>1
    <3> HIDE DEF tiles
    <3>3. Min(tiles) \in tiles
      <4>1. tiles # {} /\ 0 \in Int
        BY <1>5
      <4> QED
        BY <3>2, <4>1, MinFacts
    <3> QED
      BY <3>1, <3>3
  <2>3. row \in r.y .. r.y + r.h - 1
    BY <1>1, <1>5 DEF Rects
  <2>4. Within(area, r) /\ IsSolid(area, image[<<area.x, area.y>>])
    <3> DEFINE k == Min(tiles)
    <3>1. k \in 0 .. NumTiles(r.w) - 1
      BY <2>2
    <3>2. first = TileAt(r, row, k)
      OBVIOUS
    <3> HIDE DEF k, r, row, first
    <3> QED
      BY <1>1, <2>3, <3>1, <3>2, FoundArea
  <2> HIDE DEF area, first, tiles
  <2>5. /\ Around(r, area) \in Seq(AroundJobs(area))
        /\ \A p \in Points : Count(Around(r, area), p) = One(r, p)
    BY <1>1, <2>4, AroundCovers
  <2>6. AroundJobs(area) \subseteq OkJobs
    <3> SUFFICES ASSUME NEW j \in AroundJobs(area)
                 PROVE  j \in OkJobs
      OBVIOUS
    <3>1. CASE j.kind \in {"simple", "encode"}
      BY <3>1 DEF AroundJobs, OkJobs
    <3>2. CASE j = Job("solid", area)
      <4>1. area \in Rects
        BY <2>4 DEF Within
      <4>2. j \in Jobs /\ j.kind = "solid" /\ j.rect = area
        BY <3>2, <4>1, JobType DEF Kinds
      <4> QED
        BY <2>4, <4>2 DEF OkJobs
    <3> QED
      BY <3>1, <3>2 DEF AroundJobs
  <2>7. Around(r, area) \in Seq(OkJobs)
    BY <2>5, <2>6, SeqMonotonic
  <2> QED
    BY <1>1, <1>2, <2>1, <2>5, <2>7, Replaced DEF Keeps
<1> QED
  BY <1>3, <1>4, <1>5

LEMMA TightKeeps ==
  ASSUME TightOk, TightNext PROVE Keeps
  BY EncodeBandsKeeps, EncodeRectKeeps, SendSimpleKeeps, SendSolidKeeps,
     SendUpperPartKeeps, SearchRowKeeps DEF TightNext

-----------------------------------------------------------------------------
(***************************************************************************)
(* The message.                                                            *)
(***************************************************************************)

\* The message is made of what it was made of at first.
MessageKept == \E m \in Messages : update = m.update /\ image = m.image

Phases ==
  /\ phase \in {"announce", "copies", "rects", "done"}
  /\ phase \in {"rects", "done"} => pc = "done"
  /\ phase = "done" => todo = <<>>

IInv == CopyInv /\ TightOk /\ MessageKept /\ Phases /\ CoveredOnce

LEMMA PixelsArePoints == Pixels \subseteq Points
  BY ScreenAssumption DEF Pixels, Points

\* What the assumption on the constants says of the rectangles of the update.
LEMMA MessageFacts ==
  ASSUME MessageKept
  PROVE  /\ update \in Seq(Rects)
         /\ \A i \in DOMAIN update : update[i].w > 0 /\ update[i].h > 0
         /\ \A i, j \in DOMAIN update, p \in Pixels :
              Covers(update[i], p) /\ Covers(update[j], p) => i = j
<1>1. PICK m \in Messages : update = m.update
  BY DEF MessageKept
<1>2. /\ m.update \in Seq(Rects)
      /\ \A i \in DOMAIN m.update : m.update[i].w > 0 /\ m.update[i].h > 0
      /\ \A i, j \in DOMAIN m.update, p \in Pixels :
           Covers(m.update[i], p) /\ Covers(m.update[j], p) => i = j
  BY MessagesAssumption
<1> QED
  BY <1>1, <1>2

LEMMA OccurrencesAre ==
  \A p : Occurrences(p) = Count(pieces, p) + Count(todo, p)
  BY DEF Occurrences, Count, Coverings

\* What is to be sent at first: every pixel of the update once.
LEMMA InitInv == Init => IInv
<1> SUFFICES ASSUME Init PROVE IInv
  OBVIOUS
<1>1. PICK m \in Messages :
        CopyStart(m.copy) /\ TightStart(m.update, m.image) /\ update = m.update
  BY DEF Init
<1>2. CopyInv
  <2>1. m.copy \in Copies
    BY MessagesAssumption
  <2> QED
    BY <1>1, <2>1, CopyInitInv DEF CopyInit
<1>3. MessageKept
  BY <1>1 DEF TightStart, MessageKept
<1>4. Phases
  BY DEF Init, Phases
<1>5. /\ todo = [i \in DOMAIN update |-> Job("update", update[i])]
      /\ pieces = <<>>
  BY <1>1 DEF TightStart
<1>6. DOMAIN todo = DOMAIN update /\ \A i \in DOMAIN update :
        todo[i] \in OkJobs /\ todo[i].rect = update[i]
  <2>1. ASSUME NEW i \in DOMAIN update
        PROVE  todo[i] \in OkJobs /\ todo[i].rect = update[i]
    <3> DEFINE j == todo[i]
    <3>1. update[i] \in Rects
      BY <1>3, <2>1, MessageFacts
    <3>2. j = Job("update", update[i])
      BY <1>5
    <3> HIDE DEF j
    <3>3. j \in Jobs /\ j.kind = "update" /\ j.rect = update[i]
      BY <3>1, <3>2, JobType DEF Kinds
    <3>4. j \in OkJobs
      BY <3>3 DEF OkJobs
    <3> QED
      BY <3>3, <3>4 DEF j
  <2> QED
    BY <1>5, <2>1
<1>7. TightOk
  <2>1. Len(update) \in Nat /\ DOMAIN update = 1 .. Len(update)
    BY <1>3, MessageFacts, LenProperties
  <2>2. todo = [i \in 1 .. Len(update) |-> todo[i]]
    BY <1>5, <2>1
  <2>3. todo \in [1 .. Len(update) -> OkJobs]
    BY <1>6, <2>1, <2>2
  <2>4. todo \in Seq(OkJobs)
    BY <2>1, <2>3
  <2> QED
    BY <1>5, <2>4 DEF TightOk
<1>8. CoveredOnce
  <2> SUFFICES ASSUME NEW p \in Pixels
               PROVE  Occurrences(p) = IF InUpdate(p) THEN 1 ELSE 0
    BY DEF CoveredOnce
  <2>1. Occurrences(p) = Count(pieces, p) + Count(todo, p) /\ Count(pieces, p) = 0
    BY <1>5, OccurrencesAre, CountEmpty
  <2>2. CASE InUpdate(p)
    <3>1. PICK k \in DOMAIN update : Covers(update[k], p)
      BY <2>2 DEF InUpdate
    <3>2. k \in DOMAIN todo /\ Covers(todo[k].rect, p)
      BY <1>6, <3>1
    <3>3. \A i \in DOMAIN todo : Covers(todo[i].rect, p) => i = k
      BY <1>3, <1>6, <3>1, MessageFacts
    <3>4. Count(todo, p) = 1
      BY <3>2, <3>3, CountOne
    <3> QED
      BY <2>1, <2>2, <3>4
  <2>3. CASE ~InUpdate(p)
    <3>1. \A i \in DOMAIN todo : ~Covers(todo[i].rect, p)
      BY <1>6, <2>3 DEF InUpdate
    <3>2. Count(todo, p) = 0
      BY <3>1, CountNone
    <3> QED
      BY <2>1, <2>3, <3>2
  <2> QED
    BY <2>2, <2>3
<1> QED
  BY <1>2, <1>3, <1>4, <1>7, <1>8 DEF IInv

\* A step that covers what was covered keeps CoveredOnce.
LEMMA UpdateKept ==
  ASSUME MessageKept, CoveredOnce, UNCHANGED <<update, image>>,
         \A p \in Points : Occurrences(p)' = Occurrences(p)
  PROVE  MessageKept' /\ CoveredOnce'
<1>1. MessageKept'
  BY DEF MessageKept
<1>2. \A p : InUpdate(p)' = InUpdate(p)
  BY DEF InUpdate, Covers
<1>3. ASSUME NEW p \in Pixels
      PROVE  Occurrences(p)' = IF InUpdate(p)' THEN 1 ELSE 0
  <2>1. Occurrences(p) = IF InUpdate(p) THEN 1 ELSE 0
    BY DEF CoveredOnce
  <2>2. Occurrences(p)' = Occurrences(p)
    BY PixelsArePoints
  <2> QED
    BY <1>2, <2>1, <2>2
<1>4. CoveredOnce'
  BY <1>3 DEF CoveredOnce
<1> QED
  BY <1>1, <1>4

\* Jobs and pieces are as they were.
LEMMA TightUntouched ==
  ASSUME TightOk, MessageKept, CoveredOnce, UNCHANGED <<tightVars, update>>
  PROVE  TightOk' /\ MessageKept' /\ CoveredOnce'
<1>1. /\ todo' = todo /\ pieces' = pieces /\ image' = image /\ update' = update
  BY DEF tightVars
<1>2. TightOk'
  BY <1>1 DEF TightOk, OkJobs, OkPieces, IsSolid
<1>3. \A p : Occurrences(p)' = Occurrences(p)
  BY <1>1 DEF Occurrences, Covers
<1> QED
  BY <1>1, <1>2, <1>3, UpdateKept

\* Every step of a message is one of its copies or leaves them alone.
LEMMA StepOfCopies ==
  ASSUME [Next]_messageVars PROVE [CopyNext]_vars
  BY DEF Next, Announce, SendCopies, SendRects, Finish, messageVars

\* Every step of a message keeps the invariant.
LEMMA NextInv == IInv /\ [Next]_messageVars => IInv'
<1> SUFFICES ASSUME IInv, [Next]_messageVars PROVE IInv'
  OBVIOUS
<1>1. CopyInv /\ TightOk /\ MessageKept /\ Phases /\ CoveredOnce
  BY DEF IInv
<1>2. CopyInv'
  BY <1>1, StepOfCopies, CopyNextInv
<1>3. CASE Announce
  <2>1. UNCHANGED <<tightVars, update, vars>> /\ phase = "announce" /\ phase' = "copies"
    BY <1>3 DEF Announce
  <2>2. TightOk' /\ MessageKept' /\ CoveredOnce'
    BY <1>1, <2>1, TightUntouched
  <2>3. Phases'
    BY <2>1 DEF Phases
  <2> QED
    BY <1>2, <2>2, <2>3 DEF IInv
<1>4. CASE SendCopies
  <2>1. /\ UNCHANGED <<tightVars, update>>
        /\ phase' = IF pc' = "done" THEN "rects" ELSE "copies"
    BY <1>4 DEF SendCopies
  <2>2. TightOk' /\ MessageKept' /\ CoveredOnce'
    BY <1>1, <2>1, TightUntouched
  <2>3. Phases'
    BY <2>1 DEF Phases
  <2> QED
    BY <1>2, <2>2, <2>3 DEF IInv
<1>5. CASE SendRects
  <2>1. /\ TightNext /\ update' = update /\ phase = "rects" /\ phase' = "rects"
        /\ pc' = pc
    BY <1>5 DEF SendRects, vars
  <2>2. TightOk' /\ \A p \in Points : Occurrences(p)' = Occurrences(p)
    BY <1>1, <2>1, TightKeeps DEF Keeps
  <2>3. image' = image
    BY <2>1 DEF TightNext, EncodeBands, EncodeRect, SendSimple, SendSolid,
                SendUpperPart, SearchRow
  <2>4. MessageKept' /\ CoveredOnce'
    BY <1>1, <2>1, <2>2, <2>3, UpdateKept
  <2>5. Phases'
    BY <1>1, <2>1 DEF Phases
  <2> QED
    BY <1>2, <2>2, <2>4, <2>5 DEF IInv
<1>6. CASE Finish
  <2>1. /\ UNCHANGED <<tightVars, update, vars>> /\ phase = "rects" /\ todo = <<>>
        /\ phase' = "done"
    BY <1>6 DEF Finish
  <2>2. TightOk' /\ MessageKept' /\ CoveredOnce'
    BY <1>1, <2>1, TightUntouched
  <2>3. Phases'
    BY <1>1, <2>1 DEF Phases, vars, tightVars
  <2> QED
    BY <1>2, <2>2, <2>3 DEF IInv
<1>7. CASE UNCHANGED messageVars
  <2>1. UNCHANGED <<tightVars, update, vars, phase>>
    BY <1>7 DEF messageVars
  <2>2. TightOk' /\ MessageKept' /\ CoveredOnce'
    BY <1>1, <2>1, TightUntouched
  <2>3. Phases'
    BY <1>1, <2>1 DEF Phases, vars, tightVars
  <2> QED
    BY <1>2, <2>2, <2>3 DEF IInv
<1> QED
  BY <1>3, <1>4, <1>5, <1>6, <1>7 DEF Next

\* The copies of a message are those of one call of rfbSendCopyRegion.
LEMMA CopiesOfMessage == Spec => CopySpec
<1>1. Init => CopyInit
  BY MessagesAssumption DEF Init, CopyInit
<1>2. [Next]_messageVars => [CopyNext]_vars
  BY StepOfCopies
<1> QED
  BY <1>1, <1>2, PTL DEF Spec, CopySpec

-----------------------------------------------------------------------------
\* In a whole message, too, the copies have the effect of one copy of the
\* region.
THEOREM MessageCopiesAtOnce == Spec => CopiesAtOnce
  BY CopiesOfMessage, CopyImplementsSimultaneous, PTL

\* tightBeforeBuf is never overrun, whatever the sizes of the update, the number
\* of threads and the framebuffer: SendRectSimple sends no piece that is too
\* large (rfbSendRectEncodingTight).
THEOREM FitsBufferAlways == Spec => []FitsBuffer
<1>1. IInv => FitsBuffer
  <2> SUFFICES ASSUME IInv PROVE FitsBuffer
    OBVIOUS
  <2>1. \A i \in DOMAIN pieces : pieces[i] \in OkPieces
    BY DEF IInv, TightOk
  <2> QED
    BY <2>1 DEF FitsBuffer, OkPieces
<1> QED
  BY InitInv, NextInv, <1>1, PTL DEF Spec

\* FindBestSolidArea and ExtendSolidArea find nothing but areas of one colour,
\* in every framebuffer.
THEOREM SolidIsSolidAlways == Spec => []SolidIsSolid
<1>1. IInv => SolidIsSolid
  <2> SUFFICES ASSUME IInv PROVE SolidIsSolid
    OBVIOUS
  <2>1. \A i \in DOMAIN pieces : pieces[i] \in OkPieces
    BY DEF IInv, TightOk
  <2> QED
    BY <2>1 DEF SolidIsSolid, OkPieces
<1> QED
  BY InitInv, NextInv, <1>1, PTL DEF Spec

\* However the rectangles of an update are cut, by SendRectEncodingTight and by
\* the bands of the threads, each of its pixels is sent once and no other is.
THEOREM CoveredOnceAlways == Spec => []CoveredOnce
<1>1. IInv => CoveredOnce
  BY DEF IInv
<1> QED
  BY InitInv, NextInv, <1>1, PTL DEF Spec

\* What the viewer shows when all is sent.
LEMMA PictureOfDone == IInv => PictureIsUpdated
<1> SUFFICES ASSUME IInv, phase = "done", NEW p \in Pixels
             PROVE  Picture[p] = IF InUpdate(p) THEN image[p]
                                 ELSE IF \E i \in DOMAIN reg : Inside(p, reg[i])
                                 THEN before[Shifted(p)]
                                 ELSE before[p]
  BY DEF PictureIsUpdated
<1>1. todo = <<>> /\ pc = "done" /\ pieces \in Seq(OkPieces)
  BY DEF IInv, Phases, TightOk
<1>2. Count(pieces, p) = IF InUpdate(p) THEN 1 ELSE 0
  <2>1. Occurrences(p) = IF InUpdate(p) THEN 1 ELSE 0
    BY DEF IInv, CoveredOnce
  <2>2. Occurrences(p) = Count(pieces, p) + Count(todo, p)
    BY OccurrencesAre
  <2>3. Count(todo, p) = 0 /\ Count(pieces, p) \in Nat
    BY <1>1, CountEmpty, CountType
  <2> QED
    BY <2>1, <2>2, <2>3
<1>3. InUpdate(p) <=> \E i \in DOMAIN pieces : Covers(pieces[i].rect, p)
  BY <1>1, <1>2, CountedIsCovered
<1>4. Picture[p] =
        IF \E i \in DOMAIN pieces : Covers(pieces[i].rect, p)
        THEN LET i == CHOOSE i \in DOMAIN pieces : Covers(pieces[i].rect, p)
             IN  IF pieces[i].solid
                 THEN image[<<pieces[i].rect.x, pieces[i].rect.y>>] ELSE image[p]
        ELSE shown[p]
  BY ZenonT(60) DEF Picture
<1>5. CASE InUpdate(p)
  <2> DEFINE k == CHOOSE i \in DOMAIN pieces : Covers(pieces[i].rect, p)
  <2>1. k \in DOMAIN pieces /\ Covers(pieces[k].rect, p)
    BY <1>3, <1>5, ZenonT(60)
  <2>2. Picture[p] = IF pieces[k].solid
                     THEN image[<<pieces[k].rect.x, pieces[k].rect.y>>] ELSE image[p]
    BY <1>3, <1>4, <1>5
  <2> HIDE DEF k
  <2>3. pieces[k] \in OkPieces
    BY <1>1, <2>1
  <2>4. pieces[k].rect \in Rects
    BY <2>3 DEF OkPieces, SentPieces
  <2>5. pieces[k].solid =>
          IsSolid(pieces[k].rect, image[<<pieces[k].rect.x, pieces[k].rect.y>>])
    BY <2>3 DEF OkPieces
  <2>6. p \in Points
    BY PixelsArePoints
  <2>7. pieces[k].solid => image[p] = image[<<pieces[k].rect.x, pieces[k].rect.y>>]
    BY <2>1, <2>4, <2>5, <2>6, SolidIs
  <2> QED
    BY <1>5, <2>2, <2>7
<1>6. CASE ~InUpdate(p)
  <2>1. Picture[p] = shown[p]
    BY <1>3, <1>4, <1>6
  <2>2. copied = DOMAIN reg
    <3>1. Args /\ AtDone
      BY DEF IInv, CopyInv
    <3>2. DOMAIN reg = 1 .. NumRects
      BY <3>1, ArgsFacts, Zenon
    <3> QED
      BY <1>1, <3>1, <3>2 DEF AtDone
  <2>3. shown[p] = IF \E i \in DOMAIN reg : Inside(p, reg[i])
                   THEN before[Shifted(p)] ELSE before[p]
    BY <2>2 DEF IInv, CopyInv, Intact
  <2> QED
    BY <1>6, <2>1, <2>3, ZenonT(60)
<1> QED
  BY <1>5, <1>6

\* A finished update leaves the viewer with the server's pixels where it was
\* to be updated, with its own, displaced, where it was to copy, and all others
\* as they were: for every framebuffer, update region, copy region and
\* displacement (rfbSendFramebufferUpdate).
THEOREM PictureIsUpdatedAlways == Spec => []PictureIsUpdated
  BY InitInv, NextInv, PictureOfDone, PTL DEF Spec

-----------------------------------------------------------------------------
(***************************************************************************)
(* How many rectangles a message has.                                      *)
(***************************************************************************)

\* Sum is what its loop computes.
LEMMA SumIs ==
  ASSUME NEW s \in Seq(Nat)
  PROVE  \E f \in [0 .. Len(s) -> Nat] :
           /\ f[0] = 0
           /\ \A i \in 1 .. Len(s) : f[i] = f[i - 1] + s[i]
           /\ Sum(s) = f[Len(s)]
<1> DEFINE N == Len(s)
           Is(n, f) == f = [i \in 0 .. n |-> IF i = 0 THEN 0 ELSE f[i - 1] + s[i]]
           Has(n) == \E f : Is(n, f) /\ f \in [0 .. n -> Nat]
           S == {n \in Nat : n <= N => Has(n)}
<1>1. N \in Nat /\ \A i \in 1 .. N : s[i] \in Nat
  BY LenProperties
<1> HIDE DEF N
<1>2. 0 \in S
  <2> DEFINE g == [i \in 0 .. 0 |-> 0]
  <2>1. g \in [0 .. 0 -> Nat] /\ \A i \in 0 .. 0 : i = 0
    OBVIOUS
  <2>2. g = [i \in 0 .. 0 |-> IF i = 0 THEN 0 ELSE g[i - 1] + s[i]]
    BY <2>1
  <2> HIDE DEF g
  <2>3. Is(0, g)
    BY <2>2
  <2> QED
    BY <2>1, <2>3
<1>3. \A n \in Nat : n \in S => n + 1 \in S
  <2> SUFFICES ASSUME NEW n \in Nat, n \in S, n + 1 <= N
               PROVE  Has(n + 1)
    <3> HIDE DEF Has
    <3> QED
      OBVIOUS
  <2>0. Has(n)
    <3> HIDE DEF Has
    <3> QED
      BY <1>1
  <2>1. PICK f : Is(n, f) /\ f \in [0 .. n -> Nat]
    BY <2>0
  <2> DEFINE h == [i \in 0 .. n + 1 |-> IF i = 0 THEN 0 ELSE f[i - 1] + s[i]]
  <2>2. \A i \in 0 .. n : f[i] = (IF i = 0 THEN 0 ELSE f[i - 1] + s[i]) /\ f[i] \in Nat
    BY <2>1
  <2>3. \A i \in 0 .. n + 1 : h[i] = IF i = 0 THEN 0 ELSE f[i - 1] + s[i]
    OBVIOUS
  <2>4. h = [i \in 0 .. n + 1 |-> h[i]]
    OBVIOUS
  <2> HIDE DEF h
  <2>5. \A i \in 0 .. n : h[i] = f[i]
    BY <2>2, <2>3
  <2>6. \A i \in 0 .. n + 1 : /\ h[i] = IF i = 0 THEN 0 ELSE h[i - 1] + s[i]
                              /\ h[i] \in Nat
    <3> TAKE i \in 0 .. n + 1
    <3>1. CASE i = 0
      BY <2>3, <3>1
    <3>2. CASE i # 0
      <4>1. i - 1 \in 0 .. n /\ i \in 1 .. N
        BY <1>1, <3>2
      <4>2. h[i - 1] = f[i - 1] /\ f[i - 1] \in Nat /\ s[i] \in Nat
        BY <1>1, <2>2, <2>5, <4>1
      <4> QED
        BY <2>3, <3>2, <4>2
    <3> QED
      BY <3>1, <3>2
  <2>7. h = [i \in 0 .. n + 1 |-> IF i = 0 THEN 0 ELSE h[i - 1] + s[i]]
    BY <2>4, <2>6
  <2>8. h \in [0 .. n + 1 -> Nat]
    BY <2>4, <2>6
  <2>9. Is(n + 1, h)
    BY <2>7
  <2> HIDE DEF Is
  <2> QED
    BY <2>8, <2>9
<1> HIDE DEF S
<1>4. N \in S
  BY <1>1, <1>2, <1>3, SetInduction
<1>5. Has(N)
  <2> HIDE DEF Has
  <2> QED
    BY <1>1, <1>4 DEF S
<1> DEFINE c == CHOOSE f : Is(N, f)
<1>6. Sum(s) = c[N]
  BY Zenon DEF Sum, N
<1>7. Is(N, c)
  <2> HIDE DEF Is
  <2> QED
    BY <1>5, Zenon
<1> HIDE DEF c
<1>8. DOMAIN c = 0 .. N /\ \A i \in 0 .. N : c[i] = IF i = 0 THEN 0 ELSE c[i - 1] + s[i]
  BY <1>7
<1> DEFINE T == {n \in Nat : n <= N => c[n] \in Nat}
<1>9. 0 \in T
  BY <1>1, <1>8
<1>10. \A n \in Nat : n \in T => n + 1 \in T
  <2> SUFFICES ASSUME NEW n \in Nat, n \in T, n + 1 <= N
               PROVE  c[n + 1] \in Nat
    OBVIOUS
  <2>1. c[n] \in Nat /\ s[n + 1] \in Nat /\ n + 1 \in 0 .. N /\ n + 1 # 0 /\ (n + 1) - 1 = n
    BY <1>1
  <2> QED
    BY <1>8, <2>1
<1>11. \A n \in 0 .. N : c[n] \in Nat
  <2> HIDE DEF T
  <2>1. Nat \subseteq T
    BY <1>9, <1>10, SetInduction
  <2> QED
    BY <1>1, <2>1 DEF T
<1>12. c \in [0 .. N -> Nat]
  BY <1>7, <1>11
<1>13. c[0] = 0 /\ \A i \in 1 .. N : c[i] = c[i - 1] + s[i]
  BY <1>1, <1>8
<1> QED
  BY <1>6, <1>12, <1>13 DEF N

\* And nothing else is.
LEMMA SumOf ==
  ASSUME NEW s \in Seq(Nat), NEW f, f[0] = 0,
         \A i \in 1 .. Len(s) : f[i] = f[i - 1] + s[i]
  PROVE  Sum(s) = f[Len(s)]
<1> DEFINE N == Len(s)
<1>1. N \in Nat
  OBVIOUS
<1>2. PICK g \in [0 .. N -> Nat] :
        /\ g[0] = 0
        /\ \A i \in 1 .. N : g[i] = g[i - 1] + s[i]
        /\ Sum(s) = g[N]
  BY SumIs
<1>3. \A i \in 1 .. N : f[i] = f[i - 1] + s[i]
  OBVIOUS
<1> HIDE DEF N
<1> DEFINE T == {n \in Nat : n <= N => f[n] = g[n]}
<1>4. 0 \in T
  BY <1>2
<1>5. \A n \in Nat : n \in T => n + 1 \in T
  <2> SUFFICES ASSUME NEW n \in Nat, n \in T, n + 1 <= N
               PROVE  f[n + 1] = g[n + 1]
    OBVIOUS
  <2>1. f[n] = g[n] /\ n + 1 \in 1 .. N /\ (n + 1) - 1 = n
    BY <1>1
  <2> QED
    BY <1>2, <1>3, <2>1
<1> HIDE DEF T
<1>6. N \in T
  BY <1>1, <1>4, <1>5, SetInduction
<1> QED
  BY <1>1, <1>2, <1>6 DEF N, T

\* The sum of numbers is a number, that of none is 0, that of one is itself.
LEMMA SumType == ASSUME NEW s \in Seq(Nat) PROVE Sum(s) \in Nat
<1>1. PICK f \in [0 .. Len(s) -> Nat] : Sum(s) = f[Len(s)]
  BY SumIs
<1>2. Len(s) \in 0 .. Len(s)
  OBVIOUS
<1> QED
  BY <1>1, <1>2

LEMMA SumEmpty == Sum(<<>>) = 0
<1> DEFINE s == <<>>
           f == [i \in 0 .. 0 |-> 0]
<1>1. s \in Seq(Nat) /\ Len(s) = 0 /\ f[0] = 0
  OBVIOUS
<1> HIDE DEF s, f
<1>2. \A i \in 1 .. Len(s) : f[i] = f[i - 1] + s[i]
  BY <1>1
<1>3. Sum(s) = 0
  BY <1>1, <1>2, SumOf
<1> QED
  BY <1>3 DEF s

LEMMA SumSingle == ASSUME NEW a \in Nat PROVE Sum(<<a>>) = a
<1> DEFINE s == <<a>>
           f == [i \in 0 .. 1 |-> i * a]
<1>1. s \in Seq(Nat) /\ Len(s) = 1 /\ s[1] = a
  OBVIOUS
<1>2. f[0] = 0 /\ f[1] = a
  OBVIOUS
<1> HIDE DEF s, f
<1>3. \A i \in 1 .. Len(s) : f[i] = f[i - 1] + s[i]
  BY <1>1, <1>2
<1>4. Sum(s) = a
  BY <1>1, <1>2, <1>3, SumOf
<1> QED
  BY <1>4 DEF s

\* What is summed in two parts.
LEMMA SumConcat ==
  ASSUME NEW s \in Seq(Nat), NEW t \in Seq(Nat)
  PROVE  Sum(s \o t) = Sum(s) + Sum(t)
<1> DEFINE n == Len(s)
           m == Len(t)
           u == s \o t
<1>1. /\ n \in Nat /\ m \in Nat /\ u \in Seq(Nat) /\ Len(u) = n + m
      /\ \A i \in 1 .. n + m : u[i] = IF i <= n THEN s[i] ELSE t[i - n]
  BY LenProperties, ConcatProperties
<1>2. PICK f \in [0 .. n -> Nat] :
        /\ f[0] = 0 /\ \A i \in 1 .. n : f[i] = f[i - 1] + s[i]
        /\ Sum(s) = f[n]
  BY SumIs
<1>3. PICK g \in [0 .. m -> Nat] :
        /\ g[0] = 0 /\ \A i \in 1 .. m : g[i] = g[i - 1] + t[i]
        /\ Sum(t) = g[m]
  BY SumIs
<1>4. \A i \in 1 .. m : t[i] \in Nat
  BY LenProperties
<1> HIDE DEF n, m, u
<1> DEFINE h == [i \in 0 .. n + m |-> IF i <= n THEN f[i] ELSE f[n] + g[i - n]]
<1>5. \A i \in 0 .. n + m : h[i] = IF i <= n THEN f[i] ELSE f[n] + g[i - n]
  OBVIOUS
<1> HIDE DEF h
<1>6. h[0] = 0
  BY <1>1, <1>2, <1>5
<1>7. f[n] \in Nat
  BY <1>1, <1>2
<1>8. h[n + m] = f[n] + g[m]
  <2>1. CASE m = 0
    BY <1>1, <1>3, <1>5, <1>7, <2>1
  <2>2. CASE m # 0
    <3>1. n + m \in 0 .. n + m /\ ~(n + m <= n) /\ (n + m) - n = m
      BY <1>1, <2>2
    <3> QED
      BY <1>5, <3>1
  <2> QED
    BY <2>1, <2>2
<1>9. ASSUME NEW i \in 1 .. n + m
      PROVE  h[i] = h[i - 1] + u[i]
  <2>1. CASE i <= n
    <3>1. i \in 0 .. n + m /\ i - 1 \in 0 .. n + m /\ i - 1 <= n /\ i \in 1 .. n
      BY <1>1, <2>1
    <3> QED
      BY <1>1, <1>2, <1>5, <2>1, <3>1
  <2>2. CASE i = n + 1
    <3>1. /\ i \in 0 .. n + m /\ ~(i <= n) /\ i - n = 1
          /\ i - 1 \in 0 .. n + m /\ i - 1 = n /\ n <= n
          /\ 1 \in 1 .. m /\ 1 - 1 = 0
      BY <1>1, <2>2
    <3>2. h[i] = f[n] + g[1] /\ h[i - 1] = f[n] /\ u[i] = t[1]
      <4>1. h[i] = f[n] + g[1]
        BY <1>5, <3>1
      <4>2. h[i - 1] = f[n]
        BY <1>5, <3>1
      <4>3. u[i] = t[1]
        BY <1>1, <3>1
      <4> QED
        BY <4>1, <4>2, <4>3
    <3>3. g[1] = 0 + t[1] /\ t[1] \in Nat
      BY <1>3, <1>4, <3>1
    <3> QED
      BY <1>7, <3>2, <3>3
  <2>3. CASE i > n + 1
    <3>1. /\ i \in 0 .. n + m /\ ~(i <= n) /\ ~(i - 1 <= n)
          /\ i - 1 \in 0 .. n + m /\ (i - 1) - n = (i - n) - 1
          /\ i - n \in 1 .. m /\ (i - n) - 1 \in 0 .. m
      BY <1>1, <2>3
    <3>2. h[i] = f[n] + g[i - n] /\ h[i - 1] = f[n] + g[(i - n) - 1] /\ u[i] = t[i - n]
      BY <1>1, <1>5, <3>1
    <3>3. g[i - n] = g[(i - n) - 1] + t[i - n]
      BY <1>3, <3>1
    <3>4. t[i - n] \in Nat /\ g[(i - n) - 1] \in Nat
      BY <1>3, <1>4, <3>1
    <3> QED
      BY <1>7, <3>2, <3>3, <3>4, SMTT(40)
  <2> QED
    BY <1>1, <2>1, <2>2, <2>3
<1>10. Sum(u) = h[n + m]
  BY <1>1, <1>6, <1>9, SumOf
<1> QED
  BY <1>2, <1>3, <1>8, <1>10 DEF u

\* Equal numbers but for the last one.
LEMMA SumOfEqual ==
  ASSUME NEW n \in Nat \ {0}, NEW a \in Nat, NEW b \in Nat, NEW s,
         s = [i \in 1 .. n |-> IF i = n THEN b ELSE a]
  PROVE  s \in Seq(Nat) /\ Sum(s) = a * (n - 1) + b
<1>1. s \in [1 .. n -> Nat] /\ \A i \in 1 .. n : s[i] = IF i = n THEN b ELSE a
  OBVIOUS
<1>2. s \in Seq(Nat) /\ Len(s) = n
  BY <1>1
<1> DEFINE f == [i \in 0 .. n |-> IF i = n THEN a * (n - 1) + b ELSE a * i]
<1>3. \A i \in 0 .. n : f[i] = IF i = n THEN a * (n - 1) + b ELSE a * i
  OBVIOUS
<1> HIDE DEF f
<1>4. f[0] = 0
  <2>1. 0 \in 0 .. n /\ 0 # n /\ a * 0 = 0
    OBVIOUS
  <2> QED
    BY <1>3, <2>1
<1>5. ASSUME NEW i \in 1 .. n
      PROVE  f[i] = f[i - 1] + s[i]
  <2>1. i \in 0 .. n /\ i - 1 \in 0 .. n /\ i - 1 # n
    OBVIOUS
  <2>2. f[i - 1] = a * (i - 1)
    BY <1>3, <2>1
  <2>3. CASE i = n
    BY <1>1, <1>3, <2>1, <2>2, <2>3
  <2>4. CASE i # n
    <3>1. f[i] = a * i /\ s[i] = a
      BY <1>1, <1>3, <2>1, <2>4
    <3>2. a * i = a * (i - 1) + a
      OBVIOUS
    <3> QED
      BY <2>2, <3>1, <3>2
  <2> QED
    BY <2>3, <2>4
<1>6. Sum(s) = f[n]
  BY <1>2, <1>4, <1>5, SumOf
<1>7. f[n] = a * (n - 1) + b
  BY <1>3
<1> QED
  BY <1>2, <1>6, <1>7

\* The number of pieces that SendRectSimple makes, across and down.
Across(r) == (r.w - 1) \div MaxRectWidth + 1

Down(r) == (r.h - 1) \div SubrectMaxHeight(r.w) + 1

LEMMA NothingAbove ==
  ASSUME NEW b \in Nat \ {0} PROVE (0 - 1) \div b = -1
<1>1. b * (-1) <= 0 - 1 /\ 0 - 1 < b * (-1) + b /\ 0 - 1 \in Int /\ -1 \in Int
  OBVIOUS
<1> QED
  BY <1>1, DivIs

\* The number of pieces that SendRectSimple makes.
LEMMA SplitLength ==
  ASSUME NEW r \in Rects, r.w > 0, r.h > 0 \/ r.w > MaxRectWidth
  PROVE  /\ Len(Split(r)) = Across(r) * Down(r)
         /\ Across(r) \in Nat \ {0} /\ Down(r) \in Nat
         /\ r.h > 0 => Down(r) # 0
<1> DEFINE w == r.w
           h == r.h
           high == SubrectMaxHeight(r.w)
<1>1. w \in Nat \ {0} /\ h \in Nat
  BY DEF Rects
<1>2. Across(r) \in Nat \ {0}
  BY <1>1, Sizes, CutFacts DEF Across
<1>3. high \in Nat \ {0}
  BY <1>1, HighestPiece
<1>4. CASE TooLarge(w, h) /\ h > 0
  <2>1. /\ Down(r) \in Nat \ {0} /\ Across(r) * Down(r) \in Nat
        /\ Split(r) = [k \in 1 .. Across(r) * Down(r) |->
                         Piece(r, (k - 1) % Across(r), (k - 1) \div Across(r))]
    BY <1>4, SplitIs DEF Across, Down
  <2> DEFINE n == Across(r) * Down(r)
             s == Split(r)
  <2>2. n \in Nat /\ DOMAIN s = 1 .. n /\ s \in Seq(Rects)
    BY <2>1, SplitFits
  <2> HIDE DEF n, s
  <2>3. Len(s) = n
    <3>1. Len(s) \in Nat /\ DOMAIN s = 1 .. Len(s)
      BY <2>2, LenProperties
    <3> QED
      BY <2>2, <3>1
  <2> QED
    BY <1>2, <2>1, <2>3 DEF n, s
<1>5. CASE h = 0
  <2>1. Split(r) = <<>>
    BY <1>5, SplitOfNothing DEF TooLarge
  <2>2. Down(r) = 0
    <3>1. (0 - 1) \div high = -1
      <4> HIDE DEF high
      <4> QED
        BY <1>3, NothingAbove
    <3> QED
      BY <1>5, <3>1 DEF Down
  <2> QED
    BY <1>2, <1>5, <2>1, <2>2
<1>6. CASE ~TooLarge(w, h) /\ h > 0
  <2>1. w <= MaxRectWidth /\ w * h <= MaxRectSize
    <3>1. w * h \in Nat
      <4> HIDE DEF w, h
      <4> QED
        BY <1>1, ProductNat
    <3> QED
      BY <1>1, <1>6, <3>1, Sizes DEF TooLarge
  <2>2. Len(Split(r)) = 1
    BY <1>6 DEF Split
  <2>3. Across(r) = 1
    <3> HIDE DEF w
    <3>1. MaxRectWidth * 0 <= w - 1 /\ w - 1 < MaxRectWidth * 0 + MaxRectWidth
          /\ w - 1 \in Int
      BY <1>1, <2>1, Sizes
    <3>2. (w - 1) \div MaxRectWidth = 0
      BY <3>1, Sizes, DivIs
    <3> QED
      BY <3>2 DEF Across, w
  <2>4. SubrectMaxWidth(w) = w
    BY <1>1, <2>1, Sizes DEF SubrectMaxWidth, Least
  <2>5. h <= high
    <3>1. MaxRectSize < w * high + w
      BY <1>1, <2>4, HighestPiece
    <3> HIDE DEF w, h, high
    <3>2. w * h < w * high + w
      <4>1. w * h \in Nat /\ w * high \in Nat
        BY <1>1, <1>3, ProductNat
      <4> QED
        BY <1>1, <2>1, <3>1, <4>1, Sizes
    <3>3. ASSUME h >= high + 1 PROVE FALSE
      <4>1. w * (high + 1) <= w * h
        BY <1>1, <1>3, <3>3, ProductMono
      <4>2. w * (high + 1) = w * high + w
        BY <1>1, <1>3
      <4>3. w * h \in Nat /\ w * high \in Nat
        BY <1>1, <1>3, ProductNat
      <4> QED
        BY <1>1, <3>2, <4>1, <4>2, <4>3
    <3> QED
      BY <1>1, <1>3, <3>3
  <2>6. Down(r) = 1
    <3> HIDE DEF h, high
    <3>1. high * 0 <= h - 1 /\ h - 1 < high * 0 + high /\ h - 1 \in Int
      BY <1>1, <1>3, <1>6, <2>5
    <3>2. (h - 1) \div high = 0
      BY <1>3, <3>1, DivIs
    <3> QED
      BY <3>2 DEF Down, h, high
  <2> QED
    BY <2>2, <2>3, <2>6
<1> QED
  BY <1>1, <1>4, <1>5, <1>6

\* rfbNumCodedRectsTight counts the pieces that SendRectSimple makes, unless it
\* leaves the number open, which it does for none but viewers that accept the
\* LastRect marker.
LEMMA NumCodedIs ==
  ASSUME NEW r \in Rects, r.w > 0, r.h > 0
  PROVE  /\ NumCodedRects(r.w, r.h) = IF lastRect /\ r.w * r.h >= MinSplitSize
                                      THEN 0 ELSE Len(Split(r))
         /\ Len(Split(r)) \in Nat \ {0}
<1>1. /\ Len(Split(r)) = Across(r) * Down(r)
      /\ Across(r) \in Nat \ {0} /\ Down(r) \in Nat \ {0}
  BY SplitLength
<1>2. Len(Split(r)) \in Nat \ {0}
  <2> DEFINE a == Across(r)
             d == Down(r)
  <2> HIDE DEF a, d
  <2>1. a \in Nat \ {0} /\ d \in Nat \ {0}
    BY <1>1 DEF a, d
  <2>2. a * 1 <= a * d /\ a * d \in Int
    BY <2>1, ProductMono
  <2> QED
    BY <1>1, <2>1, <2>2 DEF a, d
<1>3. ~TooLarge(r.w, r.h) => Len(Split(r)) = 1
  BY DEF Split
<1>4. NumCodedRects(r.w, r.h) =
        IF lastRect /\ r.w * r.h >= MinSplitSize THEN 0
        ELSE IF TooLarge(r.w, r.h) THEN Across(r) * Down(r) ELSE 1
  BY Zenon DEF NumCodedRects, Across, Down
<1>5. CASE lastRect /\ r.w * r.h >= MinSplitSize
  BY <1>2, <1>4, <1>5
<1>6. CASE ~(lastRect /\ r.w * r.h >= MinSplitSize)
  <2>1. NumCodedRects(r.w, r.h) =
          IF TooLarge(r.w, r.h) THEN Across(r) * Down(r) ELSE 1
    BY <1>4, <1>6, Zenon
  <2>2. NumCodedRects(r.w, r.h) = Len(Split(r))
    BY <1>1, <1>3, <2>1, Zenon
  <2> QED
    BY <1>2, <1>6, <2>2, Zenon
<1> QED
  BY <1>5, <1>6

\* The division of what is left below some whole pieces.
LEMMA DivBelow ==
  ASSUME NEW a \in Int, NEW b \in Nat \ {0}, NEW k \in Int
  PROVE  (a - b * k) \div b = a \div b - k
<1> DEFINE q == a \div b
<1>1. q \in Int /\ b * q <= a /\ a < b * q + b
  BY DivFacts
<1> HIDE DEF q
<1>2. b * (q - k) = b * q - b * k /\ b * k \in Int /\ b * q \in Int
  <2>1. b \in Int /\ b * q \in Int /\ b * k \in Int
    BY <1>1
  <2>2. b * (q - k) = b * q - b * k
    BY <1>1, <2>1
  <2> QED
    BY <2>1, <2>2
<1>3. a - b * k \in Int /\ q - k \in Int
  BY <1>1, <1>2
<1>4. b * (q - k) <= a - b * k /\ a - b * k < b * (q - k) + b
  BY <1>1, <1>2
<1>5. (a - b * k) \div b = q - k
  BY <1>3, <1>4, DivIs
<1> QED
  BY <1>5 DEF q

\* The pieces that each of some rectangles would be sent in.
Lengths(s) == [i \in DOMAIN s |-> Len(Split(s[i].rect))]

Owed(s) == Sum(Lengths(s))

\* Bands have rows, unless they are wider than a piece may be.
LEMMA BandsHaveRows ==
  ASSUME NEW r \in Rects, r.w > 0, r.h > 0
  PROVE  /\ BandHeight(r) > 0 \/ r.w > MaxRectWidth
         /\ BandHeight(r) \in Nat
         /\ BandHeight(r) * (NumBands(r) - 1) \in Nat
         /\ r.h - BandHeight(r) * (NumBands(r) - 1) \in Nat \ {0}
         /\ NumBands(r) = 1 => BandHeight(r) = r.h
<1> DEFINE n == NumBands(r)
           h == r.h
           w == r.w
           H == BandHeight(r)
<1>1. w \in Nat \ {0} /\ h \in Nat \ {0}
  BY DEF Rects
<1>2. n \in Nat \ {0} /\ (n = 1 \/ n <= (w * h) \div MaxRectSize)
  BY NumBandsFacts
<1>3. H = h \div n
  BY DEF BandHeight
<1> HIDE DEF n, h, w, H
<1>4. H \in Nat /\ n * H <= h /\ h < n * H + n
  <2>1. h \in Int /\ h >= 0
    BY <1>1
  <2>2. n * (h \div n) <= h /\ h < n * (h \div n) + n /\ h \div n \in Nat
    BY <1>2, <2>1, DivFacts
  <2> QED
    BY <1>3, <2>2
<1>5. n * H = H * (n - 1) + H /\ H * (n - 1) \in Nat
  <2>1. n - 1 \in Nat
    BY <1>2
  <2>2. H * (n - 1) \in Nat
    BY <1>4, <2>1, ProductNat
  <2>3. n * H = H * (n - 1) + H
    BY <1>2, <1>4
  <2> QED
    BY <2>2, <2>3
<1>6. h - H * (n - 1) \in Nat \ {0}
  <2>1. CASE H = 0
    <3>1. H * (n - 1) = 0
      BY <1>2, <2>1
    <3> QED
      BY <1>1, <3>1
  <2>2. CASE H # 0
    BY <1>1, <1>4, <1>5, <2>2
  <2> QED
    BY <2>1, <2>2
<1>7. n = 1 => H = h
  BY <1>1, <1>4
<1>8. ASSUME H = 0, w <= MaxRectWidth PROVE FALSE
  <2>1. n # 1 /\ h < n
    <3>1. n * H = 0
      BY <1>2, <1>8
    <3>2. h < n
      BY <1>2, <1>4, <3>1
    <3> QED
      BY <1>1, <1>2, <3>2
  <2>2. w * h \in Nat /\ MaxRectSize \in Nat \ {0} /\ MaxRectWidth <= MaxRectSize
    <3>1. w * h \in Nat
      BY <1>1, ProductNat
    <3> QED
      BY <3>1, Sizes
  <2>3. MaxRectSize * ((w * h) \div MaxRectSize) <= w * h /\ (w * h) \div MaxRectSize \in Nat
    <3> DEFINE a == w * h
    <3>1. a \in Int /\ a >= 0 /\ MaxRectSize \in Nat \ {0}
      BY <2>2
    <3> HIDE DEF a
    <3>2. MaxRectSize * (a \div MaxRectSize) <= a /\ a \div MaxRectSize \in Nat
      BY <3>1, DivFacts
    <3> QED
      BY <3>2 DEF a
  <2>4. MaxRectSize * n <= MaxRectSize * ((w * h) \div MaxRectSize)
    BY <1>2, <2>1, <2>2, <2>3, ProductMono
  <2>5. w * h <= MaxRectSize * h
    <3>1. w <= MaxRectSize
      BY <1>1, <1>8, <2>2, Sizes
    <3> QED
      BY <1>1, <2>2, <3>1, ProductMono
  <2>6. MaxRectSize * (h + 1) <= MaxRectSize * n
    <3>1. h + 1 <= n /\ h + 1 \in Int
      BY <1>1, <1>2, <2>1
    <3> QED
      BY <1>2, <2>2, <3>1, ProductMono
  <2>7. MaxRectSize * (h + 1) = MaxRectSize * h + MaxRectSize
    BY <1>1, <2>2
  <2>8. MaxRectSize * n \in Int /\ MaxRectSize * h \in Int
    BY <1>1, <1>2, <2>2
  <2>9. MaxRectSize * ((w * h) \div MaxRectSize) \in Int
    BY <2>2, <2>3
  <2> QED
    BY <2>2, <2>3, <2>4, <2>5, <2>6, <2>7, <2>8, <2>9
<1>9. H > 0 \/ w > MaxRectWidth
  BY <1>1, <1>4, <1>8, Sizes
<1> QED
  BY <1>4, <1>5, <1>6, <1>7, <1>9 DEF n, h, w, H

\* The bands of a rectangle, when they are cut where it would be, make as many
\* pieces as the rectangle would.
LEMMA BandsLength ==
  ASSUME NEW r \in Rects, r.w > 0, r.h > 0, ~CutUnevenly(r)
  PROVE  Lengths(Bands(r)) \in Seq(Nat) /\ Owed(Bands(r)) = Len(Split(r))
<1> DEFINE n == NumBands(r)
           h == r.h
           H == BandHeight(r)
           S == SubrectMaxHeight(r.w)
           A == Across(r)
           q == H \div S
           last == h - H * (n - 1)
           short == A * ((H - 1) \div S + 1)
           long == A * ((last - 1) \div S + 1)
<1>1. r.w \in Nat \ {0} /\ h \in Nat \ {0}
  BY DEF Rects
<1>2. S \in Nat \ {0}
  BY <1>1, HighestPiece
<1>3. n \in Nat \ {0}
  BY NumBandsFacts
<1>4. /\ H > 0 \/ r.w > MaxRectWidth
      /\ H \in Nat /\ H * (n - 1) \in Nat /\ last \in Nat \ {0}
      /\ n = 1 => H = h
  BY BandsHaveRows
<1>5. A \in Nat \ {0} /\ Down(r) \in Nat /\ Len(Split(r)) = A * Down(r)
      /\ Down(r) = (h - 1) \div S + 1
  BY SplitLength DEF Down
<1>6. \A i \in 1 .. n : /\ Bands(r)[i].rect \in Rects
                        /\ Bands(r)[i].rect.w = r.w
                        /\ Bands(r)[i].rect.h = IF i = n THEN last ELSE H
  BY BandFacts
<1>7. DOMAIN Bands(r) = 1 .. n
  BY DEF Bands
<1>8. \A i \in 1 .. n : /\ Len(Split(Bands(r)[i].rect)) = IF i = n THEN long ELSE short
                        /\ Len(Split(Bands(r)[i].rect)) \in Nat
  <2> SUFFICES ASSUME NEW i \in 1 .. n
               PROVE  /\ Len(Split(Bands(r)[i].rect)) = IF i = n THEN long ELSE short
                      /\ Len(Split(Bands(r)[i].rect)) \in Nat
    OBVIOUS
  <2> DEFINE b == Bands(r)[i].rect
  <2>1. b \in Rects /\ b.w = r.w /\ b.h = IF i = n THEN last ELSE H
    BY <1>6
  <2> HIDE DEF b, n, H, last
  <2>2. b.w > 0 /\ (b.h > 0 \/ b.w > MaxRectWidth)
    BY <1>1, <1>4, <2>1
  <2>3. Len(Split(b)) = Across(b) * Down(b)
    BY <2>1, <2>2, SplitLength
  <2>4. Across(b) = A /\ Down(b) = (b.h - 1) \div S + 1
    BY <2>1 DEF Across, Down
  <2>5. Len(Split(b)) = IF i = n THEN long ELSE short
    BY <2>1, <2>3, <2>4
  <2>6. Len(Split(b)) \in Nat
    BY <2>1, SplitFits
  <2> QED
    BY <2>5, <2>6 DEF b
<1>9. Lengths(Bands(r)) = [i \in 1 .. n |-> Len(Split(Bands(r)[i].rect))]
  BY <1>7 DEF Lengths
<1> HIDE DEF long, short, A, S, n, H, h, last
<1>10. long \in Nat
  <2>1. n \in 1 .. n
    BY <1>3
  <2> QED
    BY <1>8, <2>1
<1>11. CASE n = 1
  <2>1. Lengths(Bands(r)) = [i \in 1 .. n |-> IF i = n THEN long ELSE 0]
    <3>1. \A i \in 1 .. n : i = n
      BY <1>11
    <3> QED
      BY <1>8, <1>9, <3>1
  <2>2. Lengths(Bands(r)) \in Seq(Nat) /\ Sum(Lengths(Bands(r))) = 0 * (n - 1) + long
    BY <1>3, <1>10, <2>1, SumOfEqual
  <2>3. H * (n - 1) = 0 /\ 0 * (n - 1) = 0
    BY <1>4, <1>11
  <2>4. last = h
    BY <1>1, <2>3 DEF last
  <2> QED
    BY <1>5, <1>10, <2>2, <2>3, <2>4 DEF long, Owed
<1>12. CASE n # 1
  <2>1. n > 1 /\ n - 1 \in 1 .. n /\ n - 1 # n
    BY <1>3, <1>12
  <2>2. short \in Nat
    BY <1>8, <2>1
  <2>3. Lengths(Bands(r)) = [i \in 1 .. n |-> IF i = n THEN long ELSE short]
    BY <1>8, <1>9
  <2>4. Lengths(Bands(r)) \in Seq(Nat) /\ Sum(Lengths(Bands(r))) = short * (n - 1) + long
    BY <1>3, <1>10, <2>2, <2>3, SumOfEqual, ZenonT(60)
  <2>5. H % S = 0
    BY <2>1 DEF CutUnevenly, BandHeight, n, H, S
  <2>6. q \in Int /\ H = S * q
    BY <1>2, <1>4, <2>5, DivFacts
  <2> HIDE DEF q
  <2>7. (H - 1) \div S = q - 1
    <3>1. (0 - 1) - S * (0 - q) = H - 1
      <4>1. S * (0 - q) = 0 - S * q
        BY <1>2, <2>6
      <4> QED
        BY <1>4, <2>6, <4>1
    <3>2. ((0 - 1) - S * (0 - q)) \div S = (0 - 1) \div S - (0 - q)
      <4>1. 0 - 1 \in Int /\ 0 - q \in Int
        BY <2>6
      <4> QED
        BY <1>2, <4>1, DivBelow
    <3>3. (0 - 1) \div S = -1
      BY <1>2, NothingAbove
    <3> QED
      BY <2>6, <3>1, <3>2, <3>3
  <2>8. short = A * q
    <3>1. (q - 1) + 1 = q
      BY <2>6
    <3> QED
      BY <2>7, <3>1 DEF short
  <2> DEFINE k == q * (n - 1)
  <2>9. k \in Int
    BY <1>3, <2>6
  <2>10. H * (n - 1) = S * k
    BY <1>2, <1>3, <2>6
  <2>11. short * (n - 1) = A * k
    BY <1>3, <1>5, <2>6, <2>8
  <2> HIDE DEF k
  <2>12. (last - 1) \div S = (h - 1) \div S - k
    <3>1. (h - 1) - S * k = last - 1
      BY <1>1, <1>4, <2>10 DEF last
    <3>2. ((h - 1) - S * k) \div S = (h - 1) \div S - k
      <4>1. h - 1 \in Int
        BY <1>1
      <4> QED
        BY <1>2, <2>9, <4>1, DivBelow
    <3> QED
      BY <3>1, <3>2
  <2>13. long = A * (Down(r) - k)
    <3> DEFINE d == (h - 1) \div S
    <3>1. d \in Int
      <4>1. h - 1 \in Int
        BY <1>1
      <4> QED
        BY <1>2, <4>1, DivFacts
    <3>2. (last - 1) \div S = d - k /\ Down(r) = d + 1
      BY <1>5, <2>12
    <3> HIDE DEF d
    <3>3. (d - k) + 1 = (d + 1) - k
      BY <2>9, <3>1
    <3> QED
      BY <3>2, <3>3 DEF long
  <2>14. A * k + A * (Down(r) - k) = A * Down(r)
    <3> DEFINE d == Down(r)
    <3>1. d \in Int /\ A \in Int
      BY <1>5
    <3> HIDE DEF d
    <3>2. A * (d - k) = A * d - A * k /\ A * d \in Int /\ A * k \in Int
      BY <2>9, <3>1
    <3> QED
      BY <3>2 DEF d
  <2> QED
    BY <1>5, <2>4, <2>11, <2>13, <2>14 DEF Owed
<1> QED
  BY <1>11, <1>12

\* A job whose number of pieces was announced.
Counted(j) ==
  /\ j.kind \in {"update", "encode", "simple"}
  /\ ~lastRect \/ j.rect.w * j.rect.h < MinSplitSize
  /\ j.kind = "update" =>
       j.rect.w > 0 /\ j.rect.h > 0 /\ ~CutUnevenly(j.rect)

NumAll == Sum([i \in DOMAIN update |-> NumCoded(i)])

Even == \A i \in DOMAIN update : ~CutUnevenly(update[i])

\* Sent, to be sent and announced pieces agree.
Accounts ==
  ~LeftOpen /\ Even =>
    /\ \A i \in DOMAIN todo : Counted(todo[i])
    /\ Len(pieces) + Owed(todo) = NumAll

Announced ==
  phase # "announce" =>
    /\ nUpdateRegionRects = IF LeftOpen THEN OpenNumber ELSE NumAll
    /\ announced = IF nUpdateRegionRects = OpenNumber THEN OpenNumber
                   ELSE (Len(reg) + nUpdateRegionRects) % CARD16

Marked == phase = "done" => marked = (nUpdateRegionRects = OpenNumber)

CountInv == IInv /\ Accounts /\ Announced /\ Marked

\* What is owed for jobs, one after the other, is a number and is added up.
LEMMA LengthsType ==
  ASSUME NEW s \in Seq(Jobs)
  PROVE  Lengths(s) \in Seq(Nat) /\ Len(Lengths(s)) = Len(s)
<1>1. Len(s) \in Nat /\ DOMAIN s = 1 .. Len(s) /\ \A i \in 1 .. Len(s) : s[i] \in Jobs
  BY LenProperties
<1>2. \A i \in 1 .. Len(s) : Len(Split(s[i].rect)) \in Nat
  <2> TAKE i \in 1 .. Len(s)
  <2>1. s[i].rect \in Rects
    BY <1>1 DEF Jobs
  <2>2. Split(s[i].rect) \in Seq(Rects)
    BY <2>1, SplitFits
  <2> QED
    BY <2>2, LenProperties
<1> DEFINE t == Lengths(s)
<1>3. t = [i \in 1 .. Len(s) |-> Len(Split(s[i].rect))]
  BY <1>1 DEF Lengths
<1>4. t \in [1 .. Len(s) -> Nat]
  BY <1>2, <1>3
<1> HIDE DEF t
<1>5. t \in Seq(Nat) /\ Len(t) = Len(s)
  BY <1>1, <1>4
<1> QED
  BY <1>5 DEF t

LEMMA OwedConcat ==
  ASSUME NEW s \in Seq(Jobs), NEW t \in Seq(Jobs)
  PROVE  Owed(s \o t) = Owed(s) + Owed(t)
<1> DEFINE u == s \o t
<1>1. /\ Len(s) \in Nat /\ Len(t) \in Nat /\ DOMAIN s = 1 .. Len(s)
      /\ DOMAIN t = 1 .. Len(t)
      /\ u \in Seq(Jobs) /\ Len(u) = Len(s) + Len(t)
      /\ \A i \in 1 .. Len(s) + Len(t) : u[i] = IF i <= Len(s) THEN s[i] ELSE t[i - Len(s)]
  BY LenProperties, ConcatProperties
<1> HIDE DEF u
<1>2. DOMAIN u = 1 .. Len(s) + Len(t)
  BY <1>1, LenProperties
<1>3. /\ Lengths(s) \in Seq(Nat) /\ Len(Lengths(s)) = Len(s)
      /\ Lengths(t) \in Seq(Nat) /\ Len(Lengths(t)) = Len(t)
      /\ Lengths(u) \in Seq(Nat) /\ Len(Lengths(u)) = Len(u)
  BY <1>1, LengthsType
<1>4. Lengths(u) = Lengths(s) \o Lengths(t)
  <2> DEFINE a == Lengths(s)
             b == Lengths(t)
  <2>1. /\ \A i \in 1 .. Len(s) : a[i] = Len(Split(s[i].rect))
        /\ \A i \in 1 .. Len(t) : b[i] = Len(Split(t[i].rect))
        /\ \A i \in 1 .. Len(s) + Len(t) : Lengths(u)[i] = Len(Split(u[i].rect))
    BY <1>1, <1>2 DEF Lengths
  <2>0. a \in Seq(Nat) /\ b \in Seq(Nat) /\ Len(a) = Len(s) /\ Len(b) = Len(t)
    BY <1>3
  <2> HIDE DEF a, b
  <2>2. /\ a \o b \in Seq(Nat) /\ Len(a \o b) = Len(s) + Len(t)
        /\ \A i \in 1 .. Len(s) + Len(t) :
             (a \o b)[i] = IF i <= Len(s) THEN a[i] ELSE b[i - Len(s)]
    <3>1. /\ a \o b \in Seq(Nat) /\ Len(a \o b) = Len(a) + Len(b)
          /\ \A i \in 1 .. Len(a) + Len(b) :
               (a \o b)[i] = IF i <= Len(a) THEN a[i] ELSE b[i - Len(a)]
      BY <2>0, ConcatProperties
    <3> QED
      BY <2>0, <3>1
  <2>3. \A i \in 1 .. Len(s) + Len(t) : Lengths(u)[i] = (a \o b)[i]
    <3> TAKE i \in 1 .. Len(s) + Len(t)
    <3>1. CASE i <= Len(s)
      <4>1. i \in 1 .. Len(s)
        BY <1>1, <3>1
      <4> QED
        BY <1>1, <2>1, <2>2, <3>1, <4>1
    <3>2. CASE ~(i <= Len(s))
      <4>1. i - Len(s) \in 1 .. Len(t)
        BY <1>1, <3>2
      <4> QED
        BY <1>1, <2>1, <2>2, <3>2, <4>1
    <3> QED
      BY <3>1, <3>2
  <2>4. Lengths(u) = a \o b
    BY <1>1, <1>3, <2>2, <2>3, SeqEqual
  <2> QED
    BY <2>4 DEF a, b
<1> QED
  BY <1>3, <1>4, SumConcat DEF Owed, u

LEMMA OwedType == ASSUME NEW s \in Seq(Jobs) PROVE Owed(s) \in Nat
  BY LengthsType, SumType DEF Owed

\* What is owed for one job and for none.
LEMMA OwedSingle ==
  ASSUME NEW j \in Jobs
  PROVE  Owed(<<j>>) = Len(Split(j.rect))
<1> DEFINE s == <<j>>
<1>1. s \in Seq(Jobs) /\ DOMAIN s = 1 .. 1 /\ s[1] = j
  OBVIOUS
<1> HIDE DEF s
<1>2. j.rect \in Rects
  BY DEF Jobs
<1>3. Len(Split(j.rect)) \in Nat
  <2>1. Split(j.rect) \in Seq(Rects)
    BY <1>2, SplitFits
  <2> QED
    BY <2>1, LenProperties
<1>4. Lengths(s) = <<Len(Split(j.rect))>>
  BY <1>1 DEF Lengths
<1>5. Sum(Lengths(s)) = Len(Split(j.rect))
  BY <1>3, <1>4, SumSingle
<1> QED
  BY <1>5 DEF Owed, s

LEMMA OwedEmpty == Owed(<<>>) = 0
<1>1. Lengths(<<>>) = <<>>
  BY DEF Lengths
<1> QED
  BY <1>1, SumEmpty DEF Owed

\* The uppermost job and what the others owe.
LEMMA TopOwes ==
  ASSUME todo \in Seq(Jobs), todo # <<>>
  PROVE  /\ Top \in Jobs /\ Top.rect \in Rects /\ Tail(todo) \in Seq(Jobs)
         /\ Owed(todo) = Len(Split(Top.rect)) + Owed(Tail(todo))
         /\ Len(Split(Top.rect)) \in Nat /\ Owed(Tail(todo)) \in Nat
         /\ \E i \in DOMAIN todo : Top = todo[i]
         /\ \A i \in DOMAIN Tail(todo) : \E k \in DOMAIN todo : Tail(todo)[i] = todo[k]
<1>1. /\ Top \in Jobs /\ Tail(todo) \in Seq(Jobs)
      /\ Len(Tail(todo)) = Len(todo) - 1
      /\ \A i \in 1 .. Len(Tail(todo)) : Tail(todo)[i] = todo[i + 1]
      /\ Top = todo[1]
  BY HeadAndTail
<1>2. Len(todo) \in Nat \ {0} /\ DOMAIN todo = 1 .. Len(todo)
  BY HeadAndTail, LenProperties
<1>3. DOMAIN Tail(todo) = 1 .. Len(todo) - 1
  BY <1>1, LenProperties
<1>4. todo = <<Top>> \o Tail(todo)
  BY HeadAndTail
<1>5. Owed(todo) = Len(Split(Top.rect)) + Owed(Tail(todo))
  <2> DEFINE s == <<Top>>
  <2>1. s \in Seq(Jobs) /\ Owed(s) = Len(Split(Top.rect))
    BY <1>1, OwedSingle
  <2> HIDE DEF s
  <2>2. Owed(s \o Tail(todo)) = Owed(s) + Owed(Tail(todo))
    BY <1>1, <2>1, OwedConcat
  <2> QED
    BY <1>4, <2>1, <2>2 DEF s
<1>6. Top.rect \in Rects
  BY <1>1 DEF Jobs
<1>7. Len(Split(Top.rect)) \in Nat /\ Owed(Tail(todo)) \in Nat
  BY <1>1, <1>6, SplitFits, OwedType, LenProperties
<1>8. \A i \in DOMAIN Tail(todo) : \E k \in DOMAIN todo : Tail(todo)[i] = todo[k]
  <2> TAKE i \in DOMAIN Tail(todo)
  <2>1. i \in 1 .. Len(todo) - 1
    BY <1>3
  <2> WITNESS i + 1 \in DOMAIN todo
  <2> QED
    BY <1>1, <1>2, <2>1
<1>9. \E i \in DOMAIN todo : Top = todo[i]
  <2> WITNESS 1 \in DOMAIN todo
  <2> QED
    BY <1>1
<1> QED
  BY <1>1, <1>5, <1>6, <1>7, <1>8, <1>9

LEMMA JobsTodo ==
  ASSUME TightOk
  PROVE  todo \in Seq(Jobs) /\ pieces \in Seq(OkPieces) /\ Len(pieces) \in Nat
<1>1. OkJobs \subseteq Jobs
  BY DEF OkJobs
<1>2. todo \in Seq(OkJobs) /\ pieces \in Seq(OkPieces)
  BY DEF TightOk
<1> QED
  BY <1>1, <1>2, SeqMonotonic, LenProperties

\* At first all that will be announced is to be sent.
LEMMA CountInitInv == Init => CountInv
<1> SUFFICES ASSUME Init PROVE CountInv
  OBVIOUS
<1>1. IInv /\ MessageKept
  BY InitInv DEF IInv
<1>2. /\ todo = [i \in DOMAIN update |-> Job("update", update[i])]
      /\ pieces = <<>> /\ phase = "announce"
  BY DEF Init, TightStart
<1>3. \A i \in DOMAIN update :
        update[i] \in Rects /\ update[i].w > 0 /\ update[i].h > 0
  BY <1>1, MessageFacts
<1>4. DOMAIN todo = DOMAIN update /\ \A i \in DOMAIN update :
        todo[i].kind = "update" /\ todo[i].rect = update[i]
  <2>1. ASSUME NEW i \in DOMAIN update
        PROVE  todo[i].kind = "update" /\ todo[i].rect = update[i]
    <3>1. todo[i] = Job("update", update[i])
      BY <1>2
    <3> QED
      BY <1>3, <3>1, JobType DEF Kinds
  <2> QED
    BY <1>2, <2>1
<1>5. ASSUME ~LeftOpen, Even
      PROVE  /\ \A i \in DOMAIN todo : Counted(todo[i])
             /\ Len(pieces) + Owed(todo) = NumAll
  <2>1. ASSUME NEW i \in DOMAIN update
        PROVE  /\ ~lastRect \/ update[i].w * update[i].h < MinSplitSize
               /\ NumCoded(i) = Len(Split(update[i]))
    <3> DEFINE r == update[i]
    <3>1. r \in Rects /\ r.w > 0 /\ r.h > 0
      BY <1>3
    <3>2. NumCodedRects(r.w, r.h) # 0
      BY <1>5 DEF LeftOpen, NumCoded
    <3> HIDE DEF r
    <3>3. /\ ~(lastRect /\ r.w * r.h >= MinSplitSize)
          /\ NumCodedRects(r.w, r.h) = Len(Split(r))
      <4>1. NumCodedRects(r.w, r.h) = IF lastRect /\ r.w * r.h >= MinSplitSize
                                      THEN 0 ELSE Len(Split(r))
        BY <3>1, NumCodedIs
      <4> QED
        BY <3>2, <4>1, Zenon
    <3>4. r.w * r.h \in Nat /\ MinSplitSize \in Nat
      <4>1. r.w \in Nat /\ r.h \in Nat
        BY <3>1 DEF Rects
      <4> QED
        BY <4>1, ProductNat, Sizes
    <3>5. ~(r.w * r.h >= MinSplitSize) => r.w * r.h < MinSplitSize
      BY <3>4
    <3> QED
      BY <3>3, <3>5 DEF r, NumCoded
  <2>2. \A i \in DOMAIN todo : Counted(todo[i])
    BY <1>3, <1>4, <1>5, <2>1 DEF Counted, Even
  <2>3. Lengths(todo) = [i \in DOMAIN update |-> NumCoded(i)]
    BY <1>4, <2>1 DEF Lengths
  <2>4. Owed(todo) = NumAll
    BY <2>3 DEF Owed, NumAll
  <2>5. Owed(todo) \in Nat /\ Len(pieces) = 0
    BY <1>1, <1>2, JobsTodo, OwedType DEF IInv
  <2> QED
    BY <2>2, <2>4, <2>5
<1>6. Accounts
  BY <1>5 DEF Accounts
<1>7. Announced /\ Marked
  BY <1>2 DEF Announced, Marked
<1> QED
  BY <1>1, <1>6, <1>7 DEF CountInv

\* Jobs that owe as much take the place of the uppermost one.
LEMMA SameOwed ==
  ASSUME todo \in Seq(Jobs), todo # <<>>, \A i \in DOMAIN todo : Counted(todo[i]),
         NEW jobs \in Seq(Jobs), \A i \in DOMAIN jobs : Counted(jobs[i]),
         Replace(jobs)
  PROVE  /\ \A i \in DOMAIN todo' : Counted(todo'[i])
         /\ Owed(todo') = Owed(jobs) + Owed(Tail(todo))
<1>1. /\ Tail(todo) \in Seq(Jobs)
      /\ \A i \in DOMAIN Tail(todo) : \E k \in DOMAIN todo : Tail(todo)[i] = todo[k]
  BY TopOwes
<1> DEFINE t == Tail(todo)
<1>2. t \in Seq(Jobs) /\ todo' = jobs \o t /\ \A i \in DOMAIN t : Counted(t[i])
  BY <1>1 DEF Replace
<1> HIDE DEF t
<1>3. /\ Len(jobs) \in Nat /\ Len(t) \in Nat
      /\ DOMAIN jobs = 1 .. Len(jobs) /\ DOMAIN t = 1 .. Len(t)
  BY <1>2, LenProperties
<1>4. /\ jobs \o t \in Seq(Jobs) /\ Len(jobs \o t) = Len(jobs) + Len(t)
      /\ \A i \in 1 .. Len(jobs) + Len(t) :
           (jobs \o t)[i] = IF i <= Len(jobs) THEN jobs[i] ELSE t[i - Len(jobs)]
  BY <1>2, ConcatProperties
<1>5. DOMAIN (jobs \o t) = 1 .. Len(jobs) + Len(t)
  BY <1>4, LenProperties
<1>6. ASSUME NEW i \in 1 .. Len(jobs) + Len(t)
      PROVE  Counted((jobs \o t)[i])
  <2>1. CASE i <= Len(jobs)
    <3>1. i \in 1 .. Len(jobs)
      BY <1>3, <2>1
    <3>2. (jobs \o t)[i] = jobs[i]
      BY <1>4, <2>1
    <3> QED
      BY <1>3, <3>1, <3>2
  <2>2. CASE ~(i <= Len(jobs))
    <3>1. i - Len(jobs) \in 1 .. Len(t)
      BY <1>3, <2>2
    <3>2. (jobs \o t)[i] = t[i - Len(jobs)]
      BY <1>4, <2>2
    <3> QED
      BY <1>2, <1>3, <3>1, <3>2
  <2> QED
    BY <2>1, <2>2
<1>7. Owed(jobs \o t) = Owed(jobs) + Owed(t)
  BY <1>2, OwedConcat
<1> QED
  BY <1>2, <1>5, <1>6, <1>7 DEF t

\* A rectangle that is not searched has no band that is.
LEMMA BandsCounted ==
  ASSUME NEW r \in Rects, r.w > 0, r.h > 0,
         ~lastRect \/ r.w * r.h < MinSplitSize
  PROVE  /\ Bands(r) \in Seq(Jobs)
         /\ \A i \in DOMAIN Bands(r) : Counted(Bands(r)[i])
<1> DEFINE n == NumBands(r)
           H == BandHeight(r)
<1>1. n \in Nat \ {0} /\ DOMAIN Bands(r) = 1 .. n
      /\ Bands(r) = [i \in 1 .. n |-> Bands(r)[i]]
  BY NumBandsFacts DEF Bands
<1>2. H \in Nat /\ H * (n - 1) \in Nat /\ r.h - H * (n - 1) \in Nat \ {0}
  BY BandsHaveRows
<1>3. r.w \in Nat \ {0} /\ r.h \in Nat \ {0}
  BY DEF Rects
<1>4. ASSUME NEW i \in 1 .. n
      PROVE  Bands(r)[i] \in Jobs /\ Counted(Bands(r)[i])
  <2> DEFINE b == Bands(r)[i]
  <2>1. /\ b.rect \in Rects /\ b = Job("encode", b.rect) /\ b.rect.w = r.w
        /\ b.rect.h = IF i = n THEN r.h - H * (n - 1) ELSE H
    BY BandFacts
  <2> HIDE DEF b, n, H
  <2>2. b \in Jobs /\ b.kind = "encode"
    BY <2>1, JobType DEF Kinds
  <2>3. b.rect.h \in Nat /\ b.rect.h <= r.h
    <3>1. CASE i = n
      BY <1>2, <1>3, <2>1, <3>1
    <3>2. CASE i # n
      <4>1. 1 <= n - 1 /\ n - 1 \in Int
        BY <1>1, <3>2
      <4>2. H * 1 <= H * (n - 1)
        BY <1>2, <4>1, ProductMono
      <4> QED
        BY <1>2, <1>3, <2>1, <3>2, <4>2
    <3> QED
      BY <3>1, <3>2
  <2>4. ~lastRect \/ b.rect.w * b.rect.h < MinSplitSize
    <3>1. r.w * b.rect.h <= r.w * r.h /\ r.w * b.rect.h \in Int /\ r.w * r.h \in Int
      BY <1>3, <2>3, ProductMono
    <3>2. r.w * r.h < MinSplitSize => r.w * b.rect.h < MinSplitSize
      BY <3>1, Sizes
    <3> QED
      BY <2>1, <3>2
  <2>5. Counted(b)
    BY <2>2, <2>4 DEF Counted
  <2> QED
    BY <2>2, <2>5 DEF b
<1> DEFINE s == Bands(r)
<1>5. s = [i \in 1 .. n |-> s[i]] /\ \A i \in 1 .. n : s[i] \in Jobs
  BY <1>1, <1>4
<1>6. s \in Seq(Jobs)
  <2> HIDE DEF s, n
  <2>1. s \in [1 .. n -> Jobs]
    BY <1>5
  <2> QED
    BY <1>1, <2>1
<1> QED
  BY <1>1, <1>4, <1>6

\* Every action of the encoder sends what it takes off the account.
LEMMA AccountsKept ==
  ASSUME TightOk, Accounts, TightNext, UNCHANGED update
  PROVE  Accounts'
<1>1. lastRect' = lastRect /\ update' = update
  BY DEF TightNext, EncodeBands, EncodeRect, SendSimple, SendSolid,
         SendUpperPart, SearchRow
<1>2. LeftOpen' = LeftOpen /\ Even' = Even /\ NumAll' = NumAll
      /\ \A j : Counted(j)' = Counted(j)
  BY <1>1 DEF LeftOpen, Even, CutUnevenly, NumAll, NumCoded, NumCodedRects, Counted
<1> SUFFICES ASSUME ~LeftOpen, Even
             PROVE  /\ \A i \in DOMAIN todo' : Counted(todo'[i])
                    /\ Len(pieces') + Owed(todo') = NumAll
  BY <1>2 DEF Accounts, Owed, Lengths
<1>3. /\ \A i \in DOMAIN todo : Counted(todo[i])
      /\ Len(pieces) + Owed(todo) = NumAll
  BY DEF Accounts
<1>4. todo \in Seq(Jobs) /\ pieces \in Seq(OkPieces) /\ Len(pieces) \in Nat
  BY JobsTodo
<1>5. todo # <<>>
  BY DEF TightNext, EncodeBands, EncodeRect, SendSimple, SendSolid,
         SendUpperPart, SearchRow, Searching
<1> DEFINE r == Top.rect
<1>6. /\ Top \in Jobs /\ r \in Rects /\ Tail(todo) \in Seq(Jobs)
      /\ Owed(todo) = Len(Split(r)) + Owed(Tail(todo))
      /\ Len(Split(r)) \in Nat /\ Owed(Tail(todo)) \in Nat
      /\ Counted(Top)
  BY <1>3, <1>4, <1>5, TopOwes
<1>7. /\ Top.kind \in {"update", "encode", "simple"}
      /\ ~lastRect \/ r.w * r.h < MinSplitSize
      /\ Top.kind = "update" => r.w > 0 /\ r.h > 0 /\ ~CutUnevenly(r)
  BY <1>6 DEF Counted
<1>8. ASSUME NEW jobs \in Seq(Jobs), \A i \in DOMAIN jobs : Counted(jobs[i]),
             Replace(jobs), pieces' = pieces, Owed(jobs) = Len(Split(r))
      PROVE  /\ \A i \in DOMAIN todo' : Counted(todo'[i])
             /\ Len(pieces') + Owed(todo') = NumAll
  BY <1>3, <1>4, <1>5, <1>6, <1>8, SameOwed
<1>9. CASE EncodeBands
  <2>1. Top.kind = "update" /\ Replace(Bands(r)) /\ pieces' = pieces
    BY <1>9 DEF EncodeBands
  <2> HIDE DEF r
  <2>2. Bands(r) \in Seq(Jobs) /\ \A i \in DOMAIN Bands(r) : Counted(Bands(r)[i])
    BY <1>6, <1>7, <2>1, BandsCounted
  <2>3. Owed(Bands(r)) = Len(Split(r))
    BY <1>6, <1>7, <2>1, BandsLength
  <2> QED
    BY <1>8, <2>1, <2>2, <2>3
<1>10. CASE EncodeRect
  <2> DEFINE j == Job("simple", r)
             s == <<j>>
  <2>1. Replace(s) /\ pieces' = pieces
    BY <1>7, <1>10 DEF EncodeRect
  <2>2. j \in Jobs /\ j.kind = "simple" /\ j.rect = r
    <3> HIDE DEF r
    <3> QED
      BY <1>6, JobType DEF Kinds
  <2> HIDE DEF j
  <2>3. s \in Seq(Jobs) /\ Owed(s) = Len(Split(r))
    BY <2>2, OwedSingle
  <2>4. \A i \in DOMAIN s : Counted(s[i])
    BY <1>7, <2>2 DEF Counted
  <2> HIDE DEF s
  <2> QED
    BY <1>8, <2>1, <2>3, <2>4
<1>11. CASE SendSimple
  <2> DEFINE e == <<>>
             t == Unmarked(Split(r))
  <2>1. Replace(e) /\ pieces' = pieces \o t
    BY <1>11 DEF SendSimple, Unmarked
  <2>2. e \in Seq(Jobs) /\ \A i \in DOMAIN e : Counted(e[i])
    OBVIOUS
  <2>3. Owed(e) = 0
    BY OwedEmpty
  <2>4. t \in Seq(SentPieces) /\ Len(t) = Len(Split(r))
    <3> HIDE DEF r
    <3>1. <<0, 0>> \in Points
      BY DEF Points
    <3>2. t \in Seq(SentPieces)
      BY <1>6, <3>1, SplitCovers
    <3>3. DOMAIN t = DOMAIN Split(r)
      BY DEF Unmarked
    <3>4. Split(r) \in Seq(Rects)
      BY <1>6, SplitFits
    <3> HIDE DEF t
    <3> QED
      BY <3>2, <3>3, <3>4, LenProperties
  <2> HIDE DEF e, t
  <2>5. \A i \in DOMAIN todo' : Counted(todo'[i])
    BY <1>3, <1>4, <1>5, <2>1, <2>2, SameOwed
  <2>6. Owed(todo') = Owed(e) + Owed(Tail(todo))
    BY <1>3, <1>4, <1>5, <2>1, <2>2, SameOwed
  <2>7. pieces \in Seq(SentPieces)
    <3>1. OkPieces \subseteq SentPieces
      BY DEF OkPieces
    <3> QED
      BY <1>4, <3>1, SeqMonotonic
  <2>8. Len(pieces') = Len(pieces) + Len(t)
    BY <2>1, <2>4, <2>7, ConcatProperties
  <2>9. Len(pieces') = Len(pieces) + Len(Split(r))
    BY <2>4, <2>8
  <2>10. Owed(todo') = Owed(Tail(todo))
    BY <1>6, <2>3, <2>6
  <2>11. Len(pieces') + Owed(todo') = Len(pieces) + Owed(todo)
    BY <1>4, <1>6, <2>9, <2>10
  <2> QED
    BY <1>3, <2>5, <2>11
<1>12. CASE SendSolid \/ SendUpperPart \/ SearchRow
  BY <1>7, <1>12 DEF SendSolid, SendUpperPart, SearchRow, Searching
<1> QED
  BY <1>9, <1>10, <1>11, <1>12 DEF TightNext

\* A message says the same of itself until it has been sent.
LEMMA Unchanged ==
  ASSUME [Next]_messageVars
  PROVE  /\ update' = update /\ lastRect' = lastRect /\ reg' = reg
         /\ LeftOpen' = LeftOpen /\ NumAll' = NumAll /\ Even' = Even
<1>1. CASE UNCHANGED tightVars
  BY <1>1 DEF tightVars, Next, Announce, SendCopies, SendRects, Finish,
     messageVars, vars, args, CopyNext, StartBand, ScanBand, EndScan,
     SendCopyRect, EndBand, FinishCopies, LeftOpen, NumAll, Even, NumCoded,
     NumCodedRects, CutUnevenly
<1>2. CASE SendRects
  <2>1. update' = update /\ lastRect' = lastRect /\ reg' = reg
    BY <1>2 DEF SendRects, TightNext, EncodeBands, EncodeRect, SendSimple,
       SendSolid, SendUpperPart, SearchRow, vars, args
  <2> QED
    BY <2>1 DEF LeftOpen, NumAll, Even, NumCoded, NumCodedRects, CutUnevenly
<1> QED
  BY <1>1, <1>2 DEF Next, Announce, SendCopies, Finish, messageVars

LEMMA AccountsUntouched ==
  ASSUME Accounts, [Next]_messageVars, UNCHANGED tightVars
  PROVE  Accounts'
<1>1. todo' = todo /\ pieces' = pieces
  BY DEF tightVars
<1>2. LeftOpen' = LeftOpen /\ NumAll' = NumAll /\ Even' = Even /\ lastRect' = lastRect
  BY Unchanged
<1> QED
  BY <1>1, <1>2 DEF Accounts, Counted, CutUnevenly, Owed, Lengths

\* The numbers agree in every step.
LEMMA CountNextInv == CountInv /\ [Next]_messageVars => CountInv'
<1> SUFFICES ASSUME CountInv, [Next]_messageVars PROVE CountInv'
  OBVIOUS
<1>1. IInv /\ Accounts /\ Announced /\ Marked /\ TightOk
  BY DEF CountInv, IInv
<1>2. IInv'
  BY <1>1, NextInv
<1>3. /\ update' = update /\ reg' = reg
      /\ LeftOpen' = LeftOpen /\ NumAll' = NumAll
  BY Unchanged
<1>4. CASE Announce
  <2>1. /\ UNCHANGED tightVars /\ phase' = "copies"
        /\ nUpdateRegionRects' = IF LeftOpen THEN OpenNumber ELSE NumAll
        /\ announced' = IF nUpdateRegionRects' = OpenNumber THEN OpenNumber
                        ELSE (Len(reg) + nUpdateRegionRects') % CARD16
    BY <1>4 DEF Announce, NumAll
  <2>2. Accounts'
    BY <1>1, <2>1, AccountsUntouched
  <2>3. Announced' /\ Marked'
    BY <1>3, <2>1 DEF Announced, Marked, OpenNumber, CARD16
  <2> QED
    BY <1>2, <2>2, <2>3 DEF CountInv
<1>5. CASE SendRects
  <2>1. /\ TightNext /\ phase' = phase /\ phase = "rects"
        /\ nUpdateRegionRects' = nUpdateRegionRects /\ announced' = announced
    BY <1>5 DEF SendRects
  <2>2. Accounts'
    BY <1>1, <1>3, <2>1, AccountsKept
  <2>3. Announced' /\ Marked'
    BY <1>1, <1>3, <2>1 DEF Announced, Marked, OpenNumber, CARD16
  <2> QED
    BY <1>2, <2>2, <2>3 DEF CountInv
<1>6. CASE Finish
  <2>1. /\ UNCHANGED tightVars /\ phase' = "done" /\ phase = "rects"
        /\ marked' = (nUpdateRegionRects = OpenNumber)
        /\ nUpdateRegionRects' = nUpdateRegionRects /\ announced' = announced
    BY <1>6 DEF Finish
  <2>2. Accounts'
    BY <1>1, <2>1, AccountsUntouched
  <2>3. Announced' /\ Marked'
    BY <1>1, <1>3, <2>1 DEF Announced, Marked, OpenNumber, CARD16
  <2> QED
    BY <1>2, <2>2, <2>3 DEF CountInv
<1>7. CASE SendCopies
  <2>1. /\ UNCHANGED tightVars /\ phase' # "done" /\ phase = "copies"
        /\ nUpdateRegionRects' = nUpdateRegionRects /\ announced' = announced
    BY <1>7 DEF SendCopies
  <2>2. Accounts'
    BY <1>1, <2>1, AccountsUntouched
  <2>3. Announced' /\ Marked'
    BY <1>1, <1>3, <2>1 DEF Announced, Marked, OpenNumber, CARD16
  <2> QED
    BY <1>2, <2>2, <2>3 DEF CountInv
<1>8. CASE UNCHANGED messageVars
  <2>1. /\ UNCHANGED tightVars /\ phase' = phase /\ marked' = marked
        /\ nUpdateRegionRects' = nUpdateRegionRects /\ announced' = announced
    BY <1>8 DEF messageVars
  <2>2. Accounts'
    BY <1>1, <2>1, AccountsUntouched
  <2>3. Announced' /\ Marked'
    BY <1>1, <1>3, <2>1 DEF Announced, Marked, OpenNumber, CARD16
  <2> QED
    BY <1>2, <2>2, <2>3 DEF CountInv
<1> QED
  BY <1>4, <1>5, <1>6, <1>7, <1>8 DEF Next

LEMMA AllAreNumbers == ASSUME MessageKept PROVE NumAll \in Nat
<1> DEFINE s == [i \in DOMAIN update |-> NumCoded(i)]
<1>1. update \in Seq(Rects) /\ Len(update) \in Nat /\ DOMAIN update = 1 .. Len(update)
  BY MessageFacts, LenProperties
<1>2. ASSUME NEW i \in DOMAIN update PROVE NumCoded(i) \in Nat
  <2> DEFINE r == update[i]
  <2>1. r \in Rects /\ r.w > 0 /\ r.h > 0
    BY MessageFacts
  <2>2. NumCodedRects(r.w, r.h) \in {0, Len(Split(r))} /\ Len(Split(r)) \in Nat
    <3> HIDE DEF r
    <3> QED
      BY <2>1, NumCodedIs
  <2> QED
    BY <2>2 DEF NumCoded
<1>3. s = [i \in 1 .. Len(update) |-> s[i]] /\ \A i \in 1 .. Len(update) : s[i] \in Nat
  BY <1>1, <1>2
<1> HIDE DEF s
<1>4. s \in [1 .. Len(update) -> Nat]
  BY <1>3
<1>5. s \in Seq(Nat)
  BY <1>1, <1>4
<1> QED
  BY <1>5, SumType DEF NumAll, s

\* When all is sent the numbers are those of the header.
LEMMA CountsOfDone == CountInv => AnnouncedIsSent
<1> SUFFICES ASSUME CountInv, phase = "done"
             PROVE  IF LeftOpen THEN announced = OpenNumber /\ lastRect /\ marked
                    ELSE \/ \E i \in DOMAIN update : CutUnevenly(update[i])
                         \/ Len(reg) + nUpdateRegionRects >= OpenNumber
                         \/ announced = Cardinality(copied) + Len(pieces) /\ ~marked
  BY DEF AnnouncedIsSent
<1>1. IInv /\ Accounts /\ TightOk /\ MessageKept
  BY DEF CountInv, IInv
<1>2. /\ nUpdateRegionRects = IF LeftOpen THEN OpenNumber ELSE NumAll
      /\ announced = IF nUpdateRegionRects = OpenNumber THEN OpenNumber
                     ELSE (Len(reg) + nUpdateRegionRects) % CARD16
      /\ marked = (nUpdateRegionRects = OpenNumber)
  BY DEF CountInv, Announced, Marked
<1>3. CASE LeftOpen
  <2>1. lastRect
    <3>1. PICK i \in DOMAIN update : NumCoded(i) = 0
      BY <1>3 DEF LeftOpen
    <3> DEFINE r == update[i]
    <3>2. r \in Rects /\ r.w > 0 /\ r.h > 0
      BY <1>1, MessageFacts
    <3>3. NumCodedRects(r.w, r.h) = 0
      BY <3>1 DEF NumCoded
    <3> HIDE DEF r
    <3>4. /\ NumCodedRects(r.w, r.h) = IF lastRect /\ r.w * r.h >= MinSplitSize
                                       THEN 0 ELSE Len(Split(r))
          /\ Len(Split(r)) # 0
      BY <3>2, NumCodedIs
    <3> QED
      BY <3>3, <3>4, Zenon
  <2> QED
    BY <1>2, <1>3, <2>1
<1>4. CASE ~LeftOpen
  <2> SUFFICES ASSUME Even, ~(Len(reg) + nUpdateRegionRects >= OpenNumber)
               PROVE  announced = Cardinality(copied) + Len(pieces) /\ ~marked
    BY <1>4 DEF Even
  <2>1. Len(pieces) = NumAll
    <3>1. Len(pieces) + Owed(todo) = NumAll
      BY <1>1, <1>4 DEF Accounts
    <3>2. todo = <<>>
      BY <1>1 DEF IInv, Phases
    <3>3. Len(pieces) \in Nat
      BY <1>1, JobsTodo
    <3> QED
      BY <3>1, <3>2, <3>3, OwedEmpty
  <2>2. Cardinality(copied) = Len(reg) /\ Len(reg) \in Nat
    <3>1. copied = 1 .. Len(reg) /\ Len(reg) \in Nat
      BY <1>1, ArgsFacts DEF IInv, Phases, CopyInv, AtDone, NumRects
    <3>2. Cardinality(1 .. Len(reg)) = Len(reg)
      <4> DEFINE n == Len(reg)
      <4>1. n \in Nat
        BY <3>1
      <4> HIDE DEF n
      <4>2. Cardinality(1 .. n) = IF 1 > n THEN 0 ELSE n - 1 + 1
        BY <4>1, FS_Interval
      <4>3. Cardinality(1 .. n) = n
        BY <4>1, <4>2
      <4> QED
        BY <4>3 DEF n
    <3> QED
      BY <3>1, <3>2
  <2>3. nUpdateRegionRects = NumAll /\ NumAll \in Nat
    BY <1>1, <1>2, <1>4, AllAreNumbers
  <2>4. Len(reg) + NumAll \in Nat /\ Len(reg) + NumAll < 65535 /\ NumAll # 65535
    BY <2>2, <2>3 DEF OpenNumber, CARD16
  <2>5. (Len(reg) + nUpdateRegionRects) % CARD16 = Len(reg) + NumAll
    <3> DEFINE n == Len(reg) + nUpdateRegionRects
    <3>1. n \in Nat /\ n < 65535 /\ n = Len(reg) + NumAll
      BY <2>3, <2>4
    <3> HIDE DEF n
    <3>2. n % CARD16 = n
      BY <3>1 DEF CARD16
    <3> QED
      BY <3>1, <3>2 DEF n
  <2>6. OpenNumber = 65535
    BY DEF OpenNumber, CARD16
  <2>7. nUpdateRegionRects # OpenNumber
    BY <2>3, <2>4, <2>6
  <2>8. announced = Cardinality(copied) + Len(pieces)
    <3>1. announced = (Len(reg) + nUpdateRegionRects) % CARD16
      BY <1>2, <2>7, Zenon
    <3> QED
      BY <2>1, <2>2, <2>5, <3>1
  <2>9. ~marked
    BY <1>2, <2>7, Zenon
  <2> QED
    BY <2>8, <2>9
<1> QED
  BY <1>3, <1>4

\* The header of a message announces as many rectangles as follow, or leaves
\* their number open, and a LastRect marker ends those and no others; but for
\* the exceptions named in AnnouncedIsSent.  This holds for every update,
\* framebuffer, number of threads and size of a piece
\* (rfbSendFramebufferUpdate, rfbNumCodedRectsTight).
THEOREM AnnouncedIsSentAlways == Spec => []AnnouncedIsSent
  BY CountInitInv, CountNextInv, CountsOfDone, PTL DEF Spec
=============================================================================
