-------------------------- MODULE MCUpdateMessage --------------------------
(* Small instances of UpdateMessage: the copies range over all regions of a   *)
(* corner of the screen, the framebuffers over all places of an area of one   *)
(* colour, with and without a second one of that colour, or of a colour that  *)
(* is not its own shade of gray.                                              *)
EXTENDS UpdateMessage, SequencesExt

CONSTANT Grids  \* widths and heights

\* The region code's decomposition of a set of pixels: bands as high as can be,
\* of rectangles as wide as can be.
RowOf(s, y) == {p[1] : p \in {q \in s : q[2] = y}}

Starts(xs) == {x \in xs : x - 1 \notin xs}

EndOf(xs, x) == Min({z \in x + 1 .. Width : z \notin xs})

FirstRow(s, y) == RowOf(s, y) # {} /\ RowOf(s, y) # RowOf(s, y - 1)

EndRow(s, y) == Min({z \in y + 1 .. Height : RowOf(s, z) # RowOf(s, y)})

Region(s) ==
  LET boxes == UNION {{[x1 |-> x, y1 |-> y,
                        x2 |-> EndOf(RowOf(s, y), x), y2 |-> EndRow(s, y)] :
                         x \in Starts(RowOf(s, y))} :
                        y \in {z \in 0 .. Height - 1 : FirstRow(s, z)}}
  IN  SetToSortSeq(boxes, LAMBDA a, b : \/ a.y1 < b.y1
                                        \/ a.y1 = b.y1 /\ a.x1 < b.x1)

Before == [p \in Pixels |-> -1 - p[1] - Width * p[2]]

Call(s, d) ==
  [reg |-> Region(s), dx |-> d[1], dy |-> d[2], before |-> Before]

\* All regions within a corner whose source is in it, too.
DestGrid(c, d) ==
  {p \in (0 .. c[1] - 1) \X (0 .. c[2] - 1) :
     p[1] - d[1] \in 0 .. c[1] - 1 /\ p[2] - d[2] \in 0 .. c[2] - 1}

Displacements(c) == (1 - c[1] .. c[1] - 1) \X (1 - c[2] .. c[2] - 1)

AllCopies ==
  UNION {UNION {{Call(s, d) : s \in SUBSET DestGrid(c, d)} :
                  d \in Displacements(c) \ {<<0, 0>>}} : c \in Grids}

\* Every pixel its own colour, but for areas of one colour.
Image(areas) ==
  [p \in Pixels |-> IF \E a \in areas : Covers(a, p) THEN -1
                    ELSE p[1] + Width * p[2]]

\* An area beside one of another colour.
Beside(other, area) ==
  [p \in Pixels |-> IF Covers(other, p) /\ ~Covers(area, p) THEN -2
                    ELSE Image({area})[p]]

\* All colours but one are their own shade.
MCSought == [c \in -2 .. Width * Height - 1 |-> IF c = -2 THEN -3 ELSE c]

Areas == {r \in [x : 0 .. Width - 1, y : 0 .. Height - 1,
                 w : 2 .. Width, h : 2 .. Height] :
            r.x + r.w <= Width /\ r.y + r.h <= Height}

Second == Rect(Width - 4, 1, 4, 3)

Images == {Image({a}) : a \in Areas} \cup {Image({Second, a}) : a \in Areas}
            \cup {Beside(Second, a) : a \in Areas}

Whole == <<Rect(0, 0, Width, Height)>>
Odd == <<Rect(1, 0, Width - 1, 3), Rect(0, 3, Width, Height - 3)>>

\* Two bands of a piece's height: the number announced is the right one.
Even == <<Rect(0, 1, Width, 6)>>

NoCopy == Call({}, <<0, 0>>)

MCCopies == AllCopies \cup {NoCopy}

TwoGrids == {<<5, 2>>, <<4, 3>>}

MCMessages ==
  [copy : AllCopies, update : {<<Rect(1, 1, 2, 2)>>}, image : {Image({})}]
    \cup [copy : {NoCopy}, update : {Whole, Odd}, image : Images]
    \cup [copy : {NoCopy}, update : {Even}, image : {Image({}), Image({Second})}]
=============================================================================
