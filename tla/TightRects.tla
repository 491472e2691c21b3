----------------------------- MODULE TightRects -----------------------------
(***************************************************************************)
(* How the Tight encoder cuts one rectangle of an update into those it     *)
(* sends (tight.c): bands, one per encoding thread; large areas of one     *)
(* colour, which are sent as such; and pieces of bounded size for the      *)
(* rest.  The number of the pieces is announced beforehand                 *)
(* (rfbNumCodedRectsTight), unless the viewer accepts a LastRect marker.   *)
(*                                                                         *)
(* The encoding of the bands by several threads has the result of encoding *)
(* them in turn (module TightThreads), which is what is done here.  A call *)
(* of the recursive SendRectEncodingTight is a job on a stack.             *)
(***************************************************************************)
EXTENDS Integers, Sequences, FiniteSetsExt

CONSTANTS
  NumThreads,     \* rfbNumThreads
  MaxRectSize,    \* tightConf[].maxRectSize, the same in all its rows
  MaxRectWidth,   \* tightConf[].maxRectWidth, likewise
  MinSplitSize,   \* MIN_SPLIT_RECT_SIZE
  MinSolidSize,   \* MIN_SOLID_SUBRECT_SIZE
  TileSize,       \* MAX_SPLIT_TILE_SIZE
  Sought          \* the colour to look for where a tile of one was found: that
                  \* colour, or its shade of gray for a viewer of grays

ASSUME TightAssumption ==
  /\ {NumThreads, MaxRectWidth, MinSplitSize, MinSolidSize, TileSize}
       \subseteq Nat \ {0}
  /\ MaxRectSize \in Nat /\ MaxRectSize >= MaxRectWidth * TileSize

VARIABLES
  lastRect,  \* cl->enableLastRectEncoding
  image,     \* the framebuffer, a function from pixels to colours
  todo,      \* the stack of jobs
  pieces     \* the rectangles sent, in order

tightVars == <<lastRect, image, todo, pieces>>

Rects == [x: Int, y: Int, w: Nat, h: Nat]

Rect(x, y, w, h) == [x |-> x, y |-> y, w |-> w, h |-> h]

Covers(r, p) == /\ r.x <= p[1] /\ p[1] < r.x + r.w
                /\ r.y <= p[2] /\ p[2] < r.y + r.h

Least(a, b) == IF a <= b THEN a ELSE b

\* A job is a rectangle of the update ("update"), or a part of it to encode, to
\* send in pieces, to send as one colour, or to search for such an area from
\* row dy on.
Job(kind, r) == [kind |-> kind, rect |-> r, dy |-> r.y, rows |-> 0]

\* A job that is done on a condition.
When(condition, job) == IF condition THEN <<job>> ELSE <<>>

-----------------------------------------------------------------------------
(***************************************************************************)
(* Pieces of bounded size.                                                 *)
(***************************************************************************)

TooLarge(w, h) == w > MaxRectWidth \/ w * h > MaxRectSize

SubrectMaxWidth(w) == Least(w, MaxRectWidth)

SubrectMaxHeight(w) == MaxRectSize \div SubrectMaxWidth(w)

\* rfbNumCodedRectsTight; 0 leaves the number open.
NumCodedRects(w, h) ==
  IF lastRect /\ w * h >= MinSplitSize THEN 0
  ELSE IF TooLarge(w, h)
  THEN ((w - 1) \div MaxRectWidth + 1) * ((h - 1) \div SubrectMaxHeight(w) + 1)
  ELSE 1

\* Mutant: the height of a piece does not depend on its width.
SplitTooHigh(r) ==
  LET cols == (r.w - 1) \div MaxRectWidth + 1
      rows == (r.h - 1) \div MaxRectWidth + 1
  IN  [k \in 1 .. cols * rows |->
         LET dx == ((k - 1) % cols) * MaxRectWidth
             dy == ((k - 1) \div cols) * MaxRectWidth
         IN  Rect(r.x + dx, r.y + dy,
                  Least(MaxRectWidth, r.w - dx), Least(MaxRectWidth, r.h - dy))]

\* SendRectSimple: the pieces from left to right, then from top to bottom.
Split(r) ==
  LET high == SubrectMaxHeight(r.w)
      cols == (r.w - 1) \div MaxRectWidth + 1
      rows == (r.h - 1) \div high + 1
  IN  IF ~TooLarge(r.w, r.h) THEN <<r>>
      ELSE [k \in 1 .. cols * rows |->
              LET dx == ((k - 1) % cols) * MaxRectWidth
                  dy == ((k - 1) \div cols) * high
              IN  Rect(r.x + dx, r.y + dy,
                       Least(MaxRectWidth, r.w - dx), Least(high, r.h - dy))]

-----------------------------------------------------------------------------
(***************************************************************************)
(* Areas of one colour.                                                    *)
(***************************************************************************)

PixelsOf(r) == (r.x .. r.x + r.w - 1) \X (r.y .. r.y + r.h - 1)

\* CheckSolidTile.
IsSolid(r, colour) == \A p \in PixelsOf(r) : image[p] = colour

\* The multiples of the tile size in 0 .. n - 1, in order.
NumTiles(n) == (n + TileSize - 1) \div TileSize

\* FindBestSolidArea walks down the rows of tiles.
RowHeight(r, k) == Least(TileSize, r.h - k * TileSize)

\* The part of the k-th row, up to max, that is of the colour: whole tiles, but
\* for the last one before max.
Run(r, colour, k, max) ==
  Max({0} \cup {w \in {max} \cup {i * TileSize : i \in 1 .. max \div TileSize} :
                  IsSolid(Rect(r.x, r.y + k * TileSize, w, RowHeight(r, k)), colour)})

\* Each row is as wide as the one above or narrower.
Widths(r, colour) ==
  LET width[k \in 0 .. NumTiles(r.h) - 1] ==
        Run(r, colour, k, IF k = 0 THEN r.w ELSE width[k - 1])
  IN  width

\* The largest area of whole tiles that starts at the upper left corner.
BestSolidArea(r, colour) ==
  LET width == Widths(r, colour)
      Area(k) == width[k] * (k * TileSize + RowHeight(r, k))
      best == CHOOSE k \in DOMAIN width :
                /\ \A j \in DOMAIN width : Area(j) <= Area(k)
                /\ \A j \in DOMAIN width : j < k => Area(j) < Area(k)
  IN  Rect(r.x, r.y, width[best], best * TileSize + RowHeight(r, best))

\* Mutant: columns are added to the sides as long as they match the height that
\* the area had before rows were added.
ExtendOldHeight(area, r, colour) ==
  LET Rows(a, b) == Rect(area.x, a, area.w, b - a)
      top == Min({y \in r.y .. area.y : IsSolid(Rows(y, area.y), colour)})
      bottom == Max({y \in area.y + area.h .. r.y + r.h :
                       IsSolid(Rows(area.y + area.h, y), colour)})
      Cols(a, b) == Rect(a, area.y, b - a, area.h)
      left == Min({x \in r.x .. area.x : IsSolid(Cols(x, area.x), colour)})
      right == Max({x \in area.x + area.w .. r.x + r.w :
                      IsSolid(Cols(area.x + area.w, x), colour)})
  IN  Rect(left, top, right - left, bottom - top)

\* ExtendSolidArea: by rows up and down, then by columns to both sides.
Extend(area, r, colour) ==
  LET Rows(a, b) == Rect(area.x, a, area.w, b - a)
      top == Min({y \in r.y .. area.y : IsSolid(Rows(y, area.y), colour)})
      bottom == Max({y \in area.y + area.h .. r.y + r.h :
                       IsSolid(Rows(area.y + area.h, y), colour)})
      Cols(a, b) == Rect(a, top, b - a, bottom - top)
      left == Min({x \in r.x .. area.x : IsSolid(Cols(x, area.x), colour)})
      right == Max({x \in area.x + area.w .. r.x + r.w :
                      IsSolid(Cols(area.x + area.w, x), colour)})
  IN  Rect(left, top, right - left, bottom - top)

\* The corner of the i-th tile of the row at dy.
TileAt(r, dy, i) ==
  LET dx == r.x + i * TileSize
  IN  Rect(dx, dy, Least(TileSize, r.x + r.w - dx),
           Least(TileSize, r.y + r.h - dy))

ColourSought(tile) == Sought[image[<<tile.x, tile.y>>]]

\* The largest solid area of r to the right and below of a tile.  It is empty
\* for a viewer of grays, but where a colour is its own shade: what is compared
\* with the shade is the framebuffer.
AreaFrom(r, tile) ==
  BestSolidArea(Rect(tile.x, tile.y, r.x + r.w - tile.x, r.y + r.h - tile.y),
                ColourSought(tile))

\* A tile is worth it when the area is the whole rectangle or large enough.
WorthIt(r, tile) ==
  /\ IsSolid(tile, image[<<tile.x, tile.y>>])
  /\ LET area == AreaFrom(r, tile)
     IN  area.w * area.h = r.w * r.h \/ area.w * area.h >= MinSolidSize

\* Mutant: what is right of the area is taken to be as high as the rectangle.
AroundOverlapping(r, area) ==
  LET right == area.x + area.w
      bottom == area.y + area.h
  IN  When(area.y # r.y, Job("simple", Rect(r.x, r.y, r.w, area.y - r.y)))
        \o When(area.x # r.x,
                Job("encode", Rect(r.x, area.y, area.x - r.x, area.h)))
        \o <<Job("solid", area)>>
        \o When(right # r.x + r.w,
                Job("encode", Rect(right, area.y, r.x + r.w - right, r.y + r.h - area.y)))
        \o When(bottom # r.y + r.h,
                Job("encode", Rect(r.x, bottom, r.w, r.y + r.h - bottom)))

\* The area itself and what is above, left, right and below of it.
Around(r, area) ==
  LET right == area.x + area.w
      bottom == area.y + area.h
  IN  When(area.y # r.y, Job("simple", Rect(r.x, r.y, r.w, area.y - r.y)))
        \o When(area.x # r.x,
                Job("encode", Rect(r.x, area.y, area.x - r.x, area.h)))
        \o <<Job("solid", area)>>
        \o When(right # r.x + r.w,
                Job("encode", Rect(right, area.y, r.x + r.w - right, area.h)))
        \o When(bottom # r.y + r.h,
                Job("encode", Rect(r.x, bottom, r.w, r.y + r.h - bottom)))

-----------------------------------------------------------------------------
(***************************************************************************)
(* The encoder.                                                            *)
(***************************************************************************)

\* rfbSendRectEncodingTight gives each thread a band of the rectangle.
NumBands(r) == Max({1, Least(NumThreads, (r.w * r.h) \div MaxRectSize)})

\* Mutant: the last band is as high as the others.
BandsEqual(r) ==
  LET high == r.h \div NumBands(r)
  IN  [i \in 1 .. NumBands(r) |->
         Job("encode", Rect(r.x, r.y + high * (i - 1), r.w, high))]

\* The last band takes what the others leave.
Bands(r) ==
  LET nt == NumBands(r)
      high == r.h \div nt
  IN  [i \in 1 .. nt |->
         Job("encode", Rect(r.x, r.y + high * (i - 1), r.w,
                            IF i = nt THEN r.h - high * (i - 1) ELSE high))]

Top == Head(todo)

Replace(jobs) == todo' = jobs \o Tail(todo)

\* The rectangles of the update, from a framebuffer that shows img.
TightStart(update, img) ==
  /\ lastRect \in BOOLEAN
  /\ image = img
  /\ todo = [i \in DOMAIN update |-> Job("update", update[i])]
  /\ pieces = <<>>

EncodeBands ==
  /\ todo # <<>> /\ Top.kind = "update"
  /\ Replace(Bands(Top.rect))
  /\ UNCHANGED <<lastRect, image, pieces>>

\* SendRectEncodingTight: small rectangles are not searched.
EncodeRect ==
  /\ todo # <<>> /\ Top.kind = "encode"
  /\ LET r == Top.rect
     IN  Replace(<<IF ~lastRect \/ r.w * r.h < MinSplitSize
                   THEN Job("simple", r)
                   ELSE [Job("search", r) EXCEPT !.rows =
                           MaxRectSize \div SubrectMaxWidth(r.w)]>>)
  /\ UNCHANGED <<lastRect, image, pieces>>

SendSimple ==
  /\ todo # <<>> /\ Top.kind = "simple"
  /\ pieces' = pieces \o [k \in DOMAIN Split(Top.rect) |->
                            [solid |-> FALSE, rect |-> Split(Top.rect)[k]]]
  /\ Replace(<<>>)
  /\ UNCHANGED <<lastRect, image>>

\* The colour is that of the first pixel of the area.
SendSolid ==
  /\ todo # <<>> /\ Top.kind = "solid"
  /\ pieces' = Append(pieces, [solid |-> TRUE, rect |-> Top.rect])
  /\ Replace(<<>>)
  /\ UNCHANGED <<lastRect, image>>

Searching == todo # <<>> /\ Top.kind = "search"

\* The search ends when no row is left; it has gone too far when more rows lie
\* above it than fit in one piece.
TooManyRows ==
  /\ Top.dy < Top.rect.y + Top.rect.h
  /\ Top.dy - Top.rect.y >= Top.rows

\* The rows searched in vain are sent when there are too many.
SendUpperPart ==
  /\ Searching /\ TooManyRows
  /\ Replace(<<Job("simple", [Top.rect EXCEPT !.h = Top.rows]),
               [Top EXCEPT !.rect.y = @ + Top.rows, !.rect.h = @ - Top.rows]>>)
  /\ UNCHANGED <<lastRect, image, pieces>>

\* One row of tiles is searched for an area that is worth sending apart.
SearchRow ==
  /\ Searching /\ ~TooManyRows
  /\ LET r == Top.rect
         tiles == {i \in 0 .. NumTiles(r.w) - 1 :
                     WorthIt(r, TileAt(r, Top.dy, i))}
         first == TileAt(r, Top.dy, Min(tiles))
     IN  IF Top.dy >= r.y + r.h THEN Replace(<<Job("simple", r)>>)
         ELSE IF tiles = {} THEN Replace(<<[Top EXCEPT !.dy = @ + TileSize]>>)
         ELSE Replace(Around(r, Extend(AreaFrom(r, first), r,
                                       ColourSought(first))))
  /\ UNCHANGED <<lastRect, image, pieces>>

TightNext ==
  \/ EncodeBands
  \/ EncodeRect
  \/ SendSimple
  \/ SendSolid
  \/ SendUpperPart
  \/ SearchRow

-----------------------------------------------------------------------------
\* The jobs left and the pieces sent cover every pixel of the update once, and
\* no other pixel, whatever the framebuffer shows and however often the
\* rectangle is cut around an area of one colour: nothing that the viewer
\* lacks is left out, and nothing is encoded twice
\* (SendRectEncodingTight, SendRectSimple, rfbSendRectEncodingTight).
Occurrences(p) ==
  Cardinality({i \in DOMAIN pieces : Covers(pieces[i].rect, p)})
    + Cardinality({i \in DOMAIN todo : Covers(todo[i].rect, p)})

\* A piece that is not of one colour fits in tightBeforeBuf, which
\* SendRectSimple has made large enough for MaxRectSize pixels, and is no
\* wider than the protocol allows.
FitsBuffer ==
  \A i \in DOMAIN pieces :
    pieces[i].solid \/ ~TooLarge(pieces[i].rect.w, pieces[i].rect.h)

\* An area sent as one colour is of one colour: the searches by tiles, by rows
\* and by columns have, between them, looked at all of it.
SolidIsSolid ==
  \A i \in DOMAIN pieces :
    LET r == pieces[i].rect
    IN  pieces[i].solid => IsSolid(r, image[<<r.x, r.y>>])
=============================================================================
