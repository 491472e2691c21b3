----------------------------- MODULE CopyOrder -----------------------------
(***************************************************************************)
(* rfbSendCopyRegion: a region is sent to the viewer as a series of        *)
(* CopyRect rectangles, which the viewer performs one after the other.     *)
(* The server walks through the rectangles of the region, band by band, in *)
(* an order that depends on the displacement, so that no copy overwrites   *)
(* the source of a later one.                                              *)
(*                                                                         *)
(* The rectangles of a region are sorted as those of the X server are:     *)
(* into bands of equal height from top to bottom, and from left to right   *)
(* within a band.                                                          *)
(***************************************************************************)
EXTENDS Integers, Sequences

CONSTANTS
  Width, Height,  \* the screen
  Copies          \* the calls: the arguments and the viewer's framebuffer

Pixels == (0 .. Width - 1) \X (0 .. Height - 1)

Box == [x1 : Int, y1 : Int, x2 : Int, y2 : Int]

Inside(p, b) == b.x1 <= p[1] /\ p[1] < b.x2 /\ b.y1 <= p[2] /\ p[2] < b.y2

\* REGION_RECTS in the order that the region code of the X server keeps.
Banded(r) ==
  /\ \A i \in DOMAIN r : r[i].x1 < r[i].x2 /\ r[i].y1 < r[i].y2
  /\ \A i, j \in DOMAIN r :
       i < j => \/ r[i].y2 <= r[j].y1
                \/ /\ r[i].y1 = r[j].y1 /\ r[i].y2 = r[j].y2
                   /\ r[i].x2 <= r[j].x1

ASSUME ScreenAssumption == Width \in Nat /\ Height \in Nat

Corners(b) == {<<b.x1, b.y1>>, <<b.x2 - 1, b.y2 - 1>>}

\* The region and what it is copied from are on the screen, because both were
\* requested (UpdateCopyRegion in FramebufferUpdate).
OnScreen(c) ==
  \A i \in DOMAIN c.reg : \A p \in Corners(c.reg[i]) :
    p \in Pixels /\ <<p[1] - c.dx, p[2] - c.dy>> \in Pixels

ASSUME CopiesAssumption ==
  \A c \in Copies :
    /\ c.reg \in Seq(Box) /\ Banded(c.reg)
    /\ c.dx \in Int /\ c.dy \in Int
    /\ OnScreen(c)
    /\ c.before = [p \in Pixels |-> c.before[p]]

VARIABLES
  reg, dx, dy,      \* the arguments
  before,           \* the viewer's framebuffer before the first copy
  shown,            \* the viewer's framebuffer after those sent so far
  copied,           \* history: the rectangles sent so far
  nrects, nrectsInBand, thisRect, firstInNextBand,
  pc                \* where in the loop the server is

args == <<reg, dx, dy, before>>

locals == <<nrects, nrectsInBand, thisRect, firstInNextBand>>

vars == <<args, shown, copied, locals, pc>>

Shifted(p) == <<p[1] - dx, p[2] - dy>>

y_inc == IF dy <= 0 THEN 1 ELSE -1

\* Mutant: the rectangles of a band are taken in the order of the bands.
x_incAsY == y_inc

x_inc == IF dx <= 0 THEN 1 ELSE -1

\* A call, for the region, displacement and framebuffer of c.
CopyStart(c) ==
  /\ reg = c.reg /\ dx = c.dx /\ dy = c.dy /\ before = c.before
  /\ shown = before
  /\ copied = {}
  /\ nrects = Len(reg)
  /\ thisRect = IF dy <= 0 THEN 1 ELSE Len(reg)
  /\ nrectsInBand = 0
  /\ firstInNextBand = thisRect
  /\ pc = "outer"

CopyInit == \E c \in Copies : CopyStart(c)

-----------------------------------------------------------------------------
\* The outer loop: another band, while rectangles are left.
StartBand ==
  /\ pc = "outer" /\ nrects > 0
  /\ firstInNextBand' = thisRect
  /\ nrectsInBand' = 0
  /\ pc' = "scan"
  /\ UNCHANGED <<args, shown, copied, nrects, thisRect>>

SameBand == nrects > 0 /\ reg[firstInNextBand].y1 = reg[thisRect].y1

\* The first inner loop counts the rectangles of the band.
ScanBand ==
  /\ pc = "scan" /\ SameBand
  /\ firstInNextBand' = firstInNextBand + y_inc
  /\ nrects' = nrects - 1
  /\ nrectsInBand' = nrectsInBand + 1
  /\ UNCHANGED <<args, shown, copied, thisRect, pc>>

\* It ends at the far end of the band, where the walk through it starts when
\* it runs against the walk through the bands.
EndScan ==
  /\ pc = "scan" /\ ~SameBand
  /\ thisRect' = IF x_inc # y_inc THEN firstInNextBand - y_inc ELSE thisRect
  /\ pc' = "send"
  /\ UNCHANGED <<args, shown, copied, nrects, nrectsInBand, firstInNextBand>>

\* The viewer copies one rectangle, as if through a buffer.
CopyRect(fb, b) ==
  [p \in Pixels |-> IF Inside(p, b) THEN fb[Shifted(p)] ELSE fb[p]]

\* The second inner loop sends them.
SendCopyRect ==
  /\ pc = "send" /\ nrectsInBand > 0
  /\ shown' = CopyRect(shown, reg[thisRect])
  /\ copied' = copied \cup {thisRect}
  /\ thisRect' = thisRect + x_inc
  /\ nrectsInBand' = nrectsInBand - 1
  /\ UNCHANGED <<args, nrects, firstInNextBand, pc>>

EndBand ==
  /\ pc = "send" /\ nrectsInBand = 0
  /\ thisRect' = firstInNextBand
  /\ pc' = "outer"
  /\ UNCHANGED <<args, shown, copied, nrects, nrectsInBand, firstInNextBand>>

FinishCopies ==
  /\ pc = "outer" /\ nrects = 0
  /\ pc' = "done"
  /\ UNCHANGED <<args, shown, copied, locals>>

CopyNext ==
  \/ StartBand
  \/ ScanBand
  \/ EndScan
  \/ SendCopyRect
  \/ EndBand
  \/ FinishCopies

CopySpec == CopyInit /\ [][CopyNext]_vars

-----------------------------------------------------------------------------
\* The rectangles sent are copies of what the viewer showed before the first
\* of them, whatever their number and the displacement: no CopyRect corrupts
\* the source of a later one (rfbSendCopyRegion's comment).
SourcesIntact ==
  \A p \in Pixels :
    shown[p] = IF \E i \in copied : Inside(p, reg[i])
               THEN before[Shifted(p)] ELSE before[p]

Simultaneous ==
  INSTANCE SimultaneousCopy WITH
    Screens  <- {c.before : c \in Copies},
    dest     <- {p \in Pixels : \E i \in DOMAIN reg : Inside(p, reg[i])},
    shift    <- <<dx, dy>>,
    fb       <- IF pc = "done" THEN shown ELSE before,
    finished <- pc = "done"

\* The walk implements one copy of the whole region, which is how the copy
\* appears in the model of the regions (Received in FramebufferUpdate).
CopiesAtOnce == Simultaneous!Spec
=============================================================================
