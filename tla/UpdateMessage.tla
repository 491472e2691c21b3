--------------------------- MODULE UpdateMessage ---------------------------
(***************************************************************************)
(* One framebuffer update message (the last part of                        *)
(* rfbSendFramebufferUpdate): the number of its rectangles is announced,   *)
(* then come the copies (CopyOrder) and the rectangles of the update       *)
(* region, encoded by Tight (TightRects), and a LastRect marker when the   *)
(* number was left open.                                                   *)
(***************************************************************************)
EXTENDS CopyOrder, TightRects

CONSTANT Messages  \* what an update is made of: the copies, the rectangles of
                   \* the update region and the framebuffer

\* The rectangles of a region do not overlap.
ASSUME MessagesAssumption ==
  \A m \in Messages :
    /\ m.copy \in Copies
    /\ m.update \in Seq(Rects)
    /\ \A i \in DOMAIN m.update :
         m.update[i].w > 0 /\ m.update[i].h > 0
    /\ \A i, j \in DOMAIN m.update, p \in Pixels :
         Covers(m.update[i], p) /\ Covers(m.update[j], p) => i = j
    /\ DOMAIN m.image = Pixels

VARIABLES
  update,     \* updateRegion, as a sequence of rectangles
  nUpdateRegionRects,
  announced,  \* the number of rectangles in the header
  marked,     \* the LastRect marker was sent
  phase

messageVars == <<vars, tightVars, update, nUpdateRegionRects, announced,
                 marked, phase>>

CARD16 == 65536

\* The number of rectangles is left open.
OpenNumber == CARD16 - 1

Init ==
  /\ \E m \in Messages :
       /\ CopyStart(m.copy)
       /\ TightStart(m.update, m.image)
       /\ update = m.update
  /\ nUpdateRegionRects = 0 /\ announced = 0
  /\ marked = FALSE
  /\ phase = "announce"

NumCoded(i) == NumCodedRects(update[i].w, update[i].h)

\* A loop over the elements of a sequence.
Sum(numbers) ==
  LET sum[i \in 0 .. Len(numbers)] ==
        IF i = 0 THEN 0 ELSE sum[i - 1] + numbers[i]
  IN  sum[Len(numbers)]

LeftOpen == \E i \in DOMAIN update : NumCoded(i) = 0

\* The header of the message.
Announce ==
  /\ phase = "announce"
  /\ nUpdateRegionRects' = IF LeftOpen THEN OpenNumber
                           ELSE Sum([i \in DOMAIN update |-> NumCoded(i)])
  /\ announced' = IF nUpdateRegionRects' = OpenNumber THEN OpenNumber
                  ELSE (Len(reg) + nUpdateRegionRects') % CARD16
  /\ phase' = "copies"
  /\ UNCHANGED <<vars, tightVars, update, marked>>

SendCopies ==
  /\ phase = "copies"
  /\ CopyNext
  /\ phase' = IF pc' = "done" THEN "rects" ELSE "copies"
  /\ UNCHANGED <<tightVars, update, nUpdateRegionRects, announced, marked>>

SendRects ==
  /\ phase = "rects"
  /\ TightNext
  /\ UNCHANGED <<vars, update, nUpdateRegionRects, announced, marked, phase>>

\* Mutant: the marker is sent to every viewer that accepts it.
FinishMarksAlways ==
  /\ phase = "rects" /\ todo = <<>>
  /\ marked' = lastRect
  /\ phase' = "done"
  /\ UNCHANGED <<vars, tightVars, update, nUpdateRegionRects, announced>>

Finish ==
  /\ phase = "rects" /\ todo = <<>>
  /\ marked' = (nUpdateRegionRects = OpenNumber)
  /\ phase' = "done"
  /\ UNCHANGED <<vars, tightVars, update, nUpdateRegionRects, announced>>

Next ==
  \/ Announce
  \/ SendCopies
  \/ SendRects
  \/ Finish

Spec == Init /\ [][Next]_messageVars

-----------------------------------------------------------------------------
InUpdate(p) == \E i \in DOMAIN update : Covers(update[i], p)

\* What the viewer shows once it has performed the copies and then stored the
\* pieces.  An area of one colour takes the colour of its first pixel.
Picture ==
  [p \in Pixels |->
     IF \E i \in DOMAIN pieces : Covers(pieces[i].rect, p)
     THEN LET i == CHOOSE i \in DOMAIN pieces : Covers(pieces[i].rect, p)
          IN  IF pieces[i].solid
              THEN image[<<pieces[i].rect.x, pieces[i].rect.y>>] ELSE image[p]
     ELSE shown[p]]

\* A finished update leaves the viewer with the server's pixels in the update
\* region, with the viewer's own former pixels, displaced, in the rest of the
\* copy region, and all others as they were, as Received in FramebufferUpdate
\* says in one step (rfbSendFramebufferUpdate).
PictureIsUpdated ==
  phase = "done" =>
    \A p \in Pixels :
      Picture[p] = IF InUpdate(p) THEN image[p]
                   ELSE IF \E i \in DOMAIN reg : Inside(p, reg[i])
                   THEN before[Shifted(p)]
                   ELSE before[p]

CoveredOnce ==
  \A p \in Pixels : Occurrences(p) = IF InUpdate(p) THEN 1 ELSE 0

\* The bands of a rectangle are cut at other heights than the rectangle would
\* be, which rfbNumCodedRectsTight does not know of.
CutUnevenly(r) ==
  /\ NumBands(r) > 1
  /\ (r.h \div NumBands(r)) % SubrectMaxHeight(r.w) # 0

\* A viewer reads as many rectangles as were announced, no more and no less,
\* or, if it accepts the marker, up to the marker; except when a rectangle is
\* cut into bands that do not fit, and when there are so many rectangles that
\* their number is not one of 16 bits or means an open number
\* (rfbSendFramebufferUpdate, rfbNumCodedRectsTight).
AnnouncedIsSent ==
  phase = "done" =>
    IF LeftOpen THEN announced = OpenNumber /\ lastRect /\ marked
    ELSE \/ \E i \in DOMAIN update : CutUnevenly(update[i])
         \/ Len(reg) + nUpdateRegionRects >= OpenNumber
         \/ announced = Cardinality(copied) + Len(pieces) /\ ~marked
=============================================================================
