------------------------- MODULE FramebufferUpdate -------------------------
(***************************************************************************)
(* The bookkeeping by which the server knows what one viewer lacks: the    *)
(* operators on a client record that draw.c and rfbserver.c apply when the *)
(* X server draws, when the viewer asks for an update and when an update   *)
(* is sent.  The update owed to a viewer has two parts (rfb.h): a copy of  *)
(* one region of the screen to another (copyRegion is its destination,     *)
(* copyDX its displacement) and the region modified in any other way.      *)
(*                                                                         *)
(* A pixel is an integer.  A two-dimensional screen is the set of the      *)
(* x + y * S for a stride S at least twice its width: a translation by     *)
(* (dx, dy) is then the addition of dx + dy * S, so one displacement       *)
(* stands for the pair (copyDX, copyDY).                                   *)
(***************************************************************************)
EXTENDS Integers, FiniteSets

CONSTANTS
  Pixels,       \* the coordinates a region may name, on and off the screen
  Values,       \* the contents of a pixel
  Extents(_)    \* the bounding box of a region

ASSUME PixelsAssumption == Pixels \subseteq Int

ASSUME ExtentsAssumption == \A R \in SUBSET Pixels : R \subseteq Extents(R)

(***************************************************************************)
(* One client.  viewer is the framebuffer the viewer has once it has       *)
(* processed all that was sent to it; cursorPending says that a cursor     *)
(* shape or position is waiting to be sent; retry that updateTimer runs.   *)
(***************************************************************************)
Client ==
  [ modifiedRegion          : SUBSET Pixels,
    copyRegion              : SUBSET Pixels,
    copyDX                  : Int,
    requestedRegion         : SUBSET Pixels,
    cuRegion                : SUBSET Pixels,
    continuousUpdates       : BOOLEAN,
    useCopyRect             : BOOLEAN,
    cursorPending           : BOOLEAN,
    deferredUpdateScheduled : BOOLEAN,
    retry                   : BOOLEAN,
    viewer                  : [Pixels -> Values] ]

\* A client that just connected owes nothing but the whole screen.
NewClient(screen, content) ==
  [ modifiedRegion          |-> screen,
    copyRegion              |-> {},
    copyDX                  |-> 0,
    requestedRegion         |-> {},
    cuRegion                |-> {},
    continuousUpdates       |-> FALSE,
    useCopyRect             |-> FALSE,
    cursorPending           |-> FALSE,
    deferredUpdateScheduled |-> FALSE,
    retry                   |-> FALSE,
    viewer                  |-> [p \in Pixels |-> content] ]

Translate(region, d) == {p + d : p \in region}

\* The code compares the areas of the bounding boxes, not of the regions.
Area(region) == Cardinality(Extents(region))

UpdatePending(cl) ==
  cl.cursorPending \/ cl.copyRegion # {} \/ cl.modifiedRegion # {}

-----------------------------------------------------------------------------
(***************************************************************************)
(* Drawing.                                                                *)
(***************************************************************************)

AddToModifiedRegion(cl, region) ==
  [cl EXCEPT !.modifiedRegion = @ \cup region]

\* The new copy cannot be combined with a bigger pending one, so it is done
\* the hard way.
KeepPendingCopy(cl, dst) ==
  [cl EXCEPT !.modifiedRegion = @ \cup dst,
             !.copyRegion = @ \ dst,
             !.copyDX = IF cl.copyRegion \subseteq dst THEN 0 ELSE @]

\* The copy of src by dx is composed with a displacement already pending.
ComposeCopy(cl, src, dst, pending, dx) ==
  LET newCopy == Translate(src, dx) \cap dst
  IN  [cl EXCEPT !.modifiedRegion = (@ \cup dst \cup cl.copyRegion) \ newCopy,
                 !.copyRegion = newCopy,
                 !.copyDX = IF newCopy # {} THEN pending + dx ELSE 0]

\* Mutant: the source is not pruned of the pixels the viewer lacks.
CopyRegionUnpruned(cl, src, dst, dx) ==
  LET overlap == src \cap cl.copyRegion
  IN  IF overlap # {}
      THEN ComposeCopy(cl, overlap, dst, cl.copyDX, dx)
      ELSE IF Area(cl.copyRegion) > Area(src)
      THEN KeepPendingCopy(cl, dst)
      ELSE ComposeCopy(cl, src, dst,
                       IF cl.copyRegion = {} THEN cl.copyDX ELSE 0, dx)

\* rfbCopyRegion: what a copy from src to dst adds to what the viewer lacks.
CopyRegion(cl, src, dst, dx) ==
  LET valid   == src \ cl.modifiedRegion
      overlap == valid \cap cl.copyRegion
  IN  IF overlap # {}
      THEN ComposeCopy(cl, overlap, dst, cl.copyDX, dx)
      ELSE IF cl.copyRegion = {}
      THEN ComposeCopy(cl, valid, dst, cl.copyDX, dx)
      ELSE IF Area(cl.copyRegion) > Area(valid)
      THEN KeepPendingCopy(cl, dst)
      ELSE ComposeCopy(cl, valid, dst, 0, dx)

-----------------------------------------------------------------------------
(***************************************************************************)
(* Requests and resizes.                                                   *)
(***************************************************************************)

\* A non-incremental request says that the viewer has lost the rectangle.
Requested(record, r, incremental) ==
  LET asked == IF ~incremental \/ ~record.continuousUpdates
               THEN [record EXCEPT !.requestedRegion = @ \cup r] ELSE record
  IN  IF incremental THEN asked
      ELSE [asked EXCEPT !.modifiedRegion = @ \cup r, !.copyRegion = @ \ r]

\* vncScreenSetSize resets all regions so that the next update behaves as if
\* it were the first.
ResetRegions(record, newScreen) ==
  [record EXCEPT
     !.deferredUpdateScheduled = FALSE,
     !.modifiedRegion = newScreen,
     !.copyRegion = {},
     !.cuRegion = IF record.continuousUpdates THEN newScreen ELSE @,
     !.requestedRegion = IF record.continuousUpdates THEN @ ELSE newScreen]

-----------------------------------------------------------------------------
(***************************************************************************)
(* Sending.  how describes what the sender cannot control: hold is         *)
(* "congested" when flow control finds no room on the link, "silent" when  *)
(* a synchronised fence, a resize or the client's state forbids an update, *)
(* and "none" otherwise; combine says that the update region has so many   *)
(* rectangles that its bounding box is sent in their place.                *)
(***************************************************************************)

\* In continuous mode the viewer has a standing request for cuRegion.
WithStandingRequest(cl) ==
  [cl EXCEPT !.copyRegion = @ \ cl.modifiedRegion,
             !.requestedRegion = IF cl.continuousUpdates
                                 THEN @ \cup cl.cuRegion ELSE @]

UpdateRegion(cl) ==
  (cl.copyRegion \cup cl.modifiedRegion) \cap cl.requestedRegion

\* The part that is sent as a copy has its source and its destination within
\* what the viewer requested.
UpdateCopyRegion(cl) ==
  cl.copyRegion \cap cl.requestedRegion
                \cap Translate(cl.requestedRegion, cl.copyDX)

\* The viewer performs the copies, then stores the pixels that were sent.
Received(viewer, copied, d, sent, fb) ==
  [p \in Pixels |-> IF p \in sent THEN fb[p]
                    ELSE IF p \in copied /\ p - d \in Pixels
                         THEN viewer[p - d]
                         ELSE viewer[p]]

\* Mutant: copyDX and copyDY are not reset once the copy was sent.
TransmitKeepsOffset(cl, fb, screen, combine) ==
  LET copied == UpdateCopyRegion(cl)
      pixels == UpdateRegion(cl) \ copied
      sent   == (IF combine THEN Extents(pixels) ELSE pixels) \cap screen
  IN  [cl EXCEPT !.modifiedRegion = ((@ \cup cl.copyRegion) \ pixels) \ copied,
                 !.copyRegion = {},
                 !.requestedRegion = {},
                 !.cursorPending = FALSE,
                 !.viewer = Received(@, copied, cl.copyDX, sent, fb)]

\* The update proper: copies first, then the pixels of the rest.
Transmit(cl, fb, screen, combine) ==
  LET copied == UpdateCopyRegion(cl)
      pixels == UpdateRegion(cl) \ copied
      sent   == (IF combine THEN Extents(pixels) ELSE pixels) \cap screen
  IN  [cl EXCEPT !.modifiedRegion = ((@ \cup cl.copyRegion) \ pixels) \ copied,
                 !.copyRegion = {},
                 !.copyDX = 0,
                 !.requestedRegion = {},
                 !.cursorPending = FALSE,
                 !.viewer = Received(@, copied, cl.copyDX, sent, fb)]

\* Mutant: an attempt that finds the link congested is not repeated.
SendOnce(cl, fb, screen, how) ==
  LET ready == [WithStandingRequest(cl) EXCEPT !.retry = FALSE]
  IN  IF how.hold # "none" THEN [cl EXCEPT !.retry = FALSE]
      ELSE IF UpdateRegion(ready) = {} /\ ~ready.cursorPending THEN ready
      ELSE Transmit(ready, fb, screen, how.combine)

\* rfbSendFramebufferUpdate.
SendFramebufferUpdate(cl, fb, screen, how) ==
  IF how.hold # "none"
  THEN [cl EXCEPT !.retry = (how.hold = "congested")]
  ELSE LET ready == [WithStandingRequest(cl) EXCEPT !.retry = FALSE]
       IN  IF UpdateRegion(ready) = {} /\ ~ready.cursorPending
           THEN ready
           ELSE Transmit(ready, fb, screen, how.combine)

-----------------------------------------------------------------------------
\* Where the pending update does not claim otherwise, the viewer shows what
\* the server shows, and the source of the pending copy is what belongs at
\* its destination.
Mirrors(record, content, pixels) ==
  \A p \in pixels \ record.modifiedRegion :
    IF p \in record.copyRegion
    THEN /\ p - record.copyDX \in Pixels
         /\ record.viewer[p - record.copyDX] = content[p]
    ELSE record.viewer[p] = content[p]
=============================================================================
