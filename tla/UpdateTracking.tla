--------------------------- MODULE UpdateTracking ---------------------------
(***************************************************************************)
(* The framebuffer, the viewers, and the updates owed to them: the drawing *)
(* hooks of draw.c, the deferred update timer, the viewer's update         *)
(* requests (rfbserver.c) and the reset of all regions when the screen     *)
(* changes size (randr.c).  Time and the state of the link are left open:  *)
(* each call of rfbSendFramebufferUpdate may find the link congested or    *)
(* the client on hold, as far as Holds allows.                             *)
(*                                                                         *)
(* The viewers accept cursor shape updates, so the cursor is never part of *)
(* the framebuffer that they mirror.                                       *)
(***************************************************************************)
EXTENDS FramebufferUpdate

CONSTANTS
  Clients,
  Screens,        \* the screens a resize may choose, as sets of pixels
  Regions,        \* the regions that drawing and copying operations name
  Requests,       \* the rectangles a viewer may request
  Shifts,         \* the displacements of the copies the X server performs
  Displacements,  \* bound: the displacements of copies, single or composed
  Holds,          \* what may keep a client from being sent an update
  DeferUpdates    \* rfbDeferUpdateTime # 0

ASSUME UpdateTrackingAssumption ==
  /\ Screens # {} /\ Screens \subseteq SUBSET Pixels
  /\ Regions \subseteq SUBSET Pixels
  /\ Requests \subseteq SUBSET Pixels
  /\ Shifts \subseteq Int /\ Displacements \subseteq Int
  /\ "none" \in Holds /\ Holds \subseteq {"none", "congested", "silent"}
  /\ DeferUpdates \in BOOLEAN

\* A framebuffer has a pixel.
ASSUME ScreensAssumption == {} \notin Screens

VARIABLES
  screen,  \* the pixels of the current framebuffer
  fb,      \* its contents
  cl,      \* the client records
  misled   \* history: a copy was described wrongly to the client, with the
           \* displacement of a copy region that had been emptied, or from a
           \* source that is not visible

vars == <<screen, fb, cl, misled>>

Outcomes == [hold: Holds, combine: BOOLEAN]

Send(c, record, how) == SendFramebufferUpdate(record, fb', screen', how)

Init ==
  /\ screen \in Screens
  /\ fb \in [Pixels -> Values]
  /\ \E v \in Values : cl = [c \in Clients |-> NewClient(screen, v)]
  /\ misled = [c \in Clients |-> FALSE]

-----------------------------------------------------------------------------
(***************************************************************************)
(* The X server draws.                                                     *)
(***************************************************************************)

\* SCHEDULE_FB_UPDATE: an update is deferred unless deferral is disabled.
\* how is used in the latter case only.
ScheduleUpdate(c, record, how) ==
  IF record.deferredUpdateScheduled \/ ~UpdatePending(record)
  THEN record
  ELSE IF DeferUpdates
  THEN [record EXCEPT !.deferredUpdateScheduled = TRUE]
  ELSE Send(c, record, how)

\* Any operation that changes a region other than by copying from the screen
\* (rfbPutImage and the other GC operations, rfbClearToBackground).
Draw(region, v, how) ==
  /\ UNCHANGED <<screen, misled>>
  /\ fb' = [p \in Pixels |-> IF p \in region \cap screen THEN v ELSE fb[p]]
  /\ cl' = [c \in Clients |->
              ScheduleUpdate(c, AddToModifiedRegion(cl[c], region \cap screen),
                             how[c])]

\* rfbCopyRegion is about to compose a copy with a displacement left behind by
\* a copy region that is now empty.
ComposesStaleOffset(record, copied) ==
  /\ record.useCopyRect
  /\ record.copyRegion = {} /\ record.copyDX # 0
  /\ copied.copyRegion # {}

\* What rfbCopyWindow and rfbCopyArea have in common.  The framebuffer is
\* changed where the destination lies within dst and the source is visible;
\* src is what the clients are told of the source.
CopyOnScreen(src, visible, dst, dx, how) ==
  LET copied == [c \in Clients |-> IF cl[c].useCopyRect
                                   THEN CopyRegion(cl[c], src, dst, dx)
                                   ELSE AddToModifiedRegion(cl[c], dst)]
  IN  /\ UNCHANGED screen
      /\ fb' = [p \in Pixels |-> IF p \in dst /\ p - dx \in visible
                                 THEN fb[p - dx] ELSE fb[p]]
      /\ cl' = [c \in Clients |-> ScheduleUpdate(c, copied[c], how[c])]
      /\ \A c \in Clients : copied[c].copyDX \in Displacements
      /\ misled' = [c \in Clients |->
                     \/ misled[c]
                     \/ ComposesStaleOffset(cl[c], copied[c])
                     \/ cl[c].useCopyRect /\ src # visible]

\* rfbCopyWindow: a window moves; old is the region it covered, clip what is
\* visible of it at its new place.
CopyWindow(old, clip, dx, how) ==
  LET src == old \cap screen
  IN  CopyOnScreen(src, src, Translate(src, dx) \cap screen \cap clip, dx, how)

\* rfbCopyArea between viewable drawables.  The source is clipped to what is
\* visible of its window, unless nothing is (the window is obscured).
CopyArea(src, obscured, dst, dx, how) ==
  CopyOnScreen(src \cap screen, IF obscured THEN {} ELSE src \cap screen,
               dst \cap screen, dx, how)

\* A resize, from a viewer or from RandR, ends in rfbSendDesktopSizeAll.
SetScreenSize(newScreen, v, how) ==
  /\ screen' = newScreen
  /\ fb' = [p \in Pixels |-> v]
  /\ cl' = [c \in Clients |->
              Send(c, ResetRegions(cl[c], newScreen), how[c])]
  /\ UNCHANGED misled

\* The cursor changes shape or is moved, and the viewers to which that is news
\* are told at once, whatever the deferral, unless an update is deferred already
\* (rfbDisplayCursor, rfbSpriteMoveCursor).
ChangeCursor(told, how) ==
  LET news(c) == [cl[c] EXCEPT !.cursorPending = TRUE]
  IN  /\ UNCHANGED <<screen, fb, misled>>
      /\ cl' = [c \in Clients |->
                  IF c \notin told THEN cl[c]
                  ELSE IF cl[c].deferredUpdateScheduled THEN news(c)
                  ELSE Send(c, news(c), how[c])]

-----------------------------------------------------------------------------
(***************************************************************************)
(* Messages from a viewer and timers.                                      *)
(***************************************************************************)

ServerKeeps == UNCHANGED <<screen, fb, misled>>

\* SetEncodings: the viewer may turn CopyRect on and off.
SetEncodings(c, copyRect) ==
  /\ cl' = [cl EXCEPT ![c].useCopyRect = copyRect, ![c].cursorPending = TRUE]
  /\ ServerKeeps

\* FramebufferUpdateRequest.  elapsed: the deferral time, if any, is over.
FramebufferUpdateRequest(c, r, incremental, elapsed, how) ==
  LET record == Requested(cl[c], r, incremental)
      sendNow == /\ UpdatePending(record)
                 /\ ~record.deferredUpdateScheduled \/ ~DeferUpdates \/ elapsed
  IN  /\ ServerKeeps
      /\ cl' = [cl EXCEPT ![c] =
                  IF sendNow
                  THEN [Send(c, record, how) EXCEPT
                          !.deferredUpdateScheduled = FALSE]
                  ELSE record]

\* EnableContinuousUpdates, from a viewer that supports the extension.
EnableContinuousUpdates(c, r, enable, how) ==
  LET record == [cl[c] EXCEPT
                   !.cuRegion = r,
                   !.continuousUpdates = enable,
                   !.requestedRegion = IF enable THEN {} ELSE @]
  IN  /\ ServerKeeps
      /\ cl' = [cl EXCEPT ![c] = IF enable THEN Send(c, record, how)
                                 ELSE record]

\* rfbDeferredUpdateCallback.
DeferredUpdate(c, how) ==
  /\ cl[c].deferredUpdateScheduled
  /\ ServerKeeps
  /\ cl' = [cl EXCEPT ![c] =
              [IF UpdatePending(cl[c]) THEN Send(c, cl[c], how) ELSE cl[c]
                EXCEPT !.deferredUpdateScheduled = FALSE]]

\* updateCallback: another attempt after the link was found congested.
RetryUpdate(c, how) ==
  /\ cl[c].retry
  /\ ServerKeeps
  /\ cl' = [cl EXCEPT ![c] = Send(c, [cl[c] EXCEPT !.retry = FALSE], how)]

-----------------------------------------------------------------------------
\* The outcomes matter only when drawing sends at once.
DrawOutcomes ==
  IF DeferUpdates
  THEN {[c \in Clients |-> [hold |-> "none", combine |-> FALSE]]}
  ELSE [Clients -> Outcomes]

DrawingStep ==
  \/ \E how \in DrawOutcomes :
       \/ \E region \in Regions, v \in Values : Draw(region, v, how)
       \/ \E src, dst \in Regions, dx \in Shifts :
            \/ CopyWindow(src, dst, dx, how)
            \/ \E obscured \in BOOLEAN : CopyArea(src, obscured, dst, dx, how)
  \/ \E how \in [Clients -> Outcomes] :
       \/ \E s \in Screens, v \in Values : SetScreenSize(s, v, how)
       \/ \E told \in SUBSET Clients : ChangeCursor(told, how)

Reconfigure(c) ==
  \/ \E b \in BOOLEAN : SetEncodings(c, b)
  \/ \E r \in Requests, how \in Outcomes, enable \in BOOLEAN :
       EnableContinuousUpdates(c, r, enable, how)

ViewerStep(c) ==
  \/ Reconfigure(c)
  \/ \E r \in Requests, how \in Outcomes, incremental, elapsed \in BOOLEAN :
       FramebufferUpdateRequest(c, r, incremental, elapsed, how)

TimerStep(c) ==
  \E how \in Outcomes : DeferredUpdate(c, how) \/ RetryUpdate(c, how)

Next == DrawingStep \/ \E c \in Clients : ViewerStep(c) \/ TimerStep(c)

Spec == Init /\ [][Next]_vars

(***************************************************************************)
(* The timers fire, an attempt that is repeated for ever is not always     *)
(* held back, and a viewer that is not waiting for the whole screen         *)
(* requests it again.                                                      *)
(***************************************************************************)
RequestScreen(c) ==
  /\ ~(screen \subseteq cl[c].requestedRegion)
  /\ \E how \in Outcomes, elapsed \in BOOLEAN :
       FramebufferUpdateRequest(c, Pixels, TRUE, elapsed, how)

Unhindered == {how \in Outcomes : how.hold = "none"}

Fairness ==
  \A c \in Clients :
    /\ WF_vars(RequestScreen(c))
    /\ SF_vars(\E how \in Unhindered : DeferredUpdate(c, how))
    /\ SF_vars(\E how \in Unhindered : RetryUpdate(c, how))

FairSpec == Spec /\ Fairness

-----------------------------------------------------------------------------
TypeOK ==
  /\ screen \in Screens
  /\ fb \in [Pixels -> Values]
  /\ cl \in [Clients -> Client]
  /\ misled \in [Clients -> BOOLEAN]

(***************************************************************************)
(* The pending update is enough to bring the viewer's framebuffer to the   *)
(* current state of the server's (rfb.h 297-318), however drawing, copies, *)
(* partial requests and partial updates interleave, as long as the client  *)
(* was not misled about a copy in one of two ways: composed with the       *)
(* displacement of a copy region emptied meanwhile, or made from a window  *)
(* that is completely obscured.                                            *)
(***************************************************************************)
MirrorUnlessMisled ==
  \A c \in Clients : ~misled[c] => Mirrors(cl[c], fb, screen)

(***************************************************************************)
(* A displacement that outlives its copy region is always accompanied by   *)
(* pending modifications, so that the next update that covers the screen   *)
(* resets it: rfbSendFramebufferUpdate cannot return early for ever.       *)
(***************************************************************************)
LeftoverOffsetIsPending ==
  \A c \in Clients :
    cl[c].copyDX # 0 => cl[c].copyRegion \cup cl[c].modifiedRegion # {}

Synced(c) == \A p \in screen : cl[c].viewer[p] = fb[p]

Settings(record) ==
  <<record.useCopyRect, record.continuousUpdates, record.cuRegion>>

\* The viewer makes no request for less than the screen.
AsksForAll(c) ==
  \/ cl'[c].requestedRegion \subseteq cl[c].requestedRegion
  \/ screen \subseteq cl'[c].requestedRegion

\* From some time on no pixel and no viewer's settings change.
Quiet ==
  <>[][/\ UNCHANGED <<screen, fb>>
       /\ \A c \in Clients :
            Settings(cl[c])' = Settings(cl[c]) /\ AsksForAll(c)]_vars

WantsPart(record) ==
  record.continuousUpdates /\ ~(screen \subseteq record.cuRegion)

(***************************************************************************)
(* Once the screen is quiet, every viewer that keeps requesting the screen,*)
(* or has enabled continuous updates of it, ends up showing it, though its *)
(* requests and updates may have covered parts of it before: deferral,     *)
(* congestion retries, early returns and partial updates never leave a     *)
(* modification behind.                                                    *)
(***************************************************************************)
EventuallySynced ==
  Quiet => <>[](\A c \in Clients : misled[c] \/ WantsPart(cl[c]) \/ Synced(c))
=============================================================================
