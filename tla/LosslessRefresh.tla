--------------------------- MODULE LosslessRefresh ---------------------------
(***************************************************************************)
(* Automatic lossless refresh (rfbserver.c, tight.c): the server remembers *)
(* which pixels it sent to a viewer with lossy compression, and when the   *)
(* viewer has been sent nothing for some time it sends those again without *)
(* loss.  The refresh goes through rfbSendFramebufferUpdate like any other *)
(* update: alrCallback replaces the client's regions by what it wants to   *)
(* send, and puts them back afterwards.                                    *)
(*                                                                         *)
(* Viewers do not affect one another here, so there is one, and interframe *)
(* comparison is off.                                                      *)
(***************************************************************************)
EXTENDS FramebufferUpdate

CONSTANTS
  Screen,          \* the pixels of the framebuffer
  Regions,         \* the regions that drawing and copying operations name
  Requests,        \* the rectangles a viewer may request
  Shifts,          \* the displacements of the copies the X server performs
  Displacements,   \* bound: the displacements of copies, single or composed
  Policies,        \* the values putImageOnly may have
  Combines,        \* whether an update region may be sent as its bounding box
  Holds            \* what may keep an update from being sent

ASSUME LosslessRefreshAssumption ==
  /\ Screen \subseteq Pixels
  /\ Requests \subseteq SUBSET Pixels /\ Shifts \subseteq Int
  /\ Policies \subseteq BOOLEAN /\ Combines \subseteq BOOLEAN
  /\ Holds \subseteq {"none", "congested", "silent"}

VARIABLES
  putImageOnly,  \* only what was drawn by PutImage or copied is eligible; set
                 \* when the server starts
  fb,       \* the contents of the framebuffer
  cl,       \* the client record
  alr,      \* its regions and timer for the lossless refresh
  lossy,    \* the pixels the viewer shows inexactly
  forgotten,  \* history: those that the server no longer knows of
  excused   \* history: from here on nothing is claimed of the viewer

vars == <<putImageOnly, fb, cl, alr, lossy, forgotten, excused>>

Refresh ==
  [lossyRegion: SUBSET Pixels, alrRegion: SUBSET Pixels,
   alrEligibleRegion: SUBSET Pixels, firstUpdate: BOOLEAN, alrTimer: BOOLEAN]

\* inexact: the pixels that the encoder sends by JPEG if they are in the update.
Outcomes ==
  [hold: {"none"}, combine: Combines, inexact: Regions \cup {{}}]
    \cup [hold: Holds \ {"none"}, combine: {FALSE}, inexact: {{}}]

Init ==
  /\ putImageOnly \in Policies
  /\ fb \in [Pixels -> Values]
  /\ \E v \in Values : cl = NewClient(Screen, v)
  /\ alr = [lossyRegion |-> {}, alrRegion |-> {}, alrEligibleRegion |-> {},
            firstUpdate |-> TRUE, alrTimer |-> FALSE]
  /\ lossy = {} /\ forgotten = {}
  /\ excused = FALSE

-----------------------------------------------------------------------------
(***************************************************************************)
(* Sending an update.                                                      *)
(***************************************************************************)

\* rfbSendCopyRegion: a copy whose source is partly lossy makes its whole
\* destination lossy, and eligible.
CopyLossy(a, copied, d) ==
  IF Translate(copied, -d) \cap a.lossyRegion = {} THEN a
  ELSE [a EXCEPT !.lossyRegion = @ \cup copied,
                 !.alrEligibleRegion = @ \cup copied]

\* Mutant: what was sent by JPEG is not remembered.
EncodeNothingLossy(a, sent, inexact) ==
  [a EXCEPT !.lossyRegion = @ \ sent]

\* rfbSendRectEncodingTight: what was sent by JPEG is lossy from here on, what
\* was sent in any other way is not.
Encode(a, sent, inexact) ==
  [a EXCEPT !.lossyRegion = (@ \ sent) \cup (sent \cap inexact)]

\* Mutant: the timer is started only when PutImage has drawn something.
StartTimerIfEligible(a) ==
  IF a.alrEligibleRegion # {}
  THEN [a EXCEPT !.alrRegion = IF putImageOnly
                               THEN @ \cup a.alrEligibleRegion ELSE @,
                 !.alrEligibleRegion = {},
                 !.alrTimer = TRUE]
  ELSE a

\* An update with eligible pixels, or the first one, starts the timer anew.
StartTimer(a) ==
  IF ~putImageOnly \/ a.alrEligibleRegion # {} \/ a.firstUpdate
  THEN [a EXCEPT !.alrRegion = IF putImageOnly
                               THEN @ \cup a.alrEligibleRegion ELSE @,
                 !.alrEligibleRegion = {},
                 !.alrTimer = TRUE]
  ELSE a

\* What an update sends: nothing if it is withheld or there is nothing to say.
SendsUpdate(record, how) ==
  LET ready == WithStandingRequest(record)
  IN  /\ how.hold = "none"
      /\ UpdateRegion(ready) # {} \/ ready.cursorPending

Copied(record) == UpdateCopyRegion(WithStandingRequest(record))

Sent(record, how) ==
  LET pixels == UpdateRegion(WithStandingRequest(record)) \ Copied(record)
  IN  (IF how.combine THEN Extents(pixels) ELSE pixels) \cap Screen

\* What rfbSendFramebufferUpdate does to the client's refresh state.
AfterUpdate(record, a, how) ==
  IF SendsUpdate(record, how)
  THEN StartTimer(Encode(CopyLossy(a, Copied(record), record.copyDX),
                         Sent(record, how), how.inexact))
  ELSE a

\* Where the contents of some pixels of the viewer are after the update: copies
\* carry them along, what is sent anew replaces them.
Carried(pixels, record, how) ==
  IF SendsUpdate(record, how)
  THEN LET copied == {p \in Copied(record) : p - record.copyDX \in pixels}
       IN  ((pixels \ Copied(record)) \cup copied) \ Sent(record, how)
  ELSE pixels

\* Which pixels the viewer then shows inexactly.
StillLossy(record, how) ==
  Carried(lossy, record, how)
    \cup (IF SendsUpdate(record, how) THEN Sent(record, how) \cap how.inexact
          ELSE {})

\* rfbSendFramebufferUpdate.
SendUpdate(record, how) ==
  /\ cl' = SendFramebufferUpdate(record, fb', Screen, how)
  /\ alr' = AfterUpdate(record, alr, how)
  /\ lossy' = StillLossy(record, how)
  /\ forgotten' = Carried(forgotten, record, how)

-----------------------------------------------------------------------------
(***************************************************************************)
(* The X server draws.                                                     *)
(***************************************************************************)

\* byImage: with PutImage (rfbPutImage), the only operation that makes what it
\* draws eligible for a refresh.
Draw(region, v, byImage) ==
  LET drawn == region \cap Screen
  IN  /\ fb' = [p \in Pixels |-> IF p \in drawn THEN v ELSE fb[p]]
      /\ cl' = AddToModifiedRegion(cl, drawn)
      /\ alr' = IF byImage THEN [alr EXCEPT !.alrEligibleRegion = @ \cup drawn]
                ELSE alr
      /\ UNCHANGED <<putImageOnly, lossy, forgotten, excused>>

\* rfbCopyWindow.  A displacement that a copy region left behind when it was
\* emptied excuses the viewer (see UpdateTracking).
CopyWindow(old, clip, dx) ==
  LET src == old \cap Screen
      dst == Translate(src, dx) \cap Screen \cap clip
  IN  /\ fb' = [p \in Pixels |-> IF p \in dst THEN fb[p - dx] ELSE fb[p]]
      /\ cl' = IF cl.useCopyRect THEN CopyRegion(cl, src, dst, dx)
               ELSE AddToModifiedRegion(cl, dst)
      /\ cl'.copyDX \in Displacements
      /\ excused' = (excused \/ /\ cl.copyRegion = {} /\ cl.copyDX # 0
                                /\ cl'.copyRegion # {})
      /\ UNCHANGED <<putImageOnly, alr, lossy, forgotten>>

-----------------------------------------------------------------------------
(***************************************************************************)
(* Messages from the viewer and timers.                                    *)
(***************************************************************************)

ServerKeeps == UNCHANGED <<putImageOnly, fb, excused>>

SetEncodings(copyRect) ==
  /\ cl' = [cl EXCEPT !.useCopyRect = copyRect, !.cursorPending = TRUE]
  /\ ServerKeeps /\ UNCHANGED <<alr, lossy, forgotten>>

FramebufferUpdateRequest(r, incremental, how) ==
  LET record == Requested(cl, r, incremental)
  IN  /\ ServerKeeps
      /\ IF UpdatePending(record) THEN SendUpdate(record, how)
         ELSE cl' = record /\ UNCHANGED <<alr, lossy, forgotten>>

\* rfbDeferredUpdateCallback and updateCallback.
TimedUpdate(how) ==
  /\ UpdatePending(cl)
  /\ ServerKeeps
  /\ SendUpdate(cl, how)

\* What alrCallback sends.
RefreshRegion ==
  IF putImageOnly /\ ~alr.firstUpdate THEN alr.alrRegion \cap alr.lossyRegion
  ELSE alr.lossyRegion

\* The pending copy is left as it was although a pixel it is to copy from has
\* been sent with newer contents.
DisturbsCopy(how) ==
  /\ how.hold = "none"
  /\ \E p \in cl.copyRegion :
       LET from == p - cl.copyDX
       IN  /\ from \in (IF how.combine THEN Extents(RefreshRegion) ELSE RefreshRegion)
           /\ from \in cl.modifiedRegion \cup cl.copyRegion

\* Mutant: the modified region is not put back.
ModifiedNotRestored(after) ==
  [after EXCEPT !.copyRegion = cl.copyRegion,
                !.copyDX = cl.copyDX,
                !.requestedRegion = cl.requestedRegion]

\* The regions saved before the refresh was sent.
Restored(after) ==
  [after EXCEPT !.modifiedRegion = cl.modifiedRegion,
                !.copyRegion = cl.copyRegion,
                !.copyDX = cl.copyDX,
                !.requestedRegion = cl.requestedRegion]

\* What is known to be lossy and not sent by the refresh.  All of lossyRegion is
\* emptied all the same, although the refresh may be withheld (by congestion, a
\* fence or a change of the size) or send only the eligible part of it.
Forgets(how) ==
  IF how.hold = "none" THEN alr.lossyRegion \ RefreshRegion ELSE alr.lossyRegion

\* alrCallback.
AlrCallback(how) ==
  LET record == [cl EXCEPT !.modifiedRegion = RefreshRegion,
                           !.copyRegion = {},
                           !.copyDX = 0,
                           !.requestedRegion = RefreshRegion]
      fired  == [alr EXCEPT !.firstUpdate = FALSE, !.alrTimer = FALSE]
  IN  /\ alr.alrTimer
      /\ how.inexact = {}
      /\ UNCHANGED <<putImageOnly, fb>>
      /\ IF RefreshRegion = {}
         THEN alr' = fired /\ UNCHANGED <<cl, lossy, forgotten, excused>>
         ELSE /\ cl' = Restored(SendFramebufferUpdate(record, fb, Screen, how))
              /\ alr' = [AfterUpdate(record, fired, how) EXCEPT
                           !.lossyRegion = {}, !.alrRegion = {}]
              /\ lossy' = StillLossy(record, how)
              /\ forgotten' = Carried(forgotten, record, how) \cup Forgets(how)
              /\ excused' = (excused \/ DisturbsCopy(how))

-----------------------------------------------------------------------------
ServerStep ==
  \/ \E region \in Regions, v \in Values, byImage \in BOOLEAN :
       Draw(region, v, byImage)
  \/ \E old, clip \in Regions, dx \in Shifts : CopyWindow(old, clip, dx)

Request(how) ==
  \E r \in Requests, b \in BOOLEAN : FramebufferUpdateRequest(r, b, how)

Next ==
  \/ ServerStep
  \/ \E copyRect \in BOOLEAN : SetEncodings(copyRect)
  \/ \E how \in Outcomes : Request(how) \/ TimedUpdate(how) \/ AlrCallback(how)

Spec == Init /\ [][Next]_vars

-----------------------------------------------------------------------------
TypeOK ==
  /\ putImageOnly \in Policies
  /\ fb \in [Pixels -> Values]
  /\ cl \in Client
  /\ alr \in Refresh
  /\ lossy \subseteq Pixels /\ forgotten \subseteq Pixels
  /\ excused \in BOOLEAN

(***************************************************************************)
(* A refresh leaves the pending update as good as it was: what alrCallback *)
(* saves and puts back still brings the viewer's framebuffer to the state  *)
(* of the server's, unless the refresh sent newer contents of the source   *)
(* of a pending copy.                                                      *)
(***************************************************************************)
MirrorUnlessExcused == excused \/ Mirrors(cl, fb, Screen)

(***************************************************************************)
(* Every pixel the viewer shows inexactly is known to be lossy, however    *)
(* it got there (JPEG or a copy of a lossy pixel), so that the next        *)
(* refresh can send it; except for what an earlier refresh emptied         *)
(* lossyRegion of without sending it.                                      *)
(***************************************************************************)
LossIsRemembered == lossy \subseteq alr.lossyRegion \cup forgotten

(***************************************************************************)
(* As long as the viewer shows something inexactly that the server has not *)
(* forgotten, a refresh is due: the timer was started after the update     *)
(* that sent it.  (When all pixels are eligible, or until the first        *)
(* refresh.)                                                               *)
(***************************************************************************)
RefreshIsDue ==
  /\ ~putImageOnly \/ alr.firstUpdate
  /\ ~(lossy \subseteq forgotten)
  => alr.alrTimer
=============================================================================
