----------------------------- MODULE Interframe -----------------------------
(***************************************************************************)
(* Interframe comparison (rfbserver.c): for one viewer the server keeps    *)
(* compareFB, meant to be a copy of the viewer's framebuffer, compares     *)
(* every update with it block by block, and sends only the blocks that     *)
(* differ.  The encoders read the pixels they send from compareFB.         *)
(*                                                                         *)
(* Viewers do not affect one another here, so there is one.  An update may *)
(* be sent at any time (the timers of UpdateTracking are left open), and   *)
(* each attempt may be withheld by deferral, congestion or a fence.        *)
(***************************************************************************)
EXTENDS FramebufferUpdate

CONSTANTS
  Screens,        \* the screens a resize may choose, as sets of pixels
  Regions,        \* the regions that drawing and copying operations name
  Requests,       \* the rectangles a viewer may request
  CURegions,      \* the rectangles of which it may want continuous updates
  Shifts,         \* the displacements of the copies the X server performs
  Displacements,  \* bound: the displacements of copies, single or composed
  Blocks(_),      \* the blocks into which a region is cut to be compared
  Black,          \* the content of memory that was set to zero
  FirstContents,  \* what a new viewer may show
  Combines,       \* whether an update region may be sent as its bounding box
  AlwaysOn        \* rfbInterframe = 1; otherwise it is -1, and comparison
                  \* follows the compression level that the viewer chooses

ASSUME InterframeAssumption ==
  /\ \A s \in Screens : s \subseteq Pixels /\ 0 \in s
  /\ Requests \cup CURegions \subseteq SUBSET Pixels
  /\ Shifts \subseteq Int
  /\ \A R \in SUBSET Pixels : UNION Blocks(R) = R
  /\ Black \in Values /\ FirstContents \subseteq Values
  /\ Combines \subseteq BOOLEAN /\ AlwaysOn \in BOOLEAN

\* The viewers show black before their first update.  It matters only where a
\* buffer is there from the start, which is filled with black too.
ASSUME FirstContentsAssumption == AlwaysOn => FirstContents \subseteq {Black}

VARIABLES
  screen,  \* the pixels of the current framebuffer
  fb,      \* its contents
  cl,      \* the client record
  ice,     \* the client's comparison buffer: on says that there is one
  midway,  \* history: the buffer was allocated in the middle of the session,
           \* because the viewer switched comparison on
  excused  \* history: from here on nothing is claimed of the viewer

vars == <<screen, fb, cl, ice, midway, excused>>

Comparison ==
  [on: BOOLEAN, compareFB: [Pixels -> Values], firstCompare: BOOLEAN,
   ifRegion: SUBSET Pixels]

Blank == [p \in Pixels |-> Black]

NoComparison ==
  [on |-> FALSE, compareFB |-> Blank, firstCompare |-> FALSE, ifRegion |-> {}]

\* A new buffer is filled with zeroes.
InterframeOn(i) ==
  IF i.on THEN i
  ELSE [on |-> TRUE, compareFB |-> Blank, firstCompare |-> TRUE,
        ifRegion |-> {}]

InterframeOff(i) == NoComparison

Outcomes == [hold: {"none"}, combine: Combines]
              \cup {[hold |-> "silent", combine |-> FALSE]}

Init ==
  /\ screen \in Screens
  /\ fb \in [Pixels -> Values]
  /\ \E v \in FirstContents : cl = NewClient(screen, v)
  /\ ice = IF AlwaysOn THEN InterframeOn(NoComparison) ELSE NoComparison
  /\ midway = FALSE /\ excused = FALSE

-----------------------------------------------------------------------------
(***************************************************************************)
(* Sending an update.                                                      *)
(***************************************************************************)

\* Mutant: a new buffer is compared like any other, not sent in full.
CompareBlankBuffer(i, examined) ==
  LET differs(block) == \E p \in block : fb'[p] # i.compareFB[p]
  IN  [i EXCEPT
         !.compareFB = [p \in Pixels |-> IF p \in examined THEN fb'[p] ELSE @[p]],
         !.firstCompare = FALSE,
         !.ifRegion = (@ \cap screen')
                        \cup UNION {b \in Blocks(examined) : differs(b)}]

\* The blocks that differ from compareFB, or all of them the first time, are
\* added to what is to be sent, and compareFB is brought up to date.
Compare(i, examined) ==
  LET differs(block) ==
        i.firstCompare \/ \E p \in block : fb'[p] # i.compareFB[p]
  IN  [i EXCEPT
         !.compareFB = [p \in Pixels |-> IF p \in examined THEN fb'[p] ELSE @[p]],
         !.firstCompare = FALSE,
         !.ifRegion = (@ \cap screen')
                        \cup UNION {b \in Blocks(examined) : differs(b)}]

\* rfbSendCopyRegion: what is copied and what it is copied from are taken to
\* be on the viewer's screen what they are on the server's.
CopyCompared(i, copied, d) ==
  [i EXCEPT !.compareFB =
     [p \in Pixels |-> IF p \in copied \cup Translate(copied, -d)
                       THEN fb'[p] ELSE @[p]]]

\* If comparison leaves nothing, one pixel is sent: some viewers take an empty
\* update as a reason to stop asking.
ToSend(i) == IF i.ifRegion = {} THEN {0} ELSE i.ifRegion

\* The first comparison leaves out a pixel, and it is not to be sent for another
\* reason, that the viewer does not show black as the new buffer has it.
MissesPixels(record, i, examined) ==
  /\ i.firstCompare /\ midway'
  /\ \E p \in screen' \ (examined \cup i.ifRegion) : record.viewer[p] # Black

\* rfbSendFramebufferUpdate.
SendFramebufferUpdateIF(record, i, how) ==
  LET ready    == WithStandingRequest(record)
      copied   == UpdateCopyRegion(ready)
      pixels   == UpdateRegion(ready) \ copied
      examined == (IF how.combine THEN Extents(pixels) ELSE pixels)
                    \cap screen'
      compared == Compare(i, examined)
      final    == CopyCompared(compared, copied, ready.copyDX)
      withheld == \/ how.hold # "none"
                  \/ UpdateRegion(ready) = {} /\ ~ready.cursorPending
      plain    == SendFramebufferUpdate(record, fb', screen', how)
  IN  IF withheld \/ ~i.on
      THEN cl' = plain /\ ice' = i /\ UNCHANGED excused
      ELSE /\ cl' = [plain EXCEPT !.viewer =
                       Received(record.viewer, copied, ready.copyDX,
                                ToSend(compared), final.compareFB)]
           /\ ice' = [final EXCEPT !.ifRegion = {}]
           /\ excused' = (excused \/ MissesPixels(record, i, examined))

-----------------------------------------------------------------------------
(***************************************************************************)
(* The X server draws.                                                     *)
(***************************************************************************)

Draw(region, v) ==
  /\ fb' = [p \in Pixels |-> IF p \in region \cap screen THEN v ELSE fb[p]]
  /\ cl' = AddToModifiedRegion(cl, region \cap screen)
  /\ UNCHANGED <<screen, ice, midway, excused>>

\* rfbCopyWindow.  A displacement that a copy region left behind when it was
\* emptied excuses the viewer (see UpdateTracking).
CopyWindow(old, clip, dx) ==
  LET src == old \cap screen
      dst == Translate(src, dx) \cap screen \cap clip
  IN  /\ fb' = [p \in Pixels |-> IF p \in dst THEN fb[p - dx] ELSE fb[p]]
      /\ cl' = IF cl.useCopyRect THEN CopyRegion(cl, src, dst, dx)
               ELSE AddToModifiedRegion(cl, dst)
      /\ cl'.copyDX \in Displacements
      /\ excused' = (excused \/ /\ cl.copyRegion = {} /\ cl.copyDX # 0
                                /\ cl'.copyRegion # {})
      /\ UNCHANGED <<screen, ice, midway>>

\* The cursor changes shape or is moved by another client, which is told at
\* once, unless an update is deferred already (which is to be withheld).
ChangeCursor(how) ==
  /\ UNCHANGED <<screen, fb, midway>>
  /\ SendFramebufferUpdateIF([cl EXCEPT !.cursorPending = TRUE], ice, how)

\* Mutant: the new buffer is all that a resize gives.
RestartUnmarked(i, newScreen) ==
  IF i.on THEN InterframeOn(InterframeOff(i)) ELSE i

\* vncScreenSetSize gives a client that had a comparison buffer a new one, and
\* marks the whole screen as to be sent whatever the comparison finds.
Restart(i, newScreen) ==
  IF i.on THEN [InterframeOn(InterframeOff(i)) EXCEPT !.ifRegion = newScreen]
  ELSE i

SetScreenSize(newScreen, v, how) ==
  /\ screen' = newScreen
  /\ fb' = [p \in Pixels |-> v]
  /\ midway' = FALSE
  /\ SendFramebufferUpdateIF(ResetRegions(cl, newScreen),
                             Restart(ice, newScreen), how)

-----------------------------------------------------------------------------
(***************************************************************************)
(* Messages from the viewer and timers.                                    *)
(***************************************************************************)

ServerKeeps == UNCHANGED <<screen, fb, midway>>

\* SetEncodings: high says that the compression level is 5 or more.
SetEncodings(copyRect, high) ==
  /\ cl' = [cl EXCEPT !.useCopyRect = copyRect, !.cursorPending = TRUE]
  /\ ice' = IF AlwaysOn THEN ice
            ELSE IF high THEN InterframeOn(ice) ELSE InterframeOff(ice)
  /\ midway' = (midway \/ (ice'.on /\ ~ice.on))
  /\ UNCHANGED <<screen, fb, excused>>

FramebufferUpdateRequest(r, incremental, how) ==
  LET record == Requested(cl, r, incremental)
      wanted == IF incremental \/ ~ice.on THEN ice
                ELSE [ice EXCEPT !.ifRegion = @ \cup r]
  IN  /\ ServerKeeps
      /\ IF UpdatePending(record)
         THEN SendFramebufferUpdateIF(record, wanted, how)
         ELSE cl' = record /\ ice' = wanted /\ UNCHANGED excused

EnableContinuousUpdates(r, enable, how) ==
  LET record == [cl EXCEPT !.cuRegion = r,
                           !.continuousUpdates = enable,
                           !.requestedRegion = IF enable THEN {} ELSE @]
  IN  /\ ServerKeeps
      /\ IF enable THEN SendFramebufferUpdateIF(record, ice, how)
         ELSE cl' = record /\ UNCHANGED <<ice, excused>>

\* rfbDeferredUpdateCallback and updateCallback.
TimedUpdate(how) ==
  /\ UpdatePending(cl)
  /\ ServerKeeps
  /\ SendFramebufferUpdateIF(cl, ice, how)

-----------------------------------------------------------------------------
ServerStep ==
  \/ \E region \in Regions, v \in Values : Draw(region, v)
  \/ \E old, clip \in Regions, dx \in Shifts : CopyWindow(old, clip, dx)
  \/ \E how \in Outcomes :
       \/ \E s \in Screens, v \in Values : SetScreenSize(s, v, how)
       \/ ChangeCursor(how) \/ TimedUpdate(how)

ViewerStep ==
  \/ \E copyRect, high \in BOOLEAN : SetEncodings(copyRect, high)
  \/ \E how \in Outcomes, b \in BOOLEAN :
       \/ \E r \in Requests : FramebufferUpdateRequest(r, b, how)
       \/ \E r \in CURegions : EnableContinuousUpdates(r, b, how)

Next == ServerStep \/ ViewerStep

Spec == Init /\ [][Next]_vars

-----------------------------------------------------------------------------
TypeOK ==
  /\ screen \in Screens
  /\ fb \in [Pixels -> Values]
  /\ cl \in Client
  /\ ice \in Comparison
  /\ midway \in BOOLEAN /\ excused \in BOOLEAN

(***************************************************************************)
(* The comparison buffer is a copy of the viewer's framebuffer             *)
(* (performance.txt 126: "maintaining a copy of the remote framebuffer for *)
(* each connected viewer"), through partial updates, copies and resizes,   *)
(* unless the first comparison after it was allocated left pixels out.     *)
(***************************************************************************)
CopyOfRemote ==
  ice.on /\ ~ice.firstCompare /\ ~excused =>
    \A p \in screen : ice.compareFB[p] = cl.viewer[p]

(***************************************************************************)
(* What comparison discards was redundant: a pixel that the pending update *)
(* does not mention is right on the viewer's screen, with the same excuse. *)
(***************************************************************************)
MirrorUnlessExcused == excused \/ Mirrors(cl, fb, screen)
=============================================================================
