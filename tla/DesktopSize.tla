----------------------------- MODULE DesktopSize -----------------------------
(* The size of the desktop and the layout of its screens: who may change    *)
(* them, how a change is carried out, and what each viewer is told of it.   *)
(* A viewer asks for a layout (rfbSetDesktopSize), or an X client of the    *)
(* session changes one output or the size (RandR).  One thread handles all  *)
(* of it, but the handling of one request sends to all viewers on its way:  *)
(* the steps of ResizeDesktop are steps here, and nothing comes between.    *)
(*                                                                          *)
(* Screens have one dimension.  A viewer that can be written to receives    *)
(* everything in order, so its record says what it knows once it has read   *)
(* all that was sent.  Viewers have continuous updates of the whole screen:  *)
(* what is modified is also requested.                                      *)
EXTENDS Integers, Sequences, FiniteSets, ViewerNames

CONSTANTS
  MaxWidth,     \* rfbMaxWidth
  MaxOutputs,   \* bound on the outputs that are created
  Widths,       \* the sizes that may be asked for
  Requests,     \* what viewers ask for: sequences of geometries
  RandomIDs,    \* bound: the identifiers that they draw
  Geometries,   \* what X clients set outputs to
  Capabilities  \* the extensions that viewers have: subsets of {"ds", "eds"}

Off == [x |-> 0, w |-> 0]

NoLayout == <<>>

\* What an output that is on, or a screen, shows of the desktop.
Geometry == [x: Int, w: Nat \ {0}]

\* Screens without an extent are refused (rfbSetDesktopSize).
ASSUME SizesAssumption ==
  /\ MaxWidth \in Nat \ {0} /\ MaxOutputs \in Nat \ {0}
  /\ Widths \subseteq Nat \ {0}
  /\ Widths \cap 1 .. MaxWidth # {}
  /\ Requests \subseteq Seq(Geometry)
  /\ Geometries \subseteq Geometry \cup {Off}
  /\ \A i \in DOMAIN RandomIDs : RandomIDs[i] \notin 0 .. MaxOutputs
  /\ Capabilities \subseteq SUBSET {"ds", "eds"}

VARIABLES
  width,         \* rfbFB.width
  crtc,          \* what each output shows, in the order of their creation
  screens,       \* rfbScreens
  blockUpdates,  \* rfbFB.blockUpdates
  cl,            \* the records of the viewers
  pc,            \* where the handling of a change is
  req,           \* the change that is being made
  broken         \* history: a change was given up after outputs were changed,
                 \* or an output could not be cropped

server == <<width, crtc, screens, blockUpdates>>
desktopVars == <<server, cl, pc, req, broken>>

-----------------------------------------------------------------------------
(* The layout.                                                              *)

Active(g) == g # Off

\* The k-th number of a set, and the entries of a list at the places of a set,
\* in order.
Nth(S, k) == CHOOSE n \in S : Cardinality({m \in S : m <= n}) = k

Those(list, S) == [k \in 1 .. Cardinality(S) |-> list[Nth(S, k)]]

\* The identifier of an output is its number.
Screen(out, id, assigned, g) ==
  [out |-> out, id |-> id, assigned |-> assigned, x |-> g.x, w |-> g.w]

Desc(s) == [id |-> s.id, x |-> s.x, w |-> s.w]

Dropped(s) == [s EXCEPT !.id = 0, !.assigned = FALSE]

\* vncUpdateScreenLayout
UpdateLayout(list, crtcs) ==
  [i \in DOMAIN list |->
     LET s == list[i]  g == crtcs[s.out]
     IN  IF ~Active(g) THEN Dropped(s)
         ELSE Screen(s.out, IF s.assigned THEN s.id ELSE s.out, TRUE, g)]

\* The layout that rfbSendExtDesktopSize describes; where no output is active
\* one screen that fills the desktop.
Layout(list, crtcs, size) ==
  LET on == {i \in DOMAIN list : Active(crtcs[list[i].out])}
  IN  IF on = {} THEN << [id |-> list[1].id, x |-> 0, w |-> size] >>
      ELSE [k \in 1 .. Cardinality(on) |-> Desc(Those(list, on)[k])]

Here == Layout(screens, crtc, width)

Least(a, b) == IF a <= b THEN a ELSE b

\* Mutant: screens that extend beyond the desktop are left as they are.
UnclippedScreens(want, size) ==
  Those(want, {k \in DOMAIN want : want[k].x < size})

\* rfbClipScreens
ClipScreens(want, size) ==
  LET inside == Those(want, {k \in DOMAIN want : want[k].x < size})
  IN  [i \in DOMAIN inside |->
         [inside[i] EXCEPT !.w = Least(@, size - inside[i].x)]]

\* vncScreenSetSize crops what the outputs show to the new size.
Crop(g, size) ==
  IF g.x >= size THEN Off ELSE [g EXCEPT !.w = Least(@, size - g.x)]

(* ResizeDesktop gives each screen that is asked for one of the server's:   *)
(* the one with its identifier, or else one that is left, or a new one.     *)

HasID(list, id) == \E i \in DOMAIN list : list[i].id = id

FindScreenID(list, id) ==
  CHOOSE i \in DOMAIN list :
    list[i].id = id /\ \A j \in DOMAIN list : list[j].id = id => i <= j

\* The screens asked for whose identifiers the server does not know, and the
\* places of the server's list that no identifier names.
Unmatched(list, want) == {k \in DOMAIN want : ~HasID(list, want[k].id)}

Left(list, want) ==
  DOMAIN list \ {FindScreenID(list, want[k].id) :
                   k \in DOMAIN want \ Unmatched(list, want)}

\* The place in the server's list of the k-th screen asked for.
Place(list, want, k) ==
  LET left == Left(list, want)
      rank == Cardinality({j \in Unmatched(list, want) : j <= k})
  IN  IF HasID(list, want[k].id) THEN FindScreenID(list, want[k].id)
      ELSE IF rank <= Cardinality(left) THEN Nth(left, rank)
      ELSE Len(list) + rank - Cardinality(left)

Used(list, want) == {Place(list, want, k) : k \in DOMAIN want}

Total(list, want) ==
  LET more == Cardinality(Unmatched(list, want)) - Cardinality(Left(list, want))
  IN  Len(list) + IF more > 0 THEN more ELSE 0

\* New outputs are added to those that there are.
OutputAt(i) ==
  IF i <= Len(screens) THEN screens[i].out ELSE Len(crtc) + i - Len(screens)

\* The server's list with what is asked for.
Assigned(want) ==
  LET used == Used(screens, want)
      Asker(i) == CHOOSE k \in DOMAIN want : Place(screens, want, k) = i
  IN  [i \in 1 .. Total(screens, want) |->
         IF i \in used
           THEN LET s == want[Asker(i)] IN Screen(OutputAt(i), s.id, TRUE, s)
           ELSE screens[i]]

\* The k-th screen asked for is the n-th to be given an output: those that are
\* matched by their identifiers come first.
Turn(list, want, k) ==
  LET unmatched == Unmatched(list, want)
      matched == DOMAIN want \ unmatched
  IN  IF k \in matched THEN Cardinality({j \in matched : j <= k})
      ELSE Cardinality(matched) + Cardinality({j \in unmatched : j <= k})

\* vncReconfigureOutput and vncCreateOutput: the outputs with those of some
\* entries of the list set, and new ones.
Configured(list, set, new) ==
  [o \in 1 .. Len(crtc) + new |->
     IF \E i \in set : list[i].out = o
       THEN LET i == CHOOSE i \in set : list[i].out = o
            IN  [x |-> list[i].x, w |-> list[i].w]
       ELSE IF o \in DOMAIN crtc THEN crtc[o] ELSE Off]

-----------------------------------------------------------------------------
(* What a viewer is sent.                                                   *)

NoClient ==
  [state |-> "absent", ds |-> FALSE, eds |-> FALSE,
   pendingDS |-> FALSE, pendingEDS |-> FALSE,
   reason |-> "server", result |-> "success",
   modified |-> FALSE,
   width |-> 0, layout |-> NoLayout,  \* what the viewer knows
   stale |-> FALSE,   \* history: an error took the place of an announcement,
                     \* or memory ran out before it
   untold |-> FALSE,  \* history: nothing told it the size, because it has
                     \* neither extension, an error took the place of the
                     \* announcement or memory ran out
   misfit |-> FALSE]  \* history: it was sent pixels of a size it did not know

\* A write fails, or the update is withheld for congestion, by a fence that
\* synchronises or to be deferred, or it is sent.
Outcomes == {"sent", "held", "lost"}

IsError(c) == c.reason = "client" /\ c.result = "error"

\* rfbSendExtDesktopSize and rfbSendDesktopSize.  The viewer takes no size
\* from the answer to a request that failed.
Told(c, size, layout) ==
  LET eds == c.pendingEDS /\ c.eds /\ ~IsError(c)
      ds == c.pendingDS /\ c.ds
      missed == \/ c.pendingEDS /\ c.stale /\ IsError(c)
                \/ c.pendingDS /\ ~c.eds /\ c.reason = "server"
  IN  [c EXCEPT !.pendingDS = FALSE, !.pendingEDS = FALSE,
                !.width = IF eds \/ ds THEN size ELSE @,
                !.layout = IF eds THEN layout ELSE @,
                !.stale = @ /\ ~eds,
                !.untold = ~eds /\ ~ds /\ (@ \/ (missed /\ c.width # size))]

\* The rectangles of the update.
Pixels(c, size) ==
  IF c.modified
  THEN [c EXCEPT !.modified = FALSE,
                 !.misfit = @ \/ (c.width # size /\ ~c.untold)]
  ELSE c

\* Mutant: the announcements are taken for sent before it is known whether
\* anything can be sent.
SendForgetful(c, how, size, layout, blocked) ==
  IF c.state # "normal" THEN c
  ELSE IF how = "held" THEN [c EXCEPT !.pendingDS = FALSE, !.pendingEDS = FALSE]
  ELSE IF how = "lost" THEN NoClient
  ELSE IF blocked THEN Told(c, size, layout)
  ELSE Pixels(Told(c, size, layout), size)

\* rfbSendFramebufferUpdate
SendFramebufferUpdate(c, how, size, layout, blocked) ==
  IF c.state # "normal" \/ how = "held" THEN c
  ELSE IF how = "lost" THEN NoClient
  ELSE IF blocked THEN Told(c, size, layout)
  ELSE Pixels(Told(c, size, layout), size)

Send(c, how) == SendFramebufferUpdate(c, how, width, Here, blockUpdates)

Present == {v \in Viewers : cl[v].state # "absent"}

\* rfbSendDesktopSizeAll, with the layout that is in force after the step.
SendDesktopSizeAll(by, reason, how) ==
  cl' = [v \in Viewers |->
    IF cl[v].state = "absent" THEN cl[v]
    ELSE SendFramebufferUpdate(
           [cl[v] EXCEPT !.pendingDS = TRUE, !.pendingEDS = TRUE,
              !.reason = IF v # by /\ reason = "client" THEN "other" ELSE reason,
              !.result = "success"],
           how[v], width', Layout(screens', crtc', width'), blockUpdates')]

\* One viewer's attempt, with what the step changes in its record.
Attempt(v, c, how) ==
  /\ cl' = [cl EXCEPT ![v] = Send(c, how)]
  /\ UNCHANGED <<server, pc, req, broken>>

-----------------------------------------------------------------------------
(* The viewers and what is drawn, while no change is being made.            *)

NoRequest == [by |-> NoViewer, width |-> 0, list |-> <<>>, used |-> {}]

DesktopInit ==
  /\ width \in Widths \cap 1 .. MaxWidth
  /\ crtc = << [x |-> 0, w |-> width] >>
  /\ screens = << Screen(1, 1, TRUE, crtc[1]) >>
  /\ blockUpdates = FALSE
  /\ cl = [v \in Viewers |-> NoClient]
  /\ pc = "idle" /\ req = NoRequest /\ broken = FALSE

\* rfbNewClient: the whole screen is modified.
Connect(v) ==
  /\ cl[v].state = "absent"
  /\ cl' = [cl EXCEPT ![v] = [NoClient EXCEPT !.state = "handshake",
                                              !.modified = TRUE]]
  /\ UNCHANGED <<server, pc, req, broken>>

\* The end of the handshake tells the viewer the size.
ServerInit(v) ==
  /\ cl[v].state = "handshake"
  /\ cl' = [cl EXCEPT ![v].state = "normal", ![v].width = width]
  /\ UNCHANGED <<server, pc, req, broken>>

Disconnect(v) ==
  /\ cl[v].state # "absent"
  /\ cl' = [cl EXCEPT ![v] = NoClient]
  /\ UNCHANGED <<server, pc, req, broken>>

\* An extension that was enabled stays so.
SetEncodings(v, caps) ==
  /\ cl[v].state = "normal"
  /\ cl' = [cl EXCEPT ![v].ds = @ \/ "ds" \in caps,
                      ![v].eds = @ \/ "eds" \in caps]
  /\ UNCHANGED <<server, pc, req, broken>>

\* The first request is answered by the layout: it is not incremental.
UpdateRequest(v, incremental, how) ==
  LET c == [cl[v] EXCEPT !.modified = @ \/ ~incremental,
              !.pendingEDS = @ \/ ~incremental]
  IN  /\ c.state = "normal"
      /\ Attempt(v, c, IF c.modified THEN how ELSE "held")

\* The callback of the timer that a withheld update sets.
Retry(v, how) ==
  /\ cl[v].state = "normal"
  /\ cl[v].modified \/ cl[v].pendingDS \/ cl[v].pendingEDS
  /\ Attempt(v, cl[v], how)

\* ADD_TO_MODIFIED_REGION and SCHEDULE_FB_UPDATE
Drawn(how) ==
  cl' = [v \in Viewers |->
    IF cl[v].state = "absent" THEN cl[v]
    ELSE LET c == [cl[v] EXCEPT !.modified = TRUE]
         IN  IF blockUpdates THEN c ELSE Send(c, how[v])]

Draw(how) == Drawn(how) /\ UNCHANGED <<server, pc, req, broken>>

-----------------------------------------------------------------------------
(* A viewer's request.                                                      *)

\* The answer to a request that failed.  It takes the place of what was still
\* to be told the viewer.
Answer(v, how) ==
  IF cl[v].state = "absent" THEN cl' = cl
  ELSE LET c == cl[v]
           missed == c.eds /\ (c.width # width' \/ c.layout # Here')
           answered == [c EXCEPT !.pendingEDS = TRUE, !.reason = "client",
                                 !.result = "error", !.stale = @ \/ missed]
       IN  cl' = [cl EXCEPT ![v] =
             SendFramebufferUpdate(answered, how, width', Here', blockUpdates')]

Knows(v) == cl[v].state = "normal" /\ cl[v].layout # NoLayout

\* What is drawn at random is nowhere in use.
Unknown ==
  Those(RandomIDs, {i \in DOMAIN RandomIDs :
    /\ ~HasID(screens, RandomIDs[i])
    /\ \A v \in Viewers : ~HasID(cl[v].layout, RandomIDs[i])})

\* The viewer names the screens it asks for by those that it knows, in order.
assignIDs(known, want) ==
  LET unknown == Unknown
  IN  [k \in DOMAIN want |->
         [id |-> IF k <= Len(known) THEN known[k].id ELSE unknown[k - Len(known)],
          x |-> want[k].x, w |-> want[k].w]]

\* Every connected client has one of the extensions.
Supported == \A v \in Present : cl[v].ds \/ cl[v].eds

\* A malformed request, one of a view-only viewer, or one that ResizeDesktop
\* refuses.
RefuseRequest(v, how) ==
  /\ Knows(v)
  /\ UNCHANGED <<server, pc, req, broken>>
  /\ Answer(v, how)

\* All outputs that are asked for are set.
Reconfigure(v, size, want) ==
  LET list == Assigned(want)
      used == Used(screens, want)
  IN  /\ crtc' = Configured(list, used, Len(list) - Len(screens))
      /\ req' = [by |-> v, width |-> size, list |-> list, used |-> used]
      /\ pc' = "disable"
      /\ UNCHANGED <<width, screens, blockUpdates, cl, broken>>

\* Memory runs out for the n-th output, a new one perhaps after it was made.
\* The outputs before it stay as they were set, the server's list as it was.
ReconfigureFails(v, want) ==
  LET Done(n) == {Place(screens, want, k) :
                    k \in {k \in DOMAIN want : Turn(screens, want, k) < n}}
      Created(n) == Cardinality({i \in Done(n) : i > Len(screens)})
  IN  /\ \E n \in 2 .. Len(want) :
         \E more \in IF n > Len(screens) THEN {0, 1} ELSE {0} :
           crtc' = Configured(Assigned(want), Done(n), Created(n) + more)
      /\ broken' = TRUE
      /\ UNCHANGED <<width, screens, blockUpdates, pc, req>>
      /\ \E how \in Outcomes : Answer(v, how)

\* ResizeDesktop up to the outputs that are not used.  The screens lie on the
\* desktop that is asked for, and no two have one identifier.
SetDesktopSize(v, w, want) ==
  LET size == Least(w, MaxWidth)
      named == assignIDs(cl[v].layout, want)
      clipped == ClipScreens(named, size)
  IN  /\ Knows(v) /\ Supported
      /\ Len(want) <= Len(cl[v].layout) + Len(Unknown)
      /\ \A k \in DOMAIN want : want[k].x + want[k].w <= w
      /\ Cardinality({named[k].id : k \in DOMAIN want}) = Len(want)
      /\ clipped # <<>>
      /\ Len(crtc) + Total(screens, clipped) - Len(screens) <= MaxOutputs
      /\ Reconfigure(v, size, clipped) \/ ReconfigureFails(v, clipped)

Unused == DOMAIN req.list \ req.used

ToDisable == {i \in Unused : Active(crtc[req.list[i].out])}

\* vncDisableOutput goes through RandR, which calls vncRRCrtcSet.
DisableOutput(how) ==
  LET i == CHOOSE i \in ToDisable : \A j \in ToDisable : i <= j
  IN  /\ pc = "disable" /\ ToDisable # {}
      /\ crtc' = [crtc EXCEPT ![req.list[i].out] = Off]
      /\ screens' = UpdateLayout(screens, crtc')
      /\ UNCHANGED <<width, blockUpdates, pc, req, broken>>
      /\ SendDesktopSizeAll(NoViewer, "server", how)

DisabledAll ==
  /\ pc = "disable" /\ ToDisable = {}
  /\ req' = [req EXCEPT !.list = [i \in DOMAIN @ |->
               IF i \in Unused THEN Dropped(@[i])
               ELSE @[i]]]
  /\ pc' = IF req.width = width THEN "announce" ELSE "resize"
  /\ UNCHANGED <<server, cl, broken>>

GiveUp(how) ==
  /\ pc' = "idle" /\ req' = NoRequest
  /\ IF req.by = NoViewer THEN cl' = cl ELSE Answer(req.by, how)

\* vncScreenSetSize has no memory for the framebuffer.
ResizeFails(how) ==
  /\ pc = "resize"
  /\ broken' = (broken \/ req.by # NoViewer)
  /\ UNCHANGED server
  /\ GiveUp(how)

\* Mutant: updates are not blocked.
ResizeUnblocked ==
  /\ pc = "resize"
  /\ width' = req.width
  /\ pc' = "expose"
  /\ UNCHANGED <<crtc, screens, blockUpdates, cl, req, broken>>

Resize ==
  /\ pc = "resize"
  /\ width' = req.width /\ blockUpdates' = TRUE
  /\ pc' = "expose"
  /\ UNCHANGED <<crtc, screens, cl, req, broken>>

\* xf86SetRootClip draws what is exposed.
Expose(how) ==
  /\ pc = "expose"
  /\ Drawn(how)
  /\ pc' = "crop"
  /\ UNCHANGED <<server, req, broken>>

\* The outputs that show more than there is: those of a request that failed
\* half way which no screen of the server's has.
Cut == {o \in DOMAIN crtc :
          Active(crtc[o]) /\ crtc[o].x < width /\ crtc[o].x + crtc[o].w > width}

\* The end of vncScreenSetSize.  There may be no memory for the modes of some
\* outputs, which are then left uncropped, nor for the comparison buffers of
\* some clients.  (vncCrtcSet does not fail here: an output keeps its CRTC or
\* loses it, and neither takes memory in RRCrtcNotify.)
CropScreens(closed, uncropped, how) ==
  LET c == [v \in Viewers |->
              IF v \in closed THEN NoClient
              ELSE IF cl[v].state = "absent" THEN cl[v]
              ELSE [cl[v] EXCEPT !.modified = TRUE]]
  IN  /\ pc = "crop"
      /\ crtc' = [o \in DOMAIN crtc |->
                     IF o \in uncropped THEN crtc[o]
                     ELSE IF Active(crtc[o]) THEN Crop(crtc[o], width) ELSE Off]
      /\ blockUpdates' = FALSE
      /\ UNCHANGED <<width, screens>>
      /\ IF closed = {}
         THEN /\ cl' = c /\ broken' = (uncropped # {})
              /\ req' = [req EXCEPT !.list = UpdateLayout(@, crtc')]
              /\ pc' = "announce"
         ELSE /\ broken' = TRUE /\ pc' = "idle" /\ req' = NoRequest
              /\ cl' = [v \in Viewers |->
                          IF c[v].state = "normal"
                            THEN LET u == [c[v] EXCEPT !.untold = TRUE, !.stale = TRUE]
                                 IN  IF v # req.by THEN u
                                     ELSE SendFramebufferUpdate(
                                            [u EXCEPT !.pendingEDS = TRUE,
                                              !.reason = "client",
                                              !.result = "error"],
                                            how, width, Here', FALSE)
                            ELSE c[v]]

\* The layout is put in force and told to all.  Where that fails for some
\* viewer the one that asked is told of an error.
Announce(how) ==
  LET lost == \E v \in Viewers : cl[v].state = "normal" /\ how[v] = "lost"
  IN  /\ pc = "announce"
      /\ screens' = IF req.by = NoViewer THEN UpdateLayout(screens, crtc)
                    ELSE req.list
      /\ UNCHANGED <<width, crtc, blockUpdates, broken>>
      /\ SendDesktopSizeAll(req.by,
           IF req.by = NoViewer THEN "server" ELSE "client", how)
      /\ pc' = IF lost /\ req.by # NoViewer THEN "answer" ELSE "idle"
      /\ req' = IF lost THEN [NoRequest EXCEPT !.by = req.by] ELSE NoRequest

AnswerError(how) ==
  /\ pc = "answer"
  /\ UNCHANGED <<server, broken>>
  /\ GiveUp(how)

-----------------------------------------------------------------------------
(* An X client changes one output or the size (RandR).                      *)

\* The X server lets no output show more than there is.
CrtcSet(o, g, how) ==
  /\ o \in DOMAIN crtc /\ g # crtc[o]
  /\ g.x + g.w <= width
  /\ crtc' = [crtc EXCEPT ![o] = g]
  /\ screens' = UpdateLayout(screens, crtc')
  /\ UNCHANGED <<width, blockUpdates, pc, req, broken>>
  /\ SendDesktopSizeAll(NoViewer, "server", how)

\* Nor may the size cut what an output shows.
ScreenSizeSet(w) ==
  /\ w <= MaxWidth
  /\ \A o \in DOMAIN crtc : crtc[o].x + crtc[o].w <= w
  /\ req' = [NoRequest EXCEPT !.width = w]
  /\ pc' = "resize"
  /\ UNCHANGED <<server, cl, broken>>

-----------------------------------------------------------------------------
Hows == [Viewers -> Outcomes]

ViewerStep ==
  \E v \in Viewers :
    \/ Connect(v)
    \/ ServerInit(v)
    \/ Disconnect(v)
    \/ \E caps \in Capabilities : SetEncodings(v, caps)
    \/ \E w \in Widths, want \in Requests : SetDesktopSize(v, w, want)
    \/ \E how \in Outcomes :
         \/ \E incremental \in BOOLEAN : UpdateRequest(v, incremental, how)
         \/ Retry(v, how)
         \/ RefuseRequest(v, how)

ResizeStep ==
  \/ DisabledAll
  \/ Resize
  \/ \E how \in Outcomes : ResizeFails(how) \/ AnswerError(how)
  \/ \E how \in Hows : DisableOutput(how) \/ Expose(how) \/ Announce(how)
  \/ \E closed \in SUBSET Present, uncropped \in SUBSET Cut, how \in Outcomes :
       CropScreens(closed, uncropped, how)

XClientStep ==
  \/ \E how \in Hows : Draw(how)
  \/ \E o \in 1 .. MaxOutputs, g \in Geometries, how \in Hows :
       CrtcSet(o, g, how)
  \/ \E w \in Widths : ScreenSizeSet(w)

DesktopNext ==
  \/ pc = "idle" /\ (ViewerStep \/ XClientStep)
  \/ ResizeStep

DesktopSpec == DesktopInit /\ [][DesktopNext]_desktopVars

-----------------------------------------------------------------------------
\* No viewer is sent pixels of a desktop of another size than it was told of:
\* an update that is due when the size changes waits for the announcement and
\* goes out behind it (blockUpdates of vncScreenSetSize, and the order in which
\* rfbSendFramebufferUpdate sends).  Not claimed where the viewer has neither
\* extension, memory ran out, or an error took the announcement's place.
UpdatesFit == \A v \in Viewers : ~cl[v].misfit

\* Once it was told of a layout, a viewer for which nothing more is pending
\* (pendingExtDesktopResize) knows the size and the layout that are in force,
\* however often they changed, whoever changed them and whatever was withheld
\* (rfbSendDesktopSizeAll).
LayoutKnown ==
  pc = "idle" =>
    \A v \in Viewers :
      LET c == cl[v] IN
      /\ c.state = "normal" /\ c.eds /\ c.layout # NoLayout
      /\ ~c.pendingEDS /\ ~c.stale /\ ~broken
      => c.width = width /\ c.layout = Here

Fits(layout, size) ==
  \A i \in DOMAIN layout : layout[i].w > 0 /\ layout[i].x + layout[i].w <= size

\* A layout that a viewer is told of lies within the size that it is told with
\* it, as the Java viewer checks (setExtendedDesktopSize of CMsgHandler.java):
\* rfbClipScreens, the cropping in vncScreenSetSize and the order of the two
\* within ResizeDesktop.  Not claimed where a change was given up half way, nor
\* while ResizeDesktop switches off the outputs that a request does not use:
\* what is told then describes outputs of the new size and the old size.
ToldLayoutFits ==
  [][\A v \in Viewers :
       cl'[v].layout # cl[v].layout /\ ~broken /\ pc # "disable" =>
         Fits(cl'[v].layout, cl'[v].width)]_desktopVars

=============================================================================
