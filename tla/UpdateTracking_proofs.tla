----------------------- MODULE UpdateTracking_proofs -----------------------
(***************************************************************************)
(* For every screen, every set of viewers and every history: the type      *)
(* invariant of UpdateTracking, and that the pending update of a viewer is *)
(* enough to bring it to the state of the server unless it was misled      *)
(* about a copy.                                                           *)
(***************************************************************************)
EXTENDS UpdateTracking, FramebufferUpdate_proofs

\* Whether drawing defers the update or sends it, the client stays one and what
\* is said of its viewer stays true.
LEMMA ScheduleLemma ==
  ASSUME NEW c \in Clients, NEW r \in Client, NEW how \in Outcomes,
         fb' \in Contents, screen' \in SUBSET Pixels
  PROVE  LET t == ScheduleUpdate(c, r, how)
         IN  /\ t \in Client
             /\ Mirrors(r, fb', screen') => Mirrors(t, fb', screen')
<1> DEFINE t == ScheduleUpdate(c, r, how)
<1>1. CASE t = r
  BY <1>1
<1>2. CASE t = [r EXCEPT !.deferredUpdateScheduled = TRUE]
  BY <1>2 DEF Client, Mirrors
<1>3. CASE t = SendFramebufferUpdate(r, fb', screen', how)
  BY <1>3, SendLemma DEF Outcomes
<1>. QED
  BY <1>1, <1>2, <1>3 DEF ScheduleUpdate, Send

\* A step in which the record of one client changes and the server keeps its
\* framebuffer.
LEMMA OneClientLemma ==
  ASSUME TypeOK, MirrorUnlessMisled, ServerKeeps,
         NEW c \in Clients, NEW r \in Client,
         cl' = [cl EXCEPT ![c] = r],
         Mirrors(cl[c], fb, screen) => Mirrors(r, fb, screen)
  PROVE  TypeOK' /\ MirrorUnlessMisled'
<1>1. TypeOK'
  BY DEF TypeOK, ServerKeeps
<1>2. ASSUME NEW d \in Clients, ~misled'[d]
      PROVE  Mirrors(cl[d], fb, screen)'
  <2>1. /\ fb' = fb /\ screen' = screen /\ misled' = misled
        /\ cl'[d] = IF d = c THEN r ELSE cl[d]
    BY DEF TypeOK, ServerKeeps
  <2>2. Mirrors(cl[d], fb, screen)
    BY <1>2, <2>1 DEF MirrorUnlessMisled
  <2>3. Mirrors(cl'[d], fb, screen)
    BY <2>1, <2>2
  <2>. QED
    BY <2>1, <2>3 DEF Mirrors
<1>. QED
  BY <1>1, <1>2 DEF MirrorUnlessMisled

\* A step that may change every record.
LEMMA AllClientsLemma ==
  ASSUME screen' \in Screens, fb' \in Contents,
         misled' \in [Clients -> BOOLEAN],
         cl' \in [Clients -> Client],
         \A c \in Clients : ~misled'[c] => Mirrors(cl'[c], fb', screen')
  PROVE  TypeOK' /\ MirrorUnlessMisled'
<1>1. TypeOK'
  BY DEF TypeOK, Contents
<1>2. ASSUME NEW c \in Clients, ~misled'[c]
      PROVE  Mirrors(cl[c], fb, screen)'
  <2>1. Mirrors(cl'[c], fb', screen')
    BY <1>2
  <2>. QED
    BY <2>1 DEF Mirrors
<1>. QED
  BY <1>1, <1>2 DEF MirrorUnlessMisled

(***************************************************************************)
(* The steps of the X server.                                              *)
(***************************************************************************)

\* The outcomes of drawing are outcomes.
LEMMA DrawOutcomesLemma ==
  ASSUME NEW how \in DrawOutcomes
  PROVE  how \in [Clients -> Outcomes]
<1>1. CASE DeferUpdates
  <2> DEFINE no   == FALSE
             none == "none"
             idle == [hold |-> none, combine |-> no]
  <2>1. no \in BOOLEAN /\ none \in Holds
    BY UpdateTrackingAssumption
  <2>2. how = [c \in Clients |-> idle]
    BY <1>1 DEF DrawOutcomes
  <2> HIDE DEF no, none
  <2>3. idle \in Outcomes
    BY <2>1 DEF Outcomes
  <2> HIDE DEF idle
  <2>. QED
    BY <2>2, <2>3
<1>2. CASE ~DeferUpdates
  BY <1>2 DEF DrawOutcomes
<1>. QED
  BY <1>1, <1>2

\* Drawing owes the viewer at least what it changes.
LEMMA DrawStep ==
  ASSUME TypeOK, MirrorUnlessMisled,
         NEW region \in Regions, NEW v \in Values,
         NEW how \in [Clients -> Outcomes], Draw(region, v, how)
  PROVE  TypeOK' /\ MirrorUnlessMisled'
<1>1. /\ screen' = screen /\ screen \in Screens /\ screen \in SUBSET Pixels
      /\ fb' \in Contents
      /\ misled' = misled
  BY UpdateTrackingAssumption DEF Draw, TypeOK, Contents
<1>2. ASSUME NEW c \in Clients
      PROVE  /\ cl'[c] \in Client
             /\ ~misled[c] => Mirrors(cl'[c], fb', screen')
  <2> DEFINE r == AddToModifiedRegion(cl[c], region \cap screen)
  <2>1. \A p \in screen \ (region \cap screen) : fb'[p] = fb[p]
    BY <1>1 DEF Draw
  <2>2. cl'[c] = ScheduleUpdate(c, r, how[c])
    BY DEF Draw
  <2>3. r \in Client /\ (Mirrors(cl[c], fb, screen) => Mirrors(r, fb', screen'))
    BY <1>1, <2>1, AddToModifiedLemma DEF TypeOK
  <2>4. how[c] \in Outcomes
    OBVIOUS
  <2> HIDE DEF r
  <2>5. Mirrors(r, fb', screen') => Mirrors(cl'[c], fb', screen')
    BY <1>1, <2>2, <2>3, <2>4, ScheduleLemma
  <2>6. cl'[c] \in Client
    BY <1>1, <2>2, <2>3, <2>4, ScheduleLemma
  <2>. QED
    BY <2>3, <2>5, <2>6 DEF MirrorUnlessMisled
<1>3. cl' \in [Clients -> Client]
  BY <1>2 DEF Draw
<1>. QED
  BY <1>1, <1>2, <1>3, AllClientsLemma DEF TypeOK

\* Copying on the screen owes every viewer a copy it can perform, or the pixels
\* of the destination.
LEMMA CopyStep ==
  ASSUME TypeOK, MirrorUnlessMisled,
         NEW src \in SUBSET screen, NEW visible \in SUBSET screen,
         NEW dst \in SUBSET screen, NEW dx \in Int,
         NEW how \in [Clients -> Outcomes],
         CopyOnScreen(src, visible, dst, dx, how)
  PROVE  TypeOK' /\ MirrorUnlessMisled'
<1> DEFINE copied(c) == IF cl[c].useCopyRect
                        THEN CopyRegion(cl[c], src, dst, dx)
                        ELSE AddToModifiedRegion(cl[c], dst)
<1>1. /\ screen' = screen /\ screen \in Screens /\ screen \in SUBSET Pixels
      /\ src \in SUBSET Pixels /\ dst \in SUBSET Pixels
      /\ visible \in SUBSET Pixels
  BY UpdateTrackingAssumption DEF CopyOnScreen, TypeOK
<1>2. \A p \in Pixels :
        fb'[p] = IF p \in dst /\ p - dx \in visible THEN fb[p - dx] ELSE fb[p]
  BY DEF CopyOnScreen
<1>3. fb \in Contents /\ fb' \in Contents
  <2>1. fb \in Contents
    BY DEF TypeOK, Contents
  <2>2. \A p \in Pixels : fb[p] \in Values
    BY <2>1 DEF Contents
  <2>3. \A p \in Pixels :
          (IF p \in dst /\ p - dx \in visible THEN fb[p - dx] ELSE fb[p])
            \in Values
    BY <1>1, <2>2
  <2>. QED
    BY <2>1, <2>3 DEF Contents, CopyOnScreen
<1>4. /\ cl' = [c \in Clients |-> ScheduleUpdate(c, copied(c), how[c])]
      /\ misled' = [c \in Clients |->
                     \/ misled[c]
                     \/ ComposesStaleOffset(cl[c], copied(c))
                     \/ cl[c].useCopyRect /\ src # visible]
  BY DEF CopyOnScreen
<1>5. ASSUME NEW c \in Clients
      PROVE  /\ cl'[c] \in Client
             /\ ~misled'[c] => Mirrors(cl'[c], fb', screen')
  <2>1. cl[c] \in Client
    BY DEF TypeOK
  <2>2. copied(c) \in Client
    <3>1. CASE cl[c].useCopyRect
      BY <1>1, <2>1, <3>1, CopyRegionType
    <3>2. CASE ~cl[c].useCopyRect
      BY <1>1, <2>1, <3>2 DEF AddToModifiedRegion, Client
    <3>. QED
      BY <3>1, <3>2
  <2>3. ASSUME ~misled'[c]
        PROVE  Mirrors(copied(c), fb', screen')
    <3>1. /\ ~misled[c] /\ ~ComposesStaleOffset(cl[c], copied(c))
          /\ cl[c].useCopyRect => visible = src
      BY <1>4, <2>3
    <3>2. Mirrors(cl[c], fb, screen)
      BY <3>1 DEF MirrorUnlessMisled
    <3>3. CASE cl[c].useCopyRect
      <4>1. Mirrors(CopyRegion(cl[c], src, dst, dx), fb', screen)
        <5>1. cl[c].copyRegion = {} /\ cl[c].copyDX # 0
                => CopyRegion(cl[c], src, dst, dx).copyRegion = {}
          BY <3>1, <3>3 DEF ComposesStaleOffset
        <5>2. \A p \in Pixels :
                fb'[p] = IF p \in dst /\ p - dx \in src THEN fb[p - dx]
                         ELSE fb[p]
          BY <1>2, <3>1, <3>3
        <5>. QED
          BY <1>1, <1>3, <2>1, <3>2, <5>1, <5>2, CopyRegionMirrors
      <4>. QED
        BY <1>1, <3>3, <4>1
    <3>4. CASE ~cl[c].useCopyRect
      <4>1. \A p \in screen \ dst : fb'[p] = fb[p]
        BY <1>1, <1>2
      <4>2. Mirrors(AddToModifiedRegion(cl[c], dst), fb', screen)
        BY <1>1, <2>1, <3>2, <4>1, AddToModifiedLemma
      <4>. QED
        BY <1>1, <3>4, <4>2
    <3>. QED
      BY <3>3, <3>4
  <2>4. how[c] \in Outcomes /\ cl'[c] = ScheduleUpdate(c, copied(c), how[c])
    BY <1>4
  <2> HIDE DEF copied
  <2>5. Mirrors(copied(c), fb', screen') => Mirrors(cl'[c], fb', screen')
    BY <1>1, <1>3, <2>2, <2>4, ScheduleLemma
  <2>6. cl'[c] \in Client
    BY <1>1, <1>3, <2>2, <2>4, ScheduleLemma
  <2>. QED
    BY <2>3, <2>5, <2>6
<1>6. cl' \in [Clients -> Client]
  BY <1>4, <1>5
<1>7. misled' \in [Clients -> BOOLEAN]
  BY <1>4 DEF TypeOK, ComposesStaleOffset
<1>. QED
  BY <1>1, <1>3, <1>5, <1>6, <1>7, AllClientsLemma

\* After a resize everything is owed, so nothing is claimed of the viewer but
\* what the update sent at once has brought.
LEMMA ResizeStep ==
  ASSUME TypeOK, NEW s \in Screens, NEW v \in Values,
         NEW how \in [Clients -> Outcomes], SetScreenSize(s, v, how)
  PROVE  TypeOK' /\ MirrorUnlessMisled'
<1>1. /\ screen' = s /\ s \in SUBSET Pixels
      /\ fb' \in Contents
      /\ misled' \in [Clients -> BOOLEAN]
  BY UpdateTrackingAssumption DEF SetScreenSize, TypeOK, Contents
<1>2. ASSUME NEW c \in Clients
      PROVE  cl'[c] \in Client /\ Mirrors(cl'[c], fb', screen')
  <2> DEFINE r == ResetRegions(cl[c], s)
  <2>1. cl[c] \in Client
    BY DEF TypeOK
  <2>2. r \in Client /\ Mirrors(r, fb', screen')
    BY <1>1, <2>1, ResetLemma
  <2>3. cl'[c] = SendFramebufferUpdate(r, fb', screen', how[c])
    BY DEF SetScreenSize, Send
  <2>4. how[c] \in Outcomes
    OBVIOUS
  <2> HIDE DEF r
  <2>. QED
    BY <1>1, <2>2, <2>3, <2>4, SendLemma DEF Outcomes
<1>3. cl' \in [Clients -> Client]
  BY <1>2 DEF SetScreenSize
<1>. QED
  BY <1>1, <1>2, <1>3, AllClientsLemma

\* A cursor update owes nothing of the framebuffer.
LEMMA CursorStep ==
  ASSUME TypeOK, MirrorUnlessMisled, NEW told \in SUBSET Clients,
         NEW how \in [Clients -> Outcomes], ChangeCursor(told, how)
  PROVE  TypeOK' /\ MirrorUnlessMisled'
<1>1. /\ screen' = screen /\ fb' = fb /\ misled' = misled
      /\ screen \in Screens /\ screen \in SUBSET Pixels /\ fb \in Contents
      /\ misled \in [Clients -> BOOLEAN]
  BY UpdateTrackingAssumption DEF ChangeCursor, TypeOK, Contents
<1>2. ASSUME NEW c \in Clients
      PROVE  /\ cl'[c] \in Client
             /\ ~misled'[c] => Mirrors(cl'[c], fb', screen')
  <2> DEFINE r == [cl[c] EXCEPT !.cursorPending = TRUE]
  <2>1. /\ cl[c] \in Client
        /\ cl'[c] \in {cl[c], r, SendFramebufferUpdate(r, fb, screen, how[c])}
    BY <1>1 DEF ChangeCursor, TypeOK, Send
  <2>2. r \in Client
    BY <2>1 DEF Client
  <2>3. Mirrors(cl[c], fb, screen) => Mirrors(r, fb, screen)
    BY <2>1 DEF Client, Mirrors
  <2>4. how[c] \in Outcomes
    OBVIOUS
  <2> HIDE DEF r
  <2>5. LET sent == SendFramebufferUpdate(r, fb, screen, how[c])
        IN  /\ sent \in Client
            /\ Mirrors(r, fb, screen) => Mirrors(sent, fb, screen)
    BY <1>1, <2>2, <2>4, SendLemma DEF Outcomes
  <2>6. /\ cl'[c] \in Client
        /\ Mirrors(cl[c], fb, screen) => Mirrors(cl'[c], fb, screen)
    BY <2>1, <2>2, <2>3, <2>5
  <2>. QED
    BY <1>1, <2>6 DEF MirrorUnlessMisled
<1>3. cl' \in [Clients -> Client]
  BY <1>2 DEF ChangeCursor
<1>. QED
  BY <1>1, <1>2, <1>3, AllClientsLemma

(***************************************************************************)
(* The messages of a viewer and the timers.                                *)
(***************************************************************************)

\* Turning CopyRect on or off leaves a pending copy as it is.
LEMMA SetEncodingsStep ==
  ASSUME TypeOK, MirrorUnlessMisled, NEW c \in Clients, NEW b \in BOOLEAN,
         SetEncodings(c, b)
  PROVE  TypeOK' /\ MirrorUnlessMisled'
<1> DEFINE r == [cl[c] EXCEPT !.useCopyRect = b, !.cursorPending = TRUE]
<1>1. cl[c] \in Client
  BY DEF TypeOK
<1>2. r \in Client /\ (Mirrors(cl[c], fb, screen) => Mirrors(r, fb, screen))
  BY <1>1 DEF Client, Mirrors
<1>3. cl' = [cl EXCEPT ![c] = r] /\ ServerKeeps
  BY DEF SetEncodings, TypeOK
<1> HIDE DEF r
<1>. QED
  BY <1>2, <1>3, OneClientLemma

\* Send, seen from a step that leaves the framebuffer alone.
LEMMA SendKeeps ==
  ASSUME TypeOK, ServerKeeps, NEW c \in Clients, NEW r \in Client,
         NEW how \in Outcomes
  PROVE  /\ Send(c, r, how) \in Client
         /\ Mirrors(r, fb, screen) => Mirrors(Send(c, r, how), fb, screen)
<1>1. Send(c, r, how) = SendFramebufferUpdate(r, fb, screen, how)
  BY DEF Send, ServerKeeps
<1>2. fb \in Contents /\ screen \in SUBSET Pixels
  BY UpdateTrackingAssumption DEF TypeOK, Contents
<1>. QED
  BY <1>1, <1>2, SendLemma DEF Outcomes

\* A request may add to what is owed, then an update may be sent.
LEMMA RequestStep ==
  ASSUME TypeOK, MirrorUnlessMisled, NEW c \in Clients,
         NEW q \in SUBSET Pixels, NEW incremental \in BOOLEAN,
         NEW elapsed \in BOOLEAN, NEW how \in Outcomes,
         FramebufferUpdateRequest(c, q, incremental, elapsed, how)
  PROVE  TypeOK' /\ MirrorUnlessMisled'
<1> DEFINE r == Requested(cl[c], q, incremental)
           t == [Send(c, r, how) EXCEPT !.deferredUpdateScheduled = FALSE]
<1>1. cl[c] \in Client /\ ServerKeeps
  BY DEF TypeOK, FramebufferUpdateRequest
<1>2. screen \in SUBSET Pixels
  BY UpdateTrackingAssumption DEF TypeOK
<1>3. r \in Client /\ (Mirrors(cl[c], fb, screen) => Mirrors(r, fb, screen))
  BY <1>1, <1>2, RequestedLemma
<1>4. /\ Send(c, r, how) \in Client
      /\ Mirrors(r, fb, screen) => Mirrors(Send(c, r, how), fb, screen)
  BY <1>1, <1>3, SendKeeps
<1>5. /\ t \in Client
      /\ Mirrors(Send(c, r, how), fb, screen) => Mirrors(t, fb, screen)
  BY <1>4 DEF Client, Mirrors
<1>6. cl' = [cl EXCEPT ![c] = t] \/ cl' = [cl EXCEPT ![c] = r]
  BY DEF FramebufferUpdateRequest
<1> HIDE DEF r, t
<1>7. CASE cl' = [cl EXCEPT ![c] = t]
  BY <1>1, <1>3, <1>4, <1>5, <1>7, OneClientLemma
<1>8. CASE cl' = [cl EXCEPT ![c] = r]
  BY <1>1, <1>3, <1>8, OneClientLemma
<1>. QED
  BY <1>6, <1>7, <1>8

\* Continuous updates replace the requests of the viewer, not what it is owed.
LEMMA EnableStep ==
  ASSUME TypeOK, MirrorUnlessMisled, NEW c \in Clients,
         NEW q \in SUBSET Pixels, NEW enable \in BOOLEAN,
         NEW how \in Outcomes, EnableContinuousUpdates(c, q, enable, how)
  PROVE  TypeOK' /\ MirrorUnlessMisled'
<1> DEFINE r == [cl[c] EXCEPT
                   !.cuRegion = q,
                   !.continuousUpdates = enable,
                   !.requestedRegion = IF enable THEN {} ELSE @]
<1>1. cl[c] \in Client /\ ServerKeeps
  BY DEF TypeOK, EnableContinuousUpdates
<1>2. r \in Client /\ (Mirrors(cl[c], fb, screen) => Mirrors(r, fb, screen))
  BY <1>1 DEF Client, Mirrors
<1>3. \/ cl' = [cl EXCEPT ![c] = Send(c, r, how)]
      \/ cl' = [cl EXCEPT ![c] = r]
  BY DEF EnableContinuousUpdates
<1> HIDE DEF r
<1>4. /\ Send(c, r, how) \in Client
      /\ Mirrors(r, fb, screen) => Mirrors(Send(c, r, how), fb, screen)
  BY <1>1, <1>2, SendKeeps
<1>5. CASE cl' = [cl EXCEPT ![c] = Send(c, r, how)]
  BY <1>1, <1>2, <1>4, <1>5, OneClientLemma
<1>6. CASE cl' = [cl EXCEPT ![c] = r]
  BY <1>1, <1>2, <1>6, OneClientLemma
<1>. QED
  BY <1>3, <1>5, <1>6

\* The deferred update timer sends or finds nothing pending.
LEMMA DeferredStep ==
  ASSUME TypeOK, MirrorUnlessMisled, NEW c \in Clients, NEW how \in Outcomes,
         DeferredUpdate(c, how)
  PROVE  TypeOK' /\ MirrorUnlessMisled'
<1> DEFINE r == IF UpdatePending(cl[c]) THEN Send(c, cl[c], how) ELSE cl[c]
           t == [r EXCEPT !.deferredUpdateScheduled = FALSE]
<1>1. cl[c] \in Client /\ ServerKeeps
  BY DEF TypeOK, DeferredUpdate
<1>2. r \in Client /\ (Mirrors(cl[c], fb, screen) => Mirrors(r, fb, screen))
  BY <1>1, SendKeeps
<1> HIDE DEF r
<1>3. t \in Client /\ (Mirrors(r, fb, screen) => Mirrors(t, fb, screen))
  BY <1>2 DEF Client, Mirrors
<1>4. cl' = [cl EXCEPT ![c] = t]
  BY DEF DeferredUpdate, r
<1> HIDE DEF t
<1>. QED
  BY <1>1, <1>2, <1>3, <1>4, OneClientLemma

\* The congestion timer tries again.
LEMMA RetryStep ==
  ASSUME TypeOK, MirrorUnlessMisled, NEW c \in Clients, NEW how \in Outcomes,
         RetryUpdate(c, how)
  PROVE  TypeOK' /\ MirrorUnlessMisled'
<1> DEFINE r == [cl[c] EXCEPT !.retry = FALSE]
<1>1. cl[c] \in Client /\ ServerKeeps
  BY DEF TypeOK, RetryUpdate
<1>2. r \in Client /\ (Mirrors(cl[c], fb, screen) => Mirrors(r, fb, screen))
  BY <1>1 DEF Client, Mirrors
<1>3. cl' = [cl EXCEPT ![c] = Send(c, r, how)]
  BY DEF RetryUpdate
<1> HIDE DEF r
<1>4. /\ Send(c, r, how) \in Client
      /\ Mirrors(r, fb, screen) => Mirrors(Send(c, r, how), fb, screen)
  BY <1>1, <1>2, SendKeeps
<1>. QED
  BY <1>1, <1>2, <1>3, <1>4, OneClientLemma

(***************************************************************************)
(* The invariant.                                                          *)
(***************************************************************************)

\* At first everything is owed, so nothing is claimed of a viewer.
LEMMA InitLemma == Init => TypeOK /\ MirrorUnlessMisled
<1> SUFFICES ASSUME Init
             PROVE  TypeOK /\ MirrorUnlessMisled
  OBVIOUS
<1>1. /\ screen \in Screens /\ screen \in SUBSET Pixels
      /\ fb \in Contents
      /\ misled \in [Clients -> BOOLEAN]
  BY UpdateTrackingAssumption DEF Init, Contents
<1>2. PICK v \in Values : cl = [c \in Clients |-> NewClient(screen, v)]
  BY DEF Init
<1> DEFINE r == NewClient(screen, v)
<1>3. r \in Client /\ Mirrors(r, fb, screen)
  BY <1>1, NewClientLemma
<1> HIDE DEF r
<1>4. cl = [c \in Clients |-> r]
  BY <1>2 DEF r
<1>5. cl \in [Clients -> Client] /\ \A c \in Clients : cl[c] = r
  BY <1>3, <1>4
<1>. QED
  BY <1>1, <1>3, <1>5 DEF TypeOK, MirrorUnlessMisled, Contents

\* Every step keeps both parts of the invariant.
LEMMA NextLemma ==
  TypeOK /\ MirrorUnlessMisled /\ [Next]_vars => TypeOK' /\ MirrorUnlessMisled'
<1> SUFFICES ASSUME TypeOK, MirrorUnlessMisled, [Next]_vars
             PROVE  TypeOK' /\ MirrorUnlessMisled'
  OBVIOUS
<1>1. ASSUME NEW how \in DrawOutcomes, NEW region \in Regions,
             NEW v \in Values, Draw(region, v, how)
      PROVE  TypeOK' /\ MirrorUnlessMisled'
  BY <1>1, DrawOutcomesLemma, DrawStep
<1>2. ASSUME NEW how \in DrawOutcomes, NEW src \in Regions, NEW dst \in Regions,
             NEW dx \in Shifts, CopyWindow(src, dst, dx, how)
      PROVE  TypeOK' /\ MirrorUnlessMisled'
  <2> DEFINE s == src \cap screen
             d == Translate(s, dx) \cap screen \cap dst
  <2>1. s \in SUBSET screen /\ d \in SUBSET screen /\ dx \in Int
    BY UpdateTrackingAssumption
  <2>2. CopyOnScreen(s, s, d, dx, how)
    BY <1>2 DEF CopyWindow
  <2>3. how \in [Clients -> Outcomes]
    BY DrawOutcomesLemma
  <2> HIDE DEF s, d
  <2>. QED
    BY <2>1, <2>2, <2>3, CopyStep
<1>3. ASSUME NEW how \in DrawOutcomes, NEW src \in Regions, NEW dst \in Regions,
             NEW dx \in Shifts, NEW obscured \in BOOLEAN,
             CopyArea(src, obscured, dst, dx, how)
      PROVE  TypeOK' /\ MirrorUnlessMisled'
  <2> DEFINE s == src \cap screen
             d == dst \cap screen
             visible == IF obscured THEN {} ELSE s
  <2>1. /\ s \in SUBSET screen /\ d \in SUBSET screen /\ dx \in Int
        /\ visible \in SUBSET screen
    BY UpdateTrackingAssumption
  <2>2. CopyOnScreen(s, visible, d, dx, how)
    BY <1>3 DEF CopyArea
  <2>3. how \in [Clients -> Outcomes]
    BY DrawOutcomesLemma
  <2> HIDE DEF s, d, visible
  <2>. QED
    BY <2>1, <2>2, <2>3, CopyStep
<1>4. ASSUME NEW s \in Screens, NEW v \in Values,
             NEW how \in [Clients -> Outcomes], SetScreenSize(s, v, how)
      PROVE  TypeOK' /\ MirrorUnlessMisled'
  BY <1>4, ResizeStep
<1>5. ASSUME NEW told \in SUBSET Clients,
             NEW how \in [Clients -> Outcomes], ChangeCursor(told, how)
      PROVE  TypeOK' /\ MirrorUnlessMisled'
  BY <1>5, CursorStep
<1>6. ASSUME NEW c \in Clients, NEW b \in BOOLEAN, SetEncodings(c, b)
      PROVE  TypeOK' /\ MirrorUnlessMisled'
  BY <1>6, SetEncodingsStep
<1>7. ASSUME NEW c \in Clients, NEW q \in Requests, NEW how \in Outcomes,
             NEW enable \in BOOLEAN, EnableContinuousUpdates(c, q, enable, how)
      PROVE  TypeOK' /\ MirrorUnlessMisled'
  <2>1. q \in SUBSET Pixels
    BY UpdateTrackingAssumption
  <2>. QED
    BY <1>7, <2>1, EnableStep
<1>8. ASSUME NEW c \in Clients, NEW q \in Requests, NEW how \in Outcomes,
             NEW incremental \in BOOLEAN, NEW elapsed \in BOOLEAN,
             FramebufferUpdateRequest(c, q, incremental, elapsed, how)
      PROVE  TypeOK' /\ MirrorUnlessMisled'
  <2>1. q \in SUBSET Pixels
    BY UpdateTrackingAssumption
  <2>. QED
    BY <1>8, <2>1, RequestStep
<1>9. ASSUME NEW c \in Clients, NEW how \in Outcomes, DeferredUpdate(c, how)
      PROVE  TypeOK' /\ MirrorUnlessMisled'
  BY <1>9, DeferredStep
<1>10. ASSUME NEW c \in Clients, NEW how \in Outcomes, RetryUpdate(c, how)
       PROVE  TypeOK' /\ MirrorUnlessMisled'
  BY <1>10, RetryStep
<1>11. CASE UNCHANGED vars
  BY <1>11 DEF vars, TypeOK, MirrorUnlessMisled, Mirrors
<1>. QED
  BY <1>1, <1>2, <1>3, <1>4, <1>5, <1>6, <1>7, <1>8, <1>9, <1>10, <1>11
     DEF Next, DrawingStep, ViewerStep, Reconfigure, TimerStep

(***************************************************************************)
(* The framebuffer, the client records and the history variable keep their *)
(* types, for every screen and every set of viewers: the region operations *)
(* of draw.c, rfbserver.c and randr.c never take a region off Pixels.      *)
(***************************************************************************)
THEOREM TypeCorrect == Spec => []TypeOK
BY InitLemma, NextLemma, PTL DEF Spec

(***************************************************************************)
(* The central promise of the update tracking (rfb.h 297-318, draw.c       *)
(* 1735-1761): what is pending for a viewer is enough to bring it to the   *)
(* state of the server, as long as no copy was composed with the           *)
(* displacement of an emptied copy region or made from an obscured window. *)
(***************************************************************************)
THEOREM PendingUpdateSuffices == Spec => []MirrorUnlessMisled
BY InitLemma, NextLemma, PTL DEF Spec

(***************************************************************************)
(* What a displacement is accompanied by.                                  *)
(***************************************************************************)

\* LeftoverOffsetIsPending, of one client.
Owed(r) == r.copyDX # 0 => r.copyRegion \cup r.modifiedRegion # {}

\* An attempt either moves pixels from the copy to what is modified, or resets
\* the displacement.
LEMMA SendOwed ==
  ASSUME NEW r \in Client, NEW f, NEW s, NEW how, Owed(r)
  PROVE  Owed(SendFramebufferUpdate(r, f, s, how))
<1> DEFINE w == [WithStandingRequest(r) EXCEPT !.retry = FALSE]
           t == SendFramebufferUpdate(r, f, s, how)
<1>1. /\ w.copyDX = r.copyDX /\ w.modifiedRegion = r.modifiedRegion
      /\ w.copyRegion = r.copyRegion \ r.modifiedRegion
      /\ w = [w EXCEPT !.copyDX = r.copyDX]
      /\ "copyDX" \in DOMAIN w
  BY DEF WithStandingRequest, Client
<1>2. CASE t = [r EXCEPT !.retry = (how.hold = "congested")]
  BY <1>2 DEF Owed, Client
<1>3. CASE t = w
  BY <1>1, <1>3 DEF Owed
<1>4. CASE t = Transmit(w, f, s, how.combine)
  <2>1. t.copyDX = 0
    BY <1>1, <1>4 DEF Transmit
  <2>. QED
    BY <2>1 DEF Owed
<1>. QED
  BY <1>2, <1>3, <1>4 DEF SendFramebufferUpdate

\* A copy leaves a displacement only with a region to copy.
LEMMA CopyOwed ==
  ASSUME NEW r \in Client, NEW src \in SUBSET Pixels,
         NEW dst \in SUBSET Pixels, NEW dx \in Int, Owed(r)
  PROVE  Owed(CopyRegion(r, src, dst, dx))
<1>1. ASSUME NEW base, NEW pending
      PROVE  Owed(ComposeCopy(r, base, dst, pending, dx))
  BY DEF ComposeCopy, Owed, Client
<1>2. Owed(KeepPendingCopy(r, dst))
  BY DEF KeepPendingCopy, Owed, Client
<1>. QED
  BY <1>1, <1>2 DEF CopyRegion

\* SCHEDULE_FB_UPDATE.
LEMMA ScheduleOwed ==
  ASSUME NEW c \in Clients, NEW r \in Client, NEW how, Owed(r)
  PROVE  Owed(ScheduleUpdate(c, r, how))
<1>1. Owed([r EXCEPT !.deferredUpdateScheduled = TRUE])
  BY DEF Owed, Client
<1>2. Owed(Send(c, r, how))
  BY SendOwed DEF Send
<1>. QED
  BY <1>1, <1>2 DEF ScheduleUpdate

\* What every action does to a client keeps what the displacement needs.
LEMMA OwedNext ==
  ASSUME TypeOK, LeftoverOffsetIsPending, [Next]_vars
  PROVE  LeftoverOffsetIsPending'
<1>1. \A c \in Clients : cl[c] \in Client /\ Owed(cl[c])
  BY DEF TypeOK, LeftoverOffsetIsPending, Owed
<1> SUFFICES ASSUME NEW c \in Clients
             PROVE  Owed(cl'[c])
  BY DEF LeftoverOffsetIsPending, Owed
<1>2. cl \in [Clients -> Client]
  BY DEF TypeOK
<1>3. screen \in SUBSET Pixels
  BY UpdateTrackingAssumption DEF TypeOK
<1>4. ASSUME NEW how, NEW region \in Regions, NEW v, Draw(region, v, how)
      PROVE  Owed(cl'[c])
  <2> DEFINE r == AddToModifiedRegion(cl[c], region \cap screen)
  <2>1. r \in Client /\ Owed(r)
    BY <1>1, <1>3 DEF AddToModifiedRegion, Client, Owed
  <2>2. cl'[c] = ScheduleUpdate(c, r, how[c])
    BY <1>4 DEF Draw
  <2> HIDE DEF r
  <2>. QED
    BY <2>1, <2>2, ScheduleOwed
<1>5. ASSUME NEW how, NEW src \in SUBSET screen, NEW visible,
             NEW dst \in SUBSET screen, NEW dx \in Int,
             CopyOnScreen(src, visible, dst, dx, how)
      PROVE  Owed(cl'[c])
  <2> DEFINE r == IF cl[c].useCopyRect THEN CopyRegion(cl[c], src, dst, dx)
                  ELSE AddToModifiedRegion(cl[c], dst)
  <2>1. /\ AddToModifiedRegion(cl[c], dst) \in Client
        /\ Owed(AddToModifiedRegion(cl[c], dst))
    BY <1>1, <1>3 DEF AddToModifiedRegion, Client, Owed
  <2>2. /\ CopyRegion(cl[c], src, dst, dx) \in Client
        /\ Owed(CopyRegion(cl[c], src, dst, dx))
    BY <1>1, <1>3, CopyRegionType, CopyOwed
  <2>3. r \in Client /\ Owed(r)
    BY <2>1, <2>2
  <2>4. cl'[c] = ScheduleUpdate(c, r, how[c])
    BY <1>5 DEF CopyOnScreen
  <2> HIDE DEF r
  <2>. QED
    BY <2>3, <2>4, ScheduleOwed
<1>6. ASSUME NEW how \in DrawOutcomes, NEW src \in Regions, NEW dst \in Regions,
             NEW dx \in Shifts, CopyWindow(src, dst, dx, how)
      PROVE  Owed(cl'[c])
  <2> DEFINE s == src \cap screen
             d == Translate(s, dx) \cap screen \cap dst
  <2>1. s \in SUBSET screen /\ d \in SUBSET screen /\ dx \in Int
    BY UpdateTrackingAssumption
  <2>2. CopyOnScreen(s, s, d, dx, how)
    BY <1>6 DEF CopyWindow
  <2> HIDE DEF s, d
  <2>. QED
    BY <1>5, <2>1, <2>2
<1>7. ASSUME NEW how \in DrawOutcomes, NEW src \in Regions, NEW dst \in Regions,
             NEW dx \in Shifts, NEW obscured \in BOOLEAN,
             CopyArea(src, obscured, dst, dx, how)
      PROVE  Owed(cl'[c])
  <2> DEFINE s == src \cap screen
             d == dst \cap screen
             visible == IF obscured THEN {} ELSE s
  <2>1. s \in SUBSET screen /\ d \in SUBSET screen /\ dx \in Int
    BY UpdateTrackingAssumption
  <2>2. CopyOnScreen(s, visible, d, dx, how)
    BY <1>7 DEF CopyArea
  <2> HIDE DEF s, d, visible
  <2>. QED
    BY <1>5, <2>1, <2>2
<1>8. ASSUME NEW s \in Screens, NEW v, NEW how, SetScreenSize(s, v, how)
      PROVE  Owed(cl'[c])
  <2> DEFINE r == ResetRegions(cl[c], s)
  <2>0. cl[c] \in Client /\ s \in SUBSET Pixels
    BY <1>1, UpdateTrackingAssumption
  <2>1. r \in Client /\ r.modifiedRegion = s
    BY <2>0 DEF ResetRegions, Client
  <2>2. cl'[c] = Send(c, r, how[c])
    BY <1>8 DEF SetScreenSize
  <2> HIDE DEF r
  <2>3. Owed(r)
    BY <2>1, ScreensAssumption DEF Owed
  <2>. QED
    BY <2>1, <2>2, <2>3, SendOwed DEF Send
<1>9. ASSUME NEW told, NEW how, ChangeCursor(told, how)
      PROVE  Owed(cl'[c])
  <2> DEFINE r == [cl[c] EXCEPT !.cursorPending = TRUE]
  <2>1. r \in Client /\ Owed(r)
    BY <1>1 DEF Owed, Client
  <2>2. cl'[c] \in {cl[c], r, Send(c, r, how[c])}
    BY <1>9 DEF ChangeCursor
  <2> HIDE DEF r
  <2>3. Owed(Send(c, r, how[c]))
    BY <2>1, SendOwed DEF Send
  <2>. QED
    BY <1>1, <2>1, <2>2, <2>3
\* The steps of one viewer.
<1>10. ASSUME NEW d \in Clients, NEW r, Owed(r), cl' = [cl EXCEPT ![d] = r]
       PROVE  Owed(cl'[c])
  BY <1>1, <1>2, <1>10
<1>11. ASSUME NEW d \in Clients, NEW b \in BOOLEAN, SetEncodings(d, b)
       PROVE  Owed(cl'[c])
  <2> DEFINE r == [cl[d] EXCEPT !.useCopyRect = b, !.cursorPending = TRUE]
  <2>1. Owed(r)
    BY <1>1 DEF Owed, Client
  <2>2. cl' = [cl EXCEPT ![d] = r]
    BY <1>2, <1>11 DEF SetEncodings
  <2> HIDE DEF r
  <2>. QED
    BY <1>10, <2>1, <2>2
<1>12. ASSUME NEW d \in Clients, NEW q \in Requests, NEW how \in Outcomes,
              NEW incremental \in BOOLEAN, NEW elapsed \in BOOLEAN,
              FramebufferUpdateRequest(d, q, incremental, elapsed, how)
       PROVE  Owed(cl'[c])
  <2> DEFINE r == Requested(cl[d], q, incremental)
             sent == Send(d, r, how)
             t == [sent EXCEPT !.deferredUpdateScheduled = FALSE]
  <2>0. cl[d] \in Client /\ Owed(cl[d]) /\ q \in SUBSET Pixels
    BY <1>1, UpdateTrackingAssumption
  <2>1. r \in Client /\ Owed(r)
    <3>1. r \in Client
      BY <2>0 DEF Requested, Client
    <3>2. /\ r.copyDX = cl[d].copyDX
          /\ cl[d].copyRegion \cup cl[d].modifiedRegion
               \subseteq r.copyRegion \cup r.modifiedRegion
      BY <2>0 DEF Requested, Client
    <3>. QED
      BY <2>0, <3>1, <3>2 DEF Owed
  <2>2. sent \in Client /\ Owed(sent)
    BY <1>12, <2>1, SendKeeps, SendOwed DEF Send, FramebufferUpdateRequest
  <2> HIDE DEF sent
  <2>3. Owed(t)
    BY <2>2 DEF Owed, Client
  <2>4. cl' = [cl EXCEPT ![d] = t] \/ cl' = [cl EXCEPT ![d] = r]
    BY <1>12 DEF FramebufferUpdateRequest, sent
  <2> HIDE DEF r, t
  <2>. QED
    BY <1>10, <2>1, <2>3, <2>4
<1>13. ASSUME NEW d \in Clients, NEW q \in Requests, NEW how \in Outcomes,
              NEW enable \in BOOLEAN, EnableContinuousUpdates(d, q, enable, how)
       PROVE  Owed(cl'[c])
  <2> DEFINE r == [cl[d] EXCEPT !.cuRegion = q,
                                !.continuousUpdates = enable,
                                !.requestedRegion = IF enable THEN {} ELSE @]
  <2>0. cl[d] \in Client /\ Owed(cl[d]) /\ q \in SUBSET Pixels
    BY <1>1, UpdateTrackingAssumption
  <2>1. r \in Client /\ Owed(r)
    <3>1. r \in Client
      BY <2>0 DEF Client
    <3>2. /\ r.copyDX = cl[d].copyDX
          /\ r.copyRegion = cl[d].copyRegion
          /\ r.modifiedRegion = cl[d].modifiedRegion
      BY <2>0 DEF Client
    <3>. QED
      BY <2>0, <3>1, <3>2 DEF Owed
  <2>2. \/ cl' = [cl EXCEPT ![d] = Send(d, r, how)]
        \/ cl' = [cl EXCEPT ![d] = r]
    BY <1>13 DEF EnableContinuousUpdates
  <2> HIDE DEF r
  <2>3. Owed(Send(d, r, how))
    BY <2>1, SendOwed DEF Send
  <2>. QED
    BY <1>10, <2>1, <2>2, <2>3
<1>14. ASSUME NEW d \in Clients, NEW how \in Outcomes, DeferredUpdate(d, how)
       PROVE  Owed(cl'[c])
  <2> DEFINE r == IF UpdatePending(cl[d]) THEN Send(d, cl[d], how) ELSE cl[d]
             t == [r EXCEPT !.deferredUpdateScheduled = FALSE]
  <2>1. r \in Client /\ Owed(r)
    BY <1>1, <1>14, SendKeeps, SendOwed DEF Send, DeferredUpdate
  <2>2. cl' = [cl EXCEPT ![d] = t]
    BY <1>14 DEF DeferredUpdate
  <2> HIDE DEF r
  <2>3. Owed(t)
    BY <2>1 DEF Owed, Client
  <2> HIDE DEF t
  <2>. QED
    BY <1>10, <2>2, <2>3
<1>15. ASSUME NEW d \in Clients, NEW how, RetryUpdate(d, how)
       PROVE  Owed(cl'[c])
  <2> DEFINE r == [cl[d] EXCEPT !.retry = FALSE]
  <2>1. r \in Client /\ Owed(r)
    BY <1>1 DEF Client, Owed
  <2>2. cl' = [cl EXCEPT ![d] = Send(d, r, how)]
    BY <1>15 DEF RetryUpdate
  <2> HIDE DEF r
  <2>3. Owed(Send(d, r, how))
    BY <2>1, SendOwed DEF Send
  <2>. QED
    BY <1>10, <2>2, <2>3
<1>16. CASE UNCHANGED vars
  BY <1>1, <1>16 DEF vars
<1>. QED
  BY <1>4, <1>6, <1>7, <1>8, <1>9, <1>11, <1>12, <1>13, <1>14, <1>15, <1>16
     DEF Next, DrawingStep, ViewerStep, Reconfigure, TimerStep

(***************************************************************************)
(* A displacement that outlives its copy region is accompanied by pending  *)
(* modifications, for every screen that has a pixel: an update that covers *)
(* them resets it (rfbserver.c 1870, draw.c 1798-1849).                    *)
(***************************************************************************)
THEOREM LeftoverOffsetStaysPending == Spec => []LeftoverOffsetIsPending
<1>1. Init => LeftoverOffsetIsPending
  BY DEF Init, NewClient, LeftoverOffsetIsPending
<1>2. TypeOK /\ LeftoverOffsetIsPending /\ [Next]_vars
        => LeftoverOffsetIsPending'
  BY OwedNext
<1>. QED
  BY <1>1, <1>2, TypeCorrect, PTL DEF Spec
=============================================================================
