----------------------- MODULE FramebufferUpdate_proofs -----------------------
(***************************************************************************)
(* The lemmas about the operators of FramebufferUpdate on which the proofs *)
(* of UpdateTracking, Interframe and LosslessRefresh rest: each operator   *)
(* keeps a client a client, and each keeps what Mirrors says of it.        *)
(***************************************************************************)
EXTENDS FramebufferUpdate, TLAPS

Contents == [Pixels -> Values]

(***************************************************************************)
(* What owes a viewer more.                                                *)
(***************************************************************************)

\* A new client owes everything, so nothing is claimed of its viewer.
LEMMA NewClientLemma ==
  ASSUME NEW s \in SUBSET Pixels, NEW v \in Values, NEW f
  PROVE  NewClient(s, v) \in Client /\ Mirrors(NewClient(s, v), f, s)
<1> DEFINE none  == {}
           no    == FALSE
           zero  == 0
           shown == [p \in Pixels |-> v]
<1>1. /\ none \in SUBSET Pixels /\ no \in BOOLEAN /\ zero \in Int
      /\ shown \in Contents
  BY DEF Contents
<1>2. NewClient(s, v) =
        [modifiedRegion |-> s, copyRegion |-> none, copyDX |-> zero,
         requestedRegion |-> none, cuRegion |-> none,
         continuousUpdates |-> no, useCopyRect |-> no,
         cursorPending |-> no, deferredUpdateScheduled |-> no,
         retry |-> no, viewer |-> shown]
  BY DEF NewClient
<1>3. NewClient(s, v).modifiedRegion = s
  BY DEF NewClient
<1> HIDE DEF none, no, zero, shown
<1>4. NewClient(s, v) \in Client
  BY <1>1, <1>2 DEF Client, Contents
<1>. QED
  BY <1>3, <1>4 DEF Mirrors

\* The viewer shows the same, and is owed at least what it was owed.
Owes(t, r) ==
  /\ t.viewer = r.viewer
  /\ r.modifiedRegion \cup r.copyRegion \subseteq t.modifiedRegion \cup t.copyRegion

\* What is drawn is owed: the rest of the screen is as it was.
LEMMA AddToModifiedLemma ==
  ASSUME NEW r \in Client, NEW f, NEW f2, NEW s \in SUBSET Pixels,
         NEW drawn \in SUBSET Pixels,
         \A p \in s \ drawn : f2[p] = f[p]
  PROVE  LET t == AddToModifiedRegion(r, drawn)
         IN  /\ t \in Client
             /\ Owes(t, r)
             /\ Mirrors(r, f, s) => Mirrors(t, f2, s)
<1> DEFINE t == AddToModifiedRegion(r, drawn)
<1>1. t \in Client
  BY DEF AddToModifiedRegion, Client
<1>2. /\ t.modifiedRegion = r.modifiedRegion \cup drawn
      /\ t.copyRegion = r.copyRegion
      /\ t.copyDX = r.copyDX
      /\ t.viewer = r.viewer
  BY DEF AddToModifiedRegion, Client
<1> HIDE DEF t
<1>3. \A p \in s \ t.modifiedRegion : f2[p] = f[p]
  BY <1>2
<1>4. Mirrors(r, f, s) => Mirrors(t, f2, s)
  BY <1>2, <1>3 DEF Mirrors
<1>. QED
  BY <1>1, <1>2, <1>4 DEF t, Owes

\* A request may add to what is owed.
LEMMA RequestedLemma ==
  ASSUME NEW r \in Client, NEW f, NEW s \in SUBSET Pixels,
         NEW q \in SUBSET Pixels, NEW incremental \in BOOLEAN
  PROVE  LET t == Requested(r, q, incremental)
         IN  /\ t \in Client
             /\ Owes(t, r)
             /\ Mirrors(r, f, s) => Mirrors(t, f, s)
<1> DEFINE t == Requested(r, q, incremental)
<1>1. t \in Client
  BY DEF Requested, Client
<1>2. /\ r.modifiedRegion \subseteq t.modifiedRegion
      /\ t.copyRegion \subseteq r.copyRegion
      /\ r.copyRegion \subseteq t.copyRegion \cup t.modifiedRegion
      /\ t.copyDX = r.copyDX /\ t.viewer = r.viewer
  BY DEF Requested, Client
<1> HIDE DEF t
<1>3. Mirrors(r, f, s) => Mirrors(t, f, s)
  BY <1>2 DEF Mirrors
<1>. QED
  BY <1>1, <1>2, <1>3 DEF t, Owes

\* After a resize everything is owed.
LEMMA ResetLemma ==
  ASSUME NEW r \in Client, NEW f, NEW s \in SUBSET Pixels
  PROVE  LET t == ResetRegions(r, s)
         IN  /\ t \in Client
             /\ t.modifiedRegion = s /\ t.viewer = r.viewer
             /\ Mirrors(t, f, s)
<1> DEFINE t == ResetRegions(r, s)
<1>1. t \in Client /\ t.modifiedRegion = s /\ t.viewer = r.viewer
  BY DEF ResetRegions, Client
<1>. QED
  BY <1>1 DEF Mirrors

(***************************************************************************)
(* Sending.                                                                *)
(***************************************************************************)

\* What is said of the viewer survives the bookkeeping before an update.
LEMMA StandingRequest ==
  ASSUME NEW r \in Client, NEW f \in Contents, NEW s \in SUBSET Pixels
  PROVE  LET w == [WithStandingRequest(r) EXCEPT !.retry = FALSE]
         IN  /\ w \in Client
             /\ w.copyRegion \cap w.modifiedRegion = {}
             /\ Mirrors(r, f, s) => Mirrors(w, f, s)
BY DEF WithStandingRequest, Client, Mirrors

\* An update that is sent leaves a client.
LEMMA TransmitType ==
  ASSUME NEW r \in Client, NEW f \in Contents, NEW s \in SUBSET Pixels,
         NEW combine \in BOOLEAN
  PROVE  Transmit(r, f, s, combine) \in Client
<1> DEFINE copied   == UpdateCopyRegion(r)
           pixels   == UpdateRegion(r) \ copied
           sent     == (IF combine THEN Extents(pixels) ELSE pixels) \cap s
           modified == ((r.modifiedRegion \cup r.copyRegion) \ pixels) \ copied
           shown    == Received(r.viewer, copied, r.copyDX, sent, f)
           none     == {}
           zero     == 0
           no       == FALSE
<1>1. shown \in Contents
  BY DEF Received, Contents, Client
<1>2. modified \in SUBSET Pixels /\ none \in SUBSET Pixels /\ zero \in Int
      /\ no \in BOOLEAN
  BY DEF Client
<1>3. Transmit(r, f, s, combine) =
        [r EXCEPT !.modifiedRegion = modified, !.copyRegion = none,
                  !.copyDX = zero, !.requestedRegion = none,
                  !.cursorPending = no, !.viewer = shown]
  BY DEF Transmit
<1> HIDE DEF modified, shown, none, zero, no
<1>4. [r EXCEPT !.modifiedRegion = modified, !.copyRegion = none,
                !.copyDX = zero, !.requestedRegion = none,
                !.cursorPending = no, !.viewer = shown] \in Client
  BY <1>1, <1>2 DEF Client, Contents
<1>. QED
  BY <1>3, <1>4

\* An update that is sent brings what it covers up to date.
LEMMA TransmitMirrors ==
  ASSUME NEW r \in Client, NEW f \in Contents, NEW s \in SUBSET Pixels,
         NEW combine \in BOOLEAN,
         r.copyRegion \cap r.modifiedRegion = {},
         Mirrors(r, f, s)
  PROVE  Mirrors(Transmit(r, f, s, combine), f, s)
<1> DEFINE t      == Transmit(r, f, s, combine)
           copied == UpdateCopyRegion(r)
           pixels == UpdateRegion(r) \ copied
           sent   == (IF combine THEN Extents(pixels) ELSE pixels) \cap s
<1>1. /\ t.modifiedRegion = ((r.modifiedRegion \cup r.copyRegion) \ pixels)
                              \ copied
      /\ t.copyRegion = {}
      /\ t.viewer = Received(r.viewer, copied, r.copyDX, sent, f)
  BY DEF Transmit, Client
<1>2. pixels \in SUBSET Pixels
  BY DEF UpdateRegion, Client
<1>3. pixels \cap s \subseteq sent
  BY <1>2, ExtentsAssumption
<1>4. ASSUME NEW p \in s \ t.modifiedRegion
      PROVE  t.viewer[p] = f[p]
  <2>1. p \in Pixels
    OBVIOUS
  <2>2. CASE p \in sent
    BY <1>1, <2>1, <2>2 DEF Received
  <2>3. CASE p \notin sent /\ p \in copied
    <3>1. p \in r.copyRegion /\ p \notin r.modifiedRegion
      BY <2>3 DEF UpdateCopyRegion
    <3>2. p - r.copyDX \in Pixels /\ r.viewer[p - r.copyDX] = f[p]
      BY <3>1 DEF Mirrors
    <3>. QED
      BY <1>1, <2>1, <2>3, <3>2 DEF Received
  <2>4. CASE p \notin sent /\ p \notin copied
    <3>1. p \notin r.modifiedRegion /\ p \notin r.copyRegion
      BY <1>1, <1>3, <2>4
    <3>2. r.viewer[p] = f[p]
      BY <3>1 DEF Mirrors
    <3>. QED
      BY <1>1, <2>1, <2>4, <3>2 DEF Received
  <2>. QED
    BY <2>2, <2>3, <2>4
<1>. QED
  BY <1>1, <1>4 DEF Mirrors

\* rfbSendFramebufferUpdate, whatever becomes of the attempt.
LEMMA SendLemma ==
  ASSUME NEW r \in Client, NEW f \in Contents, NEW s \in SUBSET Pixels,
         NEW how, how.hold = "none" => how.combine \in BOOLEAN
  PROVE  LET t == SendFramebufferUpdate(r, f, s, how)
         IN  t \in Client /\ (Mirrors(r, f, s) => Mirrors(t, f, s))
<1> DEFINE t == SendFramebufferUpdate(r, f, s, how)
           w == [WithStandingRequest(r) EXCEPT !.retry = FALSE]
<1>1. CASE how.hold # "none"
  <2>1. t = [r EXCEPT !.retry = (how.hold = "congested")]
    BY <1>1 DEF SendFramebufferUpdate
  <2>. QED
    BY <2>1 DEF Client, Mirrors
<1>2. CASE how.hold = "none"
  <2>1. how.combine \in BOOLEAN
    BY <1>2
  <2>2. t = w \/ t = Transmit(w, f, s, how.combine)
    BY <1>2 DEF SendFramebufferUpdate
  <2>3. w \in Client /\ w.copyRegion \cap w.modifiedRegion = {}
    BY StandingRequest
  <2>4. Mirrors(r, f, s) => Mirrors(w, f, s)
    BY StandingRequest
  <2>5. Transmit(w, f, s, how.combine) \in Client
    BY <2>1, <2>3, TransmitType
  <2>6. Mirrors(w, f, s) => Mirrors(Transmit(w, f, s, how.combine), f, s)
    BY <2>1, <2>3, TransmitMirrors
  <2> HIDE DEF w
  <2>. QED
    BY <2>2, <2>3, <2>4, <2>5, <2>6
<1>. QED
  BY <1>1, <1>2

(***************************************************************************)
(* Copying.                                                                *)
(***************************************************************************)

\* rfbCopyRegion leaves a client, whichever of its branches is taken.
LEMMA CopyRegionType ==
  ASSUME NEW r \in Client, NEW src \in SUBSET Pixels,
         NEW dst \in SUBSET Pixels, NEW dx \in Int
  PROVE  CopyRegion(r, src, dst, dx) \in Client
<1>1. ASSUME NEW base \in SUBSET Pixels, NEW pending \in Int
      PROVE  ComposeCopy(r, base, dst, pending, dx) \in Client
  <2> DEFINE newCopy  == Translate(base, dx) \cap dst
             modified == (r.modifiedRegion \cup dst \cup r.copyRegion) \ newCopy
             offset   == IF newCopy # {} THEN pending + dx ELSE 0
  <2>1. /\ modified \in SUBSET Pixels
        /\ newCopy \in SUBSET Pixels
        /\ offset \in Int
    BY DEF Client
  <2>2. ComposeCopy(r, base, dst, pending, dx) =
          [r EXCEPT !.modifiedRegion = modified, !.copyRegion = newCopy,
                    !.copyDX = offset]
    BY DEF ComposeCopy
  <2> HIDE DEF newCopy, modified, offset
  <2>. QED
    BY <2>1, <2>2 DEF Client, Contents
<1>2. KeepPendingCopy(r, dst) \in Client
  <2> DEFINE modified == r.modifiedRegion \cup dst
             copy     == r.copyRegion \ dst
             offset   == IF r.copyRegion \subseteq dst THEN 0 ELSE r.copyDX
  <2>1. /\ modified \in SUBSET Pixels
        /\ copy \in SUBSET Pixels
        /\ offset \in Int
    BY DEF Client
  <2>2. KeepPendingCopy(r, dst) =
          [r EXCEPT !.modifiedRegion = modified, !.copyRegion = copy,
                    !.copyDX = offset]
    BY DEF KeepPendingCopy
  <2> HIDE DEF modified, copy, offset
  <2>. QED
    BY <2>1, <2>2 DEF Client, Contents
<1>3. r.copyDX \in Int
  BY DEF Client
<1>. QED
  BY <1>1, <1>2, <1>3 DEF CopyRegion

\* The composition is right when what lies pending pixels away from the source
\* on the viewer's side is what the source holds on the server's.
LEMMA ComposeMirrors ==
  ASSUME NEW r \in Client, NEW f \in Contents, NEW f2 \in Contents,
         NEW s \in SUBSET Pixels,
         NEW src \in SUBSET s, NEW base \in SUBSET src,
         NEW dst \in SUBSET s, NEW dx \in Int, NEW pending \in Int,
         Mirrors(r, f, s),
         \A p \in Pixels :
           f2[p] = IF p \in dst /\ p - dx \in src THEN f[p - dx] ELSE f[p],
         \A q \in base : q - pending \in Pixels /\ r.viewer[q - pending] = f[q]
  PROVE  Mirrors(ComposeCopy(r, base, dst, pending, dx), f2, s)
<1> DEFINE t       == ComposeCopy(r, base, dst, pending, dx)
           newCopy == Translate(base, dx) \cap dst
<1>1. /\ t.modifiedRegion = (r.modifiedRegion \cup dst \cup r.copyRegion)
                              \ newCopy
      /\ t.copyRegion = newCopy
      /\ newCopy # {} => t.copyDX = pending + dx
      /\ t.viewer = r.viewer
  BY DEF ComposeCopy, Client
<1>2. ASSUME NEW p \in newCopy
      PROVE  p - t.copyDX \in Pixels /\ t.viewer[p - t.copyDX] = f2[p]
  <2>1. PICK q \in base : p = q + dx
    BY DEF Translate
  <2>2. q \in Int /\ p \in Int /\ p \in Pixels /\ p \in dst
    BY PixelsAssumption
  <2>3. p - dx = q /\ p - t.copyDX = q - pending
    BY <1>1, <2>1, <2>2
  <2>4. f2[p] = f[q]
    BY <2>2, <2>3
  <2>. QED
    BY <1>1, <2>3, <2>4
<1>3. ASSUME NEW p \in s \ t.modifiedRegion, p \notin newCopy
      PROVE  t.viewer[p] = f2[p]
  <2>1. p \notin r.modifiedRegion /\ p \notin dst /\ p \notin r.copyRegion
    BY <1>1, <1>3
  <2>2. r.viewer[p] = f[p]
    BY <2>1 DEF Mirrors
  <2>. QED
    BY <1>1, <2>1, <2>2
<1>. QED
  BY <1>1, <1>2, <1>3 DEF Mirrors

\* rfbCopyRegion accounts for a copy that the server has performed, unless it
\* composes it with the displacement of an empty copy region.
LEMMA CopyRegionMirrors ==
  ASSUME NEW r \in Client, NEW f \in Contents, NEW f2 \in Contents,
         NEW s \in SUBSET Pixels,
         NEW src \in SUBSET s, NEW dst \in SUBSET s, NEW dx \in Int,
         Mirrors(r, f, s),
         \A p \in Pixels :
           f2[p] = IF p \in dst /\ p - dx \in src THEN f[p - dx] ELSE f[p],
         r.copyRegion = {} /\ r.copyDX # 0
           => CopyRegion(r, src, dst, dx).copyRegion = {}
  PROVE  Mirrors(CopyRegion(r, src, dst, dx), f2, s)
<1> DEFINE valid   == src \ r.modifiedRegion
           overlap == valid \cap r.copyRegion
           t       == CopyRegion(r, src, dst, dx)
<1> SUFFICES Mirrors(t, f2, s)
  OBVIOUS
<1>1. r.copyDX \in Int /\ 0 \in Int
  BY DEF Client
<1>2. CASE overlap # {}
  <2>1. t = ComposeCopy(r, overlap, dst, r.copyDX, dx)
    BY <1>2 DEF CopyRegion
  <2>2. \A q \in overlap : /\ q - r.copyDX \in Pixels
                           /\ r.viewer[q - r.copyDX] = f[q]
    BY DEF Mirrors
  <2>3. overlap \in SUBSET src
    OBVIOUS
  <2> HIDE DEF t, overlap, valid
  <2>4. Mirrors(ComposeCopy(r, overlap, dst, r.copyDX, dx), f2, s)
    BY <1>1, <2>2, <2>3, ComposeMirrors
  <2>. QED
    BY <2>1, <2>4
<1>3. CASE overlap = {} /\ r.copyRegion = {}
  <2>1. t = ComposeCopy(r, valid, dst, r.copyDX, dx)
    BY <1>3 DEF CopyRegion
  <2>2. \A q \in valid : q - 0 = q /\ q \in Pixels /\ r.viewer[q] = f[q]
    BY <1>3, PixelsAssumption DEF Mirrors
  <2>3. CASE r.copyDX = 0
    <3>1. valid \in SUBSET src
      OBVIOUS
    <3> HIDE DEF t, overlap, valid
    <3>2. \A q \in valid : /\ q - r.copyDX \in Pixels
                           /\ r.viewer[q - r.copyDX] = f[q]
      BY <2>2, <2>3
    <3>3. Mirrors(ComposeCopy(r, valid, dst, r.copyDX, dx), f2, s)
      BY <1>1, <3>1, <3>2, ComposeMirrors
    <3>. QED
      BY <2>1, <3>3
  <2>4. CASE t.copyRegion = {}
    <3>1. /\ t.modifiedRegion = r.modifiedRegion \cup dst
          /\ t.viewer = r.viewer
      BY <1>3, <2>1, <2>4 DEF ComposeCopy, Client
    <3>2. ASSUME NEW p \in s \ t.modifiedRegion
          PROVE  t.viewer[p] = f2[p]
      BY <1>3, <3>1 DEF Mirrors
    <3>. QED
      BY <2>4, <3>2 DEF Mirrors
  <2>. QED
    BY <1>3, <2>3, <2>4
<1>4. CASE overlap = {} /\ r.copyRegion # {} /\ Area(r.copyRegion) > Area(valid)
  <2>1. t = KeepPendingCopy(r, dst)
    BY <1>4 DEF CopyRegion
  <2>2. /\ t.modifiedRegion = r.modifiedRegion \cup dst
        /\ t.copyRegion = r.copyRegion \ dst
        /\ t.copyRegion # {} => t.copyDX = r.copyDX
        /\ t.viewer = r.viewer
    BY <2>1 DEF KeepPendingCopy, Client
  <2> HIDE DEF t
  <2>3. ASSUME NEW p \in s \ t.modifiedRegion
        PROVE  /\ f2[p] = f[p]
               /\ p \notin r.modifiedRegion
               /\ p \in t.copyRegion <=> p \in r.copyRegion
    BY <2>2, <2>3
  <2>4. ASSUME NEW p \in s \ t.modifiedRegion, p \in t.copyRegion
        PROVE  /\ p - t.copyDX \in Pixels
               /\ t.viewer[p - t.copyDX] = f2[p]
    <3>1. t.copyDX = r.copyDX
      BY <2>2, <2>4
    <3>2. p - r.copyDX \in Pixels /\ r.viewer[p - r.copyDX] = f[p]
      BY <2>3, <2>4 DEF Mirrors
    <3>. QED
      BY <2>2, <2>3, <3>1, <3>2
  <2>5. ASSUME NEW p \in s \ t.modifiedRegion, p \notin t.copyRegion
        PROVE  t.viewer[p] = f2[p]
    BY <2>2, <2>3, <2>5 DEF Mirrors
  <2>. QED
    BY <2>4, <2>5 DEF Mirrors
<1>5. CASE /\ overlap = {} /\ r.copyRegion # {}
           /\ ~(Area(r.copyRegion) > Area(valid))
  <2>1. t = ComposeCopy(r, valid, dst, 0, dx)
    BY <1>5 DEF CopyRegion
  <2>2. \A q \in valid : q - 0 \in Pixels /\ r.viewer[q - 0] = f[q]
    <3>1. \A q \in valid : q \in s \ r.modifiedRegion /\ q \notin r.copyRegion
      BY <1>5
    <3>. QED
      BY <3>1, PixelsAssumption DEF Mirrors
  <2>3. valid \in SUBSET src
    OBVIOUS
  <2> HIDE DEF t, valid
  <2>4. Mirrors(ComposeCopy(r, valid, dst, 0, dx), f2, s)
    BY <1>1, <2>2, <2>3, ComposeMirrors
  <2>. QED
    BY <2>1, <2>4
<1>. QED
  BY <1>2, <1>3, <1>4, <1>5

\* A copy takes nothing from what is owed.
LEMMA CopyRegionOwes ==
  ASSUME NEW r \in Client, NEW src, NEW dst, NEW dx
  PROVE  Owes(CopyRegion(r, src, dst, dx), r)
<1>1. ASSUME NEW base, NEW pending
      PROVE  Owes(ComposeCopy(r, base, dst, pending, dx), r)
  BY DEF ComposeCopy, Client, Owes
<1>2. Owes(KeepPendingCopy(r, dst), r)
  BY DEF KeepPendingCopy, Client, Owes
<1>. QED
  BY <1>1, <1>2 DEF CopyRegion
===============================================================================
