------------------------ MODULE LosslessRefresh_proofs ------------------------
(***************************************************************************)
(* For every screen, every history, every choice of what is encoded with   *)
(* loss and every way in which an update or a refresh may be withheld: a   *)
(* refresh leaves the pending update as good as it was, and what the       *)
(* viewer shows inexactly is known to be lossy and a refresh of it is due, *)
(* except for what lossyRegion was emptied of without being sent.          *)
(*                                                                         *)
(* The claims need that what is to be copied, and what was sent with loss, *)
(* is on the screen (OnScreen): a refresh is cut to the screen, and then   *)
(* forgets all that was lossy.                                             *)
(***************************************************************************)
EXTENDS LosslessRefresh, FramebufferUpdate_proofs

OnScreen == cl.copyRegion \subseteq Screen /\ lossy \subseteq Screen

Remembered == LossIsRemembered /\ RefreshIsDue

IInv == TypeOK /\ OnScreen /\ MirrorUnlessExcused /\ Remembered

(***************************************************************************)
(* The client's regions for the refresh.                                   *)
(***************************************************************************)

\* A copy of what is lossy is lossy.
LEMMA CopyLossyLemma ==
  ASSUME NEW a \in Refresh, NEW copied \in SUBSET Pixels, NEW d
  PROVE  LET t == CopyLossy(a, copied, d)
         IN  /\ t \in Refresh /\ t.firstUpdate = a.firstUpdate
             /\ a.lossyRegion \subseteq t.lossyRegion
             /\ Translate(copied, -d) \cap a.lossyRegion # {}
                  => copied \subseteq t.lossyRegion
BY DEF CopyLossy, Refresh

\* What is sent is lossy if it was encoded with loss.
LEMMA EncodeLemma ==
  ASSUME NEW a \in Refresh, NEW sent \in SUBSET Pixels, NEW inexact
  PROVE  LET t == Encode(a, sent, inexact)
         IN  /\ t \in Refresh /\ t.firstUpdate = a.firstUpdate
             /\ t.lossyRegion = (a.lossyRegion \ sent) \cup (sent \cap inexact)
<1> DEFINE region == (a.lossyRegion \ sent) \cup (sent \cap inexact)
           t == Encode(a, sent, inexact)
<1>1. t = [a EXCEPT !.lossyRegion = region]
  BY DEF Encode
<1>2. region \in SUBSET Pixels
  BY DEF Refresh
<1> HIDE DEF region, t
<1>3. t \in Refresh /\ t.lossyRegion = region /\ t.firstUpdate = a.firstUpdate
  BY <1>1, <1>2 DEF Refresh
<1>. QED
  BY <1>3 DEF region, t

\* If all pixels are eligible, or before the first refresh, an update that is
\* sent starts the timer.
LEMMA StartTimerLemma ==
  ASSUME NEW a \in Refresh
  PROVE  LET t == StartTimer(a)
         IN  /\ t \in Refresh
             /\ t.lossyRegion = a.lossyRegion
             /\ t.firstUpdate = a.firstUpdate
             /\ ~putImageOnly \/ a.firstUpdate => t.alrTimer
<1> DEFINE region  == IF putImageOnly THEN a.alrRegion \cup a.alrEligibleRegion
                      ELSE a.alrRegion
           none    == {}
           yes     == TRUE
           started == [a EXCEPT !.alrRegion = region,
                                !.alrEligibleRegion = none, !.alrTimer = yes]
           t       == StartTimer(a)
<1>1. /\ t = started \/ t = a
      /\ ~putImageOnly \/ a.firstUpdate => t = started
  BY DEF StartTimer
<1>2. region \in SUBSET Pixels /\ none \in SUBSET Pixels
      /\ yes \in BOOLEAN /\ yes
  BY DEF Refresh
<1> HIDE DEF region, none, yes
<1>3. /\ started \in Refresh /\ started.lossyRegion = a.lossyRegion
      /\ started.alrTimer = yes /\ started.firstUpdate = a.firstUpdate
  BY <1>2 DEF Refresh
<1> HIDE DEF started, t
<1>. QED
  BY <1>1, <1>2, <1>3 DEF t

\* What an update copies and sends.
LEMMA SentLemma ==
  ASSUME NEW r \in Client, NEW how
  PROVE  /\ Copied(r) \in SUBSET Pixels
         /\ Copied(r) \subseteq r.copyRegion
         /\ Sent(r, how) \subseteq Screen /\ Sent(r, how) \in SUBSET Pixels
<1>1. Copied(r) \subseteq r.copyRegion
  BY DEF Copied, UpdateCopyRegion, WithStandingRequest, Client
<1>2. r.copyRegion \in SUBSET Pixels
  BY DEF Client
<1>3. Sent(r, how) \subseteq Screen
  BY DEF Sent
<1>. QED
  BY <1>1, <1>2, <1>3, LosslessRefreshAssumption

\* Copies and new contents move pixels of the screen only.
LEMMA CarriedLemma ==
  ASSUME NEW S, NEW r \in Client, NEW how
  PROVE  /\ SendsUpdate(r, how) =>
              Carried(S, r, how)
                = ((S \ Copied(r)) \cup {p \in Copied(r) : p - r.copyDX \in S})
                    \ Sent(r, how)
         /\ ~SendsUpdate(r, how) => Carried(S, r, how) = S
         /\ S \in SUBSET Pixels => Carried(S, r, how) \in SUBSET Pixels
<1>1. Copied(r) \in SUBSET Pixels
  BY SentLemma
<1>. QED
  BY <1>1 DEF Carried

\* What the viewer shows inexactly after an update is remembered if it was
\* before, and a refresh of it is due.
LEMMA UpdateLemma ==
  ASSUME NEW r \in Client, NEW a \in Refresh, NEW how
  PROVE  LET t == AfterUpdate(r, a, how)
         IN  /\ t \in Refresh /\ t.firstUpdate = a.firstUpdate
             /\ lossy \subseteq a.lossyRegion \cup forgotten
                  => StillLossy(r, how)
                       \subseteq t.lossyRegion \cup Carried(forgotten, r, how)
             /\ SendsUpdate(r, how) /\ (~putImageOnly \/ a.firstUpdate)
                  => t.alrTimer
             /\ ~SendsUpdate(r, how) => t = a /\ StillLossy(r, how) = lossy
             /\ lossy \subseteq Screen /\ r.copyRegion \subseteq Screen
                  => StillLossy(r, how) \subseteq Screen
<1> DEFINE copied == Copied(r)
           sent   == Sent(r, how)
           From(S) == {p \in copied : p - r.copyDX \in S}
           c      == CopyLossy(a, copied, r.copyDX)
           e      == Encode(c, sent, how.inexact)
           t      == AfterUpdate(r, a, how)
<1>1. /\ copied \in SUBSET Pixels /\ copied \subseteq r.copyRegion
      /\ sent \subseteq Screen /\ sent \in SUBSET Pixels
  BY SentLemma
<1>2. CASE ~SendsUpdate(r, how)
  BY <1>2, CarriedLemma DEF AfterUpdate, StillLossy
<1>3. CASE SendsUpdate(r, how)
  <2>1. t = StartTimer(e)
    BY <1>3 DEF AfterUpdate
  <2>2. /\ StillLossy(r, how)
             = (((lossy \ copied) \cup From(lossy)) \ sent)
                 \cup (sent \cap how.inexact)
        /\ Carried(forgotten, r, how)
             = ((forgotten \ copied) \cup From(forgotten)) \ sent
    BY <1>3, CarriedLemma DEF StillLossy
  <2>3. \A p \in copied : p - r.copyDX = p + (-r.copyDX)
    BY <1>1, PixelsAssumption DEF Client
  <2> HIDE DEF copied, sent
  <2>4. From(a.lossyRegion) # {}
          => Translate(copied, -r.copyDX) \cap a.lossyRegion # {}
    BY <2>3 DEF Translate
  <2>5. /\ c \in Refresh /\ c.firstUpdate = a.firstUpdate
        /\ a.lossyRegion \subseteq c.lossyRegion
        /\ Translate(copied, -r.copyDX) \cap a.lossyRegion # {}
             => copied \subseteq c.lossyRegion
    BY <1>1, CopyLossyLemma
  <2> HIDE DEF c
  <2>6. /\ e \in Refresh /\ e.firstUpdate = c.firstUpdate
        /\ e.lossyRegion = (c.lossyRegion \ sent) \cup (sent \cap how.inexact)
    BY <1>1, <2>5, EncodeLemma
  <2> HIDE DEF e
  <2>7. /\ t \in Refresh /\ t.lossyRegion = e.lossyRegion
        /\ t.firstUpdate = e.firstUpdate
        /\ ~putImageOnly \/ e.firstUpdate => t.alrTimer
    BY <2>1, <2>6, StartTimerLemma
  <2> HIDE DEF t
  <2>8. \A S : From(S) \subseteq copied
    OBVIOUS
  <2>9. ASSUME lossy \subseteq a.lossyRegion \cup forgotten
        PROVE  From(lossy) \subseteq c.lossyRegion \cup From(forgotten)
    <3>1. From(lossy) \subseteq From(a.lossyRegion) \cup From(forgotten)
      BY <2>9
    <3>2. From(a.lossyRegion) \subseteq c.lossyRegion
      BY <2>4, <2>5, <2>8
    <3>. QED
      BY <3>1, <3>2
  <2> HIDE DEF From
  <2>10. lossy \subseteq a.lossyRegion \cup forgotten
           => StillLossy(r, how)
                \subseteq t.lossyRegion \cup Carried(forgotten, r, how)
    BY <2>2, <2>5, <2>6, <2>7, <2>9
  <2>11. lossy \subseteq Screen /\ r.copyRegion \subseteq Screen
           => StillLossy(r, how) \subseteq Screen
    BY <1>1, <2>2, <2>8
  <2>. QED
    BY <1>3, <2>5, <2>6, <2>7, <2>10, <2>11 DEF t
<1>. QED
  BY <1>2, <1>3

\* Sending an update adds nothing to what is to be copied.
LEMMA SendCopiesLess ==
  ASSUME NEW r \in Client, NEW f, NEW how
  PROVE  SendFramebufferUpdate(r, f, Screen, how).copyRegion \subseteq r.copyRegion
BY DEF SendFramebufferUpdate, Transmit, WithStandingRequest, Client

(***************************************************************************)
(* The steps.                                                              *)
(***************************************************************************)

LEMMA OutcomesLemma ==
  ASSUME NEW how \in Outcomes
  PROVE  how.hold = "none" => how.combine \in BOOLEAN
BY LosslessRefreshAssumption DEF Outcomes

\* rfbSendFramebufferUpdate, with the record that the message left.
LEMMA SendUpdateLemma ==
  ASSUME IInv, NEW r \in Client, NEW how \in Outcomes,
         putImageOnly' = putImageOnly, fb' = fb, excused' = excused,
         r.copyRegion \subseteq cl.copyRegion,
         Mirrors(cl, fb, Screen) => Mirrors(r, fb, Screen),
         SendUpdate(r, how)
  PROVE  IInv'
<1> DEFINE t == SendFramebufferUpdate(r, fb', Screen, how)
<1>1. /\ putImageOnly \in Policies /\ fb \in Contents /\ alr \in Refresh
      /\ excused \in BOOLEAN /\ Screen \in SUBSET Pixels
      /\ cl.copyRegion \subseteq Screen /\ lossy \subseteq Screen
      /\ forgotten \in SUBSET Pixels
  BY LosslessRefreshAssumption DEF IInv, TypeOK, OnScreen, Contents
<1>2. /\ cl' = t /\ alr' = AfterUpdate(r, alr, how)
      /\ lossy' = StillLossy(r, how) /\ forgotten' = Carried(forgotten, r, how)
  BY DEF SendUpdate
<1>3. t \in Client /\ (Mirrors(r, fb, Screen) => Mirrors(t, fb, Screen))
  BY <1>1, OutcomesLemma, SendLemma
<1>4. t.copyRegion \subseteq Screen
  BY <1>1, SendCopiesLess
<1> HIDE DEF t
<1>5. /\ alr' \in Refresh /\ alr'.firstUpdate = alr.firstUpdate
      /\ lossy \subseteq alr.lossyRegion \cup forgotten
           => lossy' \subseteq alr'.lossyRegion \cup forgotten'
      /\ SendsUpdate(r, how) /\ (~putImageOnly \/ alr.firstUpdate)
           => alr'.alrTimer
      /\ ~SendsUpdate(r, how) => alr' = alr /\ lossy' = lossy
      /\ lossy' \subseteq Screen
  BY <1>1, <1>2, UpdateLemma
<1>6. /\ forgotten' \in SUBSET Pixels
      /\ ~SendsUpdate(r, how) => forgotten' = forgotten
  BY <1>1, <1>2, CarriedLemma
<1>7. TypeOK' /\ OnScreen'
  BY <1>1, <1>2, <1>3, <1>4, <1>5, <1>6 DEF TypeOK, OnScreen, Contents
<1>8. MirrorUnlessExcused'
  BY <1>2, <1>3 DEF IInv, MirrorUnlessExcused, Mirrors
<1>9. Remembered'
  BY <1>5, <1>6 DEF IInv, Remembered, LossIsRemembered, RefreshIsDue
<1>. QED
  BY <1>7, <1>8, <1>9 DEF IInv

LEMMA DrawLemma ==
  ASSUME IInv, NEW region \in Regions, NEW v \in Values,
         NEW byImage \in BOOLEAN, Draw(region, v, byImage)
  PROVE  IInv'
<1> DEFINE drawn == region \cap Screen
           t     == AddToModifiedRegion(cl, drawn)
           more  == alr.alrEligibleRegion \cup drawn
           a     == [alr EXCEPT !.alrEligibleRegion = more]
<1>1. /\ putImageOnly \in Policies /\ fb \in Contents /\ alr \in Refresh
      /\ cl \in Client /\ excused \in BOOLEAN /\ Screen \in SUBSET Pixels
      /\ lossy \subseteq Pixels
  BY LosslessRefreshAssumption DEF IInv, TypeOK, Contents
<1>2. /\ fb' = [p \in Pixels |-> IF p \in drawn THEN v ELSE fb[p]]
      /\ cl' = t /\ alr' = IF byImage THEN a ELSE alr
      /\ putImageOnly' = putImageOnly /\ lossy' = lossy /\ excused' = excused
      /\ forgotten' = forgotten
  BY DEF Draw
<1>3. drawn \in SUBSET Pixels /\ more \in SUBSET Pixels
  BY <1>1 DEF Refresh
<1> HIDE DEF drawn, more
<1>4. fb' \in Contents /\ \A p \in Screen \ drawn : fb'[p] = fb[p]
  BY <1>1, <1>2 DEF Contents
<1>5. /\ t \in Client
      /\ Mirrors(cl, fb, Screen) => Mirrors(t, fb', Screen)
  BY <1>1, <1>3, <1>4, AddToModifiedLemma
<1>6. t.copyRegion = cl.copyRegion
  BY DEF AddToModifiedRegion, Client
<1>7. a \in Refresh /\ a.lossyRegion = alr.lossyRegion
      /\ a.alrTimer = alr.alrTimer /\ a.firstUpdate = alr.firstUpdate
  BY <1>1, <1>3 DEF Refresh
<1> HIDE DEF t, a
<1>8. TypeOK' /\ OnScreen'
  BY <1>1, <1>2, <1>4, <1>5, <1>6, <1>7
     DEF IInv, TypeOK, OnScreen, Contents
<1>9. MirrorUnlessExcused'
  BY <1>2, <1>5 DEF IInv, MirrorUnlessExcused, Mirrors
<1>10. Remembered'
  BY <1>2, <1>7 DEF IInv, Remembered, LossIsRemembered, RefreshIsDue
<1>. QED
  BY <1>8, <1>9, <1>10 DEF IInv

LEMMA CopyWindowLemma ==
  ASSUME IInv, NEW old \in Regions, NEW clip \in Regions, NEW dx \in Shifts,
         CopyWindow(old, clip, dx)
  PROVE  IInv'
<1> DEFINE src  == old \cap Screen
           dst  == Translate(src, dx) \cap Screen \cap clip
           copy == CopyRegion(cl, src, dst, dx)
           hard == AddToModifiedRegion(cl, dst)
<1>1. /\ putImageOnly \in Policies /\ fb \in Contents /\ alr \in Refresh
      /\ cl \in Client /\ excused \in BOOLEAN /\ Screen \in SUBSET Pixels
      /\ lossy \subseteq Pixels /\ dx \in Int
  BY LosslessRefreshAssumption DEF IInv, TypeOK, Contents
<1>2. /\ fb' = [p \in Pixels |-> IF p \in dst THEN fb[p - dx] ELSE fb[p]]
      /\ cl' = IF cl.useCopyRect THEN copy ELSE hard
      /\ excused' = (excused \/ /\ cl.copyRegion = {} /\ cl.copyDX # 0
                                /\ cl'.copyRegion # {})
      /\ putImageOnly' = putImageOnly /\ alr' = alr /\ lossy' = lossy
      /\ forgotten' = forgotten
  BY DEF CopyWindow
<1>3. /\ src \in SUBSET Screen /\ dst \in SUBSET Screen
      /\ src \in SUBSET Pixels /\ dst \in SUBSET Pixels
  BY <1>1
<1>4. \A p \in dst : p - dx \in src
  <2> SUFFICES ASSUME NEW p \in dst PROVE p - dx \in src
    OBVIOUS
  <2>1. PICK q \in src : p = q + dx
    BY DEF Translate
  <2>2. q \in Int
    BY <1>1, <1>3, PixelsAssumption
  <2>3. p - dx = q
    BY <1>1, <2>1, <2>2
  <2>. QED
    BY <2>3
<1> HIDE DEF src, dst
<1>5. fb' \in Contents
  <2>1. \A p \in dst : fb[p - dx] \in Values
    BY <1>1, <1>3, <1>4 DEF Contents
  <2>. QED
    BY <1>1, <1>2, <2>1 DEF Contents
<1>6. \A p \in Pixels :
        fb'[p] = IF p \in dst /\ p - dx \in src THEN fb[p - dx] ELSE fb[p]
  BY <1>2, <1>4
<1>7. \A p \in Screen \ dst : fb'[p] = fb[p]
  BY <1>1, <1>6
<1>8. /\ copy \in Client /\ hard \in Client
      /\ Mirrors(cl, fb, Screen) => Mirrors(hard, fb', Screen)
  BY <1>1, <1>3, <1>7, CopyRegionType, AddToModifiedLemma
<1>9. /\ copy.copyRegion \subseteq cl.copyRegion \cup dst
      /\ hard.copyRegion = cl.copyRegion
  <2>1. \A base, pending :
          ComposeCopy(cl, base, dst, pending, dx).copyRegion \subseteq dst
    BY <1>1 DEF ComposeCopy, Client
  <2>2. KeepPendingCopy(cl, dst).copyRegion \subseteq cl.copyRegion
    BY <1>1 DEF KeepPendingCopy, Client
  <2>3. hard.copyRegion = cl.copyRegion
    BY <1>1 DEF AddToModifiedRegion, Client
  <2> HIDE DEF hard
  <2>. QED
    BY <2>1, <2>2, <2>3 DEF CopyRegion
<1>10. ASSUME cl.useCopyRect, ~excused'
       PROVE  Mirrors(copy, fb', Screen)
  <2>1. cl.copyRegion = {} /\ cl.copyDX # 0 => copy.copyRegion = {}
    BY <1>2, <1>10
  <2>2. Mirrors(cl, fb, Screen)
    BY <1>2, <1>10 DEF IInv, MirrorUnlessExcused
  <2>. QED
    BY <1>1, <1>3, <1>5, <1>6, <2>1, <2>2, CopyRegionMirrors
<1> HIDE DEF copy, hard
<1>11. TypeOK' /\ OnScreen'
  BY <1>1, <1>2, <1>3, <1>5, <1>8, <1>9 DEF IInv, TypeOK, OnScreen, Contents
<1>12. MirrorUnlessExcused'
  <2> SUFFICES ASSUME ~excused' PROVE Mirrors(cl', fb', Screen)
    BY DEF MirrorUnlessExcused, Mirrors
  <2>1. ~excused
    BY <1>2
  <2>. QED
    BY <1>2, <1>8, <1>10, <2>1 DEF IInv, MirrorUnlessExcused
<1>13. Remembered'
  BY <1>2 DEF IInv, Remembered, LossIsRemembered, RefreshIsDue
<1>. QED
  BY <1>11, <1>12, <1>13 DEF IInv

\* A record that the message left and that is not sent.
LEMMA RecordLemma ==
  ASSUME IInv, NEW r \in Client,
         putImageOnly' = putImageOnly, fb' = fb, excused' = excused,
         alr' = alr, lossy' = lossy, forgotten' = forgotten, cl' = r,
         r.copyRegion \subseteq cl.copyRegion,
         Mirrors(cl, fb, Screen) => Mirrors(r, fb, Screen)
  PROVE  IInv'
<1>1. TypeOK' /\ OnScreen'
  BY DEF IInv, TypeOK, OnScreen
<1>2. MirrorUnlessExcused'
  BY DEF IInv, MirrorUnlessExcused, Mirrors
<1>3. Remembered'
  BY DEF IInv, Remembered, LossIsRemembered, RefreshIsDue
<1>. QED
  BY <1>1, <1>2, <1>3 DEF IInv

LEMMA SetEncodingsLemma ==
  ASSUME IInv, NEW copyRect \in BOOLEAN, SetEncodings(copyRect)
  PROVE  IInv'
<1> DEFINE yes == TRUE
           t   == [cl EXCEPT !.useCopyRect = copyRect, !.cursorPending = yes]
<1>1. /\ putImageOnly' = putImageOnly /\ fb' = fb /\ excused' = excused
      /\ alr' = alr /\ lossy' = lossy /\ forgotten' = forgotten /\ cl' = t
  BY DEF SetEncodings, ServerKeeps
<1>2. yes \in BOOLEAN /\ cl \in Client
  BY DEF IInv, TypeOK
<1> HIDE DEF yes
<1>3. /\ t \in Client /\ t.viewer = cl.viewer /\ t.copyDX = cl.copyDX
      /\ t.modifiedRegion = cl.modifiedRegion
      /\ t.copyRegion = cl.copyRegion
  BY <1>2 DEF Client
<1> HIDE DEF t
<1>4. Mirrors(cl, fb, Screen) => Mirrors(t, fb, Screen)
  BY <1>3 DEF Mirrors
<1>. QED
  BY <1>1, <1>3, <1>4, RecordLemma

LEMMA RequestLemma ==
  ASSUME IInv, NEW q \in Requests, NEW incremental \in BOOLEAN,
         NEW how \in Outcomes, FramebufferUpdateRequest(q, incremental, how)
  PROVE  IInv'
<1> DEFINE t == Requested(cl, q, incremental)
<1>1. /\ putImageOnly' = putImageOnly /\ fb' = fb /\ excused' = excused
      /\ IF UpdatePending(t) THEN SendUpdate(t, how)
         ELSE cl' = t /\ alr' = alr /\ lossy' = lossy /\ forgotten' = forgotten
  BY DEF FramebufferUpdateRequest, ServerKeeps
<1>2. cl \in Client /\ q \in SUBSET Pixels /\ Screen \in SUBSET Pixels
  BY LosslessRefreshAssumption DEF IInv, TypeOK
<1>3. /\ t \in Client
      /\ Mirrors(cl, fb, Screen) => Mirrors(t, fb, Screen)
  BY <1>2, RequestedLemma
<1>4. t.copyRegion \subseteq cl.copyRegion
  BY <1>2 DEF Requested, Client
<1> HIDE DEF t
<1>. QED
  BY <1>1, <1>3, <1>4, SendUpdateLemma, RecordLemma

LEMMA TimedUpdateLemma ==
  ASSUME IInv, NEW how \in Outcomes, TimedUpdate(how)
  PROVE  IInv'
<1>1. /\ putImageOnly' = putImageOnly /\ fb' = fb /\ excused' = excused
      /\ SendUpdate(cl, how)
  BY DEF TimedUpdate, ServerKeeps
<1>2. cl \in Client
  BY DEF IInv, TypeOK
<1>. QED
  BY <1>1, <1>2, SendUpdateLemma

(***************************************************************************)
(* The refresh.                                                            *)
(***************************************************************************)

\* The client's record while alrCallback sends.
RefreshRecord ==
  [cl EXCEPT !.modifiedRegion = RefreshRegion,
             !.copyRegion = {},
             !.copyDX = 0,
             !.requestedRegion = RefreshRegion]

\* Its refresh state before.
Fired == [alr EXCEPT !.firstUpdate = FALSE, !.alrTimer = FALSE]

LEMMA RefreshRecordLemma ==
  ASSUME TypeOK
  PROVE  /\ RefreshRegion \in SUBSET Pixels
         /\ RefreshRecord \in Client
         /\ RefreshRecord.modifiedRegion = RefreshRegion
         /\ RefreshRecord.requestedRegion = RefreshRegion
         /\ RefreshRecord.copyRegion = {}
         /\ RefreshRecord.viewer = cl.viewer
         /\ Fired \in Refresh /\ Fired.lossyRegion = alr.lossyRegion
         /\ ~Fired.firstUpdate
<1> DEFINE none == {}
           zero == 0
           no   == FALSE
           area == RefreshRegion
<1>1. cl \in Client /\ alr \in Refresh
  BY DEF TypeOK
<1>2. area \in SUBSET Pixels
  BY <1>1 DEF RefreshRegion, Refresh
<1>3. none \in SUBSET Pixels /\ zero \in Int /\ no \in BOOLEAN
  OBVIOUS
<1>4. /\ RefreshRecord = [cl EXCEPT !.modifiedRegion = area,
                                    !.copyRegion = none,
                                    !.copyDX = zero,
                                    !.requestedRegion = area]
      /\ Fired = [alr EXCEPT !.firstUpdate = no, !.alrTimer = no]
  BY DEF RefreshRecord, Fired
<1> HIDE DEF none, zero, no, area
<1>5. /\ RefreshRecord \in Client
      /\ RefreshRecord.modifiedRegion = area
      /\ RefreshRecord.requestedRegion = area
      /\ RefreshRecord.copyRegion = none
      /\ RefreshRecord.viewer = cl.viewer
  BY <1>1, <1>2, <1>3, <1>4 DEF Client
<1>6. /\ Fired \in Refresh /\ Fired.lossyRegion = alr.lossyRegion
      /\ Fired.firstUpdate = no
  BY <1>1, <1>3, <1>4 DEF Refresh
<1>. QED
  BY <1>2, <1>5, <1>6 DEF none, no, area

Refreshed(how) ==
  (IF how.combine THEN Extents(RefreshRegion) ELSE RefreshRegion) \cap Screen

\* A refresh that is sent, and what the viewer then shows.
LEMMA RefreshSent ==
  ASSUME TypeOK, NEW how, how.hold = "none", how.combine \in BOOLEAN,
         RefreshRegion # {}
  PROVE  /\ SendsUpdate(RefreshRecord, how)
         /\ Copied(RefreshRecord) = {}
         /\ Sent(RefreshRecord, how) = Refreshed(how)
         /\ RefreshRegion \cap Screen \subseteq Refreshed(how)
         /\ \A p \in Pixels :
              SendFramebufferUpdate(RefreshRecord, fb, Screen, how).viewer[p]
                = IF p \in Refreshed(how) THEN fb[p] ELSE cl.viewer[p]
<1> DEFINE r == RefreshRecord
           w == [WithStandingRequest(r) EXCEPT !.retry = FALSE]
           t == SendFramebufferUpdate(r, fb, Screen, how)
<1>1. /\ RefreshRegion \in SUBSET Pixels /\ r \in Client
      /\ r.modifiedRegion = RefreshRegion /\ r.requestedRegion = RefreshRegion
      /\ r.copyRegion = {} /\ r.viewer = cl.viewer
  BY RefreshRecordLemma
<1> HIDE DEF r
<1>2. /\ w.modifiedRegion = RefreshRegion /\ w.copyRegion = {}
      /\ RefreshRegion \subseteq w.requestedRegion
      /\ w.viewer = cl.viewer /\ w.cursorPending = r.cursorPending
      /\ WithStandingRequest(r).modifiedRegion = w.modifiedRegion
      /\ WithStandingRequest(r).copyRegion = w.copyRegion
      /\ WithStandingRequest(r).requestedRegion = w.requestedRegion
      /\ WithStandingRequest(r).copyDX = w.copyDX
      /\ w.viewer \in Contents
  BY <1>1 DEF WithStandingRequest, Client, Contents
<1>3. t = IF UpdateRegion(w) = {} /\ ~w.cursorPending THEN w
          ELSE Transmit(w, fb, Screen, how.combine)
  BY DEF SendFramebufferUpdate
<1> HIDE DEF w
<1>4. /\ UpdateRegion(w) = RefreshRegion /\ UpdateCopyRegion(w) = {}
      /\ UpdateRegion(WithStandingRequest(r)) = RefreshRegion
      /\ UpdateCopyRegion(WithStandingRequest(r)) = {}
  BY <1>2 DEF UpdateRegion, UpdateCopyRegion
<1>5. Copied(r) = {} /\ Sent(r, how) = Refreshed(how)
  BY <1>4 DEF Copied, Sent, Refreshed
<1>6. SendsUpdate(r, how)
  BY <1>4 DEF SendsUpdate
<1>7. RefreshRegion \cap Screen \subseteq Refreshed(how)
  BY <1>1, ExtentsAssumption DEF Refreshed
<1>8. t.viewer = Received(w.viewer, {}, w.copyDX, Refreshed(how), fb)
  <2>1. t = Transmit(w, fb, Screen, how.combine)
    BY <1>3, <1>4
  <2>2. w \in Client
    <3>1. fb \in Contents /\ Screen \in SUBSET Pixels
      BY LosslessRefreshAssumption DEF TypeOK, Contents
    <3>. QED
      BY <1>1, <3>1, StandingRequest DEF w
  <2>. QED
    BY <1>4, <2>1, <2>2 DEF Transmit, Refreshed, Client
<1>9. \A p \in Pixels :
        t.viewer[p] = IF p \in Refreshed(how) THEN fb[p] ELSE cl.viewer[p]
  BY <1>2, <1>8 DEF Received
<1>. QED
  BY <1>5, <1>6, <1>7, <1>9 DEF r

\* What alrCallback puts back.
LEMMA RestoredLemma ==
  ASSUME cl \in Client, NEW t \in Client
  PROVE  /\ Restored(t) \in Client
         /\ Restored(t).modifiedRegion = cl.modifiedRegion
         /\ Restored(t).copyRegion = cl.copyRegion
         /\ Restored(t).copyDX = cl.copyDX
         /\ Restored(t).viewer = t.viewer
BY DEF Restored, Client

LEMMA AlrCallbackLemma ==
  ASSUME IInv, NEW how \in Outcomes, AlrCallback(how)
  PROVE  IInv'
<1> DEFINE t == SendFramebufferUpdate(RefreshRecord, fb, Screen, how)
           a == AfterUpdate(RefreshRecord, Fired, how)
<1>1. /\ putImageOnly \in Policies /\ fb \in Contents /\ alr \in Refresh
      /\ cl \in Client /\ excused \in BOOLEAN /\ Screen \in SUBSET Pixels
      /\ lossy \subseteq Screen /\ cl.copyRegion \subseteq Screen /\ TypeOK
      /\ forgotten \in SUBSET Pixels
      /\ lossy \subseteq alr.lossyRegion \cup forgotten
  BY LosslessRefreshAssumption
     DEF IInv, TypeOK, OnScreen, Contents, Remembered, LossIsRemembered
<1>2. /\ putImageOnly' = putImageOnly /\ fb' = fb
      /\ how.inexact = {}
      /\ how.hold = "none" => how.combine \in BOOLEAN
  BY OutcomesLemma DEF AlrCallback
<1>3. /\ RefreshRecord \in Client /\ RefreshRecord.copyRegion = {}
      /\ RefreshRecord.viewer = cl.viewer
      /\ Fired \in Refresh /\ Fired.lossyRegion = alr.lossyRegion
      /\ ~Fired.firstUpdate
  BY <1>1, RefreshRecordLemma
<1>4. CASE RefreshRegion = {}
  <2>1. /\ alr' = Fired /\ cl' = cl /\ lossy' = lossy
        /\ forgotten' = forgotten /\ excused' = excused
    BY <1>4 DEF AlrCallback, Fired
  <2>2. TypeOK' /\ OnScreen'
    BY <1>1, <1>2, <1>3, <2>1 DEF TypeOK, OnScreen, IInv
  <2>3. MirrorUnlessExcused'
    BY <1>2, <2>1 DEF IInv, MirrorUnlessExcused, Mirrors
  <2>4. ~putImageOnly => alr.lossyRegion = {}
    BY <1>4 DEF RefreshRegion
  <2>5. Remembered'
    BY <1>1, <1>2, <1>3, <2>1, <2>4
       DEF Remembered, LossIsRemembered, RefreshIsDue
  <2>. QED
    BY <2>2, <2>3, <2>5 DEF IInv
<1>5. CASE RefreshRegion # {}
  <2> DEFINE none == {}
             last == [a EXCEPT !.lossyRegion = none, !.alrRegion = none]
  <2>1. /\ cl' = Restored(t) /\ alr' = last
        /\ lossy' = StillLossy(RefreshRecord, how)
        /\ forgotten' = Carried(forgotten, RefreshRecord, how) \cup Forgets(how)
        /\ excused' = (excused \/ DisturbsCopy(how))
    BY <1>5 DEF AlrCallback, RefreshRecord, Fired
  <2>2. t \in Client
    BY <1>1, <1>2, <1>3, SendLemma
  <2>3. /\ Restored(t) \in Client
        /\ Restored(t).modifiedRegion = cl.modifiedRegion
        /\ Restored(t).copyRegion = cl.copyRegion
        /\ Restored(t).copyDX = cl.copyDX
        /\ Restored(t).viewer = t.viewer
    BY <1>1, <2>2, RestoredLemma
  <2>4. /\ a \in Refresh
        /\ StillLossy(RefreshRecord, how) \subseteq Screen
        /\ Carried(forgotten, RefreshRecord, how) \in SUBSET Pixels
        /\ Forgets(how) \in SUBSET Pixels
    BY <1>1, <1>3, UpdateLemma, CarriedLemma DEF Forgets, Refresh
  <2>5. none \in SUBSET Pixels
    OBVIOUS
  <2> HIDE DEF none, a
  <2>6. last \in Refresh /\ last.lossyRegion = none
    BY <2>4, <2>5 DEF Refresh
  <2>7. excused' \in BOOLEAN
    BY <1>1, <2>1 DEF DisturbsCopy
  <2> HIDE DEF last
  <2>8. TypeOK' /\ OnScreen'
    BY <1>1, <1>2, <2>1, <2>3, <2>4, <2>6, <2>7
       DEF TypeOK, OnScreen, Contents
  <2>9. ASSUME ~excused'
        PROVE  Mirrors(Restored(t), fb, Screen)
    <3>1. Mirrors(cl, fb, Screen) /\ ~DisturbsCopy(how)
      BY <2>1, <2>9 DEF IInv, MirrorUnlessExcused
    <3>2. CASE how.hold # "none"
      <4>1. t.viewer = cl.viewer
        BY <1>3, <3>2 DEF SendFramebufferUpdate, Client
      <4>. QED
        BY <2>3, <3>1, <4>1 DEF Mirrors
    <3>3. CASE how.hold = "none"
      <4>1. \A p \in Pixels :
              t.viewer[p] = IF p \in Refreshed(how) THEN fb[p] ELSE cl.viewer[p]
        BY <1>1, <1>2, <1>5, <3>3, RefreshSent
      <4>2. Refreshed(how) \subseteq Screen
        BY DEF Refreshed
      <4>3. ASSUME NEW p \in Screen \ cl.modifiedRegion
            PROVE  IF p \in cl.copyRegion
                   THEN /\ p - cl.copyDX \in Pixels
                        /\ t.viewer[p - cl.copyDX] = fb[p]
                   ELSE t.viewer[p] = fb[p]
        <5>1. CASE p \in cl.copyRegion
          <6>1. /\ p - cl.copyDX \in Pixels
                /\ cl.viewer[p - cl.copyDX] = fb[p]
            BY <3>1, <4>3, <5>1 DEF Mirrors
          <6>2. ASSUME p - cl.copyDX \in Refreshed(how)
                PROVE  fb[p - cl.copyDX] = fb[p]
            <7>1. p - cl.copyDX \notin cl.modifiedRegion \cup cl.copyRegion
              BY <3>1, <3>3, <5>1, <6>2 DEF DisturbsCopy, Refreshed
            <7>2. cl.viewer[p - cl.copyDX] = fb[p - cl.copyDX]
              BY <3>1, <4>2, <6>2, <7>1 DEF Mirrors
            <7>. QED
              BY <6>1, <7>2
          <6>. QED
            BY <4>1, <5>1, <6>1, <6>2
        <5>2. CASE p \notin cl.copyRegion
          <6>1. cl.viewer[p] = fb[p]
            BY <3>1, <4>3, <5>2 DEF Mirrors
          <6>. QED
            BY <1>1, <4>1, <5>2, <6>1
        <5>. QED
          BY <5>1, <5>2
      <4> HIDE DEF t
      <4>. QED
        BY <2>3, <4>3 DEF Mirrors
    <3>. QED
      BY <3>2, <3>3
  <2> HIDE DEF t
  <2>10. MirrorUnlessExcused'
    BY <1>2, <2>1, <2>9 DEF MirrorUnlessExcused, Mirrors
  <2>11. lossy' \subseteq forgotten'
    <3>1. CASE how.hold # "none"
      <4>1. ~SendsUpdate(RefreshRecord, how) /\ Forgets(how) = alr.lossyRegion
        BY <3>1 DEF SendsUpdate, Forgets
      <4>2. lossy' = lossy /\ forgotten' = forgotten \cup alr.lossyRegion
        BY <1>3, <2>1, <4>1, CarriedLemma DEF StillLossy
      <4>. QED
        BY <1>1, <4>2
    <3>2. CASE how.hold = "none"
      <4>1. /\ SendsUpdate(RefreshRecord, how) /\ Copied(RefreshRecord) = {}
            /\ RefreshRegion \cap Screen \subseteq Sent(RefreshRecord, how)
            /\ Forgets(how) = alr.lossyRegion \ RefreshRegion
        BY <1>1, <1>2, <1>5, <3>2, RefreshSent DEF Forgets
      <4>2. \A S : Carried(S, RefreshRecord, how) = S \ Sent(RefreshRecord, how)
        BY <1>3, <4>1, CarriedLemma
      <4>3. lossy' = lossy \ Sent(RefreshRecord, how)
        BY <1>2, <2>1, <4>2 DEF StillLossy
      <4>. QED
        BY <1>1, <2>1, <4>1, <4>2, <4>3
    <3>. QED
      BY <3>1, <3>2
  <2>12. Remembered'
    BY <2>11 DEF Remembered, LossIsRemembered, RefreshIsDue
  <2>. QED
    BY <2>8, <2>10, <2>12 DEF IInv
<1>. QED
  BY <1>4, <1>5

(***************************************************************************)
(* The invariant.                                                          *)
(***************************************************************************)

LEMMA InitIInv == Init => IInv
<1> SUFFICES ASSUME Init PROVE IInv
  OBVIOUS
<1> DEFINE none == {}
           no   == FALSE
           yes  == TRUE
<1>1. PICK v \in Values : cl = NewClient(Screen, v)
  BY DEF Init
<1>2. cl \in Client /\ Mirrors(cl, fb, Screen)
  BY <1>1, NewClientLemma, LosslessRefreshAssumption
<1>3. cl.copyRegion = {}
  BY <1>1 DEF NewClient
<1>4. alr = [lossyRegion |-> none, alrRegion |-> none,
             alrEligibleRegion |-> none, firstUpdate |-> yes, alrTimer |-> no]
  BY DEF Init
<1>5. none \in SUBSET Pixels /\ yes \in BOOLEAN /\ no \in BOOLEAN
  OBVIOUS
<1> HIDE DEF none, no, yes
<1>6. alr \in Refresh
  BY <1>4, <1>5 DEF Refresh
<1>7. TypeOK /\ OnScreen
  BY <1>2, <1>3, <1>6 DEF Init, TypeOK, OnScreen
<1>8. Remembered
  BY DEF Init, Remembered, LossIsRemembered, RefreshIsDue
<1>. QED
  BY <1>2, <1>7, <1>8 DEF IInv, MirrorUnlessExcused

LEMMA NextIInv == IInv /\ [Next]_vars => IInv'
<1> SUFFICES ASSUME IInv, [Next]_vars PROVE IInv'
  OBVIOUS
<1>1. CASE ServerStep
  BY <1>1, DrawLemma, CopyWindowLemma DEF ServerStep
<1>2. CASE \E copyRect \in BOOLEAN : SetEncodings(copyRect)
  BY <1>2, SetEncodingsLemma
<1>3. CASE \E how \in Outcomes :
             Request(how) \/ TimedUpdate(how) \/ AlrCallback(how)
  BY <1>3, RequestLemma, TimedUpdateLemma, AlrCallbackLemma DEF Request
<1>4. CASE UNCHANGED vars
  <2>1. cl \in Client
    BY DEF IInv, TypeOK
  <2>. QED
    BY <1>4, <2>1, RecordLemma DEF vars
<1>. QED
  BY <1>1, <1>2, <1>3, <1>4 DEF Next

\* The client's record and its refresh state stay what rfb.h declares.
THEOREM LosslessRefreshType == Spec => []TypeOK
<1>1. IInv => TypeOK
  BY DEF IInv
<1>. QED
  BY InitIInv, NextIInv, <1>1, PTL DEF Spec

\* alrCallback may replace the pending update by its own and put it back:
\* what is put back still brings the viewer's framebuffer to the server's.
THEOREM RefreshKeepsMirror == Spec => []MirrorUnlessExcused
<1>1. IInv => MirrorUnlessExcused
  BY DEF IInv
<1>. QED
  BY InitIInv, NextIInv, <1>1, PTL DEF Spec

\* What the viewer shows inexactly is in the region that the next refresh sends,
\* however it came about, unless a refresh before emptied that region of it
\* without sending it: one that was withheld, or that sent eligible pixels only.
THEOREM LossRemembered == Spec => []LossIsRemembered
<1>1. IInv => LossIsRemembered
  BY DEF IInv, Remembered
<1>. QED
  BY InitIInv, NextIInv, <1>1, PTL DEF Spec

\* Where all pixels are eligible, and everywhere until the first refresh, a
\* refresh is due whenever the viewer shows something inexactly that was not
\* forgotten in that way.
THEOREM RefreshDue == Spec => []RefreshIsDue
<1>1. IInv => RefreshIsDue
  BY DEF IInv, Remembered
<1>. QED
  BY InitIInv, NextIInv, <1>1, PTL DEF Spec
===============================================================================
