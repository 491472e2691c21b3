--------------------------- MODULE Interframe_proofs ---------------------------
(***************************************************************************)
(* For every screen, every way to cut a region into blocks and every       *)
(* history: the comparison buffer is a copy of the viewer's framebuffer,   *)
(* and what comparison discards was redundant, unless the viewer is        *)
(* excused.                                                                *)
(*                                                                         *)
(* Neither holds without the other.  A block that equals the buffer may be *)
(* discarded because the buffer is what the viewer shows; and the buffer   *)
(* stays what the viewer shows when a copy is sent, whose effect on the    *)
(* viewer is taken from the server's framebuffer, because the pending copy *)
(* was right.  A buffer that was not compared yet is black (FreshBuffer),  *)
(* and unless it was allocated in the middle of the session, either the    *)
(* viewer still shows black or the pixel will be sent in any case          *)
(* (FirstComparison).                                                      *)
(***************************************************************************)
EXTENDS Interframe, FramebufferUpdate_proofs

Fresh(i) == i.on /\ i.firstCompare => i.compareFB = Blank

Starts(i, record, pixels, reallocated) ==
  i.on /\ i.firstCompare /\ ~reallocated =>
    \A p \in pixels : p \in i.ifRegion \/ record.viewer[p] = Black

Agrees(i, record, pixels) ==
  i.on /\ ~i.firstCompare =>
    \A p \in pixels : i.compareFB[p] = record.viewer[p]

Owing(i, record, pixels) ==
  i.on /\ i.firstCompare =>
    i.ifRegion \cap pixels \subseteq record.modifiedRegion \cup record.copyRegion

FreshBuffer == Fresh(ice)
FirstComparison == Starts(ice, cl, screen, midway)
FirstIsOwed == Owing(ice, cl, screen)

IInv == TypeOK /\ FreshBuffer /\ FirstComparison /\ FirstIsOwed
          /\ CopyOfRemote /\ MirrorUnlessExcused

(***************************************************************************)
(* The comparison buffer.                                                  *)
(***************************************************************************)

\* A comparison buffer that was just allocated.
LEMMA BlankType == Blank \in Contents /\ NoComparison \in Comparison
<1> DEFINE none  == {}
           no    == FALSE
           blank == Blank
<1>1. blank \in Contents /\ none \in SUBSET Pixels /\ no \in BOOLEAN
  BY InterframeAssumption DEF Blank, Contents
<1>2. NoComparison = [on |-> no, compareFB |-> blank, firstCompare |-> no,
                      ifRegion |-> none]
  BY DEF NoComparison
<1> HIDE DEF none, no, blank
<1>3. NoComparison \in Comparison
  BY <1>1, <1>2 DEF Comparison, Contents
<1>. QED
  BY <1>1, <1>3 DEF blank

\* InterframeOn leaves a buffer that is there alone.
LEMMA InterframeOnLemma ==
  ASSUME NEW i \in Comparison
  PROVE  LET t == InterframeOn(i)
         IN  /\ t \in Comparison /\ t.on
             /\ i.on => t = i
             /\ ~i.on => /\ t.firstCompare /\ t.compareFB = Blank
                         /\ t.ifRegion = {}
<1> DEFINE none  == {}
           yes   == TRUE
           blank == Blank
           t     == InterframeOn(i)
           new   == [on |-> yes, compareFB |-> blank, firstCompare |-> yes,
                     ifRegion |-> none]
<1>1. blank \in Contents /\ none \in SUBSET Pixels /\ yes \in BOOLEAN
  BY BlankType
<1>2. t = IF i.on THEN i ELSE new
  BY DEF InterframeOn
<1>3. new.on /\ new.firstCompare /\ new.compareFB = Blank /\ new.ifRegion = {}
  OBVIOUS
<1> HIDE DEF none, yes, blank, t
<1>4. new \in Comparison
  BY <1>1 DEF Comparison, Contents
<1> HIDE DEF new
<1>. QED
  BY <1>2, <1>3, <1>4 DEF t

\* What was examined equals the buffer or is sent; on the first comparison it
\* is sent.
LEMMA CompareLemma ==
  ASSUME NEW i \in Comparison, NEW examined \in SUBSET Pixels,
         fb' \in Contents, screen' \in SUBSET Pixels
  PROVE  LET t == Compare(i, examined)
         IN  /\ t \in Comparison
             /\ t.on = i.on /\ ~t.firstCompare
             /\ \A p \in Pixels :
                  t.compareFB[p] = IF p \in examined THEN fb'[p]
                                   ELSE i.compareFB[p]
             /\ i.ifRegion \cap screen' \subseteq t.ifRegion
             /\ \A p \in examined \ t.ifRegion :
                  ~i.firstCompare /\ fb'[p] = i.compareFB[p]
<1> DEFINE differs(block) ==
             i.firstCompare \/ \E p \in block : fb'[p] # i.compareFB[p]
           buffer == [p \in Pixels |-> IF p \in examined THEN fb'[p]
                                       ELSE i.compareFB[p]]
           region == (i.ifRegion \cap screen')
                       \cup UNION {b \in Blocks(examined) : differs(b)}
           no     == FALSE
           t      == Compare(i, examined)
<1>1. t = [i EXCEPT !.compareFB = buffer, !.firstCompare = no,
                    !.ifRegion = region]
  BY DEF Compare
<1>2. UNION Blocks(examined) = examined
  BY InterframeAssumption
<1>3. buffer \in Contents /\ region \in SUBSET Pixels /\ no \in BOOLEAN
  <2>1. i.compareFB \in Contents /\ i.ifRegion \in SUBSET Pixels
    BY DEF Comparison, Contents
  <2>2. UNION {b \in Blocks(examined) : differs(b)} \subseteq examined
    BY <1>2
  <2>. QED
    BY <2>1, <2>2 DEF Contents
<1>4. ASSUME NEW p \in examined, p \notin region
      PROVE  ~i.firstCompare /\ fb'[p] = i.compareFB[p]
  <2>1. PICK b \in Blocks(examined) : p \in b
    BY <1>2
  <2>2. ~differs(b)
    BY <1>4, <2>1
  <2>. QED
    BY <2>1, <2>2
<1>5. \A p \in Pixels :
        buffer[p] = IF p \in examined THEN fb'[p] ELSE i.compareFB[p]
  OBVIOUS
<1>6. i.ifRegion \cap screen' \subseteq region
  OBVIOUS
<1>7. ~no
  OBVIOUS
<1> HIDE DEF buffer, region, no, t
<1>8. /\ t \in Comparison
      /\ t.on = i.on /\ t.firstCompare = no
      /\ t.compareFB = buffer /\ t.ifRegion = region
  BY <1>1, <1>3 DEF Comparison, Contents
<1>. QED
  BY <1>4, <1>5, <1>6, <1>7, <1>8 DEF t

\* What was copied, and what it was copied from, is taken from the server.
LEMMA CopyComparedLemma ==
  ASSUME NEW i \in Comparison, NEW copied, NEW d, fb' \in Contents
  PROVE  LET t == CopyCompared(i, copied, d)
         IN  /\ t \in Comparison
             /\ t.on = i.on /\ t.firstCompare = i.firstCompare
             /\ \A p \in Pixels :
                  t.compareFB[p] = IF p \in copied \cup Translate(copied, -d)
                                   THEN fb'[p] ELSE i.compareFB[p]
<1> DEFINE buffer == [p \in Pixels |->
                        IF p \in copied \cup Translate(copied, -d)
                        THEN fb'[p] ELSE i.compareFB[p]]
           t == CopyCompared(i, copied, d)
<1>1. t = [i EXCEPT !.compareFB = buffer]
  BY DEF CopyCompared
<1>2. buffer \in Contents
  BY DEF Comparison, Contents
<1>3. \A p \in Pixels :
        buffer[p] = IF p \in copied \cup Translate(copied, -d)
                    THEN fb'[p] ELSE i.compareFB[p]
  OBVIOUS
<1> HIDE DEF buffer, t
<1>4. /\ t \in Comparison
      /\ t.on = i.on /\ t.firstCompare = i.firstCompare
      /\ t.compareFB = buffer
  BY <1>1, <1>2 DEF Comparison, Contents
<1>. QED
  BY <1>3, <1>4 DEF t

(***************************************************************************)
(* An update that is sent.                                                 *)
(***************************************************************************)

PixelsOf(r) == UpdateRegion(r) \ UpdateCopyRegion(r)

Examined(r, combine, s) ==
  (IF combine THEN Extents(PixelsOf(r)) ELSE PixelsOf(r)) \cap s

\* What is examined covers the pixels that are on the screen.
LEMMA ExaminedLemma ==
  ASSUME NEW r \in Client, NEW combine \in BOOLEAN, NEW s \in SUBSET Pixels
  PROVE  /\ PixelsOf(r) \cap s \subseteq Examined(r, combine, s)
         /\ Examined(r, combine, s) \in SUBSET s
<1>1. PixelsOf(r) \in SUBSET Pixels
  BY DEF PixelsOf, UpdateRegion, Client
<1>2. PixelsOf(r) \subseteq Extents(PixelsOf(r))
  BY <1>1, ExtentsAssumption
<1>. QED
  BY <1>2 DEF Examined

\* What a copy is made from is shown as the server has it, or is examined.
LEMMA SourceLemma ==
  ASSUME NEW r \in Client, NEW f, NEW s \in SUBSET Pixels,
         r.copyRegion \cap r.modifiedRegion = {},
         Mirrors(r, f, s),
         NEW p \in s,
         p \in Translate(UpdateCopyRegion(r), -r.copyDX),
         p \notin UpdateCopyRegion(r), p \notin PixelsOf(r)
  PROVE  r.viewer[p] = f[p]
<1>1. PICK q \in UpdateCopyRegion(r) : p = q + (-r.copyDX)
  BY DEF Translate
<1>2. q \in Translate(r.requestedRegion, r.copyDX) /\ q \in Pixels
  BY DEF UpdateCopyRegion, Client
<1>3. PICK o \in r.requestedRegion : q = o + r.copyDX
  BY <1>2 DEF Translate
<1>4. o \in Int /\ r.copyDX \in Int
  BY PixelsAssumption DEF Client
<1>5. p = o
  BY <1>1, <1>3, <1>4
<1>6. p \notin r.copyRegion /\ p \notin r.modifiedRegion
  BY <1>3, <1>5 DEF PixelsOf, UpdateRegion
<1>. QED
  BY <1>6 DEF Mirrors

\* c is the buffer after the comparison and b what it is after the copies, when
\* the encoders read it.
Brought(r, f, s, examined, sent, b, c) ==
  /\ \A p \in s \ sent : c[p] = r.viewer[p]
  /\ \A p \in examined : c[p] = f[p]
  /\ \A p \in s \ (r.modifiedRegion \cup r.copyRegion) :
       p \in examined \/ c[p] = r.viewer[p]
  /\ \A p \in Pixels :
       b[p] = IF p \in UpdateCopyRegion(r)
                        \cup Translate(UpdateCopyRegion(r), -r.copyDX)
              THEN f[p] ELSE c[p]

\* That buffer is then what the viewer shows, and what the server shows wherever
\* nothing more is owed.
Gained(r, f, s, sent, b) ==
  LET v == Received(r.viewer, UpdateCopyRegion(r), r.copyDX, sent, b)
  IN  /\ \A p \in s : b[p] = v[p]
      /\ \A p \in s : \/ v[p] = f[p]
                      \/ p \in ((r.modifiedRegion \cup r.copyRegion)
                                  \ PixelsOf(r)) \ UpdateCopyRegion(r)

LEMMA ReceivedLemma ==
  ASSUME NEW r \in Client, NEW f, NEW s \in SUBSET Pixels,
         r.copyRegion \cap r.modifiedRegion = {},
         Mirrors(r, f, s),
         NEW examined, PixelsOf(r) \cap s \subseteq examined,
         NEW sent, NEW b, NEW c, Brought(r, f, s, examined, sent, b, c)
  PROVE  Gained(r, f, s, sent, b)
<1> DEFINE copied == UpdateCopyRegion(r)
           source == Translate(copied, -r.copyDX)
           v == Received(r.viewer, copied, r.copyDX, sent, b)
<1> USE DEF Brought
<1>1. ASSUME NEW p \in s
      PROVE  b[p] = v[p]
  <2>1. v[p] = IF p \in sent THEN b[p]
               ELSE IF p \in copied /\ p - r.copyDX \in Pixels
                    THEN r.viewer[p - r.copyDX] ELSE r.viewer[p]
    BY DEF Received
  <2>2. b[p] = IF p \in copied \cup source THEN f[p] ELSE c[p]
    OBVIOUS
  <2>3. CASE p \in sent
    BY <2>1, <2>3
  <2>4. CASE p \notin sent /\ p \in copied
    <3>1. p \in r.copyRegion /\ p \notin r.modifiedRegion
      BY <2>4 DEF UpdateCopyRegion
    <3>2. p - r.copyDX \in Pixels /\ r.viewer[p - r.copyDX] = f[p]
      BY <3>1 DEF Mirrors
    <3>. QED
      BY <2>1, <2>2, <2>4, <3>2
  <2>5. CASE p \notin sent /\ p \notin copied /\ p \in source
    <3>1. CASE p \in PixelsOf(r)
      BY <2>1, <2>2, <2>5, <3>1
    <3>2. CASE p \notin PixelsOf(r)
      BY <2>1, <2>2, <2>5, <3>2, SourceLemma
    <3>. QED
      BY <3>1, <3>2
  <2>6. CASE p \notin sent /\ p \notin copied /\ p \notin source
    BY <2>1, <2>2, <2>6
  <2> HIDE DEF v, copied, source
  <2>. QED
    BY <2>3, <2>4, <2>5, <2>6
<1>2. ASSUME NEW p \in s,
             p \notin ((r.modifiedRegion \cup r.copyRegion) \ PixelsOf(r))
                        \ copied
      PROVE  b[p] = f[p]
  <2>1. b[p] = IF p \in copied \cup source THEN f[p] ELSE c[p]
    OBVIOUS
  <2>2. CASE p \in examined
    BY <2>1, <2>2
  <2>3. CASE p \notin examined /\ p \notin copied
    <3>1. p \notin r.modifiedRegion /\ p \notin r.copyRegion
      BY <1>2, <2>3
    <3>2. r.viewer[p] = f[p]
      BY <3>1 DEF Mirrors
    <3>. QED
      BY <2>1, <2>3, <3>1, <3>2
  <2>4. CASE p \in copied
    BY <2>1, <2>4
  <2>. QED
    BY <2>2, <2>3, <2>4
<1> HIDE DEF v
<1>. QED
  BY <1>1, <1>2 DEF v, Gained

\* The record that an attempt works with.
Ready(r) == [WithStandingRequest(r) EXCEPT !.retry = FALSE]

LEMMA ReadyLemma ==
  ASSUME NEW r \in Client, NEW f \in Contents, NEW s \in SUBSET Pixels
  PROVE  /\ Ready(r) \in Client
         /\ Ready(r).copyRegion \cap Ready(r).modifiedRegion = {}
         /\ Ready(r).modifiedRegion \cup Ready(r).copyRegion
              = r.modifiedRegion \cup r.copyRegion
         /\ Ready(r).viewer = r.viewer /\ Ready(r).copyDX = r.copyDX
         /\ UpdateRegion(Ready(r)) = UpdateRegion(WithStandingRequest(r))
         /\ UpdateCopyRegion(Ready(r))
              = UpdateCopyRegion(WithStandingRequest(r))
         /\ Ready(r).copyDX = WithStandingRequest(r).copyDX
         /\ Ready(r).cursorPending = WithStandingRequest(r).cursorPending
         /\ Mirrors(r, f, s) => Mirrors(Ready(r), f, s)
<1>1. /\ Ready(r) \in Client
      /\ Ready(r).copyRegion \cap Ready(r).modifiedRegion = {}
      /\ Mirrors(r, f, s) => Mirrors(Ready(r), f, s)
  BY StandingRequest DEF Ready
<1>2. /\ Ready(r).modifiedRegion = r.modifiedRegion
      /\ Ready(r).copyRegion = r.copyRegion \ r.modifiedRegion
      /\ Ready(r).viewer = r.viewer /\ Ready(r).copyDX = r.copyDX
      /\ Ready(r).copyRegion = WithStandingRequest(r).copyRegion
      /\ Ready(r).modifiedRegion = WithStandingRequest(r).modifiedRegion
      /\ Ready(r).requestedRegion = WithStandingRequest(r).requestedRegion
      /\ Ready(r).copyDX = WithStandingRequest(r).copyDX
      /\ Ready(r).cursorPending = WithStandingRequest(r).cursorPending
  BY DEF Ready, WithStandingRequest, Client
<1>. QED
  BY <1>1, <1>2 DEF UpdateRegion, UpdateCopyRegion

\* An attempt that sends nothing.
LEMMA WithheldLemma ==
  ASSUME NEW r \in Client, NEW how, NEW f \in Contents,
         NEW s \in SUBSET Pixels,
         \/ how.hold # "none"
         \/ /\ UpdateRegion(WithStandingRequest(r)) = {}
            /\ ~WithStandingRequest(r).cursorPending
  PROVE  LET t == SendFramebufferUpdate(r, f, s, how)
         IN  /\ t.viewer = r.viewer
             /\ t.modifiedRegion \cup t.copyRegion
                  = r.modifiedRegion \cup r.copyRegion
<1>1. CASE how.hold # "none"
  BY <1>1 DEF SendFramebufferUpdate, Client
<1>2. CASE how.hold = "none"
  <2>1. UpdateRegion(Ready(r)) = {} /\ ~Ready(r).cursorPending
    BY <1>2, ReadyLemma
  <2>2. SendFramebufferUpdate(r, f, s, how) = Ready(r)
    BY <1>2, <2>1 DEF SendFramebufferUpdate, Ready
  <2>. QED
    BY <2>2, ReadyLemma
<1>. QED
  BY <1>1, <1>2

\* The claims of the invariant about one client, between two actions.
Sound(i, r) ==
  Fresh(i) /\ Starts(i, r, screen', midway') /\ Owing(i, r, screen')

Right(i, r) == Agrees(i, r, screen') /\ Mirrors(r, fb', screen')

\* The record of the client after an update that comparison has reduced.
AfterSending(r, how, compared, final) ==
  [Transmit(Ready(r), fb', screen', how.combine) EXCEPT !.viewer =
     Received(r.viewer, UpdateCopyRegion(Ready(r)), Ready(r).copyDX,
              ToSend(compared), final.compareFB)]

\* rfbSendFramebufferUpdate, of an update that is sent after a comparison.
LEMMA ComparedLemma ==
  ASSUME NEW r \in Client, NEW i \in Comparison, NEW how \in Outcomes,
         fb' \in Contents, screen' \in Screens,
         i.on, how.hold = "none", Sound(i, r),
         NEW examined,
         examined = Examined(Ready(r), how.combine, screen'),
         NEW compared, compared = Compare(i, examined),
         NEW final, final = CopyCompared(compared, UpdateCopyRegion(Ready(r)),
                                         Ready(r).copyDX),
         NEW t, t = AfterSending(r, how, compared, final)
  PROVE  /\ t \in Client
         /\ final \in Comparison /\ final.on /\ ~final.firstCompare
         /\ Right(i, r) /\ ~MissesPixels(r, i, examined) => Right(final, t)
<1> DEFINE w      == Ready(r)
           copied == UpdateCopyRegion(w)
           sent   == ToSend(compared)
           c      == compared.compareFB
           b      == final.compareFB
           v      == Received(r.viewer, copied, w.copyDX, sent, b)
           plain  == Transmit(w, fb', screen', how.combine)
<1>1. /\ w \in Client /\ w.copyRegion \cap w.modifiedRegion = {}
      /\ w.modifiedRegion \cup w.copyRegion
           = r.modifiedRegion \cup r.copyRegion
      /\ w.viewer = r.viewer
      /\ screen' \in SUBSET Pixels /\ 0 \in screen'
      /\ Mirrors(r, fb', screen') => Mirrors(w, fb', screen')
  BY ReadyLemma, InterframeAssumption
<1>2. how.combine \in BOOLEAN
  BY InterframeAssumption DEF Outcomes
<1>3. /\ PixelsOf(w) \cap screen' \subseteq examined
      /\ examined \in SUBSET screen' /\ examined \in SUBSET Pixels
  BY <1>1, <1>2, ExaminedLemma
<1>4. /\ compared \in Comparison /\ compared.on /\ ~compared.firstCompare
      /\ \A p \in Pixels :
           c[p] = IF p \in examined THEN fb'[p] ELSE i.compareFB[p]
      /\ i.ifRegion \cap screen' \subseteq compared.ifRegion
      /\ \A p \in examined \ compared.ifRegion :
           ~i.firstCompare /\ fb'[p] = i.compareFB[p]
  BY <1>1, <1>3, CompareLemma
<1>5. /\ final \in Comparison /\ final.on /\ ~final.firstCompare
      /\ \A p \in Pixels :
           b[p] = IF p \in copied \cup Translate(copied, -w.copyDX)
                  THEN fb'[p] ELSE c[p]
  BY <1>4, CopyComparedLemma
<1>6. plain \in Client
  BY <1>1, <1>2, TransmitType
<1>7. v \in Contents
  <2>1. b \in Contents /\ r.viewer \in Contents
    BY <1>5 DEF Comparison, Client, Contents
  <2> HIDE DEF b, copied, sent
  <2>. QED
    BY <2>1 DEF Received, Contents
<1>8. t = [plain EXCEPT !.viewer = v]
  BY DEF AfterSending
<1>9. /\ plain.modifiedRegion =
           ((w.modifiedRegion \cup w.copyRegion) \ PixelsOf(w)) \ copied
      /\ plain.copyRegion = {}
  BY <1>1 DEF Transmit, Client, PixelsOf
<1> HIDE DEF w, copied, sent, c, b, v, plain
<1>10. /\ t \in Client /\ t.viewer = v
       /\ t.modifiedRegion = plain.modifiedRegion
       /\ t.copyRegion = plain.copyRegion
  BY <1>6, <1>7, <1>8 DEF Client, Contents
<1>11. ASSUME Right(i, r), ~MissesPixels(r, i, examined)
       PROVE  Right(final, t)
  <2>1. Mirrors(w, fb', screen')
    BY <1>1, <1>11 DEF Right
  \* Outside of what is examined and of what is sent in any case, the first
  \* comparison finds the viewer black.
  <2>2. ASSUME NEW p \in screen', p \notin examined,
               i.firstCompare => p \notin i.ifRegion
        PROVE  c[p] = r.viewer[p]
    <3>1. c[p] = i.compareFB[p]
      BY <1>1, <1>4, <2>2
    <3>2. CASE ~i.firstCompare
      BY <1>11, <3>1, <3>2 DEF Right, Agrees
    <3>3. CASE i.firstCompare /\ midway'
      <4>1. r.viewer[p] = Black
        BY <1>11, <2>2, <3>3 DEF MissesPixels
      <4>2. i.compareFB[p] = Black
        BY <1>1, <3>3 DEF Sound, Fresh, Blank
      <4>. QED
        BY <3>1, <4>1, <4>2
    <3>4. CASE i.firstCompare /\ ~midway'
      <4>1. r.viewer[p] = Black
        BY <2>2, <3>4 DEF Sound, Starts
      <4>2. i.compareFB[p] = Black
        BY <1>1, <3>4 DEF Sound, Fresh, Blank
      <4>. QED
        BY <3>1, <4>1, <4>2
    <3>. QED
      BY <3>2, <3>3, <3>4
  <2>3. compared.ifRegion \subseteq sent
    BY DEF sent, ToSend
  <2>4. \A p \in screen' \ sent : c[p] = r.viewer[p]
    <3> SUFFICES ASSUME NEW p \in screen' \ sent PROVE c[p] = r.viewer[p]
      OBVIOUS
    <3>1. p \notin compared.ifRegion /\ p \notin i.ifRegion
      BY <1>4, <2>3
    <3>2. CASE p \in examined
      <4>1. ~i.firstCompare /\ c[p] = i.compareFB[p]
        BY <1>1, <1>4, <3>1, <3>2
      <4>. QED
        BY <1>11, <4>1 DEF Right, Agrees
    <3>. QED
      BY <2>2, <3>1, <3>2
  <2>5. \A p \in screen' \ (w.modifiedRegion \cup w.copyRegion) :
          p \in examined \/ c[p] = r.viewer[p]
    <3>1. \A p \in screen' \ (w.modifiedRegion \cup w.copyRegion) :
            i.firstCompare => p \notin i.ifRegion
      BY <1>1 DEF Sound, Owing
    <3>. QED
      BY <2>2, <3>1
  <2>6. \A p \in examined : c[p] = fb'[p]
    BY <1>3, <1>4
  <2>7. /\ \A p \in screen' : b[p] = v[p]
        /\ \A p \in screen' : v[p] = fb'[p] \/ p \in plain.modifiedRegion
    <3> DEFINE u == Received(w.viewer, UpdateCopyRegion(w), w.copyDX, sent, b)
    <3>1. \A p \in screen' \ sent : c[p] = w.viewer[p]
      BY <1>1, <2>4
    <3>2. \A p \in screen' \ (w.modifiedRegion \cup w.copyRegion) :
            p \in examined \/ c[p] = w.viewer[p]
      BY <1>1, <2>5
    <3>3. \A p \in Pixels :
            b[p] = IF p \in UpdateCopyRegion(w)
                              \cup Translate(UpdateCopyRegion(w), -w.copyDX)
                   THEN fb'[p] ELSE c[p]
      BY <1>5 DEF copied
    <3>4. /\ \A p \in screen' : b[p] = u[p]
          /\ \A p \in screen' : \/ u[p] = fb'[p]
                                 \/ p \in ((w.modifiedRegion \cup w.copyRegion)
                                         \ PixelsOf(w)) \ UpdateCopyRegion(w)
      <4>1. Brought(w, fb', screen', examined, sent, b, c)
        BY <2>6, <3>1, <3>2, <3>3 DEF Brought
      <4>2. /\ w \in Client /\ screen' \in SUBSET Pixels
            /\ w.copyRegion \cap w.modifiedRegion = {}
            /\ Mirrors(w, fb', screen')
            /\ PixelsOf(w) \cap screen' \subseteq examined
        BY <1>1, <1>3, <2>1
      <4>3. Gained(w, fb', screen', sent, b)
        BY <4>1, <4>2, ReceivedLemma, Zenon
      <4>. QED
        BY <4>3 DEF Gained
    <3>5. u = v
      BY <1>1 DEF v, copied
    <3> HIDE DEF u
    <3>. QED
      BY <1>9, <3>4, <3>5 DEF copied
  <2>8. Agrees(final, t, screen')
    BY <1>10, <2>7 DEF Agrees, b
  <2>9. Mirrors(t, fb', screen')
    BY <1>9, <1>10, <2>7 DEF Mirrors
  <2>. QED
    BY <2>8, <2>9 DEF Right
<1>. QED
  BY <1>5, <1>10, <1>11

Good(i, r, excuse) ==
  /\ i \in Comparison /\ r \in Client /\ Sound(i, r)
  /\ excuse \/ Right(i, r)

\* rfbSendFramebufferUpdate, whatever becomes of the attempt.
LEMMA SendIFLemma ==
  ASSUME NEW r, NEW i, NEW how \in Outcomes,
         fb' \in Contents, screen' \in Screens, excused \in BOOLEAN,
         Good(i, r, excused), SendFramebufferUpdateIF(r, i, how)
  PROVE  excused' \in BOOLEAN /\ Good(ice', cl', excused')
<1> DEFINE ready    == WithStandingRequest(r)
           copied   == UpdateCopyRegion(ready)
           pixels   == UpdateRegion(ready) \ copied
           examined == (IF how.combine THEN Extents(pixels) ELSE pixels)
                         \cap screen'
           compared == Compare(i, examined)
           final    == CopyCompared(compared, copied, ready.copyDX)
           withheld == \/ how.hold # "none"
                       \/ UpdateRegion(ready) = {} /\ ~ready.cursorPending
           plain    == SendFramebufferUpdate(r, fb', screen', how)
<1>1. /\ i \in Comparison /\ r \in Client /\ Sound(i, r)
      /\ excused \/ Right(i, r)
      /\ screen' \in SUBSET Pixels
  BY InterframeAssumption DEF Good
<1> HIDE DEF ready, copied, pixels, examined, compared, final
<1>5. how.hold = "none" => how.combine \in BOOLEAN
  BY InterframeAssumption DEF Outcomes
<1> USE DEF ready, copied, pixels, examined, compared, final
<1>2. /\ plain \in Client
      /\ Mirrors(r, fb', screen') => Mirrors(plain, fb', screen')
  BY <1>1, <1>5, SendLemma
<1>3. CASE withheld \/ ~i.on
  <2>1. cl' = plain /\ ice' = i /\ excused' = excused
    BY <1>3 DEF SendFramebufferUpdateIF
  <2>2. i.on => /\ plain.viewer = r.viewer
                /\ plain.modifiedRegion \cup plain.copyRegion
                     = r.modifiedRegion \cup r.copyRegion
    BY <1>1, <1>3, WithheldLemma, ZenonT(60)
  <2> HIDE DEF plain
  <2>3. Sound(i, plain)
    BY <1>1, <2>2 DEF Sound, Fresh, Starts, Owing
  <2>4. Right(i, r) => Right(i, plain)
    BY <1>2, <2>2 DEF Right, Agrees
  <2>. QED
    BY <1>1, <1>2, <2>1, <2>3, <2>4 DEF Good
<1>4. CASE ~withheld /\ i.on
  <2> DEFINE next == [plain EXCEPT !.viewer =
                        Received(r.viewer, copied, ready.copyDX,
                                 ToSend(compared), final.compareFB)]
             last == [final EXCEPT !.ifRegion = {}]
  <2>1. /\ cl' = next /\ ice' = last
        /\ excused' = (excused \/ MissesPixels(r, i, examined))
    BY <1>4 DEF SendFramebufferUpdateIF
  <2>2. /\ UpdateRegion(Ready(r)) = UpdateRegion(ready)
        /\ UpdateCopyRegion(Ready(r)) = copied
        /\ Ready(r).copyDX = ready.copyDX
        /\ Ready(r).cursorPending = ready.cursorPending
    BY <1>1, ReadyLemma
  <2>3. plain = Transmit(Ready(r), fb', screen', how.combine)
    BY <1>4, <2>2 DEF SendFramebufferUpdate, Ready
  <2>4. examined = Examined(Ready(r), how.combine, screen')
    BY <2>2 DEF Examined, PixelsOf
  <2>5. next = AfterSending(r, how, compared, final)
    BY <2>2, <2>3 DEF AfterSending
  <2>6. final = CopyCompared(compared, UpdateCopyRegion(Ready(r)),
                             Ready(r).copyDX)
    BY <2>2
  <2> HIDE DEF next, final, compared, examined, plain, copied, pixels
  <2>7. /\ next \in Client
        /\ final \in Comparison /\ final.on /\ ~final.firstCompare
        /\ Right(i, r) /\ ~MissesPixels(r, i, examined) => Right(final, next)
    BY <1>1, <1>4, <2>4, <2>5, <2>6, ComparedLemma DEF compared
  <2>8. /\ last \in Comparison /\ last.on /\ ~last.firstCompare
        /\ last.compareFB = final.compareFB
    BY <2>7 DEF Comparison
  <2>9. Sound(last, next)
    BY <2>8 DEF Sound, Fresh, Starts, Owing
  <2>10. Right(final, next) => Right(last, next)
    BY <2>7, <2>8 DEF Right, Agrees
  <2>11. MissesPixels(r, i, examined) \in BOOLEAN
    BY DEF MissesPixels
  <2> HIDE DEF last
  <2>. QED
    BY <1>1, <2>1, <2>7, <2>8, <2>9, <2>10, <2>11 DEF Good
<1>. QED
  BY <1>3, <1>4

(***************************************************************************)
(* The steps.                                                              *)
(***************************************************************************)

\* The invariant of the next state, from the claims about the client.
LEMMA NextState ==
  ASSUME screen' \in Screens, fb' \in Contents, midway' \in BOOLEAN,
         excused' \in BOOLEAN, Good(ice', cl', excused')
  PROVE  IInv'
<1>1. TypeOK'
  BY DEF TypeOK, Good, Contents
<1>2. FreshBuffer' /\ FirstComparison' /\ FirstIsOwed'
  BY DEF Good, Sound, FreshBuffer, FirstComparison, FirstIsOwed,
         Fresh, Starts, Owing
<1>3. CopyOfRemote' /\ MirrorUnlessExcused'
  BY DEF Good, Right, Agrees, CopyOfRemote, MirrorUnlessExcused, Mirrors
<1>. QED
  BY <1>1, <1>2, <1>3 DEF IInv

\* The claims about the client, in a step that keeps the server's framebuffer.
LEMMA ThisState ==
  ASSUME IInv, screen' = screen, fb' = fb, midway' = midway
  PROVE  /\ screen' \in Screens /\ screen' \in SUBSET Pixels
         /\ fb' \in Contents /\ midway' \in BOOLEAN
         /\ excused \in BOOLEAN
         /\ Good(ice, cl, excused)
<1>1. /\ screen' \in Screens /\ screen' \in SUBSET Pixels
      /\ fb' \in Contents /\ midway' \in BOOLEAN /\ excused \in BOOLEAN
      /\ ice \in Comparison /\ cl \in Client
  BY InterframeAssumption DEF IInv, TypeOK, Contents
<1>2. Sound(ice, cl)
  BY DEF IInv, FreshBuffer, FirstComparison, FirstIsOwed, Sound,
         Fresh, Starts, Owing
<1>3. excused \/ Right(ice, cl)
  BY DEF IInv, CopyOfRemote, MirrorUnlessExcused, Right, Agrees
<1>. QED
  BY <1>1, <1>2, <1>3 DEF Good

\* What keeps the viewer's framebuffer and what is owed keeps the claims, if it
\* accounts for what the server changed.
LEMMA OwesLemma ==
  ASSUME NEW i \in Comparison, NEW r \in Client, NEW t \in Client, Owes(t, r)
  PROVE  /\ Sound(i, r) => Sound(i, t)
         /\ Agrees(i, r, screen') => Agrees(i, t, screen')
BY DEF Owes, Sound, Fresh, Starts, Owing, Agrees

LEMMA DrawLemma ==
  ASSUME IInv, NEW region \in Regions, NEW v \in Values, Draw(region, v)
  PROVE  IInv'
<1> DEFINE drawn == region \cap screen
           t     == AddToModifiedRegion(cl, drawn)
<1>1. /\ screen \in Screens /\ screen \in SUBSET Pixels
      /\ fb \in Contents /\ cl \in Client /\ ice \in Comparison
      /\ midway \in BOOLEAN /\ excused \in BOOLEAN
  BY InterframeAssumption DEF IInv, TypeOK, Contents
<1>2. /\ screen' = screen /\ ice' = ice /\ midway' = midway
      /\ excused' = excused /\ cl' = t
  BY DEF Draw
<1>3. fb' = [p \in Pixels |-> IF p \in drawn THEN v ELSE fb[p]]
  BY DEF Draw
<1> HIDE DEF drawn
<1>4. fb' \in Contents /\ \A p \in screen \ drawn : fb'[p] = fb[p]
  BY <1>1, <1>3 DEF Contents
<1>5. drawn \in SUBSET Pixels
  BY <1>1 DEF drawn
<1>6. /\ t \in Client /\ Owes(t, cl)
      /\ Mirrors(cl, fb, screen) => Mirrors(t, fb', screen)
  BY <1>1, <1>4, <1>5, AddToModifiedLemma
<1>7. Sound(ice, cl) /\ (excused \/ Agrees(ice, cl, screen'))
  BY <1>2 DEF IInv, FreshBuffer, FirstComparison, FirstIsOwed, CopyOfRemote,
              Sound, Fresh, Starts, Owing, Agrees
<1>8. excused \/ Mirrors(cl, fb, screen)
  BY DEF IInv, MirrorUnlessExcused
<1> HIDE DEF t
<1>9. Sound(ice, t) /\ (excused \/ Right(ice, t))
  BY <1>1, <1>2, <1>6, <1>7, <1>8, OwesLemma DEF Right
<1>. QED
  BY <1>1, <1>2, <1>4, <1>6, <1>9, NextState DEF Good

\* A copy is owed as a copy, or its destination is owed.
LEMMA CopyWindowLemma ==
  ASSUME IInv, NEW old \in Regions, NEW clip \in Regions, NEW dx \in Shifts,
         CopyWindow(old, clip, dx)
  PROVE  IInv'
<1> DEFINE src  == old \cap screen
           dst  == Translate(src, dx) \cap screen \cap clip
           copy == CopyRegion(cl, src, dst, dx)
           hard == AddToModifiedRegion(cl, dst)
<1>1. /\ screen \in Screens /\ screen \in SUBSET Pixels
      /\ fb \in Contents /\ cl \in Client /\ ice \in Comparison
      /\ midway \in BOOLEAN /\ excused \in BOOLEAN /\ dx \in Int
  BY InterframeAssumption DEF IInv, TypeOK, Contents
<1>2. /\ screen' = screen /\ ice' = ice /\ midway' = midway
      /\ cl' = IF cl.useCopyRect THEN copy ELSE hard
      /\ excused' = (excused \/ /\ cl.copyRegion = {} /\ cl.copyDX # 0
                                /\ cl'.copyRegion # {})
  BY DEF CopyWindow
<1>3. fb' = [p \in Pixels |-> IF p \in dst THEN fb[p - dx] ELSE fb[p]]
  BY DEF CopyWindow
<1>4. /\ src \in SUBSET screen /\ dst \in SUBSET screen
      /\ src \in SUBSET Pixels /\ dst \in SUBSET Pixels
  BY <1>1
<1>5. \A p \in dst : p - dx \in src
  <2> SUFFICES ASSUME NEW p \in dst PROVE p - dx \in src
    OBVIOUS
  <2>1. PICK q \in src : p = q + dx
    BY DEF Translate
  <2>2. q \in Int
    BY <1>4, PixelsAssumption
  <2>3. p - dx = q
    BY <1>1, <2>1, <2>2
  <2>. QED
    BY <2>3
<1> HIDE DEF src, dst, copy, hard
<1>6. fb' \in Contents
  <2>1. \A p \in dst : fb[p - dx] \in Values
    BY <1>1, <1>4, <1>5 DEF Contents
  <2>. QED
    BY <1>1, <1>3, <2>1 DEF Contents
<1>7. \A p \in Pixels :
        fb'[p] = IF p \in dst /\ p - dx \in src THEN fb[p - dx] ELSE fb[p]
  BY <1>3, <1>5
<1>8. cl' \in Client /\ Owes(cl', cl)
  <2>1. copy \in Client /\ Owes(copy, cl)
    BY <1>1, <1>4, CopyRegionType, CopyRegionOwes DEF copy
  <2>2. hard \in Client /\ Owes(hard, cl)
    <3>1. \A p \in screen \ dst : fb'[p] = fb[p]
      BY <1>1, <1>7
    <3>. QED
      BY <1>1, <1>4, <3>1, AddToModifiedLemma DEF hard
  <2>. QED
    BY <1>2, <2>1, <2>2
<1>9. excused' \/ Mirrors(cl', fb', screen')
  <2> SUFFICES ASSUME ~excused' PROVE Mirrors(cl', fb', screen')
    OBVIOUS
  <2>1. Mirrors(cl, fb, screen)
    BY <1>2 DEF IInv, MirrorUnlessExcused
  <2>2. CASE cl.useCopyRect
    <3>1. cl.copyRegion = {} /\ cl.copyDX # 0 => copy.copyRegion = {}
      BY <1>2, <2>2
    <3>2. Mirrors(copy, fb', screen)
      BY <1>1, <1>4, <1>6, <1>7, <2>1, <3>1, CopyRegionMirrors DEF copy
    <3>. QED
      BY <1>2, <2>2, <3>2
  <2>3. CASE ~cl.useCopyRect
    <3>1. \A p \in screen \ dst : fb'[p] = fb[p]
      BY <1>1, <1>7
    <3>2. Mirrors(hard, fb', screen)
      BY <1>1, <1>4, <2>1, <3>1, AddToModifiedLemma DEF hard
    <3>. QED
      BY <1>2, <2>3, <3>2
  <2>. QED
    BY <2>2, <2>3
<1>10. Sound(ice, cl) /\ (excused \/ Agrees(ice, cl, screen'))
  BY <1>2 DEF IInv, FreshBuffer, FirstComparison, FirstIsOwed, CopyOfRemote,
              Sound, Fresh, Starts, Owing, Agrees
<1>11. excused' \in BOOLEAN /\ (excused => excused')
  BY <1>1, <1>2
<1>12. Sound(ice, cl') /\ (excused' \/ Right(ice, cl'))
  BY <1>1, <1>8, <1>9, <1>10, <1>11, OwesLemma DEF Right
<1>. QED
  BY <1>1, <1>2, <1>6, <1>8, <1>11, <1>12, NextState DEF Good

LEMMA ChangeCursorLemma ==
  ASSUME IInv, NEW how \in Outcomes, ChangeCursor(how)
  PROVE  IInv'
<1> DEFINE yes == TRUE
           t   == [cl EXCEPT !.cursorPending = yes]
<1>1. /\ screen' = screen /\ fb' = fb /\ midway' = midway
      /\ SendFramebufferUpdateIF(t, ice, how)
  BY DEF ChangeCursor
<1>2. yes \in BOOLEAN
  OBVIOUS
<1>3. /\ screen' \in Screens /\ fb' \in Contents /\ midway' \in BOOLEAN
      /\ excused \in BOOLEAN /\ Good(ice, cl, excused) /\ cl \in Client
  BY <1>1, ThisState DEF Good
<1> HIDE DEF yes
<1>4. /\ t \in Client /\ t.viewer = cl.viewer /\ t.copyDX = cl.copyDX
      /\ t.modifiedRegion = cl.modifiedRegion
      /\ t.copyRegion = cl.copyRegion
  BY <1>2, <1>3 DEF Client
<1> HIDE DEF t
<1>5. Good(ice, t, excused)
  BY <1>3, <1>4 DEF Good, Sound, Right, Fresh, Starts, Owing, Agrees, Mirrors
<1>6. excused' \in BOOLEAN /\ Good(ice', cl', excused')
  BY <1>1, <1>3, <1>5, SendIFLemma
<1>. QED
  BY <1>3, <1>6, NextState

\* A resize owes the whole screen, and sends it whatever a new buffer holds.
LEMMA SetScreenSizeLemma ==
  ASSUME IInv, NEW s \in Screens, NEW v \in Values, NEW how \in Outcomes,
         SetScreenSize(s, v, how)
  PROVE  IInv'
<1> DEFINE t    == ResetRegions(cl, s)
           next == Restart(ice, s)
           new  == InterframeOn(InterframeOff(ice))
<1>1. /\ screen' = s /\ fb' = [p \in Pixels |-> v] /\ midway' = FALSE
      /\ SendFramebufferUpdateIF(t, next, how)
  BY DEF SetScreenSize
<1>2. /\ cl \in Client /\ ice \in Comparison /\ excused \in BOOLEAN
      /\ s \in SUBSET Pixels /\ midway' \in BOOLEAN /\ ~midway'
  BY <1>1, InterframeAssumption DEF IInv, TypeOK
<1>3. fb' \in Contents
  BY <1>1 DEF Contents
<1>4. t \in Client /\ t.modifiedRegion = s /\ Mirrors(t, fb', s)
  BY <1>2, ResetLemma
<1>5. /\ new \in Comparison /\ new.on /\ new.firstCompare
      /\ new.compareFB = Blank
  <2>1. NoComparison \in Comparison /\ ~NoComparison.on
    BY BlankType DEF NoComparison
  <2>. QED
    BY <2>1, InterframeOnLemma DEF InterframeOff
<1>6. next = IF ice.on THEN [new EXCEPT !.ifRegion = s] ELSE ice
  BY DEF Restart
<1> HIDE DEF new
<1>7. /\ next \in Comparison
      /\ next.on => /\ next.firstCompare /\ next.compareFB = Blank
                    /\ next.ifRegion = s
  BY <1>2, <1>5, <1>6 DEF Comparison
<1> HIDE DEF t, next
<1>8. Good(next, t, excused)
  BY <1>1, <1>2, <1>4, <1>7
     DEF Good, Sound, Right, Fresh, Starts, Owing, Agrees
<1>9. excused' \in BOOLEAN /\ Good(ice', cl', excused')
  BY <1>1, <1>2, <1>3, <1>8, SendIFLemma
<1>. QED
  BY <1>1, <1>2, <1>3, <1>9, NextState

\* Comparison is switched on, with a buffer that nothing has been compared with
\* yet, or off, or is left as it is.
LEMMA SetEncodingsLemma ==
  ASSUME IInv, NEW copyRect \in BOOLEAN, NEW high \in BOOLEAN,
         SetEncodings(copyRect, high)
  PROVE  IInv'
<1> DEFINE yes == TRUE
           t   == [cl EXCEPT !.useCopyRect = copyRect, !.cursorPending = yes]
           on  == InterframeOn(ice)
<1>1. /\ screen' = screen /\ fb' = fb /\ excused' = excused /\ cl' = t
      /\ ice' \in {ice, on, NoComparison}
      /\ midway' = (midway \/ (ice'.on /\ ~ice.on))
  BY DEF SetEncodings, InterframeOff
<1>2. yes \in BOOLEAN
  OBVIOUS
<1>3. /\ cl \in Client /\ ice \in Comparison
      /\ screen' \in Screens /\ fb' \in Contents
      /\ excused \in BOOLEAN /\ midway \in BOOLEAN
  BY <1>1 DEF IInv, TypeOK, Contents
<1> HIDE DEF yes
<1>4. /\ t \in Client /\ t.viewer = cl.viewer /\ t.copyDX = cl.copyDX
      /\ t.modifiedRegion = cl.modifiedRegion
      /\ t.copyRegion = cl.copyRegion
  BY <1>2, <1>3 DEF Client
<1> HIDE DEF t
<1>5. /\ on \in Comparison /\ on.on /\ (ice.on => on = ice)
      /\ ~ice.on => /\ on.firstCompare /\ on.compareFB = Blank
                    /\ on.ifRegion = {}
      /\ NoComparison \in Comparison /\ ~NoComparison.on
  BY <1>3, InterframeOnLemma, BlankType DEF NoComparison
<1> HIDE DEF on
<1>6. midway' \in BOOLEAN /\ ice' \in Comparison
  BY <1>1, <1>3, <1>5
<1>7. excused \/ Mirrors(t, fb', screen')
  BY <1>1, <1>4 DEF IInv, MirrorUnlessExcused, Mirrors
<1>8. CASE ice' = ice
  <2>1. midway' = midway
    BY <1>1, <1>3, <1>8
  <2>2. Good(ice, cl, excused)
    BY <1>1, <2>1, ThisState
  <2>3. Good(ice', t, excused')
    BY <1>1, <1>4, <1>6, <1>7, <1>8, <2>2
       DEF Good, Sound, Right, Fresh, Starts, Owing, Agrees
  <2>. QED
    BY <1>1, <1>3, <1>6, <2>3, NextState
<1>9. CASE ice' # ice
  <2>1. Sound(ice', t) /\ Agrees(ice', t, screen')
    BY <1>1, <1>3, <1>5, <1>9 DEF Sound, Fresh, Starts, Owing, Agrees
  <2>2. Good(ice', t, excused')
    BY <1>1, <1>4, <1>6, <1>7, <2>1 DEF Good, Right
  <2>. QED
    BY <1>1, <1>3, <1>6, <2>2, NextState
<1>. QED
  BY <1>8, <1>9

\* What the viewer says it has lost is owed, and sent whatever the buffer holds.
LEMMA RequestLemma ==
  ASSUME IInv, NEW q \in Requests, NEW incremental \in BOOLEAN,
         NEW how \in Outcomes, FramebufferUpdateRequest(q, incremental, how)
  PROVE  IInv'
<1> DEFINE t      == Requested(cl, q, incremental)
           wanted == IF incremental \/ ~ice.on THEN ice
                     ELSE [ice EXCEPT !.ifRegion = @ \cup q]
<1>1. /\ screen' = screen /\ fb' = fb /\ midway' = midway
      /\ IF UpdatePending(t) THEN SendFramebufferUpdateIF(t, wanted, how)
         ELSE cl' = t /\ ice' = wanted /\ excused' = excused
  BY DEF FramebufferUpdateRequest, ServerKeeps
<1>2. /\ screen' \in Screens /\ screen' \in SUBSET Pixels /\ fb' \in Contents
      /\ midway' \in BOOLEAN /\ excused \in BOOLEAN
      /\ Good(ice, cl, excused) /\ ice \in Comparison /\ cl \in Client
  BY <1>1, ThisState DEF Good
<1>3. q \in SUBSET Pixels
  BY InterframeAssumption
<1>4. /\ t \in Client /\ Owes(t, cl)
      /\ Mirrors(cl, fb', screen') => Mirrors(t, fb', screen')
  BY <1>2, <1>3, RequestedLemma
<1>5. ~incremental => q \subseteq t.modifiedRegion
  BY <1>2 DEF Requested, Client
<1>6. /\ wanted \in Comparison /\ wanted.on = ice.on
      /\ wanted.firstCompare = ice.firstCompare
      /\ wanted.compareFB = ice.compareFB
      /\ ice.ifRegion \subseteq wanted.ifRegion
      /\ wanted.ifRegion \subseteq ice.ifRegion \cup q
      /\ incremental => wanted = ice
  BY <1>2, <1>3 DEF Comparison
<1> HIDE DEF t, wanted
<1>7. Sound(ice, t) /\ (excused \/ Right(ice, t))
  BY <1>2, <1>4, OwesLemma DEF Good, Right
<1>8. Sound(wanted, t)
  BY <1>5, <1>6, <1>7 DEF Sound, Fresh, Starts, Owing
<1>9. Good(wanted, t, excused)
  BY <1>4, <1>6, <1>7, <1>8 DEF Good, Right, Agrees
<1>10. excused' \in BOOLEAN /\ Good(ice', cl', excused')
  BY <1>1, <1>2, <1>9, SendIFLemma
<1>. QED
  BY <1>2, <1>10, NextState

LEMMA ContinuousUpdatesLemma ==
  ASSUME IInv, NEW q \in CURegions, NEW enable \in BOOLEAN,
         NEW how \in Outcomes, EnableContinuousUpdates(q, enable, how)
  PROVE  IInv'
<1> DEFINE asked == IF enable THEN {} ELSE cl.requestedRegion
           t     == [cl EXCEPT !.cuRegion = q, !.continuousUpdates = enable,
                               !.requestedRegion = asked]
<1>1. /\ screen' = screen /\ fb' = fb /\ midway' = midway
      /\ IF enable THEN SendFramebufferUpdateIF(t, ice, how)
         ELSE cl' = t /\ ice' = ice /\ excused' = excused
  BY DEF EnableContinuousUpdates, ServerKeeps
<1>2. /\ screen' \in Screens /\ fb' \in Contents /\ midway' \in BOOLEAN
      /\ excused \in BOOLEAN /\ Good(ice, cl, excused) /\ cl \in Client
  BY <1>1, ThisState DEF Good
<1>3. q \in SUBSET Pixels /\ asked \in SUBSET Pixels
  BY <1>2, InterframeAssumption DEF Client
<1> HIDE DEF asked
<1>4. /\ t \in Client /\ t.viewer = cl.viewer /\ t.copyDX = cl.copyDX
      /\ t.modifiedRegion = cl.modifiedRegion
      /\ t.copyRegion = cl.copyRegion
  BY <1>2, <1>3 DEF Client
<1> HIDE DEF t
<1>5. Good(ice, t, excused)
  BY <1>2, <1>4 DEF Good, Sound, Right, Fresh, Starts, Owing, Agrees, Mirrors
<1>6. excused' \in BOOLEAN /\ Good(ice', cl', excused')
  BY <1>1, <1>2, <1>5, SendIFLemma
<1>. QED
  BY <1>2, <1>6, NextState

LEMMA TimedUpdateLemma ==
  ASSUME IInv, NEW how \in Outcomes, TimedUpdate(how)
  PROVE  IInv'
<1>1. /\ screen' = screen /\ fb' = fb /\ midway' = midway
      /\ SendFramebufferUpdateIF(cl, ice, how)
  BY DEF TimedUpdate, ServerKeeps
<1>2. /\ screen' \in Screens /\ fb' \in Contents /\ midway' \in BOOLEAN
      /\ excused \in BOOLEAN /\ Good(ice, cl, excused)
  BY <1>1, ThisState
<1>3. excused' \in BOOLEAN /\ Good(ice', cl', excused')
  BY <1>1, <1>2, SendIFLemma
<1>. QED
  BY <1>2, <1>3, NextState

(***************************************************************************)
(* The invariant.                                                          *)
(***************************************************************************)

LEMMA InitIInv == Init => IInv
<1> SUFFICES ASSUME Init PROVE IInv
  OBVIOUS
<1>1. PICK v \in FirstContents : cl = NewClient(screen, v)
  BY DEF Init
<1>2. v \in Values /\ screen \in SUBSET Pixels /\ AlwaysOn \in BOOLEAN
  BY InterframeAssumption DEF Init
<1>3. cl \in Client /\ Mirrors(cl, fb, screen)
  BY <1>1, <1>2, NewClientLemma
<1>4. /\ cl.viewer = [p \in Pixels |-> v]
      /\ cl.modifiedRegion = screen
  BY <1>1 DEF NewClient
<1>5. NoComparison \in Comparison /\ ~NoComparison.on
  BY BlankType DEF NoComparison
<1>6. /\ ice \in Comparison /\ ice.on = AlwaysOn
      /\ ice.on => /\ ice.firstCompare /\ ice.compareFB = Blank
                   /\ ice.ifRegion = {}
  <2>1. CASE AlwaysOn
    BY <1>5, <2>1, InterframeOnLemma DEF Init, Comparison
  <2>2. CASE ~AlwaysOn
    BY <1>2, <1>5, <2>2 DEF Init, Comparison
  <2>. QED
    BY <2>1, <2>2
<1>7. TypeOK
  BY <1>3, <1>6 DEF Init, TypeOK
<1>8. FreshBuffer /\ FirstIsOwed /\ CopyOfRemote
  BY <1>6 DEF FreshBuffer, FirstIsOwed, CopyOfRemote, Fresh, Owing
<1>9. FirstComparison
  BY <1>2, <1>4, <1>6, FirstContentsAssumption
     DEF FirstComparison, Starts
<1>. QED
  BY <1>3, <1>7, <1>8, <1>9 DEF IInv, MirrorUnlessExcused

LEMMA NextIInv == IInv /\ [Next]_vars => IInv'
<1> SUFFICES ASSUME IInv, [Next]_vars PROVE IInv'
  OBVIOUS
<1>1. CASE ServerStep
  BY <1>1, DrawLemma, CopyWindowLemma, ChangeCursorLemma, SetScreenSizeLemma,
     TimedUpdateLemma DEF ServerStep
<1>2. CASE ViewerStep
  BY <1>2, SetEncodingsLemma, RequestLemma, ContinuousUpdatesLemma
     DEF ViewerStep
<1>3. CASE UNCHANGED vars
  <2>1. /\ screen' = screen /\ fb' = fb /\ cl' = cl /\ ice' = ice
        /\ midway' = midway /\ excused' = excused
    BY <1>3 DEF vars
  <2>. QED
    BY <2>1, ThisState, NextState
<1>. QED
  BY <1>1, <1>2, <1>3 DEF Next

\* The screens, buffers and records of the server stay what rfb.h declares,
\* whatever drawing, resizes and the viewer's messages come in whatever order.
THEOREM InterframeType == Spec => []TypeOK
<1>1. IInv => TypeOK
  BY DEF IInv
<1>. QED
  BY InitIInv, NextIInv, <1>1, PTL DEF Spec

\* Once it has been compared with, the buffer against which
\* rfbSendFramebufferUpdate compares is a copy of what the viewer shows, after
\* any partial updates, copies and resizes.
THEOREM InterframeCopyOfRemote == Spec => []CopyOfRemote
<1>1. IInv => CopyOfRemote
  BY DEF IInv
<1>. QED
  BY InitIInv, NextIInv, <1>1, PTL DEF Spec

\* What comparison leaves out of an update was redundant: what the pending
\* update does not mention is right on the viewer's screen.
THEOREM InterframeMirror == Spec => []MirrorUnlessExcused
<1>1. IInv => MirrorUnlessExcused
  BY DEF IInv
<1>. QED
  BY InitIInv, NextIInv, <1>1, PTL DEF Spec
=============================================================================
