---------------------------- MODULE FlowControl ----------------------------
(***************************************************************************)
(* Flow control between the server and one viewer: flowcontrol.c, the      *)
(* handling of fences around a message (rfbProcessClientMessage), the      *)
(* attempts at an update that it holds back, and the viewer's side of the  *)
(* exchange (CConn.java, ClientConnectionFlowControl.cpp).                 *)
(*                                                                         *)
(* An update goes out between two "pings", fences that carry the offset of *)
(* the stream at which they were sent; the viewer answers them in order.   *)
(* The link is congested when more than a window of the stream has not     *)
(* been acknowledged that way.  The regions of UpdateTracking shrink to    *)
(* two flags here: something is modified, something is requested.  How     *)
(* the window is computed from round trips is module CongestionWindow; here*)
(* the timer may pick any window.                                          *)
(***************************************************************************)
EXTENDS MachineWord, Sequences, FiniteSets

CONSTANTS
  Windows,        \* the values of congWindow
  InitialWindow,
  UpdateSizes,    \* bytes of an update
  DataSizes,      \* bytes of other messages: ServerCutText, Bell, ...
  FenceSize,
  UserActions,    \* what the user may do: a subset of the following
  MaxUnacked      \* bound: other data waits at this many unacknowledged bytes

ASSUME FlowControlAssumption ==
  /\ InitialWindow \in Windows /\ Windows \subseteq Nat \ {0}
  /\ UpdateSizes \subseteq Nat /\ DataSizes \subseteq Nat /\ FenceSize \in Nat
  /\ UserActions \subseteq {"input", "refresh", "reconfigure"}
  /\ MaxUnacked \in Nat

VARIABLES
  s,         \* the server's record of the client
  viewer,    \* the viewer's state
  toViewer,  \* messages on the wire, in order
  toServer

vars == <<s, viewer, toViewer, toServer>>

\* The offsets are unsigned: the distance from offset a to b.
Before(a, b) == (b - a) % Word

-----------------------------------------------------------------------------
(***************************************************************************)
(* The messages.  A fence is a request of one side and the answer of the   *)
(* other.  The server's ping carries its RTTInfo, its first fence nothing; *)
(* the viewer's fence synchronises the message that follows it.            *)
(***************************************************************************)
Ping(offset, inFlight) ==
  [kind |-> "ping", offset |-> offset, inFlight |-> inFlight]
Pong(ping) == [ping EXCEPT !.kind = "pong"]
Update(size) == [kind |-> "update", size |-> size]
Data(size) == [kind |-> "data", size |-> size]
Plain(kind) == [kind |-> kind]
Request(incremental) == [kind |-> "request", incremental |-> incremental]

Size(m) == CASE m.kind \in {"update", "data"} -> m.size
             [] m.kind = "endOfCU"            -> 0
             [] OTHER                         -> FenceSize

-----------------------------------------------------------------------------
(***************************************************************************)
(* The server's operations: each maps a pair of the client record and the  *)
(* messages it has written so far to such a pair.                          *)
(***************************************************************************)

\* WriteExact.
Write(p, m) ==
  [s   |-> [p.s EXCEPT !.sock = (@ + Size(m)) % Word, !.idle = FALSE],
   out |-> Append(p.out, m)]

\* Mutant: sentOffset is taken after the ping instead of before it.
SendPingLate(p) ==
  IF ~p.s.fence THEN p
  ELSE LET sent == Write(p, Ping(p.s.sock, Before(p.s.acked, p.s.sock)))
       IN  [sent EXCEPT !.s.pings = @ + 1,
                        !.s.sent = sent.s.sock,
                        !.s.timer = TRUE]

\* Mutant: the first of the two pings of an update is not counted.
SendPingUncounted(p) ==
  IF ~p.s.fence THEN p
  ELSE LET sent == Write(p, Ping(p.s.sock, Before(p.s.acked, p.s.sock)))
       IN  [sent EXCEPT !.s.pings = IF p.s.modified THEN @ ELSE @ + 1,
                        !.s.sent = p.s.sock,
                        !.s.timer = TRUE]

\* rfbSendRTTPing.
SendPing(p) ==
  IF ~p.s.fence THEN p
  ELSE LET sent == Write(p, Ping(p.s.sock, Before(p.s.acked, p.s.sock)))
       IN  [sent EXCEPT !.s.pings = @ + 1,
                        !.s.sent = p.s.sock,
                        !.s.timer = TRUE]

\* No byte of a measured stretch is on the wire and nothing was written for
\* longer than two round trips.  Before the first answer baseRTT is 2^32 - 1
\* milliseconds, and no link is idle for that long.
Idle(c) == c.sent = c.acked /\ c.measured /\ c.idle

\* rfbIsCongested.
Congested(c) ==
  /\ c.fence
  /\ ~Idle(c)
  /\ Before(c.acked, c.sock) >= c.window
  /\ c.pings # 1

\* It closes the window of an idle link as a side effect.
CloseWindow(c) ==
  IF c.fence /\ Idle(c) /\ c.window > InitialWindow
  THEN [c EXCEPT !.window = InitialWindow] ELSE c

\* Mutant: the attempt is not repeated once the link has room again.
AttemptOnce(p, syncing, size) ==
  LET c     == [p.s EXCEPT !.retry = FALSE]
      ready == [CloseWindow(c) EXCEPT !.requested = @ \/ c.continuous]
  IN  IF syncing \/ Congested(c) THEN [p EXCEPT !.s = c]
      ELSE IF ~(ready.modified /\ ready.requested) THEN [p EXCEPT !.s = ready]
      ELSE LET sent == SendPing(Write(SendPing([p EXCEPT !.s = ready]),
                                      Update(size)))
           IN  [sent EXCEPT !.s.modified = FALSE, !.s.requested = FALSE]

\* Mutant: the ping after the update is left out.
AttemptOnePing(p, syncing, size) ==
  LET c     == [p.s EXCEPT !.retry = FALSE]
      ready == [CloseWindow(c) EXCEPT !.requested = @ \/ c.continuous]
  IN  IF syncing THEN [p EXCEPT !.s = c]
      ELSE IF Congested(c) THEN [p EXCEPT !.s = [c EXCEPT !.retry = TRUE]]
      ELSE IF ~(ready.modified /\ ready.requested) THEN [p EXCEPT !.s = ready]
      ELSE LET sent == Write(SendPing([p EXCEPT !.s = ready]), Update(size))
           IN  [sent EXCEPT !.s.modified = FALSE, !.s.requested = FALSE]

\* rfbSendFramebufferUpdate.  syncing: the server is in the middle of a
\* message that the viewer wants synchronised.
Attempt(p, syncing, size) ==
  LET c     == [p.s EXCEPT !.retry = FALSE]
      ready == [CloseWindow(c) EXCEPT !.requested = @ \/ c.continuous]
  IN  IF syncing THEN [p EXCEPT !.s = c]
      ELSE IF Congested(c) THEN [p EXCEPT !.s = [c EXCEPT !.retry = TRUE]]
      ELSE IF ~(ready.modified /\ ready.requested) THEN [p EXCEPT !.s = ready]
      ELSE LET sent == SendPing(Write(SendPing([p EXCEPT !.s = ready]),
                                      Update(size)))
           IN  [sent EXCEPT !.s.modified = FALSE, !.s.requested = FALSE]

-----------------------------------------------------------------------------
(***************************************************************************)
(* The viewer's messages, as the server handles them.                      *)
(***************************************************************************)

\* SetEncodings with the Fence and ContinuousUpdates encodings.
HandleEncodings(p) ==
  IF p.s.fence THEN p
  ELSE Write(Write([p EXCEPT !.s.fence = TRUE], Plain("probe")),
             Plain("endOfCU"))

\* Mutant: an answer is counted as two.
HandlePongTwice(p, pong) ==
  [p EXCEPT !.s.pings = @ - 2,
            !.s.acked = pong.offset,
            !.s.measured = TRUE,
            !.s.seen = @ \/ pong.inFlight > p.s.window]

\* HandleFence, for the answer to a ping (HandleRTTPong).
HandlePong(p, pong) ==
  [p EXCEPT !.s.pings = @ - 1,
            !.s.acked = pong.offset,
            !.s.measured = TRUE,
            !.s.seen = @ \/ pong.inFlight > p.s.window]

\* elapsed: the time for which an update was deferred is over.
HandleRequest(p, incremental, syncing, elapsed, size) ==
  LET asked == [p EXCEPT
                 !.s.requested = @ \/ ~incremental \/ ~p.s.continuous,
                 !.s.modified = @ \/ ~incremental]
  IN  IF asked.s.modified /\ (~asked.s.deferred \/ elapsed)
      THEN [Attempt(asked, syncing, size) EXCEPT !.s.deferred = FALSE]
      ELSE asked

\* EnableContinuousUpdates: the viewer never disables them.
HandleEnable(p, syncing, size) ==
  IF ~p.s.fence THEN p
  ELSE Attempt([p EXCEPT !.s.continuous = TRUE, !.s.requested = FALSE],
               syncing, size)

Handle(p, m, syncing, elapsed, size) ==
  CASE m.kind = "encodings" -> HandleEncodings(p)
    [] m.kind = "pong"      -> HandlePong(p, m)
    [] m.kind = "sync"      -> [p EXCEPT !.s.pendingSync = TRUE]
    [] m.kind = "request"   -> HandleRequest(p, m.incremental, syncing,
                                             elapsed, size)
    [] m.kind = "enable"    -> HandleEnable(p, syncing, size)
    [] OTHER                -> p

\* rfbProcessClientMessage: the message after a synchronising fence is handled
\* before the fence is answered.
ServerReceives ==
  /\ toServer # <<>>
  /\ \E elapsed \in BOOLEAN, size \in UpdateSizes :
       LET syncing == s.pendingSync
           start   == [s |-> [s EXCEPT !.pendingSync = FALSE], out |-> toViewer]
           done    == Handle(start, Head(toServer), syncing, elapsed, size)
           end     == IF syncing THEN Write(done, Plain("reply")) ELSE done
       IN  s' = end.s /\ toViewer' = end.out
  /\ toServer' = Tail(toServer)
  /\ UNCHANGED viewer

-----------------------------------------------------------------------------
(***************************************************************************)
(* What the server does on its own.                                        *)
(***************************************************************************)
Here == [s |-> s, out |-> toViewer]
Becomes(p) == s' = p.s /\ toViewer' = p.out
ViewerKeeps == UNCHANGED <<viewer, toServer>>

\* Something is drawn and an update is deferred.
Draw ==
  /\ ~s.modified \/ ~s.deferred
  /\ s' = [s EXCEPT !.modified = TRUE, !.deferred = TRUE]
  /\ UNCHANGED toViewer /\ ViewerKeeps

\* rfbDeferredUpdateCallback.
DeferredUpdate ==
  /\ s.deferred
  /\ \E size \in UpdateSizes :
       Becomes([IF s.modified THEN Attempt(Here, FALSE, size) ELSE Here
                  EXCEPT !.s.deferred = FALSE])
  /\ ViewerKeeps

\* updateCallback, 50 ms after the link was found congested.
RetryUpdate ==
  /\ s.retry
  /\ \E size \in UpdateSizes : Becomes(Attempt(Here, FALSE, size))
  /\ ViewerKeeps

\* congestionCallback and UpdateCongestion.
AdjustWindow ==
  /\ s.timer
  /\ \E w \in Windows :
       s' = [s EXCEPT !.timer = FALSE,
                      !.window = IF s.seen THEN w ELSE @,
                      !.seen = FALSE]
  /\ UNCHANGED toViewer /\ ViewerKeeps

\* Messages that are no update: the clipboard, the bell.
SendData ==
  /\ \E size \in DataSizes :
       /\ Before(s.acked, s.sock) + size <= MaxUnacked
       /\ Becomes(Write(Here, Data(size)))
  /\ ViewerKeeps

\* Nothing was written for a while.
TimePasses ==
  /\ ~s.idle
  /\ s' = [s EXCEPT !.idle = TRUE]
  /\ UNCHANGED toViewer /\ ViewerKeeps

-----------------------------------------------------------------------------
(***************************************************************************)
(* The viewer (CConn.java), whose RFB thread handles one message at a time *)
(* and answers every fence at once.                                        *)
(***************************************************************************)

\* requestNewUpdate, at the start of an update.
NextRequest == IF viewer.continuous THEN <<>> ELSE <<Request(TRUE)>>

\* framebufferUpdateStart and framebufferUpdateEnd: after the first update a
\* synchronising fence finds out whether the server supports them.
ViewerUpdate ==
  LET probe == viewer.first /\ viewer.supportsFence
  IN  /\ viewer' = [viewer EXCEPT !.first = FALSE]
      /\ toServer' = toServer \o NextRequest
                              \o (IF probe THEN <<Plain("sync")>> ELSE <<>>)

\* fence: the answer to the viewer's own fence turns on continuous updates.
ViewerFence(m) ==
  LET enable == m.kind = "reply" /\ viewer.supportsCU
      answer == CASE m.kind = "ping"  -> <<Pong(m)>>
                  [] m.kind = "probe" -> <<Plain("probed")>>
                  [] enable           -> <<Plain("enable")>>
                  [] OTHER            -> <<>>
  IN  /\ viewer' = [viewer EXCEPT !.supportsFence = TRUE,
                                  !.continuous = @ \/ enable]
      /\ toServer' = toServer \o answer

ViewerReceives ==
  /\ toViewer # <<>>
  /\ toViewer' = Tail(toViewer)
  /\ UNCHANGED s
  /\ LET m == Head(toViewer)
     IN  \/ m.kind = "update" /\ ViewerUpdate
         \/ m.kind \in {"ping", "probe", "reply"} /\ ViewerFence(m)
         \/ /\ m.kind = "endOfCU"
            /\ viewer' = [viewer EXCEPT !.supportsCU = TRUE]
            /\ UNCHANGED toServer
         \/ m.kind = "data" /\ UNCHANGED <<viewer, toServer>>

\* The user moves the mouse, asks for a refresh, or changes an option that
\* treats the next update as the first; bound: one such message at a time.
UserActs ==
  /\ toServer = <<>>
  /\ \/ /\ "input" \in UserActions
        /\ toServer' = <<Plain("input")>> /\ UNCHANGED viewer
     \/ /\ "refresh" \in UserActions
        /\ toServer' = <<Request(FALSE)>> /\ UNCHANGED viewer
     \/ /\ "reconfigure" \in UserActions
        /\ viewer' = [viewer EXCEPT !.first = TRUE] /\ UNCHANGED toServer
  /\ UNCHANGED <<s, toViewer>>

-----------------------------------------------------------------------------
\* The client has been initialised (rfbInitFlowControl, after one byte of
\* handshake) and the viewer has sent its encodings and its first request.
Init ==
  /\ s = [fence |-> FALSE, sock |-> 1, sent |-> 0, acked |-> 1,
          window |-> InitialWindow, pings |-> 0, measured |-> FALSE,
          seen |-> FALSE, timer |-> FALSE, idle |-> FALSE,
          pendingSync |-> FALSE, modified |-> TRUE, requested |-> FALSE,
          continuous |-> FALSE, deferred |-> FALSE, retry |-> FALSE]
  /\ viewer = [supportsFence |-> FALSE, supportsCU |-> FALSE,
               continuous |-> FALSE, first |-> TRUE]
  /\ toViewer = <<>>
  /\ toServer = <<Plain("encodings"), Request(FALSE)>>

Next ==
  \/ ServerReceives \/ ViewerReceives
  \/ Draw \/ DeferredUpdate \/ RetryUpdate \/ AdjustWindow
  \/ SendData \/ TimePasses \/ UserActs

Spec == Init /\ [][Next]_vars

\* Only ServerReceives takes a message from toServer, only ViewerReceives one
\* from toViewer.
Reads(channel) == channel # <<>> /\ channel' = Tail(channel)

\* Both sides keep reading, the timers fire and time passes.
Fairness ==
  /\ WF_toServer(Reads(toServer)) /\ WF_toViewer(Reads(toViewer))
  /\ WF_vars(DeferredUpdate) /\ WF_vars(RetryUpdate)
  /\ WF_vars(TimePasses)

FairSpec == Spec /\ Fairness

-----------------------------------------------------------------------------
Offsets == 0 .. Word - 1

TypeOK ==
  /\ s \in [fence: BOOLEAN, sock: Offsets, sent: Offsets, acked: Offsets,
            window: Windows, pings: Nat, measured: BOOLEAN, seen: BOOLEAN,
            timer: BOOLEAN, idle: BOOLEAN, pendingSync: BOOLEAN,
            modified: BOOLEAN, requested: BOOLEAN, continuous: BOOLEAN,
            deferred: BOOLEAN, retry: BOOLEAN]
  /\ viewer \in [supportsFence: BOOLEAN, supportsCU: BOOLEAN,
                 continuous: BOOLEAN, first: BOOLEAN]

Places(messages, kind) == {i \in DOMAIN messages : messages[i].kind = kind}

\* The pings that the server still waits for: their answers, and those that
\* the viewer has not read.
Pongs == Places(toServer, "pong")
Pings == Places(toViewer, "ping")

(***************************************************************************)
(* pingCounter, which is unsigned, counts exactly the pings that are on    *)
(* the wire in either direction: it never wraps and never drifts.          *)
(***************************************************************************)
PingsInTransit == s.pings = Cardinality(Pongs) + Cardinality(Pings)

\* sentOffset is the offset of the last ping, or was acknowledged.
SentIsLast ==
  /\ \A i \in Pings :
       (\A j \in Pings : j <= i) => toViewer[i].offset = s.sent
  /\ Pings = {} => \A i \in Pongs :
       (\A j \in Pongs : j <= i) => toServer[i].offset = s.sent
  /\ Pings = {} /\ Pongs = {} /\ s.measured => s.sent = s.acked

Unread(m) == Before(s.acked, m.offset)

(***************************************************************************)
(* What was acknowledged, the offsets of the pings on the wire, sentOffset *)
(* and the end of the stream come in this order, however often the 32-bit  *)
(* offsets have wrapped; sentOffset is the offset of the last ping.        *)
(***************************************************************************)
OffsetsInOrder ==
  /\ \A i, j \in Pongs : i < j => Unread(toServer[i]) <= Unread(toServer[j])
  /\ \A i \in Pongs, j \in Pings : Unread(toServer[i]) <= Unread(toViewer[j])
  /\ \A i, j \in Pings : i < j => Unread(toViewer[i]) <= Unread(toViewer[j])
  /\ s.measured \/ Pings # {} \/ Pongs # {} =>
       Before(s.acked, s.sent) <= Before(s.acked, s.sock)
  /\ SentIsLast

OnTheWire == toViewer \o toServer

(***************************************************************************)
(* Once a round trip was measured, a link with nothing on the wire that    *)
(* has been idle "too long" lets a transfer through (flowcontrol.c         *)
(* 315-332), even after more than a window of other data was written.      *)
(***************************************************************************)
MeasuredLinkReopens ==
  OnTheWire = <<>> /\ s.idle /\ s.measured => ~Congested(s)

(***************************************************************************)
(* The same for every link, as the comments of rfbIsCongested put it:      *)
(* "Idle for too long? (and no data on the wire)" (flowcontrol.c 315) and  *)
(* "Close congestion window and allow a transfer" (330).                   *)
(***************************************************************************)
IdleLinkReopens == OnTheWire = <<>> /\ s.idle => ~Congested(s)

(***************************************************************************)
(* An update that fills the window may be followed by just one more before *)
(* it was received (flowcontrol.c 343-349): allowing a transfer when one   *)
(* ping is left never builds up a backlog.                                 *)
(***************************************************************************)
Filling ==
  {i \in Places(toViewer, "update") : \A w \in Windows : toViewer[i].size >= w}

NoBacklog == s.fence => Cardinality(Filling) <= 2

\* A window of data was written before the first ping, the known flaw that
\* IdleLinkReopens exhibits.
Wedged ==
  /\ ~s.measured /\ s.pings = 0
  /\ Before(s.acked, s.sock) >= s.window

\* From some time on there is only drawing and nothing the viewer asks for.
Undisturbed == <>[][~(SendData \/ UserActs)]_vars

(***************************************************************************)
(* No modification stays unsent for ever: neither congestion, nor a fence  *)
(* that suppresses an attempt and cancels its retry (rfbserver.c           *)
(* 1777-1785), nor the change from requests to continuous updates stalls   *)
(* the viewer, unless the link was wedged before the first ping.           *)
(***************************************************************************)
UpdatesFlow == Undisturbed => []<>(~s.modified \/ Wedged)
=============================================================================
