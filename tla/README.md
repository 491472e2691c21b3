# TLA+ models of TurboVNC

This directory holds a formal model of TurboVNC: TLA+ modules translated from
the source, TLC configurations that check them on small instances, and TLAPS
proofs of what matters most for every value of the constants.  Paths of the
form `draw.c` are short for
`src/unix/Xvnc/programs/Xserver/hw/vnc/draw.c`, where the server's own code
lives.

## 1. The system

TurboVNC is an X server (`Xvnc`) that draws into memory and sends the result to
any number of viewers over the RFB protocol.  What follows is the program's own
code; the X server, Mesa, FreeType, zlib and JSch are vendored and are not
modelled, except for the few things the server relies on.

| Component | Code | State it keeps | Operations |
|---|---|---|---|
| Update tracking | `draw.c`, `rfb.h`, `rfbserver.c` 1149-1195, 1762-1943, `randr.c` 492-579 | per client: `modifiedRegion`, `copyRegion` with `copyDX/copyDY`, `requestedRegion`, `cuRegion`, `deferredUpdateScheduled`, `updateTimer` | the drawing hooks, `rfbCopyRegion`, update requests, `rfbSendFramebufferUpdate`, the resize reset |
| Flow control | `flowcontrol.c`, `rfbserver.c` 574-621, `sockets.c` 502-567 | per client: `sockOffset`, `sentOffset`, `ackedOffset`, `congWindow`, `baseRTT`, `minRTT`, `pingCounter`, the pending synchronised fence | fences, pings and pongs, `rfbIsCongested`, the congestion timer |
| Interframe comparison | `rfbserver.c` 242-268, 1945-2040, 2343-2361 | per client: `compareFB`, `firstCompare`, `ifRegion` | comparison of an update with what was sent before, switching it on and off |
| Automatic lossless refresh | `rfbserver.c` 153-224, 2226-2236, `draw.c` 135-145 | per client: `lossyRegion`, `alrRegion`, `alrEligibleRegion`, `alrTimer` | `alrCallback` |
| Copy encoding | `rfbserver.c` 2268-2391 | none | `rfbSendCopyRegion` orders the rectangles of a copy |
| Tight encoding | `tight.c` | per thread: buffers, mutexes; per client: zlib streams | `rfbNumCodedRectsTight`, the split into subrectangles, the worker threads |
| Other encoders | `hextile.c`, `rre.c`, `corre.c`, `zlib.c`, `zrle.c`, `translate.c` | per client: zlib streams | pure encodings |
| Sessions and sockets | `sockets.c`, `rfbserver.c` 342-621 | the list of clients, `pointerClient` | accept, read, write, close |
| Authentication | `auth.c`, `authpam.c`, `rfbssl_*.c` | per client: protocol version, state, security type; global: blocked hosts, one-time password | the handshake |
| Clipboard | `cutpaste.c` | the last cut text and its owner | X selections to and from RFB |
| Input | `kbdptr.c`, `rfbserver.c` 1197-1227 | pressed keys, buttons, `pointerClient` | key and pointer events |
| Cursor | `sprite.c`, `cursor.c` | `cursorIsDrawn`, per client `cursorWasChanged`, `cursorWasMoved` | drawing and removing the cursor |
| Desktop size | `randr.c` | screens, `pendingDesktopResize`, `blockUpdates` | resizes from viewers and from RandR |
| Java viewer | `src/java/com/turbovnc` | connection state, pixel format, pending requests | the other end of the protocol |
| Tools | `src/unix/vncconnect`, `src/unix/vncpasswd`, `src/unix/libvncauth`, `src/win/vncviewer` | none | command-line tools, the Windows viewer |

The server is one thread: X requests, messages from viewers and timers are
dispatched one at a time and each handler runs to its end, so a handler is one
action of a model.  The exceptions are the worker threads of the Tight encoder,
whose interleaving with the server's thread is modelled step by step, and what
runs beside the server: the viewers, each at the other end of a connection with
messages in order, and the applications of the session, which answer the
server's requests when it suits them.

**How the components interact.**  A drawing hook of `draw.c` adds what it
changes to each client's regions and defers an update.  A request, a timer or
the switch to continuous updates calls `rfbSendFramebufferUpdate`.  That
function asks flow control for permission (`rfbIsCongested`), cuts the update
out of the regions, sends copies (`rfbSendCopyRegion`), has the rest compared
with `compareFB` (interframe comparison), encodes it (`tight.c` and the others)
between two pings, and starts the timer of the automatic lossless refresh, whose
callback calls the same function again with regions of its own.  A resize resets
all of it.

A session begins in `sockets.c`, passes through the handshake of `rfbserver.c` and
`auth.c`, and ends in `rfbClientConnectionGone`; before every one of these steps
other sessions may have taken theirs.  The viewers in the normal state share the
pointer (`pointerClient`), and each is sent the texts that the applications copy
(`cutpaste.c`), through requests to those applications that are answered later.

**What is hard.**  The state that says what a viewer lacks is spread over
regions that several handlers change; an update may be cut short at many points
(deferral, congestion, a synchronised fence, nothing requested, a write error)
and each must leave the regions in a state from which the next update is right.
The offsets of flow control wrap, its windows come from unsigned arithmetic, and
its timers must never leave an update unsent.  The threads share the client's
zlib streams.  An update announces how many rectangles it has before they are cut
in three different ways.  The handshake's passwords, counters and rules of
sharing are global, while the sessions they apply to run side by side.  The
clipboard has three owners and no acknowledgement.  `PROJECT.json` lists these points line by line ("hazards"), with
the properties that guard them.

## 2. The modules, and the order of the work

Done:

1. `FramebufferUpdate` – operators on one client's regions; no behaviour.
2. `UpdateTracking` – the drawing hooks, requests, timers and resizes built from
   them, with any number of clients; `FramebufferUpdate_proofs`, the lemmas about the
   operators, and `UpdateTracking_proofs`.
3. `FlowControl` and `CongestionWindow`, both over the unsigned numbers of `MachineWord`;
   `FlowControl_proofs`, about both.
4. `SequentialEncoder`, the abstract specification of the Tight encoder, and
   `TightThreads`, which implements it with `rfbNumThreads` threads;
   `TightThreads_proofs`.
5. `Interframe` and `LosslessRefresh`, both on top of `FramebufferUpdate`
   (`Interframe_proofs`, `LosslessRefresh_proofs`, which use the lemmas of
   `FramebufferUpdate_proofs`).
6. `SimultaneousCopy`, the abstract specification of a copy, and `CopyOrder`, which
   implements it rectangle by rectangle; `TightRects`, the way the Tight encoder cuts a
   rectangle; `UpdateMessage`, which composes the two into a whole message;
   `UpdateMessage_proofs`, about all of them.
7. `Sessions`, the sessions and their handshakes; `SharedInput`, which composes them
   with the pointer.
8. `Clipboard`.
9. `DesktopSize`.  These four share the constants of `ViewerNames`; the proofs about
   all of them are in `Sharing_proofs`.

To come, in this order:

10. The cursor drawn into the framebuffer; `DrawBoxes` – that the box each drawing
   hook adds to the modified region covers what the operation may draw.
   An abstract specification *the viewer shows some past state of each pixel and
   in the end the present one*, implemented by `UpdateTracking`; resizes in
   `LosslessRefresh`; refresh and comparison together.
11. The states of VeNCrypt and TLS in `Sessions`; threads that cannot be created in
   `TightThreads`.

## 3. Modules and code

### FramebufferUpdate

A client record has the fields of `rfbClientRec` that track updates (`rfb.h`
297-325).  `viewer` is added: the framebuffer the viewer will have once it has
processed all that was sent, which is exact because the connection is an ordered
reliable stream.  A region is a set of pixels, and a pixel an integer; a
two-dimensional screen is laid out with a stride of twice its width, so that a
displacement `(dx, dy)` is one integer and `copyDX` stands for both.
`Extents(_)`, the bounding box, is a parameter: the proofs hold for any operator
that encloses its argument, the model checker uses intervals of a row.

| Definition | Code |
|---|---|
| `AddToModifiedRegion` | the macro `ADD_TO_MODIFIED_REGION` |
| `CopyRegion`, `ComposeCopy`, `KeepPendingCopy` | `rfbCopyRegion`, its two outcomes |
| `Requested` | the region part of `FramebufferUpdateRequest` |
| `ResetRegions` | what `vncScreenSetSize` does to every client |
| `WithStandingRequest`, `UpdateRegion`, `UpdateCopyRegion` | the first steps of `rfbSendFramebufferUpdate` |
| `Transmit`, `Received` | the bookkeeping once the update is to be sent; the viewer's side |
| `SendFramebufferUpdate` | the whole function; `how.hold` names the early return taken, `how.combine` whether the rectangles of the update were more than `rfbCombineRect` (100 by default) and were replaced by their bounding box |
| `Mirrors` | what the comment at `rfb.h` 297 says of the regions |

### UpdateTracking

Variables: `screen` and `fb` (the framebuffer), `cl` (the client records) and the
history variable `misled`, which is set for a client when the server describes a
copy to it wrongly in one of the two ways of section 7.  Actions: `Draw` (every GC operation that does not
copy from the screen), `CopyWindow`, `CopyArea`, `SetScreenSize`, `ChangeCursor`,
`SetEncodings`, `FramebufferUpdateRequest`, `EnableContinuousUpdates`,
`DeferredUpdate`, `RetryUpdate`.  A drawing hook changes all clients in one step,
as in the code, and with `rfbDeferUpdateTime` 0 (`DeferUpdates = FALSE`) sends at
once.  `ChangeCursor` never defers: it sends to the viewers that are to be told (`told`)
in the same step, unless an update is deferred already (`sprite.c` 799-816, 1025-1049).

### FlowControl and CongestionWindow

`s` is the server's record of one client (`sock`, `sent`, `acked` are
`sockOffset`, `sentOffset`, `ackedOffset`; `pings` is `pingCounter`; `window` is
`congWindow`), `viewer` the viewer's connection state, `toViewer` and `toServer`
the messages on the wire.  The operators `SendPing`, `Congested`, `Attempt`,
`Handle...` are the functions of `flowcontrol.c` and `rfbserver.c`, as functions
from the record and the output so far to the same; actions apply them.
`ServerReceives` is `rfbProcessClientMessage`: the message after a synchronising
fence is handled with `syncing` set, then the fence is answered.  The viewer is
that of `CConn.java`.  The regions are reduced to `modified` and `requested`.
`Places(messages, kind)` are the positions at which messages of a kind are under way;
the properties speak of `Pings` and `Pongs`.
`CongestionWindow` has the arithmetic that `FlowControl` leaves open: the
window, `baseRTT` and `minRTT`.  In both, offsets, windows and times are unsigned numbers
modulo the `Word` of `MachineWord`; `Before(a, b)` is the unsigned difference by
which the code compares two offsets.

### SequentialEncoder and TightThreads

`SequentialEncoder` says what is promised of a rectangle: its bands reach the
client in order and once each, or the client is dropped.  `TightThreads` has the
control state of the server's thread (`main`) and of each worker (`worker`), the
parameter blocks `tparam[]` (`param`) and the mutexes `ready` and `done`, which
are used as binary signals.  `failed` is history: the threads whose encoder has
failed.  Actions of the server's thread are the stretches
between two points at which a worker can notice something: `Begin`, `OwnBand`,
`Await`, `Flush`, `Dismiss`, `Join`, `ClientConnectionGone`; those of a worker are
`Check`, `Take`, `Encode`, `Signal`.

### Interframe

`ice` holds `compareFB`, `firstCompare` and `ifRegion` of one client.
`SendFramebufferUpdateIF` is `rfbSendFramebufferUpdate` with the comparison: the
viewer is sent what `compareFB` holds of `ToSend`.  `Blocks(_)` cuts a region
into the blocks that are compared.  `SetEncodings(copyRect, high)` switches
comparison with the compression level unless `AlwaysOn` (`-interframe`).  Two
history variables: `midway` says that the present buffer was allocated in the
middle of the session, and `excused` that the first comparison after that left
pixels out (or that a copy was described wrongly, as in `UpdateTracking`).

### LosslessRefresh

`alr` holds `lossyRegion`, `alrRegion`, `alrEligibleRegion`, `firstUpdate` and the
timer.  `how.inexact` are the pixels that the encoder chooses to send as JPEG.
`putImageOnly` is the static of that name.  `lossy` is what the viewer really
shows inexactly; the properties compare it with
what the server remembers.  History: `forgotten` has the lossy pixels of which a
refresh emptied `lossyRegion` without sending them (`Forgets`), because it was withheld or
sent only what is eligible; copies carry them along, and what is sent anew is no longer
among them (`Carried`).  `AlrCallback` is the whole of `alrCallback`: it
replaces the regions, sends, clears and restores.

### SimultaneousCopy and CopyOrder

`SimultaneousCopy` is one step: the pixels of the region take the contents of their
sources.  `CopyOrder` is the loop of `rfbSendCopyRegion`.  `reg`, `dx`, `dy` are its
arguments, `nrects`, `nrectsInBand`, `thisRect`, `firstInNextBand` its local variables
and `pc` the place in the loop: the outer loop over the bands (`StartBand`), the inner
loop that counts a band (`ScanBand`, `EndScan`) and the one that sends it
(`SendCopyRect`, `EndBand`).  `shown` is the viewer's framebuffer, which performs each
rectangle as if through a buffer; `copied` is history.  Regions are sequences of
boxes, sorted into bands as the region code of the X server keeps them (`Banded`).

### TightRects and UpdateMessage

The recursion of `SendRectEncodingTight` is a stack of jobs, `todo`: a rectangle of the
update (cut into bands by `EncodeBands`), one to encode (`EncodeRect`), one to send in
pieces (`SendSimple`) or as one colour (`SendSolid`), or one that is being searched for
an area of one colour from row `dy` on (`SearchRow`, `SendUpperPart`).  A step takes the
job on top and puts the jobs that it calls for in its place (`Replace`), those behind a
condition by `When`.  `Sought` maps a colour to the one that an area of it is searched
for: itself, or its shade of gray for a viewer of grays (`tight.c` 533-540).  `Split`, `BestSolidArea`, `Extend` and `Around` are
`SendRectSimple`, `FindBestSolidArea`, `ExtendSolidArea` and the five parts around such an
area; `Run` is the part of one row of tiles that has the colour, and `Widths` the
width that is left after each row.  `NumCodedRects` is `rfbNumCodedRectsTight`.  The bands
are encoded in turn, which `TightThreads` shows to be the result of encoding them with
threads.

`UpdateMessage` puts them together: `phase` runs through the announcement, the copies,
the rectangles and the end.  `Announce` adds up `NumCodedRects` (`Sum`), unless one of
them is 0 (`LeftOpen`), which announces `OpenNumber`, 65535; the header has 16 bits.
`Picture` is what the viewer shows once it has stored the pieces; `PictureIsUpdated`
compares it with what `Received` of `FramebufferUpdate` says in one step, so this is the
link between the model of the regions and that of the rectangles.

### Sessions and SharedInput

`session` has a record for each viewer: the state of the handshake, whether the server
made the connection, and whether a view-only password was given.  Globals of the
server keep their names (`authFails`, `authTooManyFails`, `OTPValue`); `blockTimer` is
the pending timer of `rfbAuthReenable`, `idleTimer` says that the idle timeout is
armed.  Each handler of the handshake is an action: `ProtocolVersion`,
`SecurityType`, `AuthType`, `ResponseAccepted`/`ResponseRejected`/`PasswordNotSet`,
`ClientInit`.  `ConnectionLost` is a read or write error, a viewer that leaves or
sends nonsense.  `delay` and `uses` are history: the delay of the block had it not been
cut to 32 bits, and the viewers let in by each one-time password.

`SharedInput` adds `pointerClient` and the buttons that the X server believes to be
down.  A step of the sessions that closes the holder's connection clears
`pointerClient` in the same step, as `rfbClientConnectionGone` does; `presser` is
history.

### Clipboard

`owner` is the owner of the selection, `requests` what the server asked of each
application and got no answer to, `property` the one property by which text is handed
over, `cutText` what each viewer was sent last, `toViewer` and `toServer` the messages
under way.  An application's copy (`Copy`), its list of targets (`AnswerTargets`), its
text (`StoreText`, then `AnswerText`, for these are two requests to the X server) and
the cut buffer (`WriteCutBuffer`) interleave with the viewers'
messages.  Whoever takes the selection goes through `OwnSelection`, which calls
`SelectionCallback`; text from a viewer (`ClientCutText`) makes the server the owner
(`TakeClientText`), which the callback passes over, and writes the cut buffer
(`SetXCutText`).  The viewer is that of `ClipboardDialog.java` and `DesktopWindow.java`:
`clip` is the clipboard of its desktop, `dialog` what the dialog holds, which is what it
last sent or got.  History: `latest`, what was copied last and by whom; `overtaken`, the
last text sent came from somebody else; `stale`, the viewer has not been sent anything
since it joined or its user copied something.

### DesktopSize

`width` is the size, `crtc` what each output shows, `screens` the list `rfbScreens` with
an identifier for each output, `cl` the clients' records: the two flags of what is to be
announced, `reason` and `result`, and beside them what the viewer knows, `width` and
`layout`.  Screens have one dimension, and a viewer is assumed to have asked for updates
of the whole screen, so that whatever is modified may be sent at any attempt.

`SetDesktopSize` is `ResizeDesktop` up to the point where the outputs that the request
uses are set.  They are set one after the other in the order of `Turn`, which shows only
if memory runs out on the way: `Reconfigure` is all of them, `ReconfigureFails` some, after
which outputs are left that no screen of the list has.  What follows are steps of their own, because each of them sends to every
viewer or may fail: `DisableOutput`, which goes through RandR and broadcasts, `Resize`,
`Expose` (the drawing inside `xf86SetRootClip`), `CropScreens`, `Announce` and
`AnswerError`.  In `CropScreens` there may be no memory for the modes of some outputs,
which then stay as they were (`uncropped`), or for the comparison buffers of some clients
(`closed`).  That `vncCrtcSet` fails there (`randr.c` 482-487) is not modelled because it
cannot happen: an output keeps its CRTC or loses it, and `RRCrtcNotify` asks for memory
only where the number of outputs of a CRTC grows.  `pc` tells where the request is.  While it is not `idle` nothing else
happens, for there is one thread.  `CrtcSet` and `ScreenSizeSet` are RandR's calls on
behalf of X clients.  Every attempt to send has three outcomes: it is made, withheld
(congestion, a fence, deferral), or the connection breaks.  History: `stale`, an error was sent in
the place of an announcement; `untold`, the size changed and nothing was to tell the
viewer; `misfit`, it was sent pixels of another size than it knew; `broken`, a
change was given up half way or left an output as it was (no memory), and none was carried
out in full since.

## 4. What the runs show

| Run | Configuration | Properties | Bounds |
|---|---|---|---|
| `updates` | `MCUpdateTracking.cfg` | `MirrorUnlessMisled`, `LeftoverOffsetIsPending`, `EventuallySynced` | a row of 2 pixels, one viewer, requests of the row or a part of it, copies by one pixel either way, congestion at any attempt |
| `flow_safety` | `MCFlowControl_safety.cfg` | `TypeOK`, `PingsInTransit`, `OffsetsInOrder`, `MeasuredLinkReopens`, `NoBacklog` | windows of 2 and 3 bytes, updates and data of 3, fences of 1, offsets modulo 20 |
| `flow_progress` | `MCFlowControl_fair.cfg` | `UpdatesFlow` | window, updates and data of 1 byte, offsets modulo 3; the user refreshes and changes the settings |
| `window` | `MCCongestionWindow.cfg` | `WindowBounded`, `LatencyIsLeast`, `CongestionWasMeasured`, `SlowsDown` | the program's limits in KB, six round trips, four amounts in flight |
| `threads` | `MCTightThreads.cfg` | `StreamsNotShared`, `ClientOutlivesWorkers`, `EncodesSequentially`, `ServerReturns` | 3 threads, 2 clients, 3 rectangles |
| `interframe` | `MCInterframe_safety.cfg` | `CopyOfRemote`, `MirrorUnlessExcused` | a row of 3 pixels and one of 1, blocks of one pixel |
| `refresh` | `MCLosslessRefresh_safety.cfg` | `MirrorUnlessExcused`, `LossIsRemembered`, `RefreshIsDue` | a row of 2 pixels |
| `rectangles` | `MCUpdateMessage.cfg` | `FitsBuffer`, `SolidIsSolid`, `CoveredOnce`, `PictureIsUpdated`, `AnnouncedIsSent`, `CopiesAtOnce` | a screen of 6 x 8; copies of all regions in corners of 5 x 2 and 4 x 3; pieces up to 12 pixels, 2 threads |
| `sessions` | `MCSessions.cfg` | `NeverSharedIsAlone`, `PasswordAdmitsOnce`, `BlockIsTimed`, `IdleWhenAlone`, `HolderIsConnected`, `DragIsUninterrupted`, `NobodyIsDisplaced` | 3 viewers, 4 kinds of server, 5 failures |
| `clipboard` | `MCClipboard.cfg` | `ViewersFollowSession`, `NoEcho` | 2 applications, 2 texts, 1 viewer |
| `desktop` | `MCDesktopSize.cfg` | `UpdatesFit`, `LayoutKnown`, `ToldLayoutFits` | 1 viewer with any of the extensions, 2 outputs, sizes up to 2 and requests for 3 |
| `flow_idle_link` | `MCFlowControl_idle.cfg` | `IdleLinkReopens` is violated | as `flow_safety` |

**Updates.**  `MirrorUnlessMisled` is the promise of `rfb.h` 297: the copy and the
modifications that are pending are enough to bring the viewer up to date, at
every moment, however many copies were composed and however little of the
pending update was requested.  It breaks at once if the source of a copy is not
pruned of the pixels the viewer lacks.  `LeftoverOffsetIsPending` says how long a
displacement can outlive its copy region: never longer than there is something
else to send.  `EventuallySynced` says that the two timers and the viewer's
requests are enough to empty the regions, although requests and updates covered
parts of the screen before.  The screen is quiet when its pixels and the viewers'
settings do not change; the cursor may change, and drawing that changes no pixel go on.

**Flow control.**  The counters of the server are compared with the messages that
are really on the wire (`PingsInTransit`, `OffsetsInOrder`).  `NoBacklog` bounds
what the exception for the last ping (`flowcontrol.c` 343-350) lets through.
`MeasuredLinkReopens` and `UpdatesFlow` are about getting stuck; in the second an attempt
may come under a fence that synchronises, which cancels the retry and sends nothing.  `window` checks
the arithmetic, unsigned and with products that do not fit the word.

**Threads.**  `EncodesSequentially` is a refinement: with the buffers and the
handshake hidden, what reaches a client is what a single thread would have
written, or the client is dropped.  The other properties are about shared state:
zlib streams, the client's record, and the server's thread that must come back.

**Comparison and refresh.**  `CopyOfRemote` compares `compareFB` with what the
viewer shows, `MirrorUnlessExcused` says that what the comparison discards was
redundant.  `LossIsRemembered` compares what the viewer shows inexactly with
`lossyRegion`, and `RefreshIsDue` says that the timer runs as long as there is
such a pixel.  Both leave out what the server was made to forget (`forgotten`), and no more:
a later loss of the same pixel is remembered again.

**Rectangles.**  `CopiesAtOnce` is a refinement: whatever the shape of the region and
the displacement, the walk has the effect of one copy.  `CoveredOnce`, `FitsBuffer` and
`SolidIsSolid` say of the three ways of cutting a rectangle, applied to each other's
results, that nothing is left out, sent twice, too large for the buffer or of the
wrong colour.  `AnnouncedIsSent` compares the number computed before the cutting with
what was sent, for rectangles that are given to two threads with and without LastRect,
and `PictureIsUpdated` says that the message as a whole does to the
viewer what the region model takes for granted.

**Sessions.**  The rules are stated for the whole set of sessions, while the code tests
them one handler at a time: `NeverSharedIsAlone` and `NobodyIsDisplaced` are about
viewers whose handshakes run side by side, `PasswordAdmitsOnce` about viewers that
answer the challenge at the same time, `BlockIsTimed` about failures of several viewers
against one timer, `IdleWhenAlone` about any order of arrivals and departures.
`HolderIsConnected` and `DragIsUninterrupted` are about a drag of one viewer while
others move the pointer, leave or are closed.

**Clipboard.**  `ViewersFollowSession` says that the viewer ends up with the latest
text although answers arrive late and out of order and equal texts are not repeated;
`NoEcho` that a viewer's own text does not come back to it.

**Desktop size.**  `LayoutKnown` compares what a viewer knows with the outputs, whoever
changed them and whatever was withheld or overtaken on the way; `ToldLayoutFits` is about
the order in which the size, the outputs and the list `rfbScreens` change: the list is
copied, reordered and put in force again by a request while RandR changes the original
under it, and at several points it is sent together with the size.  `UpdatesFit` is what `blockUpdates` is for: pixels
never reach a viewer before the size they belong to.

### Why the bounds are enough

*Pixels.*  The region operators treat all pixels alike; what tells cases apart is
which of a copy's source, its destination, the pending copy and the modified
region overlap, and the screen's edge.  Two pixels in a row with copies by one pixel
give two edges, regions that are partly requested, lossy or copied, copies that overlap
themselves, and a second copy that starts at or overwrites the result of the first.  In
`Interframe` a third pixel lies between two that change.  A copy that goes further than
any single one, screens of several sizes and of two dimensions are covered by the proof,
which is for every set of pixels.

*Displacements* is a bound: a copy whose composition would go further is not
taken.  The states beyond it differ in the number only; a displacement as wide as
the screen leaves no overlap.

*Contents.*  Two values suffice to tell a right pixel from a wrong one; `SYMMETRY`
permutes them where no module names one (`Interframe` has `Black`).  A resize
gives the new screen any uniform content.  In `Interframe` a new viewer shows
black, the content of a framebuffer it has just allocated.

In `Interframe` drawing and copying concern the two ends of the row only, so that
an update of both, which is sent as its bounding box, takes along a pixel that did
not change (an update of one end is its own box, so nothing is lost by always
combining), and
continuous updates are of the whole screen, which is what the viewers ask for.
In `LosslessRefresh` copies go one way; the other is its mirror image.

*One viewer* in the runs: an action that concerns all viewers changes each record
as if it were alone.  The proof is for any set of viewers, and so is that of `DesktopSize`.  `DeferUpdates` is
`TRUE` in the runs and either in the proof.

*`CONSTRAINT UntilExcused`* cuts a behaviour once the history
variable is set, because nothing is claimed from there on.

*FlowControl.*  The units are scaled so that an update fills the window, a fence
does not, and the offsets wrap within a few messages.  `MaxUnacked` keeps other
data (clipboard, bell) from growing the stream without end; it is above the
window, so that the link does get congested by it.  `Word` is 20 in `flow_safety`: the
offsets wrap, and still there is always room for one more message with its fences
(`Room` of section 6, which TLC finds true in each of the 4.3 million states).  For liveness fences take no
room, which keeps the graph small; `flow_safety` has them with a size.  There at most
two bytes are unacknowledged, so that offsets modulo 3 are told apart.

*CongestionWindow.*  Bytes are counted in KB; `Word` is then 2^22.  Round trips
and amounts in flight are chosen below, at and above the points where the code
branches, and so that `congWindow * baseRTT` overflows.

*TightThreads.*  Three threads have a first, a middle and a last band, share the
streams unevenly (1, 1, 2) and differently from two bands (2, 2); three
rectangles and two clients let a rectangle for one client follow a failed one for
the other, or for itself.  `FailingThreads` has the server's thread and one
worker.  The proofs are for 1 to 8 threads, any clients and any number of
rectangles.

*UpdateMessage.*  For the copies the framebuffer has a colour per pixel, so a wrong
source shows; 5 x 2 and 4 x 3 pixels have regions of up to three rectangles in a band
and of three bands, in every displacement that leaves source and destination
in the corner, which includes those whose rectangles overlap the sources of
both neighbours.  For the update region, areas of one colour of every size are put in
every place, alone or beside a fixed second one of the same colour, under the whole
screen as one rectangle and under two rectangles that are not aligned with the tiles.
`MaxRectSize` 12 and `MaxRectWidth` 4 make pieces of three rows, so the screen is cut
in both directions and the last row and column of pieces are smaller; two threads give
a band to each, and 8 rows are cut at the height of a piece or not; 6 rows make two bands
of whole pieces.  Beside an area of one colour there may be one of a colour that is not its
own shade of gray, in which nothing is found.  `tightConf` has the same
sizes in all its rows, as in the code's table for TurboVNC's levels.

*Sessions.*  Three viewers with room for two connections let one be turned away, or
two meet in the handshake while a third is in session (a connection made by the server
is not subject to the limit).  The four kinds of server are: the default with both
kinds of password; never shared with one-time passwords, refusing or displacing; and
one without authentication that displaces.  `Word` is 8, so that the delay, which starts at 1
and doubles, leaves the range of a timer at the third step over the limit and wraps to 0
at the fourth; `MaxCounted` is above that.  One button is enough to be held; the proofs
are for any set.

*Clipboard.*  Two applications with two requests each give an answer that arrives after
the selection changed hands, once and back again.  With one message under way either
way, messages still cross.  Viewers do not see each other's state; that a viewer's text is not passed on to the
others is proved only (`ClipboardNoEcho`).  The proofs are for
any number of viewers, and have neither `MaxRequests` nor `MaxMessages` for a number.

*Desktop size.*  With two outputs a screen asked for is found by its identifier, put in
the place of another, or added, and one can be left over to be switched off.  A size of 3 is clamped to 2, and
clips the second screen of a request.  One identifier can be drawn at random: it stands for
those that nobody else has, and a request that needs more is not made (`Unknown`).  There is one
viewer: nothing is sent to it but by handlers that do the same for each viewer in turn,
and what another viewer does to the layout an X client does as well.  It cannot show a
viewer that keeps another from asking, nor one whose connection breaks while another's
request is announced; the actions allow for both, and the theorems are for any set of
viewers.  Outputs that a request left behind without a screen occur, and are switched off by the
cropping of a later one; none of them is wide enough to be merely cut, so that case of
`CropScreens` rests on the proof.

*`CHECK_DEADLOCK FALSE`* is set where the system really stops: a message that is
finished, a server that has exited, and a clipboard in which every queue is at its
bound.

*Left open.*  Timers may fire at any time after they were set.  In `Interframe`
and `LosslessRefresh` deferral, congestion and fences are one outcome, `hold`,
which makes an attempt do nothing, and the timers that repeat it are left open.
`LosslessRefresh` has one screen size
and neither continuous updates nor comparison.

## 5. Fairness

- `UpdateTracking`: the viewer keeps requesting the whole screen (weak fairness of
  `RequestScreen`), as every viewer does once it has processed an update; the two
  timers that are running fire, and not every time at a moment when the link is
  congested (strong fairness of `DeferredUpdate` and `RetryUpdate` with an outcome
  that lets the update pass).  That congestion ends is what `FlowControl` shows.
- `FlowControl`: both ends keep reading what is on the wire (`Reads`), the deferral and retry timers fire, and
  an idle connection becomes idle "too long" (weak fairness of each).
  `congestionCallback` gets none.  `UpdatesFlow` has the premise `Undisturbed`: from
  some time on there is only drawing, for a viewer that keeps asking or a peer
  that keeps sending clipboard data can keep the link full.
- `TightThreads`: the server's thread and each worker run.  Encoding a band ends,
  and a write ends with success or with an error after `rfbMaxClientWait`.  No
  fairness is needed for clients to connect, draw or leave.
- The other modules claim safety only and assume none.

## 6. What is proved

All proofs are for every value of the constants under the `ASSUME`s of the
modules, which say what types they have and little more (`ZlibStreams` needs
`NumThreads \in 1 .. 8`, the limit of `rfbNumThreads`).

**`UpdateTracking_proofs`.**  `TypeCorrect` and `PendingUpdateSuffices`
(`Spec => []MirrorUnlessMisled`).  The inductive invariant is the conjunction of the
two properties: `Mirrors` of a record is preserved by each region operator, which
is one lemma per operator (`ComposeMirrors`, `CopyRegionMirrors`,
`TransmitMirrors`, `SendLemma`), and every action applies such operators to all
clients (`AllClientsLemma`).  The heart is `CopyRegionMirrors`: the source of the
new copy has no modified pixel, so each of its pixels is on the viewer's screen
either in place or, in the overlap with the pending copy, at the sum of the two
displacements.  `LeftoverOffsetStaysPending` (`Spec => []LeftoverOffsetIsPending`) is an
invariant by itself; it needs that every screen has a pixel (`ScreensAssumption`), for
otherwise a resize could leave nothing to send.

**`FlowControl_proofs`: the window.**  `WindowStaysBounded`, `LatencyStaysLeast`,
`NeverSpeedsUpWhenTooFast`, from the invariant `WindowInv`.  It needs
`CongestionWasMeasured` as well: the window is adjusted only after a pong has been
processed, when `minRTT` is a measured time no less than `baseRTT`; without it
`minRTT - baseRTT` could be the difference of initial values; `AdjustedOnceMeasured` and
`WindowTyped` state the two parts by name.  `SlowsDown` rests on
`ScaleDown`: dropping high bits of the product only makes the quotient smaller.
All of `FlowControl_proofs` assumes of a word that it has more than one value
(`WordAssumption`).

**`FlowControl_proofs`: the link.**  `FlowControlTyped`, `PingsAreCounted` and
`IdleReopensOnceMeasured` hold of every behaviour.  Their invariant `LinkInv` has
the types of all messages under way and two more parts.  `Account` says that `pingCounter` is the number
of pings and pongs on the link, and that the last of them carries `sentOffset`; when
there is none and a round trip was measured, `sentOffset` is `ackedOffset`, so the branch
of `rfbIsCongested` for an idle link is open.  `Start` says what a viewer is owed before
its first fence.

`OffsetsStayInOrder` and `NoBacklogBuildsUp` have a premise, `[]Room`: a message with its
fences still fits into a word beside what is unacknowledged.  Offsets wrap any number of
times under it, but no two offsets that are compared are a whole word apart; without it
the differences that the code computes say nothing.  `WriteExact` blocks
when the buffers of the connection are full, and each update is followed by a ping whose
answer acknowledges it, so it takes 4 GB of other data (texts, bells) without an update
between them to break it, and the theorems do not speak of such a session.  The
invariant `OrderInv` adds to `LinkInv` the order of all marks (`Ordered`): every
offset is measured from `ackedOffset`; pongs come before pings and both before `sentOffset`
and the end (`Marks`), and an update takes its size between the marks on either side of it
(`Span`).  From that follows the bound on updates (`Backlog`): an update is followed by its
ping at once, and when two updates that fill the window are under way, then so are two pings
and at least a window of bytes, so that `rfbIsCongested` holds back a third (`NoThird`).

**`TightThreads_proofs`.**  `WorkersNeverOutliveClient` holds whatever fails.  Its
invariant `LifeRest` says that a worker that was released but not dismissed was
given a client that is connected, and that during a shutdown the workers before
`main.next` are gone.  `NoStreamIsShared` holds up to the first encoder failure in
the server's own thread; `StreamRest` describes the two mutexes of each worker in
each phase: a worker that owes an answer is released, at work or done, all others
rest on locked mutexes.  So no worker is at work for an earlier rectangle, and all
threads share the streams out for the same number of bands (`StreamsDisjoint`).
Because history only grows (`FailedGrows`), the theorem has the form
`Spec => []StreamsNotShared` with the excuse inside the property.

`ThreadsEncodeSequentially` is the refinement: `Spec => EncodesSequentially`, for any
number of threads.  Until some encoder fails (`failed` is empty; after that the mapping
is excused), the invariant `SeqRest` says what is in every buffer: a worker's
holds its band of the present rectangle from the moment it is done until the server has
written it, and nothing at any other time (`Buffers`); what the server has sent of
the rectangle is the bands before `main.next` (`Written`); and no status is bad
(`AllWell`).  Only then is writing a buffer, in `Flush`, the abstract step that sends
the next band.  Every other step of a worker, of the handshake or of the start and
shutdown maps to a stutter (`StepHidden`), and one lemma per abstract action
(`StepBegin`, `StepSendBand`, `StepFail`, `StepDisconnect`, `StepConnect`) shows the rest.
`ThreadsTyped` adds to the types that a buffer never holds more than one band (`Single`).

**`UpdateMessage_proofs`: the copies.**  `CopySourcesIntact` and
`CopyImplementsSimultaneous` (`CopySpec => CopiesAtOnce`), and `MessageCopiesAtOnce`, the
same of the copies of a message.  The invariant `CopyInv` says which rectangles have been
sent at each place in the loop: all of the bands walked through, and the part of the
present band on the near side of `thisRect`.  The heart is that a rectangle still to come
lies, in the order of the walk, where its source cannot meet one that was already sent;
this is arithmetic on the corners of two boxes, once for each sign of the displacement.

**`UpdateMessage_proofs`: the cutting.**  `CoveredOnceAlways`, `FitsBufferAlways`,
`SolidIsSolidAlways` and `PictureIsUpdatedAlways`, for rectangles, images, thresholds and
numbers of threads of any size.  The invariant `IInv` has besides `CoveredOnce` the
condition on every job and piece, `TightOk`: a job that is to be sent as one colour has that
colour, a search is of a rectangle that is not empty and does not start above it, and a piece
is of one colour or fits.  Covering by a sequence is a count (`Count`), which adds up over
concatenation (`CountConcat`), so one lemma for each way of cutting says that the parts
cover what the whole covered, once: the pieces (`SplitCovers`), the bands (`BandsCover`),
the five parts around an area (`AroundCovers`).  The last needs that the area lies within
the rectangle, which is what `BestSolidAreaFacts` and `ExtendFacts` prove of the two
searches, together with its being of one colour.  `PictureIsUpdatedAlways` then joins the
two halves: a pixel of the update lies in exactly one piece, and all others have what the
copies left.

**`UpdateMessage_proofs`: the number of rectangles.**  `AnnouncedIsSentAlways`.  While a
message is sent its number is what was sent plus what the jobs left will send
(`Accounts`, part of `CountInv` with `Announced` and `Marked`); it is exact unless
a rectangle is cut into bands that do not fit.  `NumCodedIs` says that
`rfbNumCodedRectsTight` and `SendRectSimple` agree about one rectangle, and `BandsLength`
that the bands have as many pieces as the whole where they are cut at heights of pieces.

The sum over the rectangles and the widths of the rows of tiles are recursive functions,
and the induction that they need is obtained without a theorem that takes an operator:
`SetInduction` says of a *set* of numbers that it has all of them when it has
0 and the successors of its members, which follows from there being a least number in
each set of them (`LeastNatural`, by the library's well-foundedness of inclusion between
finite sets).  The value of such a function is then shown to be what its equation says
by collecting, in a set, the bounds up to which it is (`SumIs`, `WidthsIs`).

**`Interframe_proofs`.**  `InterframeType`, `InterframeCopyOfRemote` and
`InterframeMirror`, from one invariant: the three properties, and three more parts about
a buffer that was not yet compared with: it is black (`FreshBuffer`), what the viewer
shows there is black too or will be sent in any case (`FirstComparison`), and what was
not yet sent of the first update is pending (`FirstIsOwed`).  Two facts carry it.  What an update sends is what the
buffer holds *after* the comparison, so the viewer and the buffer change by the same
pixels (`CopyOfRemote`); and what the comparison drops from an update was equal in the
buffer and on the server, hence, by `CopyOfRemote`, is right on the viewer's screen
(`MirrorUnlessExcused`).  The two depend on each other, so neither is inductive alone.
`FirstContentsAssumption` is about viewers: where comparison is on from the start
(`-interframe`), a new viewer shows black, as the buffer that `InterframeOn` allocates
does; nothing is assumed where the compression level switches it on.

**`LosslessRefresh_proofs`.**  `LosslessRefreshType`, `RefreshKeepsMirror`,
`LossRemembered`, `RefreshDue`.  The invariant adds `OnScreen`: what is copied and what is lossy is on
the screen, for a refresh is cut to the screen and then empties all of `lossyRegion`.  All are for every way in which updates and
refreshes may be held back.  `alrCallback` takes a refresh that was withheld for
one that was sent (section 7); what it then forgets is in `forgotten`, so that `Remembered`
is inductive: whatever shows inexactly is in `lossyRegion` or was forgotten, a copy carries
all three along with the pixels, and what is lossy and not forgotten keeps the timer
running.

**`Sharing_proofs`: sessions and pointer.**  The invariant is the conjunction of the properties with the
types, and `NoViewerIsDisplaced` an action property.  All are proved for the composed
specification, so a step of `Sessions` is shown to preserve what is said of the pointer
as well.  `BlockHasTimer` rests on the fact that the delay only grows while the flag is
set, so a later failure cannot replace a timer by one that does not run, until the
excuse applies.  `IdleTimerIsRight` says that the list is empty exactly when the
timer is armed.

**`Sharing_proofs`: clipboard.**  `ClipboardTyped`, `ClipboardFollows`, `ClipboardNoEcho`.  The
invariant `ClipInv` has three parts besides the types: `Delivered`, the last message under
way to a viewer, or else its clipboard, is `cutText`; `LatestOwns`, an application that
copied last and has answered everything is what `cutText` reflects, and owns the
selection until then; `LatestSent`, the same for the cut buffer.

**`Sharing_proofs`: desktop size.**  `PixelsFit` (`DesktopSpec => []UpdatesFit`) and
`LayoutIsKnown` (`DesktopSpec => []LayoutKnown`), for any number of viewers.  Neither
property says enough to be inductive: a viewer that does not know the size must have an
announcement coming.  `SizesCome` says so: it knows the size, or is excused, or `Coming`
holds of its record, that is, one of the announcements that are pending will tell it (or
will say that it could not be told).  That is false between the change of the width and the
announcement of it, where `Change` supplies what holds instead: updates are blocked there,
and the viewers that a request found with an extension keep it until they leave.
`LayoutsCome` is the same for the layout, and is suspended while a request is under
way.  Two lemmas per kind of record say that what `rfbSendFramebufferUpdate` does to a
record that is coming leaves it coming (`AttemptedLemma`), and that an announcement or an
answer makes it so (`AnnouncingLemma`, `AnsweringLemma`).

`LayoutFitsSize` (`DesktopSpec => ToldLayoutFits`) is about one step, and needs to know of
the layout in force before it that it fits.  `LayoutInv` has three parts.  `Outputs`: every
screen in `rfbScreens`, and in the list that a request puts together, has an output.
`LayoutsFit`: unless a change was given up half way or an output was not cropped (`broken`), outputs and screens lie on
the desktop whenever no request is under way (`Steady`), and again when the new layout is
announced; while a request switches outputs off, each of them lies on the desktop as it was
or as it will be (`Between`).  `UsedFit`: what a request asks for lies on the desktop that it
asks for (`ClippedLemma`), also once it was matched with the screens of the server
(`AssignedLemma`).  The other half says what a viewer learns: a layout comes with the size
it belongs to, and never with an error (`LearnsLemma`).  The lists of the model are made
without recursion: `Nth(S, k)` chooses the number of `S` that has `k` numbers of `S` up to
it, and `NthLemma` shows that there is one without induction: the rank is an injection of
`S` into `1 .. Cardinality(S)`, hence onto.  The assumptions on `Requests` and `Geometries`
leave out screens without extent, which the handler refuses (`rfbserver.c` 1374) and no
RandR mode has.

**Only model-checked.**  All liveness, which is out of the prover's reach:
`EventuallySynced` of `UpdateTracking`, `UpdatesFlow` of `FlowControl`, `ServerReturns` of
`TightThreads`.  Every safety property of a
passing run is a theorem.

Every module states the types of its variables (`TypeOK`): those of `UpdateTracking`,
`Interframe`, `LosslessRefresh`, `FlowControl`, `CongestionWindow` (`WindowTypeOK`),
`TightThreads`, `SharedInput` and `Clipboard` are proved, and the others say what the
variables are.

## 7. Where the code and its words disagree

One run exhibits a disagreement, which `PROJECT.json` quotes.

- `flow_idle_link`: other data of more than a window before the first ping leaves the link
  congested for ever, and the branch for an idle link is never taken.  (`Wedged` in
  `UpdatesFlow`.)

The models also have the following behaviour, which their properties excuse
explicitly, or say nothing about, and no run is spent on:

- `draw.c` 1760, `rfbserver.c` 1870: a copy region can be emptied while `copyDX` is not
  zero; the next copy is then described to the viewer with a displacement that
  is wrong.  (First case of `misled`.)
- `rfbserver.c` 250: a viewer that switches comparison on in mid-session is
  compared with a black buffer outside its first update.  (`excused` of `Interframe`.)
- `rfbserver.c` 203: a lossless refresh that was withheld counts as done.  (`forgotten`.)
- `draw.c` 714: the source of a copy from a window that is completely obscured is
  not clipped, so the viewer is told to copy what the server does not.  (Second
  case of `misled`.)
- `tight.c` 432: when the encoder fails in the server's own band, the workers it
  released keep running, and the client's next rectangle may give their zlib
  streams to other threads.  (`StreamsNotShared` speaks of the time before.)
- `rfbserver.c` 210: a refresh that fires while a copy is pending may send newer
  contents of that copy's source; the copy is put back unchanged.  (`excused` of
  `LosslessRefresh`.)
- `rfbserver.c` 203-204: a refresh of eligible pixels forgets which other pixels
  are lossy, and forgets that pixels which are still waiting to be sent are
  eligible.  (`forgotten` for the first; for the second, `RefreshIsDue` speaks of
  `putImageOnly = FALSE`.)
- `tight.c` 533-540: for a viewer of grays the colour of a tile is replaced by its shade
  before areas of that colour are searched for in the framebuffer, which still has the
  colour; unless the two are the same no area is found.  (`Sought`.)
- `tight.c` 213: for a viewer without LastRect the number announced is that of the whole
  rectangle, and the bands of the threads are cut at other heights: a rectangle as wide
  as 2048 pixels and 1080 high is announced as 34 and sent as 36 with four threads.
  (`CutUnevenly` in `AnnouncedIsSent`.)
- `rfbserver.c` 2089: the number in the header has 16 bits, and 65535 means an open one; an
  update of as many rectangles or more is announced by another number than is sent.
  (`OpenNumber` in `AnnouncedIsSent`.)
- `auth.c` 1668: the delay doubles in 32 bits and is handed to a timer that takes it as an
  `int`; from 2^31 ms on no timer is left running and the block is never lifted.
  (`BlockIsTimed` speaks of shorter delays.)
- `auth.c` 1485, 1519: a one-time password is used up although the viewer is then turned
  away because the server is in use.  (`PasswordAdmitsOnce` is an upper bound.)
- `randr.c` 748: a request that enlarges the desktop and drops a screen makes the server
  send a layout with the new outputs and the old size, for switching off an output
  broadcasts while the request is still under way; the Java viewer reports it
  (`CMsgHandler.java` 46).  (`pc # "disable"` in `ToldLayoutFits`.)
- `randr.c` 553: two screens can get the same identifier.  All outputs were switched off by
  an X client, a viewer that had not been told yet asked for the screen it knew, whose
  identifier went to another output, and then its own output was switched on again.
- `rfbserver.c` 540: the buttons held by a viewer that disconnects stay down.
  (`presser` is reset.)
- `rfbserver.c` 1214-1220: a viewer that may only look on still takes hold of the pointer.
  (`HolderIsConnected` asks no more than a connection.)
- `rfbserver.c` 2610: a text the viewer was sent last is not sent again even if its user
  has copied something else since.  (`stale`.)
- `cutpaste.c`, `vncHandleSelection`: answers are not matched with the owner of the
  selection and share one property, so a late answer may be the last to be sent.
  (`overtaken`.)
- `rfbserver.c` 1404: the answer to a refused request takes the place of an announcement that
  is still withheld, and the viewer does not learn of the change from it.  (`stale`, `untold`.)
- `randr.c` 704-742, 762, 499: a change for which memory runs out half way has changed outputs,
  made new ones that no screen has, or changed the size, and no viewer is told.  (`broken`,
  `untold`.)
- `randr.c` 778: a request that was carried out is answered by an error if the connection to any
  viewer broke on the way.  (`AnswerError`.)
- `randr.c` 668: a viewer with neither extension keeps viewers from changing the size, but not X
  clients.  (`untold`.)
- A new viewer is not told of the present text, and the text of one viewer is not passed
  on to the others.  (`stale`; `latest.by # Server`.)

## 8. What is not modelled

Pixel formats, the contents of encodings and of the cursor, cryptography, byte
I/O and the user interfaces: no property here distinguishes them.  Write errors
appear in `TightThreads` and, as `ConnectionLost`, in `Sessions`.  Of the handshake,
VeNCrypt, TLS, PAM, the user lists and the configuration file are left out, and with
them inetd; of the input, keys and extended devices; of the clipboard, `PRIMARY` beside
`CLIPBOARD`, conversions between kinds of text, the answers the server gives as the
owner of the selection, and viewers that only look on.  The cursor drawn into the
framebuffer for viewers without cursor updates, the modes of outputs and clones,
allocation failures other than those in `DesktopSize`, thread-creation failures, and the
components marked "not modelled" in `PROJECT.json` are left for section 2's list or
are out of reach (vendored code).  One synchronised fence at a time is sent by
the viewer of `FlowControl`.

To check a module: `tlc -config X.cfg M`; to check its proofs: `tlapm M.tla`.
