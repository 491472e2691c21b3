------------------------------ MODULE Clipboard ------------------------------
(* The clipboard that the applications of the session share with the        *)
(* viewers' desktops.  Text that an application copies is fetched from it   *)
(* by two requests, answered whenever it comes to that, and sent to every   *)
(* viewer that was not sent the same text before; text from a viewer makes  *)
(* the server itself the owner of the selection.  The server has one thread *)
(* but every exchange it takes part in is asynchronous, so answers cross    *)
(* with new copies, and messages with each other.                           *)
(* One selection stands for PRIMARY and CLIPBOARD, and one target for the   *)
(* kinds of text.  Viewers that only look on take no part and are left out. *)
EXTENDS Naturals, Sequences, ViewerNames

CONSTANTS
  Apps,          \* the X clients that copy text
  Texts,         \* what may be copied
  NoText,
  Server,        \* serverClient, as the owner of the selection
  CutBuffer,     \* whoever wrote the cut buffer last
  SyncCutBuffer, \* rfbSyncCutBuffer
  MaxRequests,   \* bound on the requests an application has not answered
  MaxMessages    \* bound on the messages under way, either way

ASSUME ClipboardAssumption ==
  /\ NoText \notin Texts
  /\ Server \notin Apps /\ CutBuffer \notin Apps \cup {Server}
  /\ SyncCutBuffer \in BOOLEAN

VARIABLES
  owner,          \* the client that owns the selection
  appText,        \* what each application copied last
  requests,       \* what the server asked of each, and got no answer to
  property,       \* the property by which the text is handed over
  clientCutText,  \* the text the server offers as the owner
  cutText,        \* cl->cutText: what each viewer was sent last
  connected,      \* the viewers in the state RFB_NORMAL
  toViewer, toServer,  \* the texts under way
  clip,           \* the clipboard of each viewer's desktop
  dialog,         \* what the viewer last sent or got
  latest,         \* history: what was copied last in the session, and by whom
  overtaken,      \* history: the last text sent was not by the one in latest
  stale           \* history: nothing was sent to the viewer since it joined
                  \* or its own user copied something

selection == <<owner, appText, requests, property, clientCutText>>
desktop == <<connected, clip, dialog>>
clipboardVars == <<selection, desktop, cutText, toViewer, toServer, latest, overtaken,
          stale>>

ClipboardInit ==
  /\ owner = Server
  /\ appText = [a \in Apps |-> NoText]
  /\ requests = [a \in Apps |-> <<>>]
  /\ property = NoText
  /\ clientCutText = NoText
  /\ cutText = [v \in Viewers |-> NoText]
  /\ connected = {}
  /\ toViewer = [v \in Viewers |-> <<>>]
  /\ toServer = [v \in Viewers |-> <<>>]
  /\ clip = [v \in Viewers |-> NoText]
  /\ dialog = [v \in Viewers |-> NoText]
  /\ latest = [by |-> Server, text |-> NoText]
  /\ overtaken = FALSE
  /\ stale = [v \in Viewers |-> TRUE]

-----------------------------------------------------------------------------
(* The server and the applications.                                         *)

\* Mutant: a text is sent once, even where another was sent since.
FirstTimeOnly(v, text) == cutText[v] = NoText

\* A viewer is not sent again what it was sent last.
IsNews(v, text) == cutText[v] # text

\* rfbSendServerCutText: a viewer to which the text cannot be written is
\* closed and the others get theirs, as if it had left just after.
SendServerCutText(text) ==
  LET news == {v \in connected : IsNews(v, text)} IN
  /\ \A v \in news : Len(toViewer[v]) < MaxMessages
  /\ cutText' = [v \in Viewers |-> IF v \in news THEN text ELSE cutText[v]]
  /\ toViewer' = [v \in Viewers |->
       IF v \in news THEN Append(toViewer[v], text) ELSE toViewer[v]]
  /\ stale' = [v \in Viewers |-> stale[v] /\ v \notin news]

SendNothing == UNCHANGED <<cutText, toViewer, stale>>

\* Mutant: the server does not recognise its own writing of the cut buffer.
SendsEveryChange(text, inSetXCutText) == SendServerCutText(text)

\* rfbRootPropertyChange and rfbGotXCutText
GotXCutText(text, inSetXCutText) ==
  IF SyncCutBuffer /\ ~inSetXCutText THEN SendServerCutText(text)
  ELSE SendNothing

\* vncSelectionRequest: whoever owns the selection now is asked, and the
\* server does not ask itself.
SelectionRequest(target, pending) ==
  [a \in Apps |-> IF a = owner' THEN Append(pending[a], target)
                  ELSE pending[a]]

\* vncSelectionCallback asks a new owner for the kinds of data that it offers,
\* but passes over a change that the server itself makes.
SelectionCallback(client) ==
  requests' = IF client = Server THEN requests
              ELSE SelectionRequest("TARGETS", requests)

\* The selection changes hands, by an application's request or vncOwnSelection,
\* and the callback is called.
OwnSelection(client) == owner' = client /\ SelectionCallback(client)

\* An application copies something (ProcSetSelectionOwner).
Copy(a, text) ==
  /\ Len(requests[a]) < MaxRequests
  /\ OwnSelection(a)
  /\ appText' = [appText EXCEPT ![a] = text]
  /\ latest' = [by |-> a, text |-> text]
  /\ SendNothing
  /\ UNCHANGED <<property, clientCutText, desktop, toServer, overtaken>>

Asked(a, target) == requests[a] # <<>> /\ Head(requests[a]) = target

\* An application says what it offers: vncHandleSelection asks for the text,
\* of the present owner, which may be another by now.
AnswerTargets(a) ==
  /\ Asked(a, "TARGETS")
  /\ UNCHANGED <<owner, appText, property, clientCutText>>
  /\ requests' = SelectionRequest("TEXT",
                   [requests EXCEPT ![a] = Tail(@)])
  /\ SendNothing
  /\ UNCHANGED <<desktop, toServer, latest, overtaken>>

\* An application stores the text in the property, in a request of its own.
StoreText(a) ==
  /\ Asked(a, "TEXT")
  /\ property' = appText[a]
  /\ requests' = [requests EXCEPT ![a] = <<"NOTIFY">> \o Tail(@)]
  /\ SendNothing
  /\ UNCHANGED <<owner, appText, clientCutText, desktop, toServer, latest,
                 overtaken>>

\* It then has the server told: vncHandleSelection sends what the property
\* holds to the viewers, whoever owns the selection by now.
AnswerText(a) ==
  /\ Asked(a, "NOTIFY")
  /\ requests' = [requests EXCEPT ![a] = Tail(@)]
  /\ SendServerCutText(property)
  /\ overtaken' = (a # latest.by \/ property # appText[a])
  /\ UNCHANGED <<owner, appText, property, clientCutText, desktop, toServer,
                 latest>>

\* An application writes the cut buffer, a property of the root window, which
\* is nothing to the viewers with -nocutbuffersync.
WriteCutBuffer(text) ==
  /\ SyncCutBuffer
  /\ GotXCutText(text, FALSE)
  /\ latest' = [by |-> CutBuffer, text |-> text]
  /\ overtaken' = FALSE
  /\ UNCHANGED <<selection, desktop, toServer>>

\* vncClientCutText
TakeClientText(text) == clientCutText' = text /\ OwnSelection(Server)

\* rfbSetXCutText: the cut buffer is written, and the server notices.
SetXCutText(text) == GotXCutText(text, TRUE)

\* The ClientCutText message.
ClientCutText(v) ==
  /\ v \in connected
  /\ toServer[v] # <<>>
  /\ toServer' = [toServer EXCEPT ![v] = Tail(@)]
  /\ TakeClientText(Head(toServer[v]))
  /\ SetXCutText(Head(toServer[v]))
  /\ latest' = [by |-> Server, text |-> Head(toServer[v])]
  /\ UNCHANGED <<appText, property, desktop, overtaken>>

-----------------------------------------------------------------------------
(* The viewers.                                                             *)

Join(v) ==
  /\ v \notin connected
  /\ connected' = connected \cup {v}
  /\ cutText' = [cutText EXCEPT ![v] = NoText]
  /\ dialog' = [dialog EXCEPT ![v] = NoText]
  /\ stale' = [stale EXCEPT ![v] = TRUE]
  /\ UNCHANGED <<selection, clip, toViewer, toServer, latest, overtaken>>

\* Whatever was under way either way is lost.
Leave(v) ==
  /\ v \in connected
  /\ connected' = connected \ {v}
  /\ cutText' = [cutText EXCEPT ![v] = NoText]
  /\ toViewer' = [toViewer EXCEPT ![v] = <<>>]
  /\ toServer' = [toServer EXCEPT ![v] = <<>>]
  /\ UNCHANGED <<selection, clip, dialog, latest, overtaken, stale>>

\* ClipboardDialog.serverCutText
ServerCutText(v) ==
  /\ toViewer[v] # <<>>
  /\ toViewer' = [toViewer EXCEPT ![v] = Tail(@)]
  /\ dialog' = [dialog EXCEPT ![v] = Head(toViewer[v])]
  /\ clip' = [clip EXCEPT ![v] = Head(toViewer[v])]
  /\ UNCHANGED <<selection, connected, cutText, toServer, latest, overtaken,
                 stale>>

\* Something is copied on the viewer's own desktop.
CopyOutside(v, text) ==
  /\ clip' = [clip EXCEPT ![v] = text]
  /\ stale' = [stale EXCEPT ![v] = TRUE]
  /\ UNCHANGED <<selection, connected, dialog, cutText, toViewer, toServer,
                 latest, overtaken>>

\* DesktopWindow.checkClipboard, when the viewer gets the focus or a click.
CheckClipboard(v) ==
  /\ v \in connected
  /\ clip[v] \notin {NoText, dialog[v]}
  /\ Len(toServer[v]) < MaxMessages
  /\ dialog' = [dialog EXCEPT ![v] = clip[v]]
  /\ toServer' = [toServer EXCEPT ![v] = Append(@, clip[v])]
  /\ UNCHANGED <<selection, connected, clip, cutText, toViewer, latest,
                 overtaken, stale>>

-----------------------------------------------------------------------------
ClipboardNext ==
  \/ \E a \in Apps :
       \/ \E text \in Texts : Copy(a, text)
       \/ AnswerTargets(a) \/ StoreText(a) \/ AnswerText(a)
  \/ \E text \in Texts : WriteCutBuffer(text)
  \/ \E v \in Viewers :
       \/ Join(v) \/ Leave(v)
       \/ ClientCutText(v) \/ ServerCutText(v) \/ CheckClipboard(v)
       \/ \E text \in Texts : CopyOutside(v, text)

ClipboardSpec == ClipboardInit /\ [][ClipboardNext]_clipboardVars

-----------------------------------------------------------------------------
(* What is checked.                                                         *)

MaybeText == Texts \cup {NoText}

\* Every variable has its type.
ClipboardTypeOK ==
  /\ owner \in Apps \cup {Server}
  /\ appText \in [Apps -> MaybeText]
  /\ requests \in [Apps -> Seq({"TARGETS", "TEXT", "NOTIFY"})]
  /\ property \in MaybeText
  /\ clientCutText \in MaybeText
  /\ cutText \in [Viewers -> MaybeText]
  /\ connected \subseteq Viewers
  /\ toViewer \in [Viewers -> Seq(MaybeText)]
  /\ toServer \in [Viewers -> Seq(Texts)]
  /\ clip \in [Viewers -> MaybeText]
  /\ dialog \in [Viewers -> MaybeText]
  /\ latest \in [by: Apps \cup {Server, CutBuffer}, text: MaybeText]
  /\ overtaken \in BOOLEAN
  /\ stale \in [Viewers -> BOOLEAN]

Quiet ==
  /\ \A a \in Apps : requests[a] = <<>>
  /\ \A v \in Viewers : toViewer[v] = <<>>

\* Once every answer has come and every message has arrived, a viewer has on
\* its clipboard what was copied last in the session: however copies and
\* answers were mixed, and although a text it was sent last is not sent again.
\* Excused are a late answer that came last, and a viewer whose own user
\* copied something, or which joined, after it was last sent a text.
ViewersFollowSession ==
  Quiet /\ latest.by # Server /\ ~overtaken =>
    \A v \in connected : ~stale[v] => clip[v] = latest.text

\* What a viewer sends is not sent back to it, nor on to others: the server's
\* own writing of the cut buffer comes back as a change of a property of the
\* root window, and is recognised (cutpaste.c 125-139).
NoEcho ==
  [][\A v \in Viewers :
       clientCutText' # clientCutText => toViewer' = toViewer]_clipboardVars
=============================================================================
