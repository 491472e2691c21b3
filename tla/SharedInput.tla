----------------------------- MODULE SharedInput -----------------------------
(* The pointer that all viewers share, composed with their sessions: who    *)
(* holds it, which buttons are down in the X server, and what becomes of it *)
(* when the viewer that holds it leaves.                                    *)
EXTENDS Sessions

CONSTANT Buttons  \* the buttons of the pointer

VARIABLES
  pointerClient,  \* the viewer that holds a button down, or NoViewer
  buttonMask,     \* PtrAddEvent's oldButtonMask: what the X server was told
  presser         \* history: the viewer that set buttonMask, while connected

input == <<pointerClient, buttonMask, presser>>
allvars == <<vars, input>>

InputInit ==
  /\ Init
  /\ pointerClient = NoViewer
  /\ buttonMask = {}
  /\ presser = NoViewer

Gone(v) == v # NoViewer /\ session'[v] = Absent

\* Mutant: the pointer is not given up by a viewer that another one displaces.
ReleasedIfAlone ==
  IF \E v \in Viewers : Gone(v) /\ v = pointerClient /\ Others(v) = {}
    THEN NoViewer ELSE pointerClient

\* rfbClientConnectionGone
Released == IF Gone(pointerClient) THEN NoViewer ELSE pointerClient

\* A step of the sessions.  Buttons that the viewer held stay down.
SessionStep ==
  /\ Next
  /\ pointerClient' = Released
  /\ presser' = IF Gone(presser) THEN NoViewer ELSE presser
  /\ UNCHANGED buttonMask

\* Mutant: only the motion of the pointer is left to the viewer that holds it.
IgnoresMotion(v, mask) == pointerClient \in {NoViewer, v} \/ mask # buttonMask

\* A viewer that does not hold the pointer is ignored while another does.
MayPoint(v, mask) == pointerClient \in {NoViewer, v}

\* rfbProcessClientNormalMessage, case rfbPointerEvent, with PtrAddEvent: a
\* viewer that only looks on may take the pointer, but presses nothing.
PointerEvent(v, mask) ==
  /\ In(v, "NORMAL")
  /\ MayPoint(v, mask)
  /\ pointerClient' = IF mask = {} THEN NoViewer ELSE v
  /\ IF session[v].viewOnly THEN UNCHANGED <<buttonMask, presser>>
     ELSE buttonMask' = mask /\ presser' = v
  /\ UNCHANGED vars

InputNext ==
  \/ SessionStep
  \/ \E v \in Viewers, mask \in SUBSET Buttons : PointerEvent(v, mask)

InputSpec == InputInit /\ [][InputNext]_allvars

-----------------------------------------------------------------------------
\* Every variable has its type.
InputTypeOK ==
  /\ pointerClient \in Viewers \cup {NoViewer}
  /\ buttonMask \subseteq Buttons
  /\ presser \in Viewers \cup {NoViewer}

\* The pointer is never held by a viewer that is gone, whose record is freed
\* (rfbserver.c 535-536), nor by one in its handshake: otherwise every other
\* viewer's events would be ignored for ever (rfbserver.c 1214).
HolderIsConnected ==
  pointerClient # NoViewer => session[pointerClient].state = "NORMAL"

\* While buttons are down that a connected viewer pressed, it is the one that
\* holds the pointer: no other can move it or release them in the middle of
\* its drag.
DragIsUninterrupted ==
  buttonMask # {} /\ presser # NoViewer => pointerClient = presser
=============================================================================
