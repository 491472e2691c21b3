------------------------------ MODULE Sessions ------------------------------
(* The viewers' sessions: how a connection is accepted or made, the states  *)
(* of its handshake, the passwords and the counter of failures, the rules   *)
(* of sharing, the end of a session, and the idle timer of the server.      *)
(* One thread serves all of them, a message at a time: between two messages *)
(* of a viewer anything may happen to the others.  Reading and writing may  *)
(* fail at any time; every failure closes the connection (ConnectionLost).  *)
(* The password file can always be read, and the idle timeout is set.       *)
EXTENDS Integers, FiniteSets, ViewerNames

CONSTANTS
  Options,         \* the ways the server may have been configured
  MaxConnections,  \* rfbMaxClientConnections
  MaxFails,        \* rfbAuthMaxFails, 0 to never block
  FailTimeout,     \* rfbAuthFailTimeout, in the unit of the timers
  Word,            \* 2^32 in the code: the delay is a CARD32
  Passwords,       \* the one-time passwords that may be set
  NoPassword, FilePassword, WrongPassword,
  MaxCounted       \* bound on the failures that are counted

SecTypes == {"none", "vnc", "otp"}

ServerOptions ==
  [neverShared: BOOLEAN, alwaysShared: BOOLEAN, dontDisconnect: BOOLEAN,
   types: SUBSET SecTypes \ {{}}]

ASSUME OptionsAssumption == Options \subseteq ServerOptions
ASSUME FailsAssumption == MaxFails \in Nat /\ MaxCounted \in Nat
ASSUME TimeoutAssumption ==
  FailTimeout \in Nat \ {0} /\ Word \in Nat \ {0} /\ FailTimeout < Word \div 2
ASSUME PasswordAssumption ==
  /\ {NoPassword, FilePassword, WrongPassword} \cap Passwords = {}
  /\ FilePassword \notin {NoPassword, WrongPassword}

VARIABLES
  options,           \* the options of this server
  session,           \* the state of each viewer's connection
  authFails,         \* rfbAuthFails
  authTooManyFails,  \* rfbAuthTooManyFails
  blockTimer,        \* the timer that calls rfbAuthReenable is pending
  OTPValue,          \* rfbAuthOTPValue
  idleTimer,         \* idleTimeout >= 0
  running,           \* the server has not exited
  delay,             \* history: the last delay, had it not wrapped around
  uses               \* history: viewers let in since a password was set

auth == <<authFails, authTooManyFails, blockTimer, delay>>
password == <<OTPValue, uses>>
vars == <<options, session, auth, password, idleTimer, running>>

Absent == [state |-> "absent", reverse |-> FALSE, viewOnly |-> FALSE]

States == {"PROTOCOL_VERSION", "SECURITY_TYPE", "AUTH_TYPE",
           "AUTHENTICATION", "INITIALISATION", "NORMAL"}

Connected == {v \in Viewers : session[v].state # "absent"}

In(v, state) == running /\ session[v].state = state

\* The other viewers whose handshake is over.
Others(v) == {w \in Viewers \ {v} : session[w].state = "NORMAL"}

Init ==
  /\ options \in Options
  /\ session = [v \in Viewers |-> Absent]
  /\ authFails = 0
  /\ authTooManyFails = FALSE
  /\ blockTimer = FALSE
  /\ OTPValue = NoPassword
  /\ idleTimer = TRUE
  /\ running = TRUE
  /\ delay = 0
  /\ uses = [p \in Passwords |-> 0]

\* Mutant: a client in its handshake does not count.
RearmUnlessNormal(s) ==
  idleTimer \/ \A v \in Viewers : s[v].state # "NORMAL"

\* rfbClientConnectionGone arms the idle timer when it removes the last
\* client of the list.
Rearm(s) == idleTimer \/ \A v \in Viewers : s[v] = Absent

\* The list of clients becomes s, by a change of state or by closing clients.
SetSessions(s) ==
  /\ session' = s
  /\ idleTimer' = Rearm(s)
  /\ UNCHANGED <<options, running>>

Closed(gone) == [v \in Viewers |-> IF v \in gone THEN Absent ELSE session[v]]

Moved(v, state) == [session EXCEPT ![v].state = state]

-----------------------------------------------------------------------------
(* Connections.                                                             *)

\* rfbNewClient: a new element of the list stops the idle timer.
NewClient(v, reverse) ==
  /\ running
  /\ session[v] = Absent
  /\ session' = [session EXCEPT
       ![v] = [Absent EXCEPT !.state = "PROTOCOL_VERSION", !.reverse = reverse]]
  /\ idleTimer' = FALSE
  /\ UNCHANGED <<options, auth, password, running>>

\* rfbSockNotify: a viewer connects; clients in any state count.
Accept(v) == Cardinality(Connected) < MaxConnections /\ NewClient(v, FALSE)

\* rfbReverseConnection: the user has the server connect to a viewer.
ReverseConnection(v) == NewClient(v, TRUE)

\* A read or a write fails, the viewer leaves, or it sends what is refused.
ConnectionLost(v) ==
  /\ running
  /\ v \in Connected
  /\ SetSessions(Closed({v}))
  /\ UNCHANGED <<auth, password>>

-----------------------------------------------------------------------------
(* The handshake.                                                           *)

\* rfbAuthInit: "none" is advertised only where nothing else is enabled.
Advertised ==
  (IF options.types = {"none"} THEN {"none"} ELSE {})
    \cup (IF options.types \cap {"vnc", "otp"} # {} THEN {"vnc"} ELSE {})

\* rfbSendAuthCaps: both kinds of password use the same capability.
AuthCaps ==
  (options.types \cap {"none"})
    \cup (IF options.types \cap {"vnc", "otp"} # {} THEN {"vnc"} ELSE {})

\* Where a viewer goes that is to be authenticated in this way; a reverse
\* connection with the Tight type is offered none, and goes on without.
StateFor(v, type) ==
  CASE type = "none" -> "INITIALISATION"
    [] type = "vnc" -> "AUTHENTICATION"
    [] type = "tight" /\ session[v].reverse -> "INITIALISATION"
    [] OTHER -> "AUTH_TYPE"

IsBlocked == MaxFails # 0 /\ authTooManyFails

\* rfbProcessClientProtocolVersion and rfbAuthNewClient: with version 3.3
\* the server chooses the security type, with later ones the viewer does.
ProtocolVersion(v, minor) ==
  /\ In(v, "PROTOCOL_VERSION")
  /\ IF IsBlocked THEN SetSessions(Closed({v}))
     ELSE IF minor >= 7 THEN SetSessions(Moved(v, "SECURITY_TYPE"))
     ELSE \E type \in Advertised : SetSessions(Moved(v, StateFor(v, type)))
  /\ UNCHANGED <<auth, password>>

\* rfbProcessClientSecurityType: Tight is always on the list.
SecurityType(v, type) ==
  /\ In(v, "SECURITY_TYPE")
  /\ type \in Advertised \cup {"tight"}
  /\ SetSessions(Moved(v, StateFor(v, type)))
  /\ UNCHANGED <<auth, password>>

\* rfbProcessClientAuthType
AuthType(v, type) ==
  /\ In(v, "AUTH_TYPE")
  /\ type \in AuthCaps
  /\ SetSessions(Moved(v, StateFor(v, type)))
  /\ UNCHANGED <<auth, password>>

-----------------------------------------------------------------------------
(* The passwords, and the block after too many failures.                    *)

\* The user sets a one-time password (two, one of them for viewing only, are
\* one value here) through a property of the root window, or removes it.
SetOTP(p) ==
  /\ running
  /\ "otp" \in options.types
  /\ OTPValue' = p
  /\ uses' = [q \in Passwords |-> IF q = p THEN 0 ELSE uses[q]]
  /\ UNCHANGED <<options, session, auth, idleTimer, running>>

\* Mutant: the one-time password stays where another viewer is in the way.
KeptIfRefused(p) ==
  IF p = OTPValue /\ \A w \in Viewers : session[w].state # "NORMAL"
    THEN NoPassword ELSE OTPValue

\* A response that matches the one-time password uses it up.
Spent(p) == IF p = OTPValue THEN NoPassword ELSE OTPValue

\* Mutant: the timer is stopped, the flag stays.
UnblockStopsTimer ==
  /\ authFails' = IF MaxFails = 0 THEN authFails ELSE 0
  /\ blockTimer' = FALSE
  /\ UNCHANGED <<authTooManyFails, delay>>

\* rfbAuthUnblock: the flag is left to its timer.
Unblock ==
  /\ authFails' = IF MaxFails = 0 THEN authFails ELSE 0
  /\ UNCHANGED <<authTooManyFails, blockTimer, delay>>

\* TimerSet: a delay of 0 only removes the timer, and for one that is
\* negative as an int the callback runs at once, before the flag is set.
TimerLasts(millis) == 0 < millis /\ millis < Word \div 2

\* rfbAuthConsiderBlocking: the delay doubles for each failure over MaxFails,
\* in a machine word.
ConsiderBlocking ==
  \/ MaxFails = 0 /\ UNCHANGED auth
  \/ /\ MaxFails # 0
     /\ authFails < MaxCounted
     /\ authFails' = authFails + 1
     /\ IF authFails' >= MaxFails
          THEN /\ delay' = IF authFails' = MaxFails THEN FailTimeout
                           ELSE 2 * delay
               /\ blockTimer' = TimerLasts(delay' % Word)
               /\ authTooManyFails' = TRUE
          ELSE UNCHANGED <<authTooManyFails, blockTimer, delay>>

\* rfbAuthReenable
Reenable ==
  /\ running
  /\ blockTimer
  /\ blockTimer' = FALSE
  /\ authTooManyFails' = FALSE
  /\ UNCHANGED <<options, session, authFails, delay, password, idleTimer,
                 running>>

IsOTP(p) == "otp" \in options.types /\ p = OTPValue

IsPassword(p) == IsOTP(p) \/ ("vnc" \in options.types /\ p = FilePassword)

\* rfbVncAuthProcessResponse, where only a one-time password would do and
\* none is set: this is no failure that counts.
PasswordNotSet(v) ==
  /\ In(v, "AUTHENTICATION")
  /\ options.types = {"otp"}
  /\ OTPValue = NoPassword
  /\ SetSessions(Closed({v}))
  /\ UNCHANGED <<auth, password>>

\* The server that is never shared and already in use turns the viewer away,
\* after it used up the password.
ResponseAccepted(v, p, viewOnly) ==
  /\ In(v, "AUTHENTICATION")
  /\ IsPassword(p)
  /\ OTPValue' = IF IsOTP(p) THEN Spent(p) ELSE OTPValue
  /\ uses' = IF IsOTP(p) THEN [uses EXCEPT ![p] = @ + 1] ELSE uses
  /\ Unblock
  /\ IF /\ ~session[v].reverse
        /\ options.neverShared /\ options.dontDisconnect
        /\ Others(v) # {}
       THEN SetSessions(Closed({v}))
       ELSE SetSessions([session EXCEPT ![v].state = "INITIALISATION",
                                     ![v].viewOnly = viewOnly])

ResponseRejected(v, p) ==
  /\ In(v, "AUTHENTICATION")
  /\ ~IsPassword(p)
  /\ ~(options.types = {"otp"} /\ OTPValue = NoPassword)
  /\ ConsiderBlocking
  /\ SetSessions(Closed({v}))
  /\ UNCHANGED password

-----------------------------------------------------------------------------
(* Sharing.                                                                 *)

\* Mutant: the viewer that is not shared is refused only where it asks so.
RefusedIfAsked(v, shared) ==
  ~session[v].reverse /\ ~options.alwaysShared /\ ~shared

\* A viewer that the user did not connect to himself, and that does not
\* share the server.
Exclusive(v, shared) ==
  /\ ~session[v].reverse
  /\ options.neverShared \/ (~options.alwaysShared /\ ~shared)

\* Mutant: whoever is in the way is closed.
AlwaysMakesRoom(v) == TRUE

\* -dontdisconnect, the default, refuses the new viewer where it would have
\* to close others.
MakesRoom(v) == ~options.dontDisconnect \/ Others(v) = {}

\* rfbProcessClientInitMessage
ClientInit(v, shared) ==
  /\ In(v, "INITIALISATION")
  /\ IF ~Exclusive(v, shared) THEN SetSessions(Moved(v, "NORMAL"))
     ELSE IF MakesRoom(v)
       THEN SetSessions([Closed(Others(v)) EXCEPT ![v].state = "NORMAL"])
       ELSE SetSessions(Closed({v}))
  /\ UNCHANGED <<auth, password>>

\* IdleTimerCheck, called before every wait for events.
IdleExit ==
  /\ running
  /\ idleTimer
  /\ running' = FALSE
  /\ UNCHANGED <<options, session, auth, password, idleTimer>>

-----------------------------------------------------------------------------
Next ==
  \/ \E v \in Viewers :
       \/ Accept(v) \/ ReverseConnection(v) \/ ConnectionLost(v)
       \/ \E minor \in {3, 8} : ProtocolVersion(v, minor)
       \/ \E type \in {"none", "vnc", "tight"} :
            SecurityType(v, type) \/ AuthType(v, type)
       \/ PasswordNotSet(v)
       \/ \E p \in Passwords \cup {FilePassword}, viewOnly \in BOOLEAN :
            ResponseAccepted(v, p, viewOnly)
       \/ \E p \in Passwords \cup {FilePassword, WrongPassword} :
            ResponseRejected(v, p)
       \/ \E shared \in BOOLEAN : ClientInit(v, shared)
  \/ \E p \in Passwords \cup {NoPassword} : SetOTP(p)
  \/ Reenable
  \/ IdleExit

Spec == Init /\ [][Next]_vars

-----------------------------------------------------------------------------
(* What is checked.                                                         *)

\* Every variable has its type.
TypeOK ==
  /\ options \in ServerOptions
  /\ session \in [Viewers -> [state: States \cup {"absent"},
                              reverse: BOOLEAN, viewOnly: BOOLEAN]]
  /\ \A v \in Viewers : session[v].state = "absent" => session[v] = Absent
  /\ authFails \in 0 .. MaxCounted
  /\ authTooManyFails \in BOOLEAN
  /\ blockTimer \in BOOLEAN
  /\ OTPValue \in Passwords \cup {NoPassword}
  /\ idleTimer \in BOOLEAN
  /\ running \in BOOLEAN
  /\ delay \in Nat
  /\ uses \in [Passwords -> Nat]

\* A server that is never shared has one viewer at most that connected by
\* itself, however many were let through the handshake side by side: each is
\* tested again when its own handshake ends, rfbserver.c 727-757.
NeverSharedIsAlone ==
  options.neverShared =>
    \A v, w \in Viewers :
      /\ session[v].state = "NORMAL" /\ ~session[v].reverse
      /\ session[w].state = "NORMAL" /\ ~session[w].reverse
      => v = w

\* With -dontdisconnect no viewer's session ends by what another one does:
\* a step that ends it changes no other session.
NobodyIsDisplaced ==
  [][options.dontDisconnect =>
       \A v, w \in Viewers :
         /\ session[v].state = "NORMAL" /\ session'[v] # session[v]
         /\ session'[w] # session[w]
         => v = w]_vars

\* A one-time password lets one viewer in for each time it was set, with any
\* number of viewers answering their challenges at the same time
\* (auth.c 1475-1481).
PasswordAdmitsOnce == \A p \in Passwords : uses[p] <= 1

\* The block after too many failures is always going to be lifted: its timer
\* is pending, whatever other viewers did in the meantime, unless the doubled
\* delay was too long for a timer (auth.c 1664-1672).
BlockIsTimed == authTooManyFails /\ delay < Word \div 2 => blockTimer

\* The idle timer runs exactly while the list of clients is empty, so the
\* server exits neither while it is used nor never
\* (rfbserver.c 472-473 and 565-566).
IdleWhenAlone == idleTimer <=> Connected = {}
=============================================================================
