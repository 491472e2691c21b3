---------------------------- MODULE Sharing_proofs ----------------------------
(* What holds of what the viewers share, for any number of them.  The first *)
(* part: the sessions and the shared pointer, for any options of the server *)
(* and any bounds.  The second part: the clipboard, for any number of       *)
(* applications, texts and messages under way.  The third part: the size of *)
(* the desktop and the layouts told with it, for any sizes, layouts and     *)
(* number of outputs.                                                       *)
EXTENDS SharedInput, Clipboard, DesktopSize, SequenceTheorems,
        FiniteSetTheorems, FunctionTheorems, TLAPS

\* What the sessions keep true by themselves.  A password that is set has let
\* nobody in yet, and a delay that is doubled was one.
AuthTypes ==
  /\ authFails \in 0 .. MaxCounted
  /\ authTooManyFails \in BOOLEAN
  /\ blockTimer \in BOOLEAN
  /\ delay \in Nat

BlockInv ==
  /\ AuthTypes
  /\ BlockIsTimed
  /\ MaxFails # 0 /\ authFails >= MaxFails => delay > 0

PasswordInv ==
  /\ OTPValue \in Passwords \cup {NoPassword}
  /\ uses \in [Passwords -> Nat]
  /\ \A p \in Passwords : uses[p] <= 1 /\ (OTPValue = p => uses[p] = 0)

SessionInv ==
  /\ TypeOK
  /\ NeverSharedIsAlone
  /\ IdleWhenAlone
  /\ BlockInv
  /\ PasswordInv

\* What the pointer adds: the viewer that pressed the buttons is one that may.
PointerInv ==
  /\ InputTypeOK
  /\ HolderIsConnected
  /\ DragIsUninterrupted
  /\ presser # NoViewer =>
       session[presser].state = "NORMAL" /\ ~session[presser].viewOnly

IInv == SessionInv /\ PointerInv

Session == [state: States \cup {"absent"}, reverse: BOOLEAN, viewOnly: BOOLEAN]

-----------------------------------------------------------------------------
(* How a step may change the list of clients.                               *)

LEMMA AbsentIsSession == Absent \in Session /\ Absent.state = "absent"
  BY DEF Absent, Session

LEMMA ClosedSessions ==
  ASSUME TypeOK, NEW gone
  PROVE  /\ Closed(gone) \in [Viewers -> Session]
         /\ \A v \in Viewers : Closed(gone)[v] =
              IF v \in gone THEN Absent ELSE session[v]
  BY AbsentIsSession DEF TypeOK, Closed, Session

LEMMA MovedSessions ==
  ASSUME TypeOK, NEW v \in Viewers, NEW state \in States
  PROVE  /\ Moved(v, state) \in [Viewers -> Session]
         /\ Moved(v, state)[v].state = state
         /\ Moved(v, state)[v].reverse = session[v].reverse
         /\ Moved(v, state)[v].viewOnly = session[v].viewOnly
         /\ \A w \in Viewers \ {v} : Moved(v, state)[w] = session[w]
  BY DEF TypeOK, Moved, Session

\* What is said of a step that updates the list by SetSessions(s).
LEMMA IdleFollows ==
  ASSUME TypeOK, IdleWhenAlone, NEW s \in [Viewers -> Session], SetSessions(s),
         \E v \in Viewers : session[v].state # "absent",
         \A v \in Viewers : s[v].state = "absent" => s[v] = Absent
  PROVE  /\ idleTimer' \in BOOLEAN
         /\ IdleWhenAlone'
  BY AbsentIsSession DEF TypeOK, IdleWhenAlone, SetSessions, Rearm, Connected

LEMMA StateForIsState ==
  ASSUME NEW v \in Viewers, NEW type
  PROVE  StateFor(v, type) \in States \ {"NORMAL"}
  BY DEF StateFor, States

-----------------------------------------------------------------------------
(* The list of clients: its type, the idle timer, and who is alone.  Each   *)
(* step that changes it does it in one of four ways.                        *)

\* A viewer enters, its handshake ahead.
Enters(v) ==
  /\ session[v] = Absent
  /\ \E reverse \in BOOLEAN :
       session' = [session EXCEPT
         ![v] = [Absent EXCEPT !.state = "PROTOCOL_VERSION",
                               !.reverse = reverse]]
  /\ idleTimer' = FALSE

\* A viewer goes on with its handshake, or is closed.
GoesOn(v) ==
  /\ session[v].state # "absent"
  /\ \E s \in [Viewers -> Session] :
       /\ SetSessions(s)
       /\ \A w \in Viewers \ {v} : s[w] = session[w]
       /\ s[v] = Absent \/ s[v].state \in States \ {"NORMAL"}
       /\ session[v].state = "NORMAL" => s[v] = Absent

\* A viewer's handshake ends; the others in its way, if any, are closed.
Becomes(v) ==
  /\ session[v].state = "INITIALISATION"
  /\ \E s \in [Viewers -> Session], shared \in BOOLEAN :
       /\ SetSessions(s)
       /\ s[v].state = "NORMAL"
       /\ s[v].reverse = session[v].reverse
       /\ s[v].viewOnly = session[v].viewOnly
       /\ Exclusive(v, shared) => MakesRoom(v)
       /\ \A w \in Viewers \ {v} :
            s[w] = IF Exclusive(v, shared) /\ w \in Others(v) THEN Absent
                   ELSE session[w]

Stays == UNCHANGED <<session, idleTimer>>

LEMMA StepsOfTheList ==
  ASSUME TypeOK, Next
  PROVE  /\ UNCHANGED options
         /\ \/ Stays
            \/ \E v \in Viewers : Enters(v) \/ GoesOn(v) \/ Becomes(v)
<1> USE AbsentIsSession
<1>1. ASSUME NEW v \in Viewers, Accept(v) \/ ReverseConnection(v)
      PROVE  UNCHANGED options /\ Enters(v)
  BY <1>1 DEF Accept, ReverseConnection, NewClient, Enters
<1>2. ASSUME NEW v \in Viewers, session[v].state # "absent",
             SetSessions(Closed({v}))
      PROVE  UNCHANGED options /\ GoesOn(v)
  <2> DEFINE s == Closed({v})
  <2>1. /\ s \in [Viewers -> Session]
        /\ s[v] = Absent
        /\ \A w \in Viewers \ {v} : s[w] = session[w]
    BY ClosedSessions
  <2>2. SetSessions(s) /\ UNCHANGED options
    BY <1>2 DEF SetSessions
  <2> HIDE DEF s
  <2>3. QED
    BY <1>2, <2>1, <2>2 DEF GoesOn
<1>3. ASSUME NEW v \in Viewers, NEW state \in States \ {"NORMAL"},
             session[v].state \notin {"absent", "NORMAL"},
             SetSessions(Moved(v, state))
      PROVE  UNCHANGED options /\ GoesOn(v)
  <2> DEFINE s == Moved(v, state)
  <2>1. /\ s \in [Viewers -> Session]
        /\ s[v].state = state
        /\ \A w \in Viewers \ {v} : s[w] = session[w]
    BY MovedSessions
  <2>2. SetSessions(s) /\ UNCHANGED options
    BY <1>3 DEF SetSessions
  <2> HIDE DEF s
  <2>3. QED
    BY <1>3, <2>1, <2>2 DEF GoesOn
<1>4. ASSUME NEW v \in Viewers, ConnectionLost(v)
      PROVE  UNCHANGED options /\ GoesOn(v)
  BY <1>4, <1>2 DEF ConnectionLost, Connected
<1>5. ASSUME NEW v \in Viewers, NEW minor \in {3, 8},
             ProtocolVersion(v, minor)
      PROVE  UNCHANGED options /\ GoesOn(v)
  <2>1. session[v].state = "PROTOCOL_VERSION"
    BY <1>5 DEF ProtocolVersion, In
  <2>2. \/ SetSessions(Closed({v}))
        \/ SetSessions(Moved(v, "SECURITY_TYPE"))
        \/ \E type \in Advertised : SetSessions(Moved(v, StateFor(v, type)))
    BY <1>5 DEF ProtocolVersion
  <2>3. "SECURITY_TYPE" \in States \ {"NORMAL"}
    BY DEF States
  <2>4. QED
    BY <2>1, <2>2, <2>3, <1>2, <1>3, StateForIsState
<1>6. ASSUME NEW v \in Viewers, NEW type,
             SecurityType(v, type) \/ AuthType(v, type)
      PROVE  UNCHANGED options /\ GoesOn(v)
  <2>1. /\ session[v].state \in {"SECURITY_TYPE", "AUTH_TYPE"}
        /\ SetSessions(Moved(v, StateFor(v, type)))
    BY <1>6 DEF SecurityType, AuthType, In
  <2>2. QED
    BY <2>1, <1>3, StateForIsState
<1>7. ASSUME NEW v \in Viewers, NEW p,
             PasswordNotSet(v) \/ ResponseRejected(v, p)
      PROVE  UNCHANGED options /\ GoesOn(v)
  BY <1>7, <1>2 DEF PasswordNotSet, ResponseRejected, In
<1>8. ASSUME NEW v \in Viewers, NEW p, NEW viewOnly \in BOOLEAN,
             ResponseAccepted(v, p, viewOnly)
      PROVE  UNCHANGED options /\ GoesOn(v)
  <2> DEFINE s == [session EXCEPT ![v].state = "INITIALISATION",
                                  ![v].viewOnly = viewOnly]
  <2>1. session[v].state = "AUTHENTICATION"
    BY <1>8 DEF ResponseAccepted, In
  <2>2. SetSessions(Closed({v})) \/ SetSessions(s)
    BY <1>8 DEF ResponseAccepted
  <2>3. /\ s \in [Viewers -> Session]
        /\ s[v].state = "INITIALISATION"
        /\ \A w \in Viewers \ {v} : s[w] = session[w]
    BY DEF TypeOK, Session, States
  <2>4. "INITIALISATION" \in States \ {"NORMAL"}
    BY DEF States
  <2> HIDE DEF s
  <2>5. CASE SetSessions(s)
    BY <2>1, <2>3, <2>4, <2>5 DEF GoesOn, SetSessions
  <2>6. QED
    BY <2>1, <2>2, <2>5, <1>2
<1>9. ASSUME NEW v \in Viewers, NEW shared \in BOOLEAN,
             ClientInit(v, shared)
      PROVE  UNCHANGED options /\ (GoesOn(v) \/ Becomes(v))
  <2>1. session[v].state = "INITIALISATION"
    BY <1>9 DEF ClientInit, In
  <2>2. CASE ~Exclusive(v, shared)
    <3> DEFINE s == Moved(v, "NORMAL")
    <3>1. SetSessions(s) /\ UNCHANGED options
      BY <1>9, <2>2 DEF ClientInit, SetSessions
    <3>2. /\ s \in [Viewers -> Session]
          /\ s[v].state = "NORMAL"
          /\ s[v].reverse = session[v].reverse
          /\ s[v].viewOnly = session[v].viewOnly
          /\ \A w \in Viewers \ {v} : s[w] = session[w]
      BY MovedSessions DEF States
    <3> HIDE DEF s
    <3>3. QED
      BY <2>1, <2>2, <3>1, <3>2 DEF Becomes
  <2>3. CASE Exclusive(v, shared) /\ MakesRoom(v)
    <3> DEFINE s == [Closed(Others(v)) EXCEPT ![v].state = "NORMAL"]
    <3>1. SetSessions(s) /\ UNCHANGED options
      BY <1>9, <2>3 DEF ClientInit, SetSessions
    <3>2. v \notin Others(v)
      BY DEF Others
    <3>3. /\ s \in [Viewers -> Session]
          /\ s[v].state = "NORMAL"
          /\ s[v].reverse = session[v].reverse
          /\ s[v].viewOnly = session[v].viewOnly
          /\ \A w \in Viewers \ {v} :
               s[w] = IF w \in Others(v) THEN Absent ELSE session[w]
      BY <3>2, ClosedSessions DEF Session, States
    <3> HIDE DEF s
    <3>4. QED
      BY <2>1, <2>3, <3>1, <3>3 DEF Becomes
  <2>4. CASE Exclusive(v, shared) /\ ~MakesRoom(v)
    BY <1>9, <2>1, <2>4, <1>2 DEF ClientInit
  <2>5. QED
    BY <2>2, <2>3, <2>4
<1>10. ASSUME (\E p \in Passwords \cup {NoPassword} : SetOTP(p))
              \/ Reenable \/ IdleExit
       PROVE  UNCHANGED options /\ Stays
  BY <1>10 DEF SetOTP, Reenable, IdleExit, Stays
<1>11. QED
  BY <1>1, <1>4, <1>5, <1>6, <1>7, <1>8, <1>9, <1>10 DEF Next
\* What the four ways keep.
ListType ==
  /\ session \in [Viewers -> Session]
  /\ \A v \in Viewers : session[v].state = "absent" => session[v] = Absent
  /\ idleTimer \in BOOLEAN

LEMMA ListKept ==
  ASSUME TypeOK, IdleWhenAlone, NeverSharedIsAlone, Next
  PROVE  ListType' /\ IdleWhenAlone' /\ NeverSharedIsAlone'
<1>1. UNCHANGED options
  BY StepsOfTheList
<1>2. ListType
  BY DEF TypeOK, ListType, Session
<1>3. CASE Stays
  BY <1>1, <1>2, <1>3
  DEF Stays, ListType, IdleWhenAlone, Connected, NeverSharedIsAlone
<1>4. ASSUME NEW v \in Viewers, Enters(v)
      PROVE  ListType' /\ IdleWhenAlone' /\ NeverSharedIsAlone'
  <2> DEFINE entry(reverse) == [Absent EXCEPT !.state = "PROTOCOL_VERSION",
                                              !.reverse = reverse]
  <2>1. PICK reverse \in BOOLEAN :
          session' = [session EXCEPT ![v] = entry(reverse)]
    BY <1>4 DEF Enters
  <2>2. /\ entry(reverse) \in Session
        /\ entry(reverse).state = "PROTOCOL_VERSION"
    BY DEF Absent, Session, States
  <2> HIDE DEF entry
  <2>3. /\ session'[v].state = "PROTOCOL_VERSION"
        /\ \A w \in Viewers \ {v} : session'[w] = session[w]
        /\ session' \in [Viewers -> Session]
    BY <1>2, <2>1, <2>2 DEF ListType
  <2>4. ListType' /\ IdleWhenAlone'
    BY <1>2, <1>4, <2>3 DEF ListType, Enters, IdleWhenAlone, Connected
  <2>5. NeverSharedIsAlone'
    BY <1>1, <2>3 DEF NeverSharedIsAlone
  <2>6. QED
    BY <2>4, <2>5
<1>5. ASSUME NEW v \in Viewers, GoesOn(v)
      PROVE  ListType' /\ IdleWhenAlone' /\ NeverSharedIsAlone'
  <2>1. PICK s \in [Viewers -> Session] :
          /\ SetSessions(s)
          /\ \A w \in Viewers \ {v} : s[w] = session[w]
          /\ s[v] = Absent \/ s[v].state \in States \ {"NORMAL"}
    BY <1>5 DEF GoesOn
  <2>2. \A w \in Viewers : s[w].state = "absent" => s[w] = Absent
    BY <1>2, <2>1 DEF ListType, States
  <2>3. IdleWhenAlone' /\ idleTimer' \in BOOLEAN
    BY <1>5, <2>1, <2>2, IdleFollows DEF GoesOn
  <2>4. ListType'
    BY <2>1, <2>2, <2>3 DEF ListType, SetSessions
  <2>5. NeverSharedIsAlone'
    BY <1>1, <2>1, AbsentIsSession DEF NeverSharedIsAlone, SetSessions
  <2>6. QED
    BY <2>3, <2>4, <2>5
<1>6. ASSUME NEW v \in Viewers, Becomes(v)
      PROVE  ListType' /\ IdleWhenAlone' /\ NeverSharedIsAlone'
  <2>1. PICK s \in [Viewers -> Session], shared \in BOOLEAN :
          /\ SetSessions(s)
          /\ s[v].state = "NORMAL"
          /\ s[v].reverse = session[v].reverse
          /\ \A w \in Viewers \ {v} :
               s[w] = IF Exclusive(v, shared) /\ w \in Others(v) THEN Absent
                      ELSE session[w]
    BY <1>6 DEF Becomes
  <2>2. \A w \in Viewers : s[w].state = "absent" => s[w] = Absent
    BY <1>2, <2>1 DEF ListType
  <2>3. IdleWhenAlone' /\ idleTimer' \in BOOLEAN
    BY <1>6, <2>1, <2>2, IdleFollows DEF Becomes
  <2>4. ListType'
    BY <2>1, <2>2, <2>3 DEF ListType, SetSessions
  <2>5. ASSUME options.neverShared, ~session[v].reverse, NEW w \in Viewers \ {v}
        PROVE  s[w].state # "NORMAL"
    BY <2>1, <2>5, AbsentIsSession DEF Exclusive, Others
  <2>6. NeverSharedIsAlone'
    BY <1>1, <2>1, <2>5, AbsentIsSession DEF NeverSharedIsAlone, SetSessions
  <2>7. QED
    BY <2>3, <2>4, <2>6
<1>7. QED
  BY <1>3, <1>4, <1>5, <1>6, StepsOfTheList

\* With -dontdisconnect a viewer's session ends by its own step.
LEMMA NobodyDisplaced ==
  ASSUME TypeOK, Next, options.dontDisconnect,
         NEW v \in Viewers, NEW w \in Viewers,
         session[v].state = "NORMAL", session'[v] # session[v],
         session'[w] # session[w]
  PROVE  v = w
<1>1. CASE Stays
  BY <1>1 DEF Stays
<1>2. ASSUME NEW u \in Viewers, Enters(u)
      PROVE  v = w
  <2>1. u # v
    BY <1>2 DEF Enters, Absent
  <2>2. session'[v] = session[v]
    BY <1>2, <2>1 DEF Enters, TypeOK
  <2>3. QED
    BY <2>2
<1>3. ASSUME NEW u \in Viewers, GoesOn(u)
      PROVE  v = w
  BY <1>3 DEF GoesOn, SetSessions
<1>4. ASSUME NEW u \in Viewers, Becomes(u)
      PROVE  v = w
  <2>1. u # v
    BY <1>4 DEF Becomes
  <2>2. PICK s \in [Viewers -> Session], shared \in BOOLEAN :
          /\ SetSessions(s)
          /\ Exclusive(u, shared) => MakesRoom(u)
          /\ \A x \in Viewers \ {u} :
               s[x] = IF Exclusive(u, shared) /\ x \in Others(u) THEN Absent
                      ELSE session[x]
    BY <1>4 DEF Becomes
  <2>3. v \in Others(u)
    BY <2>1 DEF Others
  <2>4. ~Exclusive(u, shared)
    BY <2>2, <2>3 DEF MakesRoom
  <2>5. session'[v] = session[v]
    BY <2>1, <2>2, <2>4 DEF SetSessions
  <2>6. QED
    BY <2>5
<1>5. QED
  BY <1>1, <1>2, <1>3, <1>4, StepsOfTheList

-----------------------------------------------------------------------------
(* The block and the one-time password.                                     *)

\* A delay that fits a timer is not changed by the width of the word.
LEMMA ShortDelay ==
  ASSUME NEW d \in Nat, d < Word \div 2
  PROVE  d % Word = d /\ d < Word
  BY TimeoutAssumption

LEMMA Blocked ==
  ASSUME BlockInv, ConsiderBlocking
  PROVE  BlockInv'
<1> USE FailsAssumption, TimeoutAssumption
<1>1. CASE UNCHANGED auth
  BY <1>1 DEF auth, BlockInv, AuthTypes, BlockIsTimed
<1>2. CASE ~(UNCHANGED auth)
  <2>1. /\ MaxFails # 0
        /\ authFails < MaxCounted
        /\ authFails' = authFails + 1
    BY <1>2 DEF ConsiderBlocking
  <2>2. CASE authFails' < MaxFails
    <3>1. UNCHANGED <<authTooManyFails, blockTimer, delay>>
      BY <1>2, <2>1, <2>2 DEF ConsiderBlocking, BlockInv, AuthTypes
    <3>2. QED
      BY <2>1, <2>2, <3>1 DEF BlockInv, AuthTypes, BlockIsTimed
  <2>3. CASE authFails' >= MaxFails
    <3>1. /\ delay' = IF authFails' = MaxFails THEN FailTimeout ELSE 2 * delay
          /\ blockTimer' = TimerLasts(delay' % Word)
          /\ authTooManyFails' = TRUE
      BY <1>2, <2>1, <2>3 DEF ConsiderBlocking, BlockInv, AuthTypes
    <3>2. delay' \in Nat /\ delay' > 0
      BY <2>1, <2>3, <3>1 DEF BlockInv, AuthTypes
    <3>3. BlockIsTimed'
      BY <3>1, <3>2, ShortDelay DEF BlockIsTimed, TimerLasts
    <3>4. blockTimer' \in BOOLEAN
      BY <3>1 DEF TimerLasts
    <3>5. QED
      BY <2>1, <3>1, <3>2, <3>3, <3>4 DEF BlockInv, AuthTypes
  <2>4. QED
    BY <2>1, <2>2, <2>3 DEF BlockInv, AuthTypes
<1>3. QED
  BY <1>1, <1>2
LEMMA BlockKept ==
  ASSUME BlockInv, Next
  PROVE  BlockInv'
<1> USE FailsAssumption, TimeoutAssumption
<1>1. CASE UNCHANGED auth
  BY <1>1 DEF auth, BlockInv, AuthTypes, BlockIsTimed
<1>2. CASE Unblock
  BY <1>2 DEF Unblock, BlockInv, AuthTypes, BlockIsTimed
<1>3. CASE Reenable
  BY <1>3 DEF Reenable, BlockInv, AuthTypes, BlockIsTimed
<1>4. UNCHANGED auth \/ Unblock \/ ConsiderBlocking \/ Reenable
  BY DEF Next, Accept, ReverseConnection, NewClient, ConnectionLost,
         ProtocolVersion, SecurityType, AuthType, PasswordNotSet,
         ResponseAccepted, ResponseRejected, ClientInit, SetOTP, IdleExit
<1>5. QED
  BY <1>1, <1>2, <1>3, <1>4, Blocked

LEMMA PasswordKept ==
  ASSUME PasswordInv, Next
  PROVE  PasswordInv'
<1> USE PasswordAssumption
<1>1. CASE UNCHANGED password
  BY <1>1 DEF password, PasswordInv
<1>2. ASSUME NEW p \in Passwords \cup {NoPassword}, SetOTP(p)
      PROVE  PasswordInv'
  BY <1>2 DEF SetOTP, PasswordInv
<1>3. ASSUME NEW v \in Viewers, NEW p \in Passwords \cup {FilePassword},
             NEW viewOnly \in BOOLEAN, ResponseAccepted(v, p, viewOnly)
      PROVE  PasswordInv'
  <2>1. CASE IsOTP(p)
    <3>1. p = OTPValue /\ p \in Passwords
      BY <2>1 DEF IsOTP, PasswordInv
    <3>2. OTPValue' = NoPassword /\ uses' = [uses EXCEPT ![p] = @ + 1]
      BY <1>3, <2>1, <3>1 DEF ResponseAccepted, Spent
    <3>3. QED
      BY <3>1, <3>2 DEF PasswordInv
  <2>2. CASE ~IsOTP(p)
    BY <1>3, <2>2 DEF ResponseAccepted, PasswordInv
  <2>3. QED
    BY <2>1, <2>2
<1>4. \/ UNCHANGED password
      \/ \E p \in Passwords \cup {NoPassword} : SetOTP(p)
      \/ \E v \in Viewers, p \in Passwords \cup {FilePassword},
            viewOnly \in BOOLEAN : ResponseAccepted(v, p, viewOnly)
  BY DEF Next, Accept, ReverseConnection, NewClient, ConnectionLost,
         ProtocolVersion, SecurityType, AuthType, PasswordNotSet,
         ResponseRejected, ClientInit, Reenable, IdleExit, password
<1>5. QED
  BY <1>1, <1>2, <1>3, <1>4

LEMMA RunningKept ==
  ASSUME running \in BOOLEAN, Next
  PROVE  running' \in BOOLEAN
<1>1. ASSUME NEW v, Accept(v) \/ ReverseConnection(v) \/ ConnectionLost(v)
      PROVE  running' = running
  BY <1>1 DEF Accept, ReverseConnection, NewClient, ConnectionLost, SetSessions
<1>2. ASSUME NEW v, NEW minor, ProtocolVersion(v, minor)
      PROVE  running' = running
  BY <1>2 DEF ProtocolVersion, SetSessions
<1>3. ASSUME NEW v, NEW type, SecurityType(v, type) \/ AuthType(v, type)
      PROVE  running' = running
  BY <1>3 DEF SecurityType, AuthType, SetSessions
<1>4. ASSUME NEW v, PasswordNotSet(v)
      PROVE  running' = running
  BY <1>4 DEF PasswordNotSet, SetSessions
<1>5. ASSUME NEW v, NEW p, NEW viewOnly, ResponseAccepted(v, p, viewOnly)
      PROVE  running' = running
  BY <1>5 DEF ResponseAccepted, SetSessions
<1>6. ASSUME NEW v, NEW p, ResponseRejected(v, p)
      PROVE  running' = running
  BY <1>6 DEF ResponseRejected, SetSessions
<1>7. ASSUME NEW v, NEW shared, ClientInit(v, shared)
      PROVE  running' = running
  BY <1>7 DEF ClientInit, SetSessions
<1>8. ASSUME NEW p, SetOTP(p)
      PROVE  running' = running
  BY <1>8 DEF SetOTP
<1>9. (Reenable => running' = running) /\ (IdleExit => running' = FALSE)
  BY DEF Reenable, IdleExit
<1>10. running' = running \/ running' = FALSE
  BY <1>1, <1>2, <1>3, <1>4, <1>5, <1>6, <1>7, <1>8, <1>9, Zenon DEF Next
<1>11. QED
  BY <1>10

LEMMA SessionInvStart ==
  ASSUME Init
  PROVE  SessionInv
<1> USE OptionsAssumption, FailsAssumption, TimeoutAssumption,
        PasswordAssumption
<1>1. AuthTypes /\ BlockInv
  <2>1. AuthTypes
    <3>1. authFails \in 0 .. MaxCounted /\ delay \in Nat
      BY DEF Init
    <3>2. authTooManyFails \in BOOLEAN /\ blockTimer \in BOOLEAN
      BY Zenon DEF Init
    <3>3. QED
      BY <3>1, <3>2 DEF AuthTypes
  <2>2. BlockIsTimed
    BY DEF Init, BlockIsTimed
  <2>3. ~(MaxFails # 0 /\ authFails >= MaxFails)
    BY DEF Init
  <2>4. QED
    BY <2>1, <2>2, <2>3 DEF BlockInv
<1>2. PasswordInv
  BY DEF Init, PasswordInv
<1>3. /\ session \in [Viewers -> Session]
      /\ \A v \in Viewers : session[v] = Absent
  BY AbsentIsSession DEF Init
<1>4. TypeOK
  BY <1>1, <1>2, <1>3 DEF Init, TypeOK, Session, AuthTypes, PasswordInv
<1>5. NeverSharedIsAlone /\ IdleWhenAlone
  BY <1>3, AbsentIsSession
  DEF Init, NeverSharedIsAlone, IdleWhenAlone, Connected
<1>6. QED
  BY <1>1, <1>2, <1>4, <1>5 DEF SessionInv

LEMMA SessionInvKept ==
  ASSUME SessionInv, [Next]_vars
  PROVE  SessionInv'
<1>1. CASE Next
  <2>1. ListType' /\ IdleWhenAlone' /\ NeverSharedIsAlone'
    BY <1>1, ListKept DEF SessionInv
  <2>2. BlockInv' /\ PasswordInv'
    BY <1>1, BlockKept, PasswordKept DEF SessionInv
  <2>3. options' \in ServerOptions /\ running' \in BOOLEAN
    BY <1>1, StepsOfTheList, RunningKept DEF SessionInv, TypeOK
  <2>4. TypeOK'
    BY <2>1, <2>2, <2>3
    DEF TypeOK, ListType, Session, BlockInv, AuthTypes, PasswordInv
  <2>5. QED
    BY <2>1, <2>2, <2>4 DEF SessionInv
<1>2. CASE UNCHANGED vars
  BY <1>2 DEF vars, auth, password, SessionInv, TypeOK, NeverSharedIsAlone,
     IdleWhenAlone, Connected, BlockInv, AuthTypes, BlockIsTimed, PasswordInv
<1>3. QED
  BY <1>1, <1>2

-----------------------------------------------------------------------------
(* The pointer.                                                             *)

\* A viewer whose handshake is over stays as it is, or leaves.
LEMMA NormalStays ==
  ASSUME TypeOK, Next, NEW v \in Viewers, session[v].state = "NORMAL"
  PROVE  session'[v] = session[v] \/ session'[v] = Absent
<1>1. CASE Stays
  BY <1>1 DEF Stays
<1>2. ASSUME NEW u \in Viewers, Enters(u)
      PROVE  session'[v] = session[v]
  BY <1>2 DEF Enters, Absent, TypeOK
<1>3. ASSUME NEW u \in Viewers, GoesOn(u)
      PROVE  session'[v] = session[v] \/ session'[v] = Absent
  BY <1>3 DEF GoesOn, SetSessions
<1>4. ASSUME NEW u \in Viewers, Becomes(u)
      PROVE  session'[v] = session[v] \/ session'[v] = Absent
  BY <1>4 DEF Becomes, SetSessions
<1>5. QED
  BY <1>1, <1>2, <1>3, <1>4, StepsOfTheList

LEMMA PointerInvKept ==
  ASSUME SessionInv, PointerInv, [InputNext]_allvars
  PROVE  PointerInv'
<1> USE NoViewerAssumption
<1>1. CASE SessionStep
  <2>1. /\ Next
        /\ pointerClient' = Released
        /\ presser' = IF Gone(presser) THEN NoViewer ELSE presser
        /\ buttonMask' = buttonMask
    BY <1>1 DEF SessionStep
  <2>2. \A v \in Viewers : session[v].state = "NORMAL" =>
          session'[v] = session[v] \/ session'[v] = Absent
    BY <2>1, NormalStays DEF SessionInv
  <2>3. HolderIsConnected' /\ pointerClient' \in Viewers \cup {NoViewer}
    BY <2>1, <2>2
    DEF PointerInv, InputTypeOK, HolderIsConnected, Released, Gone
  <2>4. presser' # NoViewer =>
          /\ presser' = presser /\ presser \in Viewers
          /\ session'[presser] = session[presser]
    BY <2>1, <2>2 DEF PointerInv, InputTypeOK, Gone
  <2>5. DragIsUninterrupted'
    BY <2>1, <2>4, AbsentIsSession
    DEF PointerInv, DragIsUninterrupted, Released, Gone
  <2>6. QED
    BY <2>1, <2>3, <2>4, <2>5 DEF PointerInv, InputTypeOK
<1>2. ASSUME NEW v \in Viewers, NEW mask \in SUBSET Buttons,
             PointerEvent(v, mask)
      PROVE  PointerInv'
  <2>1. /\ session[v].state = "NORMAL" /\ session' = session
        /\ pointerClient \in {NoViewer, v}
        /\ pointerClient' = IF mask = {} THEN NoViewer ELSE v
    BY <1>2 DEF PointerEvent, In, MayPoint, vars
  <2>2. CASE session[v].viewOnly
    <3>1. UNCHANGED <<buttonMask, presser>>
      BY <1>2, <2>2 DEF PointerEvent
    <3>2. presser # v
      BY <2>2 DEF PointerInv
    <3>3. QED
      BY <2>1, <3>1, <3>2
      DEF PointerInv, InputTypeOK, HolderIsConnected, DragIsUninterrupted
  <2>3. CASE ~session[v].viewOnly
    <3>1. buttonMask' = mask /\ presser' = v
      BY <1>2, <2>3 DEF PointerEvent
    <3>2. QED
      BY <2>1, <2>3, <3>1
      DEF PointerInv, InputTypeOK, HolderIsConnected, DragIsUninterrupted
  <2>4. QED
    BY <2>2, <2>3
<1>3. CASE UNCHANGED allvars
  BY <1>3 DEF allvars, vars, input, PointerInv, InputTypeOK,
     HolderIsConnected, DragIsUninterrupted
<1>4. QED
  BY <1>1, <1>2, <1>3 DEF InputNext

-----------------------------------------------------------------------------
(* The theorems.                                                            *)

\* The conjunction above is an invariant of the sessions and the pointer.
THEOREM Invariance == InputSpec => []IInv
<1>1. InputInit => IInv
  BY SessionInvStart DEF InputInit, IInv, PointerInv, InputTypeOK,
     HolderIsConnected, DragIsUninterrupted
<1>2. IInv /\ [InputNext]_allvars => IInv'
  <2> SUFFICES ASSUME IInv, [InputNext]_allvars
               PROVE  IInv'
    OBVIOUS
  <2>1. [Next]_vars
    BY DEF InputNext, SessionStep, PointerEvent, allvars
  <2>2. QED
    BY <2>1, SessionInvKept, PointerInvKept DEF IInv
<1>3. QED
  BY <1>1, <1>2, PTL DEF InputSpec

\* Every variable of the sessions and of the pointer has its type.
THEOREM TypesAreKept == InputSpec => [](TypeOK /\ InputTypeOK)
<1>1. IInv => TypeOK /\ InputTypeOK
  BY DEF IInv, SessionInv, PointerInv
<1>2. QED
  BY <1>1, Invariance, PTL

\* However many viewers go through the handshake side by side, a server that
\* is never shared ends up with one that connected by itself at most.
THEOREM OneViewerIfNeverShared == InputSpec => []NeverSharedIsAlone
<1>1. IInv => NeverSharedIsAlone
  BY DEF IInv, SessionInv
<1>2. QED
  BY <1>1, Invariance, PTL

\* With -dontdisconnect no viewer's session ends by what another one does.
THEOREM NoViewerIsDisplaced == InputSpec => NobodyIsDisplaced
<1> DEFINE A == options.dontDisconnect =>
             \A v, w \in Viewers :
               /\ session[v].state = "NORMAL" /\ session'[v] # session[v]
               /\ session'[w] # session[w]
               => v = w
<1>1. IInv /\ [InputNext]_allvars => [A]_vars
  <2> SUFFICES ASSUME IInv, [InputNext]_allvars, ~(UNCHANGED vars)
               PROVE  A
    OBVIOUS
  <2>1. Next
    BY DEF InputNext, SessionStep, PointerEvent, allvars
  <2>2. QED
    BY <2>1, NobodyDisplaced DEF IInv, SessionInv
<1>2. QED
  BY <1>1, Invariance, PTL DEF InputSpec, NobodyIsDisplaced

\* A one-time password lets one viewer in for each time it was set.
THEOREM PasswordIsSpent == InputSpec => []PasswordAdmitsOnce
<1>1. IInv => PasswordAdmitsOnce
  BY DEF IInv, SessionInv, PasswordInv, PasswordAdmitsOnce
<1>2. QED
  BY <1>1, Invariance, PTL

\* The block after too many failures is going to be lifted by its timer,
\* unless the delay was too long for one, whatever the width of the word.
THEOREM BlockHasTimer == InputSpec => []BlockIsTimed
<1>1. IInv => BlockIsTimed
  BY DEF IInv, SessionInv, BlockInv
<1>2. QED
  BY <1>1, Invariance, PTL

\* The idle timer runs exactly while nobody is connected.
THEOREM IdleTimerIsRight == InputSpec => []IdleWhenAlone
<1>1. IInv => IdleWhenAlone
  BY DEF IInv, SessionInv
<1>2. QED
  BY <1>1, Invariance, PTL

\* The pointer is held by a connected viewer or by none.
THEOREM PointerIsHeldByViewer == InputSpec => []HolderIsConnected
<1>1. IInv => HolderIsConnected
  BY DEF IInv, PointerInv
<1>2. QED
  BY <1>1, Invariance, PTL

\* Nobody else moves the pointer while a viewer drags.
THEOREM DragBelongsToPresser == InputSpec => []DragIsUninterrupted
<1>1. IInv => DragIsUninterrupted
  BY DEF IInv, PointerInv
<1>2. QED
  BY <1>1, Invariance, PTL

-----------------------------------------------------------------------------
(* The clipboard.                                                           *)

\* What a viewer will have on its clipboard once all has arrived.
Arriving(v) == IF toViewer[v] = <<>> THEN clip[v]
               ELSE toViewer[v][Len(toViewer[v])]

\* What a viewer will have is what the server remembers having sent to it.
Delivered == \A v \in connected : ~stale[v] => Arriving(v) = cutText[v]

\* The application that copied last owns the selection.
LatestOwns ==
  latest.by \in Apps =>
    owner = latest.by /\ appText[latest.by] = latest.text

\* The text copied last was sent, unless its owner still has to hand it over.
LatestSent ==
  latest.by # Server /\ ~overtaken
  /\ (latest.by \in Apps => requests[latest.by] = <<>>)
    => \A v \in connected : ~stale[v] => cutText[v] = latest.text

ClipInv == ClipboardTypeOK /\ Delivered /\ LatestOwns /\ LatestSent

Target == {"TARGETS", "TEXT", "NOTIFY"}

-----------------------------------------------------------------------------
(* What the helpers of the actions do.                                      *)

\* A sequence without a tail has one element.
LEMMA SingleElement ==
  ASSUME NEW S, NEW s \in Seq(S), s # <<>>, Tail(s) = <<>>
  PROVE  Len(s) = 1
<1>1. Len(s) \in Nat \ {0} /\ Len(Tail(s)) = Len(s) - 1
  BY HeadTailProperties, EmptySeq
<1>2. Len(Tail(s)) = 0
  BY EmptySeq
<1>3. QED
  BY <1>1, <1>2

\* A sequence and its tail end alike.
LEMMA LastOfTail ==
  ASSUME NEW S, NEW s \in Seq(S), s # <<>>, Tail(s) # <<>>
  PROVE  Tail(s)[Len(Tail(s))] = s[Len(s)]
<1>1. Len(s) \in Nat \ {0} /\ Len(Tail(s)) = Len(s) - 1
  OBVIOUS
<1>2. Tail(s) \in Seq(S) /\ Len(Tail(s)) # 0
  BY HeadTailProperties, EmptySeq
<1>3. \A i \in 1 .. Len(Tail(s)) : Tail(s)[i] = s[i + 1]
  BY <1>1
<1>4. Len(Tail(s)) \in 1 .. Len(Tail(s)) /\ Len(Tail(s)) + 1 = Len(s)
  <2>1. Len(Tail(s)) \in Nat
    BY <1>2
  <2>2. QED
    BY <1>1, <1>2, <2>1
<1>5. QED
  BY <1>3, <1>4

\* Sending a text leaves every viewer with it, or on the way to it.
LEMMA SendLemma ==
  ASSUME ClipboardTypeOK, NEW text \in MaybeText, SendServerCutText(text),
         UNCHANGED desktop
  PROVE  /\ cutText' \in [Viewers -> MaybeText]
         /\ toViewer' \in [Viewers -> Seq(MaybeText)]
         /\ stale' \in [Viewers -> BOOLEAN]
         /\ \A v \in connected : cutText'[v] = text
         /\ Delivered => Delivered'
<1> DEFINE news == {v \in connected : IsNews(v, text)}
<1>1. /\ connected' = connected /\ clip' = clip
      /\ connected \subseteq Viewers
      /\ cutText \in [Viewers -> MaybeText]
      /\ toViewer \in [Viewers -> Seq(MaybeText)]
      /\ stale \in [Viewers -> BOOLEAN]
  BY DEF ClipboardTypeOK, desktop
<1>2. /\ cutText' = [v \in Viewers |->
                       IF v \in news THEN text ELSE cutText[v]]
      /\ toViewer' = [v \in Viewers |-> IF v \in news
                        THEN Append(toViewer[v], text) ELSE toViewer[v]]
      /\ stale' = [v \in Viewers |-> stale[v] /\ v \notin news]
  BY DEF SendServerCutText
<1>3. \A v \in connected : cutText'[v] = text
  BY <1>1, <1>2 DEF IsNews
<1>4. cutText' \in [Viewers -> MaybeText]
  BY <1>1, <1>2
<1>5. toViewer' \in [Viewers -> Seq(MaybeText)]
  BY <1>1, <1>2
<1>6. stale' \in [Viewers -> BOOLEAN]
  BY <1>1, <1>2, Zenon
<1>7. ASSUME Delivered
      PROVE  Delivered'
  <2> SUFFICES ASSUME NEW v \in connected', ~stale'[v]
               PROVE  Arriving(v)' = cutText'[v]
    BY DEF Delivered
  <2>1. v \in Viewers /\ v \in connected
    BY <1>1
  <2>2. CASE v \in news
    <3>1. toViewer'[v] = Append(toViewer[v], text) /\ cutText'[v] = text
      BY <1>2, <2>1, <2>2
    <3>2. toViewer[v] \in Seq(MaybeText)
      BY <1>1, <2>1
    <3>3. /\ Append(toViewer[v], text) # <<>>
          /\ Append(toViewer[v], text)[Len(Append(toViewer[v], text))] = text
      BY <3>2
    <3>4. QED
      BY <3>1, <3>3 DEF Arriving
  <2>3. CASE v \notin news
    <3>1. toViewer'[v] = toViewer[v] /\ cutText'[v] = cutText[v]
      BY <1>2, <2>1, <2>3
    <3>2. stale'[v] = (stale[v] /\ v \notin news)
      BY <1>2, <2>1, Zenon
    <3>3. Arriving(v) = cutText[v]
      BY <1>7, <2>1, <2>3, <3>2 DEF Delivered
    <3>4. QED
      BY <1>1, <3>1, <3>3 DEF Arriving
  <2>4. QED
    BY <2>2, <2>3
<1>8. QED
  BY <1>3, <1>4, <1>5, <1>6, <1>7

\* Sending nothing changes nothing.
LEMMA NothingLemma ==
  ASSUME ClipboardTypeOK, SendNothing, UNCHANGED desktop
  PROVE  /\ cutText' \in [Viewers -> MaybeText]
         /\ toViewer' \in [Viewers -> Seq(MaybeText)]
         /\ stale' \in [Viewers -> BOOLEAN]
         /\ Delivered => Delivered'
BY DEF ClipboardTypeOK, SendNothing, desktop, Delivered, Arriving

\* A request goes to the owner and to nobody else.
LEMMA RequestLemma ==
  ASSUME NEW pending \in [Apps -> Seq(Target)], NEW target \in Target,
         requests' = SelectionRequest(target, pending)
  PROVE  /\ requests' \in [Apps -> Seq(Target)]
         /\ owner' \in Apps => requests'[owner'] # <<>>
<1>1. requests' = [a \in Apps |-> IF a = owner' THEN Append(pending[a], target)
                                  ELSE pending[a]]
  BY DEF SelectionRequest
<1>2. requests' \in [Apps -> Seq(Target)]
  BY <1>1
<1>3. ASSUME owner' \in Apps
      PROVE  requests'[owner'] # <<>>
  <2>1. pending[owner'] \in Seq(Target)
    BY <1>3
  <2>2. Append(pending[owner'], target) # <<>>
    BY <2>1
  <2>3. QED
    BY <1>1, <1>3, <2>2
<1>4. QED
  BY <1>2, <1>3

-----------------------------------------------------------------------------
(* The invariant.                                                           *)

LEMMA ClipInit == ClipboardInit => ClipInv
<1> SUFFICES ASSUME ClipboardInit
             PROVE  ClipInv
  OBVIOUS
<1>1. ClipboardTypeOK
  <2>1. /\ overtaken \in BOOLEAN
        /\ stale \in [Viewers -> BOOLEAN]
    BY Zenon DEF ClipboardInit
  <2>2. /\ toViewer \in [Viewers -> Seq(MaybeText)]
        /\ toServer \in [Viewers -> Seq(Texts)]
        /\ requests \in [Apps -> Seq(Target)]
    BY DEF ClipboardInit
  <2>3. latest \in [by: Apps \cup {Server, CutBuffer}, text: MaybeText]
    BY DEF ClipboardInit, MaybeText
  <2>4. QED
    BY <2>1, <2>2, <2>3 DEF ClipboardInit, ClipboardTypeOK, MaybeText, Target
<1>2. Delivered /\ LatestSent
  BY DEF ClipboardInit, Delivered, LatestSent
<1>3. LatestOwns
  BY ClipboardAssumption DEF ClipboardInit, LatestOwns
<1>4. QED
  BY <1>1, <1>2, <1>3 DEF ClipInv

LEMMA CopyKeeps ==
  ASSUME ClipInv, NEW a \in Apps, NEW text \in Texts, Copy(a, text)
  PROVE  ClipInv'
<1>1. /\ owner' = a /\ requests' = SelectionRequest("TARGETS", requests)
      /\ appText' = [appText EXCEPT ![a] = text]
      /\ latest' = [by |-> a, text |-> text]
      /\ UNCHANGED <<property, clientCutText, desktop, toServer, overtaken>>
      /\ SendNothing /\ ClipboardTypeOK /\ requests \in [Apps -> Seq(Target)]
  BY ClipboardAssumption DEF Copy, OwnSelection, SelectionCallback, ClipInv,
     ClipboardTypeOK, Target
<1>2. /\ requests' \in [Apps -> Seq(Target)]
      /\ requests'[a] # <<>>
  BY <1>1, RequestLemma DEF Target
<1>3. /\ cutText' \in [Viewers -> MaybeText]
      /\ toViewer' \in [Viewers -> Seq(MaybeText)]
      /\ stale' \in [Viewers -> BOOLEAN]
      /\ Delivered'
  BY <1>1, NothingLemma DEF ClipInv
<1>4. ClipboardTypeOK'
  BY <1>1, <1>2, <1>3 DEF ClipboardTypeOK, MaybeText, desktop, Target
<1>5. LatestOwns'
  BY <1>1 DEF LatestOwns, ClipboardTypeOK
<1>6. LatestSent'
  BY <1>1, <1>2 DEF LatestSent
<1>7. QED
  BY <1>3, <1>4, <1>5, <1>6 DEF ClipInv

LEMMA AnswerTargetsKeeps ==
  ASSUME ClipInv, NEW a \in Apps, AnswerTargets(a)
  PROVE  ClipInv'
<1> DEFINE rest == [requests EXCEPT ![a] = Tail(@)]
<1>1. /\ requests[a] # <<>> /\ requests' = SelectionRequest("TEXT", rest)
      /\ UNCHANGED <<owner, appText, property, clientCutText, desktop,
                     toServer, latest, overtaken>>
      /\ SendNothing /\ ClipboardTypeOK /\ requests \in [Apps -> Seq(Target)]
  BY DEF AnswerTargets, Asked, ClipInv, ClipboardTypeOK, Target
<1>2. rest \in [Apps -> Seq(Target)]
  BY <1>1
<1>3. /\ requests' \in [Apps -> Seq(Target)]
      /\ owner' \in Apps => requests'[owner'] # <<>>
  BY <1>1, <1>2, RequestLemma DEF Target
<1>4. /\ cutText' \in [Viewers -> MaybeText]
      /\ toViewer' \in [Viewers -> Seq(MaybeText)]
      /\ stale' \in [Viewers -> BOOLEAN]
      /\ Delivered'
  BY <1>1, NothingLemma DEF ClipInv
<1>5. ClipboardTypeOK'
  BY <1>1, <1>3, <1>4 DEF ClipboardTypeOK, MaybeText, desktop, Target
<1>6. LatestOwns'
  BY <1>1 DEF LatestOwns, ClipInv
<1>7. LatestSent'
  <2>1. CASE latest.by \in Apps
    <3>1. requests'[latest'.by] # <<>>
      BY <1>1, <1>3, <2>1 DEF ClipInv, LatestOwns
    <3>2. latest'.by \in Apps
      BY <1>1, <2>1
    <3>3. QED
      BY <3>1, <3>2 DEF LatestSent
  <2>2. CASE latest.by \notin Apps
    BY <1>1, <2>2 DEF ClipInv, LatestSent, SendNothing, desktop
  <2>3. QED
    BY <2>1, <2>2
<1>8. QED
  BY <1>4, <1>5, <1>6, <1>7 DEF ClipInv

LEMMA StoreTextKeeps ==
  ASSUME ClipInv, NEW a \in Apps, StoreText(a)
  PROVE  ClipInv'
<1>1. /\ requests[a] # <<>>
      /\ property' = appText[a]
      /\ requests' = [requests EXCEPT ![a] = <<"NOTIFY">> \o Tail(@)]
      /\ UNCHANGED <<owner, appText, clientCutText, desktop, toServer,
                     latest, overtaken>>
      /\ SendNothing /\ ClipboardTypeOK /\ requests \in [Apps -> Seq(Target)]
  BY DEF StoreText, Asked, ClipInv, ClipboardTypeOK, Target
<1>2. Tail(requests[a]) \in Seq(Target)
  BY <1>1
<1>3. /\ <<"NOTIFY">> \o Tail(requests[a]) \in Seq(Target)
      /\ <<"NOTIFY">> \o Tail(requests[a]) # <<>>
  BY <1>2 DEF Target
<1>4. /\ requests' \in [Apps -> Seq(Target)]
      /\ requests'[a] # <<>>
      /\ \A b \in Apps \ {a} : requests'[b] = requests[b]
  BY <1>1, <1>3
<1>5. /\ cutText' \in [Viewers -> MaybeText]
      /\ toViewer' \in [Viewers -> Seq(MaybeText)]
      /\ stale' \in [Viewers -> BOOLEAN]
      /\ Delivered'
  BY <1>1, NothingLemma DEF ClipInv
<1>6. property' \in MaybeText
  BY <1>1 DEF ClipboardTypeOK
<1>7. ClipboardTypeOK'
  BY <1>1, <1>4, <1>5, <1>6 DEF ClipboardTypeOK, desktop, Target
<1>8. LatestOwns'
  BY <1>1 DEF LatestOwns, ClipInv
<1>9. LatestSent'
  BY <1>1, <1>4 DEF ClipInv, LatestSent, SendNothing, desktop
<1>10. QED
  BY <1>5, <1>7, <1>8, <1>9 DEF ClipInv

LEMMA AnswerTextKeeps ==
  ASSUME ClipInv, NEW a \in Apps, AnswerText(a)
  PROVE  ClipInv'
<1>1. /\ requests[a] # <<>>
      /\ requests' = [requests EXCEPT ![a] = Tail(@)]
      /\ SendServerCutText(property)
      /\ overtaken' = (a # latest.by \/ property # appText[a])
      /\ UNCHANGED <<owner, appText, property, clientCutText, desktop,
                     toServer, latest>>
      /\ ClipboardTypeOK /\ requests \in [Apps -> Seq(Target)]
  BY DEF AnswerText, Asked, ClipInv, ClipboardTypeOK, Target
<1>2. Tail(requests[a]) \in Seq(Target)
  BY <1>1
<1>3. requests' \in [Apps -> Seq(Target)]
  BY <1>1, <1>2
<1>4. property \in MaybeText
  BY <1>1 DEF ClipboardTypeOK
<1>5. /\ cutText' \in [Viewers -> MaybeText]
      /\ toViewer' \in [Viewers -> Seq(MaybeText)]
      /\ stale' \in [Viewers -> BOOLEAN]
      /\ \A v \in connected : cutText'[v] = property
      /\ Delivered'
  BY <1>1, <1>4, SendLemma DEF ClipInv
<1>6. overtaken' \in BOOLEAN
  BY <1>1, Zenon
<1>7. ClipboardTypeOK'
  BY <1>1, <1>3, <1>5, <1>6 DEF ClipboardTypeOK, desktop, Target
<1>8. LatestOwns'
  BY <1>1 DEF LatestOwns, ClipInv
<1>9. LatestSent'
  <2>1. CASE overtaken'
    BY <2>1 DEF LatestSent
  <2>2. CASE ~overtaken'
    <3>1. a = latest.by /\ property = appText[a]
      BY <1>1, <2>2, Zenon
    <3>2. property = latest'.text
      BY <1>1, <3>1 DEF ClipInv, LatestOwns
    <3>3. QED
      BY <1>1, <1>5, <3>2 DEF LatestSent, desktop
  <2>3. QED
    BY <2>1, <2>2
<1>10. QED
  BY <1>5, <1>7, <1>8, <1>9 DEF ClipInv

LEMMA WriteCutBufferKeeps ==
  ASSUME ClipInv, NEW text \in Texts, WriteCutBuffer(text)
  PROVE  ClipInv'
<1>1. /\ SendServerCutText(text)
      /\ latest' = [by |-> CutBuffer, text |-> text]
      /\ overtaken' = FALSE
      /\ UNCHANGED <<selection, desktop, toServer>>
      /\ ClipboardTypeOK
  BY DEF WriteCutBuffer, GotXCutText, ClipInv
<1>2. text \in MaybeText
  BY DEF MaybeText
<1>3. /\ cutText' \in [Viewers -> MaybeText]
      /\ toViewer' \in [Viewers -> Seq(MaybeText)]
      /\ stale' \in [Viewers -> BOOLEAN]
      /\ \A v \in connected : cutText'[v] = text
      /\ Delivered'
  BY <1>1, <1>2, SendLemma DEF ClipInv
<1>4. ClipboardTypeOK'
  BY <1>1, <1>2, <1>3 DEF ClipboardTypeOK, desktop, selection
<1>5. LatestOwns'
  BY <1>1, ClipboardAssumption DEF LatestOwns
<1>6. LatestSent'
  BY <1>1, <1>3 DEF LatestSent, desktop
<1>7. QED
  BY <1>3, <1>4, <1>5, <1>6 DEF ClipInv

LEMMA ClientCutTextKeeps ==
  ASSUME ClipInv, NEW v \in Viewers, ClientCutText(v)
  PROVE  ClipInv'
<1> DEFINE text == Head(toServer[v])
<1>1. /\ toServer[v] # <<>>
      /\ toServer' = [toServer EXCEPT ![v] = Tail(@)]
      /\ clientCutText' = text /\ owner' = Server
      /\ latest' = [by |-> Server, text |-> text]
      /\ SendNothing
      /\ UNCHANGED <<appText, requests, property, desktop, overtaken>>
      /\ ClipboardTypeOK
  BY DEF ClientCutText, TakeClientText, SetXCutText, GotXCutText, OwnSelection,
     SelectionCallback, ClipInv
<1>2. toServer[v] \in Seq(Texts)
  BY <1>1 DEF ClipboardTypeOK
<1>3. text \in Texts /\ Tail(toServer[v]) \in Seq(Texts)
  BY <1>1, <1>2
<1>4. toServer' \in [Viewers -> Seq(Texts)]
  BY <1>1, <1>3 DEF ClipboardTypeOK
<1>5. /\ cutText' \in [Viewers -> MaybeText]
      /\ toViewer' \in [Viewers -> Seq(MaybeText)]
      /\ stale' \in [Viewers -> BOOLEAN]
      /\ Delivered'
  BY <1>1, NothingLemma DEF ClipInv
<1>6. ClipboardTypeOK'
  BY <1>1, <1>3, <1>4, <1>5 DEF ClipboardTypeOK, desktop, MaybeText
<1>7. LatestOwns' /\ LatestSent'
  BY <1>1, ClipboardAssumption DEF LatestOwns, LatestSent
<1>8. QED
  BY <1>5, <1>6, <1>7 DEF ClipInv

LEMMA JoinKeeps ==
  ASSUME ClipInv, NEW v \in Viewers, Join(v)
  PROVE  ClipInv'
<1>1. ClipboardTypeOK /\ Delivered /\ LatestOwns /\ LatestSent
  BY DEF ClipInv
<1>2. stale' \in [Viewers -> BOOLEAN]
  BY <1>1, Zenon DEF Join, ClipboardTypeOK
<1>3. ClipboardTypeOK'
  BY <1>1, <1>2 DEF Join, ClipboardTypeOK, selection, MaybeText
<1>4. stale'[v] /\ \A u \in Viewers \ {v} : stale'[u] = stale[u]
  BY <1>1, Zenon DEF Join, ClipboardTypeOK
<1>5. connected' \subseteq Viewers /\ connected' = connected \cup {v}
  BY <1>1 DEF Join, ClipboardTypeOK
<1>6. \A u \in connected' : ~stale'[u] =>
         u \in connected /\ ~stale[u] /\ cutText'[u] = cutText[u]
  BY <1>1, <1>4, <1>5 DEF Join, ClipboardTypeOK
<1>7. Delivered'
  BY <1>1, <1>6 DEF Join, Delivered, Arriving
<1>8. LatestOwns'
  BY <1>1 DEF Join, LatestOwns, selection
<1>9. LatestSent'
  BY <1>1, <1>6 DEF Join, LatestSent, selection
<1>10. QED
  BY <1>3, <1>7, <1>8, <1>9 DEF ClipInv

LEMMA LeaveKeeps ==
  ASSUME ClipInv, NEW v \in Viewers, Leave(v)
  PROVE  ClipInv'
<1>1. ClipboardTypeOK /\ Delivered /\ LatestOwns /\ LatestSent
  BY DEF ClipInv
<1>2. ClipboardTypeOK'
  BY <1>1 DEF Leave, ClipboardTypeOK, selection, MaybeText
<1>3. \A u \in connected' :
         /\ u \in connected /\ u \in Viewers \ {v}
         /\ cutText'[u] = cutText[u] /\ toViewer'[u] = toViewer[u]
  BY <1>1 DEF Leave, ClipboardTypeOK
<1>4. Delivered'
  BY <1>1, <1>3 DEF Leave, Delivered, Arriving
<1>5. LatestOwns'
  BY <1>1 DEF Leave, LatestOwns, selection
<1>6. LatestSent'
  BY <1>1, <1>3 DEF Leave, LatestSent, selection
<1>7. QED
  BY <1>2, <1>4, <1>5, <1>6 DEF ClipInv

LEMMA ServerCutTextKeeps ==
  ASSUME ClipInv, NEW v \in Viewers, ServerCutText(v)
  PROVE  ClipInv'
<1>1. ClipboardTypeOK /\ Delivered /\ LatestOwns /\ LatestSent
  BY DEF ClipInv
<1>2. toViewer[v] \in Seq(MaybeText) /\ toViewer[v] # <<>>
  BY <1>1 DEF ServerCutText, ClipboardTypeOK
<1>3. Head(toViewer[v]) \in MaybeText /\ Tail(toViewer[v]) \in Seq(MaybeText)
  BY <1>2
<1>4. /\ toViewer' = [toViewer EXCEPT ![v] = Tail(@)]
      /\ clip' = [clip EXCEPT ![v] = Head(toViewer[v])]
      /\ dialog' = [dialog EXCEPT ![v] = Head(toViewer[v])]
      /\ UNCHANGED <<selection, connected, cutText, toServer, latest,
                     overtaken, stale>>
  BY DEF ServerCutText
<1>5. ClipboardTypeOK'
  BY <1>1, <1>3, <1>4 DEF ClipboardTypeOK, selection
<1>6. Delivered'
  <2> SUFFICES ASSUME NEW u \in connected', ~stale'[u]
               PROVE  Arriving(u)' = cutText'[u]
    BY DEF Delivered
  <2>1. u \in Viewers /\ Arriving(u) = cutText[u]
    BY <1>1, <1>4 DEF Delivered, ClipboardTypeOK
  <2>2. CASE u # v
    BY <1>1, <1>4, <2>1, <2>2 DEF Arriving, ClipboardTypeOK
  <2>3. CASE u = v
    <3>1. toViewer'[u] = Tail(toViewer[u]) /\ clip'[u] = Head(toViewer[u])
      BY <1>1, <1>4, <2>1, <2>3 DEF ClipboardTypeOK
    <3>2. toViewer[u][Len(toViewer[u])] = cutText[u]
      BY <1>2, <2>1, <2>3 DEF Arriving
    <3>3. CASE Tail(toViewer[u]) = <<>>
      <4>1. Len(toViewer[u]) = 1
        BY <1>2, <2>3, <3>3, SingleElement
      <4>2. Head(toViewer[u]) = toViewer[u][1]
        BY <1>2, <2>3
      <4>3. QED
        BY <1>4, <3>1, <3>2, <3>3, <4>1, <4>2 DEF Arriving
    <3>4. CASE Tail(toViewer[u]) # <<>>
      <4>1. Tail(toViewer[u])[Len(Tail(toViewer[u]))]
              = toViewer[u][Len(toViewer[u])]
        BY <1>2, <2>3, <3>4, LastOfTail
      <4>2. QED
        BY <1>4, <3>1, <3>2, <3>4, <4>1 DEF Arriving
    <3>5. QED
      BY <3>3, <3>4
  <2>4. QED
    BY <2>2, <2>3
<1>7. LatestOwns'
  BY <1>1, <1>4 DEF LatestOwns, selection
<1>8. LatestSent'
  BY <1>1, <1>4 DEF LatestSent, selection
<1>9. QED
  BY <1>5, <1>6, <1>7, <1>8 DEF ClipInv

\* What the viewer does with its own clipboard concerns nobody.
LEMMA ViewerKeeps ==
  ASSUME ClipInv, NEW v \in Viewers,
         CheckClipboard(v) \/ \E text \in Texts : CopyOutside(v, text)
  PROVE  ClipInv'
<1>1. ClipboardTypeOK /\ Delivered /\ LatestOwns /\ LatestSent
  BY DEF ClipInv
<1>2. CASE CheckClipboard(v)
  <2>1. clip[v] \in Texts
    BY <1>1, <1>2 DEF CheckClipboard, ClipboardTypeOK, MaybeText
  <2>2. Append(toServer[v], clip[v]) \in Seq(Texts)
    BY <1>1, <2>1 DEF ClipboardTypeOK
  <2>3. ClipboardTypeOK'
    BY <1>1, <1>2, <2>1, <2>2
    DEF CheckClipboard, ClipboardTypeOK, selection, MaybeText
  <2>4. Delivered'
    BY <1>1, <1>2 DEF CheckClipboard, Delivered, Arriving
  <2>5. LatestOwns' /\ LatestSent'
    BY <1>1, <1>2 DEF CheckClipboard, LatestOwns, LatestSent, selection
  <2>6. QED
    BY <2>3, <2>4, <2>5 DEF ClipInv
<1>3. ASSUME NEW text \in Texts, CopyOutside(v, text)
      PROVE  ClipInv'
  <2>1. stale' \in [Viewers -> BOOLEAN]
    BY <1>1, <1>3, Zenon DEF CopyOutside, ClipboardTypeOK
  <2>2. ClipboardTypeOK'
    BY <1>1, <1>3, <2>1 DEF CopyOutside, ClipboardTypeOK, selection, MaybeText
  <2>3. stale'[v] /\ \A u \in Viewers \ {v} : stale'[u] = stale[u]
    BY <1>1, <1>3, Zenon DEF CopyOutside, ClipboardTypeOK
  <2>4. \A u \in connected : ~stale'[u] => ~stale[u] /\ clip'[u] = clip[u]
    BY <1>1, <1>3, <2>3 DEF CopyOutside, ClipboardTypeOK
  <2>5. Delivered'
    BY <1>1, <1>3, <2>4 DEF CopyOutside, Delivered, Arriving
  <2>6. LatestOwns' /\ LatestSent'
    BY <1>1, <1>3, <2>4 DEF CopyOutside, LatestOwns, LatestSent, selection
  <2>7. QED
    BY <2>2, <2>5, <2>6 DEF ClipInv
<1>4. QED
  BY <1>2, <1>3

LEMMA ClipNext == ClipInv /\ [ClipboardNext]_clipboardVars => ClipInv'
<1> SUFFICES ASSUME ClipInv, [ClipboardNext]_clipboardVars
             PROVE  ClipInv'
  OBVIOUS
<1>1. ASSUME NEW a \in Apps, NEW text \in Texts, Copy(a, text)
      PROVE  ClipInv'
  BY <1>1, CopyKeeps
<1>2. ASSUME NEW a \in Apps, AnswerTargets(a) \/ StoreText(a) \/ AnswerText(a)
      PROVE  ClipInv'
  BY <1>2, AnswerTargetsKeeps, StoreTextKeeps, AnswerTextKeeps
<1>3. ASSUME NEW text \in Texts, WriteCutBuffer(text)
      PROVE  ClipInv'
  BY <1>3, WriteCutBufferKeeps
<1>4. ASSUME NEW v \in Viewers,
             \/ Join(v) \/ Leave(v)
             \/ ClientCutText(v) \/ ServerCutText(v) \/ CheckClipboard(v)
             \/ \E text \in Texts : CopyOutside(v, text)
      PROVE  ClipInv'
  BY <1>4, JoinKeeps, LeaveKeeps, ClientCutTextKeeps, ServerCutTextKeeps,
     ViewerKeeps
<1>5. CASE UNCHANGED clipboardVars
  <2>1. UNCHANGED <<owner, appText, requests, property, clientCutText,
                    connected, clip, dialog, cutText, toViewer, toServer,
                    latest, overtaken, stale>>
    BY <1>5 DEF clipboardVars, selection, desktop
  <2>2. QED
    BY <2>1 DEF ClipInv, ClipboardTypeOK, Delivered, Arriving, LatestOwns, LatestSent
<1>6. QED
  BY <1>1, <1>2, <1>3, <1>4, <1>5 DEF ClipboardNext

-----------------------------------------------------------------------------
\* Every variable keeps its type.
THEOREM ClipboardTyped == ClipboardSpec => []ClipboardTypeOK
<1>1. ClipInv => ClipboardTypeOK
  BY DEF ClipInv
<1>2. QED
  BY <1>1, ClipInit, ClipNext, PTL DEF ClipboardSpec

\* Once all is answered and has arrived, a viewer has on its clipboard what
\* was copied last in the session (vncHandleSelection, rfbSendServerCutText),
\* whatever copies, answers and messages crossed.
THEOREM ClipboardFollows == ClipboardSpec => []ViewersFollowSession
<1>1. ClipInv => ViewersFollowSession
  <2> SUFFICES ASSUME ClipInv, Quiet, latest.by # Server, ~overtaken,
                      NEW v \in connected, ~stale[v]
               PROVE  clip[v] = latest.text
    BY DEF ViewersFollowSession
  <2>1. v \in Viewers
    BY DEF ClipInv, ClipboardTypeOK
  <2>2. toViewer[v] = <<>> /\ \A a \in Apps : requests[a] = <<>>
    BY <2>1 DEF Quiet
  <2>3. clip[v] = cutText[v]
    BY <2>2 DEF ClipInv, Delivered, Arriving
  <2>4. cutText[v] = latest.text
    BY <2>2 DEF ClipInv, LatestSent
  <2>5. QED
    BY <2>3, <2>4
<1>2. QED
  BY <1>1, ClipInit, ClipNext, PTL DEF ClipboardSpec

\* The text of a viewer is sent to no viewer: rfbGotXCutText recognises the
\* change of the cut buffer that rfbSetXCutText makes (cutpaste.c 125-139).
THEOREM ClipboardNoEcho == ClipboardSpec => NoEcho
<1>1. ASSUME [ClipboardNext]_clipboardVars, NEW v \in Viewers, clientCutText' # clientCutText
      PROVE  toViewer' = toViewer
  <2>1. \E u \in Viewers : ClientCutText(u)
    BY <1>1 DEF ClipboardNext, clipboardVars, selection, desktop, Copy, AnswerTargets, StoreText,
       AnswerText, WriteCutBuffer, Join, Leave, ServerCutText, CopyOutside,
       CheckClipboard
  <2>2. SendNothing
    BY <2>1 DEF ClientCutText, SetXCutText, GotXCutText
  <2>3. QED
    BY <2>2 DEF SendNothing
<1>2. [ClipboardNext]_clipboardVars =>
        [\A v \in Viewers :
           clientCutText' # clientCutText => toViewer' = toViewer]_clipboardVars
  BY <1>1
<1>3. QED
  BY <1>2, PTL DEF ClipboardSpec, NoEcho

-----------------------------------------------------------------------------
(* The size of the desktop: the records of the viewers.                     *)

Fields ==
  {"state", "ds", "eds", "pendingDS", "pendingEDS", "reason", "result",
   "modified", "width", "layout", "stale", "untold", "misfit"}

\* An announcement is pending that will tell the viewer the size, or say that
\* it could not be told.
Coming(c) ==
  \/ c.pendingEDS /\ c.eds /\ ~IsError(c)
  \/ c.pendingDS /\ c.ds
  \/ c.pendingEDS /\ c.stale /\ IsError(c)
  \/ c.pendingDS /\ ~c.eds /\ c.reason = "server"

SizeComes(c, size) ==
  c.state = "normal" => c.width = size \/ c.untold \/ Coming(c)

\* The layout is known, and what is pending will tell no other.
LayoutComes(c, size, layout) ==
  /\ c.state = "normal" /\ c.eds /\ c.layout # NoLayout /\ ~c.stale
  /\ ~c.pendingEDS \/ IsError(c)
  => c.width = size /\ c.layout = layout

Sane(c) ==
  /\ c = [f \in Fields |-> c[f]]
  /\ c.pendingDS \in BOOLEAN /\ c.pendingEDS \in BOOLEAN
  /\ c.stale \in BOOLEAN /\ c.untold \in BOOLEAN
  /\ c.pendingDS => c.pendingEDS
  /\ c.layout # NoLayout => c.eds /\ c.state = "normal"
  /\ ~c.misfit

Records == cl = [v \in Viewers |-> cl[v]] /\ \A v \in Viewers : Sane(cl[v])

Change ==
  /\ req = [f \in {"by", "width", "list", "used"} |-> req[f]]
  /\ blockUpdates \in BOOLEAN
  /\ blockUpdates <=> pc \in {"expose", "crop"}
  /\ pc = "disable" => req.by # NoViewer
  /\ pc # "idle" /\ req.by # NoViewer =>
       /\ req.by \in Viewers
       /\ \A v \in Viewers :
            cl[v].state = "absent" \/ cl[v].ds \/ cl[v].eds
       /\ cl[req.by].state = "absent" \/ cl[req.by].eds

SizesCome ==
  pc \notin {"expose", "crop", "announce"} =>
    \A v \in Viewers : SizeComes(cl[v], width)

LayoutsCome ==
  pc \in {"idle", "answer"} \/ (pc = "resize" /\ req.by = NoViewer) =>
    broken \/ \A v \in Viewers : LayoutComes(cl[v], width, Here)

DesktopInv == Records /\ Change /\ SizesCome /\ LayoutsCome

-----------------------------------------------------------------------------
LEMMA ToldLemma ==
  ASSUME NEW c, Sane(c), c.state = "normal", NEW size, NEW layout
  PROVE  LET t == Told(c, size, layout)
         IN  /\ Sane(t)
             /\ t.state = c.state /\ t.ds = c.ds /\ t.eds = c.eds
             /\ SizeComes(c, size) => t.width = size \/ t.untold
             /\ LayoutComes(c, size, layout) => LayoutComes(t, size, layout)
<1> DEFINE eds    == c.pendingEDS /\ c.eds /\ ~IsError(c)
           ds     == c.pendingDS /\ c.ds
           missed == \/ c.pendingEDS /\ c.stale /\ IsError(c)
                     \/ c.pendingDS /\ ~c.eds /\ c.reason = "server"
           no     == FALSE
           width1 == IF eds \/ ds THEN size ELSE c.width
           known  == IF eds THEN layout ELSE c.layout
           behind == c.stale /\ ~eds
           untold == ~eds /\ ~ds /\ (c.untold \/ (missed /\ c.width # size))
           t      == Told(c, size, layout)
<1>1. t = [c EXCEPT !.pendingDS = no, !.pendingEDS = no, !.width = width1,
                    !.layout = known, !.stale = behind, !.untold = untold]
  BY DEF Told
<1>2. /\ no \in BOOLEAN /\ ~no
      /\ behind \in BOOLEAN /\ untold \in BOOLEAN
      /\ behind = (c.stale /\ ~eds)
      /\ known # NoLayout => c.eds
      /\ SizeComes(c, size) => width1 = size \/ untold
      /\ LayoutComes(c, size, layout) /\ c.eds /\ known # NoLayout /\ ~behind
           => width1 = size /\ known = layout
  BY DEF Sane, SizeComes, LayoutComes, Coming
<1> HIDE DEF eds, ds, missed, no, width1, known, behind, untold, t
<1>3. /\ t = [f \in Fields |-> t[f]]
      /\ t.pendingDS = no /\ t.pendingEDS = no /\ t.width = width1
      /\ t.layout = known /\ t.stale = behind /\ t.untold = untold
      /\ t.state = c.state /\ t.ds = c.ds /\ t.eds = c.eds
      /\ t.misfit = c.misfit
  BY <1>1 DEF Sane, Fields
<1>4. Sane(t)
  BY <1>2, <1>3 DEF Sane
<1>. QED
  BY <1>2, <1>3, <1>4 DEF LayoutComes, t

\* The rectangles of an update whose viewer knows the size.
LEMMA PixelsLemma ==
  ASSUME NEW c, Sane(c), NEW size, c.width = size \/ c.untold
  PROVE  LET t == Pixels(c, size)
         IN  /\ Sane(t)
             /\ t.state = c.state /\ t.ds = c.ds /\ t.eds = c.eds
             /\ t.width = c.width /\ t.untold = c.untold
             /\ t.layout = c.layout /\ t.stale = c.stale
             /\ t.pendingEDS = c.pendingEDS
             /\ t.reason = c.reason /\ t.result = c.result
<1> DEFINE no     == FALSE
           misfit == c.misfit \/ (c.width # size /\ ~c.untold)
           sent   == [c EXCEPT !.modified = no, !.misfit = misfit]
           t      == Pixels(c, size)
<1>1. t = IF c.modified THEN sent ELSE c
  BY DEF Pixels
<1>2. ~misfit
  BY DEF Sane
<1> HIDE DEF no, misfit
<1>3. /\ sent = [f \in Fields |-> sent[f]]
      /\ sent.misfit = misfit
      /\ sent.state = c.state /\ sent.ds = c.ds /\ sent.eds = c.eds
      /\ sent.width = c.width /\ sent.untold = c.untold
      /\ sent.layout = c.layout /\ sent.stale = c.stale
      /\ sent.pendingEDS = c.pendingEDS /\ sent.pendingDS = c.pendingDS
      /\ sent.reason = c.reason /\ sent.result = c.result
  BY DEF Sane, Fields
<1> HIDE DEF sent
<1>4. Sane(sent)
  BY <1>2, <1>3 DEF Sane
<1> HIDE DEF t
<1>. QED
  BY <1>1, <1>3, <1>4 DEF t

LEMMA NoClientLemma ==
  /\ Sane(NoClient) /\ NoClient.state = "absent"
  /\ NoClient.layout = NoLayout
<1> DEFINE no == FALSE
           zero == 0
<1>1. no \in BOOLEAN /\ ~no
  OBVIOUS
<1>2. NoClient =
        [state |-> "absent", ds |-> no, eds |-> no,
         pendingDS |-> no, pendingEDS |-> no,
         reason |-> "server", result |-> "success", modified |-> no,
         width |-> zero, layout |-> NoLayout, stale |-> no, untold |-> no,
         misfit |-> no]
  BY DEF NoClient
<1> HIDE DEF no, zero
<1>3. /\ NoClient = [f \in Fields |-> NoClient[f]]
      /\ NoClient.pendingDS = no /\ NoClient.pendingEDS = no
      /\ NoClient.stale = no /\ NoClient.untold = no
      /\ NoClient.layout = NoLayout /\ NoClient.misfit = no
      /\ NoClient.state = "absent"
  BY <1>2 DEF Fields
<1>. QED
  BY <1>1, <1>3 DEF Sane

\* A viewer is sent pixels only of a size that it knows, and an attempt that
\* is withheld forgets nothing.
LEMMA AttemptedLemma ==
  ASSUME NEW c, Sane(c), NEW how, NEW size, NEW layout, NEW blocked, ~blocked,
         SizeComes(c, size)
  PROVE  LET t == SendFramebufferUpdate(c, how, size, layout, blocked)
         IN  /\ Sane(t) /\ SizeComes(t, size)
             /\ LayoutComes(c, size, layout) => LayoutComes(t, size, layout)
             /\ t.state = "absent" \/ (t.ds = c.ds /\ t.eds = c.eds)
             /\ c.state = "absent" => t.state = "absent"
<1> DEFINE t == SendFramebufferUpdate(c, how, size, layout, blocked)
           told == Told(c, size, layout)
<1>1. CASE c.state # "normal" \/ how = "held"
  <2>1. t = c
    BY <1>1 DEF SendFramebufferUpdate
  <2> HIDE DEF t
  <2>. QED
    BY <2>1 DEF t
<1>2. CASE ~(c.state # "normal" \/ how = "held") /\ how = "lost"
  <2>1. t = NoClient
    BY <1>2 DEF SendFramebufferUpdate
  <2> HIDE DEF t
  <2>2. t.state = "absent" /\ Sane(t)
    BY <2>1, NoClientLemma
  <2>. QED
    BY <1>2, <2>2 DEF t, SizeComes, LayoutComes
<1>3. CASE ~(c.state # "normal" \/ how = "held") /\ how # "lost"
  <2>1. t = Pixels(told, size)
    BY <1>3 DEF SendFramebufferUpdate
  <2>2. /\ Sane(told)
        /\ told.state = c.state /\ told.ds = c.ds /\ told.eds = c.eds
        /\ told.width = size \/ told.untold
        /\ LayoutComes(c, size, layout) => LayoutComes(told, size, layout)
    BY <1>3, ToldLemma
  <2> HIDE DEF t, told
  <2>3. /\ Sane(t)
        /\ t.state = told.state /\ t.ds = told.ds /\ t.eds = told.eds
        /\ t.width = told.width /\ t.untold = told.untold
        /\ t.layout = told.layout /\ t.stale = told.stale
        /\ t.pendingEDS = told.pendingEDS
        /\ t.reason = told.reason /\ t.result = told.result
    BY <2>1, <2>2, PixelsLemma
  <2>4. SizeComes(t, size)
    BY <2>2, <2>3 DEF SizeComes
  <2>5. LayoutComes(told, size, layout) => LayoutComes(t, size, layout)
    BY <2>3 DEF LayoutComes, IsError
  <2>. QED
    BY <1>3, <2>2, <2>3, <2>4, <2>5 DEF t
<1>. QED
  BY <1>1, <1>2, <1>3

\* More to draw, and perhaps an announcement to repeat.
LEMMA MarkedLemma ==
  ASSUME NEW c, Sane(c), NEW modified, NEW more \in BOOLEAN,
         NEW size, NEW layout
  PROVE  LET t == [c EXCEPT !.modified = modified,
                            !.pendingEDS = @ \/ more]
         IN  /\ Sane(t)
             /\ t.state = c.state /\ t.ds = c.ds /\ t.eds = c.eds
             /\ t.layout = c.layout
             /\ SizeComes(c, size) => SizeComes(t, size)
             /\ LayoutComes(c, size, layout) => LayoutComes(t, size, layout)
<1> DEFINE pending == c.pendingEDS \/ more
           t == [c EXCEPT !.modified = modified, !.pendingEDS = pending]
<1>1. pending \in BOOLEAN /\ (c.pendingEDS => pending)
  BY DEF Sane
<1> HIDE DEF pending
<1>2. /\ t = [f \in Fields |-> t[f]]
      /\ t.pendingEDS = pending /\ t.pendingDS = c.pendingDS
      /\ t.state = c.state /\ t.ds = c.ds /\ t.eds = c.eds
      /\ t.width = c.width /\ t.untold = c.untold /\ t.misfit = c.misfit
      /\ t.layout = c.layout /\ t.stale = c.stale
      /\ t.reason = c.reason /\ t.result = c.result
  BY DEF Sane, Fields
<1> HIDE DEF t
<1>3. Sane(t)
  BY <1>1, <1>2 DEF Sane
<1>4. SizeComes(c, size) => SizeComes(t, size)
  BY <1>1, <1>2 DEF SizeComes, Coming, IsError
<1>5. LayoutComes(c, size, layout) => LayoutComes(t, size, layout)
  BY <1>1, <1>2 DEF LayoutComes, IsError
<1>. QED
  BY <1>2, <1>3, <1>4, <1>5 DEF t, pending

\* Of that, what is said of the layout that the viewer knows.
LEMMA MarkedLayout ==
  ASSUME NEW c, Sane(c), NEW modified, NEW more \in BOOLEAN
  PROVE  LET t == [c EXCEPT !.modified = modified,
                            !.pendingEDS = @ \/ more]
         IN  Sane(t) /\ t.layout = c.layout
<1> DEFINE pending == c.pendingEDS \/ more
           t == [c EXCEPT !.modified = modified, !.pendingEDS = pending]
<1>1. pending \in BOOLEAN /\ (c.pendingEDS => pending)
  BY DEF Sane
<1> HIDE DEF pending
<1>2. /\ t = [f \in Fields |-> t[f]]
      /\ t.pendingEDS = pending /\ t.pendingDS = c.pendingDS
      /\ t.state = c.state /\ t.eds = c.eds /\ t.untold = c.untold
      /\ t.misfit = c.misfit /\ t.layout = c.layout /\ t.stale = c.stale
  BY DEF Sane, Fields
<1> HIDE DEF t
<1>3. Sane(t)
  BY <1>1, <1>2 DEF Sane
<1>. QED
  BY <1>2, <1>3 DEF t, pending

\* The client's record when an answer to a failed request is due.
Answering(c, size, layout) ==
  [c EXCEPT !.pendingEDS = TRUE, !.reason = "client", !.result = "error",
            !.stale = @ \/ (c.eds /\ (c.width # size \/ c.layout # layout))]

LEMMA AnsweringLemma ==
  ASSUME NEW c, Sane(c), c.eds, NEW size, NEW layout
  PROVE  LET t == Answering(c, size, layout)
         IN  /\ Sane(t)
             /\ t.state = c.state /\ t.ds = c.ds /\ t.eds = c.eds
             /\ t.layout = c.layout /\ IsError(t)
             /\ SizeComes(t, size) /\ LayoutComes(t, size, layout)
<1> DEFINE yes    == TRUE
           behind == c.stale \/ (c.eds /\ (c.width # size \/ c.layout # layout))
           t      == Answering(c, size, layout)
<1>1. t = [c EXCEPT !.pendingEDS = yes, !.reason = "client",
                    !.result = "error", !.stale = behind]
  BY DEF Answering
<1>2. /\ yes \in BOOLEAN /\ yes /\ behind \in BOOLEAN
      /\ ~behind => c.width = size /\ c.layout = layout
  BY DEF Sane
<1> HIDE DEF yes, behind, t
<1>3. /\ t = [f \in Fields |-> t[f]]
      /\ t.pendingEDS = yes /\ t.pendingDS = c.pendingDS
      /\ t.state = c.state /\ t.ds = c.ds /\ t.eds = c.eds
      /\ t.width = c.width /\ t.untold = c.untold /\ t.misfit = c.misfit
      /\ t.layout = c.layout /\ t.stale = behind
      /\ t.reason = "client" /\ t.result = "error"
  BY <1>1 DEF Sane, Fields
<1>4. Sane(t)
  BY <1>2, <1>3 DEF Sane
<1>5. SizeComes(t, size) /\ LayoutComes(t, size, layout)
  BY <1>2, <1>3 DEF SizeComes, LayoutComes, Coming, IsError
<1>. QED
  BY <1>3, <1>4, <1>5 DEF t, IsError

\* The client's record when an announcement of the size and layout is due.
Announcing(c, reason) ==
  [c EXCEPT !.pendingDS = TRUE, !.pendingEDS = TRUE,
            !.reason = reason, !.result = "success"]

LEMMA AnnouncingLemma ==
  ASSUME NEW c, Sane(c), NEW reason, NEW size, NEW layout,
         reason = "server" \/ c.ds \/ c.eds \/ c.state = "absent"
  PROVE  LET t == Announcing(c, reason)
         IN  /\ Sane(t)
             /\ t.state = c.state /\ t.ds = c.ds /\ t.eds = c.eds
             /\ t.layout = c.layout
             /\ SizeComes(t, size) /\ LayoutComes(t, size, layout)
<1> DEFINE yes == TRUE
           t   == Announcing(c, reason)
<1>1. t = [c EXCEPT !.pendingDS = yes, !.pendingEDS = yes,
                    !.reason = reason, !.result = "success"]
  BY DEF Announcing
<1>2. yes \in BOOLEAN /\ yes
  OBVIOUS
<1> HIDE DEF yes, t
<1>3. /\ t = [f \in Fields |-> t[f]]
      /\ t.pendingEDS = yes /\ t.pendingDS = yes
      /\ t.state = c.state /\ t.ds = c.ds /\ t.eds = c.eds
      /\ t.width = c.width /\ t.untold = c.untold /\ t.misfit = c.misfit
      /\ t.layout = c.layout /\ t.stale = c.stale
      /\ t.reason = reason /\ t.result = "success"
  BY <1>1 DEF Sane, Fields
<1>4. Sane(t)
  BY <1>2, <1>3 DEF Sane
<1>5. SizeComes(t, size) /\ LayoutComes(t, size, layout)
  BY <1>2, <1>3 DEF SizeComes, LayoutComes, Coming, IsError
<1>. QED
  BY <1>3, <1>4, <1>5 DEF t

-----------------------------------------------------------------------------
(* The steps while no change is being made.                                 *)

\* The claims about each viewer after a step.
Claimed ==
  /\ Records'
  /\ \A v \in Viewers :
       /\ SizeComes(cl'[v], width')
       /\ broken' \/ LayoutComes(cl'[v], width', Here')

LEMMA IdleClaims ==
  ASSUME DesktopInv, pc = "idle"
  PROVE  /\ \A v \in Viewers : /\ Sane(cl[v]) /\ SizeComes(cl[v], width)
                               /\ broken \/ LayoutComes(cl[v], width, Here)
         /\ ~blockUpdates /\ cl = [v \in Viewers |-> cl[v]]
BY DEF DesktopInv, Records, Change, SizesCome, LayoutsCome

LEMMA BecomesIdle ==
  ASSUME Claimed, pc' \in {"idle", "answer"},
         ~blockUpdates', blockUpdates' \in BOOLEAN,
         req' = [f \in {"by", "width", "list", "used"} |-> req'[f]],
         pc' = "idle" \/ Change'
  PROVE  DesktopInv'
<1>1. Records' /\ SizesCome' /\ LayoutsCome'
  BY DEF Claimed, SizesCome, LayoutsCome, SizeComes, LayoutComes, Coming,
         IsError
<1>2. Change'
  BY DEF Change
<1>. QED
  BY <1>1, <1>2 DEF DesktopInv

\* One viewer's record changes.
LEMMA OneViewer ==
  ASSUME DesktopInv, pc = "idle", UNCHANGED <<server, pc, req, broken>>,
         NEW w \in Viewers, NEW t, cl' = [cl EXCEPT ![w] = t],
         Sane(t), SizeComes(t, width),
         broken \/ LayoutComes(t, width, Here)
  PROVE  DesktopInv'
<1>1. /\ \A v \in Viewers : /\ Sane(cl[v]) /\ SizeComes(cl[v], width)
                            /\ broken \/ LayoutComes(cl[v], width, Here)
      /\ ~blockUpdates /\ cl = [v \in Viewers |-> cl[v]]
  BY IdleClaims
<1>2. /\ cl' = [v \in Viewers |-> cl'[v]]
      /\ \A v \in Viewers : cl'[v] = IF v = w THEN t ELSE cl[v]
  BY <1>1
<1>3. width' = width /\ Here' = Here /\ blockUpdates' = blockUpdates
      /\ pc' = pc /\ req' = req /\ broken' = broken
  BY DEF server, Here
<1>4. Claimed
  BY <1>1, <1>2, <1>3 DEF Claimed, Records, Sane
<1>5. blockUpdates \in BOOLEAN
      /\ req = [f \in {"by", "width", "list", "used"} |-> req[f]]
  BY DEF DesktopInv, Change
<1>. QED
  BY <1>1, <1>3, <1>4, <1>5, BecomesIdle

\* A viewer's record was sent an update, or tried to.
LEMMA AttemptLemma ==
  ASSUME DesktopInv, pc = "idle", NEW v \in Viewers, NEW c, NEW how,
         Attempt(v, c, how), Sane(c), SizeComes(c, width),
         broken \/ LayoutComes(c, width, Here)
  PROVE  DesktopInv'
<1> DEFINE t == SendFramebufferUpdate(c, how, width, Here, blockUpdates)
<1>1. UNCHANGED <<server, pc, req, broken>> /\ cl' = [cl EXCEPT ![v] = t]
  BY DEF Attempt, Send
<1>2. ~blockUpdates
  BY IdleClaims
<1>3. /\ Sane(t) /\ SizeComes(t, width)
      /\ LayoutComes(c, width, Here) => LayoutComes(t, width, Here)
  BY <1>2, AttemptedLemma
<1> HIDE DEF t
<1>. QED
  BY <1>1, <1>3, OneViewer

LEMMA ConnectKeeps ==
  ASSUME DesktopInv, pc = "idle", NEW v \in Viewers, Connect(v)
  PROVE  DesktopInv'
<1> DEFINE yes == TRUE
           t   == [NoClient EXCEPT !.state = "handshake", !.modified = yes]
<1>1. UNCHANGED <<server, pc, req, broken>> /\ cl' = [cl EXCEPT ![v] = t]
  BY DEF Connect
<1> HIDE DEF yes
<1>2. /\ t = [f \in Fields |-> t[f]] /\ t.state = "handshake"
      /\ t.pendingEDS = NoClient.pendingEDS /\ t.misfit = NoClient.misfit
      /\ t.pendingDS = NoClient.pendingDS /\ t.layout = NoClient.layout
      /\ t.stale = NoClient.stale /\ t.untold = NoClient.untold
  BY NoClientLemma DEF Sane, Fields
<1> HIDE DEF t
<1>3. Sane(t)
  BY <1>2, NoClientLemma DEF Sane
<1>4. SizeComes(t, width) /\ LayoutComes(t, width, Here)
  BY <1>2 DEF SizeComes, LayoutComes
<1>. QED
  BY <1>1, <1>3, <1>4, OneViewer

LEMMA ServerInitKeeps ==
  ASSUME DesktopInv, pc = "idle", NEW v \in Viewers, ServerInit(v)
  PROVE  DesktopInv'
<1> DEFINE c == cl[v]
           t == [c EXCEPT !.state = "normal", !.width = width]
<1>1. c.state = "handshake" /\ Sane(c) /\ cl = [w \in Viewers |-> cl[w]]
  BY IdleClaims DEF ServerInit
<1>2. /\ UNCHANGED <<server, pc, req, broken>>
      /\ cl' = [cl EXCEPT ![v].state = "normal", ![v].width = width]
  BY DEF ServerInit
<1>3. cl' = [cl EXCEPT ![v] = t]
  BY <1>1, <1>2
<1>4. /\ t = [f \in Fields |-> t[f]] /\ t.state = "normal" /\ t.width = width
      /\ t.pendingEDS = c.pendingEDS /\ t.misfit = c.misfit
      /\ t.pendingDS = c.pendingDS /\ t.layout = c.layout
      /\ t.stale = c.stale /\ t.untold = c.untold
  BY <1>1 DEF Sane, Fields
<1> HIDE DEF t, c
<1>5. Sane(t) /\ t.layout = NoLayout
  BY <1>1, <1>4 DEF Sane
<1>6. SizeComes(t, width) /\ LayoutComes(t, width, Here)
  BY <1>4, <1>5 DEF SizeComes, LayoutComes
<1>. QED
  BY <1>2, <1>3, <1>5, <1>6, OneViewer

LEMMA DisconnectKeeps ==
  ASSUME DesktopInv, pc = "idle", NEW v \in Viewers, Disconnect(v)
  PROVE  DesktopInv'
<1>1. SizeComes(NoClient, width) /\ LayoutComes(NoClient, width, Here)
  BY NoClientLemma DEF SizeComes, LayoutComes
<1>. QED
  BY <1>1, NoClientLemma, OneViewer DEF Disconnect

\* An extension that is announced while an announcement is pending is one by
\* which the viewer will be told.
LEMMA SetEncodingsKeeps ==
  ASSUME DesktopInv, pc = "idle", NEW v \in Viewers, NEW caps,
         SetEncodings(v, caps)
  PROVE  DesktopInv'
<1> DEFINE c   == cl[v]
           ds  == c.ds \/ "ds" \in caps
           eds == c.eds \/ "eds" \in caps
           t   == [c EXCEPT !.ds = ds, !.eds = eds]
<1>1. /\ c.state = "normal" /\ Sane(c) /\ cl = [w \in Viewers |-> cl[w]]
      /\ SizeComes(c, width)
      /\ broken \/ LayoutComes(c, width, Here)
  BY IdleClaims DEF SetEncodings
<1>2. /\ UNCHANGED <<server, pc, req, broken>>
      /\ cl' = [cl EXCEPT ![v].ds = @ \/ "ds" \in caps,
                          ![v].eds = @ \/ "eds" \in caps]
  BY DEF SetEncodings
<1>3. cl' = [cl EXCEPT ![v] = t]
  BY <1>1, <1>2
<1>4. (c.ds => ds) /\ (c.eds => eds)
  OBVIOUS
<1> HIDE DEF ds, eds
<1>5. /\ t = [f \in Fields |-> t[f]] /\ t.state = c.state
      /\ t.width = c.width /\ t.ds = ds /\ t.eds = eds
      /\ t.pendingEDS = c.pendingEDS /\ t.misfit = c.misfit
      /\ t.pendingDS = c.pendingDS /\ t.layout = c.layout
      /\ t.stale = c.stale /\ t.untold = c.untold
      /\ t.reason = c.reason /\ t.result = c.result
  BY <1>1 DEF Sane, Fields
<1> HIDE DEF t, c
<1>6. Sane(t)
  BY <1>1, <1>4, <1>5 DEF Sane
<1>7. SizeComes(t, width)
  BY <1>1, <1>4, <1>5 DEF SizeComes, Coming, IsError, Sane
<1>8. LayoutComes(c, width, Here) => LayoutComes(t, width, Here)
  BY <1>1, <1>4, <1>5 DEF LayoutComes, IsError, Sane
<1>. QED
  BY <1>1, <1>2, <1>3, <1>6, <1>7, <1>8, OneViewer

LEMMA UpdateRequestKeeps ==
  ASSUME DesktopInv, pc = "idle", NEW v \in Viewers,
         NEW incremental \in BOOLEAN, NEW how,
         UpdateRequest(v, incremental, how)
  PROVE  DesktopInv'
<1> DEFINE modified == cl[v].modified \/ ~incremental
           more == ~incremental
           c == [cl[v] EXCEPT !.modified = modified, !.pendingEDS = @ \/ more]
<1>1. Attempt(v, c, IF c.modified THEN how ELSE "held")
  BY DEF UpdateRequest
<1>2. /\ Sane(cl[v]) /\ SizeComes(cl[v], width)
      /\ broken \/ LayoutComes(cl[v], width, Here)
  BY IdleClaims
<1>3. more \in BOOLEAN
  OBVIOUS
<1> HIDE DEF modified, more
<1>4. /\ Sane(c) /\ SizeComes(c, width)
      /\ broken \/ LayoutComes(c, width, Here)
  BY <1>2, <1>3, MarkedLemma
<1>5. Attempt(v, c, IF c.modified THEN how ELSE "held")
  BY <1>1
<1> HIDE DEF c
<1>. QED
  BY <1>4, <1>5, AttemptLemma

LEMMA RetryKeeps ==
  ASSUME DesktopInv, pc = "idle", NEW v \in Viewers, NEW how, Retry(v, how)
  PROVE  DesktopInv'
BY IdleClaims, AttemptLemma DEF Retry

\* The answer to a request that failed, by a viewer that knows the layout.
LEMMA AnswerLemma ==
  ASSUME NEW v \in Viewers, NEW how, Answer(v, how),
         cl = [w \in Viewers |-> cl[w]],
         \A w \in Viewers : /\ Sane(cl[w]) /\ SizeComes(cl[w], width')
                            /\ broken' \/ LayoutComes(cl[w], width', Here'),
         ~blockUpdates', cl[v].state = "absent" \/ cl[v].eds
  PROVE  /\ Claimed
         /\ \A w \in Viewers :
              /\ cl'[w].state = "absent"
                   \/ (cl'[w].ds = cl[w].ds /\ cl'[w].eds = cl[w].eds)
              /\ cl[w].state = "absent" => cl'[w].state = "absent"
<1> DEFINE c == Answering(cl[v], width', Here')
           t == SendFramebufferUpdate(c, how, width', Here', blockUpdates')
<1>1. CASE cl[v].state = "absent"
  BY <1>1 DEF Answer, Claimed, Records, Sane
<1>2. CASE cl[v].state # "absent"
  <2>1. cl' = [cl EXCEPT ![v] = t]
    <3>1. c = [cl[v] EXCEPT !.pendingEDS = TRUE, !.reason = "client",
                 !.result = "error",
                 !.stale = @ \/ (cl[v].eds /\ (cl[v].width # width'
                                                \/ cl[v].layout # Here'))]
      BY DEF Answering
    <3>. QED
      BY <1>2, <3>1 DEF Answer
  <2>2. /\ Sane(c) /\ SizeComes(c, width') /\ LayoutComes(c, width', Here')
        /\ c.state = cl[v].state /\ c.ds = cl[v].ds /\ c.eds = cl[v].eds
    BY <1>2, AnsweringLemma
  <2> HIDE DEF c
  <2>3. /\ Sane(t) /\ SizeComes(t, width') /\ LayoutComes(t, width', Here')
        /\ t.state = "absent" \/ (t.ds = c.ds /\ t.eds = c.eds)
    BY <2>2, AttemptedLemma
  <2> HIDE DEF t
  <2>4. /\ cl' = [w \in Viewers |-> cl'[w]]
        /\ \A w \in Viewers : cl'[w] = IF w = v THEN t ELSE cl[w]
    BY <2>1
  <2>5. Claimed
    BY <2>3, <2>4 DEF Claimed, Records, Sane
  <2>. QED
    BY <1>2, <2>2, <2>3, <2>4, <2>5
<1>. QED
  BY <1>1, <1>2

LEMMA RefuseKeeps ==
  ASSUME DesktopInv, pc = "idle", NEW v \in Viewers, NEW how,
         RefuseRequest(v, how)
  PROVE  DesktopInv'
<1>1. /\ width' = width /\ Here' = Here /\ blockUpdates' = blockUpdates
      /\ pc' = pc /\ req' = req /\ broken' = broken
      /\ Answer(v, how)
  BY DEF RefuseRequest, server, Here
<1>2. /\ \A w \in Viewers : /\ Sane(cl[w]) /\ SizeComes(cl[w], width)
                            /\ broken \/ LayoutComes(cl[w], width, Here)
      /\ ~blockUpdates /\ cl = [w \in Viewers |-> cl[w]]
  BY IdleClaims
<1>3. cl[v].eds
  BY <1>2 DEF RefuseRequest, Knows, Sane
<1>4. Claimed
  BY <1>1, <1>2, <1>3, AnswerLemma
<1>5. blockUpdates \in BOOLEAN
      /\ req = [f \in {"by", "width", "list", "used"} |-> req[f]]
  BY DEF DesktopInv, Change
<1>. QED
  BY <1>1, <1>2, <1>4, <1>5, BecomesIdle

\* What is drawn is sent to those that it can be sent to.
LEMMA DrawKeeps ==
  ASSUME DesktopInv, pc = "idle", NEW how, Draw(how)
  PROVE  DesktopInv'
<1> DEFINE yes  == TRUE
           no   == FALSE
           c(v) == [cl[v] EXCEPT !.modified = yes, !.pendingEDS = @ \/ no]
           d(v) == [cl[v] EXCEPT !.modified = TRUE]
           t(v) == SendFramebufferUpdate(d(v), how[v], width, Here, blockUpdates)
<1>1. /\ width' = width /\ Here' = Here /\ blockUpdates' = blockUpdates
      /\ pc' = pc /\ req' = req /\ broken' = broken
      /\ cl' = [v \in Viewers |->
                  IF cl[v].state = "absent" THEN cl[v]
                  ELSE IF blockUpdates THEN d(v) ELSE t(v)]
  BY DEF Draw, Drawn, Send, server, Here
<1>2. /\ \A v \in Viewers : /\ Sane(cl[v]) /\ SizeComes(cl[v], width)
                            /\ broken \/ LayoutComes(cl[v], width, Here)
      /\ ~blockUpdates
  BY IdleClaims
<1>3. ASSUME NEW v \in Viewers
      PROVE  /\ Sane(t(v)) /\ SizeComes(t(v), width)
             /\ broken \/ LayoutComes(t(v), width, Here)
  <2>1. no \in BOOLEAN
    OBVIOUS
  <2>2. c(v) = d(v)
    <3>1. cl[v].pendingEDS = (cl[v].pendingEDS \/ no)
      BY <1>2 DEF Sane
    <3>2. d(v) = [cl[v] EXCEPT !.modified = yes, !.pendingEDS = cl[v].pendingEDS]
      BY <1>2 DEF Sane, Fields
    <3>. QED
      BY <3>1, <3>2
  <2> HIDE DEF yes, no
  <2>3. /\ Sane(c(v)) /\ SizeComes(c(v), width)
        /\ broken \/ LayoutComes(c(v), width, Here)
    BY <1>2, <2>1, MarkedLemma
  <2> HIDE DEF c, d
  <2>. QED
    BY <1>2, <2>2, <2>3, AttemptedLemma
<1> HIDE DEF t, d
<1>4. Claimed
  BY <1>1, <1>2, <1>3 DEF Claimed, Records, Sane
<1>5. blockUpdates \in BOOLEAN
      /\ req = [f \in {"by", "width", "list", "used"} |-> req[f]]
  BY DEF DesktopInv, Change
<1>. QED
  BY <1>1, <1>2, <1>4, <1>5, BecomesIdle

\* Every viewer is told, or will be.
LEMMA AnnounceAll ==
  ASSUME DesktopInv, NEW by, NEW reason, NEW how,
         SendDesktopSizeAll(by, reason, how), ~blockUpdates',
         \/ reason = "server"
         \/ \A v \in Viewers :
              cl[v].state = "absent" \/ cl[v].ds \/ cl[v].eds
  PROVE  /\ Records'
         /\ \A v \in Viewers :
              /\ SizeComes(cl'[v], width') /\ LayoutComes(cl'[v], width', Here')
              /\ cl'[v].state = "absent"
                   \/ (cl'[v].ds = cl[v].ds /\ cl'[v].eds = cl[v].eds)
              /\ cl[v].state = "absent" => cl'[v].state = "absent"
<1> DEFINE why(v) == IF v # by /\ reason = "client" THEN "other" ELSE reason
           c(v)   == Announcing(cl[v], why(v))
           t(v)   == SendFramebufferUpdate(c(v), how[v], width', Here',
                                           blockUpdates')
<1>1. cl' = [v \in Viewers |-> IF cl[v].state = "absent" THEN cl[v] ELSE t(v)]
  BY DEF SendDesktopSizeAll, Announcing, Here
<1>2. \A v \in Viewers : Sane(cl[v])
  BY DEF DesktopInv, Records
<1>3. ASSUME NEW v \in Viewers
      PROVE  /\ Sane(t(v)) /\ SizeComes(t(v), width')
             /\ LayoutComes(t(v), width', Here')
             /\ t(v).state = "absent"
                  \/ (t(v).ds = cl[v].ds /\ t(v).eds = cl[v].eds)
  <2>1. \/ why(v) = "server" \/ cl[v].ds \/ cl[v].eds
        \/ cl[v].state = "absent"
    OBVIOUS
  <2> HIDE DEF why
  <2>2. /\ Sane(c(v)) /\ SizeComes(c(v), width')
        /\ LayoutComes(c(v), width', Here')
        /\ c(v).ds = cl[v].ds /\ c(v).eds = cl[v].eds
    BY <1>2, <2>1, AnnouncingLemma
  <2> HIDE DEF c
  <2>. QED
    BY <2>2, AttemptedLemma
<1> HIDE DEF t
<1>4. ASSUME NEW v \in Viewers, cl[v].state = "absent"
      PROVE  SizeComes(cl[v], width') /\ LayoutComes(cl[v], width', Here')
  BY <1>4 DEF SizeComes, LayoutComes
<1>5. Records'
  BY <1>1, <1>2, <1>3 DEF Records, Sane
<1>. QED
  BY <1>1, <1>3, <1>4, <1>5

LEMMA CrtcSetKeeps ==
  ASSUME DesktopInv, pc = "idle", NEW o, NEW g, NEW how, CrtcSet(o, g, how)
  PROVE  DesktopInv'
<1>1. /\ blockUpdates' = blockUpdates
      /\ pc' = pc /\ req' = req /\ broken' = broken
      /\ SendDesktopSizeAll(NoViewer, "server", how)
  BY DEF CrtcSet
<1>2. ~blockUpdates
  BY IdleClaims
<1>3. Claimed
  BY <1>1, <1>2, AnnounceAll DEF Claimed
<1>4. blockUpdates \in BOOLEAN
      /\ req = [f \in {"by", "width", "list", "used"} |-> req[f]]
  BY DEF DesktopInv, Change
<1>. QED
  BY <1>1, <1>2, <1>3, <1>4, BecomesIdle

-----------------------------------------------------------------------------
(* The steps of a change.                                                   *)

LEMMA ScreenSizeSetKeeps ==
  ASSUME DesktopInv, pc = "idle", NEW w, ScreenSizeSet(w)
  PROVE  DesktopInv'
<1>1. /\ width' = width /\ Here' = Here /\ blockUpdates' = blockUpdates
      /\ cl' = cl /\ broken' = broken /\ pc' = "resize"
      /\ req' = [by |-> NoViewer, width |-> w, list |-> <<>>, used |-> {}]
  BY DEF ScreenSizeSet, NoRequest, server, Here
<1>2. /\ req' = [f \in {"by", "width", "list", "used"} |-> req'[f]]
      /\ req'.by = NoViewer
  BY <1>1
<1>. QED
  BY <1>1, <1>2
  DEF DesktopInv, Records, Change, SizesCome, LayoutsCome, SizeComes,
      LayoutComes

LEMMA SetDesktopSizeKeeps ==
  ASSUME DesktopInv, pc = "idle", NEW v \in Viewers, NEW w, NEW want,
         SetDesktopSize(v, w, want)
  PROVE  DesktopInv'
<1> DEFINE size    == Least(w, MaxWidth)
           clipped == ClipScreens(assignIDs(cl[v].layout, want), size)
           list    == Assigned(clipped)
           used    == Used(screens, clipped)
<1>1. /\ Knows(v) /\ Supported
      /\ Reconfigure(v, size, clipped) \/ ReconfigureFails(v, clipped)
  BY DEF SetDesktopSize
<1> HIDE DEF size, clipped
<1>2. /\ cl[v].eds
      /\ \A u \in Viewers : cl[u].state = "absent" \/ cl[u].ds \/ cl[u].eds
  BY <1>1 DEF Knows, Supported, Present, DesktopInv, Records, Sane
<1>3. CASE Reconfigure(v, size, clipped)
  <2>1. /\ width' = width /\ blockUpdates' = blockUpdates
        /\ cl' = cl /\ broken' = broken /\ pc' = "disable"
        /\ req' = [by |-> v, width |-> size, list |-> list, used |-> used]
    BY <1>3 DEF Reconfigure
  <2> HIDE DEF list, used
  <2>2. /\ req' = [f \in {"by", "width", "list", "used"} |-> req'[f]]
        /\ req'.by = v /\ v # NoViewer
    BY <2>1, NoViewerAssumption
  <2>3. Change'
    BY <1>2, <2>1, <2>2 DEF DesktopInv, Change
  <2> QED
    BY <2>1, <2>3 DEF DesktopInv, Records, SizesCome, LayoutsCome, SizeComes
<1>4. CASE ReconfigureFails(v, clipped)
  <2>1. /\ width' = width /\ blockUpdates' = blockUpdates
        /\ broken' = TRUE /\ pc' = "idle" /\ req' = req
    BY <1>4 DEF ReconfigureFails
  <2>2. PICK how : Answer(v, how)
    BY <1>4 DEF ReconfigureFails
  <2>3. /\ \A u \in Viewers : Sane(cl[u]) /\ SizeComes(cl[u], width)
        /\ cl = [u \in Viewers |-> cl[u]]
        /\ ~blockUpdates /\ blockUpdates \in BOOLEAN
        /\ req = [f \in {"by", "width", "list", "used"} |-> req[f]]
    BY DEF DesktopInv, Records, Change, SizesCome
  <2>4. Claimed
    BY <1>2, <2>1, <2>2, <2>3, AnswerLemma
  <2> QED
    BY <2>1, <2>3, <2>4, BecomesIdle
<1> QED
  BY <1>1, <1>3, <1>4

LEMMA DisableOutputKeeps ==
  ASSUME DesktopInv, NEW how, DisableOutput(how)
  PROVE  DesktopInv'
<1>1. /\ pc = "disable" /\ pc' = pc /\ blockUpdates' = blockUpdates
      /\ req' = req /\ broken' = broken
      /\ SendDesktopSizeAll(NoViewer, "server", how)
  BY DEF DisableOutput
<1>2. ~blockUpdates
  BY <1>1 DEF DesktopInv, Change
<1>3. /\ Records'
      /\ \A v \in Viewers :
           /\ SizeComes(cl'[v], width')
           /\ cl'[v].state = "absent"
                \/ (cl'[v].ds = cl[v].ds /\ cl'[v].eds = cl[v].eds)
           /\ cl[v].state = "absent" => cl'[v].state = "absent"
  BY <1>1, <1>2, AnnounceAll
<1>4. Change'
  BY <1>1, <1>3 DEF DesktopInv, Change
<1>. QED
  BY <1>1, <1>3, <1>4 DEF DesktopInv, SizesCome, LayoutsCome, SizeComes

LEMMA DisabledAllKeeps ==
  ASSUME DesktopInv, DisabledAll
  PROVE  DesktopInv'
<1> DEFINE list == [i \in DOMAIN req.list |->
                      IF i \in Unused THEN Dropped(req.list[i])
                      ELSE req.list[i]]
<1>1. /\ pc = "disable" /\ width' = width /\ blockUpdates' = blockUpdates
      /\ cl' = cl /\ broken' = broken /\ pc' \in {"announce", "resize"}
      /\ req' = [req EXCEPT !.list = list]
  BY DEF DisabledAll, server
<1> HIDE DEF list
<1>2. /\ req' = [f \in {"by", "width", "list", "used"} |-> req'[f]]
      /\ req'.by = req.by /\ req.by # NoViewer
  BY <1>1 DEF DesktopInv, Change
<1>3. Change'
  BY <1>1, <1>2 DEF DesktopInv, Change
<1>. QED
  BY <1>1, <1>2, <1>3
  DEF DesktopInv, Records, SizesCome, LayoutsCome, SizeComes

LEMMA ResizeKeeps ==
  ASSUME DesktopInv, Resize
  PROVE  DesktopInv'
<1>1. /\ pc = "resize" /\ pc' = "expose" /\ blockUpdates' = TRUE
      /\ cl' = cl /\ req' = req
  BY DEF Resize
<1>. QED
  BY <1>1 DEF DesktopInv, Records, Change, SizesCome, LayoutsCome

LEMMA NoRequestLemma ==
  ASSUME NEW by
  PROVE  LET r == [NoRequest EXCEPT !.by = by]
         IN  /\ r = [f \in {"by", "width", "list", "used"} |-> r[f]]
             /\ r.by = by
             /\ NoRequest = [f \in {"by", "width", "list", "used"} |->
                               NoRequest[f]]
BY DEF NoRequest

\* A change is given up: a viewer that asked for it is told so.
LEMMA GiveUpLemma ==
  ASSUME DesktopInv, NEW how, GiveUp(how), pc \in {"resize", "answer"},
         UNCHANGED server,
         \A v \in Viewers : broken' \/ LayoutComes(cl[v], width, Here)
  PROVE  DesktopInv'
<1>1. /\ width' = width /\ Here' = Here /\ blockUpdates' = blockUpdates
      /\ pc' = "idle" /\ req' = NoRequest
  BY DEF GiveUp, server, Here
<1>2. /\ \A v \in Viewers : Sane(cl[v]) /\ SizeComes(cl[v], width)
      /\ ~blockUpdates /\ blockUpdates \in BOOLEAN
      /\ cl = [v \in Viewers |-> cl[v]]
  BY DEF DesktopInv, Records, Change, SizesCome
<1>3. CASE req.by = NoViewer
  <2>1. cl' = cl
    BY <1>3 DEF GiveUp
  <2>2. Claimed
    BY <1>1, <1>2, <2>1 DEF Claimed, Records, SizeComes, LayoutComes
  <2>. QED
    BY <1>1, <1>2, <2>2, NoRequestLemma, BecomesIdle
<1>4. CASE req.by # NoViewer
  <2>1. Answer(req.by, how)
    BY <1>4 DEF GiveUp
  <2>2. req.by \in Viewers /\ (cl[req.by].state = "absent" \/ cl[req.by].eds)
    BY <1>4 DEF DesktopInv, Change
  <2>3. Claimed
    BY <1>1, <1>2, <2>1, <2>2, AnswerLemma
  <2>. QED
    BY <1>1, <1>2, <2>3, NoRequestLemma, BecomesIdle
<1>. QED
  BY <1>3, <1>4

LEMMA ResizeFailsKeeps ==
  ASSUME DesktopInv, NEW how, ResizeFails(how)
  PROVE  DesktopInv'
<1>1. /\ pc = "resize" /\ UNCHANGED server /\ GiveUp(how)
      /\ broken' = (broken \/ req.by # NoViewer)
  BY DEF ResizeFails
<1>2. CASE req.by = NoViewer
  BY <1>1, <1>2, GiveUpLemma DEF DesktopInv, LayoutsCome
<1>3. CASE req.by # NoViewer
  BY <1>1, <1>3, GiveUpLemma
<1>. QED
  BY <1>2, <1>3

LEMMA AnswerErrorKeeps ==
  ASSUME DesktopInv, NEW how, AnswerError(how)
  PROVE  DesktopInv'
<1>1. pc = "answer" /\ UNCHANGED server /\ GiveUp(how) /\ broken' = broken
  BY DEF AnswerError
<1>2. \A v \in Viewers : broken' \/ LayoutComes(cl[v], width, Here)
  BY <1>1 DEF DesktopInv, LayoutsCome
<1>. QED
  BY <1>1, <1>2, GiveUpLemma

\* What a viewer has still to be drawn does not change what it is told.
LEMMA DrawnLemma ==
  ASSUME NEW c, Sane(c), NEW modified
  PROVE  LET t == [c EXCEPT !.modified = modified]
         IN  /\ Sane(t)
             /\ t.state = c.state /\ t.ds = c.ds /\ t.eds = c.eds
             /\ t.layout = c.layout
<1> DEFINE t == [c EXCEPT !.modified = modified]
<1>1. /\ t = [f \in Fields |-> t[f]]
      /\ t.pendingEDS = c.pendingEDS /\ t.pendingDS = c.pendingDS
      /\ t.state = c.state /\ t.ds = c.ds /\ t.eds = c.eds
      /\ t.untold = c.untold /\ t.misfit = c.misfit
      /\ t.layout = c.layout /\ t.stale = c.stale
  BY DEF Sane, Fields
<1> HIDE DEF t
<1>2. Sane(t)
  BY <1>1 DEF Sane
<1>. QED
  BY <1>1, <1>2 DEF t

LEMMA ExposeKeeps ==
  ASSUME DesktopInv, NEW how, Expose(how)
  PROVE  DesktopInv'
<1> DEFINE yes  == TRUE
           d(v) == [cl[v] EXCEPT !.modified = yes]
<1>1. /\ pc = "expose" /\ pc' = "crop" /\ blockUpdates' = blockUpdates
      /\ req' = req /\ Drawn(how)
  BY DEF Expose, server
<1>2. blockUpdates /\ \A v \in Viewers : Sane(cl[v])
  BY <1>1 DEF DesktopInv, Change, Records
<1>3. cl' = [v \in Viewers |-> IF cl[v].state = "absent" THEN cl[v] ELSE d(v)]
  BY <1>1, <1>2 DEF Drawn
<1> HIDE DEF yes
<1>4. \A v \in Viewers :
        /\ Sane(d(v))
        /\ d(v).state = cl[v].state /\ d(v).ds = cl[v].ds /\ d(v).eds = cl[v].eds
  BY <1>2, DrawnLemma
<1> HIDE DEF d
<1>5. Records'
  BY <1>2, <1>3, <1>4 DEF Records, Sane
<1>6. Change'
  BY <1>1, <1>3, <1>4 DEF DesktopInv, Change
<1>. QED
  BY <1>1, <1>5, <1>6 DEF DesktopInv, SizesCome, LayoutsCome

\* The record of a viewer that a change left without its announcement.
LEMMA AbandonedLemma ==
  ASSUME NEW c, Sane(c), NEW size, NEW yes, yes = TRUE
  PROVE  LET u == [c EXCEPT !.untold = yes, !.stale = yes]
             a == [u EXCEPT !.pendingEDS = yes, !.reason = "client",
                            !.result = "error"]
         IN  /\ Sane(u) /\ SizeComes(u, size) /\ Sane(a) /\ SizeComes(a, size)
             /\ u.layout = c.layout /\ a.layout = c.layout /\ IsError(a)
<1> DEFINE u == [c EXCEPT !.untold = yes, !.stale = yes]
           a == [u EXCEPT !.pendingEDS = yes, !.reason = "client",
                          !.result = "error"]
<1>1. /\ u = [f \in Fields |-> u[f]]
      /\ u.pendingEDS = c.pendingEDS /\ u.pendingDS = c.pendingDS
      /\ u.state = c.state /\ u.ds = c.ds /\ u.eds = c.eds
      /\ u.untold = yes /\ u.misfit = c.misfit
      /\ u.layout = c.layout /\ u.stale = yes
  BY DEF Sane, Fields
<1> HIDE DEF u
<1>2. /\ a = [f \in Fields |-> a[f]]
      /\ a.pendingEDS = yes /\ a.pendingDS = c.pendingDS
      /\ a.state = c.state /\ a.ds = c.ds /\ a.eds = c.eds
      /\ a.untold = yes /\ a.misfit = c.misfit
      /\ a.layout = c.layout /\ a.stale = yes
      /\ a.reason = "client" /\ a.result = "error"
  BY <1>1 DEF Fields
<1> HIDE DEF a
<1>3. Sane(u) /\ SizeComes(u, size)
  BY <1>1 DEF Sane, SizeComes
<1>4. Sane(a) /\ SizeComes(a, size)
  BY <1>2 DEF Sane, SizeComes
<1>. QED
  BY <1>1, <1>2, <1>3, <1>4 DEF u, a, IsError

LEMMA CropKeeps ==
  ASSUME DesktopInv, NEW closed, NEW uncropped, NEW how,
         CropScreens(closed, uncropped, how)
  PROVE  DesktopInv'
<1> DEFINE yes  == TRUE
           d(v) == [cl[v] EXCEPT !.modified = yes]
           c(v) == IF v \in closed THEN NoClient
                   ELSE IF cl[v].state = "absent" THEN cl[v] ELSE d(v)
           u(v) == [c(v) EXCEPT !.untold = yes, !.stale = yes]
           a(v) == [u(v) EXCEPT !.pendingEDS = yes, !.reason = "client",
                                !.result = "error"]
           t(v) == SendFramebufferUpdate(a(v), how, width, Here', FALSE)
<1>1. /\ pc = "crop" /\ blockUpdates' = FALSE /\ width' = width
      /\ \A v \in Viewers : Sane(cl[v])
  BY DEF CropScreens, DesktopInv, Records
<1>2. yes = TRUE
  OBVIOUS
<1>3. CASE closed = {}
  <2> DEFINE list == UpdateLayout(req.list, crtc')
  <2>1. /\ cl' = [v \in Viewers |->
                    IF cl[v].state = "absent" THEN cl[v] ELSE d(v)]
        /\ req' = [req EXCEPT !.list = list] /\ pc' = "announce"
    BY <1>3 DEF CropScreens
  <2> HIDE DEF yes, list
  <2>2. \A v \in Viewers :
          /\ Sane(d(v))
          /\ d(v).state = cl[v].state /\ d(v).ds = cl[v].ds
          /\ d(v).eds = cl[v].eds
    BY <1>1, DrawnLemma
  <2> HIDE DEF d
  <2>3. Records'
    BY <1>1, <2>1, <2>2 DEF Records, Sane
  <2>4. /\ req' = [f \in {"by", "width", "list", "used"} |-> req'[f]]
        /\ req'.by = req.by
    BY <2>1 DEF DesktopInv, Change
  <2>5. Change'
    BY <1>1, <2>1, <2>2, <2>4 DEF DesktopInv, Change
  <2>. QED
    BY <2>1, <2>3, <2>5 DEF DesktopInv, SizesCome, LayoutsCome
<1>4. CASE closed # {}
  <2>1. /\ cl' = [v \in Viewers |->
                    IF c(v).state = "normal"
                      THEN IF v # req.by THEN u(v) ELSE t(v)
                      ELSE c(v)]
        /\ broken' = TRUE /\ pc' = "idle" /\ req' = NoRequest
    BY <1>4, ZenonT(60) DEF CropScreens
  <2> HIDE DEF yes
  <2>2. ASSUME NEW v \in Viewers
        PROVE  Sane(c(v))
    BY <1>1, DrawnLemma, NoClientLemma
  <2> HIDE DEF c
  <2>3. ASSUME NEW v \in Viewers
        PROVE  /\ Sane(u(v)) /\ SizeComes(u(v), width)
               /\ Sane(a(v)) /\ SizeComes(a(v), width)
    BY <1>2, <2>2, AbandonedLemma
  <2> HIDE DEF u, a
  <2>4. ASSUME NEW v \in Viewers
        PROVE  Sane(t(v)) /\ SizeComes(t(v), width)
    BY <2>3, AttemptedLemma
  <2> HIDE DEF t
  <2>5. ASSUME NEW v \in Viewers
        PROVE  Sane(cl'[v]) /\ SizeComes(cl'[v], width)
    BY <2>1, <2>2, <2>3, <2>4 DEF SizeComes
  <2>6. Claimed
    BY <1>1, <2>1, <2>5 DEF Claimed, Records
  <2>. QED
    BY <1>1, <2>1, <2>6, NoRequestLemma, BecomesIdle
<1>. QED
  BY <1>3, <1>4, ZenonT(60)

LEMMA AnnounceKeeps ==
  ASSUME DesktopInv, NEW how, Announce(how)
  PROVE  DesktopInv'
<1> DEFINE lost == \E v \in Viewers : cl[v].state = "normal" /\ how[v] = "lost"
           reason == IF req.by = NoViewer THEN "server" ELSE "client"
<1>1. /\ pc = "announce" /\ blockUpdates' = blockUpdates /\ width' = width
      /\ broken' = broken
      /\ SendDesktopSizeAll(req.by, reason, how)
      /\ pc' = IF lost /\ req.by # NoViewer THEN "answer" ELSE "idle"
      /\ req' = IF lost THEN [NoRequest EXCEPT !.by = req.by] ELSE NoRequest
  BY DEF Announce
<1> HIDE DEF lost
<1>2. ~blockUpdates /\ blockUpdates \in BOOLEAN
  BY <1>1 DEF DesktopInv, Change
<1>3. \/ reason = "server"
      \/ \A v \in Viewers : cl[v].state = "absent" \/ cl[v].ds \/ cl[v].eds
  BY <1>1 DEF DesktopInv, Change
<1> HIDE DEF reason
<1>4. /\ Records'
      /\ \A v \in Viewers :
           /\ SizeComes(cl'[v], width') /\ LayoutComes(cl'[v], width', Here')
           /\ cl'[v].state = "absent"
                \/ (cl'[v].ds = cl[v].ds /\ cl'[v].eds = cl[v].eds)
           /\ cl[v].state = "absent" => cl'[v].state = "absent"
  BY <1>1, <1>2, <1>3, AnnounceAll
<1>5. Claimed
  BY <1>4 DEF Claimed
<1>6. req' = [f \in {"by", "width", "list", "used"} |-> req'[f]]
  BY <1>1, NoRequestLemma
<1>7. CASE lost /\ req.by # NoViewer
  <2>1. pc' = "answer" /\ req'.by = req.by
    BY <1>1, <1>7, NoRequestLemma
  <2>2. Change'
    BY <1>1, <1>2, <1>4, <1>6, <1>7, <2>1 DEF DesktopInv, Change
  <2>. QED
    BY <1>1, <1>2, <1>5, <1>6, <2>1, <2>2, BecomesIdle
<1>8. CASE ~(lost /\ req.by # NoViewer)
  BY <1>1, <1>2, <1>5, <1>6, <1>8, BecomesIdle
<1>. QED
  BY <1>7, <1>8

-----------------------------------------------------------------------------

LEMMA DesktopStarts ==
  ASSUME DesktopInit
  PROVE  DesktopInv
<1>1. /\ pc = "idle" /\ req = NoRequest /\ blockUpdates = FALSE
      /\ cl = [v \in Viewers |-> NoClient]
  BY DEF DesktopInit
<1>2. \A v \in Viewers :
        Sane(cl[v]) /\ SizeComes(cl[v], width) /\ LayoutComes(cl[v], width, Here)
  BY <1>1, NoClientLemma DEF SizeComes, LayoutComes
<1>3. Records /\ SizesCome /\ LayoutsCome
  BY <1>1, <1>2 DEF Records, SizesCome, LayoutsCome
<1>4. Change
  BY <1>1, NoRequestLemma DEF Change
<1>. QED
  BY <1>3, <1>4 DEF DesktopInv

LEMMA DesktopSteps ==
  ASSUME DesktopInv, [DesktopNext]_desktopVars
  PROVE  DesktopInv'
<1>1. CASE pc = "idle" /\ ViewerStep
  BY <1>1, ConnectKeeps, ServerInitKeeps, DisconnectKeeps, SetEncodingsKeeps,
     SetDesktopSizeKeeps, UpdateRequestKeeps, RetryKeeps, RefuseKeeps
  DEF ViewerStep
<1>2. CASE pc = "idle" /\ XClientStep
  BY <1>2, DrawKeeps, CrtcSetKeeps, ScreenSizeSetKeeps DEF XClientStep
<1>3. CASE ResizeStep
  BY <1>3, DisabledAllKeeps, ResizeKeeps, ResizeFailsKeeps, AnswerErrorKeeps,
     DisableOutputKeeps, ExposeKeeps, AnnounceKeeps, CropKeeps
  DEF ResizeStep
<1>4. CASE UNCHANGED desktopVars
  BY <1>4
  DEF desktopVars, server, DesktopInv, Records, Change, SizesCome,
      LayoutsCome, SizeComes, LayoutComes, Here
<1>. QED
  BY <1>1, <1>2, <1>3, <1>4 DEF DesktopNext

LEMMA DesktopInvariance == DesktopSpec => []DesktopInv
<1>1. DesktopInit => DesktopInv
  BY DesktopStarts
<1>2. DesktopInv /\ [DesktopNext]_desktopVars => DesktopInv'
  BY DesktopSteps
<1>. QED
  BY <1>1, <1>2, PTL DEF DesktopSpec

\* However many viewers there are, none is sent pixels of a desktop of another
\* size than it was told of (blockUpdates in vncScreenSetSize, the order in
\* rfbSendFramebufferUpdate).
THEOREM PixelsFit == DesktopSpec => []UpdatesFit
<1>1. DesktopInv => UpdatesFit
  BY DEF DesktopInv, Records, Sane, UpdatesFit
<1>. QED
  BY <1>1, DesktopInvariance, PTL

\* However many viewers there are and however many changes they ask for, a
\* viewer for which nothing is pending knows the size and the layout that are
\* in force (rfbSendDesktopSizeAll, rfbSendExtDesktopSize).
THEOREM LayoutIsKnown == DesktopSpec => []LayoutKnown
<1>1. DesktopInv => LayoutKnown
  BY DEF DesktopInv, LayoutsCome, LayoutComes, LayoutKnown
<1>. QED
  BY <1>1, DesktopInvariance, PTL

-----------------------------------------------------------------------------
(* Lists, and the k-th number of a set.                                     *)

\* The numbers of a finite set are those that Nth enumerates, in order.
LEMMA NthLemma ==
  ASSUME NEW S, S \subseteq Int, IsFiniteSet(S)
  PROVE  /\ Cardinality(S) \in Nat
         /\ \A n \in S : Cardinality({m \in S : m <= n}) \in 1 .. Cardinality(S)
         /\ \A k \in 1 .. Cardinality(S) :
              Nth(S, k) \in S /\ Cardinality({m \in S : m <= Nth(S, k)}) = k
<1> DEFINE N       == Cardinality(S)
           upTo(n) == {m \in S : m <= n}
           rank    == [n \in S |-> Cardinality(upTo(n))]
<1>1. N \in Nat
  BY FS_CardinalityType
<1>2. ASSUME NEW n \in S
      PROVE  /\ IsFiniteSet(upTo(n)) /\ Cardinality(upTo(n)) \in 1 .. N
  <2>1. upTo(n) \in SUBSET S /\ n \in upTo(n)
    OBVIOUS
  <2> HIDE DEF upTo
  <2>2. IsFiniteSet(upTo(n)) /\ Cardinality(upTo(n)) <= N
    BY <2>1, FS_Subset
  <2>3. Cardinality(upTo(n)) \in Nat /\ Cardinality(upTo(n)) # 0
    BY <2>1, <2>2, FS_CardinalityType, FS_EmptySet
  <2> QED
    BY <1>1, <2>2, <2>3
<1>3. ASSUME NEW a \in S, NEW b \in S, a < b
      PROVE  Cardinality(upTo(a)) # Cardinality(upTo(b))
  <2>1. upTo(a) \subseteq upTo(b) /\ b \in upTo(b) /\ b \notin upTo(a)
    <3>1. \A m \in S : m \in Int
      OBVIOUS
    <3>2. \A m \in upTo(a) : m \in S /\ m <= b
      BY <1>3, <3>1
    <3>3. b <= b /\ ~(b <= a)
      BY <1>3, <3>1
    <3>4. upTo(a) \subseteq upTo(b)
      BY <3>2
    <3> QED
      BY <3>3, <3>4
  <2>2. IsFiniteSet(upTo(b))
    BY <1>2
  <2> HIDE DEF upTo
  <2>3. Cardinality(upTo(b)) = Cardinality(upTo(a)) => upTo(b) = upTo(a)
    BY <2>1, <2>2, FS_Subset
  <2> QED
    BY <2>1, <2>3
<1>4. rank \in [S -> 1 .. N] /\ \A n \in S : rank[n] = Cardinality(upTo(n))
  BY <1>2
<1>5. \A a, b \in S : rank[a] = rank[b] => a = b
  <2> TAKE a \in S, b \in S
  <2>1. a \in Int /\ b \in Int
    OBVIOUS
  <2>2. rank[a] = Cardinality(upTo(a)) /\ rank[b] = Cardinality(upTo(b))
    BY <1>4
  <2>3. /\ a < b => Cardinality(upTo(a)) # Cardinality(upTo(b))
        /\ b < a => Cardinality(upTo(b)) # Cardinality(upTo(a))
    BY <1>3
  <2> HIDE DEF rank, upTo
  <2> QED
    BY <2>1, <2>2, <2>3
<1> HIDE DEF rank
<1>6. rank \in Injection(S, 1 .. N)
  BY <1>4, <1>5, Fun_IsInj
<1>7. IsFiniteSet(1 .. N) /\ Cardinality(1 .. N) = N
  BY <1>1, FS_Interval
<1> HIDE DEF N
<1>8. rank \in Surjection(S, 1 .. N)
  BY <1>6, <1>7, FS_Injection DEF N
<1>9. ASSUME NEW k \in 1 .. N
      PROVE  Nth(S, k) \in S /\ Cardinality(upTo(Nth(S, k))) = k
  <2>1. \E n \in S : rank[n] = k
    BY <1>8 DEF Surjection
  <2>2. \E n \in S : Cardinality({m \in S : m <= n}) = k
    BY <1>4, <2>1
  <2> QED
    BY <2>2 DEF Nth
<1> QED
  BY <1>1, <1>2, <1>9 DEF N

\* The first of them is the least.
LEMMA LeastLemma ==
  ASSUME NEW S, S \subseteq Int, IsFiniteSet(S), S # {}
  PROVE  \E n \in S : \A m \in S : n <= m
<1> DEFINE n == Nth(S, 1)
<1>1. Cardinality(S) \in Nat /\ Cardinality(S) # 0
  BY FS_CardinalityType, FS_EmptySet
<1>2. n \in S /\ Cardinality({m \in S : m <= n}) = 1
  <2>1. 1 \in 1 .. Cardinality(S)
    BY <1>1
  <2> QED
    BY <2>1, NthLemma
<1> HIDE DEF n
<1>3. ASSUME NEW m \in S, ~(n <= m)
      PROVE  FALSE
  <2>1. n \in Int /\ m \in Int /\ m <= n /\ n <= n /\ m # n
    BY <1>2, <1>3
  <2>2. {k \in S : k <= n} \in SUBSET S
    OBVIOUS
  <2>3. IsFiniteSet({k \in S : k <= n})
    BY <2>2, FS_Subset
  <2>4. \E x : {k \in S : k <= n} = {x}
    BY <1>2, <2>3, FS_Singleton
  <2> QED
    BY <1>2, <2>1, <2>4
<1> QED
  BY <1>2, <1>3

\* A function on 1 .. n is a sequence of length n.
LEMMA LengthLemma ==
  ASSUME NEW f, NEW n \in Nat, f = [i \in 1 .. n |-> f[i]]
  PROVE  Len(f) = n /\ DOMAIN f = 1 .. n
<1> DEFINE S == {f[i] : i \in 1 .. n}
<1>1. f \in [1 .. n -> S]
  OBVIOUS
<1>2. f \in Seq(S)
  BY <1>1, SeqDef
<1>3. Len(f) \in Nat /\ DOMAIN f = 1 .. Len(f) /\ DOMAIN f = 1 .. n
  BY <1>1, <1>2, LenProperties
<1> QED
  BY <1>3

LEMMA PlacesFinite ==
  ASSUME NEW n \in Nat, NEW S \in SUBSET (1 .. n)
  PROVE  IsFiniteSet(S) /\ S \subseteq Int
<1>1. IsFiniteSet(1 .. n)
  BY FS_Interval
<1>2. IsFiniteSet(S)
  BY <1>1, FS_Subset
<1> QED
  BY <1>2

\* What is picked from a list is in it.
LEMMA ThoseLemma ==
  ASSUME NEW list, NEW n \in Nat, NEW S \in SUBSET (1 .. n)
  PROVE  LET t == Those(list, S)
         IN  /\ Len(t) \in Nat /\ Len(t) = Cardinality(S)
             /\ t = [k \in 1 .. Len(t) |-> t[k]] /\ DOMAIN t = 1 .. Len(t)
             /\ \A k \in 1 .. Len(t) : \E i \in S : t[k] = list[i]
<1> DEFINE N == Cardinality(S)
           t == Those(list, S)
<1>1. IsFiniteSet(S) /\ S \subseteq Int
  BY PlacesFinite
<1>2. N \in Nat /\ \A k \in 1 .. N : Nth(S, k) \in S
  BY <1>1, NthLemma
<1>3. t = [k \in 1 .. N |-> list[Nth(S, k)]]
  BY DEF Those
<1> HIDE DEF t, N
<1>4. t = [k \in 1 .. N |-> t[k]] /\ \A k \in 1 .. N : t[k] = list[Nth(S, k)]
  BY <1>3
<1>5. Len(t) = N /\ DOMAIN t = 1 .. N
  BY <1>2, <1>4, LengthLemma
<1> QED
  BY <1>2, <1>4, <1>5 DEF t, N

\* The place of a screen that is found by its identifier.
LEMMA FoundLemma ==
  ASSUME NEW list, NEW id, Len(list) \in Nat, DOMAIN list = 1 .. Len(list),
         HasID(list, id)
  PROVE  FindScreenID(list, id) \in 1 .. Len(list)
<1> DEFINE S == {i \in DOMAIN list : list[i].id = id}
<1>1. S # {} /\ S \in SUBSET (1 .. Len(list)) /\ S \subseteq Int
  BY DEF HasID
<1>2. IsFiniteSet(S)
  BY <1>1, PlacesFinite
<1> HIDE DEF S
<1>3. \E n \in S : \A m \in S : n <= m
  BY <1>1, <1>2, LeastLemma
<1>4. \E i \in DOMAIN list :
        list[i].id = id /\ \A j \in DOMAIN list : list[j].id = id => i <= j
  BY <1>3 DEF S
<1> QED
  BY <1>4 DEF FindScreenID

\* Every screen asked for has a place, and the places added are all taken.
LEMMA PlaceLemma ==
  ASSUME NEW list, NEW want,
         Len(list) \in Nat, DOMAIN list = 1 .. Len(list),
         Len(want) \in Nat, DOMAIN want = 1 .. Len(want)
  PROVE  /\ Total(list, want) \in Nat /\ Len(list) <= Total(list, want)
         /\ \A k \in DOMAIN want : Place(list, want, k) \in 1 .. Total(list, want)
         /\ \A i \in Len(list) + 1 .. Total(list, want) :
              \E k \in DOMAIN want : Place(list, want, k) = i
<1> DEFINE new   == Unmatched(list, want)
           left  == Left(list, want)
           rank(k) == Cardinality({j \in new : j <= k})
           total == Total(list, want)
           N == Cardinality(new)
           L == Cardinality(left)
<1>1. /\ new \in SUBSET (1 .. Len(want)) /\ left \in SUBSET (1 .. Len(list))
      /\ new \subseteq Int /\ left \subseteq Int
  BY DEF Unmatched, Left
<1>2. IsFiniteSet(new) /\ IsFiniteSet(left)
  BY <1>1, PlacesFinite
<1>3. \A k \in DOMAIN want : k \in new <=> ~HasID(list, want[k].id)
  BY DEF Unmatched
<1> HIDE DEF new, left
<1>4. /\ N \in Nat /\ L \in Nat
      /\ \A k \in new : rank(k) \in 1 .. N
      /\ \A r \in 1 .. N : \E k \in new : rank(k) = r
      /\ \A r \in 1 .. L : Nth(left, r) \in left
  BY <1>1, <1>2, NthLemma, ZenonT(60)
<1>5. ASSUME NEW k \in DOMAIN want
      PROVE  Place(list, want, k) =
               IF k \notin new THEN FindScreenID(list, want[k].id)
               ELSE IF rank(k) <= L THEN Nth(left, rank(k))
               ELSE Len(list) + rank(k) - L
  BY <1>3 DEF Place, new, left
<1>6. /\ N > L => total = Len(list) + N - L
      /\ ~(N > L) => total = Len(list)
      /\ N \in Nat /\ L \in Nat
  <2>1. N \in Nat /\ L \in Nat
    BY <1>4
  <2>2. /\ N - L > 0 => total = Len(list) + (N - L)
        /\ ~(N - L > 0) => total = Len(list) + 0
    BY Zenon DEF Total, new, left
  <2> HIDE DEF total, N, L
  <2> QED
    BY <2>1, <2>2
<1> HIDE DEF rank, N, L, total
<1>7. total \in Nat /\ Len(list) <= total
  BY <1>6
<1>8. ASSUME NEW k \in DOMAIN want
      PROVE  Place(list, want, k) \in 1 .. total
  <2>1. CASE k \notin new
    <3>1. FindScreenID(list, want[k].id) \in 1 .. Len(list)
      BY <1>3, <2>1, FoundLemma
    <3> QED
      BY <1>5, <1>7, <2>1, <3>1
  <2>2. CASE k \in new /\ rank(k) <= L
    <3>1. rank(k) \in 1 .. L
      BY <1>4, <2>2
    <3>2. Nth(left, rank(k)) \in 1 .. Len(list)
      BY <1>1, <1>4, <3>1
    <3> QED
      BY <1>5, <1>7, <2>2, <3>2
  <2>3. CASE k \in new /\ ~(rank(k) <= L)
    <3>1. rank(k) \in 1 .. N
      BY <1>4, <2>3
    <3>2. Place(list, want, k) = Len(list) + rank(k) - L
      BY <1>5, <2>3
    <3> QED
      BY <1>6, <2>3, <3>1, <3>2
  <2> QED
    BY <2>1, <2>2, <2>3
<1>9. ASSUME NEW i \in Len(list) + 1 .. total
      PROVE  \E k \in DOMAIN want : Place(list, want, k) = i
  <2>1. N > L /\ i - Len(list) + L \in 1 .. N /\ i - Len(list) + L > L
    BY <1>6
  <2>2. PICK k \in new : rank(k) = i - Len(list) + L
    BY <1>4, <2>1
  <2>3. k \in DOMAIN want
    BY <1>1
  <2>4. ~(rank(k) <= L)
    BY <1>6, <2>1, <2>2
  <2>5. Place(list, want, k) = Len(list) + rank(k) - L
    BY <1>5, <2>3, <2>4
  <2>6. Len(list) + rank(k) - L = i
    BY <1>6, <2>2
  <2> QED
    BY <2>3, <2>5, <2>6
<1> QED
  BY <1>7, <1>8, <1>9 DEF total

-----------------------------------------------------------------------------
(* The lists of screens that the operators of the model make.               *)

\* What an output or a screen shows lies on a desktop of this size.
Within(g, size) == g.w > 0 /\ g.x + g.w <= size

ScreenFields == {"out", "id", "assigned", "x", "w"}

\* A list of screens whose outputs exist.
Entries(list, outs) ==
  /\ Len(list) \in Nat /\ list = [i \in 1 .. Len(list) |-> list[i]]
  /\ \A i \in 1 .. Len(list) :
       /\ list[i] = [f \in ScreenFields |-> list[i][f]]
       /\ list[i].out \in outs

OutputsWithin(crtcs, size) ==
  \A o \in DOMAIN crtcs : Active(crtcs[o]) => Within(crtcs[o], size)

ScreensWithin(list, crtcs, size) ==
  \A i \in DOMAIN list : Active(crtcs[list[i].out]) => Within(list[i], size)

\* Screens that can be asked for.
Wanted(want, size) ==
  /\ Len(want) \in Nat /\ DOMAIN want = 1 .. Len(want)
  /\ \A k \in DOMAIN want :
       want[k].x \in Int /\ want[k].w \in Nat \ {0} /\ Within(want[k], size)

\* What is left of the screens asked for lies on the desktop (rfbClipScreens).
LEMMA ClippedLemma ==
  ASSUME NEW known, NEW want \in Seq(Geometry), NEW size \in Nat \ {0}
  PROVE  Wanted(ClipScreens(assignIDs(known, want), size), size)
<1> DEFINE n      == Len(want)
           a      == assignIDs(known, want)
           S      == {k \in DOMAIN a : a[k].x < size}
           inside == Those(a, S)
           c      == ClipScreens(a, size)
<1>1. n \in Nat /\ DOMAIN want = 1 .. n /\ \A k \in 1 .. n : want[k] \in Geometry
  BY LenProperties
<1>2. /\ DOMAIN a = 1 .. n
      /\ \A k \in 1 .. n : \E id : a[k] = [id |-> id, x |-> want[k].x, w |-> want[k].w]
  BY <1>1 DEF assignIDs
<1> HIDE DEF a
<1>3. S \in SUBSET (1 .. n)
  BY <1>2
<1> HIDE DEF S, n
<1>4. /\ Len(inside) \in Nat /\ DOMAIN inside = 1 .. Len(inside)
      /\ \A i \in 1 .. Len(inside) : \E k \in S : inside[i] = a[k]
  <2>1. n \in Nat
    BY <1>1
  <2>2. /\ Len(Those(a, S)) \in Nat
        /\ DOMAIN Those(a, S) = 1 .. Len(Those(a, S))
        /\ \A k \in 1 .. Len(Those(a, S)) : \E i \in S : Those(a, S)[k] = a[i]
    BY <1>3, <2>1, ThoseLemma, ZenonT(60)
  <2> QED
    BY <2>2
<1>5. c = [i \in DOMAIN inside |->
             [inside[i] EXCEPT !.w = Least(inside[i].w, size - inside[i].x)]]
  BY DEF ClipScreens, S
<1> HIDE DEF inside, c
<1>6. /\ c = [i \in 1 .. Len(inside) |-> c[i]]
      /\ \A i \in 1 .. Len(inside) :
           c[i] = [inside[i] EXCEPT !.w = Least(inside[i].w, size - inside[i].x)]
  BY <1>4, <1>5
<1>7. Len(c) = Len(inside) /\ DOMAIN c = 1 .. Len(inside)
  BY <1>4, <1>6, LengthLemma
<1>8. ASSUME NEW i \in 1 .. Len(inside)
      PROVE  c[i].x \in Int /\ c[i].w \in Nat \ {0} /\ Within(c[i], size)
  <2>1. PICK k \in S : inside[i] = a[k]
    BY <1>4
  <2>2. k \in 1 .. n /\ a[k].x < size
    BY <1>3 DEF S
  <2>3. PICK id : a[k] = [id |-> id, x |-> want[k].x, w |-> want[k].w]
    BY <1>2, <2>2
  <2>4. want[k].x \in Int /\ want[k].w \in Nat \ {0}
    BY <1>1, <2>2 DEF Geometry
  <2>5. c[i] = [id |-> id, x |-> want[k].x,
                w |-> Least(want[k].w, size - want[k].x)]
    BY <1>6, <2>1, <2>3
  <2>6. want[k].x < size
    BY <2>2, <2>3
  <2> DEFINE l == Least(want[k].w, size - want[k].x)
  <2>7. l \in Nat \ {0} /\ want[k].x + l <= size
    BY <2>4, <2>6, SMTT(40) DEF Least
  <2> HIDE DEF l
  <2>8. c[i].x = want[k].x /\ c[i].w = l
    BY <2>5 DEF l
  <2> QED
    BY <2>4, <2>7, <2>8 DEF Within
<1> QED
  <2>1. Wanted(c, size)
    BY <1>4, <1>7, <1>8 DEF Wanted
  <2> QED
    BY <2>1 DEF c, a

\* What outputs show of which some are set and some are new
\* (vncReconfigureOutput, vncCreateOutput).
LEMMA ConfiguredLemma ==
  ASSUME crtc \in Seq(Geometry \cup {Off}), NEW list, NEW set, NEW new \in Nat,
         \A i \in set : list[i].x \in Int /\ list[i].w \in Nat \ {0}
  PROVE  LET crtcs == Configured(list, set, new)
         IN  /\ crtcs \in Seq(Geometry \cup {Off})
             /\ DOMAIN crtcs = 1 .. Len(crtc) + new
             /\ \A o \in DOMAIN crtcs :
                  \/ crtcs[o] = Off
                  \/ o \in DOMAIN crtc /\ crtcs[o] = crtc[o]
                  \/ \E i \in set : /\ crtcs[o].x = list[i].x
                                    /\ crtcs[o].w = list[i].w
<1> DEFINE crtcs == Configured(list, set, new)
           M     == Len(crtc) + new
<1>1. /\ Len(crtc) \in Nat /\ M \in Nat
      /\ \A o \in DOMAIN crtc : crtc[o] \in Geometry \cup {Off}
  BY LenProperties
<1>2. crtcs = [o \in 1 .. M |->
                 IF \E i \in set : list[i].out = o
                 THEN LET i == CHOOSE i \in set : list[i].out = o
                      IN  [x |-> list[i].x, w |-> list[i].w]
                 ELSE IF o \in DOMAIN crtc THEN crtc[o] ELSE Off]
  BY DEF Configured
<1> HIDE DEF crtcs, M
<1>3. ASSUME NEW o \in 1 .. M
      PROVE  /\ crtcs[o] \in Geometry \cup {Off}
             /\ \/ crtcs[o] = Off
                \/ o \in DOMAIN crtc /\ crtcs[o] = crtc[o]
                \/ \E i \in set : /\ crtcs[o].x = list[i].x
                                  /\ crtcs[o].w = list[i].w
  <2>1. CASE \E i \in set : list[i].out = o
    <3>1. PICK i \in set : crtcs[o] = [x |-> list[i].x, w |-> list[i].w]
      BY <1>2, <2>1
    <3>2. crtcs[o] \in Geometry /\ crtcs[o].x = list[i].x /\ crtcs[o].w = list[i].w
      BY <3>1 DEF Geometry
    <3> QED
      BY <3>2
  <2>2. CASE ~\E i \in set : list[i].out = o
    BY <1>1, <1>2, <2>2
  <2> QED
    BY <2>1, <2>2
<1>4. DOMAIN crtcs = 1 .. M /\ crtcs = [o \in 1 .. M |-> crtcs[o]]
  BY <1>2
<1>5. crtcs \in [1 .. M -> Geometry \cup {Off}]
  BY <1>3, <1>4
<1>6. crtcs \in Seq(Geometry \cup {Off})
  BY <1>1, <1>5, SeqDef
<1> QED
  BY <1>3, <1>4, <1>6 DEF crtcs, M

\* The server's list with the screens asked for, and what the outputs then
\* show (ResizeDesktop).
LEMMA AssignedLemma ==
  ASSUME crtc \in Seq(Geometry \cup {Off}), Entries(screens, DOMAIN crtc),
         NEW size, NEW want, Wanted(want, size)
  PROVE  LET list  == Assigned(want)
             used  == Used(screens, want)
             crtcs == Configured(list, used, Len(list) - Len(screens))
         IN  /\ crtcs \in Seq(Geometry \cup {Off})
             /\ Entries(list, DOMAIN crtcs) /\ Entries(screens, DOMAIN crtcs)
             /\ used \subseteq DOMAIN list
             /\ \A i \in used : /\ list[i].x \in Int /\ list[i].w \in Nat \ {0}
                               /\ Within(list[i], size)
             /\ \A o \in DOMAIN crtcs : Active(crtcs[o]) =>
                  \/ Within(crtcs[o], size)
                  \/ o \in DOMAIN crtc /\ crtcs[o] = crtc[o]
<1> DEFINE list  == Assigned(want)
           used  == Used(screens, want)
           crtcs == Configured(list, used, Len(list) - Len(screens))
           total == Total(screens, want)
           n     == Len(screens)
           m     == Len(crtc)
           M     == m + total - n
           asked(i) == want[CHOOSE k \in DOMAIN want : Place(screens, want, k) = i]
           at(i) == OutputAt(i)
<1>1. /\ n \in Nat /\ DOMAIN screens = 1 .. n /\ m \in Nat /\ DOMAIN crtc = 1 .. m
      /\ \A o \in 1 .. m : crtc[o] \in Geometry \cup {Off}
      /\ \A i \in 1 .. n : screens[i] = [f \in ScreenFields |-> screens[i][f]]
      /\ \A i \in 1 .. n : screens[i].out \in 1 .. m
  BY LenProperties DEF Entries
<1>2. /\ total \in Nat /\ n <= total
      /\ \A k \in DOMAIN want : Place(screens, want, k) \in 1 .. total
      /\ \A i \in n + 1 .. total :
           \E k \in DOMAIN want : Place(screens, want, k) = i
  BY <1>1, PlaceLemma DEF Wanted
<1>3. /\ used \subseteq 1 .. total
      /\ \A i \in n + 1 .. total : i \in used
      /\ \A i \in used : \E k \in DOMAIN want : asked(i) = want[k]
  BY <1>2 DEF Used
<1>4. /\ M \in Nat /\ m <= M
      /\ \A i \in 1 .. total : at(i) \in 1 .. M
      /\ \A i \in n + 1 .. total : at(i) = m + i - n
  BY <1>1, <1>2 DEF OutputAt
<1>5. list = [i \in 1 .. total |->
                IF i \in used
                THEN [out |-> at(i), id |-> asked(i).id, assigned |-> TRUE,
                      x |-> asked(i).x, w |-> asked(i).w]
                ELSE screens[i]]
  BY DEF Assigned, Screen
<1> HIDE DEF list, used, total, n, m, asked, at, crtcs
<1>6. /\ list = [i \in 1 .. total |-> list[i]]
      /\ \A i \in used :
           /\ list[i] = [f \in ScreenFields |-> list[i][f]]
           /\ list[i].out = at(i)
           /\ list[i].x = asked(i).x /\ list[i].w = asked(i).w
      /\ \A i \in 1 .. total : i \notin used => list[i] = screens[i]
  BY <1>3, <1>5 DEF ScreenFields
<1>7. Len(list) = total /\ DOMAIN list = 1 .. total
  BY <1>2, <1>6, LengthLemma
<1>9. ASSUME NEW i \in used
      PROVE  /\ list[i].x \in Int /\ list[i].w \in Nat \ {0}
             /\ Within(list[i], size)
  <2>1. PICK k \in DOMAIN want : asked(i) = want[k]
    BY <1>3
  <2>2. list[i].x = want[k].x /\ list[i].w = want[k].w
    BY <1>6, <2>1
  <2> QED
    BY <2>2 DEF Wanted, Within
<1>8. total - n \in Nat /\ m + (total - n) = M
  BY <1>1, <1>2
<1>10. /\ crtcs \in Seq(Geometry \cup {Off}) /\ DOMAIN crtcs = 1 .. M
       /\ \A o \in DOMAIN crtcs :
            \/ crtcs[o] = Off
            \/ o \in DOMAIN crtc /\ crtcs[o] = crtc[o]
            \/ \E i \in used : /\ crtcs[o].x = list[i].x
                               /\ crtcs[o].w = list[i].w
  <2> DEFINE new == Len(list) - Len(screens)
  <2>1. new \in Nat /\ Len(crtc) + new = M
    BY <1>7, <1>8 DEF n, m
  <2>2. \A i \in used : list[i].x \in Int /\ list[i].w \in Nat \ {0}
    BY <1>9
  <2>3. crtcs = Configured(list, used, new)
    BY DEF crtcs
  <2> HIDE DEF new, M
  <2> QED
    <3>1. /\ Configured(list, used, new) \in Seq(Geometry \cup {Off})
          /\ DOMAIN Configured(list, used, new) = 1 .. Len(crtc) + new
          /\ \A o \in DOMAIN Configured(list, used, new) :
               \/ Configured(list, used, new)[o] = Off
               \/ /\ o \in DOMAIN crtc
                  /\ Configured(list, used, new)[o] = crtc[o]
               \/ \E i \in used :
                    /\ Configured(list, used, new)[o].x = list[i].x
                    /\ Configured(list, used, new)[o].w = list[i].w
      BY <2>1, <2>2, ConfiguredLemma
    <3> QED
      BY <2>1, <2>3, <3>1
<1>11. \A o \in DOMAIN crtcs : Active(crtcs[o]) =>
         \/ Within(crtcs[o], size)
         \/ o \in DOMAIN crtc /\ crtcs[o] = crtc[o]
  BY <1>9, <1>10 DEF Active, Within
<1>12. Entries(list, DOMAIN crtcs)
  <2>1. ASSUME NEW i \in 1 .. total
        PROVE  /\ list[i] = [f \in ScreenFields |-> list[i][f]]
               /\ list[i].out \in 1 .. M
    <3>1. CASE i \in used
      BY <1>4, <1>6, <3>1
    <3>2. CASE i \notin used
      <4>1. i \in 1 .. n
        BY <1>1, <1>2, <1>3, <3>2
      <4> QED
        BY <1>1, <1>4, <1>6, <3>2, <4>1
    <3> QED
      BY <3>1, <3>2
  <2> QED
    BY <1>2, <1>6, <1>7, <1>10, <2>1 DEF Entries
<1>13. Entries(screens, DOMAIN crtcs)
  BY <1>1, <1>4, <1>10 DEF Entries
<1> QED
  BY <1>3, <1>7, <1>9, <1>10, <1>11, <1>12, <1>13 DEF list, used, crtcs

\* Screens take the extent of their outputs (vncUpdateScreenLayout).
LEMMA UpdateLayoutLemma ==
  ASSUME NEW list, NEW outs, Entries(list, outs), NEW crtcs
  PROVE  LET t == UpdateLayout(list, crtcs)
         IN  /\ Entries(t, outs)
             /\ \A size : (\A o \in outs : Active(crtcs[o]) => Within(crtcs[o], size))
                            => ScreensWithin(t, crtcs, size)
<1> DEFINE t == UpdateLayout(list, crtcs)
           n == Len(list)
<1>1. /\ n \in Nat /\ DOMAIN list = 1 .. n
      /\ \A i \in 1 .. n : /\ list[i] = [f \in ScreenFields |-> list[i][f]]
                           /\ list[i].out \in outs
  BY DEF Entries
<1>2. /\ t = [i \in 1 .. n |-> t[i]]
      /\ \A i \in 1 .. n :
           t[i] = IF ~Active(crtcs[list[i].out]) THEN Dropped(list[i])
                  ELSE Screen(list[i].out,
                              IF list[i].assigned THEN list[i].id
                              ELSE list[i].out,
                              TRUE, crtcs[list[i].out])
  BY <1>1 DEF UpdateLayout
<1> HIDE DEF t, n
<1>3. Len(t) = n /\ DOMAIN t = 1 .. n
  BY <1>1, <1>2, LengthLemma
<1>4. ASSUME NEW i \in 1 .. n
      PROVE  /\ t[i] = [f \in ScreenFields |-> t[i][f]]
             /\ t[i].out = list[i].out
             /\ Active(crtcs[list[i].out]) =>
                  /\ t[i].x = crtcs[list[i].out].x
                  /\ t[i].w = crtcs[list[i].out].w
  <2>1. CASE ~Active(crtcs[list[i].out])
    <3>1. t[i] = [list[i] EXCEPT !.id = 0, !.assigned = FALSE]
      BY <1>2, <2>1 DEF Dropped
    <3>2. list[i] = [f \in ScreenFields |-> list[i][f]]
      BY <1>1
    <3> QED
      BY <2>1, <3>1, <3>2 DEF ScreenFields
  <2>2. CASE Active(crtcs[list[i].out])
    <3>1. \E id : t[i] = Screen(list[i].out, id, TRUE, crtcs[list[i].out])
      BY <1>2, <2>2
    <3> QED
      BY <3>1 DEF Screen, ScreenFields
  <2> QED
    BY <2>1, <2>2
<1>5. Entries(t, outs)
  BY <1>1, <1>2, <1>3, <1>4 DEF Entries
<1>6. ASSUME NEW size, \A o \in outs : Active(crtcs[o]) => Within(crtcs[o], size)
      PROVE  ScreensWithin(t, crtcs, size)
  BY <1>1, <1>3, <1>4, <1>6 DEF ScreensWithin, Within
<1> QED
  BY <1>5, <1>6 DEF t

\* A layout of screens that lie on the desktop does, too.
LEMMA LayoutLemma ==
  ASSUME NEW list, NEW outs, Entries(list, outs), NEW crtcs,
         NEW size \in Nat \ {0}, ScreensWithin(list, crtcs, size)
  PROVE  Fits(Layout(list, crtcs, size), size)
<1> DEFINE on == {i \in DOMAIN list : Active(crtcs[list[i].out])}
           t  == Those(list, on)
           l  == Layout(list, crtcs, size)
<1>1. on \in SUBSET (1 .. Len(list)) /\ Len(list) \in Nat
  BY DEF Entries
<1>2. CASE on = {}
  <2>1. l = << [id |-> list[1].id, x |-> 0, w |-> size] >>
    BY <1>2 DEF Layout
  <2>2. DOMAIN l = {1} /\ l[1].x = 0 /\ l[1].w = size
    BY <2>1
  <2> HIDE DEF l
  <2> QED
    BY <2>2 DEF Fits, l
<1>3. CASE on # {}
  <2>1. l = [k \in 1 .. Cardinality(on) |-> Desc(t[k])]
    BY <1>3 DEF Layout
  <2> HIDE DEF on
  <2>2. /\ Len(t) = Cardinality(on)
        /\ \A k \in 1 .. Len(t) : \E i \in on : t[k] = list[i]
    BY <1>1, ThoseLemma, ZenonT(60)
  <2> HIDE DEF l, t
  <2>3. ASSUME NEW k \in DOMAIN l
        PROVE  l[k].w > 0 /\ l[k].x + l[k].w <= size
    <3>1. k \in 1 .. Len(t) /\ l[k] = Desc(t[k])
      BY <2>1, <2>2
    <3>2. PICK i \in on : t[k] = list[i]
      BY <2>2, <3>1
    <3>3. l[k].x = list[i].x /\ l[k].w = list[i].w
      BY <3>1, <3>2 DEF Desc
    <3>4. Within(list[i], size)
      BY DEF ScreensWithin, on
    <3> QED
      BY <3>3, <3>4 DEF Within
  <2> QED
    BY <2>3 DEF Fits, l
<1> QED
  BY <1>2, <1>3

-----------------------------------------------------------------------------
(* Outputs and screens lie on the desktop.                                  *)

\* Nothing is under way that a viewer could stop.
Steady == pc \in {"idle", "answer"} \/ (pc = "resize" /\ req.by = NoViewer)

\* Every screen has an output.
Outputs ==
  /\ crtc \in Seq(Geometry \cup {Off}) /\ width \in Nat \ {0}
  /\ Entries(screens, DOMAIN crtc) /\ Entries(req.list, DOMAIN crtc)
  /\ pc \in {"disable", "resize"} => req.width \in Nat \ {0}

\* While a request is carried out, an output lies on the desktop as it was or
\* as it will be.
Between ==
  \A o \in DOMAIN crtc :
    Active(crtc[o]) => Within(crtc[o], width) \/ Within(crtc[o], req.width)

\* What is in force, or about to be announced, lies on the desktop.
LayoutsFit ==
  ~broken =>
    /\ Steady \/ pc = "announce" => OutputsWithin(crtc, width)
    /\ Steady => ScreensWithin(screens, crtc, width)
    /\ pc = "announce" /\ req.by # NoViewer =>
         ScreensWithin(req.list, crtc, width)
    /\ pc = "disable" => Between

\* So does what a request asks for, on the desktop that it asks for.
UsedFit ==
  pc = "disable" =>
    /\ req.used \subseteq DOMAIN req.list
    /\ \A i \in req.used : Within(req.list[i], req.width)

\* The invariant.
LayoutInv == Outputs /\ LayoutsFit /\ UsedFit

\* The record of no request.
LEMMA NothingAsked ==
  /\ NoRequest.list = <<>> /\ NoRequest.by = NoViewer
  /\ \A outs : Entries(<<>>, outs)
  /\ \A by : [NoRequest EXCEPT !.by = by].list = <<>>
  /\ \A w : LET r == [NoRequest EXCEPT !.width = w]
            IN  r.list = <<>> /\ r.width = w /\ r.by = NoViewer
<1>1. ASSUME NEW outs
      PROVE  Entries(<<>>, outs)
  BY DEF Entries
<1> QED
  BY <1>1 DEF NoRequest

LEMMA LayoutInvStarts == ASSUME DesktopInit PROVE LayoutInv
<1>1. /\ width \in Nat \ {0}
      /\ crtc = << [x |-> 0, w |-> width] >>
      /\ screens = << [out |-> 1, id |-> 1, assigned |-> TRUE,
                       x |-> 0, w |-> width] >>
      /\ pc = "idle" /\ req.list = <<>>
  BY SizesAssumption, NothingAsked DEF DesktopInit, Screen
<1>2. crtc \in Seq(Geometry \cup {Off}) /\ DOMAIN crtc = {1}
      /\ crtc[1] = [x |-> 0, w |-> width]
  BY <1>1 DEF Geometry
<1>3. /\ Len(screens) = 1 /\ DOMAIN screens = {1}
      /\ screens[1].out = 1 /\ screens[1].x = 0 /\ screens[1].w = width
      /\ screens[1] = [f \in ScreenFields |-> screens[1][f]]
      /\ screens = [i \in 1 .. 1 |-> screens[i]]
  BY <1>1 DEF ScreenFields
<1>4. Entries(screens, DOMAIN crtc)
  BY <1>2, <1>3 DEF Entries
<1>5. Outputs
  BY <1>1, <1>2, <1>4, NothingAsked DEF Outputs
<1>6. OutputsWithin(crtc, width) /\ ScreensWithin(screens, crtc, width)
  BY <1>1, <1>2, <1>3 DEF OutputsWithin, ScreensWithin, Within
<1> QED
  BY <1>1, <1>5, <1>6 DEF LayoutInv, LayoutsFit, UsedFit

\* A step that leaves outputs, screens, size and request alone.
LEMMA LayoutSame ==
  ASSUME LayoutInv, UNCHANGED <<server, pc, req, broken>>
  PROVE  LayoutInv'
<1>1. /\ width' = width /\ crtc' = crtc /\ screens' = screens /\ pc' = pc
      /\ req' = req /\ broken' = broken
  BY DEF server
<1> QED
  BY <1>1 DEF LayoutInv, Outputs, LayoutsFit, UsedFit, Steady, Between

\* The server is steady again, with the same outputs and screens.
LEMMA LayoutReturns ==
  ASSUME LayoutInv, UNCHANGED server, pc' = "idle", req' = NoRequest,
         broken' \/ (Steady /\ ~broken)
  PROVE  LayoutInv'
<1>1. width' = width /\ crtc' = crtc /\ screens' = screens
  BY DEF server
<1> QED
  BY <1>1, NothingAsked
  DEF LayoutInv, Outputs, LayoutsFit, UsedFit, Steady

\* The steps, one by one.
LEMMA LayoutReconfigure ==
  ASSUME LayoutInv, pc = "idle", NEW v, NEW size \in Nat \ {0}, NEW want,
         Wanted(want, size), Reconfigure(v, size, want)
  PROVE  LayoutInv'
<1> DEFINE list  == Assigned(want)
           used  == Used(screens, want)
           crtcs == Configured(list, used, Len(list) - Len(screens))
<1>1. /\ width' = width /\ screens' = screens /\ broken' = broken
      /\ pc' = "disable" /\ crtc' = crtcs
      /\ req' = [by |-> v, width |-> size, list |-> list, used |-> used]
  BY DEF Reconfigure
<1>2. /\ crtcs \in Seq(Geometry \cup {Off})
      /\ Entries(list, DOMAIN crtcs) /\ Entries(screens, DOMAIN crtcs)
      /\ used \subseteq DOMAIN list
      /\ \A i \in used : Within(list[i], size)
      /\ \A o \in DOMAIN crtcs : Active(crtcs[o]) =>
           \/ Within(crtcs[o], size)
           \/ o \in DOMAIN crtc /\ crtcs[o] = crtc[o]
  BY AssignedLemma DEF LayoutInv, Outputs
<1> HIDE DEF list, used, crtcs
<1>3. req'.width = size /\ req'.list = list /\ req'.used = used
  BY <1>1
<1>4. Outputs'
  BY <1>1, <1>2, <1>3 DEF LayoutInv, Outputs
<1>5. UsedFit'
  BY <1>2, <1>3 DEF UsedFit
<1>6. ~broken => OutputsWithin(crtc, width)
  BY DEF LayoutInv, LayoutsFit, Steady
<1>7. ~broken => Between'
  BY <1>1, <1>2, <1>3, <1>6 DEF Between, OutputsWithin
<1> QED
  BY <1>1, <1>4, <1>5, <1>7 DEF LayoutInv, LayoutsFit, Steady

LEMMA LayoutReconfigureFails ==
  ASSUME LayoutInv, pc = "idle", NEW v, NEW size \in Nat \ {0}, NEW want,
         Wanted(want, size), ReconfigureFails(v, want)
  PROVE  LayoutInv'
<1> DEFINE list       == Assigned(want)
           used       == Used(screens, want)
           Done(n)    == {Place(screens, want, k) :
                            k \in {k \in DOMAIN want : Turn(screens, want, k) < n}}
           Made(n)    == {i \in Done(n) : i > Len(screens)}
           Created(n) == Cardinality(Made(n))
<1>1. /\ width' = width /\ screens' = screens /\ broken' = TRUE
      /\ pc' = "idle" /\ req' = req
  BY DEF ReconfigureFails
<1>2. PICK n \in 2 .. Len(want) : \E more \in {0, 1} :
        crtc' = Configured(list, Done(n), Created(n) + more)
  BY DEF ReconfigureFails
<1>3. /\ crtc \in Seq(Geometry \cup {Off}) /\ Entries(screens, DOMAIN crtc)
      /\ Entries(req.list, DOMAIN crtc) /\ width \in Nat \ {0}
  BY DEF LayoutInv, Outputs
<1>4. /\ \A i \in used : list[i].x \in Int /\ list[i].w \in Nat \ {0}
      /\ used \subseteq DOMAIN list
      /\ Len(list) \in Nat /\ list = [i \in 1 .. Len(list) |-> list[i]]
  BY <1>3, AssignedLemma DEF Entries
<1>5. Done(n) \subseteq used
  BY DEF Used
<1> HIDE DEF list, used, Done
<1>6. Created(n) \in Nat
  <2>1. IsFiniteSet(DOMAIN list)
    BY <1>4, FS_Interval
  <2>2. Made(n) \subseteq DOMAIN list
    BY <1>4, <1>5
  <2> QED
    BY <2>1, <2>2, FS_Subset, FS_CardinalityType
<1> HIDE DEF Created
<1>7. PICK more \in {0, 1} :
        crtc' = Configured(list, Done(n), Created(n) + more)
  BY <1>2
<1>8. /\ crtc' \in Seq(Geometry \cup {Off})
      /\ DOMAIN crtc' = 1 .. Len(crtc) + (Created(n) + more)
      /\ DOMAIN crtc \subseteq DOMAIN crtc'
  <2>1. Created(n) + more \in Nat
    BY <1>6
  <2>2. /\ crtc' \in Seq(Geometry \cup {Off})
        /\ DOMAIN crtc' = 1 .. Len(crtc) + (Created(n) + more)
    BY <1>3, <1>4, <1>5, <1>7, <2>1, ConfiguredLemma
  <2>3. Len(crtc) \in Nat /\ DOMAIN crtc = 1 .. Len(crtc)
    BY <1>3, LenProperties
  <2> QED
    BY <2>1, <2>2, <2>3
<1>9. Outputs'
  BY <1>1, <1>3, <1>8 DEF Outputs, Entries
<1> QED
  BY <1>1, <1>9 DEF LayoutInv, LayoutsFit, UsedFit

LEMMA LayoutSetDesktopSize ==
  ASSUME LayoutInv, pc = "idle", NEW v \in Viewers, NEW w \in Widths,
         NEW want \in Requests, SetDesktopSize(v, w, want)
  PROVE  LayoutInv'
<1> DEFINE size    == Least(w, MaxWidth)
           clipped == ClipScreens(assignIDs(cl[v].layout, want), size)
<1>1. Reconfigure(v, size, clipped) \/ ReconfigureFails(v, clipped)
  BY DEF SetDesktopSize
<1>2. size \in Nat \ {0}
  BY SizesAssumption DEF Least
<1> HIDE DEF size
<1>3. Wanted(clipped, size)
  BY <1>2, SizesAssumption, ClippedLemma
<1> HIDE DEF clipped
<1> QED
  BY <1>1, <1>2, <1>3, LayoutReconfigure, LayoutReconfigureFails

LEMMA LayoutDisableOutput ==
  ASSUME LayoutInv, NEW how, DisableOutput(how)
  PROVE  LayoutInv'
<1>1. /\ width' = width /\ req' = req /\ broken' = broken
      /\ pc = "disable" /\ pc' = pc
      /\ screens' = UpdateLayout(screens, crtc')
      /\ \E o : crtc' = [crtc EXCEPT ![o] = Off]
  BY DEF DisableOutput
<1>2. /\ crtc \in Seq(Geometry \cup {Off})
      /\ Entries(screens, DOMAIN crtc) /\ Entries(req.list, DOMAIN crtc)
  BY DEF LayoutInv, Outputs
<1>3. /\ crtc' \in Seq(Geometry \cup {Off}) /\ DOMAIN crtc' = DOMAIN crtc
      /\ \A o \in DOMAIN crtc : crtc'[o] = crtc[o] \/ ~Active(crtc'[o])
  <2>1. PICK o : crtc' = [crtc EXCEPT ![o] = Off]
    BY <1>1
  <2>2. crtc \in [1 .. Len(crtc) -> Geometry \cup {Off}] /\ Len(crtc) \in Nat
    BY <1>2, LenProperties
  <2>3. crtc' \in [1 .. Len(crtc) -> Geometry \cup {Off}]
    BY <2>1, <2>2
  <2> QED
    BY <2>1, <2>2, <2>3, SeqDef DEF Active
<1>4. Entries(screens', DOMAIN crtc)
  BY <1>1, <1>2, UpdateLayoutLemma
<1>5. Outputs'
  BY <1>1, <1>2, <1>3, <1>4 DEF LayoutInv, Outputs
<1>6. ~broken => Between'
  BY <1>1, <1>3 DEF LayoutInv, LayoutsFit, Between
<1>7. UsedFit'
  BY <1>1 DEF LayoutInv, UsedFit
<1> QED
  BY <1>1, <1>5, <1>6, <1>7 DEF LayoutInv, LayoutsFit, Steady

LEMMA LayoutDisabledAll ==
  ASSUME DesktopInv, LayoutInv, DisabledAll
  PROVE  LayoutInv'
<1> DEFINE n == Len(req.list)
           list == [i \in DOMAIN req.list |->
                      IF i \in Unused THEN Dropped(req.list[i])
                      ELSE req.list[i]]
<1>1. /\ pc = "disable" /\ ToDisable = {} /\ req' = [req EXCEPT !.list = list]
      /\ pc' = IF req.width = width THEN "announce" ELSE "resize"
      /\ width' = width /\ crtc' = crtc /\ screens' = screens
      /\ broken' = broken
  BY DEF DisabledAll, server
<1>2. /\ n \in Nat /\ DOMAIN req.list = 1 .. n
      /\ \A i \in 1 .. n :
           /\ req.list[i] = [f \in ScreenFields |-> req.list[i][f]]
           /\ req.list[i].out \in DOMAIN crtc
  BY DEF LayoutInv, Outputs, Entries
<1>3. /\ list = [i \in 1 .. n |-> list[i]]
      /\ \A i \in 1 .. n : list[i] = IF i \in Unused THEN Dropped(req.list[i])
                                     ELSE req.list[i]
  BY <1>2
<1> HIDE DEF list, n
<1>4. Len(list) = n /\ DOMAIN list = 1 .. n
  BY <1>2, <1>3, LengthLemma
<1>5. ASSUME NEW i \in 1 .. n
      PROVE  /\ list[i] = [f \in ScreenFields |-> list[i][f]]
             /\ list[i].out = req.list[i].out
  <2>1. Dropped(req.list[i]) =
          [f \in ScreenFields |-> Dropped(req.list[i])[f]]
    BY <1>2 DEF Dropped, ScreenFields
  <2>2. Dropped(req.list[i]).out = req.list[i].out
    BY <1>2 DEF Dropped, ScreenFields
  <2> QED
    BY <1>2, <1>3, <2>1, <2>2
<1>6. Entries(list, DOMAIN crtc)
  BY <1>2, <1>3, <1>4, <1>5 DEF Entries
<1>7. req'.list = list /\ req'.by = req.by /\ req'.width = req.width
      /\ req.by # NoViewer
  BY <1>1 DEF DesktopInv, Change
<1>8. Outputs'
  BY <1>1, <1>6, <1>7 DEF LayoutInv, Outputs
<1>9. UsedFit'
  BY <1>1 DEF UsedFit
<1>10. ASSUME ~broken', req.width = width
       PROVE  OutputsWithin(crtc', width') /\ ScreensWithin(list, crtc', width')
  <2>1. OutputsWithin(crtc', width')
    BY <1>1, <1>10 DEF LayoutInv, LayoutsFit, Between, OutputsWithin
  <2>2. ASSUME NEW i \in 1 .. n, Active(crtc[list[i].out])
        PROVE  Within(list[i], width)
    <3>1. i \notin Unused
      <4>1. ASSUME i \in Unused
            PROVE  i \in ToDisable
        BY <1>5, <2>2, <4>1 DEF ToDisable
      <4> QED
        BY <1>1, <4>1
    <3>2. i \in req.used
      BY <1>2, <3>1 DEF Unused
    <3> QED
      BY <1>1, <1>3, <1>10, <3>1, <3>2 DEF LayoutInv, UsedFit
  <2> QED
    BY <1>1, <1>4, <2>1, <2>2 DEF ScreensWithin
<1>11. LayoutsFit'
  BY <1>1, <1>7, <1>10 DEF LayoutsFit, Steady
<1> QED
  BY <1>8, <1>9, <1>11 DEF LayoutInv

LEMMA LayoutResizeFails ==
  ASSUME LayoutInv, NEW how, ResizeFails(how)
  PROVE  LayoutInv'
<1>1. /\ pc = "resize" /\ UNCHANGED server /\ pc' = "idle" /\ req' = NoRequest
      /\ broken' = (broken \/ req.by # NoViewer)
  BY DEF ResizeFails, GiveUp
<1>2. broken' \/ (Steady /\ ~broken)
  BY <1>1 DEF Steady
<1> QED
  BY <1>1, <1>2, LayoutReturns

LEMMA LayoutAnswerError ==
  ASSUME LayoutInv, NEW how, AnswerError(how)
  PROVE  LayoutInv'
<1>1. /\ pc = "answer" /\ UNCHANGED server /\ pc' = "idle" /\ req' = NoRequest
      /\ broken' = broken
  BY DEF AnswerError, GiveUp
<1>2. width' = width /\ crtc' = crtc /\ screens' = screens
  BY <1>1 DEF server
<1> QED
  BY <1>1, <1>2, NothingAsked
  DEF LayoutInv, Outputs, LayoutsFit, UsedFit, Steady

LEMMA LayoutResize ==
  ASSUME LayoutInv, Resize
  PROVE  LayoutInv'
BY DEF Resize, LayoutInv, Outputs, LayoutsFit, UsedFit, Steady

LEMMA LayoutExpose ==
  ASSUME LayoutInv, NEW how, Expose(how)
  PROVE  LayoutInv'
BY DEF Expose, server, LayoutInv, Outputs, LayoutsFit, UsedFit, Steady

\* What an output shows of the desktop that is left.
LEMMA CropLemma ==
  ASSUME NEW g \in Geometry, NEW size \in Nat \ {0}
  PROVE  /\ Crop(g, size) \in Geometry \cup {Off}
         /\ Active(Crop(g, size)) => Within(Crop(g, size), size)
<1> DEFINE l == Least(g.w, size - g.x)
           t == [g EXCEPT !.w = l]
<1>1. g.x \in Int /\ g.w \in Nat \ {0} /\ g = [x |-> g.x, w |-> g.w]
  BY DEF Geometry
<1>2. CASE g.x >= size
  BY <1>2 DEF Crop, Active
<1>3. CASE ~(g.x >= size)
  <2>1. Crop(g, size) = t
    BY <1>3 DEF Crop
  <2>2. l \in Nat \ {0} /\ g.x + l <= size
    BY <1>1, <1>3 DEF Least
  <2> HIDE DEF l
  <2>3. t \in Geometry /\ t.x = g.x /\ t.w = l
    BY <1>1, <2>2 DEF Geometry
  <2> QED
    BY <2>1, <2>2, <2>3 DEF Within
<1> QED
  BY <1>2, <1>3

LEMMA LayoutCrop ==
  ASSUME DesktopInv, LayoutInv, NEW closed, NEW uncropped, NEW how,
         CropScreens(closed, uncropped, how)
  PROVE  LayoutInv'
<1> DEFINE n == Len(crtc)
<1>1. /\ crtc' = [o \in DOMAIN crtc |->
                     IF o \in uncropped THEN crtc[o]
                     ELSE IF Active(crtc[o]) THEN Crop(crtc[o], width) ELSE Off]
      /\ width' = width /\ screens' = screens /\ pc = "crop"
  BY DEF CropScreens
<1>2. /\ n \in Nat /\ DOMAIN crtc = 1 .. n /\ width \in Nat \ {0}
      /\ \A o \in 1 .. n : crtc[o] \in Geometry \cup {Off}
      /\ Entries(screens, DOMAIN crtc) /\ Entries(req.list, DOMAIN crtc)
  BY LenProperties DEF LayoutInv, Outputs
<1>3. ASSUME NEW o \in 1 .. n
      PROVE  /\ crtc'[o] \in Geometry \cup {Off}
             /\ uncropped = {} /\ Active(crtc'[o]) => Within(crtc'[o], width)
  <2>1. CASE o \notin uncropped /\ Active(crtc[o])
    <3>1. crtc[o] \in Geometry /\ crtc'[o] = Crop(crtc[o], width)
      BY <1>1, <1>2, <2>1 DEF Active
    <3> QED
      BY <1>2, <3>1, CropLemma
  <2>2. CASE o \notin uncropped /\ ~Active(crtc[o])
    BY <1>1, <1>2, <2>2 DEF Active
  <2>3. CASE o \in uncropped
    BY <1>1, <1>2, <2>3
  <2> QED
    BY <2>1, <2>2, <2>3
<1>4. DOMAIN crtc' = 1 .. n /\ crtc' \in Seq(Geometry \cup {Off})
  <2>1. crtc' = [o \in 1 .. n |-> crtc'[o]]
    BY <1>1, <1>2
  <2>2. crtc' \in [1 .. n -> Geometry \cup {Off}]
    BY <1>3, <2>1
  <2> QED
    BY <1>2, <2>2, SeqDef
<1>5. uncropped = {} => OutputsWithin(crtc', width')
  BY <1>1, <1>3, <1>4 DEF OutputsWithin
<1> HIDE DEF n
<1>6. CASE closed = {}
  <2> DEFINE list == UpdateLayout(req.list, crtc')
  <2>1. /\ req' = [req EXCEPT !.list = list] /\ pc' = "announce"
        /\ broken' = (uncropped # {})
    BY <1>6 DEF CropScreens
  <2>2. /\ Entries(list, DOMAIN crtc)
        /\ ~broken' => ScreensWithin(list, crtc', width')
    <3>1. ~broken' => \A o \in DOMAIN crtc :
                       Active(crtc'[o]) => Within(crtc'[o], width')
      BY <1>2, <1>4, <1>5, <2>1 DEF OutputsWithin
    <3> QED
      BY <1>2, <3>1, UpdateLayoutLemma
  <2> HIDE DEF list
  <2>3. req'.list = list
    BY <2>1 DEF DesktopInv, Change
  <2>4. Outputs'
    BY <1>1, <1>2, <1>4, <2>1, <2>2, <2>3 DEF Outputs
  <2> QED
    BY <1>5, <2>1, <2>2, <2>3, <2>4 DEF LayoutInv, LayoutsFit, UsedFit, Steady
<1>7. CASE closed # {}
  <2>1. broken' = TRUE /\ pc' = "idle" /\ req' = NoRequest
    BY <1>7 DEF CropScreens
  <2>2. Outputs'
    BY <1>1, <1>2, <1>4, <2>1, NothingAsked DEF Outputs
  <2>3. LayoutsFit' /\ UsedFit'
    BY <2>1 DEF LayoutsFit, UsedFit
  <2> QED
    BY <2>2, <2>3, ZenonT(60) DEF LayoutInv
<1> QED
  BY <1>6, <1>7, ZenonT(60)

LEMMA LayoutAnnounce ==
  ASSUME LayoutInv, NEW how, Announce(how)
  PROVE  LayoutInv'
<1>1. /\ width' = width /\ crtc' = crtc /\ broken' = broken /\ pc = "announce"
      /\ screens' = IF req.by = NoViewer THEN UpdateLayout(screens, crtc)
                    ELSE req.list
      /\ pc' \in {"idle", "answer"} /\ req'.list = <<>>
  BY NothingAsked DEF Announce
<1>2. /\ Entries(screens, DOMAIN crtc) /\ Entries(req.list, DOMAIN crtc)
      /\ ~broken => OutputsWithin(crtc, width)
      /\ ~broken /\ req.by # NoViewer => ScreensWithin(req.list, crtc, width)
  BY <1>1 DEF LayoutInv, Outputs, LayoutsFit
<1>3. /\ Entries(UpdateLayout(screens, crtc), DOMAIN crtc)
      /\ ~broken => ScreensWithin(UpdateLayout(screens, crtc), crtc, width)
  BY <1>2, UpdateLayoutLemma DEF OutputsWithin
<1>4. /\ Entries(screens', DOMAIN crtc)
      /\ ~broken => ScreensWithin(screens', crtc, width)
  BY <1>1, <1>2, <1>3
<1>5. Outputs'
  BY <1>1, <1>4, NothingAsked DEF LayoutInv, Outputs
<1> QED
  BY <1>1, <1>2, <1>4, <1>5 DEF LayoutInv, LayoutsFit, UsedFit

LEMMA LayoutCrtcSet ==
  ASSUME LayoutInv, pc = "idle", NEW o, NEW g \in Geometries, NEW how,
         CrtcSet(o, g, how)
  PROVE  LayoutInv'
<1> DEFINE n == Len(crtc)
<1>1. /\ o \in DOMAIN crtc /\ g.x + g.w <= width
      /\ crtc' = [crtc EXCEPT ![o] = g]
      /\ screens' = UpdateLayout(screens, crtc')
      /\ width' = width /\ pc' = pc /\ req' = req /\ broken' = broken
  BY DEF CrtcSet
<1>2. /\ n \in Nat /\ DOMAIN crtc = 1 .. n
      /\ crtc \in [1 .. n -> Geometry \cup {Off}]
      /\ Entries(screens, DOMAIN crtc) /\ Entries(req.list, DOMAIN crtc)
      /\ ~broken => OutputsWithin(crtc, width)
  BY LenProperties DEF LayoutInv, Outputs, LayoutsFit, Steady
<1>3. /\ g \in Geometry \cup {Off} /\ (Active(g) => Within(g, width))
  BY <1>1, SizesAssumption DEF Active, Geometry, Within
<1>4. /\ crtc' \in [1 .. n -> Geometry \cup {Off}] /\ DOMAIN crtc' = 1 .. n
      /\ \A p \in 1 .. n : crtc'[p] = IF p = o THEN g ELSE crtc[p]
  BY <1>1, <1>2, <1>3
<1>5. crtc' \in Seq(Geometry \cup {Off})
  BY <1>2, <1>4, SeqDef
<1>6. ~broken => OutputsWithin(crtc', width)
  BY <1>2, <1>3, <1>4 DEF OutputsWithin
<1>7. /\ Entries(screens', DOMAIN crtc)
      /\ ~broken => ScreensWithin(screens', crtc', width)
  <2>1. \A p \in DOMAIN crtc :
          ~broken => (Active(crtc'[p]) => Within(crtc'[p], width))
    BY <1>2, <1>4, <1>6 DEF OutputsWithin
  <2> QED
    BY <1>1, <1>2, <2>1, UpdateLayoutLemma
<1>8. Outputs'
  BY <1>1, <1>2, <1>4, <1>5, <1>7 DEF LayoutInv, Outputs
<1> QED
  BY <1>1, <1>6, <1>7, <1>8 DEF LayoutInv, LayoutsFit, UsedFit

LEMMA LayoutScreenSizeSet ==
  ASSUME LayoutInv, pc = "idle", NEW w \in Widths, ScreenSizeSet(w)
  PROVE  LayoutInv'
<1>1. /\ pc' = "resize" /\ width' = width /\ crtc' = crtc /\ screens' = screens
      /\ broken' = broken
      /\ req'.list = <<>> /\ req'.width = w /\ req'.by = NoViewer
  BY NothingAsked DEF ScreenSizeSet, server
<1> QED
  BY <1>1, NothingAsked, SizesAssumption
  DEF LayoutInv, Outputs, LayoutsFit, UsedFit, Steady

LEMMA LayoutNext ==
  ASSUME DesktopInv, LayoutInv, [DesktopNext]_desktopVars
  PROVE  LayoutInv'
<1>1. CASE pc = "idle" /\ ViewerStep
  <2>1. ASSUME NEW v \in Viewers, NEW w \in Widths, NEW want \in Requests,
               SetDesktopSize(v, w, want)
        PROVE  LayoutInv'
    BY <1>1, <2>1, LayoutSetDesktopSize
  <2>2. CASE UNCHANGED <<server, pc, req, broken>>
    BY <2>2, LayoutSame
  <2> QED
    BY <1>1, <2>1, <2>2
    DEF ViewerStep, Connect, ServerInit, Disconnect, SetEncodings,
        UpdateRequest, Retry, RefuseRequest, Attempt
<1>2. CASE pc = "idle" /\ XClientStep
  <2>1. ASSUME NEW how, Draw(how)
        PROVE  LayoutInv'
    BY <2>1, LayoutSame DEF Draw
  <2> QED
    BY <1>2, <2>1, LayoutCrtcSet, LayoutScreenSizeSet DEF XClientStep
<1>3. CASE ResizeStep
  BY <1>3, LayoutDisabledAll, LayoutResize, LayoutResizeFails,
     LayoutAnswerError, LayoutDisableOutput, LayoutExpose, LayoutAnnounce,
     LayoutCrop
  DEF ResizeStep
<1>4. CASE UNCHANGED desktopVars
  BY <1>4, LayoutSame DEF desktopVars
<1> QED
  BY <1>1, <1>2, <1>3, <1>4, ZenonT(60) DEF DesktopNext

-----------------------------------------------------------------------------
(* What a viewer learns of the layout.                                      *)

\* A viewer's record with what an update may have told it.
Learns(t, c, size, layout) ==
  \/ t.layout = c.layout \/ t.layout = NoLayout
  \/ t.layout = layout /\ t.width = size

\* A layout comes with the size that it belongs to, and never with the answer
\* to a request that failed.
LEMMA LearnsLemma ==
  ASSUME NEW c, Sane(c), NEW how, NEW size, NEW layout, NEW blocked
  PROVE  LET t == SendFramebufferUpdate(c, how, size, layout, blocked)
         IN  /\ Learns(t, c, size, layout)
             /\ IsError(c) => t.layout = c.layout \/ t.layout = NoLayout
<1> DEFINE t     == SendFramebufferUpdate(c, how, size, layout, blocked)
           told  == Told(c, size, layout)
           sent  == Pixels(told, size)
           eds   == c.pendingEDS /\ c.eds /\ ~IsError(c)
           ds    == c.pendingDS /\ c.ds
           missed == \/ c.pendingEDS /\ c.stale /\ IsError(c)
                     \/ c.pendingDS /\ ~c.eds /\ c.reason = "server"
           no     == FALSE
           width1 == IF eds \/ ds THEN size ELSE c.width
           known  == IF eds THEN layout ELSE c.layout
           behind == c.stale /\ ~eds
           untold == ~eds /\ ~ds /\ (c.untold \/ (missed /\ c.width # size))
<1>1. told = [c EXCEPT !.pendingDS = no, !.pendingEDS = no, !.width = width1,
                       !.layout = known, !.stale = behind, !.untold = untold]
  BY DEF Told
<1>2. /\ known = c.layout \/ (known = layout /\ width1 = size)
      /\ IsError(c) => known = c.layout
  OBVIOUS
<1> HIDE DEF eds, ds, missed, no, width1, known, behind, untold
<1>3. /\ told = [f \in Fields |-> told[f]]
      /\ told.width = width1 /\ told.layout = known
  BY <1>1 DEF Sane, Fields
<1> HIDE DEF told
<1>4. sent.layout = told.layout /\ sent.width = told.width
  <2> DEFINE misfit == told.misfit \/ (told.width # size /\ ~told.untold)
  <2>1. sent = told \/ sent = [told EXCEPT !.modified = FALSE, !.misfit = misfit]
    BY DEF Pixels
  <2> HIDE DEF misfit, sent
  <2> QED
    BY <1>3, <2>1 DEF Fields
<1> HIDE DEF sent
<1>5. t = c \/ t = NoClient \/ t = told \/ t = sent
  BY DEF SendFramebufferUpdate, told, sent
<1> HIDE DEF t
<1>6. /\ t.layout = c.layout \/ t.layout = NoLayout
           \/ (t.layout = known /\ t.width = width1)
  BY <1>3, <1>4, <1>5, NoClientLemma
<1>7. /\ Learns(t, c, size, layout)
      /\ IsError(c) => t.layout = c.layout \/ t.layout = NoLayout
  BY <1>2, <1>6 DEF Learns
<1> QED
  BY <1>7 DEF t

\* ToldLayoutFits, of one step.
StepTells ==
  \A v \in Viewers :
    cl'[v].layout # cl[v].layout /\ ~broken /\ pc # "disable" =>
      Fits(cl'[v].layout, cl'[v].width)

\* The layout in force after a step lies on the desktop.
HereFits == ~broken => Fits(Here', width')

LEMMA NoLayoutFits == \A size : Fits(NoLayout, size)
BY DEF Fits, NoLayout

LEMMA HereFitsLemma ==
  ASSUME LayoutInv', Steady', broken' = broken
  PROVE  HereFits
<1>1. ~broken' => Fits(Here', width')
  BY LayoutLemma DEF LayoutInv, LayoutsFit, Outputs, Here
<1> QED
  BY <1>1 DEF HereFits

\* Every viewer learns the layout in force, or nothing.
LEMMA AllLearn ==
  ASSUME HereFits,
         \A v \in Viewers :
           cl'[v].layout # cl[v].layout => Learns(cl'[v], cl[v], width', Here')
  PROVE  StepTells
BY NoLayoutFits DEF StepTells, Learns, HereFits

\* What is changed in one viewer's record.
LEMMA OneLearns ==
  ASSUME DesktopInv, HereFits, NEW v \in Viewers, NEW t,
         cl' = [cl EXCEPT ![v] = t], Learns(t, cl[v], width', Here')
  PROVE  StepTells
<1>1. \A u \in Viewers : cl'[u] = IF u = v THEN t ELSE cl[u]
  BY DEF DesktopInv, Records
<1> QED
  BY <1>1, AllLearn

LEMMA AttemptTells ==
  ASSUME DesktopInv, HereFits, Here' = Here, width' = width,
         NEW v \in Viewers, NEW c, NEW how, Attempt(v, c, how), Sane(c),
         c.layout = cl[v].layout
  PROVE  StepTells
<1> DEFINE t == SendFramebufferUpdate(c, how, width, Here, blockUpdates)
<1>1. cl' = [cl EXCEPT ![v] = t]
  BY DEF Attempt, Send
<1>2. Learns(t, c, width, Here)
  BY LearnsLemma
<1> HIDE DEF t
<1>3. Learns(t, cl[v], width', Here')
  BY <1>2 DEF Learns
<1> QED
  BY <1>1, <1>3, OneLearns

\* The answer to a request that failed tells no layout.
LEMMA AnswerTells ==
  ASSUME DesktopInv, NEW v \in Viewers, NEW how, Answer(v, how),
         cl[v].state = "absent" \/ cl[v].eds
  PROVE  StepTells
<1> DEFINE c == Answering(cl[v], width', Here')
           t == SendFramebufferUpdate(c, how, width', Here', blockUpdates')
<1>1. CASE cl[v].state = "absent"
  BY <1>1 DEF Answer, StepTells
<1>2. CASE cl[v].state # "absent"
  <2>1. cl' = [cl EXCEPT ![v] = t]
    <3>1. c = [cl[v] EXCEPT !.pendingEDS = TRUE, !.reason = "client",
                 !.result = "error",
                 !.stale = @ \/ (cl[v].eds /\ (cl[v].width # width'
                                                \/ cl[v].layout # Here'))]
      BY DEF Answering
    <3>. QED
      BY <1>2, <3>1 DEF Answer
  <2>2. Sane(c) /\ c.layout = cl[v].layout /\ IsError(c)
    BY <1>2, AnsweringLemma DEF DesktopInv, Records
  <2> HIDE DEF c
  <2>3. t.layout = cl[v].layout \/ t.layout = NoLayout
    BY <2>2, LearnsLemma
  <2> HIDE DEF t
  <2>4. \A u \in Viewers : cl'[u] = IF u = v THEN t ELSE cl[u]
    BY <2>1 DEF DesktopInv, Records
  <2> QED
    BY <2>3, <2>4, NoLayoutFits DEF StepTells
<1> QED
  BY <1>1, <1>2

\* All are told of what is in force.
LEMMA AnnounceTells ==
  ASSUME DesktopInv, HereFits, NEW by, NEW reason, NEW how,
         SendDesktopSizeAll(by, reason, how),
         \/ reason = "server"
         \/ \A v \in Viewers : cl[v].state = "absent" \/ cl[v].ds \/ cl[v].eds
  PROVE  StepTells
<1> DEFINE why(v) == IF v # by /\ reason = "client" THEN "other" ELSE reason
           c(v)   == Announcing(cl[v], why(v))
           t(v)   == SendFramebufferUpdate(c(v), how[v], width', Here',
                                           blockUpdates')
<1>1. cl' = [v \in Viewers |-> IF cl[v].state = "absent" THEN cl[v] ELSE t(v)]
  BY DEF SendDesktopSizeAll, Announcing, Here
<1>2. \A v \in Viewers : Sane(cl[v])
  BY DEF DesktopInv, Records
<1>3. ASSUME NEW v \in Viewers
      PROVE  Learns(t(v), cl[v], width', Here')
  <2>1. \/ why(v) = "server" \/ cl[v].ds \/ cl[v].eds
        \/ cl[v].state = "absent"
    OBVIOUS
  <2> HIDE DEF why
  <2>2. Sane(c(v)) /\ c(v).layout = cl[v].layout
    BY <1>2, <2>1, AnnouncingLemma
  <2> HIDE DEF c
  <2>3. Learns(t(v), c(v), width', Here')
    BY <2>2, LearnsLemma
  <2> HIDE DEF t
  <2> QED
    BY <2>2, <2>3 DEF Learns
<1> HIDE DEF t
<1>4. \A v \in Viewers : cl'[v] = cl[v] \/ cl'[v] = t(v)
  BY <1>1
<1> QED
  BY <1>3, <1>4, AllLearn

LEMMA UnchangedTells == ASSUME cl' = cl PROVE StepTells
BY DEF StepTells

-----------------------------------------------------------------------------
(* The steps, each of which tells no layout but one that fits.              *)

LEMMA ViewerTells ==
  ASSUME DesktopInv, LayoutInv', pc = "idle", ViewerStep
  PROVE  StepTells
<1> USE IdleClaims
<1>1. ASSUME UNCHANGED <<server, pc, req, broken>>
      PROVE  HereFits /\ Here' = Here /\ width' = width
  BY <1>1, HereFitsLemma DEF Steady, server, Here
<1>2. PICK v \in Viewers :
        \/ Connect(v) \/ ServerInit(v) \/ Disconnect(v)
        \/ \E caps : SetEncodings(v, caps)
        \/ \E w \in Widths, want \in Requests : SetDesktopSize(v, w, want)
        \/ \E how : \/ \E incremental \in BOOLEAN : UpdateRequest(v, incremental, how)
                    \/ Retry(v, how)
                    \/ RefuseRequest(v, how)
  BY DEF ViewerStep
<1> DEFINE c == cl[v]
<1>3. Sane(c)
  OBVIOUS
<1>4. CASE Connect(v)
  <2> DEFINE t == [NoClient EXCEPT !.state = "handshake", !.modified = TRUE]
  <2>1. cl' = [cl EXCEPT ![v] = t] /\ UNCHANGED <<server, pc, req, broken>>
    BY <1>4 DEF Connect
  <2>2. t.layout = NoLayout
    BY DEF NoClient
  <2> HIDE DEF t
  <2> QED
    BY <1>1, <2>1, <2>2, OneLearns DEF Learns
<1>5. CASE ServerInit(v)
  <2> DEFINE t == [c EXCEPT !.state = "normal", !.width = width]
  <2>1. cl' = [cl EXCEPT ![v] = t] /\ UNCHANGED <<server, pc, req, broken>>
    BY <1>5 DEF ServerInit
  <2>2. t.layout = c.layout
    BY <1>3 DEF Sane, Fields
  <2> HIDE DEF t
  <2> QED
    BY <1>1, <2>1, <2>2, OneLearns DEF Learns
<1>6. CASE Disconnect(v)
  <2>1. cl' = [cl EXCEPT ![v] = NoClient] /\ UNCHANGED <<server, pc, req, broken>>
    BY <1>6 DEF Disconnect
  <2> QED
    BY <1>1, <2>1, NoClientLemma, OneLearns DEF Learns
<1>7. ASSUME NEW caps, SetEncodings(v, caps)
      PROVE  StepTells
  <2> DEFINE ds  == c.ds \/ "ds" \in caps
             eds == c.eds \/ "eds" \in caps
             t   == [c EXCEPT !.ds = ds, !.eds = eds]
  <2>1. cl' = [cl EXCEPT ![v] = t] /\ UNCHANGED <<server, pc, req, broken>>
    BY <1>7 DEF SetEncodings
  <2> HIDE DEF ds, eds
  <2>2. t.layout = c.layout
    BY <1>3 DEF Sane, Fields
  <2> HIDE DEF t
  <2> QED
    BY <1>1, <2>1, <2>2, OneLearns DEF Learns
<1>8. ASSUME NEW w \in Widths, NEW want \in Requests, SetDesktopSize(v, w, want)
      PROVE  StepTells
  <2> DEFINE size    == Least(w, MaxWidth)
             clipped == ClipScreens(assignIDs(cl[v].layout, want), size)
  <2>1. /\ Knows(v)
        /\ Reconfigure(v, size, clipped) \/ ReconfigureFails(v, clipped)
    BY <1>8 DEF SetDesktopSize
  <2> HIDE DEF size, clipped
  <2>2. CASE Reconfigure(v, size, clipped)
    BY <2>2, UnchangedTells DEF Reconfigure
  <2>3. CASE ReconfigureFails(v, clipped)
    <3>1. \E how : Answer(v, how)
      BY <2>3 DEF ReconfigureFails
    <3>2. cl[v].eds
      BY <2>1 DEF Knows, DesktopInv, Records, Sane
    <3> QED
      BY <3>1, <3>2, AnswerTells
  <2> QED
    BY <2>1, <2>2, <2>3
<1>9. ASSUME NEW how, NEW incremental \in BOOLEAN,
             UpdateRequest(v, incremental, how)
      PROVE  StepTells
  <2> DEFINE modified == cl[v].modified \/ ~incremental
             more == ~incremental
             d == [cl[v] EXCEPT !.modified = modified, !.pendingEDS = @ \/ more]
  <2>1. Attempt(v, d, IF d.modified THEN how ELSE "held")
    BY <1>9 DEF UpdateRequest
  <2>2. more \in BOOLEAN
    OBVIOUS
  <2> HIDE DEF modified, more
  <2>3. Sane(d) /\ d.layout = cl[v].layout
    BY <1>3, <2>2, MarkedLayout
  <2>4. \E h : Attempt(v, d, h)
    BY <2>1
  <2> HIDE DEF d
  <2>5. UNCHANGED <<server, pc, req, broken>>
    BY <2>4 DEF Attempt
  <2> QED
    BY <1>1, <2>3, <2>4, <2>5, AttemptTells
<1>10. ASSUME NEW how, Retry(v, how)
       PROVE  StepTells
  <2>1. Attempt(v, cl[v], how) /\ UNCHANGED <<server, pc, req, broken>>
    BY <1>10 DEF Retry, Attempt
  <2> QED
    BY <1>1, <1>3, <2>1, AttemptTells
<1>11. ASSUME NEW how, RefuseRequest(v, how)
       PROVE  StepTells
  BY <1>3, <1>11, AnswerTells DEF RefuseRequest, Knows, Sane
<1> QED
  BY <1>2, <1>4, <1>5, <1>6, <1>7, <1>8, <1>9, <1>10, <1>11

\* What is drawn is sent with the layout in force, or not yet.
LEMMA DrawnTells ==
  ASSUME DesktopInv, NEW how, Drawn(how), Here' = Here, width' = width,
         HereFits \/ blockUpdates
  PROVE  StepTells
<1> DEFINE yes  == TRUE
           d(v) == [cl[v] EXCEPT !.modified = yes]
           t(v) == SendFramebufferUpdate(d(v), how[v], width, Here, blockUpdates)
<1>1. cl' = [v \in Viewers |-> IF cl[v].state = "absent" THEN cl[v]
                               ELSE IF blockUpdates THEN d(v) ELSE t(v)]
  BY DEF Drawn, Send
<1> HIDE DEF yes
<1>2. ASSUME NEW v \in Viewers
      PROVE  /\ d(v).layout = cl[v].layout
             /\ Learns(t(v), cl[v], width', Here')
  <2>1. Sane(d(v)) /\ d(v).layout = cl[v].layout
    BY DrawnLemma DEF DesktopInv, Records
  <2> HIDE DEF d
  <2>2. Learns(t(v), d(v), width, Here)
    BY <2>1, LearnsLemma
  <2> HIDE DEF t
  <2> QED
    BY <2>1, <2>2 DEF Learns
<1> HIDE DEF d, t
<1>3. CASE blockUpdates
  BY <1>1, <1>2, <1>3 DEF StepTells
<1>4. CASE ~blockUpdates
  BY <1>1, <1>2, <1>4, AllLearn
<1> QED
  BY <1>3, <1>4

LEMMA XClientTells ==
  ASSUME DesktopInv, LayoutInv', pc = "idle", XClientStep
  PROVE  StepTells
<1>1. ASSUME NEW how, Draw(how)
      PROVE  StepTells
  <2>1. UNCHANGED <<server, pc, req, broken>> /\ Drawn(how)
    BY <1>1 DEF Draw
  <2>2. HereFits /\ Here' = Here /\ width' = width
    BY <2>1, HereFitsLemma DEF Steady, server, Here
  <2> QED
    BY <2>1, <2>2, DrawnTells
<1>2. ASSUME NEW o, NEW g, NEW how, CrtcSet(o, g, how)
      PROVE  StepTells
  <2>1. /\ pc' = pc /\ broken' = broken
        /\ SendDesktopSizeAll(NoViewer, "server", how)
    BY <1>2 DEF CrtcSet
  <2>2. HereFits
    BY <2>1, HereFitsLemma DEF Steady
  <2> QED
    BY <2>1, <2>2, AnnounceTells
<1>3. ASSUME NEW w, ScreenSizeSet(w)
      PROVE  StepTells
  BY <1>3, UnchangedTells DEF ScreenSizeSet
<1> QED
  BY <1>1, <1>2, <1>3 DEF XClientStep

\* A change that is given up tells nothing but the error.
LEMMA GiveUpTells ==
  ASSUME DesktopInv, NEW how, GiveUp(how), pc \in {"resize", "answer"}
  PROVE  StepTells
<1>1. CASE req.by = NoViewer
  BY <1>1, UnchangedTells DEF GiveUp
<1>2. CASE req.by # NoViewer
  <2>1. Answer(req.by, how)
    BY <1>2 DEF GiveUp
  <2>2. req.by \in Viewers /\ (cl[req.by].state = "absent" \/ cl[req.by].eds)
    BY <1>2 DEF DesktopInv, Change
  <2> QED
    BY <2>1, <2>2, AnswerTells
<1> QED
  BY <1>1, <1>2

LEMMA CropTells ==
  ASSUME DesktopInv, NEW closed, NEW uncropped, NEW how,
         CropScreens(closed, uncropped, how)
  PROVE  StepTells
<1> DEFINE yes  == TRUE
           d(v) == [cl[v] EXCEPT !.modified = yes]
           c(v) == IF v \in closed THEN NoClient
                   ELSE IF cl[v].state = "absent" THEN cl[v] ELSE d(v)
           u(v) == [c(v) EXCEPT !.untold = yes, !.stale = yes]
           a(v) == [u(v) EXCEPT !.pendingEDS = yes, !.reason = "client",
                                !.result = "error"]
           t(v) == SendFramebufferUpdate(a(v), how, width, Here', FALSE)
<1>1. ASSUME NEW v \in Viewers
      PROVE  cl'[v] = c(v) \/ cl'[v] = u(v) \/ cl'[v] = t(v)
  <2>1. CASE closed = {}
    BY <2>1 DEF CropScreens
  <2>2. CASE closed # {}
    BY <2>2 DEF CropScreens
  <2> QED
    BY <2>1, <2>2
<1>2. yes = TRUE
  OBVIOUS
<1> HIDE DEF yes
<1>3. ASSUME NEW v \in Viewers
      PROVE  /\ Sane(c(v))
             /\ c(v).layout = cl[v].layout \/ c(v).layout = NoLayout
  <2>1. Sane(cl[v])
    BY DEF DesktopInv, Records
  <2>2. Sane(d(v)) /\ d(v).layout = cl[v].layout
    BY <2>1, DrawnLemma, SMTT(40)
  <2> HIDE DEF d
  <2> QED
    BY <2>1, <2>2, NoClientLemma
<1> HIDE DEF c
<1>4. ASSUME NEW v \in Viewers
      PROVE  /\ u(v).layout = c(v).layout
             /\ Sane(a(v)) /\ a(v).layout = c(v).layout /\ IsError(a(v))
  BY <1>2, <1>3, AbandonedLemma
<1> HIDE DEF u, a
<1>5. ASSUME NEW v \in Viewers
      PROVE  t(v).layout = a(v).layout \/ t(v).layout = NoLayout
  BY <1>4, LearnsLemma
<1> HIDE DEF t
<1> QED
  BY <1>1, <1>3, <1>4, <1>5, NoLayoutFits DEF StepTells

LEMMA ResizeTells ==
  ASSUME DesktopInv, LayoutInv', ResizeStep
  PROVE  StepTells
<1>1. CASE DisabledAll \/ Resize
  BY <1>1, UnchangedTells DEF DisabledAll, Resize
<1>2. ASSUME NEW how, ResizeFails(how) \/ AnswerError(how)
      PROVE  StepTells
  BY <1>2, GiveUpTells DEF ResizeFails, AnswerError
<1>3. ASSUME NEW how, DisableOutput(how)
      PROVE  StepTells
  BY <1>3 DEF DisableOutput, StepTells
<1>4. ASSUME NEW how, Expose(how)
      PROVE  StepTells
  <2>1. /\ Drawn(how) /\ blockUpdates /\ Here' = Here /\ width' = width
    BY <1>4 DEF Expose, server, Here, DesktopInv, Change
  <2> QED
    BY <2>1, DrawnTells
<1>5. ASSUME NEW how, Announce(how)
      PROVE  StepTells
  <2> DEFINE reason == IF req.by = NoViewer THEN "server" ELSE "client"
  <2>1. /\ broken' = broken /\ pc' \in {"idle", "answer"} /\ pc = "announce"
        /\ SendDesktopSizeAll(req.by, reason, how)
    BY <1>5 DEF Announce
  <2>2. \/ reason = "server"
        \/ \A v \in Viewers : cl[v].state = "absent" \/ cl[v].ds \/ cl[v].eds
    BY <2>1 DEF DesktopInv, Change
  <2> HIDE DEF reason
  <2>3. HereFits
    BY <2>1, HereFitsLemma DEF Steady
  <2> QED
    BY <2>1, <2>2, <2>3, AnnounceTells
<1>6. ASSUME NEW closed, NEW uncropped, NEW how,
             CropScreens(closed, uncropped, how)
      PROVE  StepTells
  BY <1>6, CropTells
<1> QED
  BY <1>1, <1>2, <1>3, <1>4, <1>5, <1>6 DEF ResizeStep

\* However many viewers, screens and outputs there are, a layout that a viewer
\* is told of lies within the size that it is told with it, but while a request
\* switches outputs off and after a change was given up (rfbClipScreens, the
\* cropping in vncScreenSetSize, vncUpdateScreenLayout, ResizeDesktop).
THEOREM LayoutFitsSize == DesktopSpec => ToldLayoutFits
<1>1. DesktopInit => LayoutInv
  BY LayoutInvStarts
<1>2. DesktopInv /\ LayoutInv /\ [DesktopNext]_desktopVars => LayoutInv'
  BY LayoutNext
<1>3. DesktopInv /\ LayoutInv' /\ DesktopNext => StepTells
  BY ViewerTells, XClientTells, ResizeTells DEF DesktopNext
<1>4. DesktopInv /\ LayoutInv' /\ [DesktopNext]_desktopVars =>
        [\A v \in Viewers :
           cl'[v].layout # cl[v].layout /\ ~broken /\ pc # "disable" =>
             Fits(cl'[v].layout, cl'[v].width)]_desktopVars
  BY <1>3 DEF StepTells
<1>5. DesktopSpec => []LayoutInv
  BY <1>1, <1>2, DesktopInvariance, PTL DEF DesktopSpec
<1> QED
  BY <1>4, <1>5, DesktopInvariance, PTL DEF DesktopSpec, ToldLayoutFits

==============================================================================
