--------------------- MODULE BluetoothAudioSessionProofs ---------------------
(***************************************************************************)
(* Proofs about BluetoothAudioSession for any number of ports, observers,  *)
(* stacks and sessions.                                                    *)
(***************************************************************************)
EXTENDS BluetoothAudioSession, WellFoundedInduction, TLAPS

\* The part of the type invariant the registration of observers rests on.
ObserverTypes ==
    /\ observers \in [Cookies -> Ports \cup {NoPort}]
    /\ cookie \in [Ports -> 0 .. CookieLimit]
    /\ life \in [Ports -> Life]

\* The inductive form of CookieOwnership.
ObserverInv == ObserverTypes /\ CookieOwnership

\* The queue the session maps, if any, is the one of the stack it calls.
QueueInv == data_mq # 0 => data_mq = stack_iface

\* Only incarnations that ran died, and only a port that is set up has a cookie
\* or plays.
PlayersOpen ==
    /\ dead \subseteq 1 .. alive
    /\ \A p \in Ports : cookie[p] # 0 \/ state[p] = "STARTED" => life[p] = "open"

\* A stack that is yet to come has no provider.  As long as the session was not
\* lost, it is ready while the running stack has a provider: what a port plays on
\* is what the stack answers for.
HostIsReady ==
    /\ \A s \in StackIds : s > alive => ~ host[s]
    /\ ~ lost /\ Running(alive) /\ host[alive] => IsSessionReady

\* The inductive form of SessionInv.
BackedInv ==
    /\ TypeOK
    /\ CookieOwnership
    /\ PlayersOpen
    /\ HostIsReady
    /\ StartedHasSession

-----------------------------------------------------------------------------
\* A set of natural numbers that is not empty has a least element.
LEMMA LeastNat ==
    ASSUME NEW T, T \subseteq Nat, T # {}
    PROVE  \E c \in T : \A d \in T : c <= d
<1>1. PICK c \in T : \A d \in T : ~ (<<d, c>> \in OpToRel(<, Nat))
  BY WFMin, NatLessThanWellFounded
<1>2. ASSUME NEW d \in T PROVE c <= d
  <2>1. c \in Nat /\ d \in Nat
    OBVIOUS
  <2>2. ~ (d < c)
    BY <1>1, <2>1 DEF OpToRel
  <2> QED
    BY <2>1, <2>2
<1> QED
  BY <1>2

\* If a cookie is free, the search of RegisterStatusCback finds a free one.
LEMMA LowestFreeIsFree ==
    ASSUME FreeCookies # {}
    PROVE  LowestFree \in Cookies /\ observers[LowestFree] = NoPort
<1>1. FreeCookies \subseteq Nat
  BY SessionAssumption DEF FreeCookies, Cookies
<1>2. \E c \in FreeCookies : \A d \in FreeCookies : c <= d
  BY <1>1, LeastNat
<1>3. LowestFree \in FreeCookies
  BY <1>2 DEF LowestFree
<1> QED
  BY <1>3 DEF FreeCookies

-----------------------------------------------------------------------------
(* Which steps matter *)

\* Only four steps of SetUp and TearDown touch the observers; the stack's never.
LEMMA ObserverSteps ==
    ASSUME [Next]_vars
    PROVE  \/ UNCHANGED <<observers, cookie, life>>
           \/ \E p \in Ports : \/ SetUpCheck(p) \/ RegisterStatusCback(p)
                               \/ SetUpDone(p) \/ TearDown(p)
<1>1. CASE StackStep
  BY <1>1 DEF StackStep, startSession, endSession, StackDies, StackRestarts,
      binderDied, streamAnswered, streamReported, updateAudioConfiguration, portVars
<1>2. CASE PortStep
  BY <1>2 DEF PortStep, Start, Suspend, Ask, Stop, Unsuspend, SetState
<1>3. CASE UNCHANGED vars
  BY <1>3 DEF vars, portVars
<1> QED
  BY <1>1, <1>2, <1>3 DEF Next

-----------------------------------------------------------------------------
(* The observers *)

\* A new session has no observers.
LEMMA ObserverInit == Init => ObserverInv
  BY SessionAssumption
     DEF Init, ObserverInv, ObserverTypes, CookieOwnership, Cookies, Life

\* The readiness check of SetUp changes no observer.
LEMMA ObserverSetUpCheck ==
    ASSUME ObserverInv, NEW p \in Ports, SetUpCheck(p)
    PROVE  ObserverInv'
<1>1. UNCHANGED <<observers, cookie>> /\ life[p] = "closed"
      /\ life' = [life EXCEPT ![p] = "checked"]
  BY DEF SetUpCheck
<1>2. ObserverTypes'
  BY <1>1 DEF ObserverInv, ObserverTypes, Life
<1>3. CookieOwnership'
  BY <1>1, SessionAssumption DEF ObserverInv, ObserverTypes, CookieOwnership, Cookies
<1> QED
  BY <1>2, <1>3 DEF ObserverInv

\* Registering takes the lowest free cookie, or fails and leaves the port closed.
LEMMA ObserverRegister ==
    ASSUME ObserverInv, NEW p \in Ports, RegisterStatusCback(p)
    PROVE  ObserverInv'
<1>1. CASE FreeCookies = {}
  <2>1. UNCHANGED <<observers, cookie>> /\ life[p] = "checked"
        /\ life' = [life EXCEPT ![p] = "closed"]
    BY <1>1 DEF RegisterStatusCback
  <2>2. ObserverTypes'
    BY <2>1 DEF ObserverInv, ObserverTypes, Life
  <2>3. CookieOwnership'
    BY <2>1, SessionAssumption
       DEF ObserverInv, ObserverTypes, CookieOwnership, Cookies
  <2> QED
    BY <2>2, <2>3 DEF ObserverInv
<1>2. CASE FreeCookies # {}
  <2> DEFINE c == LowestFree
  <2>1. c \in Cookies /\ observers[c] = NoPort
    BY <1>2, LowestFreeIsFree
  <2>2. /\ observers' = [observers EXCEPT ![c] = p]
        /\ life[p] = "checked"
        /\ life' = [life EXCEPT ![p] = "registered"]
        /\ UNCHANGED cookie
    BY <1>2 DEF RegisterStatusCback
  <2> HIDE DEF c
  <2>3. ObserverTypes'
    BY <2>1, <2>2 DEF ObserverInv, ObserverTypes, Life
  <2>4. \A d \in Cookies : observers[d] # p
    BY <2>2, SessionAssumption DEF ObserverInv, CookieOwnership
  <2>5. CookieOwnership'
    BY <2>1, <2>2, <2>4, SessionAssumption
       DEF ObserverInv, ObserverTypes, CookieOwnership, Cookies
  <2> QED
    BY <2>3, <2>5 DEF ObserverInv
<1> QED
  BY <1>1, <1>2

\* cookie_ is assigned the slot that registration took.
LEMMA ObserverSetUpDone ==
    ASSUME ObserverInv, NEW p \in Ports, SetUpDone(p)
    PROVE  ObserverInv'
<1> DEFINE c == CHOOSE d \in Cookies : observers[d] = p
<1>1. c \in Cookies /\ observers[c] = p
  BY DEF SetUpDone, ObserverInv, CookieOwnership
<1>2. /\ life' = [life EXCEPT ![p] = "open"]
      /\ cookie' = [cookie EXCEPT ![p] = c]
      /\ UNCHANGED observers
  BY DEF SetUpDone
<1> HIDE DEF c
<1>3. ObserverTypes'
  BY <1>1, <1>2, SessionAssumption DEF ObserverInv, ObserverTypes, Life, Cookies
<1>4. CookieOwnership'
  BY <1>1, <1>2, SessionAssumption
     DEF ObserverInv, ObserverTypes, CookieOwnership, Cookies
<1> QED
  BY <1>3, <1>4 DEF ObserverInv

\* TearDown gives its own slot back, and no other.
LEMMA ObserverTearDown ==
    ASSUME ObserverInv, NEW p \in Ports, TearDown(p)
    PROVE  ObserverInv'
<1>1. cookie[p] \in Cookies /\ observers[cookie[p]] = p
  BY DEF TearDown, ObserverInv, CookieOwnership
<1>2. /\ life' = [life EXCEPT ![p] = "closed"]
      /\ cookie' = [cookie EXCEPT ![p] = 0]
      /\ observers' = [observers EXCEPT ![cookie[p]] = NoPort]
  BY DEF TearDown
<1>3. ObserverTypes'
  BY <1>1, <1>2, SessionAssumption DEF ObserverInv, ObserverTypes, Life, Cookies
<1>4. \A d \in Cookies : observers[d] = p => d = cookie[p]
  BY <1>1, SessionAssumption DEF ObserverInv, CookieOwnership
<1>5. CookieOwnership'
  BY <1>1, <1>2, <1>4, SessionAssumption
     DEF ObserverInv, ObserverTypes, CookieOwnership, Cookies
<1> QED
  BY <1>3, <1>5 DEF ObserverInv

\* Every step keeps the ownership of cookies; those of the stack touch no observer.
LEMMA ObserverNext ==
    ASSUME ObserverInv, [Next]_vars
    PROVE  ObserverInv'
<1>1. CASE UNCHANGED <<observers, cookie, life>>
  BY <1>1 DEF ObserverInv, ObserverTypes, CookieOwnership
<1>2. ASSUME NEW p \in Ports,
             SetUpCheck(p) \/ RegisterStatusCback(p) \/ SetUpDone(p) \/ TearDown(p)
      PROVE  ObserverInv'
  BY <1>2, ObserverSetUpCheck, ObserverRegister, ObserverSetUpDone, ObserverTearDown
<1> QED
  BY <1>1, <1>2, ObserverSteps

\* Callbacks go to the right port: for any number of ports that are set up and
\* torn down in any order, with observers_ full or not, every registered port
\* is the observer under its own cookie and under no other.
THEOREM CallbacksReachOwner == Spec => []CookieOwnership
<1>1. Init => ObserverInv
  BY ObserverInit
<1>2. ObserverInv /\ [Next]_vars => ObserverInv'
  BY ObserverNext
<1>3. ObserverInv => CookieOwnership
  BY DEF ObserverInv
<1> QED
  BY <1>1, <1>2, <1>3, PTL DEF Spec

-----------------------------------------------------------------------------
(* The data queue *)

\* The stack a ready session calls and the queue it maps belong together, for
\* any number of stacks that start, replace, end and lose sessions.
THEOREM QueueHasOneOwner == Spec => []OneOwner
<1>1. Init => QueueInv
  BY DEF Init, QueueInv
<1>2. QueueInv /\ [Next]_vars => QueueInv'
  <2> SUFFICES ASSUME QueueInv, [Next]_vars PROVE QueueInv'
    OBVIOUS
  <2>1. CASE StackStep
    BY <2>1 DEF StackStep, startSession, OnSessionStarted, OnSessionStartedBadMq,
        endSession, OnSessionEnded, StackDies, StackRestarts, binderDied,
        streamAnswered, streamReported, updateAudioConfiguration, sessionVars, QueueInv
  <2>2. CASE PortStep
    BY <2>2 DEF PortStep, SetUpCheck, RegisterStatusCback, SetUpDone, TearDown,
        Start, Suspend, Ask, Stop, Unsuspend, SetState, sessionVars, QueueInv
  <2>3. CASE UNCHANGED vars
    BY <2>3 DEF vars, sessionVars, QueueInv
  <2> QED
    BY <2>1, <2>2, <2>3 DEF Next
<1>3. QueueInv => OneOwner
  BY DEF QueueInv, OneOwner, IsSessionReady
<1> QED
  BY <1>1, <1>2, <1>3, PTL DEF Spec

-----------------------------------------------------------------------------
(* The session behind a port that plays *)

\* A port that is set up is reached by every report.
LEMMA OpenReached ==
    ASSUME BackedInv, NEW p \in Ports, life[p] = "open"
    PROVE  p \in Reached
  BY SessionAssumption DEF BackedInv, CookieOwnership, Reached, Cookies

\* A report of a session that begins or ends leaves no port playing.
LEMMA ReportStopsPorts ==
    ASSUME BackedInv, ReportSessionStatus
    PROVE  /\ state' \in [Ports -> StreamStates]
           /\ \A p \in Ports : state'[p] # "STARTED"
<1>1. state' \in [Ports -> StreamStates]
  BY DEF BackedInv, TypeOK, ReportSessionStatus, StreamStates
<1>2. ASSUME NEW p \in Ports PROVE state'[p] # "STARTED"
  BY OpenReached DEF BackedInv, PlayersOpen, ReportSessionStatus
<1> QED
  BY <1>1, <1>2

\* An answer makes no port play that is not set up.
LEMMA AnswerStartsOpen ==
    ASSUME BackedInv, NEW status \in Statuses, ReportControlStatus(status)
    PROVE  /\ state' \in [Ports -> StreamStates]
           /\ \A p \in Ports : state'[p] = "STARTED" => life[p] = "open"
<1>1. ASSUME NEW prev \in StreamStates PROVE ControlResult(prev, status) \in StreamStates
  BY DEF ControlResult, StreamStates
<1>2. state' \in [Ports -> StreamStates]
  BY <1>1 DEF BackedInv, TypeOK, ReportControlStatus
<1>3. ASSUME NEW p \in Ports, state'[p] = "STARTED" PROVE life[p] = "open"
  <2>1. CASE p \in Reached
    BY <2>1 DEF Reached, BackedInv, PlayersOpen
  <2>2. CASE p \notin Reached
    BY <1>3, <2>2 DEF ReportControlStatus, BackedInv, PlayersOpen
  <2> QED
    BY <2>1, <2>2
<1> QED
  BY <1>2, <1>3

\* The end of a session leaves no port playing, unless it was lost before.
LEMMA EndStopsPorts ==
    ASSUME BackedInv, OnSessionEnded
    PROVE  /\ stack_iface' = 0 /\ audio_config' = 0 /\ data_mq' = 0
           /\ state' \in [Ports -> StreamStates]
           /\ \A p \in Ports : state'[p] = "STARTED" => life[p] = "open"
           /\ ~ lost => \A p \in Ports : state'[p] # "STARTED"
<1>1. CASE IsSessionReady
  BY <1>1, ReportStopsPorts DEF OnSessionEnded
<1>2. CASE ~ IsSessionReady
  BY <1>2 DEF OnSessionEnded, BackedInv, TypeOK, PlayersOpen, StartedHasSession
<1> QED
  BY <1>1, <1>2

\* At first no port plays.
LEMMA BackedInit == Init => BackedInv
<1> SUFFICES ASSUME Init PROVE BackedInv
  OBVIOUS
<1>1. TypeOK
  <2>1. lost \in BOOLEAN
    BY Zenon DEF Init
  <2> QED
    BY <2>1, SessionAssumption DEF Init, TypeOK, StackIds, Cookies, Life, StreamStates
<1>2. CookieOwnership
  BY ObserverInit DEF ObserverInv
<1>3. PlayersOpen /\ HostIsReady /\ StartedHasSession
  BY SessionAssumption DEF Init, PlayersOpen, HostIsReady, StartedHasSession, StackIds
<1> QED
  BY <1>1, <1>2, <1>3 DEF BackedInv

\* What a step has to show apart from the registration of observers.
LEMMA BackedStart ==
    ASSUME BackedInv, UNCHANGED kind, NEW s \in StackIds, startSession(s)
    PROVE  TypeOK' /\ PlayersOpen' /\ HostIsReady' /\ StartedHasSession'
<1>1. s \in 1 .. Stacks /\ s # 0 /\ s = alive /\ s \notin dead
  BY SessionAssumption DEF startSession, Running, StackIds
<1>2. /\ host' \in [StackIds -> BOOLEAN]
      /\ links' \in [StackIds -> 0 .. MaxStarts]
  BY SessionAssumption DEF BackedInv, TypeOK, startSession, StackIds
<1>3. CASE OnSessionStarted(s)
  <2>1. /\ state' \in [Ports -> StreamStates]
        /\ \A p \in Ports : state'[p] # "STARTED"
    BY <1>3, ReportStopsPorts DEF OnSessionStarted
  <2>2. TypeOK'
    <3>1. lost' \in BOOLEAN
      BY <1>3, Zenon DEF OnSessionStarted
    <3> QED
      BY <1>1, <1>2, <1>3, <2>1, <3>1, SessionAssumption
         DEF BackedInv, TypeOK, startSession, OnSessionStarted, StackIds, Cookies
  <2>3. IsSessionReady'
    BY <1>1, <1>3 DEF OnSessionStarted, IsSessionReady
  <2>4. \A r \in StackIds : r > alive => ~ host'[r]
    BY <1>1 DEF BackedInv, TypeOK, HostIsReady, startSession, StackIds
  <2> QED
    BY <2>1, <2>2, <2>3, <2>4
       DEF BackedInv, PlayersOpen, HostIsReady, StartedHasSession, startSession
<1>4. CASE OnSessionStartedBadMq
  <2>1. TypeOK'
    BY <1>1, <1>2, <1>4, SessionAssumption
       DEF BackedInv, TypeOK, startSession, OnSessionStartedBadMq, StackIds, Cookies
  <2>2. \A r \in StackIds : r > alive => ~ host'[r]
    BY <1>1 DEF BackedInv, TypeOK, HostIsReady, startSession, StackIds
  <2> QED
    BY <1>4, <2>1, <2>2 DEF BackedInv, PlayersOpen, HostIsReady, StartedHasSession,
       startSession, OnSessionStartedBadMq
<1> QED
  BY <1>3, <1>4 DEF startSession

\* The end of a session takes every port of it out of STARTED.
LEMMA BackedEnd ==
    ASSUME BackedInv, UNCHANGED kind, NEW s \in StackIds, endSession(s) \/ binderDied(s)
    PROVE  TypeOK' /\ PlayersOpen' /\ HostIsReady' /\ StartedHasSession'
<1>1. OnSessionEnded /\ UNCHANGED <<alive, dead, owed, observers, cookie, life>>
  BY DEF endSession, binderDied
<1>2. /\ host' \in [StackIds -> BOOLEAN]
      /\ links' \in [StackIds -> 0 .. MaxStarts]
      /\ active' \in 0 .. Stacks
      /\ lost' \in BOOLEAN
  <2>1. CASE endSession(s)
    BY <2>1, SessionAssumption DEF BackedInv, TypeOK, endSession
  <2>2. CASE binderDied(s)
    <3>1. links[s] - 1 \in 0 .. MaxStarts
      BY <2>2, SessionAssumption DEF BackedInv, TypeOK, binderDied
    <3> QED
      BY <2>2, <3>1 DEF BackedInv, TypeOK, binderDied
  <2> QED
    BY <2>1, <2>2
<1>3. TypeOK'
  <2>1. 0 \in 0 .. Stacks
    BY SessionAssumption
  <2>2. /\ stack_iface' = 0 /\ audio_config' = 0 /\ data_mq' = 0
        /\ state' \in [Ports -> StreamStates]
    BY <1>1, EndStopsPorts
  <2> QED
    BY <1>1, <1>2, <2>1, <2>2 DEF BackedInv, TypeOK, Cookies
<1>4. lost => lost'
  BY DEF endSession, binderDied
<1>5. PlayersOpen' /\ StartedHasSession'
  BY <1>1, <1>4, EndStopsPorts DEF BackedInv, PlayersOpen, StartedHasSession
<1>6. HostIsReady'
  <2>1. \A r \in StackIds : r > alive => ~ host'[r]
    BY DEF endSession, binderDied, Running, BackedInv, HostIsReady, TypeOK
  <2>2. endSession(s) => ~ host'[alive]
    BY DEF endSession, Running, BackedInv, TypeOK
  <2>3. binderDied(s) => lost' \/ ~ (Running(alive) /\ host[alive])
    BY DEF binderDied
  <2> QED
    BY <1>1, <2>1, <2>2, <2>3 DEF HostIsReady, Running, binderDied
<1> QED
  BY <1>3, <1>5, <1>6

\* The steps of the stack and of its providers keep a session behind every port that plays.
LEMMA BackedStack ==
    ASSUME BackedInv, UNCHANGED kind, StackStep
    PROVE  TypeOK' /\ PlayersOpen' /\ HostIsReady' /\ StartedHasSession'
<1>1. CASE StackRestarts
  <2>1. TypeOK'
    BY <1>1, SessionAssumption DEF StackRestarts, BackedInv, TypeOK, StackIds, Cookies,
       sessionVars, portVars
  <2>2. /\ alive \in Nat /\ alive' = alive + 1 /\ alive' \in StackIds
        /\ 1 .. alive \subseteq 1 .. alive'
    BY <1>1, SessionAssumption DEF StackRestarts, BackedInv, TypeOK, StackIds
  <2>3. HostIsReady'
    <3>1. \A r \in StackIds : r > alive => ~ host'[r]
      BY <1>1 DEF StackRestarts, BackedInv, HostIsReady
    <3>2. \A r \in StackIds : r > alive' => ~ host'[r]
      BY <2>2, <3>1 DEF StackIds
    <3>3. ~ host'[alive']
      BY <2>2, <3>1
    <3> QED
      BY <3>2, <3>3 DEF HostIsReady
  <2>4. StartedHasSession'
    BY <1>1 DEF StackRestarts, BackedInv, StartedHasSession, IsSessionReady, sessionVars,
       portVars
  <2> QED
    BY <1>1, <2>1, <2>2, <2>3, <2>4 DEF StackRestarts, BackedInv, PlayersOpen, portVars
<1>2. ASSUME NEW s \in StackIds, StackDies(s)
      PROVE  TypeOK' /\ PlayersOpen' /\ HostIsReady' /\ StartedHasSession'
  <2>1. TypeOK'
    BY <1>2, SessionAssumption DEF StackDies, BackedInv, TypeOK, StackIds, Cookies,
       sessionVars, portVars
  <2>2. dead' \subseteq 1 .. alive'
    BY <1>2, SessionAssumption DEF StackDies, Running, BackedInv, PlayersOpen, TypeOK
  <2> QED
    BY <1>2, <2>1, <2>2 DEF StackDies, BackedInv, PlayersOpen, HostIsReady, Running,
       StartedHasSession, IsSessionReady, sessionVars, portVars
<1>3. ASSUME NEW s \in StackIds, updateAudioConfiguration(s)
      PROVE  TypeOK' /\ PlayersOpen' /\ HostIsReady' /\ StartedHasSession'
  <2>1. s \in 0 .. Stacks /\ s # 0
    BY SessionAssumption DEF StackIds
  <2>2. TypeOK'
    BY <1>3, <2>1, SessionAssumption DEF updateAudioConfiguration, BackedInv, TypeOK,
       StackIds, Cookies, stackVars, portVars
  <2>3. IsSessionReady => IsSessionReady'
    BY <1>3, <2>1 DEF updateAudioConfiguration, IsSessionReady
  <2> QED
    BY <1>3, <2>2, <2>3 DEF updateAudioConfiguration, BackedInv, PlayersOpen,
       HostIsReady, Running, StartedHasSession, stackVars, portVars
<1>4. ASSUME NEW s \in StackIds, NEW status \in Statuses, Running(s), host[s],
             ReportControlStatus(status),
             UNCHANGED <<sessionVars, host, links, alive, dead, active, lost, observers, cookie, life>>,
             owed' \in [StackIds -> SUBSET Requests]
      PROVE  TypeOK' /\ PlayersOpen' /\ HostIsReady' /\ StartedHasSession'
  <2>1. TypeOK' /\ PlayersOpen'
    BY <1>4, AnswerStartsOpen, SessionAssumption
       DEF BackedInv, TypeOK, PlayersOpen, StackIds, Cookies, sessionVars
  <2>2. ~ lost => IsSessionReady'
    BY <1>4 DEF Running, BackedInv, HostIsReady, IsSessionReady, sessionVars
  <2> QED
    BY <1>4, <2>1, <2>2 DEF BackedInv, HostIsReady, Running, StartedHasSession
<1>5. ASSUME NEW s \in StackIds, NEW status \in Statuses, streamReported(s, status)
      PROVE  TypeOK' /\ PlayersOpen' /\ HostIsReady' /\ StartedHasSession'
  BY <1>4, <1>5 DEF streamReported, stackVars, BackedInv, TypeOK
<1>6. ASSUME NEW s \in StackIds, NEW status \in Statuses, NEW request \in Requests,
             streamAnswered(s, request, status)
      PROVE  TypeOK' /\ PlayersOpen' /\ HostIsReady' /\ StartedHasSession'
  <2>1. owed' \in [StackIds -> SUBSET Requests]
    BY <1>6 DEF streamAnswered, BackedInv, TypeOK
  <2>2. CASE host[s]
    BY <1>4, <1>6, <2>1, <2>2 DEF streamAnswered
  <2>3. CASE ~ host[s]
    <3>1. UNCHANGED <<sessionVars, host, links, alive, dead, active, lost, portVars>>
      BY <1>6, <2>3 DEF streamAnswered, portVars
    <3> QED
      BY <2>1, <3>1, SessionAssumption DEF BackedInv, TypeOK, PlayersOpen, HostIsReady, Running,
         StartedHasSession, IsSessionReady, StackIds, Cookies, sessionVars, portVars
  <2> QED
    BY <2>2, <2>3
<1> QED
  BY <1>1, <1>2, <1>3, <1>5, <1>6, BackedStart, BackedEnd DEF StackStep

\* So do those of the ports.
LEMMA BackedPort ==
    ASSUME BackedInv, ObserverTypes', UNCHANGED kind, PortStep
    PROVE  TypeOK' /\ PlayersOpen' /\ HostIsReady' /\ StartedHasSession'
<1>1. PICK p \in Ports :
         \/ SetUpCheck(p) \/ RegisterStatusCback(p) \/ SetUpDone(p) \/ TearDown(p)
         \/ Start(p) \/ Suspend(p) \/ Stop(p) \/ Unsuspend(p)
  BY DEF PortStep
<1>2. UNCHANGED <<sessionVars, host, links, alive, dead, active, lost>>
  BY <1>1 DEF SetUpCheck, RegisterStatusCback, SetUpDone, TearDown, Start, Suspend,
     Ask, Stop, Unsuspend, SetState, stackVars
<1>3. owed' \in [StackIds -> SUBSET Requests]
  BY <1>1 DEF SetUpCheck, RegisterStatusCback, SetUpDone, TearDown, Start, Suspend,
     Ask, Stop, Unsuspend, SetState, stackVars, BackedInv, TypeOK, Requests
<1>4. \/ state' = state
      \/ \E r \in StreamStates \ {"STARTED"} : state' = [state EXCEPT ![p] = r]
  BY <1>1 DEF SetUpCheck, RegisterStatusCback, SetUpDone, TearDown, Start, Suspend,
     Ask, Stop, Unsuspend, SetState, StreamStates
<1>5. /\ state' \in [Ports -> StreamStates]
      /\ \A q \in Ports : state'[q] = "STARTED" => state[q] = "STARTED"
  BY <1>4 DEF BackedInv, TypeOK
<1>6. TypeOK'
  BY <1>2, <1>3, <1>5, SessionAssumption
     DEF BackedInv, TypeOK, ObserverTypes, StackIds, Cookies, sessionVars
<1>7. PlayersOpen'
  <2>1. dead' \subseteq 1 .. alive'
    BY <1>2 DEF BackedInv, PlayersOpen
  <2>2. \/ UNCHANGED <<cookie, life>>
        \/ /\ life[p] \in {"closed", "checked"}
           /\ \E l \in Life : life' = [life EXCEPT ![p] = l]
           /\ UNCHANGED cookie
        \/ life' = [life EXCEPT ![p] = "open"]
           /\ \A q \in Ports \ {p} : cookie'[q] = cookie[q]
        \/ /\ life' = [life EXCEPT ![p] = "closed"]
           /\ cookie' = [cookie EXCEPT ![p] = 0]
           /\ state' = [state EXCEPT ![p] = "DISABLED"]
    BY <1>1 DEF SetUpCheck, RegisterStatusCback, SetUpDone, TearDown, Start, Suspend,
       Ask, Stop, Unsuspend, SetState, Life, BackedInv, TypeOK
  <2>3. ASSUME NEW q \in Ports, cookie'[q] # 0 \/ state'[q] = "STARTED"
        PROVE  life'[q] = "open"
    BY <1>5, <2>2, <2>3 DEF BackedInv, PlayersOpen, TypeOK
  <2> QED
    BY <2>1, <2>3 DEF PlayersOpen
<1>8. HostIsReady' /\ StartedHasSession'
  BY <1>2, <1>5 DEF BackedInv, HostIsReady, Running, StartedHasSession, IsSessionReady,
     sessionVars
<1> QED
  BY <1>6, <1>7, <1>8

\* No port plays without a session: for any number of ports, observers, sessions
\* of every kind and incarnations of the stack, every port that a session could
\* have started is told when that session ends, unless the running stack lost it
\* without ending it; and observers_ keeps its bound.
THEOREM PlayersHaveSession == Spec => []SessionInv
<1>1. Init => BackedInv
  BY BackedInit
<1>2. BackedInv /\ [Next]_vars => BackedInv'
  <2> SUFFICES ASSUME BackedInv, [Next]_vars PROVE BackedInv'
    OBVIOUS
  <2>1. ObserverInv'
    BY ObserverNext DEF BackedInv, TypeOK, ObserverInv, ObserverTypes
  <2>2. TypeOK' /\ PlayersOpen' /\ HostIsReady' /\ StartedHasSession'
    <3>1. CASE StackStep /\ UNCHANGED kind
      BY <3>1, BackedStack
    <3>2. CASE PortStep /\ UNCHANGED kind
      BY <2>1, <3>2, BackedPort DEF ObserverInv
    <3>3. CASE UNCHANGED vars
      BY <3>3, SessionAssumption DEF vars, sessionVars, stackVars, portVars, BackedInv,
         TypeOK, PlayersOpen, HostIsReady, Running, StartedHasSession, IsSessionReady,
         StackIds, Cookies
    <3> QED
      BY <3>1, <3>2, <3>3 DEF Next
  <2> QED
    BY <2>1, <2>2 DEF BackedInv, ObserverInv
<1>3. BackedInv => SessionInv
  BY DEF BackedInv, SessionInv
<1> QED
  BY <1>1, <1>2, <1>3, PTL DEF Spec

=============================================================================
