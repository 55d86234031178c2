------------------------ MODULE BluetoothAudioSession ------------------------
(***************************************************************************)
(* One BluetoothAudioSession with the providers that report into it, the   *)
(* Bluetooth stacks behind them and the ports that observe it.  The stack  *)
(* is a process that may die and be started again: each incarnation opens  *)
(* a provider of its own (the factory makes a new one per openProvider),   *)
(* while the session of a type is shared by all of them.  Every operation  *)
(* of the session holds its mutex from beginning to end, callbacks into    *)
(* the ports included, and is one action.                                  *)
(***************************************************************************)
EXTENDS Naturals, FiniteSets, Sequences

CONSTANTS
    Ports,       \* the bluetooth_audio ports of the audio HAL
    NoPort,      \* an observer slot that is free
    CookieLimit, \* kObserversCookieSize: how many observers a session takes
    Stacks,      \* incarnations 1..Stacks of the Bluetooth stack
    MaxStarts,   \* bound on the sessions one stack starts
    MqFailures   \* TRUE: the data queue of a session may turn out invalid

\* What a session's type decides here: software sessions carry the audio in a
\* queue, LE unicast offload sessions take a new configuration while they run.
SessionKinds == {"software", "le_offload", "other_offload"}

ASSUME SessionAssumption ==
    /\ NoPort \notin Ports
    /\ CookieLimit \in Nat \ {0}
    /\ Stacks \in Nat \ {0}
    /\ MaxStarts \in Nat \ {0}
    /\ MqFailures \in BOOLEAN

VARIABLES
    kind,          \* what the session's type is for; never changes
    stack_iface,   \* the stack whose port interface the session calls, 0: none
    audio_config,  \* the stack that configured the session, 0: null
    data_mq,       \* the stack whose queue the session maps, 0: null
    host,          \* host[s]: the provider of stack s has its stack_iface_
    links,         \* links[s]: death links to s that are in place
    alive,         \* the incarnation that is running
    dead,          \* incarnations that died
    owed,          \* requests a stack has accepted and not answered
    observers,     \* observers_: cookie -> port
    cookie,        \* cookie_ of each port, 0: kObserversCookieUndefined
    life,          \* where a port is between SetUp and TearDown
    state,         \* state_ of each port
    active,        \* history: the stack whose session should be the ready one
    lost           \* history: the running stack is left without a ready session
                   \* it did not end: its last start failed half way, or the
                   \* death notice of an older stack took it away

sessionVars == <<stack_iface, audio_config, data_mq>>
stackVars   == <<host, links, alive, dead, owed, active, lost>>
portVars    == <<observers, cookie, life, state>>
vars == <<kind, sessionVars, stackVars, portVars>>

StackIds == 1 .. Stacks
Cookies == 1 .. CookieLimit
StreamStates == {"DISABLED", "STANDBY", "STARTING", "STARTED", "SUSPENDING"}
Statuses == {"SUCCESS", "RECONFIGURATION", "FAILURE"}
Requests == {"start", "suspend"}

\* Where a port object is: not set up; found the session ready; entered in
\* observers_ but cookie_ not yet assigned; set up.
Life == {"closed", "checked", "registered", "open"}

TypeOK ==
    /\ kind \in SessionKinds
    /\ stack_iface \in 0 .. Stacks
    /\ audio_config \in 0 .. Stacks
    /\ data_mq \in 0 .. Stacks
    /\ host \in [StackIds -> BOOLEAN]
    /\ links \in [StackIds -> 0 .. MaxStarts]
    /\ alive \in 1 .. Stacks
    /\ dead \subseteq StackIds
    /\ owed \in [StackIds -> SUBSET Requests]
    /\ observers \in [Cookies -> Ports \cup {NoPort}]
    /\ cookie \in [Ports -> 0 .. CookieLimit]
    /\ life \in [Ports -> Life]
    /\ state \in [Ports -> StreamStates]
    /\ active \in 0 .. Stacks
    /\ lost \in BOOLEAN

Init ==
    /\ kind \in SessionKinds
    /\ stack_iface = 0
    /\ audio_config = 0
    /\ data_mq = 0
    /\ host = [s \in StackIds |-> FALSE]
    /\ links = [s \in StackIds |-> 0]
    /\ alive = 1
    /\ dead = {}
    /\ owed = [s \in StackIds |-> {}]
    /\ observers = [c \in Cookies |-> NoPort]
    /\ cookie = [p \in Ports |-> 0]
    /\ life = [p \in Ports |-> "closed"]
    /\ state = [p \in Ports |-> "DISABLED"]
    /\ active = 0
    /\ lost = FALSE

\* Software sessions carry the audio data; offloaded ones need no queue.
IsSessionReady ==
    /\ stack_iface # 0
    /\ kind = "software" => data_mq # 0
    /\ audio_config # 0

-----------------------------------------------------------------------------
(* Callbacks into the ports *)

\* The ports a report reaches: registered under a cookie they know about.
Reached == {p \in Ports : cookie[p] # 0 /\ observers[cookie[p]] = p}

ReportSessionStatus ==
    state' = [p \in Ports |-> IF p \in Reached THEN "DISABLED" ELSE state[p]]

\* ControlResultHandler of a port; which request is answered is not looked at.
ControlResult(prev, status) ==
    IF prev = "STARTING"
    THEN IF status = "SUCCESS" THEN "STARTED" ELSE "STANDBY"
    ELSE IF prev = "SUSPENDING"
    THEN IF status = "SUCCESS" THEN "STANDBY" ELSE "DISABLED"
    ELSE IF prev = "STARTED" /\ status \in {"SUCCESS", "RECONFIGURATION"}
    THEN "STANDBY"
    ELSE prev

ReportControlStatus(status) ==
    state' = [p \in Ports |->
                IF p \in Reached THEN ControlResult(state[p], status) ELSE state[p]]

-----------------------------------------------------------------------------
(* The stack and its provider *)

Running(s) == s = alive /\ s \notin dead

\* Mutant: a session that is ready already keeps its stack interface.
OnSessionStartedKeepsIface(s) ==
    /\ audio_config' = s
    /\ data_mq' = IF kind = "software" THEN s ELSE 0
    /\ stack_iface' = IF IsSessionReady THEN stack_iface ELSE s
    /\ active' = s
    /\ lost' = FALSE
    /\ ReportSessionStatus

\* OnSessionStarted whose data queue could be mapped: the new session replaces
\* whatever the session object held.
OnSessionStarted(s) ==
    /\ audio_config' = s
    /\ data_mq' = IF kind = "software" THEN s ELSE 0
    /\ stack_iface' = s
    /\ active' = s
    /\ lost' = FALSE
    /\ ReportSessionStatus

\* OnSessionStarted whose UpdateDataPath cannot map the queue: configuration
\* and queue go, the old stack interface stays, nobody is told.
OnSessionStartedBadMq ==
    /\ MqFailures
    /\ kind = "software"
    /\ audio_config' = 0
    /\ data_mq' = 0
    /\ active' = 0
    /\ lost' = TRUE
    /\ UNCHANGED <<stack_iface, state>>

\* startSession with a configuration of the kind the provider's class takes
\* (with another it returns at once): the provider keeps the stack and links to
\* its death before the session is told, and succeeds whatever comes of it.
startSession(s) ==
    /\ Running(s)
    /\ links[s] < MaxStarts
    /\ host' = [host EXCEPT ![s] = TRUE]
    /\ links' = [links EXCEPT ![s] = @ + 1]
    /\ OnSessionStarted(s) \/ OnSessionStartedBadMq
    /\ UNCHANGED <<alive, dead, owed, observers, cookie, life>>

\* Mutant: whether to report is decided after the session was cleared.
OnSessionEndedLateToggle ==
    /\ stack_iface' = 0
    /\ audio_config' = 0
    /\ data_mq' = 0
    /\ state' = state

\* OnSessionEnded: whoever reports it, the session is over.
OnSessionEnded ==
    /\ stack_iface' = 0
    /\ audio_config' = 0
    /\ data_mq' = 0
    /\ IF IsSessionReady THEN ReportSessionStatus ELSE state' = state

\* endSession.  The death link stays: it is unlinked with another cookie than
\* the one it was linked with.
endSession(s) ==
    /\ Running(s)
    /\ host[s]
    /\ OnSessionEnded
    /\ host' = [host EXCEPT ![s] = FALSE]
    /\ active' = IF active = s THEN 0 ELSE active
    /\ UNCHANGED <<links, alive, dead, owed, lost, observers, cookie, life>>

\* The process of the stack dies; nothing of it is answered any more.
StackDies(s) ==
    /\ Running(s)
    /\ dead' = dead \cup {s}
    /\ owed' = [owed EXCEPT ![s] = {}]
    /\ active' = IF active = s THEN 0 ELSE active
    /\ UNCHANGED <<sessionVars, host, links, alive, lost, portVars>>

StackRestarts ==
    /\ alive \in dead
    /\ alive < Stacks
    /\ alive' = alive + 1
    /\ UNCHANGED <<sessionVars, host, links, dead, owed, active, lost, portVars>>

\* binderDiedCallbackAidl, once for each link to the dead stack, at any time
\* after the death: it ends the session of the type, whoever started it.
binderDied(s) ==
    /\ s \in dead
    /\ links[s] > 0
    /\ links' = [links EXCEPT ![s] = @ - 1]
    /\ OnSessionEnded
    /\ lost' = (lost \/ (Running(alive) /\ host[alive]))
    /\ UNCHANGED <<host, alive, dead, owed, active, observers, cookie, life>>

\* streamStarted and streamSuspended answering a request.
streamAnswered(s, request, status) ==
    /\ Running(s)
    /\ request \in owed[s]
    /\ owed' = [owed EXCEPT ![s] = @ \ {request}]
    /\ IF host[s] THEN ReportControlStatus(status) ELSE state' = state
    /\ UNCHANGED <<sessionVars, host, links, alive, dead, active, lost,
                   observers, cookie, life>>

\* The stack suspends or starts the stream without having been asked.
streamReported(s, status) ==
    /\ Running(s)
    /\ host[s]
    /\ ReportControlStatus(status)
    /\ UNCHANGED <<sessionVars, stackVars, observers, cookie, life>>

\* updateAudioConfiguration and ReportAudioConfigChanged: only LE unicast
\* offload sessions take a new configuration, and they take it even if they
\* are not ready.  The ports have no callback for it.
updateAudioConfiguration(s) ==
    /\ Running(s)
    /\ host[s]
    /\ kind = "le_offload"
    /\ audio_config' = s
    /\ UNCHANGED <<stack_iface, data_mq, stackVars, portVars>>

-----------------------------------------------------------------------------
(* The ports *)

\* SetUp, first the test whether the session is ready ...
SetUpCheck(p) ==
    /\ life[p] = "closed"
    /\ IsSessionReady
    /\ life' = [life EXCEPT ![p] = "checked"]
    /\ state' = [state EXCEPT ![p] = "STANDBY"]
    /\ UNCHANGED <<sessionVars, stackVars, observers, cookie>>

FreeCookies == {c \in Cookies : observers[c] = NoPort}

\* Mutant: the cookie is computed from the number of observers.
CookieBySize == Cardinality(Cookies \ FreeCookies) + 1

LowestFree == CHOOSE c \in FreeCookies : \A d \in FreeCookies : c <= d

\* ... then RegisterStatusCback, which takes the lowest free cookie ...
RegisterStatusCback(p) ==
    /\ life[p] = "checked"
    /\ IF FreeCookies = {}
       THEN /\ life' = [life EXCEPT ![p] = "closed"]
            /\ state' = [state EXCEPT ![p] = "DISABLED"]
            /\ UNCHANGED observers
       ELSE /\ observers' = [observers EXCEPT ![LowestFree] = p]
            /\ life' = [life EXCEPT ![p] = "registered"]
            /\ UNCHANGED state
    /\ UNCHANGED <<sessionVars, stackVars, cookie>>

\* ... and then cookie_ is assigned; until then callbacks are dropped.
SetUpDone(p) ==
    /\ life[p] = "registered"
    /\ cookie' = [cookie EXCEPT ![p] = CHOOSE c \in Cookies : observers[c] = p]
    /\ life' = [life EXCEPT ![p] = "open"]
    /\ UNCHANGED <<sessionVars, stackVars, observers, state>>

\* TearDown: the observer is erased under the cookie the port was given.
TearDown(p) ==
    /\ life[p] = "open"
    /\ observers' = [observers EXCEPT ![cookie[p]] = NoPort]
    /\ cookie' = [cookie EXCEPT ![p] = 0]
    /\ life' = [life EXCEPT ![p] = "closed"]
    /\ state' = [state EXCEPT ![p] = "DISABLED"]
    /\ UNCHANGED <<sessionVars, stackVars>>

\* Start and Suspend: the state is set first; a session that is not ready
\* refuses the request and leaves the port in between.
Ask(p, from, to, request) ==
    /\ life[p] = "open"
    /\ state[p] = from
    /\ state' = [state EXCEPT ![p] = to]
    /\ owed' = IF IsSessionReady /\ Running(stack_iface)
               THEN [owed EXCEPT ![stack_iface] = @ \cup {request}]
               ELSE owed
    /\ UNCHANGED <<sessionVars, host, links, alive, dead, active, lost,
                   observers, cookie, life>>

Start(p) == Ask(p, "STANDBY", "STARTING", "start")
Suspend(p) == Ask(p, "STARTED", "SUSPENDING", "suspend")

\* A2dpSuspended and closing parameters reach the state without an answer.
SetState(p, from, to) ==
    /\ life[p] = "open"
    /\ state[p] \in from
    /\ state' = [state EXCEPT ![p] = to]
    /\ UNCHANGED <<sessionVars, stackVars, observers, cookie, life>>

Stop(p) == SetState(p, StreamStates \ {"DISABLED"}, "DISABLED")
Unsuspend(p) == SetState(p, {"DISABLED"}, "STANDBY")

-----------------------------------------------------------------------------
StackStep ==
    \/ StackRestarts
    \/ \E s \in StackIds :
          \/ startSession(s) \/ endSession(s) \/ StackDies(s) \/ binderDied(s)
          \/ updateAudioConfiguration(s)
          \/ \E status \in Statuses : streamReported(s, status)
          \/ \E request \in Requests, status \in Statuses :
                streamAnswered(s, request, status)

PortStep ==
    \E p \in Ports :
       \/ SetUpCheck(p) \/ RegisterStatusCback(p) \/ SetUpDone(p) \/ TearDown(p)
       \/ Start(p) \/ Suspend(p) \/ Stop(p) \/ Unsuspend(p)

Next == (StackStep \/ PortStep) /\ UNCHANGED kind

Spec == Init /\ [][Next]_vars

-----------------------------------------------------------------------------
(* Properties *)

\* Every port that went through SetUp is the observer under its own cookie, one
\* that is still in SetUp has a slot, and no port has two or is left in one: a
\* callback reaches the port it was registered for and no deleted port,
\* whatever ports come and go in between and however full observers_ is.
CookieOwnership ==
    /\ \A p \in Ports : life[p] = "registered" => \E c \in Cookies : observers[c] = p
    /\ \A p \in Ports : life[p] = "open" => /\ cookie[p] \in Cookies
                                           /\ observers[cookie[p]] = p
    /\ \A c \in Cookies : observers[c] # NoPort =>
          /\ life[observers[c]] \in {"registered", "open"}
          /\ \A d \in Cookies : observers[d] = observers[c] => d = c

\* The stack a ready session asks to start and the queue it writes to belong
\* together, also after sessions that failed half way, sessions that replaced
\* one another and stacks that died.
OneOwner == IsSessionReady /\ kind = "software" => data_mq = stack_iface

\* Without a ready session no port plays, on sessions of every kind and for every
\* incarnation of the stack: the end of a session, by the stack or by its death,
\* reaches every port that could have been started, in whatever order ports
\* register, requests are answered and sessions are replaced, reconfigured and
\* ended.  It holds until the stack loses the session without having ended it
\* (lost), and again from its next session on.
StartedHasSession ==
    ~ lost => \A p \in Ports : state[p] = "STARTED" => IsSessionReady

\* Types, the bound of observers_ among them, and the session behind every port.
SessionInv == TypeOK /\ StartedHasSession

\* BluetoothAudioSession.h: OnSessionEnded reports that the stack has ended the
\* session and will invoke session_changed_cb_; so no port plays when no provider
\* has a stack any more.  After a start that failed half way the session is not
\* ready, and its end is not reported.
EndedIsQuiet ==
    (\A s \in StackIds : ~ host[s]) => \A p \in Ports : state[p] # "STARTED"

\* BluetoothAudioSession.h: IsSessionReady is true if the Bluetooth stack has
\* started the session; so it stays true until that stack ends it or dies.
StartedIsReady == active # 0 => IsSessionReady

=============================================================================
