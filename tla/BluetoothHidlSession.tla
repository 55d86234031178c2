------------------------ MODULE BluetoothHidlSession ------------------------
(***************************************************************************)
(* A HIDL session (2.0, wrapped by 2.1) with the ports that observe it.    *)
(* Where the AIDL service is declared, every call of a port is redirected  *)
(* to the AIDL session by HidlToAidlMiddleware, which keeps a table of its *)
(* own from cookies to the ports' callbacks: an observer of the AIDL       *)
(* session is a lambda that looks the port up in that table.  The session  *)
(* mutex covers an operation of the session with its callbacks, but not    *)
(* the table: a port enters the table after it registered and leaves it    *)
(* after it unregistered, also between the lookup of a callback and the    *)
(* call.  Sessions of different types share nothing, so one of them is     *)
(* modelled, of any type.                                                  *)
(***************************************************************************)
EXTENDS Integers

CONSTANTS
    Ports,    \* the bluetooth_audio ports of the audio HAL
    NoPort,   \* a slot that is free
    Limits,   \* values of kObserversCookieSize, how many observers a session takes
    Serials   \* values of serial

ASSUME HidlAssumption ==
    /\ NoPort \notin Ports
    /\ Limits \subseteq Nat \ {0}
    /\ Serials \subseteq BOOLEAN

VARIABLES
    aidl,      \* IsAidlAvailable(), decided once per process
    type,      \* the session's type
    limit,     \* kObserversCookieSize
    serial,    \* the callers of the HAL set ports up and tear them down in turn
    iface,     \* stack_iface_ is set
    mq,        \* mDataMQ is set and valid
    config,    \* audio_config_ of the 2.0 session, or of the AIDL session
    config21,  \* audio_config_2_1_
    active,    \* history: the configuration the stack started the session with
    observers, \* observers_ of the session in charge: cookie -> port
    table,     \* legacy_callback_table of the type: cookie -> port
    cookie,    \* cookie_ of each port, 0: kObserversCookieUndefined
    life,      \* where a port is in SetUp and TearDown
    slot,      \* the cookie a call in progress was given
    state,     \* state_ of each port
    report,    \* the report the session is making, its mutex held
    owed       \* history: ports that were open when a ready session ended and
               \* have not been disabled since

sessionVars == <<iface, mq, config, config21, active>>
portVars == <<observers, table, cookie, life, slot, state>>
fixedVars == <<aidl, type, limit, serial>>
vars == <<fixedVars, sessionVars, portVars, report, owed>>

StreamStates == {"DISABLED", "STANDBY", "STARTING", "STARTED", "SUSPENDING"}

\* BluetoothAudioStatus, and what to_hidl_status makes of the AIDL one.
Statuses == {"SUCCESS", "RECONFIGURATION", "UNSUPPORTED_CODEC", "FAILURE"}
to_hidl_status(status) ==
    IF status \in {"SUCCESS", "UNSUPPORTED_CODEC"} THEN status ELSE "FAILURE"

\* SessionType of 2.1.
Types2_0 == {"A2DP_SOFTWARE", "A2DP_OFFLOAD", "HEARING_AID"}
Types2_1 == {"LE_ENCODING", "LE_DECODING"}
SessionTypes == Types2_0 \cup Types2_1 \cup {"LE_OFFLOAD"}

\* The types of the devices init_session_type knows.
PortTypes == {"A2DP_SOFTWARE", "HEARING_AID"} \cup Types2_1

\* session_type_2_1_: what the 2.1 session looks after itself, UNKNOWN where it
\* leaves all to the 2.0 session.
session_type_2_1 == IF type \in Types2_1 THEN type ELSE "UNKNOWN"

\* A configuration: its discriminator, which one it is (0: all fields unknown)
\* and dataIntervalUs, which 2.0 does not have.
Configs == [disc : {"pcm", "codec", "lc3"}, id : 0 .. 2, us : {0, 10}]
Invalid(disc) == [disc |-> disc, id |-> 0, us |-> 0]
StackConfigs == {[disc |-> "pcm", id |-> i, us |-> 10] : i \in 1 .. 2}
                   \cup {[disc |-> d, id |-> 1, us |-> 0] : d \in {"codec", "lc3"}}
NoConfig == Invalid("pcm")

To2_0(c) == [c EXCEPT !.us = 0]

\* kInvalidOffloadAudioConfiguration or kInvalidSoftwareAudioConfiguration.
InvalidOfType == Invalid(IF type = "A2DP_OFFLOAD" THEN "codec" ELSE "pcm")

Slots == 0 .. limit
Cookies == 1 .. limit

\* A report: what it tells ("none": the mutex is free), the cookies it has yet to
\* call, and the one whose callback is in hand with the port found for it.
Reports == [what : {"none", "changed"} \cup Statuses,
            due : SUBSET Slots, at : Slots, to : Ports \cup {NoPort}]
NoReport == [what |-> "none", due |-> {}, at |-> 0, to |-> NoPort]

TypeOK ==
    /\ aidl \in BOOLEAN /\ type \in SessionTypes /\ limit \in Limits /\ serial \in Serials
    /\ iface \in BOOLEAN /\ mq \in BOOLEAN
    /\ config \in Configs /\ config21 \in Configs /\ active \in Configs
    /\ observers \in [Slots -> Ports \cup {NoPort}]
    /\ table \in [Slots -> Ports \cup {NoPort}]
    /\ cookie \in [Ports -> Slots]
    /\ life \in [Ports -> {"closed", "checked", "listed", "named", "open", "leaving"}]
    /\ slot \in [Ports -> Slots]
    /\ state \in [Ports -> StreamStates]
    /\ report \in Reports
    /\ owed \subseteq Ports

Init ==
    /\ aidl \in BOOLEAN /\ type \in SessionTypes /\ limit \in Limits /\ serial \in Serials
    /\ iface = FALSE /\ mq = FALSE
    /\ config = InvalidOfType /\ config21 = NoConfig /\ active = NoConfig
    /\ observers = [c \in Slots |-> NoPort]
    /\ table = [c \in Slots |-> NoPort]
    /\ cookie = [p \in Ports |-> 0]
    /\ life = [p \in Ports |-> "closed"]
    /\ slot = [p \in Ports |-> 0]
    /\ state = [p \in Ports |-> "DISABLED"]
    /\ report = NoReport
    /\ owed = {}

-----------------------------------------------------------------------------
(* Callbacks into the ports *)

\* The port a callback with cookie c comes to: the observer itself, or the one
\* the middleware's lambda finds in its table ("Unknown callback" otherwise).
Callee(c) ==
    IF ~aidl THEN observers[c]
    ELSE IF observers[c] = NoPort THEN NoPort ELSE table[c]

\* control_result_cb and session_changed_cb drop a cookie that is not the port's.
Reached == {p \in Ports : cookie[p] # 0 /\ Callee(cookie[p]) = p}

\* ControlResultHandler.  A port of HIDL does not know RECONFIGURATION: it is a
\* failure, and a failure in STARTED changes nothing.
ControlResult(prev, status) ==
    CASE prev = "STARTING" -> IF status = "SUCCESS" THEN "STARTED" ELSE "STANDBY"
      [] prev = "SUSPENDING" -> IF status = "SUCCESS" THEN "STANDBY" ELSE "DISABLED"
      [] prev = "STARTED" /\ status = "SUCCESS" -> "STANDBY"
      [] OTHER -> prev

\* Nobody holds the session mutex.
Free == report.what = "none"

\* ReportSessionStatus and ReportControlStatus begin: every observer is to be
\* called, and the mutex is held until the last one was.
Begin(what) ==
    LET due == {c \in Cookies : observers[c] # NoPort}
    IN  report' = IF due = {} THEN NoReport
                  ELSE [what |-> what, due |-> due, at |-> 0, to |-> NoPort]

\* What is left once cookie c was called, or was not found.
Told(c) ==
    IF report.due = {c} THEN NoReport
    ELSE [report EXCEPT !.due = @ \ {c}, !.at = 0, !.to = NoPort]

\* The next observer: the port itself, or the lambda of the middleware, which
\* looks the port up without legacy_callback_lock ("Unknown callback" without an
\* entry).
Lookup(c) ==
    /\ c \in report.due /\ report.at = 0
    /\ report' = IF Callee(c) = NoPort THEN Told(c)
                 ELSE [report EXCEPT !.at = c, !.to = Callee(c)]
    /\ UNCHANGED <<fixedVars, sessionVars, portVars>>

\* The lambda holds a reference into the table: the entry it found, or what has
\* been stored in its place since.
Targets ==
    {report.to} \cup (IF aidl THEN {table[report.at]} \ {NoPort} ELSE {})

\* session_changed_cb and control_result_cb of the port, which drop a cookie that
\* is not theirs.  A port that is gone has none.
Call ==
    /\ report.at # 0
    /\ \E p \in Targets :
          state' = IF cookie[p] # report.at THEN state
                   ELSE [state EXCEPT ![p] =
                           IF report.what = "changed" THEN "DISABLED"
                           ELSE ControlResult(@, to_hidl_status(report.what))]
    /\ report' = Told(report.at)
    /\ UNCHANGED <<fixedVars, sessionVars, observers, table, cookie, life, slot>>

\* ReportControlStatus: told to every observer, whatever the session's state.
ReportControlStatus(status) ==
    /\ Free /\ iface
    /\ aidl \/ status # "RECONFIGURATION"
    /\ Begin(status)
    /\ UNCHANGED <<fixedVars, sessionVars, portVars>>

-----------------------------------------------------------------------------
(* The session *)

Offloaded(t) == t \in {"A2DP_OFFLOAD", "LE_OFFLOAD"}

\* IsSessionReady.  The AIDL session counts LE offload sessions as offloaded as
\* well, and also wants a configuration, which is set whenever iface is.
IsSessionReady ==
    /\ iface
    /\ mq \/ type = "A2DP_OFFLOAD" \/ (aidl /\ Offloaded(type))

\* UpdateAudioConfig of the 2.0 session, and of the AIDL session.
ConfigFits2_0(c) ==
    \/ type \in {"A2DP_SOFTWARE", "HEARING_AID"} /\ c.disc = "pcm"
    \/ type = "A2DP_OFFLOAD" /\ c.disc = "codec"

\* UpdateAudioConfig of the 2.1 session.
ConfigFits2_1(c) == session_type_2_1 # "UNKNOWN" /\ c.disc = "pcm"

\* UpdateDataPath: no descriptor resets the queue and succeeds, an invalid one
\* resets it and fails.
Descriptors == {"none", "valid", "invalid"}
UpdateDataPath(d) == mq' = (d = "valid")

\* A 2.1 configuration that is stored before it is looked at.
OnSessionStarted2_1Early(c, d) ==
    /\ config21' = c
    /\ UNCHANGED config
    /\ IF ~ConfigFits2_1(c)
       THEN UNCHANGED <<iface, mq, active, report>>
       ELSE /\ UpdateDataPath(d)
            /\ IF d = "invalid"
               THEN active' = NoConfig /\ UNCHANGED <<iface, report>>
               ELSE iface' = TRUE /\ active' = c /\ Begin("changed")

\* OnSessionStarted of a 2.1 session with a stack interface: a configuration
\* that does not fit changes nothing, a bad queue leaves the old interface.
OnSessionStarted2_1(c, d) ==
    /\ UNCHANGED config
    /\ IF ~ConfigFits2_1(c)
       THEN UNCHANGED <<iface, mq, config21, active, report>>
       ELSE /\ UpdateDataPath(d)
            /\ IF d = "invalid"
               THEN config21' = NoConfig /\ active' = NoConfig /\ UNCHANGED <<iface, report>>
               ELSE config21' = c /\ iface' = TRUE /\ active' = c /\ Begin("changed")

\* OnSessionStarted of the 2.0 session.
OnSessionStarted2_0(c, d) ==
    /\ UNCHANGED config21
    /\ IF ~ConfigFits2_0(c)
       THEN UNCHANGED <<iface, mq, config, active, report>>
       ELSE /\ UpdateDataPath(d)
            /\ IF d = "invalid"
               THEN config' = InvalidOfType /\ active' = NoConfig /\ UNCHANGED <<iface, report>>
               ELSE config' = c /\ iface' = TRUE /\ active' = c /\ Begin("changed")

\* What is neither codecConfig nor pcmConfig is read as pcmConfig, which for a
\* safe_union of HIDL aborts the process.
Aborts(c) == session_type_2_1 = "UNKNOWN" /\ c.disc = "lc3"

\* startSession of the HIDL stack, reported through the 2.1 library; a null
\* interface is refused at once.
OnSessionStarted(c, d) ==
    /\ ~aidl /\ Free
    /\ ~Aborts(c)
    /\ IF session_type_2_1 = "UNKNOWN"
       THEN OnSessionStarted2_0(To2_0(c), d)
       ELSE OnSessionStarted2_1(c, d)
    /\ UNCHANGED <<fixedVars, portVars>>

\* The same with a configuration that aborts: the process starts again.
OnSessionStartedAborts(c) ==
    /\ ~aidl /\ Free
    /\ Aborts(c)
    /\ iface' = FALSE /\ mq' = FALSE
    /\ config' = InvalidOfType /\ config21' = NoConfig /\ active' = NoConfig
    /\ observers' = [k \in Slots |-> NoPort]
    /\ table' = [k \in Slots |-> NoPort]
    /\ cookie' = [p \in Ports |-> 0]
    /\ life' = [p \in Ports |-> "closed"]
    /\ slot' = [p \in Ports |-> 0]
    /\ state' = [p \in Ports |-> "DISABLED"]
    /\ report' = NoReport
    /\ UNCHANGED fixedVars

\* An end that decides whether to report after the session was cleared.
OnSessionEndedLate ==
    /\ Free
    /\ config' = InvalidOfType /\ iface' = FALSE /\ mq' = FALSE /\ active' = NoConfig
    /\ UNCHANGED <<fixedVars, config21, portVars, report>>

\* OnSessionEnded: the 2.1 session keeps its configuration.
OnSessionEnded ==
    /\ Free
    /\ config' = InvalidOfType /\ iface' = FALSE /\ mq' = FALSE /\ active' = NoConfig
    /\ IF IsSessionReady THEN Begin("changed") ELSE UNCHANGED report
    /\ UNCHANGED <<fixedVars, config21, portVars>>

\* The kind of configuration an AIDL session of the type takes.
AidlDisc == CASE type = "A2DP_OFFLOAD" -> "codec" [] type = "LE_OFFLOAD" -> "lc3" [] OTHER -> "pcm"

\* A session of the AIDL stack starts (see BluetoothAudioSession); a
\* configuration of another kind is refused there as well.
AidlSessionStarted(c, d) ==
    /\ aidl /\ Free
    /\ c.disc = AidlDisc
    /\ mq' = (d = "valid")
    /\ IF d = "invalid"
       THEN config' = InvalidOfType /\ active' = NoConfig /\ UNCHANGED <<iface, report>>
       ELSE config' = c /\ iface' = TRUE /\ active' = c /\ Begin("changed")
    /\ UNCHANGED <<fixedVars, config21, portVars>>

\* GetAudioConfig of the 2.1 session.
GetAudioConfig ==
    IF aidl THEN IF IsSessionReady THEN config ELSE Invalid(AidlDisc)
    ELSE IF ~IsSessionReady THEN NoConfig
    ELSE IF session_type_2_1 # "UNKNOWN" THEN config21 ELSE config

-----------------------------------------------------------------------------
(* The ports *)

\* In turn: SetUp or TearDown of one port ends before another's begins.
MayBegin(p) == serial => \A q \in Ports \ {p} : life[q] \in {"closed", "open"}

Step(p, from, to) == life[p] = from /\ life' = [life EXCEPT ![p] = to]

\* SetUp: init_session_type finds the session ready, state_ is set ...
SetUpCheck(p) ==
    /\ MayBegin(p) /\ Free
    /\ type \in PortTypes
    /\ IsSessionReady
    /\ Step(p, "closed", "checked")
    /\ state' = [state EXCEPT ![p] = "STANDBY"]
    /\ UNCHANGED <<fixedVars, sessionVars, observers, table, cookie, slot, report>>

FreeCookies == {c \in Cookies : observers[c] = NoPort}

\* ... the callbacks are registered under the lowest free cookie, or not ...
RegisterStatusCback(p) ==
    /\ Free
    /\ LET c == IF FreeCookies = {} THEN 0
                ELSE CHOOSE c \in FreeCookies : \A d \in FreeCookies : c <= d
       IN  /\ slot' = [slot EXCEPT ![p] = c]
           /\ observers' = IF c = 0 THEN observers ELSE [observers EXCEPT ![c] = p]
    /\ Step(p, "checked", IF aidl THEN "listed" ELSE "named")
    /\ UNCHANGED <<fixedVars, sessionVars, table, cookie, state, report>>

\* ... the middleware enters them in its table, also under no cookie ...
RegisterControlResultCback(p) ==
    /\ table' = [table EXCEPT ![slot[p]] = p]
    /\ Step(p, "listed", "named")
    /\ UNCHANGED <<fixedVars, sessionVars, observers, cookie, slot, state, report>>

\* ... and cookie_ is set; without a cookie SetUp failed.
SetUpDone(p) ==
    /\ Step(p, "named", IF slot[p] = 0 THEN "closed" ELSE "open")
    /\ cookie' = [cookie EXCEPT ![p] = slot[p]]
    /\ state' = IF slot[p] = 0 THEN [state EXCEPT ![p] = "DISABLED"] ELSE state
    /\ UNCHANGED <<fixedVars, sessionVars, observers, table, slot, report>>

\* TearDown: the observer is erased; the middleware's table comes after it.
UnregisterStatusCback(p) ==
    /\ MayBegin(p) /\ Free
    /\ observers' = [observers EXCEPT ![cookie[p]] = NoPort]
    /\ Step(p, "open", "leaving")
    /\ UNCHANGED <<fixedVars, sessionVars, table, cookie, slot, state, report>>

\* A middleware that leaves its table alone.
TearDownKeepsTable(p) ==
    /\ Step(p, "leaving", "closed")
    /\ cookie' = [cookie EXCEPT ![p] = 0]
    /\ state' = [state EXCEPT ![p] = "DISABLED"]
    /\ UNCHANGED <<fixedVars, sessionVars, observers, table, slot, report>>

\* The rest of UnregisterControlResultCback and of TearDown.  The port object
\* is deleted after it.
TearDown(p) ==
    /\ table' = IF aidl THEN [table EXCEPT ![cookie[p]] = NoPort] ELSE table
    /\ Step(p, "leaving", "closed")
    /\ cookie' = [cookie EXCEPT ![p] = 0]
    /\ state' = [state EXCEPT ![p] = "DISABLED"]
    /\ UNCHANGED <<fixedVars, sessionVars, observers, slot, report>>

SetState(p, from, to) ==
    /\ life[p] = "open" /\ state[p] \in from
    /\ state' = [state EXCEPT ![p] = to]
    /\ UNCHANGED <<fixedVars, sessionVars, observers, table, cookie, life, slot, report>>

\* Start and Suspend leave the port in between, also when the session refuses:
\* ControlResultHandler or a new SetState takes it from there.  CondwaitState
\* only reads state_.
Start(p) == SetState(p, {"STANDBY"}, "STARTING")
Suspend(p) == SetState(p, {"STARTED"}, "SUSPENDING")
Stop(p) == SetState(p, StreamStates, "DISABLED")
Resume(p) == SetState(p, {"DISABLED"}, "STANDBY")

\* LoadAudioConfig: the format of a port, or none (the defaults, or nothing at
\* all where a field is unknown) and false.
LoadAudioConfig(p) ==
    IF cookie[p] # 0 /\ GetAudioConfig.disc = "pcm" /\ GetAudioConfig.id # 0
    THEN GetAudioConfig.id ELSE 0

\* GetPreferredDataIntervalUs, -1 for false.
GetPreferredDataIntervalUs(p) ==
    IF cookie[p] # 0 /\ GetAudioConfig.disc = "pcm" THEN GetAudioConfig.us ELSE -1

-----------------------------------------------------------------------------
Steps ==
    \/ \E c \in StackConfigs, d \in Descriptors :
          OnSessionStarted(c, d) \/ AidlSessionStarted(c, d)
    \/ \E c \in StackConfigs : OnSessionStartedAborts(c)
    \/ OnSessionEnded
    \/ \E c \in Cookies : Lookup(c)
    \/ Call
    \/ \E status \in Statuses : ReportControlStatus(status)
    \/ \E p \in Ports :
          \/ SetUpCheck(p) \/ RegisterStatusCback(p) \/ RegisterControlResultCback(p)
          \/ SetUpDone(p) \/ UnregisterStatusCback(p) \/ TearDown(p)
          \/ Start(p) \/ Suspend(p) \/ Stop(p) \/ Resume(p)

\* The end of a ready session owes every open port a DISABLED.
Next ==
    /\ Steps
    /\ owed' = {p \in (IF IsSessionReady /\ ~iface' THEN Ports ELSE owed) :
                  life[p] = "open" /\ life'[p] = "open" /\ state'[p] # "DISABLED"}

Spec == Init /\ [][Next]_vars

-----------------------------------------------------------------------------
(* Properties *)

\* Once TearDown is over the audio HAL deletes the port (device_port_proxy.h:54-56),
\* so no callback of the session may still be on its way to it.  Two ports that
\* come and go at the same time break it behind the middleware: the lookup is
\* under the session mutex, the erase under legacy_callback_lock.
NoDeletedPort == report.at # 0 => life[report.to] # "closed"

\* It holds without the middleware, where the mutex covers both, and with it as
\* long as ports are set up and torn down in turn.
LivePortCalled == ~aidl \/ serial => NoDeletedPort

\* As long as ports are set up and torn down in turn, every port that is set up
\* is reached by the session's reports, through the table or without it.
OpenIsReached == serial => \A p \in Ports : life[p] = "open" => p \in Reached

\* The format and the interval a port works with are those of the session the
\* stack has running, and it finds them as long as that one is ready: no
\* configuration of an ended, refused or half-started session is seen, by the 2.0,
\* the 2.1 or the AIDL library.
ConfigOfSession ==
    \A p \in Ports :
       /\ LoadAudioConfig(p) = IF cookie[p] # 0 /\ IsSessionReady THEN active.id ELSE 0
       /\ GetPreferredDataIntervalUs(p) > 0 => active.us = GetPreferredDataIntervalUs(p)

\* A port that finds its session ready has a queue behind it: OutWritePcmData
\* and InReadPcmData use mDataMQ without looking after IsSessionReady.
QueueBehindPort == \A p \in Ports : cookie[p] # 0 /\ IsSessionReady => mq

\* BluetoothAudioSession_2_1.cpp:155-157: the report of a start will "notify those
\* registered bluetooth_audio outputs".  Two ports that come and go at the same
\* time break that as well: the erase of one takes the other's entry.
RegisteredIsNotified == \A p \in Ports : life[p] = "open" => p \in Reached

\* The end of a ready session disables every port that is set up before it gives
\* the mutex up, as long as ports come and go in turn.
EndIsTold == serial /\ Free => owed = {}

\* The callbacks of a session reach the ports that are set up and no port that is
\* gone, with the table of the middleware in between and without it.
CallbacksReachPorts == TypeOK /\ LivePortCalled /\ OpenIsReached

\* What a port finds behind it is the session the stack runs: its configuration,
\* its interval and its queue.
SessionOfPort == ConfigOfSession /\ QueueBehindPort

=============================================================================
