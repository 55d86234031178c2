---------------------- MODULE BluetoothHidlSessionProofs ----------------------
(***************************************************************************)
(* Proofs about BluetoothHidlSession for any number of ports and cookies,  *)
(* with the middleware's table and without it.                             *)
(***************************************************************************)
EXTENDS BluetoothHidlSession, WellFoundedInduction, TLAPS

\* TypeOK without the report.
PortTypeOK ==
    /\ aidl \in BOOLEAN /\ type \in SessionTypes /\ limit \in Limits /\ serial \in Serials
    /\ iface \in BOOLEAN /\ mq \in BOOLEAN
    /\ config \in Configs /\ config21 \in Configs /\ active \in Configs
    /\ observers \in [Slots -> Ports \cup {NoPort}]
    /\ table \in [Slots -> Ports \cup {NoPort}]
    /\ cookie \in [Ports -> Slots]
    /\ life \in [Ports -> {"closed", "checked", "listed", "named", "open", "leaving"}]
    /\ slot \in [Ports -> Slots]
    /\ state \in [Ports -> StreamStates]

\* Where a port has a cookie_, and what type its session is of.
CookieInv ==
    \A p \in Ports :
       /\ life[p] = "listed" => aidl
       /\ life[p] # "closed" => type \in PortTypes
       /\ life[p] \in {"open", "leaving"} => cookie[p] = slot[p] /\ slot[p] # 0
       /\ life[p] \notin {"open", "leaving"} => cookie[p] = 0

\* An observer is a port that registered and did not unregister, under the
\* cookie it was given, and every such port is one.
ObserversInv ==
    /\ observers[0] = NoPort
    /\ \A c \in Cookies : observers[c] # NoPort =>
          /\ life[observers[c]] \in {"listed", "named", "open"}
          /\ slot[observers[c]] = c
    /\ \A p \in Ports : life[p] \in {"listed", "named", "open"} /\ slot[p] # 0 =>
          observers[slot[p]] = p

\* An entry of the middleware's table is a port that is on its way in or out,
\* under the cookie it was given; a port in between may have lost its entry.
TableInv ==
    \A c \in Cookies : table[c] # NoPort =>
       /\ aidl
       /\ life[table[c]] \in {"named", "open", "leaving"}
       /\ slot[table[c]] = c

\* In turn: one port at a time is between closed and open, nobody takes the
\* cookie of a port that is leaving, and no entry of the table is lost.
SerialInv ==
    serial =>
       /\ \A p, q \in Ports :
             p # q => life[p] \in {"closed", "open"} \/ life[q] \in {"closed", "open"}
       /\ \A p \in Ports : life[p] = "leaving" => observers[slot[p]] = NoPort
       /\ \A p \in Ports : aidl /\ life[p] \in {"named", "open"} /\ slot[p] # 0 =>
             table[slot[p]] = p

\* Who is registered, and under which cookie.
ReachInv == PortTypeOK /\ CookieInv /\ ObserversInv /\ TableInv /\ SerialInv

\* A report calls observers, which stay while the mutex is held; the port it has
\* in hand is an observer, or in turn the one in the table.
ReportInv ==
    /\ report \in Reports
    /\ Free => report.due = {} /\ report.at = 0
    /\ \A c \in report.due : c \in Cookies /\ observers[c] # NoPort
    /\ report.at # 0 =>
          /\ report.at \in report.due
          /\ report.to \in Ports
          /\ ~ aidl => report.to = observers[report.at]
          /\ aidl /\ serial => report.to = table[report.at]

\* In turn, a port that is owed a DISABLED is still to be called.
OwedInv ==
    /\ owed \subseteq Ports
    /\ serial => \A p \in owed :
          life[p] = "open" /\ report.what = "changed" /\ slot[p] \in report.due

\* The configuration of the library that answers a port is the one the stack
\* started the session with, whenever the session has a queue.
ConfigInv ==
    mq /\ type \in PortTypes =>
       /\ active.disc = "pcm"
       /\ active = IF ~ aidl /\ type \in Types2_1 THEN config21 ELSE config

-----------------------------------------------------------------------------
(* Cookies and configurations *)

\* If a cookie is free, the search of RegisterStatusCback finds a free one.
LEMMA LowestCookieIsFree ==
    ASSUME PortTypeOK, FreeCookies # {}
    PROVE  (CHOOSE c \in FreeCookies : \A d \in FreeCookies : c <= d) \in FreeCookies
<1>1. FreeCookies \subseteq Nat
  BY HidlAssumption DEF PortTypeOK, FreeCookies, Cookies
<1>2. PICK c \in FreeCookies : \A d \in FreeCookies : ~ (<<d, c>> \in OpToRel(<, Nat))
  BY <1>1, WFMin, NatLessThanWellFounded
<1>3. ASSUME NEW d \in FreeCookies PROVE c <= d
  <2>1. c \in Nat /\ d \in Nat
    BY <1>1
  <2>2. ~ (d < c)
    BY <1>2, <2>1 DEF OpToRel
  <2> QED
    BY <2>1, <2>2
<1> QED
  BY <1>3

\* The configurations of the stack and the invalid ones are configurations.
LEMMA ConfigTypes ==
    /\ NoConfig \in Configs /\ InvalidOfType \in Configs
    /\ \A c \in StackConfigs : c \in Configs /\ To2_0(c) \in Configs
  BY DEF NoConfig, InvalidOfType, Invalid, StackConfigs, Configs, To2_0

\* A slot is 0, which is no cookie, or a cookie.
LEMMA SlotFacts ==
    ASSUME PortTypeOK
    PROVE  /\ 0 \in Slots /\ 0 \notin Cookies
           /\ \A c : c \in Slots <=> c = 0 \/ c \in Cookies
  BY HidlAssumption DEF PortTypeOK, Slots, Cookies

\* A new session has no observers, its table is empty and it reports nothing.
LEMMA ReachInit == Init => ReachInv /\ ConfigInv /\ ReportInv /\ OwedInv
<1> SUFFICES ASSUME Init PROVE ReachInv /\ ConfigInv /\ ReportInv /\ OwedInv
  OBVIOUS
<1>1. 0 \in Slots /\ \A c \in Cookies : c \in Slots
  BY HidlAssumption DEF Init, Slots, Cookies
<1>2. PortTypeOK
  BY <1>1, ConfigTypes DEF Init, PortTypeOK, StreamStates
<1>3. CookieInv /\ ObserversInv /\ TableInv /\ SerialInv
  BY <1>1 DEF Init, CookieInv, ObserversInv, TableInv, SerialInv
<1>4. NoReport \in Reports
  BY <1>1 DEF NoReport, Reports
<1>5. ReportInv /\ OwedInv
  BY <1>4 DEF Init, ReportInv, OwedInv, Free, NoReport
<1> QED
  BY <1>2, <1>3, <1>5 DEF Init, ReachInv, ConfigInv

-----------------------------------------------------------------------------
(* Steps of the session *)

SessionSteps ==
    \/ \E c \in StackConfigs, d \in Descriptors :
          OnSessionStarted(c, d) \/ AidlSessionStarted(c, d)
    \/ OnSessionEnded
    \/ \E status \in Statuses : ReportControlStatus(status)

\* The session changes nothing about who is registered.
LEMMA SessionKeepsPorts ==
    ASSUME SessionSteps
    PROVE  UNCHANGED <<aidl, type, limit, serial, observers, table, cookie, life, slot, state>>
  BY DEF SessionSteps, OnSessionStarted, AidlSessionStarted, OnSessionEnded,
     ReportControlStatus, fixedVars, portVars

\* It starts a report, or leaves the report alone, when nobody holds the mutex.
LEMMA SessionBegins ==
    ASSUME SessionSteps
    PROVE  /\ Free
           /\ UNCHANGED report \/ \E what \in {"changed"} \cup Statuses : Begin(what)
<1>1. Free
  BY DEF SessionSteps, OnSessionStarted, AidlSessionStarted, OnSessionEnded, ReportControlStatus
<1>2. UNCHANGED report \/ \E what \in {"changed"} \cup Statuses : Begin(what)
  <2>1. ASSUME NEW c \in StackConfigs, NEW d \in Descriptors, OnSessionStarted(c, d)
        PROVE  UNCHANGED report \/ Begin("changed")
    BY <2>1 DEF OnSessionStarted, OnSessionStarted2_0, OnSessionStarted2_1
  <2>2. ASSUME NEW c \in StackConfigs, NEW d \in Descriptors, AidlSessionStarted(c, d)
        PROVE  UNCHANGED report \/ Begin("changed")
    BY <2>2 DEF AidlSessionStarted
  <2>3. CASE OnSessionEnded
    BY <2>3 DEF OnSessionEnded
  <2>4. ASSUME NEW status \in Statuses, ReportControlStatus(status) PROVE Begin(status)
    BY <2>4 DEF ReportControlStatus
  <2> QED
    BY <2>1, <2>2, <2>3, <2>4 DEF SessionSteps
<1> QED
  BY <1>1, <1>2

SessionTypeOK ==
    /\ iface \in BOOLEAN /\ mq \in BOOLEAN
    /\ config \in Configs /\ config21 \in Configs /\ active \in Configs

\* Steps of the session stay within the types.
LEMMA SessionKeepsTypes ==
    ASSUME PortTypeOK, SessionSteps
    PROVE  PortTypeOK'
<1>1. UNCHANGED <<aidl, type, limit, serial, observers, table, cookie, life, slot, state>>
  BY SessionKeepsPorts
<1>2. SessionTypeOK'
  <2>1. ASSUME NEW c \in StackConfigs, NEW d \in Descriptors, OnSessionStarted(c, d)
        PROVE  SessionTypeOK'
    BY <2>1, ConfigTypes DEF OnSessionStarted, OnSessionStarted2_0,
       OnSessionStarted2_1, UpdateDataPath, PortTypeOK, SessionTypeOK
  <2>2. ASSUME NEW c \in StackConfigs, NEW d \in Descriptors, AidlSessionStarted(c, d)
        PROVE  SessionTypeOK'
    BY <2>2, ConfigTypes DEF AidlSessionStarted, PortTypeOK, SessionTypeOK
  <2>3. CASE OnSessionEnded
    BY <2>3, ConfigTypes DEF OnSessionEnded, PortTypeOK, SessionTypeOK
  <2>4. ASSUME NEW status \in Statuses, ReportControlStatus(status)
        PROVE  SessionTypeOK'
    BY <2>4 DEF ReportControlStatus, sessionVars, PortTypeOK, SessionTypeOK
  <2> QED
    BY <2>1, <2>2, <2>3, <2>4 DEF SessionSteps
<1> QED
  BY <1>1, <1>2 DEF PortTypeOK, SessionTypeOK, Slots

\* Who is registered stays.
LEMMA SessionKeepsReach ==
    ASSUME ReachInv, SessionSteps
    PROVE  ReachInv'
  BY SessionKeepsTypes, SessionKeepsPorts
     DEF ReachInv, CookieInv, ObserversInv, TableInv, SerialInv, Cookies

\* A report that begins has the observers to call.
LEMMA BeginInv ==
    ASSUME ReachInv, ReportInv, SessionSteps
    PROVE  ReportInv'
<1>1. UNCHANGED <<aidl, type, limit, serial, observers, table, cookie, life, slot, state>>
  BY SessionKeepsPorts
<1>2. CASE UNCHANGED report
  BY <1>1, <1>2 DEF ReportInv, Free, Reports, Slots, Cookies
<1>3. ASSUME NEW what \in {"changed"} \cup Statuses, Begin(what)
      PROVE  ReportInv'
  <2> DEFINE due == {c \in Cookies : observers[c] # NoPort}
             new == [what |-> what, due |-> due, at |-> 0, to |-> NoPort]
  <2>1. report' = NoReport \/ (due # {} /\ report' = new)
    BY <1>3 DEF Begin
  <2>2. NoReport \in Reports /\ due \subseteq Cookies /\ due \subseteq Slots /\ 0 \in Slots
    BY SlotFacts DEF ReachInv, NoReport, Reports
  <2>3. new \in Reports /\ new.what # "none"
    BY <2>2 DEF Reports, Statuses
  <2>4. Reports' = Reports /\ Cookies' = Cookies
    BY <1>1 DEF Reports, Slots, Cookies
  <2>5. CASE report' = NoReport
    BY <2>2, <2>4, <2>5 DEF ReportInv, Free, NoReport
  <2>6. CASE report' = new
    BY <1>1, <2>2, <2>3, <2>4, <2>6 DEF ReportInv, Free
  <2> QED
    BY <2>1, <2>5, <2>6
<1> QED
  BY <1>2, <1>3, SessionBegins

\* What a port is told of the session's configuration stays that of the session
\* the stack runs.
LEMMA SessionKeepsConfig ==
    ASSUME PortTypeOK, ConfigInv, SessionSteps
    PROVE  ConfigInv'
<1>1. ASSUME NEW c \in StackConfigs, NEW d \in Descriptors, OnSessionStarted(c, d)
      PROVE  ConfigInv'
  <2>1. To2_0(c).disc = c.disc
    BY DEF To2_0, StackConfigs
  <2> QED
    BY <1>1, <2>1 DEF OnSessionStarted, OnSessionStarted2_0, OnSessionStarted2_1,
       UpdateDataPath, ConfigFits2_0, ConfigFits2_1, session_type_2_1, Descriptors,
       fixedVars, ConfigInv, PortTypes, Types2_1
<1>2. ASSUME NEW c \in StackConfigs, NEW d \in Descriptors, AidlSessionStarted(c, d)
      PROVE  ConfigInv'
  BY <1>2 DEF AidlSessionStarted, AidlDisc, Descriptors, fixedVars, ConfigInv,
     PortTypes, Types2_1
<1>3. CASE OnSessionEnded
  BY <1>3 DEF OnSessionEnded, ConfigInv
<1>4. ASSUME NEW status \in Statuses, ReportControlStatus(status)
      PROVE  ConfigInv'
  BY <1>4 DEF ReportControlStatus, fixedVars, sessionVars, ConfigInv
<1> QED
  BY <1>1, <1>2, <1>3, <1>4 DEF SessionSteps

-----------------------------------------------------------------------------
(* Steps of a report, and the abort *)

ReportSteps == (\E c \in Cookies : Lookup(c)) \/ Call

\* A report writes the states of ports, and nothing else of them.
LEMMA ReportKeepsPorts ==
    ASSUME ReportSteps
    PROVE  UNCHANGED <<aidl, type, limit, serial, iface, mq, config, config21, active,
                       observers, table, cookie, life, slot>>
  BY DEF ReportSteps, Lookup, Call, fixedVars, sessionVars, portVars

\* What a callback leaves behind is a state of the protocol.
LEMMA ReportTypes ==
    ASSUME PortTypeOK, ReportInv, ReportSteps
    PROVE  state' \in [Ports -> StreamStates]
<1>1. ASSUME NEW c \in Cookies, Lookup(c) PROVE state' \in [Ports -> StreamStates]
  BY <1>1 DEF Lookup, portVars, PortTypeOK
<1>2. CASE Call
  <2>1. \A prev \in StreamStates, r \in {to_hidl_status(st) : st \in Statuses} :
           ControlResult(prev, r) \in StreamStates
    BY DEF ControlResult, StreamStates
  <2>2. report.at # 0 /\ report.what \in {"changed"} \cup Statuses
    BY <1>2 DEF Call, ReportInv, Free, Reports
  <2>3. PICK p \in Targets :
           state' = IF cookie[p] # report.at THEN state
                    ELSE [state EXCEPT ![p] =
                            IF report.what = "changed" THEN "DISABLED"
                            ELSE ControlResult(@, to_hidl_status(report.what))]
    BY <1>2 DEF Call
  <2>4. state \in [Ports -> StreamStates] /\ p \in Ports
    <3>1. table[report.at] \in Ports \cup {NoPort}
      BY <2>2 DEF ReportInv, Reports, PortTypeOK
    <3> QED
      BY <2>2, <2>3, <3>1 DEF ReportInv, Targets, PortTypeOK
  <2>5. (IF report.what = "changed" THEN "DISABLED"
         ELSE ControlResult(state[p], to_hidl_status(report.what))) \in StreamStates
    <3>1. CASE report.what = "changed"
      BY <3>1 DEF StreamStates
    <3>2. CASE report.what # "changed"
      BY <2>1, <2>2, <2>4, <3>2
    <3> QED
      BY <3>1, <3>2
  <2> QED
    BY <2>3, <2>4, <2>5
<1> QED
  BY <1>1, <1>2 DEF ReportSteps

\* What is left of a report is a report.
LEMMA ToldInv ==
    ASSUME PortTypeOK, ReportInv, NEW c \in report.due, report' = Told(c),
           UNCHANGED <<aidl, limit, serial, observers, table>>
    PROVE  ReportInv' /\ report'.due = report.due \ {c}
                      /\ (report'.what = report.what \/ report'.due = {})
<1>1. NoReport \in Reports /\ Reports' = Reports /\ Cookies' = Cookies
  BY SlotFacts DEF NoReport, Reports, Slots, Cookies
<1>2. CASE report.due = {c}
  <2>1. report' = NoReport
    BY <1>2 DEF Told
  <2> QED
    BY <1>1, <1>2, <2>1 DEF ReportInv, Free, NoReport
<1>3. CASE report.due # {c}
  <2>0. report \in Reports /\ report.what # "none"
    BY DEF ReportInv, Free
  <2>1. report' = [report EXCEPT !.due = @ \ {c}, !.at = 0, !.to = NoPort]
    BY <1>3 DEF Told
  <2>2. /\ report' \in Reports
        /\ report'.due = report.due \ {c} /\ report'.at = 0 /\ report'.what = report.what
    BY <2>0, <2>1, SlotFacts DEF Reports
  <2> QED
    BY <1>1, <2>0, <2>2 DEF ReportInv, Free
<1> QED
  BY <1>2, <1>3

\* A step of a report keeps it a report to observers.
LEMMA ReportStepInv ==
    ASSUME ReachInv, ReportInv, ReportSteps
    PROVE  ReachInv' /\ ReportInv'
<1>1. UNCHANGED <<aidl, type, limit, serial, iface, mq, config, config21, active,
                  observers, table, cookie, life, slot>>
  BY ReportKeepsPorts
<1>2. PortTypeOK /\ PortTypeOK'
  BY <1>1, ReportTypes DEF ReachInv, PortTypeOK, Slots
<1>3. ReachInv'
  BY <1>1, <1>2 DEF ReachInv, CookieInv, ObserversInv, TableInv, SerialInv, Cookies
<1>4. ASSUME NEW c \in Cookies, Lookup(c) PROVE ReportInv'
  <2>1. c \in report.due /\ report.at = 0
    BY <1>4 DEF Lookup
  <2>2. CASE Callee(c) = NoPort
    <3>1. report' = Told(c)
      BY <1>4, <2>2 DEF Lookup
    <3> QED
      BY <1>1, <1>2, <2>1, <3>1, ToldInv
  <2>3. CASE Callee(c) # NoPort
    <3>0. report \in Reports /\ c \in Slots /\ c # 0
      BY <1>2, <2>1, SlotFacts DEF ReportInv
    <3>1. report' = [report EXCEPT !.at = c, !.to = Callee(c)]
      BY <1>4, <2>3 DEF Lookup
    <3>2. Callee(c) \in Ports /\ Callee(c) = IF aidl THEN table[c] ELSE observers[c]
      BY <1>2, <2>3, <3>0 DEF Callee, PortTypeOK
    <3>3. /\ report' \in Reports /\ report'.at = c /\ report'.to = Callee(c)
          /\ report'.due = report.due /\ report'.what = report.what
      BY <3>0, <3>1, <3>2 DEF Reports
    <3>4. Reports' = Reports /\ Cookies' = Cookies
      BY <1>1 DEF Reports, Slots, Cookies
    <3> QED
      BY <1>1, <2>1, <3>0, <3>2, <3>3, <3>4 DEF ReportInv, Free
  <2> QED
    BY <2>2, <2>3
<1>5. CASE Call
  <2>1. report.at \in report.due /\ report' = Told(report.at)
    BY <1>5 DEF Call, ReportInv
  <2>2. ReportInv'
    BY <1>1, <1>2, <2>1, ToldInv
  <2> QED
    BY <1>3, <2>2
<1> QED
  BY <1>3, <1>4, <1>5 DEF ReportSteps

\* A process that aborted starts as a new one.
LEMMA AbortInv ==
    ASSUME PortTypeOK, NEW c \in StackConfigs, OnSessionStartedAborts(c)
    PROVE  ReachInv' /\ ConfigInv' /\ ReportInv'
<1>0. /\ iface' = FALSE /\ mq' = FALSE
      /\ config' = InvalidOfType /\ config21' = NoConfig /\ active' = NoConfig
      /\ observers' = [k \in Slots |-> NoPort]
      /\ table' = [k \in Slots |-> NoPort]
      /\ cookie' = [p \in Ports |-> 0]
      /\ life' = [p \in Ports |-> "closed"]
      /\ slot' = [p \in Ports |-> 0]
      /\ state' = [p \in Ports |-> "DISABLED"]
      /\ report' = NoReport
      /\ UNCHANGED <<aidl, type, limit, serial>>
  BY DEF OnSessionStartedAborts, fixedVars
<1>1. 0 \in Slots /\ (\A k \in Cookies : k \in Slots) /\ Slots' = Slots /\ Cookies' = Cookies
      /\ Reports' = Reports
  BY <1>0, SlotFacts DEF Slots, Cookies, Reports
<1>2. PortTypeOK'
  BY <1>0, <1>1, ConfigTypes DEF PortTypeOK, StreamStates
<1>3. CookieInv' /\ ObserversInv' /\ TableInv' /\ SerialInv'
  BY <1>0, <1>1 DEF CookieInv, ObserversInv, TableInv, SerialInv
<1>4. NoReport \in Reports
  BY <1>1 DEF NoReport, Reports
<1>5. ReportInv'
  BY <1>0, <1>1, <1>4 DEF ReportInv, Free, NoReport
<1> QED
  BY <1>0, <1>2, <1>3, <1>5 DEF ReachInv, ConfigInv

-----------------------------------------------------------------------------
(* Steps of a port *)

\* The check of SetUp changes neither observers nor table.
LEMMA SetUpCheckInv ==
    ASSUME ReachInv, NEW p \in Ports, SetUpCheck(p)
    PROVE  ReachInv'
<1> USE DEF ReachInv
<1>1. /\ life[p] = "closed" /\ life' = [life EXCEPT ![p] = "checked"]
      /\ type \in PortTypes /\ MayBegin(p)
      /\ state' = [state EXCEPT ![p] = "STANDBY"]
      /\ UNCHANGED <<aidl, type, limit, serial, iface, mq, config, config21, active,
                     observers, table, cookie, slot>>
  BY DEF SetUpCheck, Step, fixedVars, sessionVars
<1>2. PortTypeOK'
  BY <1>1 DEF PortTypeOK, Slots, StreamStates
<1>3. CookieInv'
  BY <1>1 DEF CookieInv, PortTypeOK
<1>4. ObserversInv' /\ TableInv'
  BY <1>1, SlotFacts DEF ObserversInv, TableInv, PortTypeOK, Cookies
<1>5. SerialInv'
  BY <1>1 DEF SerialInv, PortTypeOK, MayBegin
<1> QED
  BY <1>2, <1>3, <1>4, <1>5

\* Registering takes a free cookie, before the port is in the table.
LEMMA RegisterInv ==
    ASSUME ReachInv, NEW p \in Ports, RegisterStatusCback(p)
    PROVE  ReachInv'
<1> USE DEF ReachInv
<1> DEFINE k == IF FreeCookies = {} THEN 0
                ELSE CHOOSE c \in FreeCookies : \A d \in FreeCookies : c <= d
           to == IF aidl THEN "listed" ELSE "named"
<1>1. /\ life[p] = "checked" /\ life' = [life EXCEPT ![p] = to]
      /\ slot' = [slot EXCEPT ![p] = k]
      /\ observers' = IF k = 0 THEN observers ELSE [observers EXCEPT ![k] = p]
      /\ UNCHANGED <<aidl, type, limit, serial, iface, mq, config, config21, active,
                     table, cookie, state>>
  BY DEF RegisterStatusCback, Step, fixedVars, sessionVars
<1>2. k = 0 \/ (k \in Cookies /\ observers[k] = NoPort)
  BY LowestCookieIsFree DEF FreeCookies
<1>3. /\ to \in {"listed", "named"} /\ (to = "listed" => aidl)
      /\ (to = "named" => ~ aidl)
  OBVIOUS
<1> HIDE DEF k, to
<1>4. PortTypeOK'
  BY <1>1, <1>2, <1>3, SlotFacts DEF PortTypeOK, Slots, Cookies
<1>5. CookieInv'
  BY <1>1, <1>3 DEF CookieInv, PortTypeOK
<1>6. ObserversInv'
  BY <1>1, <1>2, <1>3, SlotFacts, HidlAssumption DEF ObserversInv, PortTypeOK, Cookies
<1>7. TableInv'
  BY <1>1, <1>3, SlotFacts DEF TableInv, PortTypeOK, Cookies
<1>8. SerialInv'
  BY <1>1, <1>2, <1>3, SlotFacts, HidlAssumption DEF SerialInv, CookieInv, PortTypeOK
<1> QED
  BY <1>4, <1>5, <1>6, <1>7, <1>8

\* The port enters the table under the cookie it was given.
LEMMA EnterTableInv ==
    ASSUME ReachInv, NEW p \in Ports, RegisterControlResultCback(p)
    PROVE  ReachInv'
<1> USE DEF ReachInv
<1>1. /\ life[p] = "listed" /\ life' = [life EXCEPT ![p] = "named"]
      /\ table' = [table EXCEPT ![slot[p]] = p]
      /\ UNCHANGED <<aidl, type, limit, serial, iface, mq, config, config21, active,
                     observers, cookie, slot, state>>
  BY DEF RegisterControlResultCback, Step, fixedVars, sessionVars
<1>2. PortTypeOK'
  BY <1>1 DEF PortTypeOK, Slots
<1>3. CookieInv'
  BY <1>1 DEF CookieInv, PortTypeOK
<1>4. ObserversInv'
  BY <1>1, SlotFacts DEF ObserversInv, PortTypeOK, Cookies
<1>5. TableInv'
  BY <1>1, SlotFacts DEF TableInv, CookieInv, PortTypeOK, Cookies
<1>6. SerialInv'
  BY <1>1 DEF SerialInv, ObserversInv, PortTypeOK
<1> QED
  BY <1>2, <1>3, <1>4, <1>5, <1>6

\* The port is open if it was given a cookie.
LEMMA SetUpDoneInv ==
    ASSUME ReachInv, NEW p \in Ports, SetUpDone(p)
    PROVE  ReachInv'
<1> USE DEF ReachInv
<1> DEFINE to == IF slot[p] = 0 THEN "closed" ELSE "open"
<1>1. /\ life[p] = "named" /\ life' = [life EXCEPT ![p] = to]
      /\ cookie' = [cookie EXCEPT ![p] = slot[p]]
      /\ state' = IF slot[p] = 0 THEN [state EXCEPT ![p] = "DISABLED"] ELSE state
      /\ UNCHANGED <<aidl, type, limit, serial, iface, mq, config, config21, active,
                     observers, table, slot>>
  BY DEF SetUpDone, Step, fixedVars, sessionVars
<1>2. \/ slot[p] = 0 /\ to = "closed"
      \/ slot[p] # 0 /\ to = "open"
  OBVIOUS
<1> HIDE DEF to
<1>3. PortTypeOK'
  BY <1>1, <1>2 DEF PortTypeOK, Slots, StreamStates
<1>4. CookieInv'
  BY <1>1, <1>2 DEF CookieInv, PortTypeOK
<1>5. ObserversInv' /\ TableInv'
  BY <1>1, <1>2, SlotFacts DEF ObserversInv, TableInv, PortTypeOK, Cookies
<1>6. SerialInv'
  BY <1>1, <1>2 DEF SerialInv, PortTypeOK
<1> QED
  BY <1>3, <1>4, <1>5, <1>6

\* The port leaves the observers first ...
LEMMA UnregisterInv ==
    ASSUME ReachInv, NEW p \in Ports, UnregisterStatusCback(p)
    PROVE  ReachInv'
<1> USE DEF ReachInv
<1>1. /\ life[p] = "open" /\ life' = [life EXCEPT ![p] = "leaving"]
      /\ MayBegin(p)
      /\ observers' = [observers EXCEPT ![cookie[p]] = NoPort]
      /\ UNCHANGED <<aidl, type, limit, serial, iface, mq, config, config21, active,
                     table, cookie, slot, state>>
  BY DEF UnregisterStatusCback, Step, fixedVars, sessionVars
<1>2. cookie[p] = slot[p] /\ slot[p] \in Cookies
  BY <1>1, SlotFacts DEF CookieInv, PortTypeOK
<1>3. PortTypeOK'
  BY <1>1 DEF PortTypeOK, Slots
<1>4. CookieInv'
  BY <1>1 DEF CookieInv, PortTypeOK
<1>5. ObserversInv'
  BY <1>1, <1>2, SlotFacts DEF ObserversInv, PortTypeOK, Cookies
<1>6. TableInv'
  BY <1>1, SlotFacts DEF TableInv, PortTypeOK, Cookies
<1>7. SerialInv'
  BY <1>1, <1>2, SlotFacts DEF SerialInv, PortTypeOK, MayBegin
<1> QED
  BY <1>3, <1>4, <1>5, <1>6, <1>7

\* ... and the table after that; in turn, its entry is its own.
LEMMA TearDownInv ==
    ASSUME ReachInv, NEW p \in Ports, TearDown(p)
    PROVE  ReachInv'
<1> USE DEF ReachInv
<1>1. /\ life[p] = "leaving" /\ life' = [life EXCEPT ![p] = "closed"]
      /\ table' = IF aidl THEN [table EXCEPT ![cookie[p]] = NoPort] ELSE table
      /\ cookie' = [cookie EXCEPT ![p] = 0]
      /\ state' = [state EXCEPT ![p] = "DISABLED"]
      /\ UNCHANGED <<aidl, type, limit, serial, iface, mq, config, config21, active,
                     observers, slot>>
  BY DEF TearDown, Step, fixedVars, sessionVars
<1>2. cookie[p] = slot[p] /\ slot[p] \in Cookies
  BY <1>1, SlotFacts DEF CookieInv, PortTypeOK
<1>3. PortTypeOK'
  BY <1>1, SlotFacts DEF PortTypeOK, Slots, StreamStates
<1>4. CookieInv'
  BY <1>1 DEF CookieInv, PortTypeOK
<1>5. ObserversInv'
  BY <1>1, SlotFacts DEF ObserversInv, PortTypeOK, Cookies
<1>6. TableInv'
  BY <1>1, <1>2, SlotFacts DEF TableInv, PortTypeOK, Cookies
<1>7. SerialInv'
  BY <1>1, <1>2, HidlAssumption DEF SerialInv, ObserversInv, PortTypeOK
<1> QED
  BY <1>3, <1>4, <1>5, <1>6, <1>7

\* A port that only writes its state_ disturbs nothing.
LEMMA SetStateInv ==
    ASSUME ReachInv, NEW p \in Ports, Start(p) \/ Suspend(p) \/ Stop(p) \/ Resume(p)
    PROVE  ReachInv'
<1>1. /\ \E to \in StreamStates : state' = [state EXCEPT ![p] = to]
      /\ UNCHANGED <<aidl, type, limit, serial, iface, mq, config, config21, active,
                     observers, table, cookie, life, slot>>
  BY DEF Start, Suspend, Stop, Resume, SetState, StreamStates, fixedVars, sessionVars
<1> QED
  BY <1>1 DEF ReachInv, PortTypeOK, CookieInv, ObserversInv, TableInv, SerialInv, Slots, Cookies

PortSteps(p) ==
    \/ SetUpCheck(p) \/ RegisterStatusCback(p) \/ RegisterControlResultCback(p)
    \/ SetUpDone(p) \/ UnregisterStatusCback(p) \/ TearDown(p)
    \/ Start(p) \/ Suspend(p) \/ Stop(p) \/ Resume(p)

\* A step is one of the session, of a report or of a port, or the process aborts.
LEMMA NextCases ==
    ASSUME [Next]_vars
    PROVE  \/ SessionSteps \/ ReportSteps
           \/ \E c \in StackConfigs : OnSessionStartedAborts(c)
           \/ \E p \in Ports : PortSteps(p)
           \/ UNCHANGED vars
  BY DEF Next, Steps, SessionSteps, ReportSteps, PortSteps

\* A step of a port leaves the session alone.
LEMMA PortKeepsSession ==
    ASSUME NEW p \in Ports, PortSteps(p)
    PROVE  UNCHANGED <<aidl, type, limit, serial, iface, mq, config, config21, active, report>>
  BY DEF PortSteps, SetUpCheck, RegisterStatusCback, RegisterControlResultCback,
     SetUpDone, UnregisterStatusCback, TearDown, Start, Suspend, Stop, Resume, SetState,
     fixedVars, sessionVars

\* What a port does to observers it does under the mutex; in turn, its entries of
\* the table are not those of a report either.
LEMMA PortKeepsReport ==
    ASSUME ReachInv, ReportInv, NEW p \in Ports, PortSteps(p)
    PROVE  ReportInv'
<1>0. UNCHANGED <<aidl, type, limit, serial, report>> /\ Reports' = Reports /\ Cookies' = Cookies
  BY PortKeepsSession DEF Reports, Slots, Cookies
<1>1. PortTypeOK
  BY DEF ReachInv
<1>2. CASE RegisterStatusCback(p) \/ UnregisterStatusCback(p)
  <2>1. Free
    BY <1>2 DEF RegisterStatusCback, UnregisterStatusCback
  <2> QED
    BY <1>0, <2>1 DEF ReportInv, Free
<1>3. CASE RegisterControlResultCback(p)
  <2>1. /\ life[p] = "listed" /\ table' = [table EXCEPT ![slot[p]] = p]
        /\ UNCHANGED observers /\ slot[p] \in Slots
    BY <1>1, <1>3 DEF RegisterControlResultCback, Step, PortTypeOK
  <2>2. ASSUME aidl, serial, report.at # 0 PROVE table'[report.at] = table[report.at]
    <3> DEFINE c == report.at
               q == table[c]
    <3>0. c \in Cookies /\ c \in Slots /\ q \in Ports /\ observers[c] # NoPort
      BY <2>2, <1>1, SlotFacts DEF ReportInv
    <3>1. life[q] \in {"named", "open", "leaving"} /\ slot[q] = c
      BY <3>0, HidlAssumption DEF ReachInv, TableInv
    <3>2. CASE slot[p] = c
      <4>1. observers[c] = p
        BY <2>1, <3>2, <3>0, SlotFacts, <1>1 DEF ReachInv, ObserversInv
      <4>2. q # p
        BY <2>1, <3>1
      <4>3. CASE life[q] \in {"named", "open"}
        <5>1. observers[slot[q]] = q
          BY <3>0, <3>1, <4>3, SlotFacts, <1>1 DEF ReachInv, ObserversInv
        <5> QED
          BY <3>1, <4>1, <4>2, <5>1
      <4>4. CASE life[q] = "leaving"
        BY <2>1, <2>2, <3>0, <4>2, <4>4 DEF ReachInv, SerialInv
      <4> QED
        BY <3>1, <4>3, <4>4
    <3>3. CASE slot[p] # c
      BY <2>1, <3>0, <3>3, <1>1 DEF PortTypeOK
    <3> QED
      BY <3>2, <3>3
  <2> QED
    BY <1>0, <2>1, <2>2 DEF ReportInv, Free
<1>4. CASE TearDown(p)
  <2>1. /\ life[p] = "leaving" /\ UNCHANGED observers
        /\ table' = IF aidl THEN [table EXCEPT ![cookie[p]] = NoPort] ELSE table
        /\ cookie[p] = slot[p] /\ slot[p] \in Slots
    BY <1>1, <1>4 DEF TearDown, Step, ReachInv, CookieInv, PortTypeOK
  <2>2. ASSUME aidl, serial, report.at # 0 PROVE table'[report.at] = table[report.at]
    <3>1. observers[slot[p]] = NoPort
      BY <2>1, <2>2 DEF ReachInv, SerialInv
    <3>2. observers[report.at] # NoPort /\ report.at \in Slots
      BY <2>2, <1>1, SlotFacts DEF ReportInv
    <3> QED
      BY <2>1, <2>2, <3>1, <3>2, <1>1 DEF PortTypeOK
  <2> QED
    BY <1>0, <2>1, <2>2 DEF ReportInv, Free
<1>5. CASE SetUpCheck(p) \/ SetUpDone(p) \/ Start(p) \/ Suspend(p) \/ Stop(p) \/ Resume(p)
  <2>1. UNCHANGED <<observers, table>>
    BY <1>5 DEF SetUpCheck, SetUpDone, Start, Suspend, Stop, Resume, SetState
  <2> QED
    BY <1>0, <2>1 DEF ReportInv, Free
<1> QED
  BY <1>2, <1>3, <1>4, <1>5 DEF PortSteps

\* In turn, a port that is set up is reached, through the table or without it.
LEMMA OpenReached ==
    ASSUME ReachInv, serial, NEW p \in Ports, life[p] = "open"
    PROVE  p \in Reached /\ cookie[p] = slot[p] /\ slot[p] \in Cookies /\ Callee(slot[p]) = p
           /\ observers[slot[p]] = p /\ (aidl => table[slot[p]] = p)
<1>1. cookie[p] = slot[p] /\ slot[p] # 0 /\ slot[p] \in Cookies
  BY SlotFacts DEF ReachInv, CookieInv, PortTypeOK
<1>2. observers[slot[p]] = p /\ p # NoPort
  BY <1>1, HidlAssumption DEF ReachInv, ObserversInv
<1>3. aidl => table[slot[p]] = p
  BY <1>1 DEF ReachInv, SerialInv
<1> QED
  BY <1>1, <1>2, <1>3 DEF Reached, Callee

-----------------------------------------------------------------------------
(* What a session that ended owes *)

\* The end of a ready session begins a report to every open port, and an open port
\* is called before the report is over.
LEMMA OwedNext ==
    ASSUME ReachInv, ReportInv, OwedInv, Next
    PROVE  OwedInv'
<1> DEFINE late == IF IsSessionReady /\ ~ iface' THEN Ports ELSE owed
<1>0. owed' = {p \in late : life[p] = "open" /\ life'[p] = "open" /\ state'[p] # "DISABLED"}
  BY DEF Next
<1>1. late \subseteq Ports
  BY DEF OwedInv
<1> HIDE DEF late
<1> SUFFICES ASSUME serial', NEW p \in owed'
             PROVE  life'[p] = "open" /\ report'.what = "changed" /\ slot'[p] \in report'.due
  BY <1>0, <1>1 DEF OwedInv
<1>2. p \in Ports /\ p \in late /\ life[p] = "open" /\ life'[p] = "open" /\ state'[p] # "DISABLED"
  BY <1>0, <1>1
<1>3. PortTypeOK
  BY DEF ReachInv
<1>4. CASE SessionSteps
  <2>1. /\ UNCHANGED <<serial, observers, table, cookie, life, slot, state>> /\ Free
    BY <1>4, SessionKeepsPorts, SessionBegins
  <2>2. owed = {}
    BY <2>1 DEF OwedInv, ReportInv
  <2>3. IsSessionReady /\ ~ iface'
    BY <1>2, <2>2 DEF late
  <2>4. OnSessionEnded
    BY <1>4, <2>3 DEF IsSessionReady, SessionSteps, OnSessionStarted, OnSessionStarted2_0,
       OnSessionStarted2_1, AidlSessionStarted, ReportControlStatus, sessionVars
  <2>5. Begin("changed")
    BY <2>3, <2>4 DEF OnSessionEnded
  <2>6. slot[p] \in Cookies /\ observers[slot[p]] = p /\ p # NoPort
    BY <1>2, <2>1, OpenReached, HidlAssumption
  <2> QED
    BY <1>2, <2>1, <2>5, <2>6 DEF Begin
<1>5. CASE ReportSteps
  <2>1. UNCHANGED <<aidl, serial, limit, iface, observers, table, cookie, life, slot>>
    BY <1>5, ReportKeepsPorts
  <2>2. p \in owed
    BY <1>2, <2>1 DEF late, IsSessionReady
  <2>3. life[p] = "open" /\ report.what = "changed" /\ slot[p] \in report.due
    BY <2>1, <2>2 DEF OwedInv
  <2>4. /\ cookie[p] = slot[p] /\ slot[p] \in Cookies /\ Callee(slot[p]) = p /\ p # NoPort
        /\ observers[slot[p]] = p /\ (aidl => table[slot[p]] = p)
    BY <1>2, <2>1, OpenReached, HidlAssumption
  <2>5. ASSUME NEW c \in Cookies, Lookup(c)
        PROVE  report'.what = "changed" /\ slot[p] \in report'.due
    <3>1. CASE Callee(c) # NoPort
      <4>1. report' = [report EXCEPT !.at = c, !.to = Callee(c)]
        BY <2>5, <3>1 DEF Lookup
      <4> QED
        BY <2>3, <4>1 DEF ReportInv, Reports
    <3>2. CASE Callee(c) = NoPort
      <4>1. c \in report.due /\ report' = Told(c) /\ c # slot[p]
        BY <2>4, <2>5, <3>2 DEF Lookup
      <4> QED
        BY <1>3, <2>1, <2>3, <4>1, ToldInv
    <3> QED
      BY <3>1, <3>2
  <2>6. CASE Call
    <3>1. report.at \in report.due /\ report' = Told(report.at) /\ report.at # 0
      BY <2>6 DEF Call, ReportInv
    <3>2. report.at # slot[p]
      <4> SUFFICES ASSUME report.at = slot[p] PROVE FALSE
        OBVIOUS
      <4>1. report.to = p /\ Targets = {p}
        BY <2>1, <2>4, <3>1 DEF ReportInv, Targets
      <4>2. state' = [state EXCEPT ![p] = "DISABLED"]
        BY <2>3, <2>4, <2>6, <4>1 DEF Call
      <4> QED
        BY <1>2, <1>3, <4>2 DEF PortTypeOK
    <3> QED
      BY <1>3, <2>1, <2>3, <3>1, <3>2, ToldInv
  <2> QED
    BY <1>2, <1>5, <2>1, <2>5, <2>6 DEF ReportSteps
<1>6. ASSUME NEW c \in StackConfigs, OnSessionStartedAborts(c) PROVE FALSE
  BY <1>2, <1>6 DEF OnSessionStartedAborts
<1>7. ASSUME NEW q \in Ports, PortSteps(q)
      PROVE  report'.what = "changed" /\ slot'[p] \in report'.due
  <2>1. UNCHANGED <<serial, iface, report>>
    BY <1>7, PortKeepsSession
  <2>2. p \in owed
    BY <1>2, <2>1 DEF late, IsSessionReady
  <2>3. report.what = "changed" /\ slot[p] \in report.due
    BY <2>1, <2>2 DEF OwedInv
  <2>4. slot'[p] = slot[p]
    <3>1. CASE RegisterStatusCback(q)
      BY <2>3, <3>1 DEF RegisterStatusCback, Free
    <3>2. CASE ~ RegisterStatusCback(q)
      BY <1>7, <3>2 DEF PortSteps, SetUpCheck, RegisterControlResultCback,
         SetUpDone, UnregisterStatusCback, TearDown, Start, Suspend, Stop, Resume, SetState
    <3> QED
      BY <3>1, <3>2
  <2> QED
    BY <2>1, <2>3, <2>4
<1> QED
  BY <1>2, <1>4, <1>5, <1>6, <1>7 DEF Next, Steps, SessionSteps, ReportSteps, PortSteps

-----------------------------------------------------------------------------
(* What follows *)

\* Every step keeps callbacks to ports that can be called.
LEMMA ReachNext ==
    ASSUME ReachInv, ReportInv, [Next]_vars
    PROVE  ReachInv' /\ ReportInv'
<1>1. CASE SessionSteps
  BY <1>1, SessionKeepsReach, BeginInv
<1>2. CASE ReportSteps
  BY <1>2, ReportStepInv
<1>3. ASSUME NEW c \in StackConfigs, OnSessionStartedAborts(c)
      PROVE  ReachInv' /\ ReportInv'
  BY <1>3, AbortInv DEF ReachInv
<1>4. ASSUME NEW p \in Ports, PortSteps(p)
      PROVE  ReachInv' /\ ReportInv'
  BY <1>4, SetUpCheckInv, RegisterInv, EnterTableInv, SetUpDoneInv, UnregisterInv,
     TearDownInv, SetStateInv, PortKeepsReport DEF PortSteps
<1>5. CASE UNCHANGED vars
  BY <1>5 DEF vars, fixedVars, sessionVars, portVars, ReachInv, PortTypeOK, CookieInv,
     ObserversInv, TableInv, SerialInv, ReportInv, Free, Reports, Slots, Cookies
<1> QED
  BY <1>1, <1>2, <1>3, <1>4, <1>5, NextCases

\* Every step keeps the configuration of 2.1 in line with that of 2.0.
LEMMA ConfigNext ==
    ASSUME ReachInv, ConfigInv, [Next]_vars
    PROVE  ConfigInv'
<1>1. CASE SessionSteps
  BY <1>1, SessionKeepsConfig DEF ReachInv
<1>2. CASE ReportSteps
  <2>1. UNCHANGED <<aidl, type, limit, serial, iface, mq, config, config21, active,
                    observers, table, cookie, life, slot>>
    BY <1>2, ReportKeepsPorts
  <2> QED
    BY <2>1 DEF ConfigInv
<1>3. ASSUME NEW c \in StackConfigs, OnSessionStartedAborts(c)
      PROVE  ConfigInv'
  BY <1>3, AbortInv DEF ReachInv
<1>4. ASSUME NEW p \in Ports, PortSteps(p)
      PROVE  ConfigInv'
  <2>1. UNCHANGED <<aidl, type, limit, serial, iface, mq, config, config21, active>>
    BY <1>4, PortKeepsSession
  <2> QED
    BY <2>1 DEF ConfigInv
<1>5. CASE UNCHANGED vars
  BY <1>5 DEF vars, fixedVars, sessionVars, ConfigInv
<1> QED
  BY <1>1, <1>2, <1>3, <1>4, <1>5, NextCases

\* All of it holds in every state.
LEMMA Invariance == Spec => [](ReachInv /\ ConfigInv /\ ReportInv /\ OwedInv)
<1>1. Init => ReachInv /\ ConfigInv /\ ReportInv /\ OwedInv
  BY ReachInit
<1>2. ReachInv /\ ConfigInv /\ ReportInv /\ OwedInv /\ [Next]_vars
         => ReachInv' /\ ConfigInv' /\ ReportInv' /\ OwedInv'
  <2>1. ASSUME OwedInv, UNCHANGED vars PROVE OwedInv'
    BY <2>1 DEF vars, fixedVars, portVars, OwedInv
  <2> QED
    BY <2>1, ReachNext, ConfigNext, OwedNext
<1> QED
  BY <1>1, <1>2, PTL DEF Spec

\* The session's callbacks reach every port that is set up, and a port they have
\* in hand is not gone: for any number of ports and cookies, with lookup and call
\* in steps of their own and the table changed in between.  Without the middleware
\* the second holds for ports that come and go as they like; with it, and for the
\* first, SetUp and TearDown of two ports must not overlap.
THEOREM CallbacksReach == Spec => []CallbacksReachPorts
<1>1. ReachInv /\ ReportInv /\ OwedInv => CallbacksReachPorts
  <2> SUFFICES ASSUME ReachInv, ReportInv, OwedInv PROVE CallbacksReachPorts
    OBVIOUS
  <2>1. TypeOK
    BY DEF TypeOK, ReachInv, PortTypeOK, ReportInv, OwedInv
  <2>2. ASSUME ~ aidl \/ serial, report.at # 0 PROVE life[report.to] # "closed"
    <3>1. report.at \in Cookies /\ observers[report.at] # NoPort /\ report.to \in Ports
      BY <2>2 DEF ReportInv
    <3>2. CASE ~ aidl
      BY <2>2, <3>1, <3>2 DEF ReportInv, ReachInv, ObserversInv
    <3>3. CASE aidl /\ serial
      BY <2>2, <3>1, <3>3, HidlAssumption DEF ReportInv, ReachInv, TableInv
    <3> QED
      BY <2>2, <3>2, <3>3
  <2>3. OpenIsReached
    BY OpenReached DEF OpenIsReached
  <2> QED
    BY <2>1, <2>2, <2>3 DEF CallbacksReachPorts, LivePortCalled, NoDeletedPort
<1> QED
  BY <1>1, Invariance, PTL

\* What a port finds behind it is the session the stack runs, whichever of the
\* three libraries keeps the configuration, and a ready one has a queue.
THEOREM PortSeesSession == Spec => []SessionOfPort
<1>1. ReachInv /\ ConfigInv => SessionOfPort
  <2> SUFFICES ASSUME ReachInv, ConfigInv, NEW p \in Ports
               PROVE  /\ LoadAudioConfig(p) = IF cookie[p] # 0 /\ IsSessionReady
                                              THEN active.id ELSE 0
                      /\ GetPreferredDataIntervalUs(p) > 0 =>
                            active.us = GetPreferredDataIntervalUs(p)
                      /\ cookie[p] # 0 /\ IsSessionReady => mq
    BY DEF SessionOfPort, ConfigOfSession, QueueBehindPort
  <2>1. CASE cookie[p] = 0
    BY <2>1 DEF LoadAudioConfig, GetPreferredDataIntervalUs
  <2>2. CASE cookie[p] # 0
    <3>1. type \in PortTypes
      BY <2>2 DEF ReachInv, CookieInv
    <3>2. IsSessionReady => iface /\ mq
      BY <3>1 DEF IsSessionReady, Offloaded, PortTypes, Types2_1
    <3>3. CASE IsSessionReady
      <4>1. GetAudioConfig = active /\ active.disc = "pcm"
        BY <3>1, <3>2, <3>3 DEF ConfigInv, GetAudioConfig, session_type_2_1, PortTypes,
           Types2_1
      <4>2. active.us \in {0, 10} /\ active.id \in 0 .. 2
        BY DEF ReachInv, PortTypeOK, Configs
      <4> QED
        BY <2>2, <3>2, <3>3, <4>1, <4>2 DEF LoadAudioConfig, GetPreferredDataIntervalUs
    <3>4. CASE ~ IsSessionReady
      <4>1. GetAudioConfig.id = 0 /\ GetAudioConfig.us = 0
        BY <3>4 DEF GetAudioConfig, Invalid, NoConfig
      <4> QED
        BY <3>4, <4>1 DEF LoadAudioConfig, GetPreferredDataIntervalUs
    <3> QED
      BY <3>3, <3>4
  <2> QED
    BY <2>1, <2>2
<1> QED
  BY <1>1, Invariance, PTL

\* Before the end of a ready session gives the mutex up it has disabled every port
\* that was open, as long as ports come and go in turn.
THEOREM EndReachesPorts == Spec => []EndIsTold
<1>1. ReportInv /\ OwedInv => EndIsTold
  BY DEF ReportInv, OwedInv, EndIsTold
<1> QED
  BY <1>1, Invariance, PTL

=============================================================================
