------------------------ MODULE BluetoothStreamInProofs ------------------------
(***************************************************************************)
(* Proofs about BluetoothStreamIn for every number of threads, every       *)
(* number of polls and every bound: the invariant StreamInInv, and what    *)
(* enables a disabled stream.  Everything about the threads               *)
(* follows from one summary of what a step of a thread may do (Moves).     *)
(***************************************************************************)
EXTENDS BluetoothStreamIn, TLAPS

\* The labels a thread moves to, and the part of the stream they are in, so that
\* the sets themselves can stay folded.
LEMMA LabelFacts ==
    /\ \A b \in {"starting_poll", "suspending_poll", "read", "read_standby",
                 "read_suspending", "read_disabled", "start", "start_set",
                 "start_call", "start_wait", "standby", "standby_else", "suspend",
                 "suspend_set", "suspend_call", "suspend_wait"} :
          b \in Labels /\ b \in Holding /\ b \notin Lifecycle /\ b # "idle"
    /\ \A b \in {"starting_sleep", "suspending_sleep", "read_data", "read_count"} :
          b \in Labels /\ b \notin Holding /\ b \notin Lifecycle /\ b # "idle"
    /\ \A b \in {"open", "open_register", "open_config", "close", "close_stop",
                 "close_stop_call", "teardown"} :
          b \in Labels /\ b \notin Holding /\ b \in Lifecycle /\ b # "idle"
    /\ "idle" \in Labels /\ "idle" \notin Holding /\ "idle" \notin Lifecycle
BY DEF Labels, Holding, Unlocked, Lifecycle

-----------------------------------------------------------------------------
(* What a thread that goes on with a call may do *)

\* It goes to one label.  It enters or leaves the critical section with mutex_,
\* stays in its call and in its part of the stream or returns, writes state_ only
\* with mutex_ or alone in the stream, and comes to the writes of Start and
\* Suspend from their checks.
Moves(t, b) ==
    /\ pc' = [pc EXCEPT ![t] = b]
    /\ \/ mutex' = mutex /\ (pc[t] \in Holding <=> b \in Holding)
       \/ mutex' = Free /\ pc[t] \in Holding /\ b \notin Holding
       \/ mutex = Free /\ mutex' = t /\ b \in Holding
    /\ pc[t] # "idle"
    /\ \/ call' = call /\ b # "idle" /\ (b \in Lifecycle <=> pc[t] \in Lifecycle)
       \/ call' = [call EXCEPT ![t] = "none"] /\ b = "idle"
    /\ b = "start_set" => state' = "STANDBY"
    /\ b = "suspend_set" => state' = "STARTED"
    /\ state' # state => pc[t] \in Holding \cup Lifecycle
    /\ cb' = cb

\* Every step of a call is such a move.
LEMMA StepMoves ==
    ASSUME StreamInInv, NEW t \in Threads, Step(t)
    PROVE  \E b \in Labels : Moves(t, b)
<1> USE LabelFacts DEF StreamInInv, TypeOK, MutexOwner, Moves, Goto, Jump, Return, Write,
                       portVars
<1>1. CASE WaitStarting(t)
  <2>1. CASE state # "STARTING" /\ pc[t] = "starting_poll"
    <3>1. call[t] \in {"read", "standby"}
      BY <2>1 DEF LifecycleExclusive, Calls
    <3> QED
      BY <1>1, <2>1, <3>1 DEF WaitStarting, Sleep, Polled
  <2> QED
    BY <1>1, <2>1 DEF WaitStarting, Sleep, Polled
<1>2. CASE Start(t)
  BY <1>2 DEF Start, SetState, Refused, Requested
<1>3. CASE Suspend(t)
  BY <1>3 DEF Suspend, Suspended, SetState, Refused, Requested
<1>4. CASE StandbyRead(t)
  BY <1>4 DEF StandbyRead
<1>5. CASE WaitSuspending(t)
  BY <1>5 DEF WaitSuspending, Sleep, Polled
<1>6. CASE ReadStart(t)
  BY <1>6 DEF ReadStart, GoReading
<1>7. CASE ReadData(t)
  BY <1>7 DEF ReadData
<1>8. CASE SetUp(t) \/ LoadAudioConfig(t)
  BY <1>8 DEF SetUp, LoadAudioConfig, SetState
<1>9. CASE Close(t) \/ TearDown(t)
  BY <1>9 DEF Close, TearDown, SetState
<1> QED
  BY <1>1, <1>2, <1>3, <1>4, <1>5, <1>6, <1>7, <1>8, <1>9
     DEF Step, in_read, in_standby

-----------------------------------------------------------------------------
(* Type correctness *)

\* A callback of the session keeps the port's types.
LEMMA DeliverType ==
    ASSUME PortTypeOK, NEW kind \in {"control", "session"}, NEW resp \in Requests,
           NEW status \in Statuses, Deliver(kind, resp, status)
    PROVE  cb' \in Callbacks
BY DEF PortTypeOK, Deliver, Callbacks

\* Steps of the session and of the stack keep the port's types.
LEMMA SessionPortType ==
    ASSUME PortTypeOK, Environment \/ CallbackWrite
    PROVE  PortTypeOK'
<1> USE DEF PortTypeOK
<1>1. NoCallback \in Callbacks /\ Requests = {"start", "suspend"} /\ "SUCCESS" \in Statuses
  BY DEF NoCallback, Callbacks, Statuses, Requests, StreamStates
<1>2. CASE CallbackWrite
  BY <1>1, <1>2 DEF CallbackWrite, ControlResultHandler, SessionChangedHandler,
                    ControlResult, StreamStates
<1>3. CASE OnSessionStarted \/ OnSessionStartedInvalidMq
  BY <1>1, <1>3, DeliverType DEF OnSessionStarted, OnSessionStartedInvalidMq
<1>4. CASE endSession \/ binderDied
  <2>1. cb' \in Callbacks
    BY <1>1, <1>4, DeliverType DEF endSession, binderDied, OnSessionEnded
  <2>2. pending' \in Seq(Requests)
    <3>1. pending' = pending \/ pending' = <<>>
      BY <1>4 DEF endSession, binderDied
    <3>2. <<>> \in Seq(Requests)
      OBVIOUS
    <3> QED
      BY <3>1, <3>2, Zenon
  <2> QED
    BY <1>4, <2>1, <2>2 DEF endSession, binderDied, OnSessionEnded
<1>5. ASSUME NEW status \in Statuses, AnswerRequest(status)
      PROVE  PortTypeOK'
  <2>1. Head(pending) \in Requests /\ Tail(pending) \in Seq(Requests)
    BY <1>5 DEF AnswerRequest
  <2>2. cb' \in Callbacks
    BY <1>5, <2>1, DeliverType DEF AnswerRequest
  <2> QED
    BY <1>5, <2>1, <2>2 DEF AnswerRequest
<1>6. ASSUME NEW status \in Statuses, RemoteSuspend(status)
      PROVE  PortTypeOK'
  BY <1>1, <1>6, DeliverType DEF RemoteSuspend
<1> QED
  BY <1>2, <1>3, <1>4, <1>5, <1>6 DEF Environment

\* What a step of a thread does to the port: nothing, a write of state_, or a
\* request to the stack.
LEMMA StepPort ==
    ASSUME NEW t \in Threads, Step(t)
    PROVE  \/ UNCHANGED portVars
           \/ /\ state' \in StreamStates /\ in_use' \in {in_use, TRUE, FALSE}
              /\ UNCHANGED <<ready, hosted, pending, cb>>
           \/ /\ \E request \in Requests : pending' = Append(pending, request)
              /\ UNCHANGED <<state, in_use, ready, hosted, cb>>
<1> USE DEF Jump, Write, SetState, StreamStates, Requests, Requested, Refused, portVars
<1>1. CASE WaitStarting(t) \/ StandbyRead(t) \/ WaitSuspending(t)
  BY <1>1 DEF WaitStarting, StandbyRead, WaitSuspending, Sleep, Polled
<1>2. CASE Start(t)
  BY <1>2 DEF Start
<1>3. CASE Suspend(t)
  BY <1>3 DEF Suspend
<1>4. CASE ReadStart(t) \/ ReadData(t)
  BY <1>4 DEF ReadStart, GoReading, ReadData
<1>5. CASE SetUp(t) \/ LoadAudioConfig(t)
  BY <1>5 DEF SetUp, LoadAudioConfig
<1>6. CASE Close(t) \/ TearDown(t)
  BY <1>6 DEF Close, TearDown
<1> QED
  BY <1>1, <1>2, <1>3, <1>4, <1>5, <1>6 DEF Step, in_read, in_standby

\* What it does to its own variables: the polls are counted up to the limit or
\* begin anew, the result is set, and the frames are counted or begin anew.
OwnMoves(t) ==
    /\ \/ polls' = polls
       \/ polls' = [polls EXCEPT ![t] = 0]
       \/ polls[t] + 1 # PollLimit /\ polls' = [polls EXCEPT ![t] = @ + 1]
    /\ \/ ok' = ok
       \/ \E r \in BOOLEAN : ok' = [ok EXCEPT ![t] = r]
    /\ \/ frames_presented' \in {frames_presented, 0}
       \/ frames_presented' = frames_presented + 1
    /\ opened' \in {opened, TRUE, FALSE}

\* A step of a thread moves that thread, as its label says.
LEMMA StepOwnMoves ==
    ASSUME TypeOK, NEW t \in Threads, Step(t)
    PROVE  OwnMoves(t)
<1>1. /\ ok[t] \in BOOLEAN /\ (call[t] = "standby") \in BOOLEAN
      /\ (state = "STANDBY") \in BOOLEAN /\ ready \in BOOLEAN
  BY DEF TypeOK, PortTypeOK
<1> USE DEF OwnMoves, Jump, Write, Return, streamVars
<1>2. CASE WaitStarting(t)
  BY <1>1, <1>2 DEF WaitStarting, Sleep, Polled
<1>3. CASE WaitSuspending(t)
  BY <1>1, <1>3 DEF WaitSuspending, Sleep, Polled
<1>4. CASE Start(t)
  BY <1>4 DEF Start
<1>5. CASE Suspend(t)
  BY <1>1, <1>5 DEF Suspend, Suspended
<1>6. CASE StandbyRead(t) \/ ReadStart(t)
  BY <1>6 DEF StandbyRead, ReadStart, GoReading
<1>7. CASE ReadData(t)
  BY <1>1, <1>7 DEF ReadData
<1>8. CASE SetUp(t) \/ LoadAudioConfig(t)
  BY <1>8 DEF SetUp, LoadAudioConfig
<1>9. CASE Close(t) \/ TearDown(t)
  BY <1>9 DEF Close, TearDown
<1> QED
  BY <1>2, <1>3, <1>4, <1>5, <1>6, <1>7, <1>8, <1>9 DEF Step, in_read, in_standby

\* So it keeps the types of these variables.
LEMMA StepOwn ==
    ASSUME TypeOK, NEW t \in Threads, Step(t)
    PROVE  /\ polls' \in [Threads -> 0 .. PollLimit - 1]
           /\ ok' \in [Threads -> BOOLEAN]
           /\ frames_presented' \in Nat
           /\ opened' \in BOOLEAN
<1>1. OwnMoves(t)
  BY StepOwnMoves
<1>2. polls' \in [Threads -> 0 .. PollLimit - 1]
  <2>1. 0 \in 0 .. PollLimit - 1
    BY StreamInAssumption
  <2>2. polls[t] + 1 # PollLimit => polls[t] + 1 \in 0 .. PollLimit - 1
    BY StreamInAssumption DEF TypeOK
  <2> QED
    BY <1>1, <2>1, <2>2 DEF OwnMoves, TypeOK
<1>3. ok' \in [Threads -> BOOLEAN]
  BY <1>1 DEF OwnMoves, TypeOK
<1>4. frames_presented' \in Nat
  BY <1>1 DEF OwnMoves, TypeOK
<1>5. opened' \in BOOLEAN
  BY <1>1 DEF OwnMoves, TypeOK
<1> QED
  BY <1>2, <1>3, <1>4, <1>5

\* A step of a call keeps the types; that a poll goes on with an entry point
\* takes the rest of the invariant.
LEMMA StepType ==
    ASSUME StreamInInv, NEW t \in Threads, Step(t)
    PROVE  TypeOK'
<1>1. PortTypeOK'
  <2>1. ASSUME NEW request \in Requests, pending' = Append(pending, request)
        PROVE  pending' \in Seq(Requests)
    BY <2>1 DEF StreamInInv, TypeOK, PortTypeOK
  <2> QED
    BY <2>1, StepPort DEF StreamInInv, TypeOK, PortTypeOK, portVars
<1>2. PICK b \in Labels : Moves(t, b)
  BY StepMoves
<1>3. /\ mutex' \in Threads \cup {Free}
      /\ pc' \in [Threads -> Labels]
      /\ call' \in [Threads -> Calls]
  BY <1>2 DEF StreamInInv, TypeOK, Moves, Calls
<1> QED
  BY <1>1, <1>3, StepOwn DEF StreamInInv, TypeOK

-----------------------------------------------------------------------------
(* The invariant *)

\* A move keeps mutex_ with the thread inside the critical section.
LEMMA MoveMutex ==
    ASSUME TypeOK, MutexOwner, NEW t \in Threads, NEW b \in Labels, Moves(t, b)
    PROVE  MutexOwner'
BY StreamInAssumption DEF TypeOK, MutexOwner, Moves

\* A move keeps the life cycle exclusive: only Begin enters it.
LEMMA MoveLifecycle ==
    ASSUME TypeOK, LifecycleExclusive, NEW t \in Threads, NEW b \in Labels, Moves(t, b)
    PROVE  LifecycleExclusive'
BY LabelFacts DEF TypeOK, LifecycleExclusive, Moves

\* Without interruptions a move leaves no check of another thread stale: that
\* thread has mutex_, and whoever writes state_ has mutex_ or is alone.
LEMMA MoveChecks ==
    ASSUME TypeOK, MutexOwner, LifecycleExclusive, ChecksHold, SessionFree,
           NEW t \in Threads, NEW b \in Labels, Moves(t, b)
    PROVE  ChecksHold'
<1>1. cb' = cb /\ cb.kind = "none"
  BY DEF Moves, SessionFree
<1>2. ASSUME NEW u \in Threads \ {t}, pc[u] \in {"start_set", "suspend_set"}
      PROVE  state' = state
  <2>1. pc[u] \in Holding /\ pc[u] # "idle"
    BY <1>2, LabelFacts
  <2>2. pc[t] \notin Holding
    BY <2>1 DEF MutexOwner
  <2>3. pc[t] \notin Lifecycle
    BY <2>1 DEF LifecycleExclusive
  <2> QED
    BY <2>2, <2>3 DEF Moves
<1>3. \A u \in Threads : pc'[u] = IF u = t THEN b ELSE pc[u]
  BY DEF TypeOK, Moves
<1> QED
  BY <1>1, <1>2, <1>3 DEF ChecksHold, Moves

\* The steps that register a port or hand a stream out are those of opening and
\* closing, and an open that fails late goes on to unregister.
LEMMA StepRegistered ==
    ASSUME StreamInInv, NEW t \in Threads, Step(t)
    PROVE  RegisteredIffOpen'
<1> USE LabelFacts DEF StreamInInv, TypeOK, RegisteredIffOpen, LifecycleExclusive,
                       Goto, Jump, Return, Write, portVars, streamVars
<1>1. ASSUME pc[t] \notin Lifecycle
      PROVE  UNCHANGED <<in_use, opened>>
  BY <1>1 DEF Step, WaitStarting, WaitSuspending, Sleep, Polled, Start, Suspend, Suspended,
              StandbyRead, ReadStart, GoReading, ReadData, Refused, Requested, SetUp,
              LoadAudioConfig, Close, TearDown, in_read, in_standby
<1>2. CASE pc[t] \notin Lifecycle
  <2>1. PICK b \in Labels : Moves(t, b)
    BY StepMoves
  <2>2. b \notin Lifecycle
    BY <1>2, <2>1 DEF Moves
  <2>3. \A u \in Threads : pc'[u] = IF u = t THEN b ELSE pc[u]
    BY <2>1 DEF Moves
  <2> QED
    BY <1>1, <1>2, <2>2, <2>3
<1>3. CASE pc[t] \in Lifecycle
  <2>1. \A u \in Threads \ {t} : pc[u] = "idle"
    BY <1>3
  <2>2. SetUp(t) \/ LoadAudioConfig(t) \/ Close(t) \/ TearDown(t)
    BY <1>3 DEF Step, WaitStarting, WaitSuspending, Sleep, Polled, Start, Suspend,
                StandbyRead, ReadStart, GoReading, ReadData, in_read, in_standby
  <2>3. CASE SetUp(t) \/ LoadAudioConfig(t)
    BY <2>1, <2>3 DEF SetUp, LoadAudioConfig
  <2>4. CASE Close(t) \/ TearDown(t)
    BY <2>1, <2>4 DEF Close, TearDown
  <2> QED
    BY <2>2, <2>3, <2>4
<1> QED
  BY <1>2, <1>3

\* Entering and leaving the stream: mutex_ for in_read and in_standby, an empty
\* stream for open and close.
LEMMA BeginInv ==
    ASSUME StreamInInv, NEW t \in Threads, Begin(t)
    PROVE  StreamInInv'
<1> USE LabelFacts, StreamInAssumption DEF StreamInInv, TypeOK
<1>1. ASSUME NEW entry \in {"read", "standby"}, Enter(t, entry)
      PROVE  StreamInInv'
  <2>1. TypeOK'
    BY <1>1 DEF Enter, Goto, Calls, portVars, streamVars, PortTypeOK
  <2>2. MutexOwner'
    BY <1>1 DEF Enter, Goto, MutexOwner
  <2>3. LifecycleExclusive'
    BY <1>1 DEF Enter, Goto, LifecycleExclusive
  <2>4. ~ Interruptible => ChecksHold'
    BY <1>1 DEF Enter, Goto, portVars, ChecksHold
  <2>5. RegisteredIffOpen'
    BY <1>1 DEF Enter, Goto, portVars, streamVars, RegisteredIffOpen
  <2> QED
    BY <2>1, <2>2, <2>3, <2>4, <2>5
<1>2. CASE BeginOpen(t) \/ BeginClose(t)
  <2> USE DEF BeginOpen, BeginClose, AllIdle, Goto
  <2>1. TypeOK'
    BY <1>2 DEF Calls, portVars, streamVars, PortTypeOK
  <2>2. MutexOwner'
    BY <1>2 DEF MutexOwner
  <2>3. LifecycleExclusive'
    BY <1>2 DEF LifecycleExclusive
  <2>4. ~ Interruptible => ChecksHold'
    BY <1>2 DEF portVars, ChecksHold
  <2>5. RegisteredIffOpen'
    BY <1>2 DEF portVars, streamVars, RegisteredIffOpen
  <2> QED
    BY <2>1, <2>2, <2>3, <2>4, <2>5
<1> QED
  BY <1>1, <1>2 DEF Begin

\* A step of the session finds no thread between check and write, and reads
\* the state it is going to overwrite.
LEMMA SessionChecks ==
    ASSUME ~ Interruptible, ChecksHold, SessionStep
    PROVE  ChecksHold'
<1>1. \A t \in Threads : pc'[t] = pc[t] /\ pc[t] \notin {"start_set", "suspend_set"}
  BY DEF SessionStep, threadVars, Windows
<1>2. cb'.kind = "control" => cb'.prev = state'
  <2>1. CASE CallbackWrite
    BY <2>1 DEF CallbackWrite, ControlResultHandler, SessionChangedHandler, NoCallback
  <2>2. CASE Environment
    <3>1. state' = state /\ cb.kind = "none"
      BY <2>2 DEF Environment, OnSessionStarted, OnSessionStartedInvalidMq, endSession,
                  binderDied, AnswerRequest, RemoteSuspend, SessionFree
    <3>2. \/ cb' = cb
          \/ \E kind, resp, status : Deliver(kind, resp, status)
      BY <2>2 DEF Environment, OnSessionStarted, OnSessionStartedInvalidMq, endSession,
                  binderDied, AnswerRequest, RemoteSuspend, OnSessionEnded
    <3> QED
      BY <3>1, <3>2 DEF Deliver
  <2> QED
    BY <2>1, <2>2 DEF SessionStep
<1> QED
  BY <1>1, <1>2 DEF ChecksHold

\* StreamInInv is inductive.
LEMMA NextInv == StreamInInv /\ [Next]_vars => StreamInInv'
<1> SUFFICES ASSUME StreamInInv, [Next]_vars PROVE StreamInInv'
  OBVIOUS
<1>1. CASE UNCHANGED vars
  BY <1>1 DEF vars, portVars, threadVars, StreamInInv, TypeOK, PortTypeOK, MutexOwner,
              LifecycleExclusive, ChecksHold, RegisteredIffOpen, streamVars
<1>2. CASE SessionStep
  <2>1. TypeOK' /\ MutexOwner' /\ LifecycleExclusive'
    BY <1>2, SessionPortType DEF SessionStep, threadVars, streamVars, StreamInInv, TypeOK,
                                 MutexOwner, LifecycleExclusive
  <2>2. in_use' = in_use
    BY <1>2 DEF SessionStep, Environment, CallbackWrite, OnSessionStarted,
                OnSessionStartedInvalidMq, endSession, binderDied, AnswerRequest,
                RemoteSuspend, ControlResultHandler, SessionChangedHandler
  <2>3. RegisteredIffOpen'
    BY <1>2, <2>2 DEF SessionStep, threadVars, streamVars, StreamInInv, RegisteredIffOpen
  <2> QED
    BY <1>2, <2>1, <2>3, SessionChecks DEF StreamInInv
<1>3. ASSUME NEW t \in Threads, Step(t)
      PROVE  StreamInInv'
  <2>1. PICK b \in Labels : Moves(t, b)
    BY <1>3, StepMoves
  <2>2. TypeOK' /\ MutexOwner' /\ LifecycleExclusive'
    BY <1>3, <2>1, StepType, MoveMutex, MoveLifecycle DEF StreamInInv
  <2>3. ASSUME ~ Interruptible PROVE ChecksHold'
    <3>1. SessionFree
      BY <1>3, <2>3 DEF Step
    <3> QED
      BY <2>1, <2>3, <3>1, MoveChecks DEF StreamInInv
  <2> QED
    BY <1>3, <2>2, <2>3, StepRegistered DEF StreamInInv
<1> QED
  BY <1>1, <1>2, <1>3, BeginInv DEF Next

\* Threads of any number that poll, read and suspend respect mutex_, which
\* in_state_transition_timeout gives up and takes again in the middle of their
\* calls, and the life cycle; outside data races no check is stale.
THEOREM InvariantHolds == Spec => []StreamInInv
<1>1. Init => StreamInInv
  <2> SUFFICES ASSUME Init PROVE StreamInInv
    OBVIOUS
  <2>1. PortTypeOK
    <3>1. pending \in Seq(Requests)
      BY DEF Init, PortInit
    <3>2. NoCallback \in Callbacks /\ "DISABLED" \in StreamStates
      BY DEF NoCallback, Callbacks, Statuses, Requests, StreamStates
    <3> QED
      BY <3>1, <3>2 DEF Init, PortInit, PortTypeOK
  <2>2. opened \in BOOLEAN
    BY Zenon DEF Init
  <2>3. TypeOK
    BY <2>1, <2>2, LabelFacts, StreamInAssumption DEF Init, TypeOK, Calls
  <2> QED
    BY <2>3, LabelFacts, StreamInAssumption
       DEF Init, PortInit, NoCallback, StreamInInv, MutexOwner, LifecycleExclusive, ChecksHold,
           RegisteredIffOpen
<1> QED
  BY <1>1, NextInv, PTL DEF Spec

-----------------------------------------------------------------------------
(* What enables a disabled stream, with every callback interleaved *)

\* A step that enables a disabled stream is SetUp, the end of a callback that read
\* another state, or the write of Start or Suspend.
LEMMA LeaveDisabled ==
    ASSUME StreamInInv, [Next]_vars,
           state = "DISABLED", state' # "DISABLED"
    PROVE  \/ \E t \in Threads : pc[t] = "open_register"
           \/ cb.kind = "control" /\ cb.prev # "DISABLED" /\ cb' # cb
           \/ \E t \in Threads : mutex = t /\ pc[t] \in {"start_set", "suspend_set"}
<1>1. CASE UNCHANGED vars
  BY <1>1 DEF vars, portVars
<1>2. CASE SessionStep
  BY <1>2
     DEF SessionStep, Environment, CallbackWrite, OnSessionStarted,
         OnSessionStartedInvalidMq, endSession, binderDied, AnswerRequest,
         RemoteSuspend, ControlResultHandler, SessionChangedHandler, NoCallback,
         ControlIgnored, Expecting
<1>3. ASSUME NEW t \in Threads, Begin(t)
      PROVE  FALSE
  BY <1>3 DEF Begin, Enter, BeginOpen, BeginClose, portVars
<1>4. ASSUME NEW t \in Threads, Step(t)
      PROVE  \/ pc[t] = "open_register"
             \/ mutex = t /\ pc[t] \in {"start_set", "suspend_set"}
  <2> USE DEF Goto, Jump, Write, SetState, portVars
  <2>1. ~ (WaitStarting(t) \/ StandbyRead(t) \/ WaitSuspending(t))
    BY DEF WaitStarting, StandbyRead, WaitSuspending, Sleep, Polled
  <2>2. ~ (ReadStart(t) \/ ReadData(t))
    BY DEF ReadStart, GoReading, ReadData
  <2>3. ASSUME Start(t) \/ Suspend(t)
        PROVE  mutex = t /\ pc[t] \in {"start_set", "suspend_set"}
    <3>1. pc[t] \in {"start_set", "suspend_set"}
      BY <2>3 DEF Start, Suspend
    <3> QED
      BY <3>1, LabelFacts DEF StreamInInv, MutexOwner
  <2>4. CASE SetUp(t) \/ LoadAudioConfig(t) \/ Close(t) \/ TearDown(t)
    BY <2>4 DEF SetUp, LoadAudioConfig, Close, TearDown
  <2> QED
    BY <1>4, <2>1, <2>2, <2>3, <2>4 DEF Step, in_read, in_standby
<1> QED
  BY <1>1, <1>2, <1>3, <1>4 DEF Next

\* For any number of threads that poll, and every interleaving with callbacks, a
\* disabled input stream is enabled by opening it or by a write whose look at
\* state_ came before it was disabled.
THEOREM EnabledByEarlierReads == Spec => OnlyEarlierReadsEnable
<1>1. StreamInInv /\ [Next]_vars
         => [(state = "DISABLED" /\ state' # "DISABLED")
               => \/ \E t \in Threads : pc[t] = "open_register"
                  \/ cb.kind = "control" /\ cb.prev # "DISABLED" /\ cb' # cb
                  \/ \E t \in Threads : mutex = t /\ pc[t] \in {"start_set", "suspend_set"}]_vars
  BY LeaveDisabled
<1> QED
  BY <1>1, InvariantHolds, PTL DEF Spec, OnlyEarlierReadsEnable

=============================================================================
