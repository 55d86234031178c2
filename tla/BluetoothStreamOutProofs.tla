----------------------- MODULE BluetoothStreamOutProofs -----------------------
(***************************************************************************)
(* Proofs about BluetoothStreamOut for every number of threads and every   *)
(* value of the bounds: type correctness, the invariant StreamInv, the     *)
(* frame counters, and that a disabled stream stays disabled.              *)
(***************************************************************************)
EXTENDS BluetoothStreamOut, TLAPS

\* The steps of the threads, spelt out once for the case splits below.
LEMMA StepCases ==
    ASSUME NEW t \in Threads, Step(t) \/ Begin(t)
    PROVE  \/ Call(t) \/ BeginOpen(t) \/ BeginClose(t)
           \/ out_resume(t) \/ Start(t) \/ out_pause(t) \/ Suspend(t)
           \/ out_set_parameters(t) \/ out_write(t) \/ OpenClose(t)
BY DEF Step, Begin

\* The labels a thread moves to, so that the set itself can stay folded.
LEMMA LabelFacts ==
    /\ {"idle", "write_resume", "write_relock", "write_failed", "write_data",
        "write_count"} \subseteq Labels
    /\ {"open", "open_register", "close", "close_stop", "close_stop_call",
        "teardown"} \subseteq Labels
    /\ {"resume", "resume_starting", "resume_suspending", "resume_disabled",
        "start", "start_set", "start_call", "start_wait"} \subseteq Labels
    /\ {"pause", "pause_starting", "pause_suspending", "suspend", "suspend_set",
        "suspend_call", "suspend_wait"} \subseteq Labels
    /\ {"params", "params_suspend", "params_disable", "params_unsuspend",
        "params_stop", "params_stop_call", "write"} \subseteq Labels
BY DEF Labels, Holding, Unlocked, Lifecycle

\* The entry points are calls.
LEMMA CallFacts ==
    /\ "none" \in Calls /\ "open" \in Calls /\ "close" \in Calls
    /\ "write" \in Calls /\ "resume" \in Calls /\ "pause" \in Calls
    /\ "standby" \in Calls /\ "set_parameters" \in Calls
BY DEF Calls

-----------------------------------------------------------------------------
(* Type correctness *)

\* A callback of the session keeps the port's types.
LEMMA DeliverType ==
    ASSUME PortTypeOK, NEW kind \in {"control", "session"}, NEW resp \in Requests,
           NEW status \in Statuses, Deliver(kind, resp, status)
    PROVE  cb' \in Callbacks
BY DEF PortTypeOK, Deliver, Callbacks

\* Steps of the session and of the stack keep the port's types.
LEMMA SessionPortType ==
    ASSUME PortTypeOK, Environment \/ CallbackWrite
    PROVE  PortTypeOK'
<1>1. NoCallback \in Callbacks
  BY DEF NoCallback, Callbacks, Statuses, Requests, StreamStates
<1>2. CASE CallbackWrite
  BY <1>1, <1>2 DEF CallbackWrite, ControlResultHandler, SessionChangedHandler,
                    ControlResult, PortTypeOK, StreamStates
<1>3. CASE OnSessionStarted \/ OnSessionStartedInvalidMq
  <2>1. "start" \in Requests /\ "SUCCESS" \in Statuses
    BY DEF Requests, Statuses
  <2> QED
    BY <1>3, <2>1, DeliverType
       DEF OnSessionStarted, OnSessionStartedInvalidMq, PortTypeOK
<1>4. CASE endSession \/ binderDied
  <2>1. "suspend" \in Requests /\ "SUCCESS" \in Statuses
    BY DEF Requests, Statuses
  <2>2. Deliver("session", "suspend", "SUCCESS") \/ cb' = cb
    BY <1>4 DEF endSession, binderDied, OnSessionEnded
  <2>3. cb' \in Callbacks
    BY <2>1, <2>2, DeliverType DEF PortTypeOK
  <2> QED
    <3>1. pending' \in Seq(Requests)
      <4>1. pending' = pending \/ pending' = <<>>
        BY <1>4 DEF endSession, binderDied
      <4>2. <<>> \in Seq(Requests)
        OBVIOUS
      <4> QED
        BY <4>1, <4>2, Zenon DEF PortTypeOK
    <3> QED
      BY <1>4, <2>3, <3>1 DEF endSession, binderDied, OnSessionEnded, PortTypeOK
<1>5. ASSUME NEW status \in Statuses, AnswerRequest(status)
      PROVE  PortTypeOK'
  <2>1. Head(pending) \in Requests /\ Tail(pending) \in Seq(Requests)
    BY <1>5 DEF AnswerRequest, PortTypeOK
  <2>2. cb' \in Callbacks
    BY <1>5, <2>1, DeliverType DEF AnswerRequest, PortTypeOK
  <2> QED
    BY <1>5, <2>1, <2>2 DEF AnswerRequest, PortTypeOK
<1>6. ASSUME NEW status \in Statuses, RemoteSuspend(status)
      PROVE  PortTypeOK'
  BY <1>6, DeliverType DEF RemoteSuspend, PortTypeOK, Requests
<1> QED
  BY <1>2, <1>3, <1>4, <1>5, <1>6 DEF Environment

\* The ways a thread changes the port: not at all, the state, or the requests.
LEMMA PortChange ==
    ASSUME PortTypeOK,
           \/ UNCHANGED portVars
           \/ /\ state' \in StreamStates /\ in_use' \in {in_use, TRUE, FALSE}
              /\ UNCHANGED <<ready, hosted, pending, cb>>
           \/ /\ pending' \in Seq(Requests)
              /\ UNCHANGED <<state, in_use, ready, hosted, cb>>
    PROVE  PortTypeOK'
BY DEF PortTypeOK, portVars

\* Steps of a thread keep the port's types.
LEMMA ThreadPortType ==
    ASSUME PortTypeOK, NEW t \in Threads, Step(t) \/ Begin(t)
    PROVE  PortTypeOK'
<1>1. CASE Call(t) \/ BeginOpen(t) \/ BeginClose(t)
  <2>1. UNCHANGED portVars
    BY <1>1 DEF Call, Enter, BeginOpen, BeginClose
  <2> QED
    BY <2>1, PortChange
<1>2. CASE out_resume(t) \/ out_pause(t) \/ out_write(t)
  <2>1. UNCHANGED portVars
    BY <1>2 DEF out_resume, ResumeStandby, ResumeRefused, ResumeNextRead,
              ResumedAlready, out_pause, PauseStarted, PauseOther,
              out_write, WriteCheck, WriteResume, WriteRelock, WriteFailed,
              WriteData, WriteCount, Jump
  <2> QED
    BY <2>1, PortChange
<1>3. CASE Start(t) \/ Suspend(t)
  <2>1. CASE StartCheck(t) \/ StartWait(t) \/ SuspendCheck(t) \/ SuspendWait(t)
    BY <2>1, PortChange DEF StartCheck, StartWait, SuspendCheck, SuspendWait, Jump
  <2>2. CASE StartSet(t) \/ SuspendSet(t)
    BY <2>2, PortChange DEF StartSet, SuspendSet, SetState, StreamStates
  <2>3. CASE StartCall(t) \/ SuspendCall(t)
    <3>1. pending' \in Seq(Requests)
      <4>1. \/ pending' = pending
            \/ \E request \in Requests : pending' = Append(pending, request)
        BY <2>3 DEF StartCall, SuspendCall, Requested, Refused, Requests
      <4> QED
        BY <4>1 DEF PortTypeOK
    <3> QED
      BY <2>3, <3>1, PortChange DEF StartCall, SuspendCall
  <2> QED
    BY <1>3, <2>1, <2>2, <2>3 DEF Start, Suspend
<1>4. CASE out_set_parameters(t) \/ OpenClose(t)
  <2>1. \/ UNCHANGED portVars
        \/ /\ state' \in StreamStates /\ in_use' \in {in_use, TRUE, FALSE}
           /\ UNCHANGED <<ready, hosted, pending, cb>>
    BY <1>4 DEF out_set_parameters, ParamSuspend, ParamSuspendElse, ParamDisable,
              ParamUnsuspend, ParamClosing, ParamDone, OpenClose, SetUpCheck,
              SetUpRegister, CloseCheck, Stop, TearDown, SetState, StreamStates, Jump
  <2> QED
    BY <2>1, PortChange
<1> QED
  BY <1>1, <1>2, <1>3, <1>4, StepCases

\* Steps of a thread keep the types of the threads' own variables.
LEMMA ThreadThreadType ==
    ASSUME PortTypeOK, ThreadTypeOK, NEW t \in Threads, Step(t) \/ Begin(t)
    PROVE  ThreadTypeOK'
<1> USE LabelFacts, CallFacts DEF ThreadTypeOK, Goto, Jump, Done, Return
<1>1. CASE Call(t) \/ BeginOpen(t) \/ BeginClose(t)
  BY <1>1 DEF Call, Enter, Lock, BeginOpen, BeginClose
<1>2. CASE out_resume(t)
  BY <1>2 DEF out_resume, ResumeStandby, ResumeRefused, ResumeNextRead, ResumedAlready
<1>3. CASE out_pause(t)
  BY <1>3 DEF out_pause, PauseStarted, PauseOther
<1>4. CASE out_write(t)
  <2>1. CASE WriteData(t)
    <3>1. {FALSE, ready} \subseteq BOOLEAN
      BY DEF PortTypeOK
    <3> QED
      BY <2>1, <3>1 DEF WriteData
  <2>2. CASE ~ WriteData(t)
    BY <1>4, <2>2 DEF out_write, WriteCheck, WriteResume, WriteRelock, WriteFailed,
                      WriteCount, Lock
  <2> QED
    BY <2>1, <2>2
<1>5. CASE Start(t)
  BY <1>5 DEF Start, StartCheck, StartSet, StartCall, StartWait
<1>6. CASE Suspend(t)
  BY <1>6 DEF Suspend, SuspendCheck, SuspendSet, SuspendCall, SuspendWait,
              SuspendReturn
<1>7. CASE out_set_parameters(t)
  BY <1>7 DEF out_set_parameters, ParamSuspend, ParamSuspendElse, ParamDisable,
              ParamUnsuspend, ParamClosing, ParamDone, TakeKey, Stop
<1>8. CASE OpenClose(t)
  BY <1>8 DEF OpenClose, SetUpCheck, SetUpRegister, CloseCheck, Stop, TearDown
<1> QED
  BY <1>1, <1>2, <1>3, <1>4, <1>5, <1>6, <1>7, <1>8, StepCases

\* Steps of a thread keep the frame counters natural.
LEMMA ThreadFrameType ==
    ASSUME FrameTypeOK, NEW t \in Threads, Step(t) \/ Begin(t)
    PROVE  FrameTypeOK'
<1> USE DEF FrameTypeOK, frameVars, Jump
<1>1. CASE Call(t) \/ BeginOpen(t) \/ BeginClose(t)
  BY <1>1 DEF Call, Enter, BeginOpen, BeginClose
<1>2. CASE out_resume(t) \/ PauseOther(t)
  BY <1>2 DEF out_resume, ResumeStandby, ResumeRefused, ResumeNextRead,
              ResumedAlready, PauseOther
<1>7. CASE PauseStarted(t)
  BY <1>7 DEF PauseStarted
<1>3. CASE out_write(t)
  BY <1>3 DEF out_write, WriteCheck, WriteResume, WriteRelock, WriteFailed,
              WriteData, WriteCount
<1>4. CASE Start(t) \/ Suspend(t)
  BY <1>4 DEF Start, StartCheck, StartSet, StartCall, StartWait,
              Suspend, SuspendCheck, SuspendSet, SuspendCall, SuspendWait
<1>5. CASE out_set_parameters(t)
  BY <1>5 DEF out_set_parameters, ParamSuspend, ParamSuspendElse, ParamDisable,
              ParamUnsuspend, ParamClosing, ParamDone, Stop
<1>6. CASE OpenClose(t)
  BY <1>6 DEF OpenClose, SetUpCheck, SetUpRegister, CloseCheck, Stop, TearDown
<1> QED
  BY <1>1, <1>2, <1>3, <1>4, <1>5, <1>6, <1>7, StepCases DEF out_pause

\* The initial state is well typed.
LEMMA InitType == Init => TypeOK
<1> SUFFICES ASSUME Init PROVE TypeOK
  OBVIOUS
<1>1. NoCallback \in Callbacks /\ "DISABLED" \in StreamStates
  BY DEF NoCallback, Callbacks, Statuses, Requests, StreamStates
<1>2. PortTypeOK
  <2>1. pending \in Seq(Requests)
    BY DEF Init, PortInit
  <2> QED
    BY <1>1, <2>1 DEF Init, PortInit, PortTypeOK
<1>3. ThreadTypeOK
  BY LabelFacts, CallFacts DEF Init, ThreadTypeOK
<1> QED
  BY <1>2, <1>3 DEF Init, FrameTypeOK, TypeOK

\* Every step, and stuttering, keeps the type invariant.
LEMMA NextType == TypeOK /\ [Next]_vars => TypeOK'
<1> SUFFICES ASSUME TypeOK, [Next]_vars PROVE TypeOK'
  OBVIOUS
<1> USE DEF TypeOK
<1>1. CASE UNCHANGED vars
  BY <1>1 DEF vars, portVars, threadVars, frameVars, PortTypeOK, ThreadTypeOK,
              FrameTypeOK
<1>2. CASE SessionStep
  BY <1>2, SessionPortType
     DEF SessionStep, threadVars, frameVars, ThreadTypeOK, FrameTypeOK
<1> QED
  BY <1>1, <1>2, ThreadPortType, ThreadThreadType, ThreadFrameType DEF Next

\* The stream and its port stay within their types, whatever the threads, the
\* session and the stack do.
THEOREM TypeCorrect == Spec => []TypeOK
BY InitType, NextType, PTL DEF Spec

-----------------------------------------------------------------------------
(* The frame counters *)

\* Every step keeps the rendered frames at or below the presented ones.
LEMMA NextRendered ==
    FrameTypeOK /\ RenderedNeverAhead /\ [Next]_vars => RenderedNeverAhead'
<1> SUFFICES ASSUME FrameTypeOK, RenderedNeverAhead, [Next]_vars
             PROVE  RenderedNeverAhead'
  OBVIOUS
<1> USE DEF FrameTypeOK, RenderedNeverAhead, frameVars, Jump
<1>1. CASE UNCHANGED vars \/ SessionStep
  BY <1>1 DEF vars, SessionStep
<1>2. ASSUME NEW t \in Threads, Step(t) \/ Begin(t)
      PROVE  RenderedNeverAhead'
  <2>1. CASE Call(t) \/ BeginOpen(t) \/ BeginClose(t)
    BY <2>1 DEF Call, Enter, BeginOpen, BeginClose
  <2>2. CASE out_resume(t) \/ PauseOther(t)
    BY <2>2 DEF out_resume, ResumeStandby, ResumeRefused, ResumeNextRead,
                ResumedAlready, PauseOther
  <2>3. CASE PauseStarted(t)
    BY <2>3 DEF PauseStarted
  <2>4. CASE out_write(t)
    BY <2>4 DEF out_write, WriteCheck, WriteResume, WriteRelock, WriteFailed,
                WriteData, WriteCount
  <2>5. CASE Start(t) \/ Suspend(t)
    BY <2>5 DEF Start, StartCheck, StartSet, StartCall, StartWait,
                Suspend, SuspendCheck, SuspendSet, SuspendCall, SuspendWait
  <2>6. CASE out_set_parameters(t)
    BY <2>6 DEF out_set_parameters, ParamSuspend, ParamSuspendElse, ParamDisable,
                ParamUnsuspend, ParamClosing, ParamDone, Stop
  <2>7. CASE OpenClose(t)
    BY <2>7 DEF OpenClose, SetUpCheck, SetUpRegister, CloseCheck, Stop, TearDown
  <2> QED
    BY <1>2, <2>1, <2>2, <2>3, <2>4, <2>5, <2>6, <2>7, StepCases DEF out_pause
<1> QED
  BY <1>1, <1>2 DEF Next

\* However writes, suspends, closing parameters and callbacks interleave, the
\* stream never reports more rendered frames than it was given.
THEOREM FramesConsistent == Spec => []RenderedNeverAhead
<1>1. Init => RenderedNeverAhead
  BY DEF Init, RenderedNeverAhead
<1>2. TypeOK => FrameTypeOK
  BY DEF TypeOK
<1> QED
  BY <1>1, <1>2, NextRendered, TypeCorrect, PTL DEF Spec

-----------------------------------------------------------------------------
(* The invariant behind the rest *)

\* Which labels own mutex_, so that the sets can stay folded.
LEMMA HoldingFacts ==
    /\ \A b \in {"resume", "resume_starting", "resume_suspending",
                 "resume_disabled", "start", "start_set", "start_call",
                 "start_wait", "pause", "pause_starting", "pause_suspending",
                 "suspend", "suspend_set", "suspend_call", "suspend_wait"} :
          b \in Holding /\ b \notin Lifecycle
    /\ \A b \in {"params", "params_suspend", "params_disable",
                 "params_unsuspend", "params_stop", "params_stop_call", "write"} :
          b \in Holding /\ b \notin Lifecycle
    /\ \A b \in {"idle", "write_resume", "write_relock", "write_failed",
                 "write_data", "write_count"} :
          b \notin Holding /\ b \notin Lifecycle
    /\ \A b \in {"open", "open_register", "close", "close_stop",
                 "close_stop_call", "teardown"} :
          b \notin Holding /\ b \in Lifecycle
BY DEF Holding, Lifecycle

\* The three ways a step of t treats mutex_: it stays inside or outside the
\* critical section, leaves it, or enters it.
LEMMA MutexMove ==
    ASSUME ThreadTypeOK, MutexOwner, NEW t \in Threads, NEW b,
           pc' = [pc EXCEPT ![t] = b],
           \/ mutex' = mutex /\ (pc[t] \in Holding <=> b \in Holding)
           \/ mutex' = Free /\ pc[t] \in Holding /\ b \notin Holding
           \/ mutex = Free /\ mutex' = t /\ b \in Holding
    PROVE  MutexOwner'
BY StreamAssumption DEF ThreadTypeOK, MutexOwner

\* Each step of a thread is one of the three.
LEMMA ThreadMutex ==
    ASSUME ThreadTypeOK, MutexOwner, NEW t \in Threads, Step(t) \/ Begin(t)
    PROVE  MutexOwner'
<1> DEFINE Moves == \E b \in Labels :
              /\ pc' = [pc EXCEPT ![t] = b]
              /\ \/ mutex' = mutex /\ (pc[t] \in Holding <=> b \in Holding)
                 \/ mutex' = Free /\ pc[t] \in Holding /\ b \notin Holding
                 \/ mutex = Free /\ mutex' = t /\ b \in Holding
<1> USE LabelFacts, HoldingFacts DEF Goto, Jump, Done, Return, MutexOwner
<1>1. CASE Call(t)
  <2>1. Moves
    BY <1>1 DEF Call, Enter, Lock
  <2> QED
    BY <2>1, MutexMove
<1>2. CASE BeginOpen(t) \/ BeginClose(t)
  <2>1. Moves
    BY <1>2 DEF BeginOpen, BeginClose
  <2> QED
    BY <2>1, MutexMove
<1>3. CASE out_resume(t)
  <2>1. Moves
    BY <1>3 DEF out_resume, ResumeStandby, ResumeRefused, ResumeNextRead,
                ResumedAlready
  <2> QED
    BY <2>1, MutexMove
<1>4. CASE Start(t)
  <2>1. Moves
    BY <1>4 DEF Start, StartCheck, StartSet, StartCall, StartWait
  <2> QED
    BY <2>1, MutexMove
<1>5. CASE out_pause(t)
  <2>1. Moves
    BY <1>5 DEF out_pause, PauseStarted, PauseOther
  <2> QED
    BY <2>1, MutexMove
<1>6. CASE Suspend(t)
  <2>1. Moves
    BY <1>6 DEF Suspend, SuspendCheck, SuspendSet, SuspendCall, SuspendWait,
                SuspendReturn
  <2> QED
    BY <2>1, MutexMove
<1>7. CASE out_set_parameters(t)
  <2>1. Moves
    BY <1>7 DEF out_set_parameters, ParamSuspend, ParamSuspendElse, ParamDisable,
                ParamUnsuspend, ParamClosing, ParamDone, TakeKey, Stop
  <2> QED
    BY <2>1, MutexMove
<1>8. CASE out_write(t)
  <2>1. Moves
    BY <1>8 DEF out_write, WriteCheck, WriteResume, WriteRelock, WriteFailed,
                WriteData, WriteCount, Lock
  <2> QED
    BY <2>1, MutexMove
<1>9. CASE OpenClose(t)
  <2>1. Moves
    BY <1>9 DEF OpenClose, SetUpCheck, SetUpRegister, CloseCheck, Stop, TearDown
  <2> QED
    BY <2>1, MutexMove
<1> QED
  BY <1>1, <1>2, <1>3, <1>4, <1>5, <1>6, <1>7, <1>8, <1>9, StepCases

\* Going on with a call keeps the life cycle exclusive.
LEMMA StepLifecycle ==
    ASSUME TypeOK, LifecycleExclusive, NEW t \in Threads, Step(t)
    PROVE  LifecycleExclusive'
<1> USE HoldingFacts DEF TypeOK, ThreadTypeOK, LifecycleExclusive, Goto, Jump, Done,
                         Return, portVars
<1>1. CASE out_resume(t)
  BY <1>1 DEF out_resume, ResumeStandby, ResumeRefused, ResumeNextRead, ResumedAlready
<1>2. CASE Start(t)
  BY <1>2 DEF Start, StartCheck, StartSet, StartCall, StartWait
<1>3. CASE out_pause(t)
  BY <1>3 DEF out_pause, PauseStarted, PauseOther
<1>4. CASE Suspend(t)
  BY <1>4 DEF Suspend, SuspendCheck, SuspendSet, SuspendCall, SuspendWait,
              SuspendReturn
<1>5. CASE out_set_parameters(t)
  BY <1>5 DEF out_set_parameters, ParamSuspend, ParamSuspendElse, ParamDisable,
              ParamUnsuspend, ParamClosing, ParamDone, TakeKey, Stop
<1>6. CASE out_write(t)
  BY <1>6 DEF out_write, WriteCheck, WriteResume, WriteRelock, WriteFailed,
              WriteData, WriteCount, Lock
<1>7. CASE OpenClose(t)
  BY <1>7 DEF OpenClose, SetUpCheck, SetUpRegister, CloseCheck, Stop, TearDown
<1> QED
  BY <1>1, <1>2, <1>3, <1>4, <1>5, <1>6, <1>7 DEF Step

\* So does beginning one: entry points wait for open and close to be over.
LEMMA BeginLifecycle ==
    ASSUME TypeOK, LifecycleExclusive, NEW t \in Threads, Begin(t)
    PROVE  LifecycleExclusive'
<1> USE HoldingFacts DEF TypeOK, ThreadTypeOK, LifecycleExclusive, Goto, portVars
<1>1. CASE Call(t)
  BY <1>1 DEF Call, Enter, Lock
<1>2. CASE BeginOpen(t) \/ BeginClose(t)
  BY <1>2 DEF BeginOpen, BeginClose, Idle
<1> QED
  BY <1>1, <1>2 DEF Begin

\* A thread writes the port's state only with mutex_ or alone in the stream.
LEMMA StateWriter ==
    ASSUME NEW t \in Threads, Step(t) \/ Begin(t), state' # state
    PROVE  pc[t] \in Holding \cup Lifecycle
<1> USE HoldingFacts DEF Goto, Jump, portVars
<1>1. ~ (Call(t) \/ BeginOpen(t) \/ BeginClose(t))
  BY DEF Call, Enter, BeginOpen, BeginClose
<1>2. ~ (out_resume(t) \/ out_pause(t) \/ out_write(t))
  BY DEF out_resume, ResumeStandby, ResumeRefused, ResumeNextRead, ResumedAlready,
         out_pause, PauseStarted, PauseOther, out_write, WriteCheck, WriteResume,
         WriteRelock, WriteFailed, WriteData, WriteCount
<1>3. CASE Start(t) \/ Suspend(t)
  BY <1>3 DEF Start, StartCheck, StartSet, StartCall, StartWait,
              Suspend, SuspendCheck, SuspendSet, SuspendCall, SuspendWait
<1>4. CASE out_set_parameters(t) \/ OpenClose(t)
  BY <1>4 DEF out_set_parameters, ParamSuspend, ParamSuspendElse, ParamDisable,
              ParamUnsuspend, ParamClosing, ParamDone, TakeKey, Stop, OpenClose,
              SetUpCheck, SetUpRegister, CloseCheck, TearDown
<1> QED
  BY <1>1, <1>2, <1>3, <1>4, StepCases

\* A thread arrives at the writes of Start and Suspend from their checks, and
\* does not touch a callback.
LEMMA CheckedWrites ==
    ASSUME ThreadTypeOK, NEW t \in Threads, Step(t) \/ Begin(t)
    PROVE  /\ pc'[t] = "start_set" => state' = "STANDBY"
           /\ pc'[t] = "suspend_set" => state' = "STARTED"
           /\ cb' = cb
           /\ \A u \in Threads \ {t} : pc'[u] = pc[u]
<1> USE DEF ThreadTypeOK, Goto, Jump, Done, Return, portVars
<1>1. CASE Call(t) \/ BeginOpen(t) \/ BeginClose(t)
  BY <1>1 DEF Call, Enter, BeginOpen, BeginClose
<1>2. CASE out_resume(t)
  BY <1>2 DEF out_resume, ResumeStandby, ResumeRefused, ResumeNextRead, ResumedAlready
<1>3. CASE out_pause(t)
  BY <1>3 DEF out_pause, PauseStarted, PauseOther
<1>4. CASE out_write(t)
  BY <1>4 DEF out_write, WriteCheck, WriteResume, WriteRelock, WriteFailed,
              WriteData, WriteCount
<1>5. CASE Start(t)
  BY <1>5 DEF Start, StartCheck, StartSet, StartCall, StartWait
<1>6. CASE Suspend(t)
  BY <1>6 DEF Suspend, SuspendCheck, SuspendSet, SuspendCall, SuspendWait,
              SuspendReturn
<1>7. CASE out_set_parameters(t)
  BY <1>7 DEF out_set_parameters, ParamSuspend, ParamSuspendElse, ParamDisable,
              ParamUnsuspend, ParamClosing, ParamDone, TakeKey, Stop
<1>8. CASE OpenClose(t)
  BY <1>8 DEF OpenClose, SetUpCheck, SetUpRegister, CloseCheck, Stop, TearDown
<1> QED
  BY <1>1, <1>2, <1>3, <1>4, <1>5, <1>6, <1>7, <1>8, StepCases

\* Without interruptions a thread leaves no check stale: it is alone with the
\* port's state, and no callback is under way.
LEMMA ThreadChecks ==
    ASSUME TypeOK, MutexOwner, LifecycleExclusive, ~ Interruptible, ChecksHold,
           NEW t \in Threads, Step(t) \/ Begin(t)
    PROVE  ChecksHold'
<1>1. cb.kind = "none" /\ cb' = cb
  BY CheckedWrites DEF TypeOK, Step, Begin, SessionFree
<1>2. ASSUME NEW u \in Threads \ {t}, pc[u] \in {"start_set", "suspend_set"}
      PROVE  state' = state
  <2>1. pc[u] \in Holding /\ pc[u] # "idle"
    BY <1>2, HoldingFacts
  <2>2. mutex = u /\ mutex # t
    BY <2>1 DEF MutexOwner
  <2>3. pc[t] \notin Holding
    BY <2>2 DEF MutexOwner
  <2>4. pc[t] \notin Lifecycle
    BY <2>1 DEF LifecycleExclusive
  <2> QED
    BY <2>3, <2>4, StateWriter
<1>3. ASSUME NEW u \in Threads
      PROVE  /\ pc'[u] = "start_set" => state' = "STANDBY"
             /\ pc'[u] = "suspend_set" => state' = "STARTED"
  <2>1. CASE u = t
    BY <2>1, CheckedWrites DEF TypeOK
  <2>2. CASE u # t
    <3>1. pc'[u] = pc[u]
      BY <2>2, CheckedWrites DEF TypeOK
    <3> QED
      BY <1>2, <2>2, <3>1 DEF ChecksHold
  <2> QED
    BY <2>1, <2>2
<1> QED
  BY <1>1, <1>3 DEF ChecksHold

\* A step of the session finds no thread between check and write, and reads
\* the state it is going to overwrite.
LEMMA SessionChecks ==
    ASSUME TypeOK, ~ Interruptible, ChecksHold, SessionStep
    PROVE  ChecksHold'
<1>1. \A t \in Threads : pc'[t] = pc[t] /\ pc[t] \notin {"start_set", "suspend_set"}
  BY DEF SessionStep, threadVars, Windows
<1>2. cb'.kind = "control" => cb'.prev = state'
  <2>1. CASE CallbackWrite
    BY <2>1 DEF CallbackWrite, ControlResultHandler, SessionChangedHandler, NoCallback
  <2>2. CASE Environment
    <3>1. state' = state /\ cb.kind = "none"
      BY <2>2 DEF Environment, OnSessionStarted, OnSessionStartedInvalidMq, endSession,
                  binderDied, AnswerRequest, RemoteSuspend, SessionFree
    <3>2. \/ cb' = cb
          \/ \E kind, resp, status : Deliver(kind, resp, status)
      BY <2>2 DEF Environment, OnSessionStarted, OnSessionStartedInvalidMq, endSession,
                  binderDied, AnswerRequest, RemoteSuspend, OnSessionEnded
    <3> QED
      BY <3>1, <3>2 DEF Deliver
  <2> QED
    BY <2>1, <2>2 DEF SessionStep
<1> QED
  BY <1>1, <1>2 DEF ChecksHold

\* StreamInv is inductive relative to the types.
LEMMA NextInv == TypeOK /\ StreamInv /\ [Next]_vars => StreamInv'
<1> SUFFICES ASSUME TypeOK, StreamInv, [Next]_vars PROVE StreamInv'
  OBVIOUS
<1> USE DEF StreamInv
<1>1. CASE UNCHANGED vars
  BY <1>1 DEF vars, portVars, threadVars, MutexOwner, LifecycleExclusive, ChecksHold
<1>2. CASE SessionStep
  <2>1. in_use' = in_use
    BY <1>2 DEF SessionStep, Environment, CallbackWrite, OnSessionStarted,
                OnSessionStartedInvalidMq, endSession, binderDied, AnswerRequest,
                RemoteSuspend, ControlResultHandler, SessionChangedHandler
  <2>2. MutexOwner' /\ LifecycleExclusive'
    BY <1>2, <2>1 DEF SessionStep, threadVars, MutexOwner, LifecycleExclusive
  <2> QED
    BY <1>2, <2>2, SessionChecks
<1>3. ASSUME NEW t \in Threads, Step(t) \/ Begin(t)
      PROVE  StreamInv'
  BY <1>3, ThreadMutex, StepLifecycle, BeginLifecycle, ThreadChecks DEF TypeOK
<1> QED
  BY <1>1, <1>2, <1>3 DEF Next

\* Threads respect mutex_ and the life cycle of the stream, and outside data
\* races every check still holds when the step that relies on it is taken.
THEOREM InvariantHolds == Spec => []StreamInv
<1>1. Init => StreamInv
  BY HoldingFacts, StreamAssumption
     DEF Init, PortInit, NoCallback, StreamInv, MutexOwner, LifecycleExclusive, ChecksHold
<1> QED
  BY <1>1, NextInv, TypeCorrect, PTL DEF Spec

-----------------------------------------------------------------------------
(* What enables a disabled stream, with every callback interleaved *)

\* A step that enables a disabled stream is A2dpSuspended=false, SetUp, the end of
\* a callback that read another state, or the write of Start or Suspend.
LEMMA LeaveDisabled ==
    ASSUME TypeOK, StreamInv, [Next]_vars,
           state = "DISABLED", state' # "DISABLED"
    PROVE  \/ \E t \in Threads : pc[t] \in {"params_unsuspend", "open_register"}
           \/ cb.kind = "control" /\ cb.prev # "DISABLED" /\ cb' # cb
           \/ \E t \in Threads : mutex = t /\ pc[t] \in {"start_set", "suspend_set"}
<1>1. CASE UNCHANGED vars
  BY <1>1 DEF vars, portVars
<1>2. CASE SessionStep
  BY <1>2
     DEF SessionStep, Environment, CallbackWrite, OnSessionStarted,
         OnSessionStartedInvalidMq, endSession, binderDied, AnswerRequest,
         RemoteSuspend, ControlResultHandler, SessionChangedHandler, NoCallback,
         ControlIgnored, Expecting
<1>3. ASSUME NEW t \in Threads, Step(t) \/ Begin(t)
      PROVE  \/ pc[t] \in {"params_unsuspend", "open_register"}
             \/ mutex = t /\ pc[t] \in {"start_set", "suspend_set"}
  <2> USE DEF Goto, Jump, portVars
  <2>1. ~ (Call(t) \/ BeginOpen(t) \/ BeginClose(t))
    BY DEF Call, Enter, BeginOpen, BeginClose
  <2>2. ~ (out_resume(t) \/ out_pause(t) \/ out_write(t))
    BY DEF out_resume, ResumeStandby, ResumeRefused, ResumeNextRead, ResumedAlready,
           out_pause, PauseStarted, PauseOther, out_write, WriteCheck, WriteResume,
           WriteRelock, WriteFailed, WriteData, WriteCount
  <2>3. ASSUME Start(t) \/ Suspend(t)
        PROVE  mutex = t /\ pc[t] \in {"start_set", "suspend_set"}
    <3>1. pc[t] \in {"start_set", "suspend_set"}
      BY <2>3 DEF Start, StartCheck, StartSet, StartCall, StartWait,
                  Suspend, SuspendCheck, SuspendSet, SuspendCall, SuspendWait
    <3> QED
      BY <3>1, HoldingFacts DEF StreamInv, MutexOwner
  <2>4. CASE out_set_parameters(t) \/ OpenClose(t)
    BY <2>4 DEF out_set_parameters, ParamSuspend, ParamSuspendElse, ParamDisable,
                ParamUnsuspend, ParamClosing, ParamDone, TakeKey, Stop, SetState,
                OpenClose, SetUpCheck, SetUpRegister, CloseCheck, TearDown
  <2> QED
    BY <1>3, <2>1, <2>2, <2>3, <2>4, StepCases
<1> QED
  BY <1>1, <1>2, <1>3 DEF Next

\* Whoever disables the stream but a callback keeps every other thread out of
\* the writes of Start and Suspend: it holds mutex_ or is alone in the stream.
LEMMA EnterDisabled ==
    ASSUME TypeOK, StreamInv, [Next]_vars,
           state # "DISABLED", state' = "DISABLED", cb' = cb
    PROVE  \A u \in Threads : pc[u] \notin {"start_set", "suspend_set"}
<1>1. ~ UNCHANGED vars
  BY DEF vars, portVars
<1>2. ~ SessionStep
  BY DEF SessionStep, Environment, CallbackWrite, OnSessionStarted,
         OnSessionStartedInvalidMq, endSession, binderDied, AnswerRequest,
         RemoteSuspend, ControlResultHandler, SessionChangedHandler, NoCallback
<1>3. PICK t \in Threads : Step(t) \/ Begin(t)
  BY <1>1, <1>2 DEF Next
<1>4. pc[t] \in Holding \cup Lifecycle
  BY <1>3, StateWriter
<1>5. pc[t] \notin {"start_set", "suspend_set"}
  <2>1. ASSUME pc[t] \in {"start_set", "suspend_set"}
        PROVE  FALSE
    <3>1. ~ (Call(t) \/ BeginOpen(t) \/ BeginClose(t))
      BY <2>1 DEF Call, Enter, BeginOpen, BeginClose, Goto
    <3>2. ~ (out_resume(t) \/ out_pause(t) \/ out_write(t))
      BY <2>1 DEF out_resume, ResumeStandby, ResumeRefused, ResumeNextRead, ResumedAlready,
           out_pause, PauseStarted, PauseOther, out_write, WriteCheck, WriteResume,
           WriteRelock, WriteFailed, WriteData, WriteCount, Goto, Jump
    <3>3. ~ (Start(t) \/ Suspend(t))
      BY <2>1 DEF Start, StartCheck, StartSet, StartCall, StartWait, SetState, Goto, Jump,
                  Suspend, SuspendCheck, SuspendSet, SuspendCall, SuspendWait
    <3>4. ~ (out_set_parameters(t) \/ OpenClose(t))
      BY <2>1 DEF out_set_parameters, ParamSuspend, ParamSuspendElse, ParamDisable,
                ParamUnsuspend, ParamClosing, ParamDone, TakeKey, Stop, Goto, Jump,
                OpenClose, SetUpCheck, SetUpRegister, CloseCheck, TearDown
    <3> QED
      BY <1>3, <3>1, <3>2, <3>3, <3>4, StepCases
  <2> QED
    BY <2>1
<1>6. ASSUME NEW u \in Threads, u # t
      PROVE  pc[u] \notin {"start_set", "suspend_set"}
  <2>1. CASE pc[t] \in Holding
    BY <1>6, <2>1, HoldingFacts DEF StreamInv, MutexOwner
  <2>2. CASE pc[t] \in Lifecycle
    BY <1>6, <2>2 DEF StreamInv, LifecycleExclusive
  <2> QED
    BY <1>4, <2>1, <2>2
<1> QED
  BY <1>5, <1>6

\* For any number of threads and every interleaving with callbacks, a disabled
\* stream is enabled by A2dpSuspended=false, by opening it, or by a write whose
\* look at state_ came before it was disabled; a thread that disables it leaves
\* only callbacks of that kind.
THEOREM EnabledByEarlierReads == Spec => OnlyEarlierReadsEnable
<1>1. TypeOK /\ StreamInv /\ [Next]_vars
         => [/\ state = "DISABLED" /\ state' # "DISABLED"
                  => \/ \E t \in Threads : pc[t] \in {"params_unsuspend", "open_register"}
                     \/ cb.kind = "control" /\ cb.prev # "DISABLED" /\ cb' # cb
                     \/ \E t \in Threads : mutex = t /\ pc[t] \in {"start_set", "suspend_set"}
             /\ state # "DISABLED" /\ state' = "DISABLED" /\ cb' = cb
                  => \A t \in Threads : pc[t] \notin {"start_set", "suspend_set"}]_vars
  BY LeaveDisabled, EnterDisabled
<1> QED
  BY <1>1, TypeCorrect, InvariantHolds, PTL DEF Spec, OnlyEarlierReadsEnable

=============================================================================
