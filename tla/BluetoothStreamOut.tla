-------------------------- MODULE BluetoothStreamOut --------------------------
(***************************************************************************)
(* An output stream of the sysbta audio HAL: out_write, out_resume,        *)
(* out_pause, out_standby, out_set_parameters, and opening and closing it, *)
(* called by the threads of the audio service.  Each step of a thread is   *)
(* one read or one write of shared state; the stream's mutex_ is held      *)
(* where the code holds it.                                                *)
(***************************************************************************)
EXTENDS BluetoothAudioPort, FiniteSets

CONSTANTS
    Threads,      \* threads of the audio service that use the stream
    Free,         \* the stream's mutex_ when nobody holds it
    MaxFrames     \* bound on the frames a stream writes

ASSUME StreamAssumption ==
    /\ Free \notin Threads
    /\ MaxFrames \in Nat

VARIABLES
    mutex,             \* holder of the stream's mutex_
    pc,                \* where each thread is
    call,              \* the entry point each thread is in
    todo,              \* keys of out_set_parameters still to be handled
    wrote,             \* WriteData accepted something
    frames_rendered,   \* frames_rendered_, in writes
    frames_presented   \* frames_presented_, in writes

threadVars == <<mutex, pc, call, todo, wrote>>
frameVars  == <<frames_rendered, frames_presented>>
vars == <<portVars, threadVars, frameVars>>

Calls == {"none", "open", "close", "write", "resume", "pause", "standby",
          "set_parameters"}

\* The keys of out_set_parameters that change the stream: A2dpSuspended=true,
\* A2dpSuspended=false, closing=true and exiting=1.
Keys == {"suspend", "unsuspend", "closing", "exiting"}

\* Labels at which a thread owns mutex_.
Holding == {"resume", "resume_starting", "resume_suspending", "resume_disabled",
            "start", "start_set", "start_call", "start_wait",
            "pause", "pause_starting", "pause_suspending",
            "suspend", "suspend_set", "suspend_call", "suspend_wait",
            "params", "params_suspend", "params_disable", "params_unsuspend",
            "params_stop", "params_stop_call", "write"}

\* Labels at which a thread runs without it.
Unlocked == {"idle", "write_resume", "write_relock", "write_failed",
             "write_data", "write_count"}

\* Labels of adev_open_output_stream and adev_close_output_stream.
Lifecycle == {"open", "open_register", "close", "close_stop", "close_stop_call",
              "teardown"}

\* Labels between a read of state_ and the step that relies on it.
Windows == {"resume_starting", "resume_suspending", "resume_disabled",
            "start", "start_set", "pause_starting", "pause_suspending",
            "suspend", "suspend_set", "params_suspend", "params_unsuspend",
            "params_stop"}

Labels == Holding \cup Unlocked \cup Lifecycle

ThreadTypeOK ==
    /\ mutex \in Threads \cup {Free}
    /\ pc \in [Threads -> Labels]
    /\ call \in [Threads -> Calls]
    /\ todo \in [Threads -> SUBSET Keys]
    /\ wrote \in [Threads -> BOOLEAN]

FrameTypeOK == frames_rendered \in Nat /\ frames_presented \in Nat

TypeOK == PortTypeOK /\ ThreadTypeOK /\ FrameTypeOK

Init ==
    /\ PortInit
    /\ mutex = Free
    /\ pc = [t \in Threads |-> "idle"]
    /\ call = [t \in Threads |-> "none"]
    /\ todo = [t \in Threads |-> {}]
    /\ wrote = [t \in Threads |-> FALSE]
    /\ frames_rendered = 0
    /\ frames_presented = 0

Idle(t) == pc[t] = "idle"

\* Thread t moves from label a to label b.
Goto(t, a, b) ==
    /\ pc[t] = a
    /\ pc' = [pc EXCEPT ![t] = b]

\* A step of t that only moves its label.
Jump(t, a, b) ==
    /\ Goto(t, a, b)
    /\ UNCHANGED <<mutex, call, todo, wrote, frameVars, portVars>>

\* t leaves the entry point: out_resume called from out_write goes back to it.
Done(t) ==
    /\ mutex' = IF mutex = t THEN Free ELSE mutex
    /\ pc' = [pc EXCEPT ![t] = "idle"]
    /\ call' = [call EXCEPT ![t] = "none"]
    /\ wrote' = [wrote EXCEPT ![t] = FALSE]
    /\ UNCHANGED todo

\* out_resume, out_pause or out_standby returns, releasing mutex_.
Return(t, ok) ==
    IF call[t] = "write"
    THEN /\ mutex' = Free
         /\ pc' = [pc EXCEPT ![t] = IF ok THEN "write_relock" ELSE "write_failed"]
         /\ UNCHANGED <<call, todo, wrote>>
    ELSE Done(t)

-----------------------------------------------------------------------------
(* Entering the stream *)

\* mutex_ is taken.  The bound: no call begins while the stack owes answers.
Lock(t) ==
    /\ mutex = Free
    /\ Len(pending) < MaxPending
    /\ mutex' = t

\* A thread calls an entry point of the open stream and gets mutex_.
Enter(t, entry, label, keys) ==
    /\ in_use
    /\ \A u \in Threads : call[u] \notin {"open", "close"}
    /\ Lock(t)
    /\ Goto(t, "idle", label)
    /\ call' = [call EXCEPT ![t] = entry]
    /\ todo' = [todo EXCEPT ![t] = keys]
    /\ UNCHANGED <<wrote, frameVars, portVars>>

Call(t) ==
    \/ frames_presented < MaxFrames /\ Enter(t, "write", "write", {})
    \/ Enter(t, "resume", "resume", {})
    \/ Enter(t, "pause", "pause", {})
    \/ Enter(t, "standby", "pause", {})
    \/ \E keys \in SUBSET Keys :
          ~ ({"suspend", "unsuspend"} \subseteq keys)
          /\ Enter(t, "set_parameters", "params", keys)

-----------------------------------------------------------------------------
(* out_resume and the port's Start *)

ResumeStandby(t) ==
    Jump(t, "resume", IF state = "STANDBY" THEN "start" ELSE "resume_starting")

\* One of the further reads of out_resume finds the state it asks for: -EBUSY
\* in STARTING and SUSPENDING, -EINVAL in DISABLED.
ResumeRefused(t) ==
    /\ \/ pc[t] = "resume_starting" /\ state = "STARTING"
       \/ pc[t] = "resume_suspending" /\ state = "SUSPENDING"
       \/ pc[t] = "resume_disabled" /\ state = "DISABLED"
    /\ Return(t, FALSE)
    /\ UNCHANGED <<frameVars, portVars>>

ResumeNextRead(t) ==
    \/ state # "STARTING" /\ Jump(t, "resume_starting", "resume_suspending")
    \/ state # "SUSPENDING" /\ Jump(t, "resume_suspending", "resume_disabled")

\* No branch applied: "resumed already".
ResumedAlready(t) ==
    /\ pc[t] = "resume_disabled"
    /\ state # "DISABLED"
    /\ Return(t, TRUE)
    /\ UNCHANGED <<frameVars, portVars>>

out_resume(t) ==
    ResumeStandby(t) \/ ResumeRefused(t) \/ ResumeNextRead(t) \/ ResumedAlready(t)

StartCheck(t) ==
    \/ state = "STANDBY" /\ Jump(t, "start", "start_set")
    \/ /\ pc[t] = "start"
       /\ state # "STANDBY"
       /\ Return(t, FALSE)
       /\ UNCHANGED <<frameVars, portVars>>

StartSet(t) ==
    /\ Goto(t, "start_set", "start_call")
    /\ SetState("STARTING")
    /\ UNCHANGED <<in_use, ready, hosted, pending, cb>>
    /\ UNCHANGED <<mutex, call, todo, wrote, frameVars>>

\* StartStream of the session; a refusal leaves the port in STARTING.
StartCall(t) ==
    /\ pc[t] = "start_call"
    /\ \/ /\ Requested("start")
          /\ Goto(t, "start_call", "start_wait")
          /\ UNCHANGED <<mutex, call, todo, wrote>>
       \/ /\ Refused
          /\ Return(t, FALSE)
    /\ UNCHANGED <<state, in_use, ready, hosted, cb, frameVars>>

\* Mutant: a wait without a timeout.
StartWaitForever(t) ==
    /\ pc[t] = "start_wait"
    /\ SessionFree
    /\ state # "STARTING"
    /\ Return(t, state = "STARTED")
    /\ UNCHANGED <<frameVars, portVars>>

\* CondwaitState(STARTING): woken once state_ is no longer STARTING, or timed
\* out with the port still in STARTING.
StartWait(t) ==
    /\ pc[t] = "start_wait"
    /\ SessionFree
    /\ Return(t, state = "STARTED")
    /\ UNCHANGED <<frameVars, portVars>>

Start(t) == StartCheck(t) \/ StartSet(t) \/ StartCall(t) \/ StartWait(t)

-----------------------------------------------------------------------------
(* out_pause, out_standby and the port's Suspend *)

PauseStarted(t) ==
    /\ Goto(t, "pause", IF state = "STARTED" THEN "suspend" ELSE "pause_starting")
    /\ frames_rendered' = IF state = "STARTED" THEN 0 ELSE frames_rendered
    /\ UNCHANGED <<mutex, call, todo, wrote, frames_presented, portVars>>

\* -EBUSY while the port is starting or suspending; otherwise "paused already".
PauseOther(t) ==
    \/ /\ pc[t] = "pause_starting"
       /\ state = "STARTING"
       /\ Return(t, FALSE)
       /\ UNCHANGED <<frameVars, portVars>>
    \/ state # "STARTING" /\ Jump(t, "pause_starting", "pause_suspending")
    \/ /\ pc[t] = "pause_suspending"
       /\ Return(t, state # "SUSPENDING")
       /\ UNCHANGED <<frameVars, portVars>>

out_pause(t) == PauseStarted(t) \/ PauseOther(t)

\* Suspend returns to out_pause and out_standby, or to out_set_parameters.
SuspendReturn(t, ok) ==
    IF call[t] = "set_parameters"
    THEN /\ pc' = [pc EXCEPT ![t] = "params_disable"]
         /\ UNCHANGED <<mutex, call, todo, wrote>>
    ELSE Return(t, ok)

SuspendCheck(t) ==
    \/ state = "STARTED" /\ Jump(t, "suspend", "suspend_set")
    \/ /\ pc[t] = "suspend"
       /\ state # "STARTED"
       /\ SuspendReturn(t, FALSE)
       /\ UNCHANGED <<frameVars, portVars>>

SuspendSet(t) ==
    /\ Goto(t, "suspend_set", "suspend_call")
    /\ SetState("SUSPENDING")
    /\ UNCHANGED <<in_use, ready, hosted, pending, cb>>
    /\ UNCHANGED <<mutex, call, todo, wrote, frameVars>>

SuspendCall(t) ==
    /\ pc[t] = "suspend_call"
    /\ \/ /\ Requested("suspend")
          /\ Goto(t, "suspend_call", "suspend_wait")
          /\ UNCHANGED <<mutex, call, todo, wrote>>
       \/ /\ Refused
          /\ SuspendReturn(t, FALSE)
    /\ UNCHANGED <<state, in_use, ready, hosted, cb, frameVars>>

SuspendWait(t) ==
    /\ pc[t] = "suspend_wait"
    /\ SessionFree
    /\ SuspendReturn(t, state = "STANDBY")
    /\ UNCHANGED <<frameVars, portVars>>

Suspend(t) == SuspendCheck(t) \/ SuspendSet(t) \/ SuspendCall(t) \/ SuspendWait(t)

-----------------------------------------------------------------------------
(* out_set_parameters *)

\* The key handled next: A2dpSuspended, then closing, then exiting.
NextKey(keys) ==
    IF keys \cap {"suspend", "unsuspend"} # {}
    THEN CHOOSE key \in keys : key \in {"suspend", "unsuspend"}
    ELSE IF "closing" \in keys THEN "closing" ELSE "exiting"

TakeKey(t, key) ==
    /\ pc[t] = "params"
    /\ todo[t] # {}
    /\ NextKey(todo[t]) = key
    /\ todo' = [todo EXCEPT ![t] = @ \ {key}]

\* A2dpSuspended=true: a started stream is suspended and then disabled.
ParamSuspend(t) ==
    /\ TakeKey(t, "suspend")
    /\ Goto(t, "params", IF state = "STARTED" THEN "suspend" ELSE "params_suspend")
    /\ frames_rendered' = 0
    /\ UNCHANGED <<mutex, call, wrote, frames_presented, portVars>>

\* The second read of A2dpSuspended=true: any state but DISABLED is stopped.
ParamSuspendElse(t) ==
    Jump(t, "params_suspend", IF state = "DISABLED" THEN "params" ELSE "params_stop")

ParamDisable(t) ==
    /\ Goto(t, "params_disable", "params")
    /\ SetState("DISABLED")
    /\ UNCHANGED <<in_use, ready, hosted, pending, cb>>
    /\ UNCHANGED <<mutex, call, todo, wrote, frameVars>>

\* A2dpSuspended=false: a disabled stream may be started again.
ParamUnsuspend(t) ==
    \/ /\ TakeKey(t, "unsuspend")
       /\ Goto(t, "params",
               IF state = "DISABLED" THEN "params_unsuspend" ELSE "params")
       /\ UNCHANGED <<mutex, call, wrote, frameVars, portVars>>
    \/ /\ Goto(t, "params_unsuspend", "params")
       /\ SetState("STANDBY")
       /\ UNCHANGED <<in_use, ready, hosted, pending, cb>>
       /\ UNCHANGED <<mutex, call, todo, wrote, frameVars>>

\* Mutant: the rendered frames survive closing.
ParamClosingKeepsRendered(t) ==
    \E key \in {"closing", "exiting"} :
       /\ TakeKey(t, key)
       /\ Goto(t, "params", IF state = "DISABLED" THEN "params" ELSE "params_stop")
       /\ frames_presented' = IF state = "DISABLED" THEN frames_presented ELSE 0
       /\ UNCHANGED <<mutex, call, wrote, frames_rendered, portVars>>

\* closing=true and exiting=1: both counters are reset and the port stopped,
\* unless the stream is disabled already.
ParamClosing(t) ==
    \E key \in {"closing", "exiting"} :
       /\ TakeKey(t, key)
       /\ Goto(t, "params", IF state = "DISABLED" THEN "params" ELSE "params_stop")
       /\ frames_rendered' = IF state = "DISABLED" THEN frames_rendered ELSE 0
       /\ frames_presented' = IF state = "DISABLED" THEN frames_presented ELSE 0
       /\ UNCHANGED <<mutex, call, wrote, portVars>>

\* The port's Stop: DISABLED, then StopStream, which the stack does not answer.
Stop(t, a, b, c) ==
    \/ /\ Goto(t, a, b)
       /\ SetState("DISABLED")
       /\ UNCHANGED <<in_use, ready, hosted, pending, cb>>
       /\ UNCHANGED <<mutex, call, todo, wrote, frameVars>>
    \/ SessionFree /\ Jump(t, b, c)

ParamDone(t) ==
    /\ pc[t] = "params"
    /\ todo[t] = {}
    /\ Done(t)
    /\ UNCHANGED <<frameVars, portVars>>

out_set_parameters(t) ==
    \/ ParamSuspend(t) \/ ParamSuspendElse(t) \/ ParamDisable(t)
    \/ ParamUnsuspend(t) \/ ParamClosing(t) \/ ParamDone(t)
    \/ Stop(t, "params_stop", "params_stop_call", "params")

-----------------------------------------------------------------------------
(* out_write *)

\* Mutant: mutex_ is kept across WriteData.
WriteCheckKeepsLock(t) ==
    /\ Goto(t, "write", IF state = "STARTED" THEN "write_data" ELSE "write_resume")
    /\ mutex' = IF state = "STARTED" THEN mutex ELSE Free
    /\ UNCHANGED <<call, todo, wrote, frameVars, portVars>>

\* The state check, after which mutex_ is given up either way.
WriteCheck(t) ==
    /\ Goto(t, "write", IF state = "STARTED" THEN "write_data" ELSE "write_resume")
    /\ mutex' = Free
    /\ UNCHANGED <<call, todo, wrote, frameVars, portVars>>

\* stream->resume takes mutex_ again.
WriteResume(t) ==
    /\ Lock(t)
    /\ Goto(t, "write_resume", "resume")
    /\ UNCHANGED <<call, todo, wrote, frameVars, portVars>>

\* lock() and unlock() around nothing, before the data is written.
WriteRelock(t) ==
    /\ mutex = Free
    /\ Jump(t, "write_relock", "write_data")

\* The stream could not be resumed; the data is dropped or left to the caller.
WriteFailed(t) ==
    /\ pc[t] = "write_failed"
    /\ Done(t)
    /\ UNCHANGED <<frameVars, portVars>>

\* WriteData without mutex_: something is accepted only by a ready session.
WriteData(t) ==
    /\ SessionFree
    /\ Goto(t, "write_data", "write_count")
    /\ \E some \in {FALSE, ready} : wrote' = [wrote EXCEPT ![t] = some]
    /\ UNCHANGED <<mutex, call, todo, frameVars, portVars>>

\* With mutex_ again: all frames of the buffer are counted if any was written.
WriteCount(t) ==
    /\ pc[t] = "write_count"
    /\ mutex = Free
    /\ IF wrote[t]
       THEN /\ frames_rendered' = frames_rendered + 1
            /\ frames_presented' = frames_presented + 1
       ELSE UNCHANGED frameVars
    /\ Done(t)
    /\ UNCHANGED portVars

out_write(t) ==
    \/ WriteCheck(t) \/ WriteResume(t) \/ WriteRelock(t)
    \/ WriteFailed(t) \/ WriteData(t) \/ WriteCount(t)

-----------------------------------------------------------------------------
(* Opening and closing; the audio framework lets no other call overlap them *)

\* adev_open_output_stream with a new port object.
BeginOpen(t) ==
    /\ ~ in_use
    /\ \A u \in Threads : Idle(u)
    /\ Goto(t, "idle", "open")
    /\ call' = [call EXCEPT ![t] = "open"]
    /\ UNCHANGED <<mutex, todo, wrote, frameVars, portVars>>

\* SetUp asks whether the session is ready ...
SetUpCheck(t) ==
    /\ pc[t] = "open"
    /\ SessionFree
    /\ IF ready
       THEN /\ Goto(t, "open", "open_register")
            /\ UNCHANGED <<mutex, call, todo, wrote>>
       ELSE Done(t)
    /\ UNCHANGED <<frameVars, portVars>>

\* ... and then, in a second critical section, registers the port.
SetUpRegister(t) ==
    /\ pc[t] = "open_register"
    /\ SessionFree
    /\ SetState("STANDBY")
    /\ in_use' = TRUE
    /\ frames_rendered' = 0
    /\ frames_presented' = 0
    /\ Done(t)
    /\ UNCHANGED <<ready, hosted, pending, cb>>

BeginClose(t) ==
    /\ in_use
    /\ \A u \in Threads : Idle(u)
    /\ Goto(t, "idle", "close")
    /\ call' = [call EXCEPT ![t] = "close"]
    /\ UNCHANGED <<mutex, todo, wrote, frameVars, portVars>>

\* adev_close_output_stream does not take mutex_.
CloseCheck(t) ==
    /\ Goto(t, "close", IF state = "DISABLED" THEN "teardown" ELSE "close_stop")
    /\ frames_rendered' = IF state = "DISABLED" THEN frames_rendered ELSE 0
    /\ frames_presented' = IF state = "DISABLED" THEN frames_presented ELSE 0
    /\ UNCHANGED <<mutex, call, todo, wrote, portVars>>

\* TearDown: the port is unregistered and its stream deleted.
TearDown(t) ==
    /\ pc[t] = "teardown"
    /\ SessionFree
    /\ in_use' = FALSE
    /\ state' = "DISABLED"
    /\ frames_rendered' = 0
    /\ frames_presented' = 0
    /\ Done(t)
    /\ UNCHANGED <<ready, hosted, pending, cb>>

OpenClose(t) ==
    \/ SetUpCheck(t) \/ SetUpRegister(t)
    \/ CloseCheck(t) \/ Stop(t, "close_stop", "close_stop_call", "teardown")
    \/ TearDown(t)

-----------------------------------------------------------------------------
\* A thread goes on with the call it is in.
Step(t) ==
    /\ Interruptible \/ SessionFree
    /\ \/ out_resume(t) \/ Start(t) \/ out_pause(t) \/ Suspend(t)
       \/ out_set_parameters(t) \/ out_write(t) \/ OpenClose(t)

Begin(t) ==
    /\ Interruptible \/ SessionFree
    /\ Call(t) \/ BeginOpen(t) \/ BeginClose(t)

\* The session acts: not inside a group of reads unless Interruptible.
SessionStep ==
    /\ Environment \/ CallbackWrite
    /\ Interruptible \/ \A t \in Threads : pc[t] \notin Windows
    /\ UNCHANGED <<threadVars, frameVars>>

Next ==
    \/ \E t \in Threads : Begin(t) \/ Step(t)
    \/ SessionStep

Spec == Init /\ [][Next]_vars

\* The stack answers its oldest request.
Answer ==
    /\ \E status \in Statuses : AnswerRequest(status)
    /\ Interruptible \/ \A t \in Threads : pc[t] \notin Windows
    /\ UNCHANGED <<threadVars, frameVars>>

FinishCallback ==
    /\ CallbackWrite
    /\ UNCHANGED <<threadVars, frameVars>>

\* A thread in a call goes on: strong fairness, because it may have to wait for
\* mutexes that other threads and callbacks take again and again.  The session
\* finishes a callback it began.
ThreadFairness ==
    /\ \A t \in Threads : SF_vars(Step(t))
    /\ WF_vars(FinishCallback)

\* The stack may never answer.
ThreadSpec == Spec /\ ThreadFairness

-----------------------------------------------------------------------------
(* Properties *)

\* mutex_ is held exactly by the thread inside a critical section of the
\* stream; out_write gives it up around resume and WriteData.
MutexOwner == \A t \in Threads : pc[t] \in Holding <=> mutex = t

\* A thread that opens or closes the stream is alone in it.
LifecycleExclusive ==
    \A t \in Threads :
       /\ pc[t] \in Lifecycle <=> call[t] \in {"open", "close"}
       /\ pc[t] \in Lifecycle => \A u \in Threads \ {t} : pc[u] = "idle"
       /\ pc[t] \in {"open", "open_register"} => ~ in_use

\* Without interruptions what a step relies on is still true when it acts: the
\* state Start and Suspend checked, and the state a callback read.
ChecksHold ==
    /\ \A t \in Threads :
          /\ pc[t] = "start_set" => state = "STANDBY"
          /\ pc[t] = "suspend_set" => state = "STARTED"
    /\ cb.kind = "control" => cb.prev = state

\* The invariant behind the safety properties: threads respect mutex_ and the
\* stream's life cycle, and outside data races no check is stale.
StreamInv ==
    /\ MutexOwner
    /\ LifecycleExclusive
    /\ ~ Interruptible => ChecksHold

\* frames_rendered_ never exceeds frames_presented_: whatever resets the
\* presented frames (closing, exiting, close) resets the rendered ones too,
\* also when a write that was under way counts its frames later.
RenderedNeverAhead == frames_rendered <= frames_presented

\* A disabled stream is enabled again by A2dpSuspended=false, by opening it
\* again, or by a write whose look at state_ came before it was disabled: that of
\* a callback that read another state, or of the thread that holds mutex_ and is
\* between the check and the write of Start or Suspend.  A thread that disables
\* the stream excludes the latter, so only a session that changed can meet it.
\* No result that is delivered later, no resume and no write enables the stream.
OnlyEarlierReadsEnable ==
    [][/\ state = "DISABLED" /\ state' # "DISABLED"
             => \/ \E t \in Threads : pc[t] \in {"params_unsuspend", "open_register"}
                \/ cb.kind = "control" /\ cb.prev # "DISABLED" /\ cb' # cb
                \/ \E t \in Threads : mutex = t /\ pc[t] \in {"start_set", "suspend_set"}
       /\ state # "DISABLED" /\ state' = "DISABLED" /\ cb' = cb
             => \A t \in Threads : pc[t] \notin {"start_set", "suspend_set"}]_vars

\* "DISABLED: This stream is closing or set param suspend=true" (stream_apis.h):
\* what a callback writes does not take a stream out of it.  It does, when the
\* stream is disabled between the callback's read of state_ and its write, which
\* cv_mutex_ does not prevent.
ResultsKeepDisabled ==
    [][state = "DISABLED" /\ CallbackWrite => state' = "DISABLED"]_vars

\* A thread that holds mutex_ gives it up even if the stack never answers and
\* the session changes under it: CondwaitState has a timeout.
HolderReleases == \A t \in Threads : mutex = t ~> mutex # t

\* With a stack that answers in the end, a start it accepted does not leave the
\* port in STARTING for ever, even when the caller timed out long before the
\* answer: the answer, the end of the session or a new session moves it on.
AcceptedStartResolves ==
    SF_vars(Answer)
       => \A t \in Threads : pc[t] = "start_wait" ~> state # "STARTING"

=============================================================================
