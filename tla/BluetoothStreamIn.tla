--------------------------- MODULE BluetoothStreamIn ---------------------------
(***************************************************************************)
(* An input stream of the sysbta audio HAL: in_read, in_standby, and       *)
(* opening and closing it.  Unlike the output stream it waits for the      *)
(* states in between to pass by polling: in_state_transition_timeout gives *)
(* the stream's mutex_ up for a millisecond at a time and gives up the     *)
(* request after a number of polls.                                        *)
(***************************************************************************)
EXTENDS BluetoothAudioPort, FiniteSets

CONSTANTS
    Threads,      \* threads of the audio service that use the stream
    Free,         \* the stream's mutex_ when nobody holds it
    PollLimit,    \* kBluetoothDefaultInputStateTimeoutMs, in polls
    MaxFrames     \* bound on the reads that deliver frames

ASSUME StreamInAssumption ==
    /\ Free \notin Threads
    /\ PollLimit \in Nat \ {0}
    /\ MaxFrames \in Nat

VARIABLES
    mutex,             \* holder of the stream's mutex_
    pc,                \* where each thread is
    call,              \* the entry point each thread is in
    polls,             \* polls of the current in_state_transition_timeout
    ok,                \* retval so far is 0 (a read: it has not failed)
    opened,            \* adev_open_input_stream returned a stream, not closed yet
    frames_presented   \* frames_presented_, in reads

threadVars == <<mutex, pc, call, polls, ok>>
streamVars == <<opened, frames_presented>>
vars == <<portVars, threadVars, streamVars>>

Calls == {"none", "open", "close", "read", "standby"}

\* Labels at which a thread owns mutex_.
Holding == {"starting_poll", "suspending_poll",
            "read", "read_standby", "read_suspending", "read_disabled",
            "start", "start_set", "start_call", "start_wait",
            "standby", "standby_else",
            "suspend", "suspend_set", "suspend_call", "suspend_wait"}

\* Labels at which it does not.
Unlocked == {"idle", "starting_sleep", "suspending_sleep", "read_data", "read_count"}

Lifecycle == {"open", "open_register", "open_config", "close", "close_stop",
              "close_stop_call", "teardown"}

\* Labels between a read of state_ and the step that relies on it.
Windows == {"read", "read_standby", "read_suspending", "read_disabled",
            "start", "start_set", "standby", "standby_else", "suspend",
            "suspend_set", "close_stop"}

Labels == Holding \cup Unlocked \cup Lifecycle

TypeOK ==
    /\ PortTypeOK
    /\ mutex \in Threads \cup {Free}
    /\ pc \in [Threads -> Labels]
    /\ call \in [Threads -> Calls]
    /\ polls \in [Threads -> 0 .. PollLimit - 1]
    /\ ok \in [Threads -> BOOLEAN]
    /\ opened \in BOOLEAN
    /\ frames_presented \in Nat

Init ==
    /\ PortInit
    /\ mutex = Free
    /\ pc = [t \in Threads |-> "idle"]
    /\ call = [t \in Threads |-> "none"]
    /\ polls = [t \in Threads |-> 0]
    /\ ok = [t \in Threads |-> TRUE]
    /\ opened = FALSE
    /\ frames_presented = 0

Goto(t, a, b) ==
    /\ pc[t] = a
    /\ pc' = [pc EXCEPT ![t] = b]

\* A step of t that only moves its label.
Jump(t, a, b) ==
    /\ Goto(t, a, b)
    /\ UNCHANGED <<mutex, call, polls, ok, portVars, streamVars>>

\* t returns from the entry point; r tells whether it reports success.
Return(t, r) ==
    /\ mutex' = IF mutex = t THEN Free ELSE mutex
    /\ pc' = [pc EXCEPT ![t] = "idle"]
    /\ call' = [call EXCEPT ![t] = "none"]
    /\ polls' = [polls EXCEPT ![t] = 0]
    /\ ok' = [ok EXCEPT ![t] = r]

\* One write of state_ by a thread.
Write(t, a, b, s) ==
    /\ Goto(t, a, b)
    /\ SetState(s)
    /\ UNCHANGED <<in_use, ready, hosted, pending, cb>>
    /\ UNCHANGED <<mutex, call, polls, ok, streamVars>>

-----------------------------------------------------------------------------
(* in_read and in_standby take mutex_ and wait for STARTING to pass *)

\* The bound: no call begins while the stack owes MaxPending answers.
Enter(t, entry) ==
    /\ opened
    /\ \A u \in Threads : call[u] \notin {"open", "close"}
    /\ mutex = Free
    /\ Len(pending) < MaxPending
    /\ mutex' = t
    /\ Goto(t, "idle", "starting_poll")
    /\ call' = [call EXCEPT ![t] = entry]
    /\ ok' = [ok EXCEPT ![t] = TRUE]
    /\ UNCHANGED <<polls, portVars, streamVars>>

\* Mutant: mutex_ is kept while sleeping.
SleepKeepsLock(t, s, loop, sleep) ==
    /\ state = s
    /\ Jump(t, loop, sleep)

\* The body of the loop in in_state_transition_timeout begins: the state has
\* not changed, mutex_ is given up for a millisecond.
Sleep(t, s, loop, sleep) ==
    /\ state = s
    /\ Goto(t, loop, sleep)
    /\ mutex' = Free
    /\ UNCHANGED <<call, polls, ok, portVars, streamVars>>

\* Mutant: the timeout is not counted down.
PolledForever(t, loop, sleep, result) ==
    /\ pc[t] = sleep
    /\ mutex = Free
    /\ mutex' = t
    /\ Goto(t, sleep, loop)
    /\ UNCHANGED <<call, polls, ok>>
    /\ UNCHANGED <<portVars, streamVars>>

\* mutex_ again after the sleep; the timeout counts before the state is read.
Polled(t, loop, sleep, result) ==
    /\ pc[t] = sleep
    /\ mutex = Free
    /\ IF polls[t] + 1 = PollLimit
       THEN Return(t, result)
       ELSE /\ mutex' = t
            /\ Goto(t, sleep, loop)
            /\ polls' = [polls EXCEPT ![t] = @ + 1]
            /\ UNCHANGED <<call, ok>>
    /\ UNCHANGED <<portVars, streamVars>>

\* Give some time to start up: a read that waits in vain is -EBUSY, a standby
\* reports 0.  Otherwise the call goes on.
WaitStarting(t) ==
    \/ Sleep(t, "STARTING", "starting_poll", "starting_sleep")
    \/ Polled(t, "starting_poll", "starting_sleep", call[t] = "standby")
    \/ /\ state # "STARTING"
       /\ Goto(t, "starting_poll", call[t])
       /\ polls' = [polls EXCEPT ![t] = 0]
       /\ UNCHANGED <<mutex, call, ok, portVars, streamVars>>

-----------------------------------------------------------------------------
(* The port's Start and Suspend *)

Start(t) ==
    \/ state = "STANDBY" /\ Jump(t, "start", "start_set")
    \/ /\ pc[t] = "start"
       /\ state # "STANDBY"
       /\ Return(t, FALSE)
       /\ UNCHANGED <<portVars, streamVars>>
    \/ Write(t, "start_set", "start_call", "STARTING")
    \/ /\ pc[t] = "start_call"
       /\ \/ /\ Requested("start")
             /\ Goto(t, "start_call", "start_wait")
             /\ UNCHANGED <<mutex, call, polls, ok>>
          \/ Refused /\ Return(t, FALSE)
       /\ UNCHANGED <<state, in_use, ready, hosted, cb, streamVars>>
    \/ /\ pc[t] = "start_wait"          \* answered, or the wait timed out
       /\ SessionFree
       /\ IF state = "STARTED"
          THEN /\ Goto(t, "start_wait", "read_data")
               /\ mutex' = Free
               /\ UNCHANGED <<call, polls, ok>>
          ELSE Return(t, FALSE)
       /\ UNCHANGED <<portVars, streamVars>>

\* Suspend returned r; in_standby goes on to wait for SUSPENDING to pass.
Suspended(t, r) ==
    /\ pc' = [pc EXCEPT ![t] = "suspending_poll"]
    /\ ok' = [ok EXCEPT ![t] = r]
    /\ UNCHANGED <<mutex, call, polls>>

Suspend(t) ==
    \/ state = "STARTED" /\ Jump(t, "suspend", "suspend_set")
    \/ /\ pc[t] = "suspend"
       /\ state # "STARTED"
       /\ Suspended(t, FALSE)
       /\ UNCHANGED <<portVars, streamVars>>
    \/ Write(t, "suspend_set", "suspend_call", "SUSPENDING")
    \/ /\ pc[t] = "suspend_call"
       /\ \/ /\ Requested("suspend")
             /\ Goto(t, "suspend_call", "suspend_wait")
             /\ UNCHANGED <<mutex, call, polls, ok>>
          \/ Refused /\ Suspended(t, FALSE)
       /\ UNCHANGED <<state, in_use, ready, hosted, cb, streamVars>>
    \/ /\ pc[t] = "suspend_wait"        \* answered, or the wait timed out
       /\ SessionFree
       /\ Suspended(t, state = "STANDBY")
       /\ UNCHANGED <<portVars, streamVars>>

-----------------------------------------------------------------------------
(* in_standby *)

\* Started: suspend.  Neither started nor suspending: standby already.
StandbyRead(t) ==
    \/ Jump(t, "standby", IF state = "STARTED" THEN "suspend" ELSE "standby_else")
    \/ state = "SUSPENDING" /\ Jump(t, "standby_else", "suspending_poll")
    \/ /\ pc[t] = "standby_else"
       /\ state # "SUSPENDING"
       /\ Return(t, TRUE)
       /\ UNCHANGED <<portVars, streamVars>>

\* Give some time to suspend: a wait in vain is reported as 0, whatever Suspend
\* returned.
WaitSuspending(t) ==
    \/ Sleep(t, "SUSPENDING", "suspending_poll", "suspending_sleep")
    \/ Polled(t, "suspending_poll", "suspending_sleep", TRUE)
    \/ /\ pc[t] = "suspending_poll"
       /\ state # "SUSPENDING"
       /\ Return(t, ok[t])
       /\ UNCHANGED <<portVars, streamVars>>

in_standby(t) == StandbyRead(t) \/ Suspend(t) \/ WaitSuspending(t)

-----------------------------------------------------------------------------
(* in_read *)

\* mutex_ is given up before ReadData.
GoReading(t, a) ==
    /\ Goto(t, a, "read_data")
    /\ mutex' = Free
    /\ UNCHANGED <<call, polls, ok, portVars, streamVars>>

\* The reads of state_: started, else standby, suspending (-EBUSY), disabled
\* (-EINVAL), else started already.
ReadStart(t) ==
    \/ state = "STARTED" /\ GoReading(t, "read")
    \/ state # "STARTED" /\ Jump(t, "read", "read_standby")
    \/ Jump(t, "read_standby", IF state = "STANDBY" THEN "start" ELSE "read_suspending")
    \/ state # "SUSPENDING" /\ Jump(t, "read_suspending", "read_disabled")
    \/ state # "DISABLED" /\ GoReading(t, "read_disabled")
    \/ /\ \/ pc[t] = "read_suspending" /\ state = "SUSPENDING"
          \/ pc[t] = "read_disabled" /\ state = "DISABLED"
       /\ Return(t, FALSE)
       /\ UNCHANGED <<portVars, streamVars>>

\* ReadData without mutex_: frames come only from a ready session; then they
\* are counted with mutex_.
ReadData(t) ==
    \/ /\ SessionFree
       /\ Goto(t, "read_data", "read_count")
       /\ \E some \in {FALSE, ready} : ok' = [ok EXCEPT ![t] = some]
       /\ UNCHANGED <<mutex, call, polls, portVars, streamVars>>
    \/ /\ pc[t] = "read_count"
       /\ mutex = Free
       /\ UNCHANGED opened
       /\ frames_presented' = IF ok[t] THEN frames_presented + 1 ELSE frames_presented
       /\ Return(t, ok[t])
       /\ UNCHANGED portVars

in_read(t) == ReadStart(t) \/ Start(t) \/ ReadData(t)

-----------------------------------------------------------------------------
(* Opening and closing; the audio framework lets no other call overlap them *)

AllIdle == \A u \in Threads : pc[u] = "idle"

BeginOpen(t) ==
    /\ ~ opened
    /\ AllIdle
    /\ Goto(t, "idle", "open")
    /\ call' = [call EXCEPT ![t] = "open"]
    /\ UNCHANGED <<mutex, polls, ok, portVars, streamVars>>

\* SetUp: the session must be ready; the port registers in a second critical
\* section.
SetUp(t) ==
    \/ ready /\ SessionFree /\ Jump(t, "open", "open_register")
    \/ /\ pc[t] = "open"
       /\ ~ ready
       /\ SessionFree
       /\ Return(t, FALSE)
       /\ UNCHANGED <<portVars, streamVars>>
    \/ /\ Goto(t, "open_register", "open_config")
       /\ SessionFree
       /\ SetState("STANDBY")
       /\ in_use' = TRUE
       /\ UNCHANGED <<ready, hosted, pending, cb>>
       /\ UNCHANGED <<mutex, call, polls, ok, streamVars>>

\* LoadAudioConfig fails if the session is gone by now; the stream and its port
\* are destroyed, which unregisters the port but stops nothing.
LoadAudioConfig(t) ==
    \/ ~ ready /\ SessionFree /\ Jump(t, "open_config", "teardown")
    \/ /\ pc[t] = "open_config"
       /\ ready
       /\ SessionFree
       /\ opened' = TRUE
       /\ frames_presented' = 0
       /\ Return(t, TRUE)
       /\ UNCHANGED portVars

BeginClose(t) ==
    /\ opened
    /\ AllIdle
    /\ Goto(t, "idle", "close")
    /\ call' = [call EXCEPT ![t] = "close"]
    /\ UNCHANGED <<mutex, polls, ok, portVars, streamVars>>

\* adev_close_input_stream: a stream that is not disabled is stopped.
Close(t) ==
    \/ Jump(t, "close", IF state = "DISABLED" THEN "teardown" ELSE "close_stop")
    \/ Write(t, "close_stop", "close_stop_call", "DISABLED")
    \/ SessionFree /\ Jump(t, "close_stop_call", "teardown")

TearDown(t) ==
    /\ pc[t] = "teardown"
    /\ SessionFree
    /\ in_use' = FALSE
    /\ state' = "DISABLED"
    /\ opened' = FALSE
    /\ frames_presented' = 0
    /\ Return(t, TRUE)
    /\ UNCHANGED <<ready, hosted, pending, cb>>

-----------------------------------------------------------------------------
\* A thread goes on with the call it is in.
Step(t) ==
    /\ Interruptible \/ SessionFree
    /\ \/ WaitStarting(t) \/ in_read(t) \/ in_standby(t)
       \/ SetUp(t) \/ LoadAudioConfig(t) \/ Close(t) \/ TearDown(t)

Begin(t) ==
    /\ Interruptible \/ SessionFree
    /\ \/ frames_presented < MaxFrames /\ Enter(t, "read")
       \/ Enter(t, "standby") \/ BeginOpen(t) \/ BeginClose(t)

\* The session acts: not inside a group of reads unless Interruptible.
SessionStep ==
    /\ Environment \/ CallbackWrite
    /\ Interruptible \/ \A t \in Threads : pc[t] \notin Windows
    /\ UNCHANGED <<threadVars, streamVars>>

Next ==
    \/ \E t \in Threads : Begin(t) \/ Step(t)
    \/ SessionStep

Spec == Init /\ [][Next]_vars

\* A thread in a call goes on, the session finishes a callback it began; the
\* stack need not answer.
ThreadSpec ==
    /\ Spec
    /\ \A t \in Threads : SF_vars(Step(t))
    /\ WF_vars(CallbackWrite /\ UNCHANGED <<threadVars, streamVars>>)

-----------------------------------------------------------------------------
(* Properties *)

\* mutex_ is held exactly inside the critical sections, which the polling
\* leaves and enters again.
MutexOwner == \A t \in Threads : pc[t] \in Holding <=> mutex = t

\* A thread that opens or closes the stream is alone in it, and a label belongs
\* to the call it is reached in: a poll goes on with the call that began it.
LifecycleExclusive ==
    \A t \in Threads :
       /\ pc[t] = "idle" <=> call[t] = "none"
       /\ pc[t] \in Lifecycle <=> call[t] \in {"open", "close"}
       /\ pc[t] \in Lifecycle => \A u \in Threads \ {t} : pc[u] = "idle"

\* The port is registered exactly while there is a stream, but for a call that
\* is opening or closing it: an open that fails after SetUp unregisters it.
RegisteredIffOpen ==
    /\ \A t \in Threads :
          /\ pc[t] \in {"open", "open_register"} => ~ in_use /\ ~ opened
          /\ pc[t] = "open_config" => in_use /\ ~ opened
          /\ pc[t] \in {"close", "close_stop", "close_stop_call"} => in_use /\ opened
          /\ pc[t] = "teardown" => in_use
    /\ (\A t \in Threads : pc[t] \notin Lifecycle) => (in_use <=> opened)

\* Without interruptions what a step relies on is still true when it acts: the
\* state Start and Suspend looked at, and the state a callback read.
ChecksHold ==
    /\ \A t \in Threads :
          /\ pc[t] = "start_set" => state = "STANDBY"
          /\ pc[t] = "suspend_set" => state = "STARTED"
    /\ cb.kind = "control" => cb.prev = state

\* No two threads are between a look at state_ and the request they base on it,
\* although polls give mutex_ up in the middle; and without interruptions that
\* look is still true when the request is made.  Between calls the port of a
\* stream, and no other, is registered.
StreamInInv ==
    /\ TypeOK
    /\ MutexOwner
    /\ LifecycleExclusive
    /\ RegisteredIffOpen
    /\ ~ Interruptible => ChecksHold

\* A disabled input stream is enabled by opening it again, or by a write whose
\* look at state_ came before it was disabled: that of a callback that read
\* another state, or of the thread that holds mutex_ and is between the check and
\* the write of Start or Suspend.  No poll, although it gives mutex_ up, no read
\* and no result that is delivered later does it.
OnlyEarlierReadsEnable ==
    [][state = "DISABLED" /\ state' # "DISABLED"
          => \/ \E t \in Threads : pc[t] = "open_register"
             \/ cb.kind = "control" /\ cb.prev # "DISABLED" /\ cb' # cb
             \/ \E t \in Threads : mutex = t /\ pc[t] \in {"start_set", "suspend_set"}]_vars

\* Every call returns, even if the stack never answers and the stream is stuck
\* in a state in between: the polls are counted and CondwaitState times out.
CallsReturn == \A t \in Threads : pc[t] # "idle" ~> pc[t] = "idle"

\* in_state_transition_timeout: "Don't loose suspend request, AF will not
\* retry".  A standby that reports 0 leaves a stream that is not about to run.
\* in_standby does not keep to it: when the polls are used up it returns 0
\* without having asked the stack.
SuspendNotLost ==
    [][\A t \in Threads :
          call[t] = "standby" /\ call'[t] = "none" /\ ok'[t]
             => state \notin {"STARTING", "STARTED"}]_vars

=============================================================================
