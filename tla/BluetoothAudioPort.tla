-------------------------- MODULE BluetoothAudioPort --------------------------
(***************************************************************************)
(* The proxy a sysbta audio stream uses to reach the Bluetooth stack       *)
(* (BluetoothAudioPortAidl), seen together with the part of the session it *)
(* depends on: whether the session is ready, the requests the stack has    *)
(* not answered yet, and the callback the session is delivering.           *)
(*                                                                         *)
(* The session runs a callback while it holds its own mutex and the port's *)
(* cv_mutex_.  The stream's threads write state_ without cv_mutex_, so a   *)
(* callback is two steps, the read of state_ and the write, and a thread   *)
(* may write in between (Interruptible).                                   *)
(***************************************************************************)
EXTENDS Naturals, Sequences

CONSTANTS
    Interruptible,  \* TRUE: the unlocked reads and writes of state_ interleave
                    \* with callbacks; FALSE: each group of reads is one step
    MqFailures,     \* TRUE: a session may be started with an invalid data queue
    MaxPending      \* bound on the requests the stack has not answered

ASSUME PortAssumption ==
    /\ Interruptible \in BOOLEAN
    /\ MqFailures \in BOOLEAN
    /\ MaxPending \in Nat \ {0}

VARIABLES
    state,    \* state_ of the port
    in_use,   \* cookie_ is defined: the port is a registered observer
    ready,    \* IsSessionReady() of the port's session
    hosted,   \* the provider's stack_iface_ is set
    pending,  \* requests the stack accepted and has not answered, oldest first
    cb        \* the callback being delivered; holds the session mutex, cv_mutex_

portVars == <<state, in_use, ready, hosted, pending, cb>>

StreamStates == {"DISABLED", "STANDBY", "STARTING", "STARTED", "SUSPENDING"}

\* The values of BluetoothAudioStatus the port tells apart; FAILURE stands for
\* UNKNOWN, UNSUPPORTED_CODEC_CONFIGURATION and FAILURE.
Statuses == {"SUCCESS", "RECONFIGURATION", "FAILURE"}

Requests == {"start", "suspend"}

Callbacks == [kind : {"none", "control", "session"},
              status : Statuses,
              resp : Requests,        \* start_resp: which answer is reported
              prev : StreamStates]    \* state_ as the callback read it

NoCallback == [kind |-> "none", status |-> "SUCCESS", resp |-> "start",
               prev |-> "DISABLED"]

PortTypeOK ==
    /\ state \in StreamStates
    /\ in_use \in BOOLEAN
    /\ ready \in BOOLEAN
    /\ hosted \in BOOLEAN
    /\ pending \in Seq(Requests)
    /\ cb \in Callbacks

\* A port before SetUp; no session has been started.
PortInit ==
    /\ state = "DISABLED"
    /\ in_use = FALSE
    /\ ready = FALSE
    /\ hosted = FALSE
    /\ pending = <<>>
    /\ cb = NoCallback

\* Nobody holds the session mutex or cv_mutex_.
SessionFree == cb.kind = "none"

-----------------------------------------------------------------------------
(* Callbacks of the session into the port *)

\* The states in which a control result is expected; in the others it is only
\* logged.
Expecting == {"STARTED", "STARTING", "SUSPENDING"}

\* Mutant: a failed suspend leaves the port in a state outside the protocol.
ControlResultUnknown(prev, status) ==
    IF prev = "STARTING" THEN "STARTED"
    ELSE IF status = "SUCCESS" THEN "STANDBY" ELSE "UNKNOWN"

\* What ControlResultHandler writes into state_ for a result read in prev.
\* start_resp is not looked at.  In STARTED a failure writes nothing.
ControlResult(prev, status) ==
    IF prev = "STARTING"
    THEN IF status = "SUCCESS" THEN "STARTED" ELSE "STANDBY"
    ELSE IF prev = "SUSPENDING" /\ status # "SUCCESS" THEN "DISABLED" ELSE "STANDBY"

\* Mutant: the default branch of the switch is missing.
ControlNeverIgnored(prev, status) == prev = "STARTED" /\ status = "FAILURE"

\* The handler leaves state_ alone.
ControlIgnored(prev, status) ==
    \/ prev \notin Expecting
    \/ prev = "STARTED" /\ status = "FAILURE"

\* The first half of a callback: the session calls the registered observer,
\* the handler takes cv_mutex_ and reads state_.
Deliver(kind, resp, status) ==
    cb' = IF in_use
          THEN [kind |-> kind, status |-> status, resp |-> resp, prev |-> state]
          ELSE cb

\* The second half of ControlResultHandler: the write, unlock, notify_all.
ControlResultHandler ==
    /\ cb.kind = "control"
    /\ state' = IF ControlIgnored(cb.prev, cb.status)
                THEN state
                ELSE ControlResult(cb.prev, cb.status)
    /\ cb' = NoCallback
    /\ UNCHANGED <<in_use, ready, hosted, pending>>

\* Mutant: only a started port is disabled.
SessionChangedHandlerIfStarted ==
    /\ cb.kind = "session"
    /\ state' = IF cb.prev = "STARTED" THEN "DISABLED" ELSE state
    /\ cb' = NoCallback
    /\ UNCHANGED <<in_use, ready, hosted, pending>>

\* The second half of SessionChangedHandler.
SessionChangedHandler ==
    /\ cb.kind = "session"
    /\ state' = "DISABLED"
    /\ cb' = NoCallback
    /\ UNCHANGED <<in_use, ready, hosted, pending>>

CallbackWrite == ControlResultHandler \/ SessionChangedHandler

-----------------------------------------------------------------------------
(* The session and the stack behind it *)

\* startSession whose OnSessionStarted succeeds: observers are told.
OnSessionStarted ==
    /\ SessionFree
    /\ ready' = TRUE
    /\ hosted' = TRUE
    /\ Deliver("session", "start", "SUCCESS")
    /\ UNCHANGED <<state, in_use, pending>>

\* startSession whose data queue descriptor is invalid: the configuration and
\* the queue are dropped, the provider keeps its stack, observers are not told.
OnSessionStartedInvalidMq ==
    /\ MqFailures
    /\ SessionFree
    /\ ready' = FALSE
    /\ hosted' = TRUE
    /\ UNCHANGED <<state, in_use, pending, cb>>

\* OnSessionEnded tells the observers only if the session was ready.
OnSessionEnded ==
    /\ ready' = FALSE
    /\ IF ready THEN Deliver("session", "suspend", "SUCCESS") ELSE cb' = cb

\* endSession of a provider that has a session.
endSession ==
    /\ SessionFree
    /\ hosted
    /\ OnSessionEnded
    /\ hosted' = FALSE
    /\ UNCHANGED <<state, in_use, pending>>

\* The stack's process died: it answers nothing any more, and the death
\* notice ends the session.  The provider keeps its stack_iface_.
binderDied ==
    /\ SessionFree
    /\ hosted
    /\ OnSessionEnded
    /\ pending' = <<>>
    /\ UNCHANGED <<state, in_use, hosted>>

\* streamStarted or streamSuspended answering the oldest request; a provider
\* without a stack drops the answer.
AnswerRequest(status) ==
    /\ SessionFree
    /\ pending # <<>>
    /\ pending' = Tail(pending)
    /\ IF hosted THEN Deliver("control", Head(pending), status) ELSE cb' = cb
    /\ UNCHANGED <<state, in_use, ready, hosted>>

\* The stack suspends the stream on its own account (the peer paused it, or
\* the codec is reconfigured).
RemoteSuspend(status) ==
    /\ SessionFree
    /\ hosted
    /\ ready
    /\ in_use
    /\ Deliver("control", "suspend", status)
    /\ UNCHANGED <<state, in_use, ready, hosted, pending>>

Environment ==
    \/ OnSessionStarted
    \/ OnSessionStartedInvalidMq
    \/ endSession
    \/ binderDied
    \/ \E status \in Statuses : AnswerRequest(status) \/ RemoteSuspend(status)

-----------------------------------------------------------------------------
(* What the stream's threads do to the port *)

\* StartStream and SuspendStream of the session: refused when the session is
\* not ready or the call to the stack fails.
Requested(request) ==
    /\ SessionFree
    /\ ready
    /\ pending' = Append(pending, request)

Refused ==
    /\ SessionFree
    /\ pending' = pending

SetState(s) == state' = s

=============================================================================
