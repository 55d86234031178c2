------------------------ MODULE AudioStreamCallbacks ------------------------
(***************************************************************************)
(* AudioStream with the callbacks of StreamOut: setCallback, clearCallback *)
(* setEventCallback and setLatencyModeCallback on a binder thread, and the *)
(* callback thread of the legacy HAL, which enters asyncCallback,          *)
(* asyncEventCallback or latencyModeCallback with the bare pointer to the  *)
(* StreamOut that the set call gave it.  The three members are atomic      *)
(* strong pointers: a load and a store are one step each.                  *)
(***************************************************************************)
EXTENDS AudioStream

CONSTANTS
    Kinds,      \* the callbacks the legacy HAL has: a subset of CallbackKinds
    Callbacks,  \* callback objects of the client
    NoCallback, \* a null callback pointer
    Nothing     \* no set call, no event

CallbackKinds == {"async", "event", "latency"}

ASSUME CallbackAssumption == Kinds \subseteq CallbackKinds /\ Nothing \notin Kinds

VARIABLES
    mCallback,  \* mCallback, mEventCallback and mLatencyModeCallback
    registered, \* the kinds for which the HAL holds the StreamOut pointer
    setting,    \* the set call between the HAL's answer and its store
    event,      \* the kind of event the callback thread delivers
    target      \* the callback it loaded; Nothing before the load

callbackVars == <<mCallback, registered, setting, event, target>>
allVars == <<vars, callbackVars>>

Pointers == Callbacks \cup {NoCallback}

\* What the members and the callback thread's local hold: the thread calls no null
\* callback.
CallbackTypeOK ==
    /\ mCallback \in [Kinds -> Pointers]
    /\ registered \subseteq Kinds
    /\ setting \in {Nothing} \cup [kind : Kinds, callback : Pointers]
    /\ event \in Kinds \cup {Nothing}
    /\ target \in Callbacks \cup {Nothing}

CallbackInit ==
    /\ Init
    /\ mCallback = [k \in Kinds |-> NoCallback]
    /\ registered = {}
    /\ setting = Nothing /\ event = Nothing /\ target = Nothing

-----------------------------------------------------------------------------
(* The set calls.  A HAL without the function, or one that refuses, leaves *)
(* everything as it was.                                                   *)

\* mStream->set_callback(mStream, ..., this) succeeds.  The framework calls no
\* stream it has closed: the code does not check.
SetCallback(k, c) ==
    /\ owner = "held" /\ ~Closing /\ setting = Nothing
    /\ registered' = registered \cup {k}
    /\ setting' = [kind |-> k, callback |-> c]
    /\ UNCHANGED <<vars, mCallback, event, target>>

\* mCallback = callback
StoreCallback ==
    /\ setting # Nothing
    /\ mCallback' = [mCallback EXCEPT ![setting.kind] = setting.callback]
    /\ setting' = Nothing
    /\ UNCHANGED <<vars, registered, event, target>>

\* mCallback = nullptr clears one of the three.
AsyncCleared == [k \in Kinds |-> IF k = "async" THEN NoCallback ELSE mCallback[k]]

\* clearCallback; the other two are cleared with a null callback.  The HAL keeps
\* the pointer.
ClearCallback ==
    /\ owner = "held" /\ ~Closing
    /\ mCallback' = AsyncCleared
    /\ UNCHANGED <<vars, registered, setting, event, target>>

-----------------------------------------------------------------------------
(* The callback thread.                                                    *)

\* The HAL is in close_output_stream.
HalClosing == owner \in {"hal", "late"} \/ \E t \in Closers : closer[t] = "hal"

\* The legacy HAL has something to tell, unless it is closing: external.
Raise(k) ==
    /\ event = Nothing /\ k \in registered /\ ~HalClosing
    /\ event' = k
    /\ UNCHANGED <<vars, mCallback, registered, setting, target>>

\* self->mCallback.load(): a null callback is not told.
LoadCallback ==
    /\ event # Nothing /\ target = Nothing
    /\ \/ /\ mCallback[event] = NoCallback
          /\ event' = Nothing /\ UNCHANGED target
       \/ /\ mCallback[event] # NoCallback
          /\ target' = mCallback[event] /\ UNCHANGED event
    /\ UNCHANGED <<vars, mCallback, registered, setting>>

\* onWriteReady, onDrainReady, onError, onCodecFormatChanged or
\* onRecommendedLatencyModeChanged returns, or the event was not one of them.
CallCallback ==
    /\ target # Nothing
    /\ event' = Nothing /\ target' = Nothing
    /\ UNCHANGED <<vars, mCallback, registered, setting>>

-----------------------------------------------------------------------------
(* What closing and destroying the stream does to the callbacks.           *)

\* close_output_stream waits for the callback to finish and joins its thread:
\* external.
HalClose == event = Nothing /\ registered' = {}

Keep == UNCHANGED callbackVars

CloserStep(t) ==
    \/ CloseHal(t) /\ HalClose /\ UNCHANGED <<mCallback, setting, event, target>>
    \/ (CloseStore(t) \/ CloseWake(t)) /\ Keep

\* A destructor that leaves the HAL stream open.
JoinAndForget ==
    /\ owner = "join" /\ JoinReturns
    /\ owner' = "gone"
    /\ mCallback' = AsyncCleared
    /\ UNCHANGED <<stop, closer, closes, workerVars, clientVars, queueVars, registered,
                   setting, event, target>>

\* ~StreamOut after close(): the join, then mCallback = nullptr.
JoinAndClear ==
    /\ Join
    /\ mCallback' = AsyncCleared
    /\ UNCHANGED <<registered, setting, event, target>>

\* The close() in ~StreamOut closes the HAL stream on MAJOR_VERSION >= 6.
DropHalStep == DropHal /\ HalClose /\ UNCHANGED <<mCallback, setting, event, target>>

\* The rest of ~StreamOut; before MAJOR_VERSION 6 it closes the HAL stream last.
DestructorStep ==
    \/ DropHalStep
    \/ CloseLate /\ HalClose /\ UNCHANGED <<mCallback, setting, event, target>>
    \/ (DropStore \/ DropWake) /\ Keep
    \/ JoinAndClear

CallbackThread == LoadCallback \/ CallCallback

CallbackNext ==
    \/ \E k \in Kinds : Raise(k) \/ \E c \in Pointers : SetCallback(k, c)
    \/ StoreCallback \/ ClearCallback \/ CallbackThread
    \/ (Launch \/ Publish) /\ Keep
    \/ \E t \in Closers : (CloseCheck(t) /\ Keep) \/ CloserStep(t)
    \/ (DropLast /\ setting = Nothing /\ Keep) \/ DestructorStep
    \/ (Worker \/ WaitInterrupted) /\ Keep
    \/ ((\E c \in Commands : Ask(c)) \/ Client) /\ Keep

\* AudioStream's fairness, and that of the two new threads: the client's callback
\* returns (its methods are oneway) and a set call goes on.
CallbackSpec ==
    /\ CallbackInit
    /\ [][CallbackNext]_allVars
    /\ WF_allVars(Worker /\ Keep) /\ WF_allVars(Client /\ Keep)
    /\ WF_allVars(DestructorStep) /\ WF_allVars(Publish /\ Keep)
    /\ \A t \in Closers : WF_allVars(CloserStep(t))
    /\ WF_allVars(CallbackThread) /\ WF_allVars(StoreCallback)

-----------------------------------------------------------------------------
(* Properties.                                                             *)

\* "It is guaranteed that the callback thread is joined prior to exiting from
\* StreamOut's destructor": the callback thread is never inside a StreamOut that
\* is gone, and the HAL holds no pointer to one.
JoinedBeforeGone == owner = "gone" => event = Nothing /\ registered = {}

\* The callback thread calls no null callback and no StreamOut that is gone.
CallbackInv == CallbackTypeOK /\ JoinedBeforeGone

=============================================================================
