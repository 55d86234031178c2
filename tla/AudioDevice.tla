---------------------------- MODULE AudioDevice ----------------------------
(***************************************************************************)
(* One Device of the audio HAL: how it counts its open streams, when it    *)
(* may be closed and what its destructor does.  openOutputStream,          *)
(* openInputStream, close() and the streams' own close run on the binder   *)
(* threads of the service (service_system.cpp asks for sixteen) and no     *)
(* lock orders them.  mOpenedStreamsCount is a plain int: ++ and -- are a  *)
(* load and a store.                                                       *)
(***************************************************************************)
EXTENDS Naturals, FiniteSets

CONSTANTS
    Streams,   \* legacy HAL streams
    Threads,   \* binder threads that may be in a call at the same time
    NoStream,  \* the thread works on no stream
    MaxCount   \* bound: nothing is opened once the count has drifted this far

ASSUME DeviceAssumption == NoStream \notin Streams /\ IsFiniteSet(Streams) /\ MaxCount \in Nat

VARIABLES
    mOpenedStreamsCount,
    mIsClosed,
    device,    \* the legacy HAL device: how often it was closed
    hal,       \* legacy HAL streams that are open
    streams,   \* StreamOut / StreamIn objects a client holds
    held,      \* the client holds the device
    destroyed, \* ~Device has run
    pc,        \* where each binder thread is
    at,        \* the stream it works on
    loaded,    \* mOpenedStreamsCount as its ++ or -- loaded it
    fatal,     \* LOG_ALWAYS_FATAL_IF fired: the process is gone
    raced      \* history: two calls met where a lock is missing

threadVars == <<pc, at, loaded>>
deviceVars == <<mOpenedStreamsCount, mIsClosed, device, hal, streams, held, destroyed, pc, at,
          loaded, fatal, raced>>

Steps == {"idle", "opened", "increment", "closed", "decrement", "closing"}

DeviceTypeOK ==
    /\ mOpenedStreamsCount \in Nat
    /\ mIsClosed \in BOOLEAN /\ held \in BOOLEAN /\ destroyed \in BOOLEAN
    /\ fatal \in BOOLEAN /\ raced \in BOOLEAN
    /\ device \in Nat
    /\ hal \subseteq Streams /\ streams \subseteq Streams
    /\ pc \in [Threads -> Steps]
    /\ at \in [Threads -> Streams \cup {NoStream}]
    /\ loaded \in [Threads -> Nat]

DeviceInit ==
    /\ mOpenedStreamsCount = 0
    /\ mIsClosed = FALSE /\ device = 0
    /\ hal = {} /\ streams = {}
    /\ held = TRUE /\ destroyed = FALSE
    /\ pc = [t \in Threads |-> "idle"]
    /\ at = [t \in Threads |-> NoStream]
    /\ loaded = [t \in Threads |-> 0]
    /\ fatal = FALSE /\ raced = FALSE

Goes(t, from, to) ==
    /\ pc[t] = from /\ ~fatal
    /\ pc' = [pc EXCEPT ![t] = to]

\* A thread has loaded the count and not stored it yet.
Counting(t) == pc[t] \in {"increment", "decrement"}

\* A thread has a stream of the HAL that the count does not know.
Opening(t) == pc[t] \in {"opened", "increment"}

\* Some other thread is at such a place: what t does now races with it.
MeetsCounting(t) == \E u \in Threads \ {t} : Counting(u)
MeetsOpening(t)  == \E u \in Threads \ {t} : Opening(u)
MeetsClosing(t)  == \E u \in Threads \ {t} : pc[u] = "closing"

\* The framework opens nothing on a device it closed: the code does not check.
MayOpen == held /\ ~mIsClosed

-----------------------------------------------------------------------------

\* openOutputStreamCore / openInputStreamCore, to the HAL's OK.  Arguments that
\* do not convert and a HAL that refuses leave the device as it was.
OpenHal(t, s) ==
    /\ Goes(t, "idle", "opened")
    /\ MayOpen /\ mOpenedStreamsCount < MaxCount
    /\ s \notin hal \cup streams \cup {at[u] : u \in Threads}
    /\ hal' = hal \cup {s}
    /\ at' = [at EXCEPT ![t] = s]
    /\ raced' = (raced \/ MeetsClosing(t))
    /\ UNCHANGED <<mOpenedStreamsCount, mIsClosed, device, streams, held, destroyed, loaded, fatal>>

\* ++mOpenedStreamsCount: the load.
LoadForOpen(t) ==
    /\ Goes(t, "opened", "increment")
    /\ loaded' = [loaded EXCEPT ![t] = mOpenedStreamsCount]
    /\ raced' = (raced \/ MeetsCounting(t))
    /\ UNCHANGED <<mOpenedStreamsCount, mIsClosed, device, hal, streams, held, destroyed, at, fatal>>

\* ++mOpenedStreamsCount: the store; the client gets its stream.
StoreForOpen(t) ==
    /\ Goes(t, "increment", "idle")
    /\ mOpenedStreamsCount' = loaded[t] + 1
    /\ streams' = streams \cup {at[t]}
    /\ at' = [at EXCEPT ![t] = NoStream]
    /\ UNCHANGED <<mIsClosed, device, hal, held, destroyed, loaded, fatal, raced>>

\* closeOutputStream / closeInputStream, first the HAL.
CloseHalStream(t, s) ==
    /\ Goes(t, "idle", "closed")
    /\ s \in streams
    /\ streams' = streams \ {s}
    /\ hal' = hal \ {s}
    /\ at' = [at EXCEPT ![t] = s]
    /\ UNCHANGED <<mOpenedStreamsCount, mIsClosed, device, held, destroyed, loaded, fatal, raced>>

\* LOG_ALWAYS_FATAL_IF(mOpenedStreamsCount == 0, ...), then the load of
\* --mOpenedStreamsCount; an aborted process takes no further step.
LoadForClose(t) ==
    /\ Goes(t, "closed", "decrement")
    /\ fatal' = (mOpenedStreamsCount = 0)
    /\ loaded' = [loaded EXCEPT ![t] = mOpenedStreamsCount]
    /\ raced' = (raced \/ MeetsCounting(t))
    /\ UNCHANGED <<mOpenedStreamsCount, mIsClosed, device, hal, streams, held, destroyed, at>>

\* A -- that was forgotten.
DecrementedNot(t) == loaded[t]

\* What -- stores.
Decremented(t) == loaded[t] - 1

\* --mOpenedStreamsCount: the store.
StoreForClose(t) ==
    /\ Goes(t, "decrement", "idle")
    /\ mOpenedStreamsCount' = Decremented(t)
    /\ at' = [at EXCEPT ![t] = NoStream]
    /\ UNCHANGED <<mIsClosed, device, hal, streams, held, destroyed, loaded, fatal, raced>>

\* The test at the head of doClose.
MayCloseDevice == ~mIsClosed /\ mOpenedStreamsCount = 0

\* close(), the test; INVALID_STATE otherwise.
CloseDeviceCheck(t) ==
    /\ Goes(t, "idle", "closing")
    /\ held /\ MayCloseDevice
    /\ raced' = (raced \/ MeetsOpening(t) \/ MeetsClosing(t))
    /\ UNCHANGED <<mOpenedStreamsCount, mIsClosed, device, hal, streams, held, destroyed, at, loaded, fatal>>

\* close(), the flag and audio_hw_device_close.
CloseDevice(t) ==
    /\ Goes(t, "closing", "idle")
    /\ mIsClosed' = TRUE
    /\ device' = device + 1
    /\ UNCHANGED <<mOpenedStreamsCount, hal, streams, held, destroyed, at, loaded, fatal, raced>>

\* The client lets go of the device; its streams keep it alive.
Release ==
    /\ held /\ ~fatal
    /\ held' = FALSE
    /\ UNCHANGED <<mOpenedStreamsCount, mIsClosed, device, hal, streams, destroyed, threadVars, fatal, raced>>

\* ~Device: the last reference is gone, so no call and no stream is left.
Destroy ==
    /\ ~held /\ ~destroyed /\ ~fatal
    /\ streams = {} /\ \A t \in Threads : pc[t] = "idle"
    /\ destroyed' = TRUE
    /\ IF MayCloseDevice
         THEN mIsClosed' = TRUE /\ device' = device + 1
         ELSE UNCHANGED <<mIsClosed, device>>
    /\ UNCHANGED <<mOpenedStreamsCount, hal, streams, held, threadVars, fatal, raced>>

DeviceNext ==
    \/ \E t \in Threads :
          \/ \E s \in Streams : OpenHal(t, s) \/ CloseHalStream(t, s)
          \/ LoadForOpen(t) \/ StoreForOpen(t)
          \/ LoadForClose(t) \/ StoreForClose(t)
          \/ CloseDeviceCheck(t) \/ CloseDevice(t)
    \/ Release \/ Destroy

DeviceSpec == DeviceInit /\ [][DeviceNext]_deviceVars

-----------------------------------------------------------------------------
(* Properties.                                                             *)

\* The legacy HAL device is closed after the last of its streams, by close() or
\* by the destructor: doClose refuses while mOpenedStreamsCount is not zero.
DeviceAfterStreams == device # 0 => hal = {}

\* A destroyed Device has closed its legacy HAL device exactly once, so the next
\* openDevice of the module finds it free.
DestroyedIsClosed == destroyed => device = 1

\* The assertion of closeOutputStream and closeInputStream never fires: a stream
\* that is closed was counted.  Two binder threads break it: ++ and -- are not
\* atomic, and an increment that is lost is missed by a later close.
NeverFatal == ~fatal

\* Calls on any number of binder threads may overlap, and the device is still
\* closed once, after its streams, with the assertion silent - until two of them
\* meet inside ++ or -- of the count, or close() meets an open between its test
\* and its effect.
DeviceInv == DeviceTypeOK /\ (~raced => DeviceAfterStreams /\ DestroyedIsClosed /\ NeverFatal)

=============================================================================
