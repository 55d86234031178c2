# A verification project for android_device_peter_gsi

TLA+ modules, TLC configurations and TLAPS proofs for the Bluetooth audio HAL, the
audio HAL and the property tool of this device tree. The modules translate the code
under `src/`; `PROJECT.json` maps every definition to the lines it stands for.

Contents: 1 the system, 2 the modules, 3 the runs, 4 fairness, 5 disagreements,
6 proofs, 7 what is not modelled, 8 plan.

## 1. The system

The repository is an Android generic system image for phones whose vendor
partition brings its own, often older, HALs. Its own logic is the *sysbta* audio
path, a second Bluetooth audio HAL that runs on the system side, a copy of the audio
HAL service that hosts it, and `resetprop`, with its own copy of the system property
library. The rest is configuration and boot quirks.

    audio service (AudioFlinger), many threads / binder threads
          |  HIDL: IDevice, IStreamOut, IStreamIn, fast message queues
    audio/hal          Device, StreamOut, StreamIn and their worker threads
          |  legacy HAL: struct audio_hw_device, audio_stream_out, audio_stream_in
    bluetooth/audio/hw stream_apis.cc: out_*, in_*, adev_open_*, adev_close_*
          |            device_port_proxy.cc: BluetoothAudioPortAidl
    bluetooth/audio/utils/aidl_session   BluetoothAudioSession, one per session type
          |  stack_iface_ (requests down)         ^ callbacks under the session mutex
    bluetooth/audio/hal BluetoothAudioProvider: startSession, streamStarted, ...
          |  AIDL                                 ^
    Bluetooth stack, another process, dies and comes back

    resetprop          setprop, deleteprop, persisted properties
          |  shared memory, one area per context     | property service (init)
    every process that reads a property, without a lock

### Inventory

| Component | State | Operations | What makes it correct |
|---|---|---|---|
| Output stream `hw/stream_apis.cc` | `mutex_`, `frames_rendered_`, `frames_presented_`, the port's `state_` | `out_write`, `out_resume`, `out_pause`, `out_standby`, `out_set_parameters`, open, close | the lock discipline around `out_write`, which lets `mutex_` go twice; the counters stay ordered; nothing that begins after a stream was disabled enables it; a holder of the mutex gives it up; an accepted start ends |
| Input stream | `mutex_`, `frames_presented_` | `in_read`, `in_standby`, polling, open, close | the same with `mutex_` let go inside the poll; every call returns; a suspend request is not lost |
| Port proxy `hw/device_port_proxy.cc` | `cookie_`, `state_`, `cv_mutex_`, `internal_cv_` | `SetUp`, `TearDown`, `Start`, `Suspend`, `Stop`, `SetState`, two callbacks | a callback and a call that meet on `state_` do not undo each other; late answers are understood |
| AIDL session `utils/aidl_session` | `stack_iface_`, `audio_config_`, `data_mq_`, `observers_` | started, ended, configuration changed, control reports, stream requests, PCM data | a callback reaches the port it was registered for; a ready session belongs to one stack; no port stays started without a session; audio goes through once and in order |
| Provider `hal/BluetoothAudioProvider.cpp` | `stack_iface_`, death links | `startSession`, `endSession`, `streamStarted`, `streamSuspended`, death | the death of one stack ends the session of that stack |
| Presentation position | two counters in two processes, the delay report | `GetPresentationPosition`, feeding and starving delay | a position is never ahead of the audio and never stuck behind it, whichever counter was reset |
| Audio HAL streams `audio/hal/StreamOut.cpp`, `StreamIn.cpp` | stop flag, command and status queue, event flag, worker | prepare, command, close, destructor | a reply answers its command; the worker never uses a closed HAL stream; the destructor ends; one close |
| Audio HAL device `audio/hal/Device.cpp` | `mOpenedStreamsCount`, `mIsClosed` | open, close, destructor | the legacy device is closed once, after its streams |
| Providers `hal/*AudioProvider.cpp`, factory | configuration, data queue, latency modes | `startSession` per class, updates, `setLowLatencyModeAllowed`, capability queries | what is advertised is accepted; a session runs with the configuration and the queue of its provider; LOW_LATENCY is offered only while it is allowed |
| A2DP offload codecs | tables | parsing, building, the choice of a codec | an offer is valid here, possible there, and the best the hint allows |
| LE offload provider and configuration tables | codec priorities, caches of an XML and two JSON files | capability, ASE, QoS and broadcast queries | the answer is exactly what matches; a disabled codec is not offered; unreadable files do no lasting harm |
| HIDL port, sessions, middleware | twins of the AIDL ones, a table of callbacks | as above, conversion | as above, with a second table that the session mutex does not cover |
| resetprop `resetprop` | tries in shared memory, serials, `persistent_properties` | set, delete, update in place, lookup of a context, read, wait | a reader without a lock sees no torn value; the trie survives a kill; the persisted file is never lost; a watcher sees the last value |
| sysbta device `hw/audio_bluetooth_hw.cc` | list of open streams | `adev_set_parameters` and others | parameters reach every open stream |
| Device factory, PrimaryDevice, parameters, effects | little | pass through | |
| Init quirks, tools, overlays, policy | none | boot time | |

The hard behaviours, each at its line, are under `hazards` in `PROJECT.json`. The
most important ones:

* `state_` is an atomic that the callbacks change under `cv_mutex_` and the
  stream's threads change without it, each after reading it several times;
* `Start` and `Suspend` wait for the stack with a timeout; the answer comes later
  all the same, and meets a port that moved on;
* the stack dies, restarts, and its death notice names the session type only;
* `OutWritePcmData` and `in_standby` let locks go in the middle of a call;
* sixteen binder threads share unlocked fields of `Device` and `StreamOut`;
* the middleware keeps a table of callbacks outside the session's mutex;
* readers of properties run lock free against a writer that may be killed between two
  stores.

## 2. The modules

| Module | Models | Composed from |
|---|---|---|
| `BluetoothAudioPort` | the port proxy and the session as the port sees it: ready or not, unanswered requests, the callback in delivery | |
| `BluetoothStreamOut` | the output stream: threads that step through the entry points | extends the port |
| `BluetoothStreamIn` | the input stream | extends the port |
| `BluetoothAudioSession` | session, providers' base class, incarnations of the stack, several ports | |
| `BluetoothAudioDataPath` | one call of `OutWritePcmData` or `InReadPcmData` over changing sessions | |
| `BluetoothPosition` | the latency and position arithmetic | |
| `BluetoothTransfer` | `out_write` and `in_read` counting what they moved while positions are calculated | extends the last two |
| `BluetoothHidlSession` | HIDL sessions 2.0 and 2.1 and their ports, alone or behind the middleware | |
| `AudioCodecs` | PCM and A2DP configurations: validity on the AIDL and the HIDL side, conversion between them, `LoadAudioConfig` of both ports | |
| `A2dpOffloadCodecs` | SBC and AAC: capabilities, parsing, building, the choice of a codec | |
| `LeAudioCodecs` | the XML file of LE configurations, its caches and the capabilities composed from it | |
| `LeAudioOffloadProvider` | ASE, QoS and broadcast queries, the two JSON files | extends `LeAudioCodecs` |
| `AudioProviders` | factory, every provider class, the session it drives, the queries above | extends the four above |
| `AudioStream` | worker, client, close and destructor of a `StreamOut` or `StreamIn` | instantiates `AudioCommandService` |
| `AudioCommandService` | abstract: what a stream promises its client | |
| `AudioStreamCallbacks` | the three callbacks of a `StreamOut` and the HAL's callback thread | extends `AudioStream` |
| `AudioDevice` | the count of open streams, closing, destruction | |
| `PropertyContexts` | from a property name to its area: `property_contexts` files and the serialized trie | |
| `PropertyArea` | tries, values and serials in shared memory, store by store and load by load | extends `PropertyContexts` |
| `ResetProp` | the tool, the property service, persisted properties, being killed | extends `PropertyArea` |
| `*Proofs` | theorems about the module they are named after; `BluetoothTransferProofs` also about the data path and the position, `AudioHalProofs` about the stream, its callbacks and the device, `ResetPropProofs` about the three modules of resetprop | extend it and TLAPS |
| `MC*` | small sets of inputs and symmetry sets for TLC | extend it |

**Ports and streams.** `state`, `in_use` (`cookie_` is defined), `ready`,
`hosted` (the provider has a `stack_iface_`), `pending` (requests the stack took
and did not answer) and `cb` (the callback in delivery, which holds the session
mutex and `cv_mutex_`). A callback is two steps, the read of `state_` and the
write. Every entry point is a walk of `pc[t]` through labels, one shared read or
write each; `Holding` are the labels under `mutex_`. `Interruptible = TRUE`, the value of the
runs, opens the window between a group of unlocked reads and the write that follows:
callbacks and unlocked writers get in. `FALSE` closes it; it is there because one part
of the invariants, `ChecksHold`, is about exactly that, and the theorems cover both
values. Timeouts are a step that is always possible while waiting: the model has no
clock. Frames are counted in writes.

**Session.** Every operation that holds the session mutex throughout is one
action; `SetUp` is three, because readiness check, registration and the assignment
of `cookie_` are three critical sections. `host` and `links` are the per-provider
state, `owed` the requests a stack has accepted. `active` is a history variable: the
stack whose session was started last and neither ended nor died. `lost`, another, is
set when a stack is left without a ready session it did not end: its start failed half
way, or a late death notice of its predecessor ended its session. `kind` is chosen at
the start and never changes, as are `output` and `aidl` in the position and data
modules.

**Data path, position, transfer.** A byte is its place in the audio, so loss,
repetition and reordering show in `buffer`. Rounds of the loop are separate steps; in
between the stack drains or fills, ends the session, or starts one with another queue.
Both counters may go back to zero. The operators keep the order of the divisions and
the clamping of the code. In `BluetoothTransfer` the end of a call adds to
`frames_presented_` what the code adds: all that was asked for when a write moved
anything, what it got for a read. Every step of it is a step or a stutter of
`BluetoothPosition`, so the theorems about that module carry over.

**HIDL session and middleware.** With the AIDL service declared, every call of a HIDL
port goes to the AIDL session, whose observer is a lambda that looks the port up in
`legacy_callback_table`. A port enters the table after it registered and leaves it
after it unregistered, both outside the session's mutex: registration, table and
`cookie_` are separate steps. A report of the session is as many steps as the code has
critical sections: `report` says what is told, which cookies are still due and which
callback is in hand. `Lookup` finds the port, in the table under
`legacy_callback_lock` or in `observers_`; `Call` runs the callback with that lock
released, so the port may have left the table or be gone by then. The session's mutex is
held until the last observer was told (`Free`). `serial` says whether the HAL's callers set
ports up and tear them down in turn, and both are in the run.

**Providers and codecs.** One provider per session type, as the factory's clients
have it; the stack makes one call at a time, and asks for capabilities and
configurations before it starts a session. `session` is the provider's
`BluetoothAudioSession` reduced to what these calls read and write. `answer` is the
last answer together with the query, which the properties compare with definitions of
what the answer should be. A configuration is a record of the fields the code looks
at, a bit field a set of values; a file is its parsed content, and may be unreadable at
one call and readable at the next. A set configuration that names a QoS which is not in the
file ends the process at the load (`Died`). A remote capability whose length is wrong is one that
is not `whole`, and the parsers refuse it. `kEnableA2dpCodecExtensibility` is false in this build
(`BluetoothAudioProvider.h:52`); both builds are in `Worlds`. Latency modes are only passed
on, so a set of names suffices.

**Audio HAL stream.** The two classes are one machine with the two event flag bits
swapped. `ClosesEarly` is `MAJOR_VERSION >= 6`. `Patient` and `Overlap` say
what a client does: `Patient`, it closes only between two commands; `Overlap`, it
closes while its own prepare call is in progress. The refinement to
`AudioCommandService` maps `phase` to whether the client waits and the status queue is
full, `request` to the command sent last, `reply` to the status queue and `open` to
"no close of the HAL stream yet". `AudioStreamCallbacks` adds the two halves of a
set call (the HAL is told first, the pointer is stored after it), clearing, and the
thread of the legacy HAL, which loads the pointer and then calls it; its steps are
steps or stutters of `AudioStream`, so `ServiceSpec` is checked on the larger system too.

**Device.** `mOpenedStreamsCount++` and `--` are a load and a store on any of the
binder threads, and the test of `close()` and its effect are two steps. `raced` is a
history variable: two calls met inside `++` or `--`, or `close()` met an open or another
`close()` between test and effect. It names the places where the lock is missing; calls that overlap
anywhere else do not set it.

**Properties.** An area is a heap of objects by offset: trie nodes whose siblings are
a binary tree, and property records with a value and a serial that is odd while the
value is written. `value[]` and the offset of a long value share storage, as in
`prop_info.h:62-68`: writing `kLongLegacyErrorBufferSize` characters or more over a long
property leaves `Undefined` where its offset pointed. `Search` is the walk of the trie from any node on, `find_prop_bt` from the
root; where it ends is also where a missing node or record is linked. A node keeps, as history,
all the tokens that lead to it (`path`). Each store of a mutation and each load of a reader is a step. One
mutation runs at a time, as the comments in `prop_area.h` have it; where the code does not keep
to that, section 5 (`OnlyMutator`). Each file operation on the persisted properties may fail, and what is
then returned is what the code returns. `getprop` copies a long value past its array (`Undefined`). Names are sequences
of tokens, values sequences of characters, because what is torn and what is too long
is about characters. `value` is a history variable: what a reader with no writer in
its way would see. The property service is external: init takes requests in order,
answers late or not at all, and refuses to change what is read only.

**Bounds in guards.** `MaxPending`, `MaxFrames`, `MaxStarts`, `MaxSessions`,
`MaxBytes`, `MaxCount` and `MaxCalls` are bounds of the model, not of the code. `PollLimit`,
`MaxPolls`, `CookieLimit`, `Limits`, `Capacity`, `PROP_VALUE_MAX`,
`kLongLegacyErrorBufferSize` and `AreaSize` are
the code's own limits made small.

## 3. The runs

| Run | Shows | Bounds and why they suffice |
|---|---|---|
| `out_stream` | lock discipline, life cycle (`StreamInv`); `frames_rendered_ <= frames_presented_`; what may take a stream out of DISABLED; a holder of `mutex_` gives it up although the stack never answers; if it does answer, an accepted start leaves STARTING | every window open (`Interruptible = TRUE`); two threads, as the entry points exclude each other by one mutex and a third thread adds no new pair; two frames, so that a reset falls between writes; one unanswered request and no failing queues, since a session that loses its queue without a report leaves the port in STARTING (section 5); 287,692 states |
| `out_disabled` | violated: a callback does not take a stream out of DISABLED | one thread, one request: a control result that has read STARTING meets `SetState(DISABLED)` |
| `in_stream` | lock discipline, life cycle, the port is registered exactly while the stream is open (`StreamInInv`); what may take a stream out of DISABLED; every call returns | every window open; two polls, so that the counter decreases, is used up and is reused; two unanswered requests, so that a late answer meets a newer request; failing queues; 380,462 states |
| `session` | every callback reaches its port (`CookieOwnership`); queue and interface belong to one stack (`OneOwner`); no port plays without a ready session unless the stack lost it (`SessionInv`) | three ports for two slots, two incarnations of the stack with three sessions each, failing queues, all kinds of session |
| `session_death` | violated: a started session is ready until its own stack ends it or dies | two incarnations with one session each are enough |
| `transfer` | what a call reports is what it moved, once and in order (`TransferInv`); it returns; without a reset the stack is ahead of `frames_presented_` during a write only, and by no more than that write has queued; a position is one to two latencies behind the audio | delays in units of the buffer, below, within and beyond the plausible ones; a queue of two and requests of 0, 1 and 3: fits, does not fit, needs several rounds; two sessions, so that the queue is replaced in mid call; both directions, both sessions |
| `hidl` | no callback runs into a deleted port, without the middleware or with ports that come and go in turn; such ports are reached, see the configuration and the queue of the running session and are told its end before the session lets its mutex go | two ports for one and for two cookies, so that a cookie is given out again while its owner is leaving; all session types, with and without middleware; lookup and call separate |
| `providers` | a session runs with its provider's configuration; latency modes; capabilities, queues, ports and conversions agree; A2DP offers with their bitpools; LE capabilities and answers | every session type; configurations of every kind with wrong ones among them; remote SBC and AAC capabilities from full to contradictory; a good file, one with dangling names and invalid strategies, one with no complete scenario; two set configurations, one of two codecs, and sets whose QoS name dangles |
| `stream_v7` | replies match, no use after close, every command is answered, `AudioCommandService` is implemented | HIDL 6 and later; one plain, one getter and one unknown command; one closer; patient client; three kinds of callback with one pointer each; 470,769 states |
| `stream_v5` | no callback runs into a destroyed stream, the destructor joins worker and callback thread before it is gone and ends, with impatient clients | HIDL 5 and earlier; two concurrent closers; one kind of callback with two pointers; 257,349 states |
| `device` | the device is closed once, after its streams, and the assertion on the count does not fire, until two calls meet where the lock is missing (`DeviceInv`) | two binder threads, as every race of the count is one of two; three streams |
| `properties` | a name leads to its most specific context; a read is current and whole; between mutations the trie holds what exists; a call that reports success has done it and one that reports an error has left the property alone; the persisted properties change by an accepted set, a deletion or a complete rename only; a watcher ends with the last value | eight worlds of names, calls and failures: in place, service of version 2, of version 1, none, persisted in one file, in a file each, an area that fills up, an area that may not be opened; any file operation may fail; two calls, one reader, eight objects per area, which two paths nearly fill, values of up to three characters, of which three is long and reaches the offset; 252 pairs of context files and 256 tries; 548,117 states |

Several invariants are conjunctions of named parts, each with its own comment: `SessionInv`,
`DeviceInv`, `TransferInv`, `CallbackInv`, `StreamInInv`, `CallbacksReachPorts`,
`SessionOfPort`, `ConfigurationsAgree`, `A2dpOfferRight`, `LeCapabilitiesRight`, `LeAnswersRight`
and `AreaInv`. Some contain the type invariant of their module.

`StartedHasSession`, a part of `SessionInv`, holds for every kind of session and every
incarnation of the stack while `lost` is false. `lost` is set in two places only: a software
session whose new queue cannot be mapped stops being ready without a report, and a late death
notice ends the session of the restarted stack; both are behaviours of the code (section 5).
The next session clears it, so the property also says that a stack which starts again is
in order again.

`ReturnedIsDone` and `DeviceInv` have exceptions too. Each is a named formula of the module which
does not hold, with the line of code that breaks it (section 5).

Deadlock is checked where the system never stops: streams of the sysbta HAL, transfer,
HIDL sessions. The other configurations turn it off: there the last
incarnation of the stack may die, the object is destroyed, the process aborts, or the
calls are used up and readers wait for a change that does not come.

Symmetry of ports is used in runs without liveness properties only; a run with
liveness has none.

Every property of a passing run has a mutant in `PROJECT.json`: a change of one
mapped definition that a programmer might make and under which the property fails.
The changed forms stand before the definitions they replace.

## 4. Fairness

* `ThreadSpec` of the streams: strong fairness of each thread's steps and weak
  fairness of the second half of a callback. A thread that wants `mutex_` competes
  for it again and again, and the platform's mutexes do not starve a waiter for
  ever; a callback that has started runs to its end. Nothing is assumed of the
  stack: it may never answer.
* `AcceptedStartResolves` has one more assumption, in the property itself: strong
  fairness of `Answer`, a stack that accepted a request answers it in the end.
* `CallbackSpec`: weak fairness of worker, client once it has begun a command,
  destructor, closers, the publishing of `mEfGroup`, the second half of a set call and
  the callback thread once it has an event. Each is a thread that nothing blocks but
  the condition its guard names; the client's callbacks are one way calls and return.
* `TransferSpec`: weak fairness of the caller. The stack may stop draining.
* `ResetProp`: weak fairness of the tool, of init, of the stores of a mutation and of
  each reader. `WatcherCatchesUp` excuses a tool that was killed in mid write.

Fairness says nothing of new calls: no thread has to enter an entry point.

## 5. Where the code and its documentation disagree

Two runs end with a counterexample; the quotes are under `findings` in `PROJECT.json`.

* `session_death`: the death notice of an old stack, delivered late, ends the
  session of the new one. `endSession` unlinks with a cookie other than the one linked, so
  old links stay armed as well.
* `out_disabled`: a control result that read STARTING or SUSPENDING overwrites the DISABLED that
  `Stop` or `SetState` wrote meanwhile without `cv_mutex_` (`device_port_proxy.cc:260`), so a
  stream that was suspended for good can play. `OnlyEarlierReadsEnable` says what is left: a stream is
  enabled only by whom the code means to, or by a writer that had looked at `state_`
  before it was disabled.

The others are not runs. Each of the first group can be reproduced with TLC from the
definition or formula and the constants named. The formulas that have a name stand in the modules,
with a comment that says they do not hold.

* `BluetoothStreamIn`, `ThreadSpec`, one thread, `PollLimit = 2`, property `SuspendNotLost`. `in_standby`
  (`stream_apis.cc:964`) waits in vain for STARTING to pass, returns 0 and has not asked for
  the suspend, under a comment (`:938`) that says the request must not be lost.
* `BluetoothAudioSession`, one stack, `MaxStarts = 2`, `MqFailures = TRUE`, invariant
  `EndedIsQuiet`. A session that could not map its queue is not ready, so its end is not
  reported, and a port started before stays STARTED with no session at all.
* `AudioDevice`, the constants of `device`, invariant `NeverFatal`. Two binder threads lose
  an increment of `mOpenedStreamsCount`; the assertion in `closeOutputStream` aborts.
  `DeviceAfterStreams` and `DestroyedIsClosed` fail in the same way.
* `BluetoothTransfer`, the constants of `transfer`, invariant `OnlyResetsOvertake`. The guard
  at `stream_apis.cc:111` asks "Are we (the audio HAL) reset?!"; it is also true during a write,
  since `out_write` counts after `WriteData` (552-561) and the stack transmits meanwhile.
  Then the feeding delay is taken for that of a reset stream.
* `BluetoothTransfer`, the constants of `transfer`, property `ReportUsed`.
  `GetPresentationPosition` of the AIDL session (`BluetoothAudioSession.cpp:493`) sets its
  result to false and never to true, so an output stream never uses the delay report of
  the headset.
* `BluetoothHidlSession`, the constants of `hidl` with `Serials <- AtOnce`, invariant
  `NoDeletedPort`. The middleware finds a port under `legacy_callback_lock`, releases it and calls
  (`HidlToAidlMiddleware.cpp:511-529`); unregistering erases the entry under that lock
  alone (549-552), so the port may be deleted in between.
* The same constants, invariant `RegisteredIsNotified`. A port that
  leaves erases the table entry of a port that was given its cookie meanwhile
  (`HidlToAidlMiddleware.cpp:542-553`, `BluetoothAudioSession_2_1.cpp:155-157`): the second
  port is not told anything again.
* `ResetProp`, the constants of `properties`:
  * invariant `SetIsStored`. `Update` (`system_properties.cpp:247`) keeps the long flag and writes into
    the union of value and offset: a long property shortened in place still shows its long value,
    and one that gets 56 characters or more points anywhere.
  * invariant `OnlyDeleteDeletes`. A set of a read only property deletes it first
    (`resetprop.cpp:175`); if init then refuses, the property is gone and -1 returned.
  * invariant `DeletedFromDisk`. `persist_deleteprop` returns true whatever `rename` returned, and
    also if `creat` failed (`persist_properties.cpp:231-233`): `--delete -p` returns 0 and the persisted copy is
    still there.
  * invariant `OnlyMutator`. "Only one property is added or updated at a time"
    (`_system_properties.h:98-102`), but the tool writes to the area
    (`resetprop.cpp:172-185`) without a lock while init may have a set of a tool that timed out to write.
* `BluetoothStreamOut`, `MaxPending = 2`, invariant
  `cb.kind = "control" /\ cb.prev = "STARTED" => cb.resp = "suspend"`. A start that
  timed out is answered after a second one; the answer is handled in STARTED as if
  it were a suspend and stops the stream. `device_port_proxy.cc:268` says that only a
  suspend can be reported there.
* `BluetoothStreamOut`, `Interruptible = TRUE`, action property
  `pc[t] = "pause_suspending" /\ pc'[t] = "idle" => state # "STARTED"`. `out_standby` and
  `out_pause` read the state once per branch; an answer between the reads leads past
  all of them and the call returns 0, logged as "standby already", with the stream
  playing.
* `BluetoothStreamOut`, action property `frames_presented' < frames_presented` only in
  open and close. `closing=true` and `exiting=1` reset `frames_presented_` of an open
  stream, which `stream_apis.h:71` declares "never reset".
* `BluetoothStreamOut`, `MqFailures = TRUE`, action property
  `in_use /\ ready' # ready => cb'.kind = "session"`. A session restarted with a queue that
  cannot be mapped stops being ready without `session_changed_cb_`, and so does not
  report its end either.
* `AudioStream`, `ClosesEarly = TRUE`, two `Closers`, invariant `closes <= 1`. Two `close()`
  calls both pass the test of the flag, "only this thread writes", and close the HAL
  stream twice.
* `AudioStream`, `Overlap = TRUE`, property `DestructorEnds`. `prepareForWriting` launches
  the worker before it sets `mEfGroup`; a `close()` in between cannot wake the worker,
  and the destructor joins it for ever. No client of the interface closes during its
  own prepare call, so the runs keep `Overlap` `FALSE`.
* `ResetProp`, `ReadIsCurrent` without its excuse. `system_properties.cpp:186` reads a read
  only property without copying it since it "can never change"; `resetprop -n` changes it in
  place, and a reader gets half of each value.

Noticed in the text of the code, and kept in the model as the code has it:

* *Streams.* `out_write` counts all the bytes it was given when only a part was
  written (`stream_apis.cc:559-561`); `in_read` counts what it got. A callback raised
  between `set_callback` and the store of `mCallback` is dropped. `~StreamOut` clears only
  `mCallback`; the other two pointers are harmless since closing the HAL stream has joined
  the thread.
* *Sessions.* `low_latency_allowed_` outlives its session. The 2.1 session keeps
  `audio_config_2_1_` after its end; `IsSessionReady` hides it. The base class ignores the
  status of `onSessionReady`. `updateAudioConfiguration` does not validate, and for software
  sessions changes the provider's copy only. A second `startSession` without a host on an LE or HFP
  software provider replaces the provider's queue while the session keeps the old one.
  HFP types advertise PCM configurations that `startSession` refuses.
* *Queues.* The LE software queue is sized with `dataIntervalUs / 1000`: at 7.5 ms it holds
  14 ms, not the two frames of 15 ms of the comment.
* *Conversion.* HIDL and AIDL `LoadAudioConfig` differ for unknown rates and 24 bits; the
  HIDL table lacks 8000 and 32000 Hz; HIDL's LDAC check ignores the quality index.
  `to_hidl_leaudio_config_2_1` aborts exactly when the codec is LC3, and
  `to_hidl_lc3_config_2_1` takes the frame duration from the sampling frequency.
* *A2DP.* The SBC builder takes the larger of the two maximal bitpools, which is always the
  local one: every device is offered bitpools up to 250 (`A2dpOffloadCodecSbc.cpp:489`). With a bit
  rate hint the minimum may exceed the maximum, exactly if the device's own lower end is beyond the
  hint (`BitpoolsOffered`). AAC ignores the remote bit rate. The factory dereferences `end()` if the
  hinted codec is not there.
* *LE audio.* `GetLeAudioOffloadCodecInfo` shadows the map it should fill, so provider info is
  empty; for the same reason broadcast settings are never filled. A query without a scenario marks the
  file as invalid. A failed read of the XML file is never repeated, of the JSON files it is. The caches
  have no lock. 44.1 kHz is missing from the bit mask map. A QoS query without a requirement ignores
  disabled codecs and looks at source configurations. A QoS name that is not in the file is dereferenced
  (`BluetoothLeAudioAseConfigurationSettingProvider.cpp:382`), as are absent source capabilities. The
  broadcast query would write through a null result, but returns before, as it has no settings.
* *Properties.* `find_property` loads `prop` twice and a deletion in between makes it
  return the root, read as "" (`prop_area.cpp:328-330`). init and `resetprop -n` are two
  mutators where `prop_area.h:59` allows one. A tool killed in `Update` leaves the serial odd
  and readers wait for the next update. `getprop` copies a value of any length into an array of
  `PROP_VALUE_MAX` (`resetprop.cpp:145-147`). `deleteprop` succeeds if either of its two deletions did.
  Protocol 1 takes a timeout for success. `Add` of a property that exists succeeds and
  changes nothing. Of two prefixes in the trie, a longer one without a context hides a
  shorter one with one. The tool collects the persisted properties, writes a new file and
  renames it without a lock: what init persists in between, for a request of an earlier tool
  that was killed or gave up, is undone by the rename (`ResetProp.PersistIntact` allows exactly
  this).

## 6. Proofs

The theorems hold for all values of the constants that satisfy the named
assumptions of the modules (non-empty or natural numbers, a marker outside its set).

* **`BluetoothStreamOutProofs`**, any number of threads, both values of `Interruptible`.
  `TypeCorrect`; then `FramesConsistent`, inductive given the types; then `InvariantHolds` for
  `StreamInv`, which is inductive together with `TypeOK`: `mutex` is held exactly by
  the thread at a `Holding` label (`MutexOwner`), a thread that opens or closes the
  stream is alone in it (`LifecycleExclusive`), and, unless `Interruptible`, what was
  checked is still true when it is acted upon (`ChecksHold`). The third part needs the
  other two: only a thread that holds `mutex_` or is alone writes `state_`. There is one
  lemma per part over the steps of a thread and one over those of the session.
  `EnabledByEarlierReads` for `OnlyEarlierReadsEnable` rests on the first two parts and needs no
  assumption about windows: `LeaveDisabled` goes through the writers that may leave DISABLED, of which
  those on a thread hold `mutex_` and are between check and write; `EnterDisabled` shows that a thread
  which disables the stream excludes these.
* **`BluetoothStreamInProofs`**, any number of threads and polls, both values of
  `Interruptible`. `InvariantHolds` for `StreamInInv`, which contains the types and is
  inductive. The threads of `in_read` and `in_standby` give `mutex_` up in the middle of a
  call; `Moves` says once what a step of any thread may do to `pc`, `mutex_`, the call and the
  state, `StepMoves` proves it label by label, and the parts of the invariant follow from
  `Moves` alone. `RegisteredIffOpen` adds that `cookie_` is defined exactly in the calls between
  opening and closing. `EnabledByEarlierReads` as for the output stream.
* **`BluetoothAudioSessionProofs`**, any ports, slots and stacks. `CallbacksReachOwner`:
  `CookieOwnership` with the types of the three variables is inductive, because it also
  covers ports between registration and the assignment of `cookie_`: they already own
  a slot. `LowestFreeIsFree` shows that the search for a cookie finds one nobody owns.
  `QueueHasOneOwner` rests on the stronger fact that a mapped queue, ready or not, is
  that of the stack the session calls. `PlayersHaveSession` for `SessionInv`, for every kind and any number
  of incarnations, needs
  `BackedInv`: only a port that is set up has a cookie or plays (`PlayersOpen`), so whoever
  plays is among the observers and is told; and unless the stack `lost` its session, a provider
  with a host has a ready one, so nobody is started on a session that is over.
* **`BluetoothTransferProofs`**, about `BluetoothPosition`, `BluetoothAudioDataPath` and
  `BluetoothTransfer`, any rates, delays, queues, requests and sessions.
  `PositionNeverEarly`, `PositionNeverStuck`: linear arithmetic over the
  calculation, and one case per action. `BytesInOrder` and `AheadDuringWrite` rest on
  `TransferIInv`: what a call has moved is in order, and the bytes a read has got come
  before those still in the queue, in the order the stack produced them (`DataInv`); the two
  halves agree on the direction and a call's frames fit (`JointInv`); what the stack has
  transmitted and what waits in the queue is covered by `frames_presented_` and the call under
  way (`SentInv`). `TransferImplementsPosition` is a refinement: every step of a call is a
  stutter of the position but its end, which counts. `TransferNeverEarly` carries the
  bounds over.
* **`BluetoothHidlSessionProofs`**, any ports, cookies and configurations, with and without the
  middleware. `ReachInv` relates each port's place in its life to the observers
  (`ObserversInv`), to the middleware's table (`TableInv`) and to its cookie (`CookieInv`);
  `SerialInv` adds what holds when ports come and go in turn: nobody is given the cookie of a
  port that is leaving, so the erasure outside the session's mutex hits only its own entry. `ReportInv` says
  of the report under way which port was found for the callback in hand and why it is still there;
  `OwedInv`, that a port which is open when a ready session ends is disabled or still due to be told.
  `ConfigInv` says which of the three copies of a configuration is the running one. From them
  `CallbacksReach`, `PortSeesSession` and `EndReachesPorts`.
* **`AudioHalProofs`**, the stream with any commands and any binder threads. `StreamInv` is
  `TypeOK`, `OneCommand` (the outstanding command is in one place: command queue, worker
  or status queue), `ClosePath` (what close and destructor leave behind: the flag is set
  before anything is closed, the worker is out before the end) and `PatientClose` (a
  patient client has no command out while it closes). From it `RepliesMatch`; `WorkerSafe`,
  assuming a patient client or a late close; and `ImplementsService`, assuming a patient
  client: the initial state maps to an initial state of `AudioCommandService` and every
  step to a step or a stutter. `ClosedOnce` assumes that streams close late or that no two
  closers race: without it the HAL stream is closed twice (section 5). It adds to `ClosePath` that a
  close is either still to come or has happened (`CloseHappens`) and, under the assumption,
  happened once (`CloseOnce`). `CallbacksKeepStream` is a refinement: the stream with its callbacks is a
  stream. `CallbacksSafe` needs `CallbacksEnd`: when the HAL stream is closed its thread
  is out and holds no pointer, which is why clearing one pointer of three in the
  destructor is enough. The device, with any finite set of streams and any number of binder
  threads: `DeviceClosedLast` for `DeviceInv`, whose claims hold until `raced`. While no two calls met
  (`NoRaceInv`), the count is the number of the streams that clients hold and of those a call has
  taken from the HAL but not yet subtracted (`CountInv`), one thread at most is inside `++` or `--` and
  has loaded what is there (`CountingInv`), the HAL has the streams held and those being opened
  (`HalInv`), and a close that passed the test finds none (`ClosedInv`).
* **`AudioProvidersProofs`**, every session type, any configurations and any files.
  `SessionFollows`, `LowLatencyOffered` and `ConfigurationsAgreed` rest on `ProvidersInv`: the
  shape of the session's record, what a session that is ready owes its provider class (`FollowInv`: its
  configuration was accepted, its queue has the size that belongs to it), what was last reported
  about low latency (`ReportInv`), and two of the properties themselves. One lemma
  per codec shows that what the AIDL side accepts is valid for HIDL once converted; it assumes
  a bit rate the HIDL side can express, as the property does. `CapabilitiesFollowFile` rests on
  `CachesInv`: while no read failed, each of the two caches of capabilities is empty or right;
  that they are sound follows from the strategies, which were checked when they were read.

  `A2dpOfferHolds` goes through the codecs: each field of an offer is one value that both sides
  have (`SbcIsAgreed`, `AacIsAgreed`), so it passes the parser (`SbcParses`, `AacParses`). For the
  bitpools, the bitrate grows with the bitpool, so the search over eight bits ends where an exhaustive
  one does: `BitpoolBounds` for one end, `BitpoolsFollow` for both.

  `LeAnswersHold` rests on `AseInv`. The settings that are loaded are none or
  those of the files, and an answer has exactly what they have and a capability and a requirement
  accept, which `AseAnswerHas` shows filter by filter. What was offered is itself among what a QoS
  query searches and meets its own requirement, so the search finds something (`QosFound`). Files with
  dangling names are included: a load that reads one ends the process and answers nothing.

  These two and the soundness of the capabilities need what lists hold. The section on lists
  of the module proves it once: `Iterated` builds the values of a recursive function on `0 .. N`
  one at a time, and from it follow the elements of `Keep` and `FlattenSeq` (`KeepRange`,
  `FlattenRange`, `FlatPairs`). Induction is again the least counterexample of a set (`Upward`).

* **`ResetPropProofs`**, any names, values, areas, readers, commands and files. `InvHolds`: the
  invariant `Inv` is inductive. Its parts: every area is sound (`Areas`, made of `AreaOK`: a link
  leads to a newer node, one token longer or with another last token, no node has two links to
  it, and the search for the path of a linked node ends at that node; a record whose serial is
  even is whole); what an area holds of a property is what `value` says, unless the record is
  being written (`Agree`); only a mutation at work or a kill leaves a serial odd
  (`OddIsWritten`); the mutation under way (`MutOK`: what is copied so far, the object that is
  made but not linked), every reader (`ReadersOK`: the search from where it stands ends where the
  search from the root ends, or its property changed and it may see that; what it has copied is
  a prefix of one value or the serial has moved), the tool and init (`ToolOK`), and the last call
  (`Lasting`). With it goes `Files`, what the list a deletion writes holds of the persisted properties.

  Recursion is dealt with as follows. Links lead to larger offsets and an area is finite, so a
  fact about `Search` or about a subtree holds at every node if it holds at a node whenever it
  holds at all larger ones; the least counterexample from above (`WFMin` of the library, on a set,
  not an operator) replaces induction. `SearchGrows` is the lemma everything rests on: a search
  does not change where it met no stored link, and where it did it goes on at the new node. A
  mutation is a chain of single stores, each `StoreLink` or `StoreProp` (trie stays sound, no other
  name's search changes) or a store into a record. From `Inv`: `ReadIsCurrentHolds` and
  `PersistIntactHolds`. `ReturnedIsDoneHolds` needs `Undone` as well: while a call has not published
  anything the property is as it was (`Untouched`), and a call that is refused after that was one for
  a read only property (`Refused`). `AreaInvHolds` adds that each record bears a name of
  this area (`Named`) and that `foreach_property` meets every linked record once: the subtrees below
  the links of a node are disjoint (`Below`, `Enumerates`).

Assumptions on constants are the named `ASSUME`s of the modules: bounds are natural numbers,
`NoPort`, `Nothing` and their like are outside the set they extend, `Streams` is finite, a file
that can be read has a table of codecs, the interval of a PCM configuration is a natural number.
For the queries of the providers: files, remote capabilities and requirements are lists
(`FilesAssumption`, `SetsAssumption`, `RemotesAssumption`, `QueriesAssumption`); the bitpools and
bitrates of a remote device and a hint are numbers; no codec parameter is the absent bit
(`BitAssumption`); the latency of a QoS that is in the file is a number (`SetsAssumption`; the QoS
need not be there); and nullopt is none of the values
it is told apart from (`NothingAssumption`).
For resetprop: characters are numbers and a name has a token (`AreaAssumption`); commands, readers
and the persisted file are well typed (`WorldAssumption`); and the areas that init filled before
the tool runs are sound and hold the values of the boot (`BootAssumption`), which is what the
theorems then show of every later state.
TLC evaluates each of them. Every inductive invariant was also checked with TLC on the constants of its run (`AseInv` over the
contexts and the configurations of the files).

Only model-checked:

* all liveness (`HolderReleases`, `AcceptedStartResolves`, `CallsReturn`, `Answered`,
  `DestructorEnds`, `CallReturns`, `WatcherCatchesUp`): fairness and ENABLED are beyond the
  prover;
* `ContextIsMostSpecific`: folds over files, a sort and a binary search, whose results the
  library's induction theorems would be needed for.

## 7. What is not modelled

* Metadata of the session, which only passes through, and the downmix to mono in
  `WriteData`.
* `OutWritePcmData` and `InReadPcmData` of the HIDL session, which are those of the AIDL
  session; `Start`, `Suspend` and `Stop` of the HIDL port, likewise.
* The conversion of LE configurations in the middleware: it aborts for the one codec there
  is (section 5).
* `adev_set_parameters` and the list of open streams of the sysbta device: it hands
  parameters to every stream, each of which is a `BluetoothStreamOut`.
* `PrimaryDevice` and `DevicesFactory`; effects, mmap and parameters of the audio HAL
  streams; patches, microphones and parameters of the device: all pass through to the
  legacy HAL.
* Sample rate, channel mask and format that `out_set_parameters` may reload.
* The protobuf encoding of persisted properties (the file is a map, complete or
  not), the serializer of the property trie (not in this repository) and the command line.
* Two tools, or init and the tool, in the same area at the same moment: the theorems and runs about the
  trie are about one mutator. `OnlyMutator` (section 5) shows that the code does not ensure it.
* Data races on the containers themselves, such as the middleware's table or the LE caches: an operation
  on one is a step.
* Several threads in the LE caches: the runs have one call at a time.
* Boot quirks, command line helpers, overlays, policy, interfaces: input and output
  or declarations.
* Time. Every timeout may fire at any moment, in any order with the event it
  waits for.

## 8. Plan

Done, in the order of importance: the output stream with its port; the session with
its providers; the input stream; the audio HAL stream with its abstract service and its
callbacks; the device; the transfer of audio with positions; the HIDL sessions and the
middleware; every provider with its codecs, tables and queries; resetprop; the theorems of
section 6.

Next, modelling: a refinement that ties the coarse session of `BluetoothAudioPort` to
`BluetoothAudioSession`; `adev_set_parameters` over several streams; the device factory.
