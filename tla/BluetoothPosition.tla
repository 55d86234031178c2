-------------------------- MODULE BluetoothPosition --------------------------
(***************************************************************************)
(* How a bluetooth_audio stream turns the Bluetooth stack's presentation   *)
(* report into a latency and a position: GetPresentationPosition of the    *)
(* session, out_calculate_feeding_delay_ms, in_calculate_starving_delay_ms *)
(* and the two calls that use them.  The stack counts what it sent (or     *)
(* received) on its own, in another process, and may start again from      *)
(* zero; the stream's counter is frames_presented_.  Time is in            *)
(* milliseconds and FramesPerMs stands for sample_rate_ / 1000, bytes are  *)
(* counted in frames.                                                      *)
(***************************************************************************)
EXTENDS Integers

CONSTANTS
    FramesPerMs,
    BufferMs,        \* frames_count_ * 1000 / sample_rate_
    kMinimumDelayMs, kMaximumDelayMs, kExtraAudioSyncMs,
    Delays,          \* delays a headset may report
    MaxFrames        \* bound on what a run transfers

ASSUME PositionAssumption ==
    /\ FramesPerMs \in Nat \ {0} /\ BufferMs \in Nat
    /\ kMinimumDelayMs \in Nat /\ kMaximumDelayMs \in Nat /\ kExtraAudioSyncMs \in Nat
    /\ Delays \subseteq Nat
    /\ MaxFrames \in Nat

VARIABLES
    aidl,              \* TRUE: the AIDL session, FALSE: the HIDL 2.0 / 2.1 session
    output,            \* TRUE: an output stream, FALSE: an input stream
    frames_presented,  \* frames_presented_ of the stream
    transmitted,       \* transmittedOctets of the stack, in frames
    delay,             \* remoteDeviceAudioDelayNanos, in ms
    answers,           \* the stack answers getPresentationPosition
    latency,           \* the delay the last calculation used
    frames             \* the position it returned

vars == <<aidl, output, frames_presented, transmitted, delay, answers, latency, frames>>
kind == <<aidl, output>>   \* never changes
stackVars == <<kind, transmitted, delay, answers>>

TypeOK ==
    /\ aidl \in BOOLEAN /\ output \in BOOLEAN
    /\ frames_presented \in Nat /\ transmitted \in Nat
    /\ delay \in Delays /\ answers \in BOOLEAN
    /\ latency \in Nat /\ frames \in Nat

-----------------------------------------------------------------------------
(* The calculation.                                                        *)

\* GetPresentationPosition of the session: what it returns.  The HIDL session
\* sets retval when the stack's status is SUCCESS, the AIDL session never does.
Fetched == answers /\ ~aidl

\* The delay and the counter it passes on all the same.
ReportedMs == IF answers THEN delay ELSE 0
Absorbed   == IF answers THEN transmitted ELSE 0

LegacyDelayMs == BufferMs + kExtraAudioSyncMs

\* A report outside the two bounds is ignored.
Plausible(ms) == kMinimumDelayMs < ms /\ ms < kMaximumDelayMs

\* delay_report_ms: an output falls back on the legacy delay, an input takes what
\* there is.
DelayMs ==
    IF ~output THEN ReportedMs
    ELSE IF Fetched /\ Plausible(ReportedMs) THEN ReportedMs ELSE LegacyDelayMs

\* A calculation that trusts the stack's counter.
CounterUnguarded(presented, absorbed, lat) == absorbed

\* The stack's counter, unless it is ahead of the stream's or further behind it
\* than the latency explains: then one of the two was reset.
Counter(presented, absorbed, lat) ==
    IF presented < absorbed \/ presented - absorbed > lat THEN presented ELSE absorbed

\* The frames still on their way through the headset are not presented yet.
Position(presented, absorbed, lat) ==
    LET c == Counter(presented, absorbed, lat) IN IF c > lat THEN c - lat ELSE 0

-----------------------------------------------------------------------------

Init ==
    /\ aidl \in BOOLEAN /\ output \in BOOLEAN
    /\ frames_presented = 0 /\ transmitted = 0
    /\ delay \in Delays /\ answers = TRUE
    /\ latency = 0 /\ frames = 0

\* out_write / in_read accounts for n frames.
Transfer(n) ==
    /\ frames_presented + n <= MaxFrames
    /\ frames_presented' = frames_presented + n
    /\ UNCHANGED <<stackVars, latency, frames>>

\* The stream's counter starts again: another stream is opened on the session, or
\* out_set_parameters resets it.
ResetCounter ==
    /\ frames_presented' = 0 /\ latency' = 0 /\ frames' = 0
    /\ UNCHANGED stackVars

\* The stack sends (or receives) n more frames; restarts its counter; is told a
\* new delay by the headset; stops or resumes to answer.
StackAdvances(n) ==
    /\ transmitted + n <= MaxFrames
    /\ transmitted' = transmitted + n
    /\ UNCHANGED <<kind, frames_presented, delay, answers, latency, frames>>

StackResets ==
    /\ transmitted' = 0
    /\ UNCHANGED <<kind, frames_presented, delay, answers, latency, frames>>

DelayReport ==
    /\ delay' \in Delays
    /\ answers' \in BOOLEAN
    /\ UNCHANGED <<kind, frames_presented, transmitted, latency, frames>>

\* out_get_presentation_position / in_get_capture_position.
Calculate ==
    /\ latency' = DelayMs * FramesPerMs
    /\ frames' = Position(frames_presented, Absorbed, DelayMs * FramesPerMs)
    /\ UNCHANGED <<frames_presented, stackVars>>

Next ==
    \/ \E n \in 1 .. MaxFrames : Transfer(n) \/ StackAdvances(n)
    \/ ResetCounter \/ StackResets \/ DelayReport \/ Calculate

Spec == Init /\ [][Next]_vars

-----------------------------------------------------------------------------
(* Properties.                                                             *)

\* A position never claims a frame the headset cannot have played: it stays a
\* whole latency behind what the stream transferred, or is zero, however the two
\* counters were reset (stream_apis.cc, out_calculate_feeding_delay_ms).
NeverEarly == frames = 0 \/ frames + latency <= frames_presented

\* And when it is calculated it is at most two latencies behind, so that a reset
\* of the stack's counter does not freeze the position.
NeverStuck == [][Calculate => frames_presented <= frames' + 2 * latency']_vars

\* The legacy delay is for a failed fetch: when the stack answers with a plausible
\* delay, that is the one an output uses (stream_apis.cc:85 and 87).  The AIDL
\* session breaks it: its GetPresentationPosition never returns TRUE.
ReportUsed ==
    [][Calculate /\ output /\ answers /\ Plausible(delay)
          => latency' = delay * FramesPerMs]_vars
=============================================================================
