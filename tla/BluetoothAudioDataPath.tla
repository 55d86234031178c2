----------------------- MODULE BluetoothAudioDataPath -----------------------
(***************************************************************************)
(* OutWritePcmData and InReadPcmData of BluetoothAudioSession: one call    *)
(* that moves a buffer through the session's queue in pieces.  The session *)
(* mutex is taken anew in every round of the loop and let go while the     *)
(* call sleeps, so the stack may end the session, or start another one     *)
(* with another queue, between two pieces.  A byte is identified by its    *)
(* place in the audio.  BluetoothTransfer puts the calls and the stack     *)
(* together with the counters of the stream.                               *)
(***************************************************************************)
EXTENDS Naturals, Sequences

CONSTANTS
    Capacity,   \* of the queue of a session
    Requests,   \* buffer sizes a stream asks for, zero included
    MaxPolls,   \* kFmqSendTimeoutMs / kWritePollMs, kFmqReceiveTimeoutMs / kReadPollMs
    MaxSessions, MaxBytes \* bounds of a run: sessions, bytes the stack moves

ASSUME DataPathAssumption ==
    /\ Capacity \in Nat \ {0}
    /\ Requests \subseteq Nat
    /\ MaxPolls \in Nat /\ MaxSessions \in Nat /\ MaxBytes \in Nat

VARIABLES
    writes,    \* TRUE: OutWritePcmData, FALSE: InReadPcmData; never changes
    ready,     \* IsSessionReady
    sessions,  \* sessions started so far
    data_mq,   \* the bytes in the queue
    produced,  \* bytes the stack put into an input's queue or took from an output's
    pc,        \* the call
    bytes,     \* its size
    total,     \* total_written, total_read
    polls,     \* what is left of timeout_ms
    buffer     \* output: the bytes that went into a queue; input: the bytes read

dataVars == <<writes, ready, sessions, data_mq, produced, pc, bytes, total, polls, buffer>>
queueVars == <<writes, ready, sessions, produced>>
callVars  == <<pc, bytes, total, polls, buffer>>

DataTypeOK ==
    /\ writes \in BOOLEAN
    /\ ready \in BOOLEAN
    /\ sessions \in 0 .. MaxSessions /\ produced \in 0 .. MaxBytes
    /\ data_mq \in Seq(Nat) /\ Len(data_mq) <= Capacity
    /\ pc \in {"idle", "loop", "asleep"}
    /\ bytes \in Requests \cup {0} /\ total \in 0 .. bytes
    /\ polls \in 0 .. MaxPolls
    /\ buffer \in Seq(Nat)

DataInit ==
    /\ writes \in BOOLEAN
    /\ ready = FALSE /\ sessions = 0 /\ data_mq = <<>> /\ produced = 0
    /\ pc = "idle" /\ bytes = 0 /\ total = 0 /\ polls = 0 /\ buffer = <<>>

-----------------------------------------------------------------------------
(* The call.                                                               *)

\* The call begins; an empty buffer returns at once.
Call(n) ==
    /\ pc = "idle"
    /\ bytes' = n /\ total' = 0 /\ polls' = MaxPolls /\ buffer' = <<>>
    /\ pc' = IF n = 0 THEN "idle" ELSE "loop"
    /\ UNCHANGED <<data_mq, queueVars>>

Available == IF writes THEN Capacity - Len(data_mq) ELSE Len(data_mq)

\* What one round moves: all it finds, but no more than is missing.
Round == IF Available > bytes - total THEN bytes - total ELSE Available

\* A round that starts at the beginning again.
OffsetZero == 0

\* Where in the buffer a round continues.
Offset == total

Piece(n) == [i \in 1 .. n |-> IF writes THEN Offset + i ELSE data_mq[i]]

\* The queue after a round.
QueueAfter(n) ==
    IF writes THEN data_mq \o Piece(n) ELSE SubSeq(data_mq, n + 1, Len(data_mq))

\* A round that finds room (or data): the pieces go on until the call has all.
Move ==
    /\ pc = "loop" /\ ready /\ Available > 0
    /\ buffer' = buffer \o Piece(Round)
    /\ data_mq' = QueueAfter(Round)
    /\ total' = total + Round
    /\ pc' = IF total' < bytes THEN "loop" ELSE "idle"
    /\ UNCHANGED <<bytes, polls, queueVars>>

\* The queue refuses what it had room for: the call returns what it has.
MoveFails ==
    /\ pc = "loop" /\ ready /\ Available > 0
    /\ pc' = "idle"
    /\ UNCHANGED <<bytes, total, polls, buffer, data_mq, queueVars>>

\* A poll that costs nothing.
PollFree == polls

\* What a poll costs.
PollCost == polls - 1

\* Nothing to do now: the mutex is let go for one poll interval.
Sleep ==
    /\ pc = "loop" /\ ready /\ Available = 0 /\ polls > 0
    /\ pc' = "asleep"
    /\ UNCHANGED <<bytes, total, polls, buffer, data_mq, queueVars>>

WakeUp ==
    /\ pc = "asleep"
    /\ polls' = PollCost
    /\ pc' = "loop"
    /\ UNCHANGED <<bytes, total, buffer, data_mq, queueVars>>

\* The time is up, or the session is gone: the call returns what it has.
GiveUp ==
    /\ pc = "loop"
    /\ ~ready \/ (Available = 0 /\ polls = 0)
    /\ pc' = "idle"
    /\ UNCHANGED <<bytes, total, polls, buffer, data_mq, queueVars>>

Caller == Move \/ MoveFails \/ Sleep \/ WakeUp \/ GiveUp

-----------------------------------------------------------------------------
(* The stack, on the other side of the queue.                              *)

\* OnSessionStarted, OnSessionEnded: the queue is another one, or none.
SessionStarts ==
    /\ sessions < MaxSessions
    /\ sessions' = sessions + 1
    /\ ready' = TRUE /\ data_mq' = <<>>
    /\ UNCHANGED <<writes, produced, callVars>>

SessionEnds ==
    /\ ready
    /\ ready' = FALSE /\ data_mq' = <<>>
    /\ UNCHANGED <<writes, sessions, produced, callVars>>

\* The stack takes a byte out of an output's queue, or puts one into an input's.
StackMoves ==
    /\ ready /\ produced < MaxBytes
    /\ IF writes THEN data_mq # <<>> ELSE Len(data_mq) < Capacity
    /\ produced' = produced + 1
    /\ data_mq' = IF writes THEN Tail(data_mq) ELSE Append(data_mq, produced')
    /\ UNCHANGED <<writes, ready, sessions, callVars>>

-----------------------------------------------------------------------------
(* Properties.                                                             *)

\* The count a call returns is the count of bytes it moved, and they are the
\* bytes of the buffer from its beginning, each once and in order, although the
\* call went to sleep in between and the queue may be another one after it.
InOrder ==
    /\ Len(buffer) = total
    /\ \A i \in 1 .. total : writes => buffer[i] = i
    /\ \A i, j \in 1 .. total : i < j => buffer[i] < buffer[j]

\* A call returns even if the stack never touches its end of the queue.
CallReturns == (pc # "idle") ~> (pc = "idle")
=============================================================================
