-------------------------- MODULE BluetoothTransfer --------------------------
(***************************************************************************)
(* The audio of one stream end to end: out_write and in_read move it       *)
(* through the queue (BluetoothAudioDataPath), count what they moved into  *)
(* frames_presented_, and the stack counts what it took out or put in; the *)
(* position is calculated from both counters (BluetoothPosition) while     *)
(* calls are under way.  A frame is one byte here.                         *)
(***************************************************************************)
EXTENDS BluetoothPosition, BluetoothAudioDataPath

VARIABLE reset     \* history: one of the two counters started again

transferVars == <<vars, dataVars, reset>>

TransferInit ==
    /\ Init /\ DataInit
    /\ writes = output
    /\ reset = FALSE

\* A write that counts what went into the queue only when it was all of it.
CountedIfWhole(size, moved) == IF moved = size THEN size ELSE 0

\* The end of out_write and in_read: a write that moved anything counts all it was
\* asked for, a read counts what it got.
Counted(size, moved) ==
    IF ~output THEN moved ELSE IF moved > 0 THEN size ELSE 0

BeginCall(n) ==
    /\ frames_presented + n <= MaxFrames
    /\ Call(n)
    /\ UNCHANGED <<vars, reset>>

\* A step of a call; the last one adds to frames_presented_.
CallStep ==
    /\ Caller
    /\ frames_presented' = IF pc' = "idle" THEN frames_presented + Counted(bytes, total')
                           ELSE frames_presented
    /\ UNCHANGED <<stackVars, latency, frames, reset>>

\* The stack moves a byte and counts it.
StackStep == StackMoves /\ StackAdvances(1) /\ UNCHANGED reset

SessionStep == (SessionStarts \/ SessionEnds) /\ UNCHANGED <<vars, reset>>

ResetStep ==
    /\ frames_presented + transmitted > 0
    /\ ResetCounter \/ StackResets
    /\ reset' = TRUE
    /\ UNCHANGED dataVars

PositionStep == (DelayReport \/ Calculate) /\ UNCHANGED <<dataVars, reset>>

TransferNext ==
    \/ \E n \in Requests : BeginCall(n)
    \/ CallStep \/ StackStep \/ SessionStep \/ ResetStep \/ PositionStep

\* The calling thread keeps running; nothing is assumed of the stack.
TransferSpec ==
    /\ TransferInit /\ [][TransferNext]_transferVars
    /\ WF_transferVars(CallStep)

-----------------------------------------------------------------------------
(* Properties.                                                             *)

\* The guard frames_presented_ < absorbed of out_calculate_feeding_delay_ms asks
\* "Are we (the audio HAL) reset?!" (stream_apis.cc:112).  This says that only a
\* reset makes it true, and does not hold: out_write counts its frames after
\* WriteData has handed them to the stack with mutex_ released.
OnlyResetsOvertake == output /\ ~reset => transmitted <= frames_presented

\* What does hold without a reset: between two writes the stack has not sent more
\* than frames_presented_ counts, and during one it is ahead by no more than that
\* write has put into the queue - although writes are cut short by a full queue or
\* an ended session and counted whole.
AheadByWriteOnly ==
    output /\ ~reset => transmitted <= frames_presented + (IF pc = "idle" THEN 0 ELSE total)

\* Types, and what a call reports: the bytes it moved, each once and in order.
TransferInv == TypeOK /\ DataTypeOK /\ InOrder

=============================================================================
