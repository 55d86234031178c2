----------------------- MODULE BluetoothTransferProofs -----------------------
(***************************************************************************)
(* Proofs about BluetoothPosition, BluetoothAudioDataPath and the two      *)
(* together in BluetoothTransfer: for every sample rate, every buffer,     *)
(* every reported delay, queues and requests of every size and any bound   *)
(* on sessions and bytes.                                                  *)
(***************************************************************************)
EXTENDS BluetoothTransfer, SequenceTheorems, TLAPS

\* The bytes of an input are in the order the stack produced them, those the call
\* has before those still in the queue.
ReadOrder ==
    ~ writes =>
       /\ \A i \in 1 .. Len(data_mq) : data_mq[i] <= produced
       /\ \A i, j \in 1 .. Len(data_mq) : i < j => data_mq[i] < data_mq[j]
       /\ \A i \in 1 .. Len(buffer) :
             /\ buffer[i] <= produced
             /\ \A j \in 1 .. Len(data_mq) : buffer[i] < data_mq[j]

\* The inductive form of TransferInv.
DataInv ==
    /\ DataTypeOK
    /\ pc = "asleep" => polls > 0
    /\ InOrder
    /\ ReadOrder

\* What a call has moved and frames_presented_ does not count yet.
UnderWay == IF pc = "idle" THEN 0 ELSE total

\* The inductive form of AheadByWriteOnly: what the stack sent and what it finds
\* in the queue was counted or is about to be.
SentInv ==
    output /\ ~ reset => transmitted + Len(data_mq) <= frames_presented + UnderWay

\* What keeps the two halves together: the direction is one, and the frames of a
\* call that is under way fit.
JointInv ==
    /\ writes = output
    /\ reset \in BOOLEAN
    /\ pc # "idle" => frames_presented + bytes <= MaxFrames

TransferIInv == TypeOK /\ DataInv /\ JointInv /\ SentInv

-----------------------------------------------------------------------------
(* The position *)

\* What the calculation guarantees of its result, whatever the two counters are.
LEMMA PositionFacts ==
    ASSUME NEW presented \in Nat, NEW absorbed \in Nat, NEW lat \in Nat
    PROVE  LET p == Position(presented, absorbed, lat)
           IN  /\ p \in Nat
               /\ p = 0 \/ p + lat <= presented
               /\ presented <= p + 2 * lat
BY DEF Position, Counter

\* The latency is a natural number of frames.
LEMMA LatencyNat ==
    ASSUME TypeOK
    PROVE  DelayMs * FramesPerMs \in Nat /\ Absorbed \in Nat
<1>1. DelayMs \in Nat /\ Absorbed \in Nat
  BY PositionAssumption DEF TypeOK, DelayMs, ReportedMs, LegacyDelayMs, Absorbed
<1>2. ASSUME NEW i \in Nat, NEW j \in Nat PROVE i * j \in Nat
  OBVIOUS
<1>3. QED
  BY <1>1, <1>2, PositionAssumption

\* A calculation keeps the types and establishes both bounds.
LEMMA CalculateStep ==
    ASSUME TypeOK, Calculate
    PROVE  TypeOK' /\ NeverEarly' /\ frames_presented <= frames' + 2 * latency'
<1> DEFINE lat == DelayMs * FramesPerMs
<1>1. lat \in Nat /\ Absorbed \in Nat
  BY LatencyNat
<1>2. /\ latency' = lat
      /\ frames' = Position(frames_presented, Absorbed, lat)
      /\ frames_presented' = frames_presented /\ UNCHANGED stackVars
  BY DEF Calculate
<1> HIDE DEF lat
<1>3. frames_presented \in Nat
  BY DEF TypeOK
<1>4. /\ frames' \in Nat
      /\ frames' = 0 \/ frames' + lat <= frames_presented
      /\ frames_presented <= frames' + 2 * lat
  BY <1>1, <1>2, <1>3, PositionFacts
<1>5. QED
  BY <1>1, <1>2, <1>4 DEF TypeOK, NeverEarly, stackVars, kind

\* Every other step leaves the last calculation valid.
LEMMA PositionKept ==
    ASSUME TypeOK, NeverEarly, [Next]_vars
    PROVE  TypeOK' /\ NeverEarly'
<1> USE DEF TypeOK, NeverEarly, stackVars, kind
<1>1. ASSUME NEW n \in 1 .. MaxFrames, Transfer(n) PROVE TypeOK' /\ NeverEarly'
  BY <1>1, PositionAssumption DEF Transfer
<1>2. ASSUME NEW n \in 1 .. MaxFrames, StackAdvances(n) PROVE TypeOK' /\ NeverEarly'
  BY <1>2, PositionAssumption DEF StackAdvances
<1>3. CASE ResetCounter
  BY <1>3 DEF ResetCounter
<1>4. CASE StackResets
  BY <1>4 DEF StackResets
<1>5. CASE DelayReport
  BY <1>5 DEF DelayReport
<1>6. CASE Calculate
  BY <1>6, CalculateStep
<1>7. CASE UNCHANGED vars
  BY <1>7 DEF vars
<1>8. QED
  BY <1>1, <1>2, <1>3, <1>4, <1>5, <1>6, <1>7 DEF Next

\* Type correctness and the upper bound, together the inductive invariant.
THEOREM PositionNeverEarly == Spec => [](TypeOK /\ NeverEarly)
<1>1. Init => TypeOK /\ NeverEarly
  BY DEF Init, TypeOK, NeverEarly
<1>2. TypeOK /\ NeverEarly /\ [Next]_vars => (TypeOK /\ NeverEarly)'
  BY PositionKept
<1>3. QED
  BY <1>1, <1>2, PTL DEF Spec

\* A calculated position is at most two latencies behind the stream's counter.
THEOREM PositionNeverStuck == Spec => NeverStuck
<1>1. TypeOK /\ [Next]_vars
         => [Calculate => frames_presented <= frames' + 2 * latency']_vars
  BY CalculateStep
<1>2. QED
  BY <1>1, PositionNeverEarly, PTL DEF Spec, NeverStuck

-----------------------------------------------------------------------------
(* A call and the queue *)

\* Before the first call nothing was moved.
LEMMA DataInit0 == DataInit => DataInv
<1> SUFFICES ASSUME DataInit PROVE DataInv
  OBVIOUS
<1>1. <<>> \in Seq(Nat) /\ Len(<<>>) = 0
  BY EmptySeq
<1>2. DataTypeOK
  <2>1. data_mq \in Seq(Nat) /\ buffer \in Seq(Nat) /\ Len(data_mq) <= Capacity
    <3>1. data_mq = <<>> /\ buffer = <<>>
      BY DEF DataInit
    <3>2. 0 <= Capacity
      BY DataPathAssumption
    <3> QED
      BY <1>1, <3>1, <3>2, Zenon
  <2>2. /\ sessions \in 0 .. MaxSessions /\ produced \in 0 .. MaxBytes
        /\ total \in 0 .. bytes /\ polls \in 0 .. MaxPolls
    BY DataPathAssumption DEF DataInit
  <2> QED
    BY <2>1, <2>2 DEF DataInit, DataTypeOK
<1>3. Len(data_mq) = 0 /\ Len(buffer) = 0 /\ total = 0
  BY <1>1, Zenon DEF DataInit
<1>4. \A i \in 1 .. 0 : FALSE
  OBVIOUS
<1> QED
  BY <1>2, <1>3, <1>4 DEF DataInit, DataInv, InOrder, ReadOrder

\* What a round moves is what it finds and what is missing, whichever is less.
LEMMA RoundFacts ==
    ASSUME DataTypeOK
    PROVE  /\ Available \in Nat /\ Round \in Nat
           /\ Round <= Available /\ total + Round <= bytes
           /\ writes => Len(data_mq) + Round <= Capacity
           /\ ~ writes => Round <= Len(data_mq)
<1>1. /\ bytes \in Nat /\ total \in Nat /\ total <= bytes
      /\ Capacity \in Nat /\ Len(data_mq) \in Nat /\ Len(data_mq) <= Capacity
  BY DataPathAssumption, LenProperties DEF DataTypeOK
<1> QED
  BY <1>1 DEF Available, Round

\* The bytes of a round, one by one.
LEMMA PieceFacts ==
    ASSUME DataTypeOK, NEW n \in Nat, ~ writes => n <= Len(data_mq)
    PROVE  /\ Piece(n) \in Seq(Nat) /\ Len(Piece(n)) = n
           /\ \A i \in 1 .. n : Piece(n)[i] = IF writes THEN total + i ELSE data_mq[i]
<1>1. total \in Nat /\ Len(data_mq) \in Nat
  BY DataPathAssumption, LenProperties DEF DataTypeOK
<1>2. \A i \in 1 .. n : (IF writes THEN total + i ELSE data_mq[i]) \in Nat
  <2> SUFFICES ASSUME NEW i \in 1 .. n
               PROVE  (IF writes THEN total + i ELSE data_mq[i]) \in Nat
    OBVIOUS
  <2>1. ~ writes => i \in 1 .. Len(data_mq)
    BY <1>1
  <2>2. ~ writes => data_mq[i] \in Nat
    BY <2>1, ElementOfSeq DEF DataTypeOK
  <2> QED
    BY <1>1, <2>2
<1>3. Piece(n) \in [1 .. n -> Nat]
  BY <1>2 DEF Piece, Offset
<1>4. Piece(n) \in Seq(Nat)
  BY <1>3, SeqDef
<1>5. Len(Piece(n)) = n
  BY <1>3, <1>4, LenProperties
<1> QED
  BY <1>4, <1>5 DEF Piece, Offset

\* What a round leaves in the buffer and in the queue, one by one.
LEMMA MoveFacts ==
    ASSUME DataTypeOK, Len(buffer) = total, Move
    PROVE  /\ buffer' \in Seq(Nat) /\ Len(buffer') = total'
           /\ total' = total + Round /\ total' \in 0 .. bytes
           /\ \A i \in 1 .. total' :
                 buffer'[i] = IF i <= total THEN buffer[i]
                              ELSE IF writes THEN i ELSE data_mq[i - total]
           /\ data_mq' \in Seq(Nat)
           /\ Len(data_mq') = IF writes THEN Len(data_mq) + Round ELSE Len(data_mq) - Round
           /\ ~ writes => \A i \in 1 .. Len(data_mq') : data_mq'[i] = data_mq[i + Round]
<1> DEFINE n == Round
           piece == Piece(n)
<1>1. /\ n \in Nat /\ total + n <= bytes
      /\ writes => Len(data_mq) + n <= Capacity
      /\ ~ writes => n <= Len(data_mq)
  BY RoundFacts
<1>2. /\ piece \in Seq(Nat) /\ Len(piece) = n
      /\ \A i \in 1 .. n : piece[i] = IF writes THEN total + i ELSE data_mq[i]
  BY <1>1, PieceFacts
<1>3. /\ buffer' = buffer \o piece /\ total' = total + n
      /\ writes => data_mq' = data_mq \o piece
      /\ ~ writes => data_mq' = SubSeq(data_mq, n + 1, Len(data_mq))
  BY DEF Move, QueueAfter
<1>4. /\ buffer \in Seq(Nat) /\ data_mq \in Seq(Nat) /\ bytes \in Nat /\ total \in Nat
      /\ Len(data_mq) \in Nat
  BY DataPathAssumption, LenProperties DEF DataTypeOK
<1>0. n = Round
  OBVIOUS
<1> HIDE DEF n, piece
<1>5. /\ buffer' \in Seq(Nat) /\ Len(buffer') = total'
      /\ \A i \in 1 .. total' :
            buffer'[i] = IF i <= total THEN buffer[i] ELSE piece[i - total]
  BY <1>2, <1>3, <1>4, ConcatProperties
<1>6. \A i \in 1 .. total' :
         buffer'[i] = IF i <= total THEN buffer[i]
                      ELSE IF writes THEN i ELSE data_mq[i - total]
  <2> SUFFICES ASSUME NEW i \in 1 .. total', i > total
               PROVE  piece[i - total] = IF writes THEN i ELSE data_mq[i - total]
    BY <1>1, <1>3, <1>4, <1>5
  <2>1. i - total \in 1 .. n /\ total + (i - total) = i
    BY <1>1, <1>3, <1>4
  <2> QED
    BY <1>2, <2>1
<1>7. total' = total + Round /\ total' \in 0 .. bytes
  BY <1>0, <1>1, <1>3, <1>4
<1>8. CASE writes
  <2>1. data_mq \o piece \in Seq(Nat) /\ Len(data_mq \o piece) = Len(data_mq) + n
    BY <1>2, <1>4, ConcatProperties
  <2>2. data_mq' \in Seq(Nat) /\ Len(data_mq') = Len(data_mq) + Round
    BY <1>0, <1>3, <1>8, <2>1
  <2> QED
    BY <1>5, <1>6, <1>7, <1>8, <2>2
<1>9. CASE ~ writes
  <2>1. \A i \in n + 1 .. Len(data_mq) : data_mq[i] \in Nat
    <3> SUFFICES ASSUME NEW i \in n + 1 .. Len(data_mq) PROVE data_mq[i] \in Nat
      OBVIOUS
    <3>1. i \in 1 .. Len(data_mq)
      BY <1>1, <1>4
    <3> QED
      BY <1>4, <3>1, ElementOfSeq
  <2>2. n + 1 \in Int /\ Len(data_mq) \in Int
    BY <1>1, <1>4
  <2>3. /\ data_mq' \in Seq(Nat)
        /\ Len(data_mq') = IF n + 1 <= Len(data_mq) THEN Len(data_mq) - (n + 1) + 1 ELSE 0
        /\ \A i \in 1 .. Len(data_mq) - (n + 1) + 1 : data_mq'[i] = data_mq[n + 1 + i - 1]
    <3>1. LET q == SubSeq(data_mq, n + 1, Len(data_mq))
          IN  /\ q \in Seq(Nat)
              /\ Len(q) = IF n + 1 <= Len(data_mq) THEN Len(data_mq) - (n + 1) + 1 ELSE 0
              /\ \A i \in 1 .. Len(data_mq) - (n + 1) + 1 : q[i] = data_mq[n + 1 + i - 1]
      BY <2>1, <2>2, SubSeqProperties
    <3> QED
      BY <1>3, <1>9, <3>1
  <2>4. Len(data_mq') = Len(data_mq) - n
    BY <1>1, <1>4, <1>9, <2>3
  <2>5. ASSUME NEW i \in 1 .. Len(data_mq') PROVE data_mq'[i] = data_mq[i + n]
    <3>1. i \in 1 .. Len(data_mq) - (n + 1) + 1 /\ n + 1 + i - 1 = i + n
      BY <1>1, <1>4, <1>9, <2>4
    <3> QED
      BY <2>3, <3>1
  <2> QED
    BY <1>0, <1>5, <1>6, <1>7, <1>9, <2>3, <2>4, <2>5
<1> QED
  BY <1>8, <1>9

\* A round keeps the bytes in order.
LEMMA MoveInv ==
    ASSUME DataInv, Move
    PROVE  DataInv'
<1>1. DataTypeOK /\ Len(buffer) = total
  BY DEF DataInv, InOrder
<1>2. /\ Round \in Nat /\ bytes \in Nat /\ total \in Nat /\ Len(data_mq) \in Nat
      /\ writes => Len(data_mq) + Round <= Capacity
      /\ ~ writes => Round <= Len(data_mq)
      /\ Len(data_mq) <= Capacity /\ produced \in Nat /\ Capacity \in Nat
  BY <1>1, RoundFacts, DataPathAssumption, LenProperties DEF DataTypeOK
<1>3. UNCHANGED <<bytes, polls, writes, ready, sessions, produced>>
      /\ pc' \in {"idle", "loop"}
  BY DEF Move, queueVars
<1>4. /\ buffer' \in Seq(Nat) /\ Len(buffer') = total'
      /\ total' = total + Round /\ total' \in 0 .. bytes
      /\ \A i \in 1 .. total' :
            buffer'[i] = IF i <= total THEN buffer[i]
                         ELSE IF writes THEN i ELSE data_mq[i - total]
      /\ data_mq' \in Seq(Nat)
      /\ Len(data_mq') = IF writes THEN Len(data_mq) + Round ELSE Len(data_mq) - Round
      /\ ~ writes => \A i \in 1 .. Len(data_mq') : data_mq'[i] = data_mq[i + Round]
  BY <1>1, MoveFacts
<1>5. DataTypeOK'
  BY <1>1, <1>2, <1>3, <1>4 DEF DataTypeOK
<1>6. CASE writes
  <2>1. \A i \in 1 .. total' : buffer'[i] = i
    BY <1>2, <1>4, <1>6 DEF DataInv, InOrder
  <2> QED
    BY <1>2, <1>3, <1>4, <1>5, <1>6, <2>1 DEF DataInv, InOrder, ReadOrder
<1>7. CASE ~ writes
  <2>1. ASSUME NEW i \in 1 .. total', NEW j \in 1 .. total', i < j
        PROVE  buffer'[i] < buffer'[j]
    <3>1. CASE j <= total
      BY <1>2, <1>4, <2>1, <3>1 DEF DataInv, InOrder
    <3>2. CASE i <= total /\ j > total
      <4>1. i \in 1 .. total /\ j - total \in 1 .. Len(data_mq)
        BY <1>2, <1>4, <1>7, <3>2
      <4>2. buffer'[i] = buffer[i] /\ buffer'[j] = data_mq[j - total]
        BY <1>2, <1>4, <1>7, <3>2
      <4> QED
        BY <1>1, <1>7, <4>1, <4>2 DEF DataInv, ReadOrder
    <3>3. CASE i > total
      <4>1. /\ i - total \in 1 .. Len(data_mq) /\ j - total \in 1 .. Len(data_mq)
            /\ i - total < j - total /\ j > total
        BY <1>2, <1>4, <1>7, <2>1, <3>3
      <4>2. buffer'[i] = data_mq[i - total] /\ buffer'[j] = data_mq[j - total]
        BY <1>2, <1>4, <1>7, <3>3, <4>1
      <4> QED
        BY <1>7, <4>1, <4>2 DEF DataInv, ReadOrder
    <3> QED
      BY <1>2, <3>1, <3>2, <3>3
  <2>2. ASSUME NEW i \in 1 .. Len(data_mq')
        PROVE  /\ i + Round \in 1 .. Len(data_mq)
               /\ data_mq'[i] = data_mq[i + Round]
    BY <1>2, <1>4, <1>7
  <2>3. ASSUME NEW i \in 1 .. total'
        PROVE  /\ buffer'[i] <= produced
               /\ \A j \in 1 .. Len(data_mq') : buffer'[i] < data_mq'[j]
    <3>1. CASE i <= total
      <4>1. i \in 1 .. Len(buffer) /\ buffer'[i] = buffer[i]
        BY <1>1, <1>2, <1>4, <3>1
      <4> QED
        BY <1>7, <2>2, <4>1 DEF DataInv, ReadOrder
    <3>2. CASE i > total
      <4>1. /\ i - total \in 1 .. Len(data_mq) /\ i - total <= Round
            /\ buffer'[i] = data_mq[i - total]
        BY <1>2, <1>4, <1>7, <3>2
      <4>2. \A j \in 1 .. Len(data_mq') : i - total < j + Round
        BY <1>2, <1>4, <1>7, <4>1
      <4> QED
        BY <1>7, <2>2, <4>1, <4>2 DEF DataInv, ReadOrder
    <3> QED
      BY <1>2, <3>1, <3>2
  <2>4. \A i, j \in 1 .. Len(data_mq') : i < j => data_mq'[i] < data_mq'[j]
    <3> SUFFICES ASSUME NEW i \in 1 .. Len(data_mq'), NEW j \in 1 .. Len(data_mq'), i < j
                 PROVE  data_mq'[i] < data_mq'[j]
      OBVIOUS
    <3>1. i + Round < j + Round
      BY <1>2, <1>4, <1>7
    <3> QED
      BY <1>7, <2>2, <3>1 DEF DataInv, ReadOrder
  <2>5. \A i \in 1 .. Len(data_mq') : data_mq'[i] <= produced
    BY <1>7, <2>2 DEF DataInv, ReadOrder
  <2> QED
    BY <1>3, <1>4, <1>5, <1>7, <2>1, <2>3, <2>4, <2>5 DEF DataInv, InOrder, ReadOrder
<1> QED
  BY <1>6, <1>7

\* The other steps of a call leave the buffer and the queue alone.
LEMMA CallerInv ==
    ASSUME DataInv, Caller
    PROVE  DataInv'
<1>1. CASE Move
  BY <1>1, MoveInv
<1>2. CASE MoveFails \/ Sleep \/ WakeUp \/ GiveUp
  <2>1. UNCHANGED <<writes, ready, sessions, produced, data_mq, bytes, total, buffer>>
    BY <1>2 DEF MoveFails, Sleep, WakeUp, GiveUp, queueVars
  <2>2. pc' \in {"idle", "loop", "asleep"}
    BY <1>2 DEF MoveFails, Sleep, WakeUp, GiveUp
  <2>3. polls' \in 0 .. MaxPolls
    <3>1. polls' = polls \/ (polls > 0 /\ polls' = polls - 1)
      BY <1>2 DEF MoveFails, Sleep, WakeUp, GiveUp, PollCost, DataInv
    <3>2. polls \in 0 .. MaxPolls
      BY DEF DataInv, DataTypeOK
    <3> QED
      BY <3>1, <3>2, DataPathAssumption
  <2>4. pc' = "asleep" => polls' > 0
    BY <1>2 DEF MoveFails, Sleep, WakeUp, GiveUp
  <2> QED
    BY <2>1, <2>2, <2>3, <2>4 DEF DataInv, DataTypeOK, InOrder, ReadOrder
<1> QED
  BY <1>1, <1>2 DEF Caller

\* A call begins with an empty buffer.
LEMMA CallInv ==
    ASSUME DataInv, NEW n \in Requests, Call(n)
    PROVE  DataInv'
<1>1. /\ bytes' = n /\ total' = 0 /\ polls' = MaxPolls /\ buffer' = <<>>
      /\ pc' \in {"idle", "loop"}
      /\ UNCHANGED <<data_mq, writes, ready, sessions, produced>>
  BY DEF Call, queueVars
<1>2. buffer' \in Seq(Nat) /\ Len(buffer') = 0
  BY <1>1, EmptySeq, Zenon
<1>3. n \in Nat /\ MaxPolls \in 0 .. MaxPolls /\ 0 \in 0 .. n /\ \A i \in 1 .. 0 : FALSE
  BY DataPathAssumption
<1> QED
  BY <1>1, <1>2, <1>3 DEF DataInv, DataTypeOK, InOrder, ReadOrder

\* A session that starts or ends takes the queue with it; the buffer stays.
LEMMA QueueReplacedInv ==
    ASSUME DataInv, SessionStarts \/ SessionEnds
    PROVE  DataInv'
<1>1. /\ data_mq' = <<>> /\ ready' \in BOOLEAN
      /\ UNCHANGED <<writes, produced, pc, bytes, total, polls, buffer>>
  BY DEF SessionStarts, SessionEnds, callVars
<1>2. sessions' \in 0 .. MaxSessions
  <2>1. sessions \in 0 .. MaxSessions
    BY DEF DataInv, DataTypeOK
  <2> QED
    BY <2>1, DataPathAssumption DEF SessionStarts, SessionEnds
<1>3. data_mq' \in Seq(Nat) /\ Len(data_mq') = 0
  BY <1>1, EmptySeq, Zenon
<1>4. 0 <= Capacity /\ \A i \in 1 .. 0 : FALSE
  BY DataPathAssumption
<1> QED
  BY <1>1, <1>2, <1>3, <1>4 DEF DataInv, DataTypeOK, InOrder, ReadOrder

\* The stack takes the first byte of an output, or adds a new last one to an input.
LEMMA StackMovesInv ==
    ASSUME DataInv, StackMoves
    PROVE  DataInv'
<1>1. /\ data_mq \in Seq(Nat) /\ Len(data_mq) \in Nat /\ Len(data_mq) <= Capacity
      /\ produced \in Nat /\ Capacity \in Nat
      /\ produced' = produced + 1 /\ produced' \in 0 .. MaxBytes /\ produced' \in Nat
      /\ UNCHANGED <<writes, ready, sessions, pc, bytes, total, polls, buffer>>
  BY DataPathAssumption, LenProperties DEF DataInv, DataTypeOK, StackMoves, callVars
<1>2. CASE writes
  <2>1. data_mq # <<>> /\ data_mq' = Tail(data_mq)
    BY <1>2 DEF StackMoves
  <2>2. data_mq' \in Seq(Nat) /\ Len(data_mq') = Len(data_mq) - 1
    BY <1>1, <2>1, HeadTailProperties
  <2>3. Len(data_mq') <= Capacity
    BY <1>1, <2>2
  <2> QED
    BY <1>1, <1>2, <2>2, <2>3 DEF DataInv, DataTypeOK, InOrder, ReadOrder
<1>3. CASE ~ writes
  <2>1. Len(data_mq) < Capacity /\ data_mq' = Append(data_mq, produced')
    BY <1>3 DEF StackMoves
  <2>2. /\ data_mq' \in Seq(Nat) /\ Len(data_mq') = Len(data_mq) + 1
        /\ \A i \in 1 .. Len(data_mq') :
              data_mq'[i] = IF i <= Len(data_mq) THEN data_mq[i] ELSE produced'
    <3>1. /\ Append(data_mq, produced') \in Seq(Nat)
          /\ Len(Append(data_mq, produced')) = Len(data_mq) + 1
          /\ \A i \in 1 .. Len(data_mq) : Append(data_mq, produced')[i] = data_mq[i]
          /\ Append(data_mq, produced')[Len(data_mq) + 1] = produced'
      BY <1>1, AppendProperties
    <3>2. \A i \in 1 .. Len(data_mq) + 1 :
             (i <= Len(data_mq) /\ i \in 1 .. Len(data_mq)) \/ i = Len(data_mq) + 1
      BY <1>1
    <3> QED
      BY <1>1, <2>1, <3>1, <3>2
  <2>3. \A i \in 1 .. Len(data_mq) : data_mq[i] \in Nat /\ data_mq[i] <= produced
    BY <1>1, <1>3, ElementOfSeq DEF DataInv, ReadOrder
  <2>4. \A i \in 1 .. Len(buffer) : buffer[i] \in Nat /\ buffer[i] <= produced
    BY <1>3, ElementOfSeq DEF DataInv, DataTypeOK, ReadOrder
  <2>5. Len(data_mq') <= Capacity
    BY <1>1, <2>1, <2>2
  <2>6. DataTypeOK'
    BY <1>1, <2>2, <2>5 DEF DataInv, DataTypeOK
  <2>7. \A i \in 1 .. Len(data_mq') : data_mq'[i] <= produced'
    BY <1>1, <2>2, <2>3
  <2>8. \A i, j \in 1 .. Len(data_mq') : i < j => data_mq'[i] < data_mq'[j]
    <3> SUFFICES ASSUME NEW i \in 1 .. Len(data_mq'), NEW j \in 1 .. Len(data_mq'), i < j
                 PROVE  data_mq'[i] < data_mq'[j]
      OBVIOUS
    <3>1. i \in 1 .. Len(data_mq) /\ data_mq'[i] = data_mq[i]
      BY <1>1, <2>2
    <3>2. CASE j <= Len(data_mq)
      <4>1. j \in 1 .. Len(data_mq) /\ data_mq'[j] = data_mq[j]
        BY <1>1, <2>2, <3>2
      <4> QED
        BY <1>3, <3>1, <4>1 DEF DataInv, ReadOrder
    <3>3. CASE j > Len(data_mq)
      <4>1. data_mq'[j] = produced'
        BY <1>1, <2>2, <3>3
      <4> QED
        BY <1>1, <2>3, <3>1, <4>1
    <3> QED
      BY <1>1, <2>2, <3>2, <3>3
  <2>9. \A i \in 1 .. Len(buffer) :
           /\ buffer[i] <= produced'
           /\ \A j \in 1 .. Len(data_mq') : buffer[i] < data_mq'[j]
    <3> SUFFICES ASSUME NEW i \in 1 .. Len(buffer), NEW j \in 1 .. Len(data_mq')
                 PROVE  buffer[i] < data_mq'[j]
      BY <1>1, <2>4
    <3>1. CASE j <= Len(data_mq)
      <4>1. j \in 1 .. Len(data_mq) /\ data_mq'[j] = data_mq[j]
        BY <1>1, <2>2, <3>1
      <4> QED
        BY <1>3, <4>1 DEF DataInv, ReadOrder
    <3>2. CASE j > Len(data_mq)
      <4>1. data_mq'[j] = produced'
        BY <1>1, <2>2, <3>2
      <4> QED
        BY <1>1, <2>4, <4>1
    <3> QED
      BY <1>1, <2>2, <3>1, <3>2
  <2> QED
    BY <1>1, <1>3, <2>6, <2>7, <2>8, <2>9 DEF DataInv, InOrder, ReadOrder
<1> QED
  BY <1>2, <1>3

-----------------------------------------------------------------------------
(* The counters and the queue together *)

\* What the end of a call counts covers what it moved.
LEMMA CountedFacts ==
    ASSUME NEW size \in Nat, NEW moved \in 0 .. size
    PROVE  /\ Counted(size, moved) \in 0 .. size
           /\ moved <= Counted(size, moved)
  BY DEF Counted

\* Nor counted.
LEMMA TransferInit0 == TransferInit => TransferIInv
<1> SUFFICES ASSUME TransferInit PROVE TransferIInv
  OBVIOUS
<1>1. TypeOK /\ DataInv
  BY DataInit0 DEF TransferInit, Init, TypeOK
<1>2. JointInv
  BY DEF TransferInit, DataInit, JointInv
<1>3. SentInv
  <2>1. data_mq = <<>> /\ transmitted = 0 /\ frames_presented = 0 /\ pc = "idle"
    BY DEF TransferInit, Init, DataInit
  <2>2. Len(data_mq) = 0
    BY <2>1, EmptySeq, Zenon
  <2> QED
    BY <2>1, <2>2 DEF SentInv, UnderWay
<1> QED
  BY <1>1, <1>2, <1>3 DEF TransferIInv

\* Numbers the steps compare.
LEMMA TransferNumbers ==
    ASSUME TransferIInv
    PROVE  /\ frames_presented \in Nat /\ transmitted \in Nat
           /\ bytes \in Nat /\ total \in 0 .. bytes /\ total \in Nat
           /\ Len(data_mq) \in Nat /\ MaxFrames \in Nat
  BY DataPathAssumption, PositionAssumption, LenProperties
     DEF TransferIInv, TypeOK, DataInv, DataTypeOK

\* A new call starts with nothing moved.
LEMMA BeginCallInv ==
    ASSUME TransferIInv, NEW n \in Requests, BeginCall(n)
    PROVE  TransferIInv'
<1>1. /\ Call(n) /\ frames_presented + n <= MaxFrames
      /\ UNCHANGED <<aidl, output, frames_presented, transmitted, delay, answers,
                     latency, frames, reset>>
  BY DEF BeginCall, vars
<1>2. DataInv'
  BY <1>1, CallInv DEF TransferIInv
<1>3. TypeOK'
  BY <1>1 DEF TransferIInv, TypeOK
<1>4. pc = "idle" /\ bytes' = n /\ total' = 0 /\ UNCHANGED <<data_mq, writes>>
  BY <1>1 DEF Call, queueVars
<1>5. JointInv'
  BY <1>1, <1>4 DEF TransferIInv, JointInv
<1>6. SentInv'
  BY <1>1, <1>4 DEF TransferIInv, SentInv, UnderWay
<1> QED
  BY <1>2, <1>3, <1>5, <1>6 DEF TransferIInv

\* A step of a call: what moved into the queue is under way until the last step
\* counts it.
LEMMA CallStepInv ==
    ASSUME TransferIInv, CallStep
    PROVE  /\ TransferIInv'
           /\ frames_presented' = frames_presented \/
              \E n \in 1 .. MaxFrames : Transfer(n)
<1>1. /\ Caller
      /\ frames_presented' = IF pc' = "idle" THEN frames_presented + Counted(bytes, total')
                             ELSE frames_presented
      /\ UNCHANGED <<aidl, output, transmitted, delay, answers, latency, frames, reset>>
  BY DEF CallStep, stackVars, kind
<1>2. DataInv'
  BY <1>1, CallerInv DEF TransferIInv
<1>3. /\ pc # "idle" /\ UNCHANGED <<bytes, writes>>
      /\ pc' \in {"idle", "loop", "asleep"}
  BY <1>1 DEF Caller, Move, MoveFails, Sleep, WakeUp, GiveUp, queueVars
<1>4. /\ frames_presented \in Nat /\ transmitted \in Nat /\ bytes \in Nat
      /\ total \in 0 .. bytes /\ Len(data_mq) \in Nat /\ MaxFrames \in Nat
      /\ frames_presented + bytes <= MaxFrames
  BY <1>3, TransferNumbers DEF TransferIInv, JointInv
<1>5. total' \in 0 .. bytes
  BY <1>2, <1>3 DEF DataInv, DataTypeOK
<1>6. /\ Counted(bytes, total') \in 0 .. bytes
      /\ total' <= Counted(bytes, total')
  BY <1>4, <1>5, CountedFacts
<1>7. /\ frames_presented' \in Nat
      /\ frames_presented' <= MaxFrames
      /\ pc' # "idle" => frames_presented' = frames_presented
  BY <1>1, <1>4, <1>6
<1>8. TypeOK'
  BY <1>1, <1>7 DEF TransferIInv, TypeOK
<1>9. JointInv'
  BY <1>1, <1>3, <1>4, <1>7 DEF TransferIInv, JointInv
<1>10. SentInv'
  <2> SUFFICES ASSUME output, ~ reset
               PROVE  transmitted + Len(data_mq') <= frames_presented' + UnderWay'
    BY <1>1 DEF SentInv
  <2>1. transmitted + Len(data_mq) <= frames_presented + total
    BY <1>3 DEF TransferIInv, SentInv, UnderWay
  <2>2. Len(data_mq') - Len(data_mq) = total' - total /\ Len(data_mq') \in Nat
    <3>1. CASE Move
      <4>1. total' = total + Round /\ Len(data_mq') = Len(data_mq) + Round /\ Round \in Nat
        BY <3>1, MoveFacts, RoundFacts
           DEF TransferIInv, DataInv, InOrder, JointInv
      <4> QED
        BY <1>4, <4>1
    <3>2. CASE UNCHANGED <<data_mq, total>>
      BY <1>4, <3>2
    <3> QED
      BY <1>1, <3>1, <3>2 DEF Caller, MoveFails, Sleep, WakeUp, GiveUp
  <2>3. CASE pc' = "idle"
    <3>1. UnderWay' = 0
      BY <2>3 DEF UnderWay
    <3>2. frames_presented + total' <= frames_presented'
      BY <1>1, <1>4, <1>5, <1>6, <2>3
    <3>3. transmitted + Len(data_mq') <= frames_presented + total'
      BY <1>4, <1>5, <2>1, <2>2
    <3>4. frames_presented' \in Nat /\ total' \in Nat
      BY <1>4, <1>5, <1>7
    <3>5. transmitted + Len(data_mq') <= frames_presented' + 0
      <4>1. ASSUME NEW a \in Nat, NEW b \in Nat, NEW c \in Nat, NEW d \in Nat,
                   NEW e \in Nat, a + b <= c + d, c + d <= e
            PROVE  a + b <= e + 0
        BY <4>1
      <4> QED
        BY <1>4, <2>2, <3>2, <3>3, <3>4, <4>1
    <3> QED
      BY <3>1, <3>5, Zenon
  <2>4. CASE pc' # "idle"
    <3>1. UnderWay' = total'
      BY <2>4 DEF UnderWay
    <3> QED
      BY <1>4, <1>5, <1>7, <2>1, <2>2, <2>4, <3>1
  <2> QED
    BY <2>3, <2>4
<1>11. frames_presented' = frames_presented \/ \E n \in 1 .. MaxFrames : Transfer(n)
  <2> SUFFICES ASSUME frames_presented' # frames_presented
               PROVE  \E n \in 1 .. MaxFrames : Transfer(n)
    OBVIOUS
  <2> DEFINE n == Counted(bytes, total')
  <2>1. frames_presented' = frames_presented + n /\ n \in 0 .. bytes
    BY <1>1, <1>6
  <2> HIDE DEF n
  <2>2. n \in 1 .. MaxFrames
    BY <1>4, <2>1
  <2>3. Transfer(n)
    BY <1>1, <1>7, <2>1 DEF Transfer, stackVars, kind
  <2> QED
    BY <2>2, <2>3
<1> QED
  BY <1>2, <1>8, <1>9, <1>10, <1>11 DEF TransferIInv

\* The stack drains or fills the queue in order, and counts.
LEMMA StackStepInv ==
    ASSUME TransferIInv, StackStep
    PROVE  TransferIInv'
<1>1. /\ StackMoves /\ transmitted' = transmitted + 1
      /\ UNCHANGED <<aidl, output, frames_presented, delay, answers, latency, frames, reset>>
  BY DEF StackStep, StackAdvances, kind
<1>2. DataInv'
  BY <1>1, StackMovesInv DEF TransferIInv
<1>3. TypeOK'
  BY <1>1 DEF TransferIInv, TypeOK
<1>4. UNCHANGED <<writes, pc, bytes, total>>
  BY <1>1 DEF StackMoves, callVars
<1>5. JointInv'
  BY <1>1, <1>4 DEF TransferIInv, JointInv
<1>6. SentInv'
  <2> SUFFICES ASSUME output, ~ reset
               PROVE  transmitted' + Len(data_mq') <= frames_presented + UnderWay
    BY <1>1, <1>4 DEF SentInv, UnderWay
  <2>1. data_mq # <<>> /\ data_mq' = Tail(data_mq)
    BY <1>1 DEF StackMoves, TransferIInv, JointInv
  <2>2. Len(data_mq') = Len(data_mq) - 1
    BY <2>1, HeadTailProperties DEF TransferIInv, DataInv, DataTypeOK
  <2>3. transmitted + Len(data_mq) <= frames_presented + UnderWay
    BY DEF TransferIInv, SentInv
  <2>4. transmitted' + Len(data_mq') = transmitted + Len(data_mq)
    BY <1>1, <2>2, TransferNumbers
  <2> QED
    BY <2>3, <2>4
<1> QED
  BY <1>2, <1>3, <1>5, <1>6 DEF TransferIInv

\* A session starts, with an empty queue and a counter of zero, or ends.
LEMMA SessionStepInv ==
    ASSUME TransferIInv, SessionStep
    PROVE  TransferIInv'
<1>1. /\ SessionStarts \/ SessionEnds
      /\ UNCHANGED <<aidl, output, frames_presented, transmitted, delay, answers,
                     latency, frames, reset>>
  BY DEF SessionStep, vars
<1>2. DataInv'
  BY <1>1, QueueReplacedInv DEF TransferIInv
<1>3. TypeOK'
  BY <1>1 DEF TransferIInv, TypeOK
<1>4. data_mq' = <<>> /\ UNCHANGED <<writes, pc, bytes, total>>
  BY <1>1 DEF SessionStarts, SessionEnds, callVars
<1>5. JointInv'
  BY <1>1, <1>4 DEF TransferIInv, JointInv
<1>6. SentInv'
  <2>1. Len(data_mq') = 0
    BY <1>4, EmptySeq, Zenon
  <2>2. UnderWay \in Nat /\ UnderWay' = UnderWay
    BY <1>4, TransferNumbers DEF UnderWay
  <2> QED
    BY <1>1, <2>1, <2>2, TransferNumbers DEF TransferIInv, SentInv
<1> QED
  BY <1>2, <1>3, <1>5, <1>6 DEF TransferIInv

\* A step of the position alone, a reset included.
LEMMA PositionStepInv ==
    ASSUME TransferIInv, UNCHANGED dataVars,
           \/ (ResetCounter \/ StackResets) /\ reset' = TRUE
           \/ (DelayReport \/ Calculate) /\ UNCHANGED reset
    PROVE  TransferIInv'
<1>1. UNCHANGED <<writes, ready, sessions, data_mq, produced, pc, bytes, total, polls, buffer>>
  BY DEF dataVars
<1>2. DataInv'
  BY <1>1 DEF TransferIInv, DataInv, DataTypeOK, InOrder, ReadOrder
<1>3. TypeOK'
  <2>1. CASE Calculate
    BY <2>1, CalculateStep DEF TransferIInv
  <2>2. CASE ResetCounter \/ StackResets \/ DelayReport
    BY <2>2 DEF ResetCounter, StackResets, DelayReport, stackVars, kind, TransferIInv, TypeOK
  <2> QED
    BY <2>1, <2>2
<1>4. /\ UNCHANGED output
      /\ frames_presented' = frames_presented \/ frames_presented' = 0
      /\ reset' \/ UNCHANGED <<reset, frames_presented, transmitted>>
      /\ reset' \in BOOLEAN
  BY DEF ResetCounter, StackResets, DelayReport, Calculate, stackVars, kind, TransferIInv,
     JointInv
<1>5. JointInv'
  BY <1>1, <1>4, TransferNumbers DEF TransferIInv, JointInv
<1>6. SentInv'
  BY <1>1, <1>4 DEF TransferIInv, SentInv, UnderWay
<1> QED
  BY <1>2, <1>3, <1>5, <1>6 DEF TransferIInv

\* Every step of a transfer keeps its invariant.
LEMMA TransferKept ==
    ASSUME TransferIInv, [TransferNext]_transferVars
    PROVE  TransferIInv'
<1>1. ASSUME NEW n \in Requests, BeginCall(n) PROVE TransferIInv'
  BY <1>1, BeginCallInv
<1>2. CASE CallStep
  BY <1>2, CallStepInv
<1>3. CASE StackStep
  BY <1>3, StackStepInv
<1>4. CASE SessionStep
  BY <1>4, SessionStepInv
<1>5. CASE ResetStep \/ PositionStep
  BY <1>5, PositionStepInv DEF ResetStep, PositionStep
<1>6. CASE UNCHANGED transferVars
  BY <1>6 DEF transferVars, vars, dataVars, TransferIInv, TypeOK, DataInv, DataTypeOK,
     InOrder, ReadOrder, JointInv, SentInv, UnderWay
<1> QED
  BY <1>1, <1>2, <1>3, <1>4, <1>5, <1>6 DEF TransferNext

\* It holds in every state.
LEMMA TransferInvariance == TransferSpec => []TransferIInv
<1>1. TransferInit => TransferIInv
  BY TransferInit0
<1>2. TransferIInv /\ [TransferNext]_transferVars => TransferIInv'
  BY TransferKept
<1> QED
  BY <1>1, <1>2, PTL DEF TransferSpec

\* What a call reports is what it moved, each byte once and in order, for queues,
\* buffers and timeouts of any size and sessions that come and go under the call.
THEOREM BytesInOrder == TransferSpec => []TransferInv
<1>1. TransferIInv => TransferInv
  BY DEF TransferIInv, TransferInv, DataInv
<1> QED
  BY <1>1, TransferInvariance, PTL

\* Without a reset the stack's counter is ahead of frames_presented_ only while a
\* write is under way, and by no more than that write has put into the queue,
\* for queues and writes of any size: between writes the guard of
\* out_calculate_feeding_delay_ms does mean a reset.
THEOREM AheadDuringWrite == TransferSpec => []AheadByWriteOnly
<1>1. ASSUME TransferIInv PROVE AheadByWriteOnly
  <2>1. UnderWay \in Nat
    BY <1>1, TransferNumbers DEF UnderWay
  <2>2. output /\ ~ reset => transmitted <= frames_presented + UnderWay
    BY <1>1, <2>1, TransferNumbers DEF TransferIInv, SentInv
  <2> QED
    BY <2>2 DEF AheadByWriteOnly, UnderWay
<1> QED
  BY <1>1, TransferInvariance, PTL

\* The stream with its data path is a stream as BluetoothPosition describes it:
\* a call counts once, at its end, and at most what fits.
THEOREM TransferImplementsPosition == TransferSpec => Spec
<1>1. TransferInit => Init
  BY DEF TransferInit
<1>2. ASSUME TransferIInv, [TransferNext]_transferVars PROVE [Next]_vars
  <2>1. ASSUME NEW n \in Requests, BeginCall(n) PROVE [Next]_vars
    BY <2>1 DEF BeginCall
  <2>2. CASE CallStep
    <3>1. CASE frames_presented' = frames_presented
      BY <2>2, <3>1 DEF CallStep, stackVars, kind, vars
    <3>2. CASE \E n \in 1 .. MaxFrames : Transfer(n)
      BY <3>2 DEF Next
    <3> QED
      BY <1>2, <2>2, <3>1, <3>2, CallStepInv
  <2>3. CASE StackStep
    <3>1. 1 \in 1 .. MaxFrames
      BY <2>3, <1>2, TransferNumbers DEF StackStep, StackAdvances
    <3> QED
      BY <2>3, <3>1 DEF StackStep, Next
  <2>4. CASE SessionStep
    BY <2>4 DEF SessionStep
  <2>5. CASE ResetStep \/ PositionStep
    BY <2>5 DEF ResetStep, PositionStep, Next
  <2>6. CASE UNCHANGED transferVars
    BY <2>6 DEF transferVars
  <2> QED
    BY <1>2, <2>1, <2>2, <2>3, <2>4, <2>5, <2>6 DEF TransferNext
<1>3. TransferIInv /\ [TransferNext]_transferVars => [Next]_vars
  BY <1>2
<1> QED
  BY <1>1, <1>3, TransferInvariance, PTL DEF TransferSpec, Spec

\* So the bounds on the position hold while calls are under way.
THEOREM TransferNeverEarly == TransferSpec => []NeverEarly /\ NeverStuck
<1>1. TypeOK /\ NeverEarly => NeverEarly
  OBVIOUS
<1> QED
  BY <1>1, TransferImplementsPosition, PositionNeverEarly, PositionNeverStuck,
     PTL

=============================================================================
