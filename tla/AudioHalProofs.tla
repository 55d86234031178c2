--------------------------- MODULE AudioHalProofs ---------------------------
(***************************************************************************)
(* Proofs about the two halves of the audio HAL.  AudioStream and          *)
(* AudioStreamCallbacks: for any set of commands and callbacks, any number *)
(* of closing threads and every version of the interface.  AudioDevice:    *)
(* for any finite set of streams and any set of binder threads, up to the  *)
(* moment two calls meet where a lock is missing.                          *)
(***************************************************************************)
EXTENDS AudioStreamCallbacks, AudioDevice, FiniteSetTheorems, TLAPS

\* Somebody is between the store of the flag and the close of the HAL stream.
Underway == owner \in {"wake", "hal"} \/ \E t \in Closers : closer[t] \in {"wake", "hal"}

\* A stream whose flag is set was closed or is about to be, and the destructor
\* gets to its end only with the HAL stream closed.
CloseHappens ==
    /\ owner # "held" => \A t \in Closers : closer[t] = "idle"
    /\ ClosesEarly => /\ owner # "late"
                      /\ stop => closes # 0 \/ Underway
    /\ ~ ClosesEarly /\ owner = "gone" => closes # 0

\* The HAL stream is closed at most once.
CloseOnce ==
    /\ ClosesEarly => /\ owner = "store" \/ (\E t \in Closers : closer[t] = "store") => ~ stop
                      /\ Underway => closes = 0
    /\ closes \in {0, 1}

\* The HAL stream that was closed holds no pointer to the StreamOut.
CallbacksEnd == closes # 0 => event = Nothing /\ registered = {}

\* The inductive form of CallbackInv.
CallbackIInv == CallbackTypeOK /\ CallbacksEnd

\* What a queue of one holds, element by element.
LEMMA QueueFacts ==
    ASSUME NEW S, NEW q \in QueueOfOne(S)
    PROVE  /\ q # <<>> => q[1] \in S /\ q = <<q[1]>>
           /\ <<>> \in QueueOfOne(S)
           /\ \A x \in S : <<x>> \in QueueOfOne(S) /\ <<x>> # <<>> /\ <<x>>[1] = x
<1>1. ASSUME q # <<>> PROVE q[1] \in S /\ q = <<q[1]>>
  <2>1. PICK x \in S : q = <<x>>
    BY <1>1 DEF QueueOfOne
  <2>2. QED
    BY <2>1
<1>2. ASSUME NEW x \in S PROVE <<x>> \in QueueOfOne(S) /\ <<x>> # <<>> /\ <<x>>[1] = x
  BY DEF QueueOfOne
<1>3. QED
  BY <1>1, <1>2 DEF QueueOfOne

\* Whatever a command ends with is a Result of the interface.
LEMMA RetvalFacts == \A c : Retvals(c) \subseteq Results
BY DEF Retvals, Results

\* Every step keeps the types.
LEMMA TypeStep ==
    ASSUME TypeOK, [Next]_vars
    PROVE  TypeOK'
<1> USE DEF TypeOK, WorkerSteps, ClientSteps, CloserSteps, OwnerSteps, workerVars,
            clientVars, queueVars, closeVars
<1>1. CASE Launch
  BY <1>1 DEF Launch
<1>2. CASE Publish
  BY <1>2 DEF Publish
<1>3. ASSUME NEW t \in Closers, CloseCheck(t) PROVE TypeOK'
  BY <1>3 DEF CloseCheck, MayClose
<1>4. ASSUME NEW t \in Closers, CloseStore(t) PROVE TypeOK'
  BY <1>4 DEF CloseStore
<1>5. ASSUME NEW t \in Closers, CloseWake(t) PROVE TypeOK'
  BY <1>5, StreamAssumption DEF CloseWake, WakeWorker
<1>6. ASSUME NEW t \in Closers, CloseHal(t) PROVE TypeOK'
  BY <1>6 DEF CloseHal
<1>7. CASE DropLast
  BY <1>7 DEF DropLast, MayClose
<1>8. CASE DropStore
  BY <1>8 DEF DropStore
<1>9. CASE DropWake
  BY <1>9, StreamAssumption DEF DropWake, WakeWorker
<1>10. CASE DropHal
  BY <1>10 DEF DropHal
<1>11. CASE Join
  BY <1>11 DEF Join, JoinReturns
<1>12. CASE CloseLate
  BY <1>12 DEF CloseLate
<1>13. CASE LoopCheck
  BY <1>13 DEF LoopCheck, WorkerGoes
<1>14. CASE WaitReturns
  BY <1>14 DEF WaitReturns, WorkerGoes
<1>15. CASE WaitInterrupted
  BY <1>15 DEF WaitInterrupted, WorkerGoes
<1>16. CASE TakeCommand
  BY <1>16, QueueFacts DEF TakeCommand, Consumed, WorkerGoes, QueueOfOne
<1>17. CASE Serve
  BY <1>17, RetvalFacts DEF Serve, WorkerGoes
<1>18. CASE PostStatus
  BY <1>18, RetvalFacts DEF PostStatus, WorkerGoes, QueueOfOne
<1>19. CASE WakeClient
  BY <1>19 DEF WakeClient, WorkerGoes
<1>20. ASSUME NEW c \in Commands, Ask(c) PROVE TypeOK'
  BY <1>20 DEF Ask, MayAsk, ClientGoes, QueueOfOne
<1>21. CASE Notify
  BY <1>21 DEF Notify, ClientGoes
<1>22. CASE ClientWakes
  BY <1>22 DEF ClientWakes, ClientGoes
<1>23. CASE ClientTakes
  BY <1>23 DEF ClientTakes, ClientGoes, QueueOfOne
<1>24. CASE UNCHANGED vars
  BY <1>24 DEF vars
<1>25. QED
  BY <1>1, <1>2, <1>3, <1>4, <1>5, <1>6, <1>7, <1>8, <1>9, <1>10, <1>11,
     <1>12, <1>13, <1>14, <1>15, <1>16, <1>17, <1>18, <1>19, <1>20, <1>21,
     <1>22, <1>23, <1>24
     DEF Next, Worker, Client, Destructor

\* Every step keeps one command on its way.
LEMMA OneCommandStep ==
    ASSUME TypeOK, OneCommand, [Next]_vars
    PROVE  OneCommand'
<1> USE DEF TypeOK, OneCommand, workerVars, clientVars, queueVars, closeVars
<1>1. CASE Launch
  BY <1>1 DEF Launch
<1>2. CASE Publish
  BY <1>2 DEF Publish
<1>3. ASSUME NEW t \in Closers, CloseCheck(t) PROVE OneCommand'
  BY <1>3 DEF CloseCheck, MayClose
<1>4. ASSUME NEW t \in Closers, CloseStore(t) PROVE OneCommand'
  BY <1>4 DEF CloseStore
<1>5. ASSUME NEW t \in Closers, CloseWake(t) PROVE OneCommand'
  BY <1>5 DEF CloseWake, WakeWorker
<1>6. ASSUME NEW t \in Closers, CloseHal(t) PROVE OneCommand'
  BY <1>6 DEF CloseHal
<1>7. CASE DropLast
  BY <1>7 DEF DropLast, MayClose
<1>8. CASE DropStore
  BY <1>8 DEF DropStore
<1>9. CASE DropWake
  BY <1>9 DEF DropWake, WakeWorker
<1>10. CASE DropHal
  BY <1>10 DEF DropHal
<1>11. CASE Join
  BY <1>11 DEF Join, JoinReturns
<1>12. CASE CloseLate
  BY <1>12 DEF CloseLate
<1>13. CASE LoopCheck
  BY <1>13 DEF LoopCheck, WorkerGoes
<1>14. CASE WaitReturns
  BY <1>14 DEF WaitReturns, WorkerGoes
<1>15. CASE WaitInterrupted
  BY <1>15 DEF WaitInterrupted, WorkerGoes
<1>16. CASE TakeCommand
  BY <1>16, QueueFacts DEF TakeCommand, Consumed, WorkerGoes
<1>17. CASE Serve
  BY <1>17 DEF Serve, WorkerGoes
<1>18. CASE PostStatus
  BY <1>18, QueueFacts DEF PostStatus, WorkerGoes
<1>19. CASE WakeClient
  BY <1>19 DEF WakeClient, WorkerGoes
<1>20. ASSUME NEW c \in Commands, Ask(c) PROVE OneCommand'
  BY <1>20, QueueFacts DEF Ask, MayAsk, ClientGoes
<1>21. CASE Notify
  BY <1>21 DEF Notify, ClientGoes
<1>22. CASE ClientWakes
  BY <1>22 DEF ClientWakes, ClientGoes
<1>23. CASE ClientTakes
  BY <1>23, QueueFacts DEF ClientTakes, ClientGoes
<1>24. CASE UNCHANGED vars
  BY <1>24 DEF vars
<1>25. QED
  BY <1>1, <1>2, <1>3, <1>4, <1>5, <1>6, <1>7, <1>8, <1>9, <1>10, <1>11,
     <1>12, <1>13, <1>14, <1>15, <1>16, <1>17, <1>18, <1>19, <1>20, <1>21,
     <1>22, <1>23, <1>24
     DEF Next, Worker, Client, Destructor

\* Every step keeps what close() and the destructor rely on.
LEMMA ClosePathStep ==
    ASSUME TypeOK, ClosePath, [Next]_vars
    PROVE  ClosePath'
<1> USE DEF ClosePath, TypeOK, workerVars, clientVars, queueVars, closeVars
<1>1. CASE Launch
  BY <1>1 DEF Launch
<1>2. CASE Publish
  BY <1>2 DEF Publish
<1>3. ASSUME NEW t \in Closers, CloseCheck(t) PROVE ClosePath'
  BY <1>3 DEF CloseCheck, MayClose
<1>4. ASSUME NEW t \in Closers, CloseStore(t) PROVE ClosePath'
  BY <1>4 DEF CloseStore
<1>5. ASSUME NEW t \in Closers, CloseWake(t) PROVE ClosePath'
  BY <1>5 DEF CloseWake, WakeWorker
<1>6. ASSUME NEW t \in Closers, CloseHal(t) PROVE ClosePath'
  BY <1>6 DEF CloseHal
<1>7. CASE DropLast
  BY <1>7 DEF DropLast, MayClose
<1>8. CASE DropStore
  BY <1>8 DEF DropStore
<1>9. CASE DropWake
  BY <1>9 DEF DropWake, WakeWorker
<1>10. CASE DropHal
  BY <1>10 DEF DropHal
<1>11. CASE Join
  BY <1>11 DEF Join, JoinReturns
<1>12. CASE CloseLate
  BY <1>12 DEF CloseLate
<1>13. CASE LoopCheck
  BY <1>13 DEF LoopCheck, WorkerGoes
<1>14. CASE WaitReturns
  BY <1>14 DEF WaitReturns, WorkerGoes
<1>15. CASE WaitInterrupted
  BY <1>15 DEF WaitInterrupted, WorkerGoes
<1>16. CASE TakeCommand
  BY <1>16 DEF TakeCommand, Consumed, WorkerGoes
<1>17. CASE Serve
  BY <1>17 DEF Serve, WorkerGoes
<1>18. CASE PostStatus
  BY <1>18 DEF PostStatus, WorkerGoes
<1>19. CASE WakeClient
  BY <1>19 DEF WakeClient, WorkerGoes
<1>20. ASSUME NEW c \in Commands, Ask(c) PROVE ClosePath'
  BY <1>20 DEF Ask, MayAsk, ClientGoes
<1>21. CASE Notify
  BY <1>21 DEF Notify, ClientGoes
<1>22. CASE ClientWakes
  BY <1>22 DEF ClientWakes, ClientGoes
<1>23. CASE ClientTakes
  BY <1>23 DEF ClientTakes, ClientGoes
<1>24. CASE UNCHANGED vars
  BY <1>24 DEF vars
<1>25. QED
  BY <1>1, <1>2, <1>3, <1>4, <1>5, <1>6, <1>7, <1>8, <1>9, <1>10, <1>11,
     <1>12, <1>13, <1>14, <1>15, <1>16, <1>17, <1>18, <1>19, <1>20, <1>21,
     <1>22, <1>23, <1>24
     DEF Next, Worker, Client, Destructor

\* No step of a patient client asks and closes at once.
LEMMA PatientStep ==
    ASSUME TypeOK, ClosePath, PatientClose, [Next]_vars
    PROVE  PatientClose'
<1> USE DEF PatientClose, Closing, ClosePath, TypeOK, workerVars, clientVars,
            queueVars, closeVars
<1>1. CASE Launch
  BY <1>1 DEF Launch
<1>2. CASE Publish
  BY <1>2 DEF Publish
<1>3. ASSUME NEW t \in Closers, CloseCheck(t) PROVE PatientClose'
  BY <1>3 DEF CloseCheck, MayClose
<1>4. ASSUME NEW t \in Closers, CloseStore(t) PROVE PatientClose'
  BY <1>4 DEF CloseStore
<1>5. ASSUME NEW t \in Closers, CloseWake(t) PROVE PatientClose'
  BY <1>5 DEF CloseWake, WakeWorker
<1>6. ASSUME NEW t \in Closers, CloseHal(t) PROVE PatientClose'
  BY <1>6 DEF CloseHal
<1>7. CASE DropLast
  BY <1>7 DEF DropLast, MayClose
<1>8. CASE DropStore
  BY <1>8 DEF DropStore
<1>9. CASE DropWake
  BY <1>9 DEF DropWake, WakeWorker
<1>10. CASE DropHal
  BY <1>10 DEF DropHal
<1>11. CASE Join
  BY <1>11 DEF Join, JoinReturns
<1>12. CASE CloseLate
  BY <1>12 DEF CloseLate
<1>13. CASE LoopCheck
  BY <1>13 DEF LoopCheck, WorkerGoes
<1>14. CASE WaitReturns
  BY <1>14 DEF WaitReturns, WorkerGoes
<1>15. CASE WaitInterrupted
  BY <1>15 DEF WaitInterrupted, WorkerGoes
<1>16. CASE TakeCommand
  BY <1>16 DEF TakeCommand, Consumed, WorkerGoes
<1>17. CASE Serve
  BY <1>17 DEF Serve, WorkerGoes
<1>18. CASE PostStatus
  BY <1>18 DEF PostStatus, WorkerGoes
<1>19. CASE WakeClient
  BY <1>19 DEF WakeClient, WorkerGoes
<1>20. ASSUME NEW c \in Commands, Ask(c) PROVE PatientClose'
  BY <1>20 DEF Ask, MayAsk, ClientGoes
<1>21. CASE Notify
  BY <1>21 DEF Notify, ClientGoes
<1>22. CASE ClientWakes
  BY <1>22 DEF ClientWakes, ClientGoes
<1>23. CASE ClientTakes
  BY <1>23 DEF ClientTakes, ClientGoes
<1>24. CASE UNCHANGED vars
  BY <1>24 DEF vars
<1>25. QED
  BY <1>1, <1>2, <1>3, <1>4, <1>5, <1>6, <1>7, <1>8, <1>9, <1>10, <1>11,
     <1>12, <1>13, <1>14, <1>15, <1>16, <1>17, <1>18, <1>19, <1>20, <1>21,
     <1>22, <1>23, <1>24
     DEF Next, Worker, Client, Destructor

\* The inductive invariant holds of every behaviour, whatever the version, the
\* commands, the closing threads and the client's manners.
THEOREM InvariantHolds == Spec => []StreamInv
<1>1. Init => StreamInv
  <2> SUFFICES ASSUME Init PROVE StreamInv
    OBVIOUS
  <2>1. TypeOK
    BY RetvalFacts DEF Init, TypeOK, QueueOfOne, WorkerSteps, ClientSteps, CloserSteps,
                       OwnerSteps
  <2>2. OneCommand
    BY DEF Init, OneCommand
  <2>3. ClosePath
    BY DEF Init, ClosePath
  <2>4. PatientClose
    BY DEF Init, PatientClose
  <2>5. QED
    BY <2>1, <2>2, <2>3, <2>4 DEF StreamInv
<1>2. StreamInv /\ [Next]_vars => StreamInv'
  BY TypeStep, OneCommandStep, ClosePathStep, PatientStep DEF StreamInv
<1>3. QED
  BY <1>1, <1>2, PTL DEF Spec

\* Type correctness of the stream, its worker, its client and its closers.
THEOREM TypeCorrect == Spec => []TypeOK
<1>1. StreamInv => TypeOK
  BY DEF StreamInv
<1>2. QED
  BY <1>1, InvariantHolds, PTL

\* The reply in the status queue is always the reply to the client's last command.
THEOREM RepliesMatch == Spec => []ReplyMatches
<1>1. StreamInv => ReplyMatches
  BY DEF StreamInv, OneCommand, ReplyMatches
<1>2. QED
  BY <1>1, InvariantHolds, PTL

\* The worker never uses a closed HAL stream: in the interfaces up to 5 because
\* the destructor joins the worker first, whatever the client does; from 6 on,
\* where close() itself closes the HAL stream, because a patient client does not
\* close with a command out.
THEOREM WorkerSafe ==
    ASSUME Patient \/ ~ClosesEarly
    PROVE  Spec => []NoUseAfterClose
<1>1. ASSUME StreamInv, worker = "serve" PROVE closes = 0
  <2>1. CASE ~ClosesEarly
    BY <1>1, <2>1 DEF StreamInv, ClosePath
  <2>2. CASE Patient
    BY <1>1, <2>2 DEF StreamInv, ClosePath, PatientClose, Closing, OneCommand
  <2>3. QED
    BY <2>1, <2>2
<1>2. StreamInv => NoUseAfterClose
  BY <1>1 DEF NoUseAfterClose
<1>3. QED
  BY <1>2, InvariantHolds, PTL

\* The invariant of the states before and after a step is all the step's mapping
\* to AudioCommandService needs.
LEMMA ServiceStep ==
    ASSUME Patient, StreamInv, StreamInv', [Next]_vars
    PROVE  [Service!Next]_(Service!vars)
<1> USE DEF workerVars, clientVars, queueVars, closeVars, Service!vars
<1>1. CASE Launch
  BY <1>1 DEF Launch
<1>2. CASE Publish
  BY <1>2 DEF Publish
<1>3. ASSUME NEW t \in Closers, CloseCheck(t) PROVE [Service!Next]_(Service!vars)
  BY <1>3 DEF CloseCheck, MayClose
<1>4. ASSUME NEW t \in Closers, CloseStore(t) PROVE [Service!Next]_(Service!vars)
  BY <1>4 DEF CloseStore
<1>5. ASSUME NEW t \in Closers, CloseWake(t) PROVE [Service!Next]_(Service!vars)
  BY <1>5 DEF CloseWake, WakeWorker
<1>6. ASSUME NEW t \in Closers, CloseHal(t) PROVE [Service!Next]_(Service!vars)
  BY <1>6
       DEF CloseHal, Service!Next, Service!Close, StreamInv, ClosePath, PatientClose,
           Closing, OneCommand, TypeOK
<1>7. CASE DropLast
  BY <1>7 DEF DropLast, MayClose
<1>8. CASE DropStore
  BY <1>8 DEF DropStore
<1>9. CASE DropWake
  BY <1>9 DEF DropWake, WakeWorker
<1>10. CASE DropHal
  BY <1>10
       DEF DropHal, Service!Next, Service!Close, StreamInv, ClosePath, PatientClose,
           Closing, OneCommand, TypeOK
<1>11. CASE Join
  BY <1>11 DEF Join, JoinReturns
<1>12. CASE CloseLate
  BY <1>12
       DEF CloseLate, Service!Next, Service!Close, StreamInv, ClosePath, PatientClose,
           Closing, OneCommand, TypeOK
<1>13. CASE LoopCheck
  BY <1>13 DEF LoopCheck, WorkerGoes
<1>14. CASE WaitReturns
  BY <1>14 DEF WaitReturns, WorkerGoes
<1>15. CASE WaitInterrupted
  BY <1>15 DEF WaitInterrupted, WorkerGoes
<1>16. CASE TakeCommand
  BY <1>16 DEF TakeCommand, Consumed, WorkerGoes
<1>17. CASE Serve
  BY <1>17 DEF Serve, WorkerGoes
<1>18. CASE PostStatus
  BY <1>18
       DEF PostStatus, WorkerGoes, Service!Next, Service!Serve, StreamInv, TypeOK,
           OneCommand, ClosePath, PatientClose, Closing
<1>19. CASE WakeClient
  BY <1>19 DEF WakeClient, WorkerGoes
<1>20. ASSUME NEW c \in Commands, Ask(c) PROVE [Service!Next]_(Service!vars)
  BY <1>20
       DEF Ask, MayAsk, ClientGoes, Service!Next, Service!Ask, StreamInv, TypeOK,
           OneCommand, ClosePath
<1>21. CASE Notify
  BY <1>21 DEF Notify, ClientGoes
<1>22. CASE ClientWakes
  BY <1>22 DEF ClientWakes, ClientGoes
<1>23. CASE ClientTakes
  BY <1>23 DEF ClientTakes, ClientGoes, Service!Next, Service!Answer
<1>24. CASE UNCHANGED vars
  BY <1>24 DEF vars
<1>25. QED
  BY <1>1, <1>2, <1>3, <1>4, <1>5, <1>6, <1>7, <1>8, <1>9, <1>10, <1>11,
     <1>12, <1>13, <1>14, <1>15, <1>16, <1>17, <1>18, <1>19, <1>20, <1>21,
     <1>22, <1>23, <1>24
     DEF Next, Worker, Client, Destructor

\* With a patient client every behaviour of the stream is a behaviour of
\* AudioCommandService: one reply per command, to that command, from a HAL stream
\* that is open, and no close in between.
THEOREM ImplementsService ==
    ASSUME Patient
    PROVE  Spec => ServiceSpec
<1>1. Init => Service!Init
  BY DEF Init, Service!Init
<1>2. StreamInv /\ StreamInv' /\ [Next]_vars => [Service!Next]_(Service!vars)
  BY ServiceStep
<1>3. QED
  BY <1>1, <1>2, InvariantHolds, PTL DEF Spec, ServiceSpec, Service!Spec

-----------------------------------------------------------------------------
(* Closing the HAL stream *)

CloserActs(t) == CloseCheck(t) \/ CloseStore(t) \/ CloseWake(t) \/ CloseHal(t)

\* Only close() and the destructor touch what they keep.
LEMMA CloseSteps ==
    ASSUME [Next]_vars
    PROVE  \/ UNCHANGED closeVars
           \/ \E t \in Closers : CloserActs(t)
           \/ DropLast \/ Destructor
<1>1. CASE Launch \/ Publish
  BY <1>1 DEF Launch, Publish
<1>2. CASE Worker \/ WaitInterrupted
  BY <1>2 DEF Worker, WaitInterrupted, LoopCheck, WaitReturns, TakeCommand, Serve,
     PostStatus, WakeClient, WorkerGoes
<1>3. CASE (\E c \in Commands : Ask(c)) \/ Client
  BY <1>3 DEF Ask, Client, Notify, ClientWakes, ClientTakes, ClientGoes
<1>4. CASE UNCHANGED vars
  BY <1>4 DEF vars, closeVars
<1> QED
  BY <1>1, <1>2, <1>3, <1>4 DEF Next, CloserActs

\* A stream that is marked as closed gets closed, by whoever marked it first.
LEMMA CloseHappensStep ==
    ASSUME TypeOK, ClosePath, CloseHappens, [Next]_vars
    PROVE  CloseHappens'
<1> USE DEF CloseHappens, Underway, TypeOK
<1>1. CASE UNCHANGED closeVars
  BY <1>1 DEF closeVars
<1>2. ASSUME NEW t \in Closers, CloseCheck(t) PROVE CloseHappens'
  BY <1>2 DEF CloseCheck
<1>3. ASSUME NEW t \in Closers, CloseStore(t) PROVE CloseHappens'
  BY <1>3 DEF CloseStore
<1>4. ASSUME NEW t \in Closers, CloseWake(t) PROVE CloseHappens'
  BY <1>4 DEF CloseWake
<1>5. ASSUME NEW t \in Closers, CloseHal(t) PROVE CloseHappens'
  BY <1>5 DEF CloseHal
<1>6. CASE DropLast
  BY <1>6 DEF DropLast
<1>7. CASE DropStore \/ DropWake
  BY <1>7 DEF DropStore, DropWake
<1>8. CASE DropHal \/ CloseLate
  BY <1>8 DEF DropHal, CloseLate
<1>9. CASE Join
  BY <1>9 DEF Join
<1> QED
  BY <1>1, <1>2, <1>3, <1>4, <1>5, <1>6, <1>7, <1>8, <1>9, CloseSteps
     DEF CloserActs, Destructor

\* Where close() closes the HAL stream, two threads in it at once would both
\* find the flag unset: at most one may be.
LEMMA CloseOnceStep ==
    ASSUME ~ ClosesEarly \/ \A t, u \in Closers : t = u,
           TypeOK, ClosePath, CloseHappens, CloseOnce, [Next]_vars
    PROVE  CloseOnce'
<1> USE DEF CloseOnce, CloseHappens, ClosePath, Underway, TypeOK
<1>1. CASE UNCHANGED closeVars
  BY <1>1 DEF closeVars
<1>2. ASSUME NEW t \in Closers, CloseCheck(t) PROVE CloseOnce'
  BY <1>2 DEF CloseCheck
<1>3. ASSUME NEW t \in Closers, CloseStore(t) PROVE CloseOnce'
  BY <1>3 DEF CloseStore
<1>4. ASSUME NEW t \in Closers, CloseWake(t) PROVE CloseOnce'
  BY <1>4 DEF CloseWake
<1>5. ASSUME NEW t \in Closers, CloseHal(t) PROVE CloseOnce'
  BY <1>5 DEF CloseHal
<1>6. CASE DropLast
  BY <1>6 DEF DropLast
<1>7. CASE DropStore \/ DropWake
  BY <1>7 DEF DropStore, DropWake
<1>8. CASE DropHal \/ CloseLate
  BY <1>8 DEF DropHal, CloseLate
<1>9. CASE Join
  BY <1>9 DEF Join
<1> QED
  BY <1>1, <1>2, <1>3, <1>4, <1>5, <1>6, <1>7, <1>8, <1>9, CloseSteps
     DEF CloserActs, Destructor

\* In every state the close of the HAL stream happened, is under way or still has an owner.
LEMMA CloseHolds == Spec => []CloseHappens
<1>1. Init => CloseHappens
  BY DEF Init, CloseHappens
<1>2. StreamInv /\ CloseHappens /\ [Next]_vars => CloseHappens'
  BY CloseHappensStep DEF StreamInv
<1> QED
  BY <1>1, <1>2, InvariantHolds, PTL DEF Spec

\* When the destructor is done the worker is out of its loop and the HAL stream
\* was closed exactly once: in the interfaces up to 5 for any number of close()
\* calls that race, from 6 on as long as no two of them do.
THEOREM ClosedOnce ==
    ASSUME ~ ClosesEarly \/ \A t, u \in Closers : t = u
    PROVE  Spec => []GoneIsClosed
<1>1. Init => CloseOnce
  BY DEF Init, CloseOnce, Underway
<1>2. StreamInv /\ CloseHappens /\ CloseOnce /\ [Next]_vars => CloseOnce'
  BY CloseOnceStep DEF StreamInv
<1>3. StreamInv /\ CloseHappens /\ CloseOnce => GoneIsClosed
  BY StreamAssumption
     DEF StreamInv, ClosePath, CloseHappens, CloseOnce, Underway, GoneIsClosed
<1> QED
  BY <1>1, <1>2, <1>3, InvariantHolds, CloseHolds, PTL DEF Spec

-----------------------------------------------------------------------------
(* The callbacks *)

\* Every step of the stream with its callbacks is a step of the stream, or one
\* that leaves the stream alone.
LEMMA CallbackStep ==
    ASSUME [CallbackNext]_allVars
    PROVE  [Next]_vars
<1>1. CASE \/ \E k \in Kinds : Raise(k) \/ \E c \in Pointers : SetCallback(k, c)
           \/ StoreCallback \/ ClearCallback \/ CallbackThread
  BY <1>1 DEF Raise, SetCallback, StoreCallback, ClearCallback, CallbackThread,
     LoadCallback, CallCallback
<1>2. ASSUME NEW t \in Closers, CloserStep(t)
      PROVE  CloseStore(t) \/ CloseWake(t) \/ CloseHal(t)
  BY <1>2 DEF CloserStep
<1>3. CASE DestructorStep
  BY <1>3 DEF DestructorStep, DropHalStep, JoinAndClear, Next, Destructor
<1>4. CASE UNCHANGED allVars
  BY <1>4 DEF allVars
<1> QED
  BY <1>1, <1>2, <1>3, <1>4 DEF CallbackNext, Next

\* So whatever is proved of the stream holds with its callbacks.
THEOREM CallbacksKeepStream == CallbackSpec => Spec
<1>1. CallbackInit => Init
  BY DEF CallbackInit
<1>2. [CallbackNext]_allVars => [Next]_vars
  BY CallbackStep
<1> QED
  BY <1>1, <1>2, PTL DEF CallbackSpec, Spec

\* Every step keeps the types of the callbacks: the thread calls no null one.
LEMMA CallbackTypeStep ==
    ASSUME CallbackTypeOK, [CallbackNext]_allVars
    PROVE  CallbackTypeOK'
<1> USE DEF CallbackTypeOK, Pointers
<1>1. ASSUME NEW k \in Kinds, Raise(k) PROVE CallbackTypeOK'
  BY <1>1 DEF Raise
<1>2. ASSUME NEW k \in Kinds, NEW c \in Pointers, SetCallback(k, c) PROVE CallbackTypeOK'
  BY <1>2 DEF SetCallback
<1>3. CASE StoreCallback
  BY <1>3 DEF StoreCallback
<1>4. CASE ClearCallback \/ JoinAndClear
  BY <1>4 DEF ClearCallback, JoinAndClear, AsyncCleared
<1>5. CASE LoadCallback
  BY <1>5 DEF LoadCallback
<1>6. CASE CallCallback
  BY <1>6 DEF CallCallback
<1>7. CASE Keep
  BY <1>7 DEF Keep, callbackVars
<1>8. CASE HalClose /\ UNCHANGED <<mCallback, setting, event, target>>
  BY <1>8 DEF HalClose
<1>9. CASE UNCHANGED allVars
  BY <1>9 DEF allVars, callbackVars
<1> QED
  BY <1>1, <1>2, <1>3, <1>4, <1>5, <1>6, <1>7, <1>8, <1>9
     DEF CallbackNext, CallbackThread, CloserStep, DestructorStep, DropHalStep

\* The HAL raises nothing through a stream it has closed: the pointer is gone,
\* and the framework sets no callback on a stream that is closing.
LEMMA CallbacksEndStep ==
    ASSUME StreamInv, CallbackTypeOK, CallbacksEnd, [CallbackNext]_allVars
    PROVE  CallbacksEnd'
<1> USE DEF CallbacksEnd
<1>1. ASSUME NEW k \in Kinds, Raise(k) PROVE CallbacksEnd'
  BY <1>1 DEF Raise, vars
<1>2. ASSUME NEW k \in Kinds, NEW c \in Pointers, SetCallback(k, c) PROVE CallbacksEnd'
  BY <1>2 DEF SetCallback, vars, Closing, StreamInv, ClosePath
<1>3. CASE StoreCallback \/ ClearCallback \/ CallbackThread
  BY <1>3 DEF StoreCallback, ClearCallback, CallbackThread, LoadCallback, CallCallback, vars
<1>4. ASSUME NEW t \in Closers, CloserStep(t) PROVE CallbacksEnd'
  BY <1>4 DEF CloserStep, CloseStore, CloseWake, CloseHal, HalClose, Keep, callbackVars
<1>5. CASE DestructorStep
  BY <1>5 DEF DestructorStep, DropHalStep, JoinAndClear, DropHal, CloseLate, DropStore,
     DropWake, Join, HalClose, Keep, callbackVars
<1>6. CASE Keep /\ UNCHANGED closes
  BY <1>6 DEF Keep, callbackVars
<1>7. CASE /\ Keep
           /\ \/ Launch \/ Publish \/ DropLast \/ Worker \/ WaitInterrupted \/ Client
              \/ (\E t \in Closers : CloseCheck(t)) \/ (\E c \in Commands : Ask(c))
  <2>1. UNCHANGED closes
    BY <1>7 DEF Launch, Publish, DropLast, Worker, LoopCheck, WaitReturns, TakeCommand,
       Serve, PostStatus, WakeClient, WaitInterrupted, WorkerGoes, Client, Notify,
       ClientWakes, ClientTakes, ClientGoes, CloseCheck, Ask, closeVars
  <2> QED
    BY <1>6, <1>7, <2>1
<1>8. CASE UNCHANGED allVars
  BY <1>8 DEF allVars, vars, callbackVars
<1> QED
  BY <1>1, <1>2, <1>3, <1>4, <1>5, <1>7, <1>8 DEF CallbackNext

\* The callback thread calls no null callback and is never inside a StreamOut
\* that is gone, whatever is set, cleared and raised while close() and the
\* destructor run, for every version of the interface and any number of closers.
THEOREM CallbacksSafe == CallbackSpec => []CallbackInv
<1>1. CallbackInit => CallbackIInv
  BY DEF CallbackInit, Init, CallbackIInv, CallbackTypeOK, CallbacksEnd, Pointers
<1>2. StreamInv /\ CallbackIInv /\ [CallbackNext]_allVars => CallbackIInv'
  BY CallbackTypeStep, CallbacksEndStep DEF CallbackIInv
<1>3. CallbackSpec => []StreamInv /\ []CallbackIInv
  BY <1>1, <1>2, CallbacksKeepStream, InvariantHolds, PTL DEF CallbackSpec
<1>4. CallbackSpec => []CloseHappens
  BY CallbacksKeepStream, CloseHolds, PTL
<1>5. StreamInv /\ CloseHappens /\ CallbackIInv => CallbackInv
  BY StreamAssumption
     DEF StreamInv, ClosePath, CloseHappens, Underway, CallbackIInv, CallbacksEnd,
         CallbackInv, JoinedBeforeGone
<1> QED
  BY <1>3, <1>4, <1>5, PTL

-----------------------------------------------------------------------------
(* The Device's count of open streams *)

\* The streams a close has taken from the client and not yet from the count.
Leaving == {at[t] : t \in {u \in Threads : pc[u] \in {"closed", "decrement"}}}

\* The streams an open got from the HAL and has not counted yet.
Arriving == {at[t] : t \in {u \in Threads : Opening(u)}}

\* The same of every thread but one.
OthersLeaving(t) == {at[u] : u \in {v \in Threads \ {t} : pc[v] \in {"closed", "decrement"}}}
OthersArriving(t) == {at[u] : u \in {v \in Threads \ {t} : Opening(v)}}

\* What a thread is about to decrement it found positive: zero is fatal.  What
\* it is about to count is a stream.
LoadedInv ==
    /\ ~fatal => \A t \in Threads : pc[t] = "decrement" => loaded[t] >= 1
    /\ \A t \in Threads : Opening(t) => at[t] \in Streams

\* The count is the number of streams that a client holds or is closing.
CountInv == mOpenedStreamsCount = Cardinality(streams \cup Leaving)

\* Between the load and the store of one thread no other has touched the count.
CountingInv ==
    \A t \in Threads : Counting(t) =>
       /\ loaded[t] = mOpenedStreamsCount
       /\ \A u \in Threads : Counting(u) => u = t

\* The HAL has the streams that a client holds or is opening, and a call works
\* on a stream that no client holds and no other call works on.
HalInv ==
    /\ hal = streams \cup Arriving
    /\ \A t \in Threads : pc[t] \in {"idle", "closing"} => at[t] = NoStream
    /\ \A t \in Threads : pc[t] \in {"opened", "increment", "closed", "decrement"} =>
          /\ at[t] \in Streams
          /\ at[t] \notin streams
          /\ \A u \in Threads \ {t} : at[u] # at[t]

\* A close that passed the test finds no stream and no other call, and a closed
\* device stays so.
ClosedInv ==
    /\ device = IF mIsClosed THEN 1 ELSE 0
    /\ \A t \in Threads : pc[t] = "closing" =>
          /\ streams = {} /\ ~mIsClosed
          /\ \A u \in Threads \ {t} : pc[u] = "idle"
    /\ mIsClosed => streams = {} /\ \A t \in Threads : pc[t] = "idle"
    /\ destroyed => mIsClosed /\ ~held

\* What holds until two calls meet where a lock is missing.
NoRaceInv == CountInv /\ CountingInv /\ HalInv /\ ClosedInv /\ NeverFatal

\* The inductive invariant.
DeviceIInv == DeviceTypeOK /\ LoadedInv /\ (~raced => NoRaceInv)

-----------------------------------------------------------------------------

\* A set of streams is finite, its size is a natural number, and it changes by
\* one with the stream that joins it.
LEMMA StreamsCounted ==
    ASSUME NEW S \in SUBSET Streams
    PROVE  /\ IsFiniteSet(S)
           /\ Cardinality(S) \in Nat
           /\ Cardinality(S) = 0 <=> S = {}
           /\ \A s \in Streams \ S : Cardinality(S \cup {s}) = Cardinality(S) + 1
<1>1. IsFiniteSet(S)
  BY DeviceAssumption, FS_Subset
<1>2. Cardinality(S) \in Nat
  BY <1>1, FS_CardinalityType
<1>3. Cardinality(S) = 0 <=> S = {}
  BY <1>1, FS_EmptySet
<1>4. \A s \in Streams \ S : Cardinality(S \cup {s}) = Cardinality(S) + 1
  BY <1>1, FS_AddElement
<1> QED BY <1>1, <1>2, <1>3, <1>4

\* A step of one thread changes what is leaving and arriving by that thread's
\* stream alone.
LEMMA OneMoves ==
    ASSUME DeviceTypeOK, NEW t \in Threads,
           NEW p \in Steps, pc' = [pc EXCEPT ![t] = p],
           NEW a \in Streams \cup {NoStream}, at' = [at EXCEPT ![t] = a]
    PROVE  /\ pc'[t] = p /\ at'[t] = a
           /\ \A u \in Threads \ {t} : pc'[u] = pc[u] /\ at'[u] = at[u]
           /\ (p \in {"closed", "decrement"}) => Leaving' = OthersLeaving(t) \cup {a}
           /\ ~(p \in {"closed", "decrement"}) => Leaving' = OthersLeaving(t)
           /\ (pc[t] \in {"closed", "decrement"}) => Leaving = OthersLeaving(t) \cup {at[t]}
           /\ ~(pc[t] \in {"closed", "decrement"}) => Leaving = OthersLeaving(t)
           /\ (p \in {"opened", "increment"}) => Arriving' = OthersArriving(t) \cup {a}
           /\ ~(p \in {"opened", "increment"}) => Arriving' = OthersArriving(t)
           /\ (pc[t] \in {"opened", "increment"}) => Arriving = OthersArriving(t) \cup {at[t]}
           /\ ~(pc[t] \in {"opened", "increment"}) => Arriving = OthersArriving(t)
<1>1. /\ pc'[t] = p /\ at'[t] = a
      /\ \A u \in Threads \ {t} : pc'[u] = pc[u] /\ at'[u] = at[u]
  BY DEF DeviceTypeOK
<1>2. /\ (p \in {"closed", "decrement"}) => Leaving' = OthersLeaving(t) \cup {a}
      /\ ~(p \in {"closed", "decrement"}) => Leaving' = OthersLeaving(t)
      /\ (pc[t] \in {"closed", "decrement"}) => Leaving = OthersLeaving(t) \cup {at[t]}
      /\ ~(pc[t] \in {"closed", "decrement"}) => Leaving = OthersLeaving(t)
  BY <1>1 DEF Leaving, OthersLeaving
<1>3. /\ (p \in {"opened", "increment"}) => Arriving' = OthersArriving(t) \cup {a}
      /\ ~(p \in {"opened", "increment"}) => Arriving' = OthersArriving(t)
      /\ (pc[t] \in {"opened", "increment"}) => Arriving = OthersArriving(t) \cup {at[t]}
      /\ ~(pc[t] \in {"opened", "increment"}) => Arriving = OthersArriving(t)
  BY <1>1 DEF Arriving, OthersArriving, Opening
<1> QED BY <1>1, <1>2, <1>3

\* A new Device has no stream and no call.
LEMMA DeviceStarts == DeviceInit => DeviceIInv
<1> SUFFICES ASSUME DeviceInit PROVE DeviceIInv
  OBVIOUS
<1>1. \A t \in Threads : pc[t] = "idle"
  BY DEF DeviceInit
<1>2. Leaving = {} /\ Arriving = {}
  BY <1>1 DEF Leaving, Arriving, Opening
<1>3. Cardinality({}) = 0
  BY FS_EmptySet
<1>4. DeviceTypeOK
  BY DEF DeviceInit, DeviceTypeOK, Steps
<1>5. CountInv
  BY <1>2, <1>3 DEF DeviceInit, CountInv
<1>6. LoadedInv /\ CountingInv /\ HalInv /\ ClosedInv /\ NeverFatal
  BY <1>1, <1>2 DEF DeviceInit, LoadedInv, Opening, CountingInv, Counting, HalInv, ClosedInv, NeverFatal
<1> QED BY <1>4, <1>5, <1>6 DEF DeviceIInv, NoRaceInv

-----------------------------------------------------------------------------
(* The steps of the calls, one lemma each *)

\* The HAL opens a stream: it is arriving, and not counted.
LEMMA OpenHalKeeps ==
    ASSUME DeviceIInv, NEW t \in Threads, NEW s \in Streams, OpenHal(t, s)
    PROVE  DeviceIInv'
<1>0. /\ pc[t] = "idle" /\ "opened" \in Steps
      /\ pc' = [pc EXCEPT ![t] = "opened"] /\ at' = [at EXCEPT ![t] = s]
  BY DEF OpenHal, Goes, Steps
<1>1. /\ pc'[t] = "opened" /\ at'[t] = s
      /\ \A u \in Threads \ {t} : pc'[u] = pc[u] /\ at'[u] = at[u]
      /\ Leaving' = Leaving
      /\ Arriving' = Arriving \cup {s}
  <2>1. s \in Streams \cup {NoStream} /\ DeviceTypeOK
    BY DEF DeviceIInv
  <2> QED BY <1>0, <2>1, OneMoves
<1> USE DEF DeviceIInv, OpenHal, Goes
<1>2. DeviceTypeOK' /\ LoadedInv'
  BY <1>0, <1>1 DEF DeviceTypeOK, LoadedInv, Opening, MeetsClosing
<1>3. ASSUME ~raced' PROVE NoRaceInv'
  <2>1. NoRaceInv /\ \A u \in Threads \ {t} : pc[u] # "closing"
    BY <1>3 DEF MeetsClosing
  <2>2. CountInv' /\ NeverFatal'
    BY <2>1, <1>1 DEF NoRaceInv, CountInv, NeverFatal
  <2>3. CountingInv'
    BY <2>1, <1>1 DEF NoRaceInv, CountingInv, Counting
  <2>4. HalInv'
    BY <2>1, <1>0, <1>1 DEF NoRaceInv, HalInv, DeviceTypeOK
  <2>5. ClosedInv'
    BY <2>1, <1>1 DEF NoRaceInv, ClosedInv, MayOpen
  <2> QED BY <2>2, <2>3, <2>4, <2>5 DEF NoRaceInv
<1> QED BY <1>2, <1>3

\* The HAL closes a stream: it is leaving, and still counted.
LEMMA CloseHalKeeps ==
    ASSUME DeviceIInv, NEW t \in Threads, NEW s \in Streams, CloseHalStream(t, s)
    PROVE  DeviceIInv'
<1>0. /\ pc[t] = "idle" /\ "closed" \in Steps /\ s \in streams
      /\ pc' = [pc EXCEPT ![t] = "closed"] /\ at' = [at EXCEPT ![t] = s]
  BY DEF CloseHalStream, Goes, Steps
<1>1. /\ pc'[t] = "closed" /\ at'[t] = s
      /\ \A u \in Threads \ {t} : pc'[u] = pc[u] /\ at'[u] = at[u]
      /\ Leaving' = Leaving \cup {s}
      /\ Arriving' = Arriving
  <2>1. s \in Streams \cup {NoStream} /\ DeviceTypeOK
    BY DEF DeviceIInv
  <2> QED BY <1>0, <2>1, OneMoves
<1> USE DEF DeviceIInv, CloseHalStream, Goes
<1>2. DeviceTypeOK' /\ LoadedInv'
  BY <1>0, <1>1 DEF DeviceTypeOK, LoadedInv, Opening
<1>3. ASSUME ~raced' PROVE NoRaceInv'
  <2>1. NoRaceInv
    BY <1>3
  <2>2. streams' \cup Leaving' = streams \cup Leaving
    BY <1>0, <1>1
  <2>3. CountInv' /\ NeverFatal'
    BY <2>1, <2>2 DEF NoRaceInv, CountInv, NeverFatal
  <2>4. CountingInv'
    BY <2>1, <1>1 DEF NoRaceInv, CountingInv, Counting
  <2>5. \A u \in Threads \ {t} :
           pc[u] \in {"opened", "increment", "closed", "decrement"} => at[u] # s
    BY <2>1, <1>0 DEF NoRaceInv, HalInv
  <2>6. \A u \in Threads \ {t} : at[u] # s
    <3>1. \A u \in Threads : pc[u] \in Steps
      BY DEF DeviceTypeOK
    <3> QED BY <2>1, <2>5, <3>1, DeviceAssumption DEF NoRaceInv, HalInv, Steps, DeviceTypeOK
  <2>7. s \notin Arriving
    BY <2>5, <1>0 DEF Arriving, Opening
  <2>8. HalInv'
    BY <2>1, <2>6, <2>7, <1>0, <1>1 DEF NoRaceInv, HalInv, DeviceTypeOK
  <2>9. ClosedInv'
    BY <2>1, <1>0, <1>1 DEF NoRaceInv, ClosedInv
  <2> QED BY <2>3, <2>4, <2>8, <2>9 DEF NoRaceInv
<1> QED BY <1>2, <1>3

\* The load of ++ changes neither what is counted nor what is open.
LEMMA LoadForOpenKeeps ==
    ASSUME DeviceIInv, NEW t \in Threads, LoadForOpen(t)
    PROVE  DeviceIInv'
<1>0. /\ pc[t] = "opened" /\ "increment" \in Steps
      /\ pc' = [pc EXCEPT ![t] = "increment"] /\ at' = [at EXCEPT ![t] = at[t]]
      /\ at[t] \in Streams \cup {NoStream} /\ DeviceTypeOK
  BY DEF LoadForOpen, Goes, Steps, DeviceIInv, DeviceTypeOK
<1>1. /\ pc'[t] = "increment" /\ at'[t] = at[t]
      /\ \A u \in Threads \ {t} : pc'[u] = pc[u] /\ at'[u] = at[u]
      /\ Leaving' = Leaving
      /\ Arriving' = Arriving
  <2>1. /\ Leaving = OthersLeaving(t) /\ Leaving' = OthersLeaving(t)
        /\ Arriving = OthersArriving(t) \cup {at[t]} /\ Arriving' = OthersArriving(t) \cup {at[t]}
    BY <1>0, OneMoves
  <2> QED BY <2>1, <1>0 DEF DeviceTypeOK
<1> USE DEF DeviceIInv, LoadForOpen, Goes
<1>2. DeviceTypeOK' /\ LoadedInv'
  BY <1>0, <1>1 DEF DeviceTypeOK, LoadedInv, Opening, MeetsCounting
<1>3. ASSUME ~raced' PROVE NoRaceInv'
  <2>1. NoRaceInv /\ \A u \in Threads \ {t} : ~Counting(u)
    BY <1>3 DEF MeetsCounting
  <2>2. CountInv' /\ NeverFatal'
    BY <2>1, <1>1 DEF NoRaceInv, CountInv, NeverFatal
  <2>3. CountingInv'
    BY <2>1, <1>1 DEF NoRaceInv, CountingInv, Counting, DeviceTypeOK
  <2>4. HalInv'
    BY <2>1, <1>0, <1>1 DEF NoRaceInv, HalInv, DeviceTypeOK
  <2>5. ClosedInv'
    BY <2>1, <1>0, <1>1 DEF NoRaceInv, ClosedInv
  <2> QED BY <2>2, <2>3, <2>4, <2>5 DEF NoRaceInv
<1> QED BY <1>2, <1>3

\* The store of ++ counts the stream, and the client holds it.
LEMMA StoreForOpenKeeps ==
    ASSUME DeviceIInv, NEW t \in Threads, StoreForOpen(t)
    PROVE  DeviceIInv'
<1>0. /\ pc[t] = "increment" /\ "idle" \in Steps
      /\ pc' = [pc EXCEPT ![t] = "idle"] /\ at' = [at EXCEPT ![t] = NoStream]
      /\ NoStream \in Streams \cup {NoStream} /\ DeviceTypeOK
  BY DEF StoreForOpen, Goes, Steps, DeviceIInv
<1>1. /\ pc'[t] = "idle" /\ at'[t] = NoStream
      /\ \A u \in Threads \ {t} : pc'[u] = pc[u] /\ at'[u] = at[u]
      /\ Leaving' = Leaving
      /\ Arriving = OthersArriving(t) \cup {at[t]} /\ Arriving' = OthersArriving(t)
  BY <1>0, OneMoves
<1> USE DEF DeviceIInv, StoreForOpen, Goes
<1>2. DeviceTypeOK' /\ LoadedInv'
  <2>1. at[t] \in Streams
    BY <1>0 DEF LoadedInv, Opening
  <2> QED BY <2>1, <1>0, <1>1 DEF DeviceTypeOK, LoadedInv, Opening
<1>3. ASSUME ~raced' PROVE NoRaceInv'
  <2>1. NoRaceInv
    BY <1>3
  <2>2. /\ at[t] \in Streams \ streams /\ streams' = streams \cup {at[t]}
        /\ \A u \in Threads \ {t} : at[u] # at[t]
        /\ mOpenedStreamsCount' = mOpenedStreamsCount + 1
        /\ \A u \in Threads \ {t} : ~Counting(u)
    BY <2>1, <1>0 DEF NoRaceInv, HalInv, CountingInv, Counting
  <2>3. CountInv'
    <3>1. at[t] \notin streams \cup Leaving
      BY <2>2, <1>0 DEF Leaving
    <3>2. streams \cup Leaving \in SUBSET Streams
      BY <2>1 DEF Leaving, NoRaceInv, HalInv, DeviceTypeOK
    <3>3. streams' \cup Leaving' = (streams \cup Leaving) \cup {at[t]}
      BY <2>2, <1>1
    <3> QED BY <3>1, <3>2, <3>3, <2>1, <2>2, StreamsCounted DEF NoRaceInv, CountInv
  <2>4. CountingInv' /\ NeverFatal'
    BY <2>1, <2>2, <1>1 DEF NoRaceInv, CountingInv, Counting, NeverFatal
  <2>5. HalInv'
    <3>1. hal' = streams' \cup Arriving'
      BY <2>1, <2>2, <1>1 DEF NoRaceInv, HalInv
    <3>2. \A u \in Threads : pc'[u] \in {"idle", "closing"} => at'[u] = NoStream
      BY <2>1, <1>0, <1>1 DEF NoRaceInv, HalInv
    <3>3. \A u \in Threads \ {t} : pc[u] \in {"opened", "increment", "closed", "decrement"} =>
             /\ at[u] \in Streams /\ at[u] \notin streams'
             /\ \A v \in Threads \ {u} : at'[v] # at[u]
      BY <2>1, <2>2, <1>1, DeviceAssumption DEF NoRaceInv, HalInv
    <3> QED BY <3>1, <3>2, <3>3, <1>1 DEF HalInv
  <2>6. ClosedInv'
    <3>1. ~mIsClosed /\ \A u \in Threads \ {t} : pc[u] # "closing"
      BY <2>1, <1>0 DEF NoRaceInv, ClosedInv
    <3>2. \A u \in Threads : pc'[u] # "closing"
      BY <3>1, <1>1
    <3> QED BY <3>1, <3>2, <2>1 DEF NoRaceInv, ClosedInv
  <2> QED BY <2>3, <2>4, <2>5, <2>6 DEF NoRaceInv
<1> QED BY <1>2, <1>3

\* The assertion and the load of --: without a race the stream that is leaving
\* is counted, so the assertion is silent.
LEMMA LoadForCloseKeeps ==
    ASSUME DeviceIInv, NEW t \in Threads, LoadForClose(t)
    PROVE  DeviceIInv'
<1>0. /\ pc[t] = "closed" /\ "decrement" \in Steps
      /\ pc' = [pc EXCEPT ![t] = "decrement"] /\ at' = [at EXCEPT ![t] = at[t]]
      /\ at[t] \in Streams \cup {NoStream} /\ DeviceTypeOK
  BY DEF LoadForClose, Goes, Steps, DeviceIInv, DeviceTypeOK
<1>1. /\ pc'[t] = "decrement" /\ at'[t] = at[t]
      /\ \A u \in Threads \ {t} : pc'[u] = pc[u] /\ at'[u] = at[u]
      /\ Leaving' = Leaving
      /\ Arriving' = Arriving
  <2>1. /\ Leaving = OthersLeaving(t) \cup {at[t]} /\ Leaving' = OthersLeaving(t) \cup {at[t]}
        /\ Arriving = OthersArriving(t) /\ Arriving' = OthersArriving(t)
    BY <1>0, OneMoves
  <2> QED BY <2>1, <1>0 DEF DeviceTypeOK
<1> USE DEF DeviceIInv, LoadForClose, Goes
<1>2. DeviceTypeOK'
  <2>1. fatal' \in BOOLEAN
    BY Zenon
  <2> QED BY <2>1, <1>0, <1>1 DEF DeviceTypeOK, MeetsCounting
<1>3. LoadedInv'
  <2>0. \A u \in Threads : Opening(u)' => at'[u] \in Streams
    BY <1>1 DEF LoadedInv, Opening
  <2> SUFFICES ASSUME ~fatal' PROVE \A u \in Threads : pc'[u] = "decrement" => loaded'[u] >= 1
    BY <2>0 DEF LoadedInv
  <2>1. mOpenedStreamsCount # 0 /\ ~fatal
    <3>1. ~(mOpenedStreamsCount = 0)
      BY Zenon
    <3> QED BY <3>1
  <2>2. loaded'[t] >= 1 /\ \A u \in Threads \ {t} : loaded'[u] = loaded[u]
    BY <2>1 DEF DeviceTypeOK
  <2> QED BY <2>1, <2>2, <1>1 DEF LoadedInv
<1>4. ASSUME ~raced' PROVE NoRaceInv'
  <2>1. NoRaceInv /\ \A u \in Threads \ {t} : ~Counting(u)
    BY <1>4 DEF MeetsCounting
  <2>2. CountInv'
    BY <2>1, <1>1 DEF NoRaceInv, CountInv
  <2>3. NeverFatal'
    <3>1. at[t] \in Leaving
      BY <1>0 DEF Leaving
    <3>2. streams \cup Leaving \in SUBSET Streams
      BY <2>1 DEF Leaving, NoRaceInv, HalInv, DeviceTypeOK
    <3>3. mOpenedStreamsCount # 0
      BY <3>1, <3>2, <2>1, StreamsCounted DEF NoRaceInv, CountInv
    <3> QED BY <3>3, Zenon DEF NeverFatal
  <2>4. CountingInv'
    BY <2>1, <1>1 DEF NoRaceInv, CountingInv, Counting, DeviceTypeOK
  <2>5. HalInv'
    BY <2>1, <1>0, <1>1 DEF NoRaceInv, HalInv, DeviceTypeOK
  <2>6. ClosedInv'
    BY <2>1, <1>0, <1>1 DEF NoRaceInv, ClosedInv
  <2> QED BY <2>2, <2>3, <2>4, <2>5, <2>6 DEF NoRaceInv
<1> QED BY <1>2, <1>3, <1>4

\* The store of -- takes the stream that is leaving from the count.
LEMMA StoreForCloseKeeps ==
    ASSUME DeviceIInv, NEW t \in Threads, StoreForClose(t)
    PROVE  DeviceIInv'
<1>0. /\ pc[t] = "decrement" /\ "idle" \in Steps
      /\ pc' = [pc EXCEPT ![t] = "idle"] /\ at' = [at EXCEPT ![t] = NoStream]
      /\ NoStream \in Streams \cup {NoStream} /\ DeviceTypeOK
  BY DEF StoreForClose, Goes, Steps, DeviceIInv
<1>1. /\ pc'[t] = "idle" /\ at'[t] = NoStream
      /\ \A u \in Threads \ {t} : pc'[u] = pc[u] /\ at'[u] = at[u]
      /\ Leaving = OthersLeaving(t) \cup {at[t]} /\ Leaving' = OthersLeaving(t)
      /\ Arriving' = Arriving
  BY <1>0, OneMoves
<1> USE DEF DeviceIInv, StoreForClose, Goes, Decremented
<1>2. DeviceTypeOK' /\ LoadedInv'
  <2>1. loaded[t] \in Nat /\ loaded[t] >= 1
    BY <1>0 DEF DeviceTypeOK, LoadedInv, Opening
  <2>2. DeviceTypeOK'
    BY <2>1, <1>0, <1>1 DEF DeviceTypeOK
  <2>3. LoadedInv'
    BY <1>1 DEF LoadedInv, Opening
  <2> QED BY <2>2, <2>3
<1>3. ASSUME ~raced' PROVE NoRaceInv'
  <2>1. NoRaceInv
    BY <1>3
  <2>2. /\ at[t] \in Streams \ streams
        /\ \A u \in Threads \ {t} : at[u] # at[t]
        /\ mOpenedStreamsCount' = mOpenedStreamsCount - 1
        /\ \A u \in Threads \ {t} : ~Counting(u)
    BY <2>1, <1>0 DEF NoRaceInv, HalInv, CountingInv, Counting
  <2>3. CountInv'
    <3>1. at[t] \notin streams \cup OthersLeaving(t)
      BY <2>2 DEF OthersLeaving
    <3>2. streams \cup OthersLeaving(t) \in SUBSET Streams
      BY <2>1 DEF OthersLeaving, NoRaceInv, HalInv, DeviceTypeOK
    <3>3. streams \cup Leaving = (streams \cup OthersLeaving(t)) \cup {at[t]}
      BY <1>1
    <3>4. Cardinality(streams \cup Leaving) = Cardinality(streams \cup OthersLeaving(t)) + 1
      BY <3>1, <3>2, <3>3, <2>2, StreamsCounted
    <3>5. Cardinality(streams \cup OthersLeaving(t)) \in Nat
      BY <3>2, StreamsCounted
    <3> QED BY <3>4, <3>5, <2>1, <2>2, <1>1 DEF NoRaceInv, CountInv
  <2>4. CountingInv' /\ NeverFatal'
    BY <2>1, <2>2, <1>1 DEF NoRaceInv, CountingInv, Counting, NeverFatal
  <2>5. HalInv'
    <3>1. hal' = streams' \cup Arriving'
      BY <2>1, <1>1 DEF NoRaceInv, HalInv
    <3>2. \A u \in Threads : pc'[u] \in {"idle", "closing"} => at'[u] = NoStream
      BY <2>1, <1>0, <1>1 DEF NoRaceInv, HalInv
    <3>3. \A u \in Threads \ {t} : pc[u] \in {"opened", "increment", "closed", "decrement"} =>
             /\ at[u] \in Streams /\ at[u] \notin streams'
             /\ \A v \in Threads \ {u} : at'[v] # at[u]
      BY <2>1, <2>2, <1>1, DeviceAssumption DEF NoRaceInv, HalInv
    <3> QED BY <3>1, <3>2, <3>3, <1>1 DEF HalInv
  <2>6. ClosedInv'
    <3>1. ~mIsClosed /\ \A u \in Threads \ {t} : pc[u] # "closing"
      BY <2>1, <1>0 DEF NoRaceInv, ClosedInv
    <3>2. \A u \in Threads : pc'[u] # "closing"
      BY <3>1, <1>1
    <3> QED BY <3>1, <3>2, <2>1 DEF NoRaceInv, ClosedInv
  <2> QED BY <2>3, <2>4, <2>5, <2>6 DEF NoRaceInv
<1> QED BY <1>2, <1>3

\* The test of close() passes: no stream is held, leaving or arriving, and no
\* other call is under way.
LEMMA CloseDeviceCheckKeeps ==
    ASSUME DeviceIInv, NEW t \in Threads, CloseDeviceCheck(t)
    PROVE  DeviceIInv'
<1>0. /\ pc[t] = "idle" /\ "closing" \in Steps
      /\ pc' = [pc EXCEPT ![t] = "closing"] /\ at' = [at EXCEPT ![t] = at[t]]
      /\ at[t] \in Streams \cup {NoStream} /\ DeviceTypeOK
  BY DEF CloseDeviceCheck, Goes, Steps, DeviceIInv, DeviceTypeOK
<1>1. /\ pc'[t] = "closing" /\ at'[t] = at[t]
      /\ \A u \in Threads \ {t} : pc'[u] = pc[u] /\ at'[u] = at[u]
      /\ Leaving' = Leaving
      /\ Arriving' = Arriving
  BY <1>0, OneMoves
<1> USE DEF DeviceIInv, CloseDeviceCheck, Goes, MayCloseDevice
<1>2. DeviceTypeOK' /\ LoadedInv'
  BY <1>0, <1>1 DEF DeviceTypeOK, LoadedInv, Opening, MeetsOpening, MeetsClosing
<1>3. ASSUME ~raced' PROVE NoRaceInv'
  <2>1. NoRaceInv /\ \A u \in Threads \ {t} : ~Opening(u) /\ pc[u] # "closing"
    BY <1>3 DEF MeetsOpening, MeetsClosing
  <2>2. CountInv' /\ NeverFatal'
    BY <2>1, <1>1 DEF NoRaceInv, CountInv, NeverFatal
  <2>3. CountingInv'
    BY <2>1, <1>1 DEF NoRaceInv, CountingInv, Counting
  <2>4. HalInv'
    BY <2>1, <1>0, <1>1 DEF NoRaceInv, HalInv, DeviceTypeOK
  <2>5. streams = {} /\ Leaving = {}
    <3>1. streams \cup Leaving \in SUBSET Streams
      BY <2>1 DEF Leaving, NoRaceInv, HalInv, DeviceTypeOK
    <3> QED BY <3>1, <2>1, StreamsCounted DEF NoRaceInv, CountInv
  <2>6. \A u \in Threads \ {t} : pc[u] = "idle"
    <3>1. \A u \in Threads : pc[u] \in Steps /\ pc[u] \notin {"closed", "decrement"}
      BY <2>5 DEF Leaving, DeviceTypeOK
    <3> QED BY <3>1, <2>1 DEF Steps, Opening
  <2>7. ClosedInv'
    BY <2>1, <2>5, <2>6, <1>1 DEF NoRaceInv, ClosedInv
  <2> QED BY <2>2, <2>3, <2>4, <2>7 DEF NoRaceInv
<1> QED BY <1>2, <1>3

\* close() marks the device and closes it in the HAL.
LEMMA CloseDeviceKeeps ==
    ASSUME DeviceIInv, NEW t \in Threads, CloseDevice(t)
    PROVE  DeviceIInv'
<1>0. /\ pc[t] = "closing" /\ "idle" \in Steps
      /\ pc' = [pc EXCEPT ![t] = "idle"] /\ at' = [at EXCEPT ![t] = at[t]]
      /\ at[t] \in Streams \cup {NoStream} /\ DeviceTypeOK
  BY DEF CloseDevice, Goes, Steps, DeviceIInv, DeviceTypeOK
<1>1. /\ pc'[t] = "idle" /\ at'[t] = at[t]
      /\ \A u \in Threads \ {t} : pc'[u] = pc[u] /\ at'[u] = at[u]
      /\ Leaving' = Leaving
      /\ Arriving' = Arriving
  BY <1>0, OneMoves
<1> USE DEF DeviceIInv, CloseDevice, Goes
<1>2. DeviceTypeOK' /\ LoadedInv'
  BY <1>0, <1>1 DEF DeviceTypeOK, LoadedInv, Opening
<1>3. ASSUME ~raced' PROVE NoRaceInv'
  <2>1. NoRaceInv
    BY <1>3
  <2>2. CountInv' /\ NeverFatal'
    BY <2>1, <1>1 DEF NoRaceInv, CountInv, NeverFatal
  <2>3. CountingInv'
    BY <2>1, <1>1 DEF NoRaceInv, CountingInv, Counting
  <2>4. HalInv'
    BY <2>1, <1>0, <1>1 DEF NoRaceInv, HalInv, DeviceTypeOK
  <2>5. ClosedInv'
    BY <2>1, <1>0, <1>1 DEF NoRaceInv, ClosedInv
  <2> QED BY <2>2, <2>3, <2>4, <2>5 DEF NoRaceInv
<1> QED BY <1>2, <1>3

-----------------------------------------------------------------------------

\* ~Device finds no stream and no call, so the count is zero: it closes the HAL
\* device unless close() did.
LEMMA DestroyKeeps ==
    ASSUME DeviceIInv, Destroy
    PROVE  DeviceIInv'
<1> USE DEF DeviceIInv, Destroy, threadVars
<1>1. Leaving = {} /\ Leaving' = Leaving /\ Arriving' = Arriving
  BY DEF Leaving, Arriving, Opening
<1>2. DeviceTypeOK'
  <2>1. CASE MayCloseDevice
    BY <2>1 DEF DeviceTypeOK
  <2>2. CASE ~MayCloseDevice
    BY <2>2 DEF DeviceTypeOK
  <2> QED BY <2>1, <2>2
<1>3. LoadedInv'
  BY DEF LoadedInv, Opening
<1>4. ASSUME ~raced' PROVE NoRaceInv'
  <2>1. NoRaceInv
    BY <1>4
  <2>2. mOpenedStreamsCount = 0
    BY <1>1, <2>1, StreamsCounted DEF NoRaceInv, CountInv, DeviceTypeOK
  <2>3. CountInv' /\ HalInv' /\ CountingInv'
    BY <1>1, <2>1 DEF NoRaceInv, CountInv, HalInv, CountingInv, Counting
  <2>4. mIsClosed' /\ device' = 1
    <3>1. CASE mIsClosed
      BY <3>1, <2>1 DEF MayCloseDevice, NoRaceInv, ClosedInv
    <3>2. CASE ~mIsClosed
      <4>1. MayCloseDevice /\ device = 0
        BY <2>1, <2>2, <3>2 DEF MayCloseDevice, NoRaceInv, ClosedInv
      <4> QED BY <4>1
    <3> QED BY <3>1, <3>2
  <2>5. ClosedInv' /\ NeverFatal'
    BY <2>1, <2>4 DEF NoRaceInv, ClosedInv, NeverFatal
  <2> QED BY <2>3, <2>5 DEF NoRaceInv
<1> QED BY <1>2, <1>3, <1>4

\* Every step keeps the invariant.
LEMMA DeviceStep ==
    ASSUME DeviceIInv, [DeviceNext]_deviceVars
    PROVE  DeviceIInv'
<1>1. ASSUME NEW t \in Threads, NEW s \in Streams, OpenHal(t, s) \/ CloseHalStream(t, s)
      PROVE  DeviceIInv'
  BY <1>1, OpenHalKeeps, CloseHalKeeps
<1>2. ASSUME NEW t \in Threads,
             \/ LoadForOpen(t) \/ StoreForOpen(t)
             \/ LoadForClose(t) \/ StoreForClose(t)
             \/ CloseDeviceCheck(t) \/ CloseDevice(t)
      PROVE  DeviceIInv'
  BY <1>2, LoadForOpenKeeps, StoreForOpenKeeps, LoadForCloseKeeps, StoreForCloseKeeps,
     CloseDeviceCheckKeeps, CloseDeviceKeeps
<1>3. CASE Release \/ UNCHANGED deviceVars
  <2>1. /\ UNCHANGED <<mOpenedStreamsCount, mIsClosed, device, hal, streams, destroyed, pc, at,
                       loaded, fatal, raced>>
        /\ (held' = held) \/ (held' = FALSE)
    BY <1>3 DEF Release, threadVars, deviceVars
  <2>2. Leaving' = Leaving /\ Arriving' = Arriving
    BY <2>1 DEF Leaving, Arriving, Opening
  <2>3. held' \in BOOLEAN /\ (~held => ~held')
    <3>1. held \in BOOLEAN
      BY DEF DeviceIInv, DeviceTypeOK
    <3>2. CASE held' = held
      BY <3>1, <3>2
    <3>3. CASE held' = FALSE
      BY <3>3, Zenon
    <3> QED BY <2>1, <3>2, <3>3
  <2>4. DeviceTypeOK' /\ LoadedInv'
    BY <2>1, <2>3 DEF DeviceIInv, DeviceTypeOK, LoadedInv, Opening
  <2>5. ASSUME ~raced PROVE NoRaceInv'
    BY <2>1, <2>2, <2>3, <2>5
       DEF DeviceIInv, NoRaceInv, CountInv, CountingInv, Counting, HalInv, ClosedInv, NeverFatal
  <2> QED BY <2>1, <2>4, <2>5 DEF DeviceIInv
<1>4. CASE Destroy
  BY <1>4, DestroyKeeps
<1> QED BY <1>1, <1>2, <1>3, <1>4 DEF DeviceNext

\* The invariant says what the run checks: a device that is closed has no stream,
\* held or arriving, and a destroyed one was closed once.
LEMMA DeviceImplied == DeviceIInv => DeviceInv
<1> SUFFICES ASSUME DeviceIInv, ~raced
             PROVE  DeviceAfterStreams /\ DestroyedIsClosed /\ NeverFatal
  BY DEF DeviceIInv, DeviceInv
<1>1. mIsClosed => Arriving = {}
  BY DEF DeviceIInv, NoRaceInv, ClosedInv, Arriving, Opening
<1> QED BY <1>1 DEF DeviceIInv, NoRaceInv, HalInv, ClosedInv, DeviceAfterStreams, DestroyedIsClosed

\* For any finite set of streams and any set of binder threads whose calls
\* overlap as they like: until two of them meet inside ++ or -- of the count, or
\* a close meets an open between its test and its effect, the count is exact,
\* the assertions of closeOutputStream and closeInputStream are silent, and the
\* device of the HAL is closed exactly once, after the last of its streams, by
\* close() or by the destructor.
THEOREM DeviceClosedLast == DeviceSpec => []DeviceInv
<1>1. DeviceIInv /\ [DeviceNext]_deviceVars => DeviceIInv'
  BY DeviceStep
<1> QED BY <1>1, DeviceStarts, DeviceImplied, PTL DEF DeviceSpec

=============================================================================
