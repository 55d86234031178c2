---------------------------- MODULE AudioStream ----------------------------
(***************************************************************************)
(* One StreamOut or StreamIn of the audio HAL: the worker thread that      *)
(* prepareForWriting / prepareForReading launches, the client that talks   *)
(* to it through the command and status queues and the event flag, the     *)
(* binder threads that call close() and the thread that runs the           *)
(* destructor.  The two classes are the same machine: WriteThread waits    *)
(* for NOT_EMPTY and answers with NOT_FULL, ReadThread the other way       *)
(* round; the model calls the two bits "work" and "reply".                 *)
(***************************************************************************)
EXTENDS Naturals, Sequences, FiniteSets

CONSTANTS
    Commands,    \* what a client may put in the command queue
    Unknown,     \* the command codes the worker does not know
    Closers,     \* binder threads that may be in close() at the same time
    ClosesEarly, \* TRUE: MAJOR_VERSION >= 6, close() closes the HAL stream
    Patient,     \* TRUE: the client closes and asks in turn, never both at once
    Overlap      \* TRUE: close() may run while a prepare call is in progress

ASSUME StreamAssumption ==
    /\ Commands # {}
    /\ Unknown \subseteq Commands
    /\ ClosesEarly \in BOOLEAN
    /\ Patient \in BOOLEAN
    /\ Overlap \in BOOLEAN

VARIABLES
    stop,      \* mStopWriteThread / mStopReadThread
    command,   \* mCommandMQ, a queue of one
    status,    \* mStatusMQ, a queue of one
    bits,      \* the event flag word
    prep,      \* where the prepare call is; "done": mEfGroup is set
    worker,    \* where the worker thread is, "none": not launched
    current,   \* mStatus.replyTo: the command being served
    retval,    \* mStatus.retval
    client,    \* where the client is in sending a command
    asked,     \* the command it sent last
    closer,    \* closer[t]: where binder thread t is in close()
    owner,     \* the object: referenced, in its destructor, gone
    closes     \* how often the legacy HAL stream was closed

workerVars == <<prep, worker, current, retval>>
clientVars == <<client, asked>>
queueVars  == <<command, status, bits>>
closeVars  == <<stop, closer, owner, closes>>
vars == <<stop, command, status, bits, prep, worker, current, retval, client, asked,
          closer, owner, closes>>

WorkerSteps == {"none", "loop", "wait", "take", "serve", "post", "wake", "exited"}
ClientSteps == {"idle", "notify", "wait", "take"}
CloserSteps == {"idle", "store", "wake", "hal"}
OwnerSteps  == {"held", "store", "wake", "hal", "join", "late", "gone"}

\* What analyzeStatus makes of the legacy HAL's error codes.
Results == {"OK", "INVALID_ARGUMENTS", "INVALID_STATE", "NOT_INITIALIZED", "NOT_SUPPORTED"}

\* The contents of a message queue that holds one element.
QueueOfOne(S) == {<<>>} \cup {<<x>> : x \in S}

\* What a command may end with: an unknown code is refused, asking for the
\* latency cannot fail, any other ends with what the legacy HAL returned.
Retvals(c) ==
    IF c \in Unknown THEN {"NOT_SUPPORTED"}
    ELSE IF c = "GET_LATENCY" THEN {"OK"} ELSE Results

TypeOK ==
    /\ stop \in BOOLEAN
    /\ command \in QueueOfOne(Commands)
    /\ status \in QueueOfOne([replyTo : Commands, retval : Results])
    /\ bits \subseteq {"work", "reply"}
    /\ prep \in {"none", "launched", "done"}
    /\ worker \in WorkerSteps
    /\ current \in Commands
    /\ retval \in Results
    /\ client \in ClientSteps
    /\ asked \in Commands
    /\ closer \in [Closers -> CloserSteps]
    /\ owner \in OwnerSteps
    /\ closes \in Nat

Init ==
    /\ stop = FALSE
    /\ command = <<>> /\ status = <<>> /\ bits = {}
    /\ prep = "none" /\ worker = "none"
    /\ current \in Commands /\ retval \in Retvals(current)
    /\ client = "idle" /\ asked \in Commands
    /\ closer = [t \in Closers |-> "idle"]
    /\ owner = "held"
    /\ closes = 0

-----------------------------------------------------------------------------
(* The binder calls.                                                       *)

\* prepareForWriting / prepareForReading up to thread->run(): a second call is
\* refused; a call that fails on its arguments, the queues or the thread leaves
\* nothing behind.
Launch ==
    /\ owner = "held" /\ prep = "none"
    /\ Overlap \/ \A t \in Closers : closer[t] = "idle"
    /\ prep' = "launched"
    /\ worker' = "loop"
    /\ UNCHANGED <<current, retval, clientVars, queueVars, closeVars>>

\* The rest of the call: the queues and the event flag become members of the
\* stream and their descriptors go to the client.  The worker already runs.
Publish ==
    /\ prep = "launched"
    /\ prep' = "done"
    /\ UNCHANGED <<worker, current, retval, clientVars, queueVars, closeVars>>

\* A client that asks and closes in turn does not close with a command out.
MayClose ==
    /\ Patient => client = "idle"
    /\ Overlap \/ prep # "launched"

\* close(), first the test of the flag: INVALID_STATE when it is already set.
CloseCheck(t) ==
    /\ owner = "held" /\ closer[t] = "idle" /\ MayClose
    /\ ~stop
    /\ closer' = [closer EXCEPT ![t] = "store"]
    /\ UNCHANGED <<stop, owner, closes, workerVars, clientVars, queueVars>>

\* close(), then the store with release order.
CloseStore(t) ==
    /\ closer[t] = "store"
    /\ stop' = TRUE
    /\ closer' = [closer EXCEPT ![t] = "wake"]
    /\ UNCHANGED <<owner, closes, workerVars, clientVars, queueVars>>

\* The wake-up as a close() that leaves it out would do it.
WakeNobody == bits' = bits

\* The wake-up of close(): the worker may be asleep on the event flag.
WakeWorker == bits' = IF prep = "done" THEN bits \cup {"work"} ELSE bits

CloseWake(t) ==
    /\ closer[t] = "wake"
    /\ WakeWorker
    /\ closer' = [closer EXCEPT ![t] = IF ClosesEarly THEN "hal" ELSE "idle"]
    /\ UNCHANGED <<stop, owner, closes, command, status, workerVars, clientVars>>

\* MAJOR_VERSION >= 6: mDevice->closeOutputStream(mStream) in close().
CloseHal(t) ==
    /\ closer[t] = "hal"
    /\ closes' = closes + 1
    /\ closer' = [closer EXCEPT ![t] = "idle"]
    /\ UNCHANGED <<stop, owner, workerVars, clientVars, queueVars>>

-----------------------------------------------------------------------------
(* The destructor, run by whichever thread drops the last reference; no    *)
(* binder call is in progress then.                                        *)

\* ~StreamOut: the close() it calls tests the flag.
DropLast ==
    /\ owner = "held" /\ MayClose /\ prep # "launched"
    /\ \A t \in Closers : closer[t] = "idle"
    /\ owner' = IF stop THEN "join" ELSE "store"
    /\ UNCHANGED <<stop, closer, closes, workerVars, clientVars, queueVars>>

DropStore ==
    /\ owner = "store"
    /\ stop' = TRUE
    /\ owner' = "wake"
    /\ UNCHANGED <<closer, closes, workerVars, clientVars, queueVars>>

DropWake ==
    /\ owner = "wake"
    /\ WakeWorker
    /\ owner' = IF ClosesEarly THEN "hal" ELSE "join"
    /\ UNCHANGED <<stop, closer, closes, command, status, workerVars, clientVars>>

DropHal ==
    /\ owner = "hal"
    /\ closes' = closes + 1
    /\ owner' = "join"
    /\ UNCHANGED <<stop, closer, workerVars, clientVars, queueVars>>

\* A destructor that does not wait for the worker.
JoinAtOnce == TRUE

\* mWriteThread->join(), then the event flag is deleted.
JoinReturns == worker \in {"none", "exited"}

Join ==
    /\ owner = "join"
    /\ JoinReturns
    /\ owner' = IF ClosesEarly THEN "gone" ELSE "late"
    /\ UNCHANGED <<stop, closer, closes, workerVars, clientVars, queueVars>>

\* MAJOR_VERSION <= 5: the HAL stream is closed at the very end.
CloseLate ==
    /\ owner = "late"
    /\ closes' = closes + 1
    /\ owner' = "gone"
    /\ UNCHANGED <<stop, closer, workerVars, clientVars, queueVars>>

-----------------------------------------------------------------------------
(* The worker: WriteThread::threadLoop, ReadThread::threadLoop.            *)

WorkerGoes(to) == worker' = to /\ UNCHANGED <<prep, clientVars, closeVars>>

\* The loop condition reads the flag with acquire order.
LoopCheck ==
    /\ worker = "loop"
    /\ WorkerGoes(IF stop THEN "exited" ELSE "wait")
    /\ UNCHANGED <<current, retval, queueVars>>

\* mEfGroup->wait: takes the bit it finds set.
WaitReturns ==
    /\ worker = "wait" /\ "work" \in bits
    /\ bits' = bits \ {"work"}
    /\ WorkerGoes("take")
    /\ UNCHANGED <<current, retval, command, status>>

\* mEfGroup->wait that returns with nothing: "continue;  // Nothing to do."
WaitInterrupted ==
    /\ worker = "wait" /\ "work" \notin bits
    /\ WorkerGoes("loop")
    /\ UNCHANGED <<current, retval, queueVars>>

\* The command as a worker that only looked at the queue would leave it.
ConsumedNot == command

\* mCommandMQ->read consumes the command.
Consumed == <<>>

\* An empty queue is "Nothing to do"; the switch calls into the HAL stream for
\* the codes it knows.
TakeCommand ==
    /\ worker = "take"
    /\ \/ /\ command = <<>>
          /\ WorkerGoes("loop")
          /\ UNCHANGED <<current, retval, command>>
       \/ /\ command # <<>>
          /\ current' = command[1]
          /\ command' = Consumed
          /\ WorkerGoes("serve")
          /\ UNCHANGED retval
    /\ UNCHANGED <<status, bits>>

\* doWrite, doGetPresentationPosition, doGetLatency, doRead,
\* doGetCapturePosition return, or the code was unknown.
Serve ==
    /\ worker = "serve"
    /\ retval' \in Retvals(current)
    /\ WorkerGoes("post")
    /\ UNCHANGED <<current, queueVars>>

\* mStatusMQ->write; a full queue is only logged and the status is lost.
PostStatus ==
    /\ worker = "post"
    /\ status' = IF status = <<>>
                   THEN <<[replyTo |-> current, retval |-> retval]>>
                   ELSE status
    /\ WorkerGoes("wake")
    /\ UNCHANGED <<current, retval, command, bits>>

\* A worker that posts its status without a wake-up.
WakeClientNot ==
    /\ worker = "wake"
    /\ WorkerGoes("loop")
    /\ UNCHANGED <<current, retval, queueVars>>

\* mEfGroup->wake with the bit the client waits for.
WakeClient ==
    /\ worker = "wake"
    /\ bits' = bits \cup {"reply"}
    /\ WorkerGoes("loop")
    /\ UNCHANGED <<current, retval, command, status>>

Worker == \/ LoopCheck \/ WaitReturns \/ TakeCommand \/ Serve \/ PostStatus
          \/ WakeClient

-----------------------------------------------------------------------------
(* The client, the framework's side of the queues: external to this code.  *)

ClientGoes(to) == client' = to /\ UNCHANGED <<workerVars, closeVars>>

\* A patient client starts no command once a close has begun.
MayAsk == Patient => ~stop /\ owner = "held" /\ \A t \in Closers : closer[t] = "idle"

Ask(c) ==
    /\ prep = "done" /\ client = "idle" /\ MayAsk
    /\ owner # "gone" /\ command = <<>>
    /\ asked' = c
    /\ command' = <<c>>
    /\ ClientGoes("notify")
    /\ UNCHANGED <<status, bits>>

Notify ==
    /\ client = "notify"
    /\ bits' = bits \cup {"work"}
    /\ ClientGoes("wait")
    /\ UNCHANGED <<asked, command, status>>

ClientWakes ==
    /\ client = "wait" /\ "reply" \in bits
    /\ bits' = bits \ {"reply"}
    /\ ClientGoes("take")
    /\ UNCHANGED <<asked, command, status>>

ClientTakes ==
    /\ client = "take"
    /\ status' = <<>>
    /\ ClientGoes(IF status = <<>> THEN "wait" ELSE "idle")
    /\ UNCHANGED <<asked, command, bits>>

Client == Notify \/ ClientWakes \/ ClientTakes

Destructor == DropStore \/ DropWake \/ DropHal \/ Join \/ CloseLate

Next ==
    \/ Launch \/ Publish
    \/ \E t \in Closers : CloseCheck(t) \/ CloseStore(t) \/ CloseWake(t) \/ CloseHal(t)
    \/ DropLast \/ Destructor
    \/ Worker \/ WaitInterrupted
    \/ (\E c \in Commands : Ask(c)) \/ Client

Spec == Init /\ [][Next]_vars

\* The worker, the destructor and the client's own steps are threads that keep
\* running; HAL calls return.  Nothing makes a client ask or close, and the
\* event flag need not ever return empty-handed.
FairSpec ==
    /\ Spec
    /\ WF_vars(Worker) /\ WF_vars(Client) /\ WF_vars(Destructor) /\ WF_vars(Publish)
    /\ \A t \in Closers : WF_vars(CloseStore(t) \/ CloseWake(t) \/ CloseHal(t))

-----------------------------------------------------------------------------
(* Properties.                                                             *)

\* WriteThread and ReadThread keep a bare pointer to the legacy HAL stream: no
\* command is being served once that stream was closed.
NoUseAfterClose == worker = "serve" => closes = 0

\* The status a waiting client finds in the queue is the reply to the command it
\* sent last: no reply is left over from an earlier command.
ReplyMatches == status # <<>> => client # "idle" /\ status[1].replyTo = asked

\* A command that was sent is answered, or the stream is being closed.
Answered == (client # "idle") ~> (client = "idle" \/ stop)

\* The destructor's join() comes back: the worker leaves its wait and its loop.
DestructorEnds == (owner # "held") ~> (owner = "gone")

\* When the destructor is done the worker is out of its loop, and the HAL stream
\* was closed exactly once, however many close() calls came before.
GoneIsClosed == owner = "gone" => closes = 1 /\ worker \in {"none", "exited"}

-----------------------------------------------------------------------------
(* The inductive invariant.                                                *)

\* One command is on its way at a time: in the command queue, in the worker's
\* hands or, as its reply, in the status queue.
OneCommand ==
    /\ command # <<>> => /\ command = <<asked>> /\ status = <<>>
                        /\ worker \notin {"serve", "post"} /\ client # "idle"
    /\ worker \in {"serve", "post"} =>
          current = asked /\ status = <<>> /\ client # "idle"
    /\ worker = "post" => retval \in Retvals(current)
    /\ status # <<>> => status[1].replyTo = asked /\ client # "idle"

\* What close() and the destructor leave behind themselves.
ClosePath ==
    /\ \A t \in Closers : closer[t] \in {"wake", "hal"} => stop
    /\ owner \notin {"held", "store"} => stop
    /\ closes # 0 => stop
    /\ ~ClosesEarly => /\ \A t \in Closers : closer[t] # "hal"
                       /\ owner # "hal"
                       /\ closes # 0 => owner = "gone"
    /\ owner \in {"late", "gone"} => worker \in {"none", "exited"}

\* Somebody has begun to close the stream.
Closing == stop \/ owner # "held" \/ \E t \in Closers : closer[t] # "idle"

\* A patient client has no command out while it closes.
PatientClose == Patient /\ Closing => client = "idle"

StreamInv == TypeOK /\ OneCommand /\ ClosePath /\ PatientClose

\* What the queues, the flag and the thread promise together.
Service == INSTANCE AudioCommandService WITH
    phase   <- IF client = "idle" THEN "idle"
               ELSE IF status = <<>> THEN "asked" ELSE "served",
    request <- asked,
    reply   <- status,
    open    <- closes = 0

\* Every behaviour of the stream is one of AudioCommandService.
ServiceSpec == Service!Spec
=============================================================================
