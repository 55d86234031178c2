------------------------- MODULE AudioCommandService -------------------------
(***************************************************************************)
(* What one stream of the audio HAL promises its client about commands:    *)
(* each command is carried out once, while the legacy HAL stream behind    *)
(* it is open, its reply is the reply to that command, and closing the     *)
(* stream happens between two commands.  AudioStream implements this with  *)
(* two message queues, an event flag and a worker thread.                  *)
(***************************************************************************)
CONSTANTS
    Commands,        \* what a client may put in the command queue
    Retvals(_)       \* the results a command may end with

VARIABLES
    phase,           \* of the one outstanding command
    request,         \* the command
    reply,           \* its reply, once served
    open             \* the legacy HAL stream may be used

vars == <<phase, request, reply, open>>

Init ==
    /\ phase = "idle"
    /\ request \in Commands
    /\ reply = <<>>
    /\ open = TRUE

Ask(c) ==
    /\ phase = "idle" /\ open
    /\ phase' = "asked"
    /\ request' = c
    /\ UNCHANGED <<reply, open>>

Serve ==
    /\ phase = "asked" /\ open
    /\ phase' = "served"
    /\ \E r \in Retvals(request) : reply' = <<[replyTo |-> request, retval |-> r]>>
    /\ UNCHANGED <<request, open>>

Answer ==
    /\ phase = "served"
    /\ phase' = "idle"
    /\ reply' = <<>>
    /\ UNCHANGED <<request, open>>

Close ==
    /\ phase = "idle" /\ open
    /\ open' = FALSE
    /\ UNCHANGED <<phase, request, reply>>

Next == (\E c \in Commands : Ask(c)) \/ Serve \/ Answer \/ Close

Spec == Init /\ [][Next]_vars
=============================================================================
