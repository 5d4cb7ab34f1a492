--------------------------- MODULE MreqbLifecycle ---------------------------
(***************************************************************************)
(* What the mailbox protocol promises about a request block: whoever owns  *)
(* it requests, the other side answers exactly once, and only then is the  *)
(* block free again, for the thread that waits for it if there is one.     *)
(* Module Micproto is shown to implement this specification.               *)
(***************************************************************************)
CONSTANTS Block, Callers, NULL

VARIABLES
    phase,     \* of each block: "free", "requested" or "answered"
    waiting    \* of each caller: the block it waits for, NULL when none

vars == <<phase, waiting>>

Init ==
    /\ phase = [b \in Block |-> "free"]
    /\ waiting = [c \in Callers |-> NULL]

Awaited(b) == \E c \in Callers : waiting[c] = b

(* The owner of b asks for service and goes on. *)
Request(b) ==
    /\ phase[b] = "free"
    /\ phase' = [phase EXCEPT ![b] = "requested"]
    /\ UNCHANGED waiting

(* Caller c asks for service and waits for the answer. *)
RequestAndWait(c, b) ==
    /\ waiting[c] = NULL /\ phase[b] = "free"
    /\ phase' = [phase EXCEPT ![b] = "requested"]
    /\ waiting' = [waiting EXCEPT ![c] = b]

(* The other side has served the request. *)
Answer(b) ==
    /\ phase[b] = "requested"
    /\ phase' = [phase EXCEPT ![b] = "answered"]
    /\ UNCHANGED waiting

(* The answer has reached the owner and nobody waits for it. *)
Complete(b) ==
    /\ phase[b] = "answered" /\ ~ Awaited(b)
    /\ phase' = [phase EXCEPT ![b] = "free"]
    /\ UNCHANGED waiting

(* Caller c has its answer and returns. *)
Return(c) ==
    /\ waiting[c] # NULL /\ phase[waiting[c]] = "answered"
    /\ phase' = [phase EXCEPT ![waiting[c]] = "free"]
    /\ waiting' = [waiting EXCEPT ![c] = NULL]

Next ==
    \/ \E b \in Block : Request(b) \/ Answer(b) \/ Complete(b)
    \/ \E c \in Callers : Return(c) \/ \E b \in Block : RequestAndWait(c, b)

Spec == Init /\ [][Next]_vars

=============================================================================
