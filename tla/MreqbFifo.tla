----------------------------- MODULE MreqbFifo -----------------------------
(***************************************************************************)
(* The FIFO between the input thread and the thread of a deferring command *)
(* handler (src/src/mreqb_fifo.c): a list under a lock, and an eCos event  *)
(* flag that is set only after the lock was released.                      *)
(***************************************************************************)
EXTENDS Naturals, Sequences, Functions

CONSTANTS
    Block,       \* request blocks
    Producers,   \* threads that call mreqb_fifo_put
    Consumers,   \* threads that call mreqb_fifo_waited_get (one in the source)
    NULL

ASSUME NullAssumption == NULL \notin Block
ASSUME ConsumerAssumption == \E c \in Consumers : Consumers = {c}

VARIABLES
    list,
    wakeup,    \* the bit of the event flag
    ppc,       \* producer: "idle", or "signal" between unlock and setbits
    cpc,       \* consumer: "check", "sleep" (before the wait), "blocked" in
               \* the wait, or "got" with a block in its hands
    got        \* consumer: the block it has

vars == <<list, wakeup, ppc, cpc, got>>

Init ==
    /\ list = <<>>
    /\ wakeup = FALSE
    /\ ppc = [p \in Producers |-> "idle"]
    /\ cpc = [c \in Consumers |-> "check"]
    /\ got = [c \in Consumers |-> NULL]

Outside == Block \ (Range(list) \cup Range(got))

-----------------------------------------------------------------------------
(* mreqb_fifo_put: list_add_tail under the lock ... *)
Put(p, b) ==
    /\ ppc[p] = "idle" /\ b \in Outside
    /\ list' = Append(list, b)
    /\ ppc' = [ppc EXCEPT ![p] = "signal"]
    /\ UNCHANGED <<wakeup, cpc, got>>

(* ... then cyg_flag_setbits.  It releases one thread blocked with the     *)
(* CLR mode, which clears the bit again; with nobody blocked the bit stays *)
(* set for the next cyg_flag_wait.                                         *)
SetBits ==
    \/ \E c \in Consumers :
          /\ cpc[c] = "blocked"
          /\ cpc' = [cpc EXCEPT ![c] = "check"]
          /\ wakeup' = FALSE
    \/ /\ \A c \in Consumers : cpc[c] # "blocked"
       /\ wakeup' = TRUE
       /\ UNCHANGED cpc

(* The operators named ...Fault are not the program: each is a definition  *)
(* with one mistake in it, which a property of this module excludes.       *)
SignalFault(p) ==           \* nobody is woken
    /\ ppc[p] = "signal"
    /\ ppc' = [ppc EXCEPT ![p] = "idle"]
    /\ UNCHANGED <<list, wakeup, cpc, got>>

Signal(p) ==
    /\ ppc[p] = "signal"
    /\ ppc' = [ppc EXCEPT ![p] = "idle"]
    /\ SetBits
    /\ UNCHANGED <<list, got>>

(* mreqb_fifo_waited_get: the list is empty, the consumer unlocks ... *)
FindEmpty(c) ==
    /\ cpc[c] = "check" /\ list = <<>>
    /\ cpc' = [cpc EXCEPT ![c] = "sleep"]
    /\ UNCHANGED <<list, wakeup, ppc, got>>

WaitFault(c) ==             \* returns without looking at the list again
    /\ cpc[c] = "sleep"
    /\ cpc' = [cpc EXCEPT ![c] = IF wakeup THEN "got" ELSE "blocked"]
    /\ wakeup' = FALSE
    /\ UNCHANGED <<list, ppc, got>>

(* ... and waits: a bit that is already set is taken and cleared at once.  *)
Wait(c) ==
    /\ cpc[c] = "sleep"
    /\ cpc' = [cpc EXCEPT ![c] = IF wakeup THEN "check" ELSE "blocked"]
    /\ wakeup' = FALSE
    /\ UNCHANGED <<list, ppc, got>>

(* mreqb_fifo_waited_get: the oldest block is unlinked and returned. *)
Get(c) ==
    /\ cpc[c] = "check" /\ list # <<>>
    /\ got' = [got EXCEPT ![c] = Head(list)]
    /\ list' = Tail(list)
    /\ cpc' = [cpc EXCEPT ![c] = "got"]
    /\ UNCHANGED <<wakeup, ppc>>

(* The dispatch thread has given the block back and comes for the next. *)
Finish(c) ==
    /\ cpc[c] = "got"
    /\ got' = [got EXCEPT ![c] = NULL]
    /\ cpc' = [cpc EXCEPT ![c] = "check"]
    /\ UNCHANGED <<list, wakeup, ppc>>

ConsumerStep(c) == FindEmpty(c) \/ Wait(c) \/ Get(c) \/ Finish(c)

Next ==
    \/ \E p \in Producers : Signal(p) \/ \E b \in Block : Put(p, b)
    \/ \E c \in Consumers : ConsumerStep(c)

Spec == Init /\ [][Next]_vars

(* Ready threads run: a producer finishes its call, a consumer its loop.   *)
FairSpec ==
    /\ Spec
    /\ \A p \in Producers : WF_vars(Signal(p))
    /\ \A c \in Consumers : WF_vars(ConsumerStep(c))

-----------------------------------------------------------------------------
(* The type invariant; mreqb_fifo_waited_get returns with a block only. *)
TypeOK ==
    /\ list \in Seq(Block)
    /\ wakeup \in BOOLEAN
    /\ ppc \in [Producers -> {"idle", "signal"}]
    /\ cpc \in [Consumers -> {"check", "sleep", "blocked", "got"}]
    /\ got \in [Consumers -> Block \cup {NULL}]
    /\ \A c \in Consumers : cpc[c] = "got" <=> got[c] # NULL

(* The consumer is never blocked, or about to block, on a list that is not *)
(* empty unless a wakeup is on its way: although mreqb_fifo_waited_get     *)
(* tests the list and waits in two steps, and mreqb_fifo_put links and     *)
(* signals in two steps.                                                   *)
Coming == \E p \in Producers : ppc[p] = "signal"
NoLostWakeup ==
    \A c \in Consumers : list # <<>> =>
        /\ cpc[c] = "blocked" => Coming
        /\ cpc[c] = "sleep" => wakeup \/ Coming

=============================================================================
