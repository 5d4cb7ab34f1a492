----------------------------- MODULE MreqbPool -----------------------------
(***************************************************************************)
(* The allocator of request blocks (src/src/mreqb.c): a free list under a  *)
(* lock, an event flag for the threads that find it empty, and a pool of   *)
(* extra data from which a block gets a buffer after it was taken.  The    *)
(* extra data pool is an eCos variable memory pool (external), which hands *)
(* out whole units here.                                                   *)
(***************************************************************************)
EXTENDS Naturals, Sequences, FiniteSets, Functions

CONSTANTS
    Block,      \* blocks of the pool
    Threads,    \* threads that allocate
    Units,      \* buffers that the extra data pool can hand out
    NULL

ASSUME PoolAssumption ==
    /\ NULL \notin Block /\ IsFiniteSet(Block)
    /\ Units \in Nat

VARIABLES
    free,      \* the free list, its head first
    event,     \* the bit of the event flag
    edata,     \* free units of extra data
    pc,        \* thread: "idle", "try", "sleep" (before the wait), "blocked"
               \* in it, or "edata": has a block, waits for extra data
    wants,     \* thread: whether it asks for extra data
    mine,      \* thread: the block it has while it waits for extra data
    use        \* block: "none", "bare" or "full" (without or with extra data),
               \* "freeing" between the two frees of mreqb_free

vars == <<free, event, edata, pc, wants, mine, use>>

(* mreqb_pool_create links the blocks one behind the other. *)
Init ==
    /\ free = CHOOSE s \in [1 .. Cardinality(Block) -> Block] : IsInjective(s)
    /\ event = FALSE
    /\ edata = Units
    /\ pc = [t \in Threads |-> "idle"]
    /\ wants = [t \in Threads |-> FALSE]
    /\ mine = [t \in Threads |-> NULL]
    /\ use = [b \in Block |-> "none"]

-----------------------------------------------------------------------------
(* A thread calls mreqb_waited_alloc, with or without extra data. *)
Call(t) ==
    /\ pc[t] = "idle"
    /\ pc' = [pc EXCEPT ![t] = "try"]
    /\ \E x \in BOOLEAN : wants' = [wants EXCEPT ![t] = x]
    /\ UNCHANGED <<free, event, edata, mine, use>>

(* mreqb_pool_alloc: the head of the free list, if there is one.  The lock *)
(* is held only for this step.                                             *)
Take(t) ==
    /\ pc[t] = "try" /\ free # <<>>
    /\ free' = Tail(free)
    /\ IF wants[t]
       THEN /\ mine' = [mine EXCEPT ![t] = Head(free)]
            /\ pc' = [pc EXCEPT ![t] = "edata"]
            /\ UNCHANGED use
       ELSE /\ use' = [use EXCEPT ![Head(free)] = "bare"]
            /\ pc' = [pc EXCEPT ![t] = "idle"]
            /\ UNCHANGED mine
    /\ UNCHANGED <<event, edata, wants>>

FindEmpty(t) ==
    /\ pc[t] = "try" /\ free = <<>>
    /\ pc' = [pc EXCEPT ![t] = "sleep"]
    /\ UNCHANGED <<free, event, edata, wants, mine, use>>

(* cyg_flag_wait with CLR: a bit that is set is taken at once. *)
Wait(t) ==
    /\ pc[t] = "sleep"
    /\ pc' = [pc EXCEPT ![t] = IF event THEN "try" ELSE "blocked"]
    /\ event' = FALSE
    /\ UNCHANGED <<free, edata, wants, mine, use>>

(* edata_pool_waited_alloc, with the block already in hand. *)
TakeEdata(t) ==
    /\ pc[t] = "edata" /\ edata > 0
    /\ edata' = edata - 1
    /\ use' = [use EXCEPT ![mine[t]] = "full"]
    /\ mine' = [mine EXCEPT ![t] = NULL]
    /\ pc' = [pc EXCEPT ![t] = "idle"]
    /\ UNCHANGED <<free, event, wants>>

-----------------------------------------------------------------------------
(* The operators named ...Fault are not the program: each is a definition  *)
(* with one mistake in it, which a property of this module excludes.       *)
TwiceFault(b) ==            \* extra_data stays set, so it is freed again
    /\ use[b] = "full"
    /\ edata' = edata + 1
    /\ UNCHANGED <<free, event, pc, wants, mine, use>>

(* mreqb_free, first the extra data ... *)
FreeEdata(b) ==
    /\ use[b] = "full"
    /\ edata' = edata + 1
    /\ use' = [use EXCEPT ![b] = "freeing"]
    /\ UNCHANGED <<free, event, pc, wants, mine>>

(* cyg_flag_setbits releases one of the blocked threads, which clears the  *)
(* bit again (CLR); with none blocked the bit stays set.                   *)
SetBits ==
    \/ \E t \in Threads :
          /\ pc[t] = "blocked"
          /\ pc' = [pc EXCEPT ![t] = "try"]
          /\ event' = FALSE
    \/ /\ \A t \in Threads : pc[t] # "blocked"
       /\ event' = TRUE
       /\ UNCHANGED pc

(* ... then the block goes in front of the free list.  __mreqb_pool_free   *)
(* signals only if m->next == NULL: the list was empty.                    *)
SignalsFault == free # <<>>    \* tests the list after the insertion

Signals == free = <<>>

FreeBlock(b) ==
    /\ use[b] \in {"bare", "freeing"}
    /\ free' = <<b>> \o free
    /\ use' = [use EXCEPT ![b] = "none"]
    /\ IF Signals THEN SetBits ELSE UNCHANGED <<event, pc>>
    /\ UNCHANGED <<edata, wants, mine>>

-----------------------------------------------------------------------------
Serve(t)    == Take(t) \/ FindEmpty(t) \/ Wait(t) \/ TakeEdata(t)
Release(b)  == FreeEdata(b) \/ FreeBlock(b)

Next ==
    \/ \E t \in Threads : Call(t) \/ Serve(t)
    \/ \E b \in Block : Release(b)

Spec == Init /\ [][Next]_vars

-----------------------------------------------------------------------------
(* The type invariant. *)
TypeOK ==
    /\ free \in Seq(Block)
    /\ event \in BOOLEAN
    /\ edata \in 0 .. Units
    /\ pc \in [Threads -> {"idle", "try", "sleep", "blocked", "edata"}]
    /\ wants \in [Threads -> BOOLEAN]
    /\ mine \in [Threads -> Block \cup {NULL}]
    /\ use \in [Block -> {"none", "bare", "full", "freeing"}]

(* A block is free, with the thread that allocates it, or in use: never    *)
(* two of them, never none, and it is on the free list once; and every     *)
(* unit of extra data is free or belongs to a block in use.                *)
Waiting(b) == {t \in Threads : mine[t] = b}
Conserved ==
    /\ TypeOK
    /\ IsInjective(free)
    /\ \A b \in Block :
          /\ b \in Range(free) <=> Waiting(b) = {} /\ use[b] = "none"
          /\ Waiting(b) # {} => use[b] = "none"
    /\ \A s, t \in Threads : mine[s] = mine[t] /\ mine[s] # NULL => s = t
    /\ edata + Cardinality({b \in Block : use[b] = "full"}) = Units

(* Threads sleep, or are about to, on free blocks, with no signal set and  *)
(* no thread on its way to the free list.                                  *)
Stranded ==
    /\ free # <<>> /\ ~ event
    /\ \E t \in Threads : pc[t] \in {"sleep", "blocked"}
    /\ \A t \in Threads : pc[t] # "try"

(* A signal goes out only when the list was empty, and wakes one thread.   *)
(* The comment on mreqb_waited_alloc (mreqb.c 391) has it block "when      *)
(* memory not available", but threads can sleep on free blocks.  There is  *)
(* one way into that: a thread takes one of several blocks that were freed *)
(* and does not pass the signal on.  No free, no step of a thread that     *)
(* comes to wait, and no allocation that takes the last block does it.     *)
StrandedOnlyByTake ==
    [][~ Stranded /\ Stranded' => \E t \in Threads : Take(t) /\ free' # <<>>]_vars

=============================================================================
