----------------------------- MODULE Notifier -----------------------------
(***************************************************************************)
(* A notifier chain (src/src/mf_notifier.c): a linked list of blocks in    *)
(* descending priority.  Threads register and unregister blocks with       *)
(* interrupts off; the call of the chain holds no lock, so blocks come and *)
(* go between two of its steps, and during a callback.                     *)
(***************************************************************************)
EXTENDS Integers, FiniteSets, Sequences, Functions, PointerList

CONSTANTS
    Clients,        \* notifier blocks
    Urgent,         \* those of priority 1, the others have 0
    NULL

ASSUME ChainAssumption ==
    IsFiniteSet(Clients) /\ Urgent \subseteq Clients /\ NULL \notin Clients

VARIABLES
    head, next,     \* the chain of notifier blocks
    calling,        \* notifier_call_chain runs
    next_nb,        \* its next block
    called, last,   \* history of the call: blocks called, the last of them,
    since, left     \* blocks in the chain all the time, blocks taken out

history == <<called, last, since, left>>
chain == <<head, next, calling, next_nb, history>>

ChainInit ==
    /\ head = NULL /\ next = [c \in Clients |-> NULL]
    /\ calling = FALSE /\ next_nb = NULL
    /\ called = {} /\ last = NULL /\ since = {} /\ left = {}

-----------------------------------------------------------------------------
Priority(c) == IF c \in Urgent THEN 1 ELSE 0

(* The blocks of the chain in the order of the pointers. *)
Walk == Elements(head, next, NULL, Cardinality(Clients))
Linked == Range(Walk)

(* The operators named ...Fault are not the program: each is a definition  *)
(* with one mistake in it, which a property of this module excludes.       *)

(* Stops at the blocks of its own priority and higher. *)
PassesFault(n, c) == Priority(c) <= Priority(n)

(* notifier_chain_register passes the blocks of at least its priority.  n  *)
(* takes over the pointer it stops at, which then leads to n.              *)
Passes(n, c) == Priority(c) >= Priority(n)

(* How many blocks it passes. *)
Passed(n) ==
    CHOOSE k \in 0 .. Len(Walk) :
        /\ \A i \in 1 .. k : Passes(n, Walk[i])
        /\ k < Len(Walk) => ~Passes(n, Walk[k + 1])

(* Sets the pointer of n after the one that leads to n. *)
LinkBehindFault(n) ==
    IF Passed(n) = 0
    THEN head' = n /\ next' = [next EXCEPT ![n] = n]
    ELSE next' = [next EXCEPT ![n] = n, ![Walk[Passed(n)]] = n] /\ UNCHANGED head

LinkBehind(n) ==
    LET pred == Walk[Passed(n)]
    IN  IF Passed(n) = 0
        THEN head' = n /\ next' = [next EXCEPT ![n] = head]
        ELSE next' = [next EXCEPT ![n] = next[pred], ![pred] = n] /\ UNCHANGED head

(* Takes out the successor of n with it. *)
UnlinkFault(n) ==
    IF head = n
    THEN head' = next[n] /\ UNCHANGED next
    ELSE \E p \in Linked : /\ next[p] = n
                           /\ next' = [next EXCEPT ![p] = NULL]
                           /\ UNCHANGED head

(* notifier_chain_unregister: the pointer that led to n leads to its       *)
(* successor; n keeps its own.                                             *)
Unlink(n) ==
    IF head = n
    THEN head' = next[n] /\ UNCHANGED next
    ELSE \E p \in Linked : /\ next[p] = n
                           /\ next' = [next EXCEPT ![p] = next[n]]
                           /\ UNCHANGED head

(* What clients owe the chain, which checks nothing: a block in the chain  *)
(* is not registered again, and one taken out during a call does not come  *)
(* back before the call ends.                                              *)
MayRegister(n) == n \notin Linked \cup left

Register(n) ==
    /\ MayRegister(n)
    /\ LinkBehind(n)
    /\ UNCHANGED <<calling, next_nb, history>>

Unregister(n) ==
    /\ n \in Linked
    /\ Unlink(n)
    /\ since' = since \ {n}
    /\ left' = IF calling THEN left \cup {n} ELSE left
    /\ UNCHANGED <<calling, next_nb, called, last>>

-----------------------------------------------------------------------------
(* notifier_call_chain.  The successor is read before the block is called. *)
CallBegin ==
    /\ ~calling /\ calling' = TRUE
    /\ next_nb' = head /\ since' = Linked
    /\ UNCHANGED <<head, next, called, last, left>>

(* Ends the call when the successor has left. *)
AdvanceFault(nb) == next_nb' = IF next[nb] \in Linked THEN next[nb] ELSE NULL

Advance(nb) == next_nb' = next[nb]

CallNext ==
    /\ next_nb # NULL
    /\ Advance(next_nb)
    /\ called' = called \cup {next_nb} /\ last' = next_nb
    /\ UNCHANGED <<head, next, calling, since, left>>

CallEnd ==
    /\ calling /\ next_nb = NULL
    /\ calling' = FALSE
    /\ called' = {} /\ last' = NULL /\ since' = {} /\ left' = {}
    /\ UNCHANGED <<head, next, next_nb>>

Call == CallBegin \/ CallNext \/ CallEnd

ChainNext == (\E n \in Clients : Register(n) \/ Unregister(n)) \/ Call

ChainSpec == ChainInit /\ [][ChainNext]_chain

-----------------------------------------------------------------------------
(* Every variable has its type. *)
ChainTypeOK ==
    /\ head \in Clients \cup {NULL} /\ next \in [Clients -> Clients \cup {NULL}]
    /\ calling \in BOOLEAN
    /\ next_nb \in Clients \cup {NULL} /\ last \in called \cup {NULL}
    /\ called \subseteq Clients /\ since \subseteq Linked /\ left \subseteq Clients

(* The pointers form one list without a circle, in descending priority,    *)
(* that holds a block until it is unregistered (mf_notifier.c 13-40).      *)
ChainSorted ==
    /\ ChainTypeOK
    /\ IsInjective(Walk)
    /\ Walk # <<>> => next[Walk[Len(Walk)]] = NULL
    /\ \A i \in 1 .. Len(Walk) - 1 : Priority(Walk[i]) >= Priority(Walk[i + 1])

(* A call that ends (mf_notifier.c 50-56) has called every block that was  *)
(* in the chain from its beginning to its end, though others came and went *)
(* while it ran, the one being called among them.                          *)
EveryoneCalled == calling /\ next_nb = NULL => since \subseteq called

(* A call reaches only blocks that were in the chain at some time during   *)
(* the call; it may reach one that has left during it, because next_nb and *)
(* the pointer of a block taken out are stale.                             *)
OnlyThoseThere == called \cup ({next_nb} \ {NULL}) \subseteq Linked \cup left

============================================================================
