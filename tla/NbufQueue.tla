----------------------------- MODULE NbufQueue -----------------------------
(***************************************************************************)
(* The queue of received packets between the input thread and the forward  *)
(* thread of the net interface (src/src/nbuf_queue.c), with its pointers:  *)
(* a singly linked list whose field "last" points to the pointer that the  *)
(* next put has to fill, which is either head or the next field of a       *)
(* buffer.  Interrupts are off during put and get.                         *)
(***************************************************************************)
EXTENDS Naturals, Sequences, Functions, PointerList, Nbufs

CONSTANT AtHead    \* value of last: the address of head

ASSUME PointerAssumption == AtHead \notin Nbuf \cup {NULL}

VARIABLES
    head, last, next,   \* the list; last = n stands for &n->next
    elem_num,
    outside,            \* buffers that threads may put: neither queued nor
                        \* with the forward thread
    event,              \* the bit of the event flag
    cpc,                \* consumer: "check", "sleep", "blocked", "got"
    got                 \* the buffer the consumer forwards

queueVars == <<head, last, next, elem_num, outside, event, cpc, got>>

QueueInit ==
    /\ head = NULL
    /\ last = AtHead
    /\ next = [n \in Nbuf |-> NULL]
    /\ elem_num = 0
    /\ outside = Nbuf
    /\ event = FALSE
    /\ cpc = "check"
    /\ got = NULL

-----------------------------------------------------------------------------
(* The buffers of the queue by the pointers, oldest first: one more than   *)
(* elem_num if there is one.                                               *)
List == Elements(head, next, NULL, elem_num + 1)

(* cyg_flag_setbits, when only one thread waits. *)
SetBits ==
    /\ cpc' = IF cpc = "blocked" THEN "check" ELSE cpc
    /\ event' = (cpc # "blocked")

(* The operators named ...Fault are not the program: each is a definition  *)
(* below with one mistake in it, which a property of this module excludes. *)
SignalsFault(n) == n = 2    \* tests the number it had, off by one

(* Only the put that makes the queue non-empty signals. *)
Signals(n) == n = 1

(* mf_nbuf_queue_put: the caller gives up the buffer, whose next field is *)
(* NULL since mf_netbuf_alloc cleared it or mf_nbuf_queue_get reset it.    *)
Put(n) ==
    /\ n \in outside
    /\ outside' = outside \ {n}
    /\ IF last = AtHead
       THEN head' = n /\ UNCHANGED next
       ELSE next' = [next EXCEPT ![last] = n] /\ UNCHANGED head
    /\ last' = n
    /\ elem_num' = elem_num + 1
    /\ IF Signals(elem_num + 1) THEN SetBits ELSE UNCHANGED <<event, cpc>>
    /\ UNCHANGED got

(* mf_nbuf_queue_get on an empty queue *)
FindEmpty ==
    /\ cpc = "check" /\ head = NULL
    /\ cpc' = "sleep"
    /\ UNCHANGED <<head, last, next, elem_num, outside, event, got>>

(* cyg_flag_wait *)
Wait ==
    /\ cpc = "sleep"
    /\ cpc' = IF event THEN "check" ELSE "blocked"
    /\ event' = FALSE
    /\ UNCHANGED <<head, last, next, elem_num, outside, got>>

StaleLastFault(h) == last   \* forgotten

(* mf_nbuf_queue_get: an emptied queue has last point to head again. *)
LastAfter(h) == IF h = NULL THEN AtHead ELSE last

GetFault ==                 \* the buffer keeps its next pointer
    /\ cpc = "check" /\ head # NULL
    /\ got' = head
    /\ head' = next[head]
    /\ last' = LastAfter(next[head])
    /\ elem_num' = elem_num - 1
    /\ cpc' = "got"
    /\ UNCHANGED <<outside, event, next>>

Get ==
    /\ cpc = "check" /\ head # NULL
    /\ got' = head
    /\ head' = next[head]
    /\ last' = LastAfter(next[head])
    /\ next' = [next EXCEPT ![head] = NULL]
    /\ elem_num' = elem_num - 1
    /\ cpc' = "got"
    /\ UNCHANGED <<outside, event>>

(* netbuf_forward_thread has handed the packet to the stack. *)
Finish ==
    /\ cpc = "got"
    /\ outside' = outside \cup {got}
    /\ got' = NULL
    /\ cpc' = "check"
    /\ UNCHANGED <<head, last, next, elem_num, event>>

ConsumerStep == FindEmpty \/ Wait \/ Get \/ Finish

QueueNext == ConsumerStep \/ \E n \in Nbuf : Put(n)

QueueSpec == QueueInit /\ [][QueueNext]_queueVars

(* The forward thread runs when it is ready. *)
QueueFairSpec == QueueSpec /\ WF_queueVars(ConsumerStep)

-----------------------------------------------------------------------------
(* The type invariant. *)
QueueTypeOK ==
    /\ head \in Nbuf \cup {NULL}
    /\ last \in Nbuf \cup {AtHead}
    /\ next \in [Nbuf -> Nbuf \cup {NULL}]
    /\ elem_num \in Nat
    /\ outside \subseteq Nbuf
    /\ event \in BOOLEAN
    /\ cpc \in {"check", "sleep", "blocked", "got"}
    /\ got \in Nbuf \cup {NULL}

(* The pointers always form the list that put and get mean: elem_num       *)
(* buffers, no buffer twice, last at the end, and no stale next field that *)
(* a later put would follow.                                               *)
WellLinked ==
    /\ QueueTypeOK
    /\ Len(List) = elem_num
    /\ IsInjective(List)
    /\ last = IF List = <<>> THEN AtHead ELSE List[Len(List)]
    /\ \A n \in Nbuf \ Range(List) : next[n] = NULL

(* Every packet that is put is forwarded, although only the put that makes *)
(* the queue non-empty signals, and the get that finds it empty and the    *)
(* wait are two steps.                                                     *)
EveryPacketTaken == \A n \in Nbuf : n \in Range(List) ~> got = n

(* The linked list implements the queue of module FifoQueue. *)
Queue == INSTANCE FifoQueue WITH
    Item <- Nbuf, items <- List, outside <- outside \cup ({got} \ {NULL})
ImplementsQueue == Queue!Spec

=============================================================================
