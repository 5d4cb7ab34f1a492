----------------------------- MODULE MbSerial -----------------------------
(***************************************************************************)
(* A mailbox serial port (src/src/mf_mbserial.c) with the notifier chain   *)
(* of its clients.  Requests of CPU2 change the status of the port, and    *)
(* the dispatch thread calls the chain with them while threads send; a     *)
(* send is cut into pieces that each take a block of the reserve pool.     *)
(*                                                                         *)
(* The FIFO between input and dispatch thread is the abstract one; module  *)
(* MbNand has it in detail.  CPU2 answers the pieces in their order.       *)
(***************************************************************************)
EXTENDS Notifier

CONSTANTS
    Senders,        \* threads that call mf_mbserial_send
    MaxPieces,      \* longest send, in blocks of PRE_ALLOC_DATA_SIZE
    PoolSize,       \* PRE_ALLOC_MREQ_NUM
    MaxPending      \* requests of CPU2 waiting for the thread (bound)

ASSUME PortAssumption ==
    MaxPieces \in Nat /\ PoolSize \in Nat /\ MaxPending \in Nat /\ NULL \notin Senders

VARIABLES
    exists, up,     \* allports[line] # NULL; PORT_STATUS_UP
    pending,        \* requests of CPU2, oldest first, up to the one in hand
    lock,           \* owner of the lock of the port
    todo, done,     \* sender: pieces its send has, pieces it has submitted
    wire            \* pieces submitted and not answered, <<sender, number>>

data == <<lock, todo, done, wire>>
vars == <<chain, exists, up, pending, data>>

Commands == {"STARTUP", "SHUTDOWN", "DATA_TRANSFER", "unknown"}

Init ==
    /\ ChainInit
    /\ exists = FALSE /\ up = FALSE /\ pending = <<>>
    /\ lock = NULL
    /\ todo = [s \in Senders |-> 0] /\ done = [s \in Senders |-> 0]
    /\ wire = <<>>

-----------------------------------------------------------------------------
(* mf_mbserial_get makes the port if there is none, and registers n unless *)
(* it is NULL; mf_mbserial_register_notifier needs the port.               *)
Get(n) ==
    /\ exists' = TRUE
    /\ IF n = NULL THEN UNCHANGED chain ELSE Register(n)
    /\ UNCHANGED <<up, pending, data>>

Leave(n) ==
    /\ Unregister(n)
    /\ UNCHANGED <<exists, up, pending, data>>

(* do_mbserial_request: CPU2's request waits for the dispatch thread. *)
Request(cmd) ==
    /\ Len(pending) < MaxPending
    /\ pending' = Append(pending, cmd)
    /\ UNCHANGED <<chain, exists, up, data>>

(* handle_mbserial_request refuses what it does not know. *)
Refused(cmd) == ~exists \/ cmd = "unknown"

Refuse ==
    /\ pending # <<>> /\ ~calling
    /\ Refused(Head(pending))
    /\ pending' = Tail(pending)
    /\ UNCHANGED <<chain, exists, up, data>>

(* STARTUP and SHUTDOWN change the status; then the chain is called. *)
UpAfter(cmd) == CASE cmd = "STARTUP" -> TRUE
                  [] cmd = "SHUTDOWN" -> FALSE
                  [] OTHER -> up

Handle ==
    /\ pending # <<>>
    /\ ~Refused(Head(pending))
    /\ up' = UpAfter(Head(pending))
    /\ CallBegin
    /\ UNCHANGED <<exists, pending, data>>

(* A callback may send, so it may wait for the lock of the port like any   *)
(* sender; it runs as one of them.                                         *)
Callback == CallNext /\ UNCHANGED <<exists, up, pending, data>>

(* The request is given back after the call. *)
GiveBack ==
    /\ CallEnd
    /\ pending' = Tail(pending)
    /\ UNCHANGED <<exists, up, data>>

-----------------------------------------------------------------------------
(* The operators named ...Fault are not the program: each is a definition  *)
(* with one mistake in it, which a property of this module excludes.       *)

(* Sends without a look at the status. *)
MaySendFault == exists

(* mf_mbserial_send tests the status before it takes the lock. *)
MaySend == exists /\ up

SendTest(s, n) ==
    /\ todo[s] = 0 /\ MaySend
    /\ todo' = [todo EXCEPT ![s] = n]
    /\ UNCHANGED <<chain, exists, up, pending, lock, done, wire>>

(* Sends without the lock of the port. *)
LockFreeFault == TRUE

LockFree == lock = NULL

SendLock(s) ==
    /\ todo[s] # 0 /\ lock # s /\ LockFree
    /\ lock' = s
    /\ UNCHANGED <<chain, exists, up, pending, todo, done, wire>>

BlockLeft == Len(wire) < PoolSize

(* get_mreqb finds a block, and the piece is submitted with it. *)
SendPiece(s) ==
    /\ lock = s /\ done[s] < todo[s] /\ BlockLeft
    /\ done' = [done EXCEPT ![s] = @ + 1]
    /\ wire' = Append(wire, <<s, done'[s]>>)
    /\ UNCHANGED <<chain, exists, up, pending, lock, todo>>

(* The send ends when all is sent or no block is left. *)
SendEnd(s) ==
    /\ lock = s /\ (done[s] < todo[s] => ~BlockLeft)
    /\ lock' = NULL
    /\ todo' = [todo EXCEPT ![s] = 0] /\ done' = [done EXCEPT ![s] = 0]
    /\ UNCHANGED <<chain, exists, up, pending, wire>>

(* put_mreqb, when CPU2 has answered a piece. *)
Answered ==
    /\ wire # <<>>
    /\ wire' = Tail(wire)
    /\ UNCHANGED <<chain, exists, up, pending, lock, todo, done>>

-----------------------------------------------------------------------------
Dispatch == Refuse \/ Handle \/ Callback \/ GiveBack
Send(s) == SendLock(s) \/ SendPiece(s) \/ SendEnd(s)

Next ==
    \/ \E n \in Clients : Leave(n)
    \/ \E n \in Clients \cup {NULL} : Get(n)
    \/ \E cmd \in Commands : Request(cmd)
    \/ Dispatch
    \/ \E s \in Senders : Send(s) \/ \E n \in 1 .. MaxPieces : SendTest(s, n)
    \/ Answered

Spec == Init /\ [][Next]_vars

(* The threads keep running, a callback returns, and CPU2 answers. *)
FairSpec ==
    /\ Spec
    /\ WF_vars(Dispatch)
    /\ \A s \in Senders : WF_vars(Send(s))
    /\ WF_vars(Answered)

-----------------------------------------------------------------------------
(* Every variable has its type, only the sender that has the lock is past  *)
(* it, and the pieces on the wire never exceed the blocks of the pool.     *)
TypeOK ==
    /\ ChainTypeOK
    /\ exists \in BOOLEAN /\ up \in BOOLEAN
    /\ Len(pending) <= MaxPending /\ Range(pending) \subseteq Commands
    /\ lock \in Senders \cup {NULL}
    /\ todo \in [Senders -> 0 .. MaxPieces] /\ done \in [Senders -> 0 .. MaxPieces]
    /\ Len(wire) <= PoolSize /\ Range(wire) \subseteq Senders \X (1 .. MaxPieces)

(* The pieces of a send follow each other on the wire (187-219): a piece   *)
(* that is not a first one comes right behind its predecessor, or CPU2 has *)
(* had that one already.                                                   *)
PiecesTogether ==
    /\ TypeOK
    /\ \A i \in 1 .. Len(wire) - 1 :
          \/ wire[i + 1][2] = 1
          \/ wire[i + 1] = <<wire[i][1], wire[i][2] + 1>>

(* The status is tested without the lock (182), so a send may follow the   *)
(* shutdown; but after a last shutdown the wire runs empty for good.       *)
ShutdownQuiesces == <>[]~up => <>[](wire = <<>>)

(* CPU2 gets an answer to every request, though the chain changes while it *)
(* is called: the requests that wait do not wait for ever.                 *)
RequestsAnswered == []<>(Len(pending) < MaxPending)

============================================================================
