------------------------------ MODULE Micproto ------------------------------
(***************************************************************************)
(* The mailbox protocol engine of CPU1 (src/src/micproto.c).               *)
(*                                                                         *)
(* CPU1 and CPU2 exchange the addresses of request blocks (struct mreqb)   *)
(* through a mailbox.  A block of CPU1 (Local) goes out as a request and   *)
(* comes back as a response; a block of CPU2 (Remote) comes in as a        *)
(* request and is given back as a response.  The threads of CPU1 are:      *)
(*                                                                         *)
(*   Callers     client threads: mreqb_submit, mreqb_submit_and_wait;      *)
(*   output      output_thread: moves output_pending into the mailbox;     *)
(*   input       input_thread: reads the mailbox, dispatches responses to  *)
(*               the workers and runs the command handlers of requests;    *)
(*   Worker      pool_thread_function: runs the completion callbacks;      *)
(*   Handlers    the threads of the command handlers that answer           *)
(*               MREQB_RET_PENDING (serial and nand), each behind an       *)
(*               mreqb_fifo (module MreqbFifo).                            *)
(*                                                                         *)
(* One action is one critical section, or one access of shared state that  *)
(* the code makes outside the locks.                                       *)
(***************************************************************************)
EXTENDS Naturals, Sequences, Functions

CONSTANTS
    Local,                    \* blocks allocated by clients of CPU1
    Remote,                   \* blocks that CPU2 owns
    Callers,                  \* client threads of CPU1
    Handlers,                 \* threads of deferring command handlers
    MAX_CONCURRENT_HANDLES,   \* number of pool threads (4 in the source)
    OutCap, InCap,            \* depth of the two mailbox directions
    Strays,                   \* whether CPU2 sends addresses of no request block
    NULL, Input               \* "no block or caller"; the input thread's name

ASSUME BlockAssumption ==
    /\ Local \cap Remote = {}
    /\ NULL \notin Local \cup Remote \cup Callers
ASSUME ThreadAssumption ==
    /\ Input \notin Callers \cup Handlers
    /\ Callers \cap Handlers = {}
ASSUME SizeAssumption ==
    /\ MAX_CONCURRENT_HANDLES \in Nat \ {0}
    /\ OutCap \in Nat \ {0}
    /\ InCap \in Nat \ {0}
    /\ Strays \in BOOLEAN

Block     == Local \cup Remote
Message   == Block \cup {NULL}     \* NULL: the address of no request block
Worker    == 1 .. MAX_CONCURRENT_HANDLES
Submitter == Callers \cup Handlers \cup {Input}

VARIABLES
    pool,             \* Local blocks that no request uses
    cblk, done,       \* caller: block of its submit_and_wait; its ctx.done flag
    resp, context,    \* block: RESPONSE_BIT of cmd; whose ctx, NULL for async
    output_pending, output_flag,
    unsignalled,      \* threads in mreqb_submit between unlock and setbits
    opc, batch,       \* output thread: its place; temp_head and mreqb
    outbox, inbox,    \* the mailbox, to CPU2 and from CPU2
    cpu2,             \* blocks that CPU2 holds
    ipc, icur, iscan, \* input thread: its place; mreqb; i of the dispatch loop
    input_pending,
    running, wakeup, data,   \* pool_entry_t of each worker
    wpc, wcur,        \* worker: its place; mreqb
    fifo, hcur        \* handler thread: its mreqb_fifo; the block it serves

callerVars == <<pool, cblk, done>>
blockVars  == <<resp, context>>
submitVars == <<output_pending, output_flag, unsignalled>>
outputVars == <<opc, batch>>
mboxVars   == <<outbox, inbox, cpu2>>
inputVars  == <<ipc, icur, iscan>>
workerVars == <<running, wakeup, data, wpc, wcur>>
handleVars == <<fifo, hcur>>
vars == <<callerVars, blockVars, submitVars, outputVars, mboxVars, inputVars,
          input_pending, workerVars, handleVars>>

-----------------------------------------------------------------------------
Init ==
    /\ pool = Local
    /\ cblk = [c \in Callers |-> NULL]
    /\ done = [c \in Callers |-> FALSE]
    /\ resp = [b \in Block |-> FALSE]
    /\ context = [b \in Block |-> NULL]
    /\ output_pending = <<>>
    /\ output_flag = FALSE
    /\ unsignalled = {}
    /\ opc = "check"
    /\ batch = <<>>
    /\ outbox = <<>>
    /\ inbox = <<>>
    /\ cpu2 = Remote
    /\ ipc = "get"
    /\ icur = NULL
    /\ iscan = 1
    /\ input_pending = <<>>
    /\ running = [w \in Worker |-> FALSE]
    /\ wakeup = [w \in Worker |-> 0]
    /\ data = [w \in Worker |-> NULL]
    /\ wpc = [w \in Worker |-> "wait"]
    /\ wcur = [w \in Worker |-> NULL]
    /\ fifo = [h \in Handlers |-> <<>>]
    /\ hcur = [h \in Handlers |-> NULL]

-----------------------------------------------------------------------------
(* The operators named ...Fault are not the program: each is a definition  *)
(* below with one mistake in it, which a property of this module excludes. *)

InsertFault(b, isResponse) == <<b>> \o output_pending    \* always at the head

(* mreqb_submit, first half: insertion under output_lock.  A request goes  *)
(* to the tail, a response to the head.  The thread t still has to set the *)
(* output flag, and takes no other step before it did (see Idle).          *)
Insert(b, isResponse) ==
    IF isResponse THEN <<b>> \o output_pending ELSE Append(output_pending, b)

SubmitFault(t, b, isResponse) ==        \* RESPONSE_BIT is not set
    /\ output_pending' = Insert(b, isResponse)
    /\ unsignalled' = unsignalled \cup {t}
    /\ UNCHANGED <<resp, output_flag>>

Submit(t, b, isResponse) ==
    /\ output_pending' = Insert(b, isResponse)
    /\ resp' = [resp EXCEPT ![b] = isResponse]
    /\ unsignalled' = unsignalled \cup {t}
    /\ UNCHANGED output_flag

SignalFault(t) ==                       \* the flag is not set
    /\ t \in unsignalled
    /\ unsignalled' = unsignalled \ {t}
    /\ UNCHANGED <<callerVars, blockVars, output_pending, output_flag,
                   outputVars, mboxVars, inputVars, input_pending, workerVars,
                   handleVars>>

(* mreqb_submit, second half: cyg_flag_setbits wakes the output thread. *)
Signal(t) ==
    /\ t \in unsignalled
    /\ unsignalled' = unsignalled \ {t}
    /\ output_flag' = TRUE
    /\ UNCHANGED <<callerVars, blockVars, output_pending, outputVars, mboxVars,
                   inputVars, input_pending, workerVars, handleVars>>

Idle(t) == t \notin unsignalled

(* mreqb_reservepool_free, mreqb_free: the fields of a free block are those *)
(* of a new one (mreqb_reinit, the memset of mreqb_waited_alloc).          *)
Free(b) ==
    /\ pool' = pool \cup {b}
    /\ resp' = [resp EXCEPT ![b] = FALSE]
    /\ context' = [context EXCEPT ![b] = NULL]

(* A client submits a block whose completion callback frees it. *)
SubmitAsync(c, b) ==
    /\ Idle(c) /\ cblk[c] = NULL /\ b \in pool
    /\ pool' = pool \ {b}
    /\ Submit(c, b, FALSE)
    /\ UNCHANGED <<cblk, done, context, outputVars, mboxVars, inputVars, input_pending,
                   workerVars, handleVars>>

(* mreqb_submit_and_wait: ctx lives on the stack of the caller. *)
SubmitAndWait(c, b) ==
    /\ Idle(c) /\ cblk[c] = NULL /\ b \in pool
    /\ pool' = pool \ {b}
    /\ cblk' = [cblk EXCEPT ![c] = b]
    /\ done' = [done EXCEPT ![c] = FALSE]
    /\ context' = [context EXCEPT ![b] = c]
    /\ Submit(c, b, FALSE)
    /\ UNCHANGED <<outputVars, mboxVars, inputVars, input_pending,
                   workerVars, handleVars>>

(* The wait of mreqb_submit_and_wait is over.  The only call in the        *)
(* repository (mf_NetifPacketXmit) passes timeout 0, so only ctx.done ends *)
(* it.  The caller then returns the block to its pool.                     *)
WaitOverFault(c) == TRUE                \* a timeout, which frees the block too

WaitOver(c) == done[c]

WaitDone(c) ==
    /\ Idle(c) /\ cblk[c] # NULL /\ WaitOver(c)
    /\ Free(cblk[c])
    /\ cblk' = [cblk EXCEPT ![c] = NULL]
    /\ done' = [done EXCEPT ![c] = FALSE]
    /\ UNCHANGED <<submitVars, outputVars, mboxVars, inputVars, input_pending,
                   workerVars, handleVars>>

-----------------------------------------------------------------------------
(* output_thread *)

(* The list is empty: the thread goes to sleep on output_flag. *)
OutputIdle ==
    /\ opc = "check" /\ output_pending = <<>>
    /\ opc' = "wait"
    /\ UNCHANGED <<callerVars, blockVars, submitVars, batch, mboxVars,
                   inputVars, input_pending, workerVars, handleVars>>

(* cyg_flag_wait returns and clears the bit.  (eCos releases a waiting     *)
(* thread and clears the bit when it is set; with one waiter that differs  *)
(* only in whether a second signal makes it look at the list once more.)   *)
OutputWake ==
    /\ opc = "wait" /\ output_flag
    /\ output_flag' = FALSE
    /\ opc' = "check"
    /\ UNCHANGED <<callerVars, blockVars, output_pending, unsignalled, batch,
                   mboxVars, inputVars, input_pending, workerVars, handleVars>>

(* list_replace: the whole list becomes the batch to be pushed. *)
OutputTake ==
    /\ opc = "check" /\ output_pending # <<>>
    /\ batch' = output_pending
    /\ output_pending' = <<>>
    /\ opc' = "push"
    /\ UNCHANGED <<callerVars, blockVars, output_flag, unsignalled, mboxVars,
                   inputVars, input_pending, workerVars, handleVars>>

OutputPushFault ==                      \* does not wait for room
    /\ opc = "push"
    /\ outbox' = Append(outbox, Head(batch))
    /\ batch' = Tail(batch)
    /\ opc' = IF Len(batch) = 1 THEN "check" ELSE "push"
    /\ UNCHANGED <<callerVars, blockVars, submitVars, inbox, cpu2, inputVars,
                   input_pending, workerVars, handleVars>>

(* mf_mbox_msg_put of the next block; while the mailbox is full the thread *)
(* delays and tries again, which changes nothing.                          *)
OutputPush ==
    /\ opc = "push" /\ Len(outbox) < OutCap
    /\ outbox' = Append(outbox, Head(batch))
    /\ batch' = Tail(batch)
    /\ opc' = IF Len(batch) = 1 THEN "check" ELSE "push"
    /\ UNCHANGED <<callerVars, blockVars, submitVars, inbox, cpu2, inputVars,
                   input_pending, workerVars, handleVars>>

-----------------------------------------------------------------------------
(* CPU2 (external): takes messages, answers the requests it got in any     *)
(* order and at any time, and sends requests of its own.                   *)
Cpu2Get ==
    /\ outbox # <<>>
    /\ cpu2' = cpu2 \cup {Head(outbox)}
    /\ outbox' = Tail(outbox)
    /\ UNCHANGED <<callerVars, blockVars, submitVars, outputVars, inbox,
                   inputVars, input_pending, workerVars, handleVars>>

Cpu2Put(b) ==
    /\ b \in cpu2 /\ Len(inbox) < InCap
    /\ cpu2' = cpu2 \ {b}
    /\ resp' = [resp EXCEPT ![b] = b \in Local]
    /\ inbox' = Append(inbox, b)
    /\ UNCHANGED <<callerVars, context, submitVars, outputVars, outbox,
                   inputVars, input_pending, workerVars, handleVars>>

(* A message need not be the address of a request block: input_thread      *)
(* looks for MREQB_MAGIC before it believes so.  (A bound: there is one    *)
(* such message in the mailbox at a time.)                                 *)
Cpu2PutInvalid ==
    /\ Strays /\ Len(inbox) < InCap /\ NULL \notin Range(inbox)
    /\ inbox' = Append(inbox, NULL)
    /\ UNCHANGED <<callerVars, blockVars, submitVars, outputVars, outbox, cpu2,
                   inputVars, input_pending, workerVars, handleVars>>

-----------------------------------------------------------------------------
(* input_thread *)

(* mf_mbox_msg_get: a message without the magic number is dropped, ...     *)
InputInvalid ==
    /\ ipc = "get" /\ Idle(Input) /\ inbox # <<>> /\ Head(inbox) = NULL
    /\ inbox' = Tail(inbox)
    /\ UNCHANGED <<callerVars, blockVars, submitVars, outputVars, outbox, cpu2,
                   inputVars, input_pending, workerVars, handleVars>>

(* ... a response is for the workers, a request for its command handler.   *)
InputGet ==
    /\ ipc = "get" /\ Idle(Input) /\ inbox # <<>> /\ Head(inbox) # NULL
    /\ icur' = Head(inbox)
    /\ inbox' = Tail(inbox)
    /\ ipc' = IF resp[Head(inbox)] THEN "dispatch" ELSE "request"
    /\ UNCHANGED <<callerVars, blockVars, submitVars, outputVars, outbox, cpu2,
                   iscan, input_pending, workerVars, handleVars>>

(* dispatch_pool_thread_run: worker iscan is busy, look at the next one. *)
InputSkip ==
    /\ ipc = "dispatch" /\ iscan \in Worker /\ running[iscan]
    /\ iscan' = iscan + 1
    /\ UNCHANGED <<callerVars, blockVars, submitVars, outputVars, mboxVars,
                   ipc, icur, input_pending, workerVars, handleVars>>

InputDispatchFault ==                   \* to a worker that may be busy
    /\ ipc = "dispatch" /\ iscan \in Worker
    /\ data' = [data EXCEPT ![iscan] = icur]
    /\ running' = [running EXCEPT ![iscan] = TRUE]
    /\ wakeup' = [wakeup EXCEPT ![iscan] = @ + 1]
    /\ ipc' = "get"
    /\ icur' = NULL
    /\ iscan' = 1
    /\ UNCHANGED <<callerVars, blockVars, submitVars, outputVars, mboxVars,
                   input_pending, wpc, wcur, handleVars>>

(* dispatch_pool_thread_run: hand the response to an idle worker. *)
InputDispatch ==
    /\ ipc = "dispatch" /\ iscan \in Worker /\ ~ running[iscan]
    /\ data' = [data EXCEPT ![iscan] = icur]
    /\ running' = [running EXCEPT ![iscan] = TRUE]
    /\ wakeup' = [wakeup EXCEPT ![iscan] = @ + 1]
    /\ ipc' = "get"
    /\ icur' = NULL
    /\ iscan' = 1
    /\ UNCHANGED <<callerVars, blockVars, submitVars, outputVars, mboxVars,
                   input_pending, wpc, wcur, handleVars>>

(* dispatch_pool_thread_run: every worker was busy, park the response. *)
InputPend ==
    /\ ipc = "dispatch" /\ iscan \notin Worker
    /\ input_pending' = Append(input_pending, icur)
    /\ ipc' = "get"
    /\ icur' = NULL
    /\ iscan' = 1
    /\ UNCHANGED <<callerVars, blockVars, submitVars, outputVars, mboxVars,
                   workerVars, handleVars>>

(* process_request: the handler answers at once, or there is none and the  *)
(* request is given back with MREQB_RET_NOHANDLE.                          *)
InputGiveback ==
    /\ ipc = "request"
    /\ Submit(Input, icur, TRUE)
    /\ ipc' = "get"
    /\ icur' = NULL
    /\ UNCHANGED <<callerVars, context, outputVars, mboxVars, iscan,
                   input_pending, workerVars, handleVars>>

(* process_request: the handler queues the request for its own thread and  *)
(* answers MREQB_RET_PENDING.                                              *)
InputDefer(h) ==
    /\ ipc = "request"
    /\ fifo' = [fifo EXCEPT ![h] = Append(@, icur)]
    /\ ipc' = "get"
    /\ icur' = NULL
    /\ UNCHANGED <<callerVars, blockVars, submitVars, outputVars, mboxVars,
                   iscan, input_pending, workerVars, hcur>>

-----------------------------------------------------------------------------
(* pool_thread_function of worker w *)

WorkerWake(w) ==
    /\ wpc[w] = "wait" /\ wakeup[w] > 0
    /\ wakeup' = [wakeup EXCEPT ![w] = @ - 1]
    /\ wcur' = [wcur EXCEPT ![w] = data[w]]
    /\ wpc' = [wpc EXCEPT ![w] = "complete"]
    /\ UNCHANGED <<callerVars, blockVars, submitVars, outputVars, mboxVars,
                   inputVars, input_pending, running, data, handleVars>>

(* process_complete: mreqb_blocking_completion wakes the caller whose ctx  *)
(* the block carries, any other callback frees the block.  (A block with   *)
(* no callback would be left alone, and free again for nobody; all code of *)
(* the repository that submits a block gives it one.)                      *)
WorkerComplete(w) ==
    /\ wpc[w] = "complete"
    /\ LET b == wcur[w] IN
         \/ context[b] = NULL /\ Free(b) /\ UNCHANGED done
         \/ /\ context[b] # NULL
            /\ done' = [done EXCEPT ![context[b]] = TRUE]
            /\ UNCHANGED <<pool, blockVars>>
    /\ wcur' = [wcur EXCEPT ![w] = NULL]
    /\ wpc' = [wpc EXCEPT ![w] = "check"]
    /\ UNCHANGED <<cblk, submitVars, outputVars, mboxVars, inputVars,
                   input_pending, running, wakeup, data, handleVars>>

(* There is a parked response: the worker takes the oldest. *)
WorkerNext(w) ==
    /\ wpc[w] = "check" /\ input_pending # <<>>
    /\ wcur' = [wcur EXCEPT ![w] = Head(input_pending)]
    /\ input_pending' = Tail(input_pending)
    /\ wpc' = [wpc EXCEPT ![w] = "complete"]
    /\ UNCHANGED <<callerVars, blockVars, submitVars, outputVars, mboxVars,
                   inputVars, running, wakeup, data, handleVars>>

(* There is none: the worker leaves the critical section ... *)
WorkerEmpty(w) ==
    /\ wpc[w] = "check" /\ input_pending = <<>>
    /\ wpc' = [wpc EXCEPT ![w] = "clear"]
    /\ UNCHANGED <<callerVars, blockVars, submitVars, outputVars, mboxVars,
                   inputVars, input_pending, running, wakeup, data, wcur,
                   handleVars>>

(* ... and only then, outside it, says that it is idle. *)
WorkerIdle(w) ==
    /\ wpc[w] = "clear"
    /\ running' = [running EXCEPT ![w] = FALSE]
    /\ wpc' = [wpc EXCEPT ![w] = "wait"]
    /\ UNCHANGED <<callerVars, blockVars, submitVars, outputVars, mboxVars,
                   inputVars, input_pending, wakeup, data, wcur, handleVars>>

-----------------------------------------------------------------------------
(* The thread h of a deferring command handler: mbserial_dispatch_thread   *)
(* and mbnand_request_handle_thread take one block at a time, serve it and *)
(* give it back.                                                           *)
HandlerGet(h) ==
    /\ hcur[h] = NULL /\ Idle(h) /\ fifo[h] # <<>>
    /\ hcur' = [hcur EXCEPT ![h] = Head(fifo[h])]
    /\ fifo' = [fifo EXCEPT ![h] = Tail(@)]
    /\ UNCHANGED <<callerVars, blockVars, submitVars, outputVars, mboxVars,
                   inputVars, input_pending, workerVars>>

HandlerGivebackFault(h) ==              \* the block is not given back
    /\ hcur[h] # NULL
    /\ hcur' = [hcur EXCEPT ![h] = NULL]
    /\ UNCHANGED <<callerVars, blockVars, submitVars, outputVars, mboxVars,
                   inputVars, input_pending, workerVars, fifo>>

HandlerGiveback(h) ==
    /\ hcur[h] # NULL
    /\ Submit(h, hcur[h], TRUE)
    /\ hcur' = [hcur EXCEPT ![h] = NULL]
    /\ UNCHANGED <<callerVars, context, outputVars, mboxVars, inputVars,
                   input_pending, workerVars, fifo>>

-----------------------------------------------------------------------------
CallerStep(c)  == \/ \E b \in Local : SubmitAsync(c, b) \/ SubmitAndWait(c, b)
                  \/ WaitDone(c)
OutputStep     == OutputIdle \/ OutputWake \/ OutputTake \/ OutputPush
InputStep      == \/ InputInvalid \/ InputGet \/ InputSkip \/ InputDispatch \/ InputPend
                  \/ InputGiveback \/ \E h \in Handlers : InputDefer(h)
WorkerStep(w)  == \/ WorkerWake(w) \/ WorkerComplete(w) \/ WorkerNext(w)
                  \/ WorkerEmpty(w) \/ WorkerIdle(w)
HandlerStep(h) == HandlerGet(h) \/ HandlerGiveback(h)

Next ==
    \/ \E t \in Submitter : Signal(t)
    \/ \E c \in Callers : CallerStep(c)
    \/ OutputStep
    \/ Cpu2Get
    \/ Cpu2PutInvalid \/ \E b \in Block : Cpu2Put(b)
    \/ InputStep
    \/ \E w \in Worker : WorkerStep(w)
    \/ \E h \in Handlers : HandlerStep(h)

Spec == Init /\ [][Next]_vars

(* eCos runs every ready thread of CPU1 eventually (the threads here block *)
(* between two messages, and no more urgent one spins: see P4aMbox for one *)
(* that can), and CPU2 keeps emptying its side of the mailbox.             *)
(* Nobody is obliged to submit, and CPU2 is not obliged to answer.         *)
Fairness ==
    /\ \A t \in Submitter : WF_vars(Signal(t))
    /\ WF_vars(OutputStep)
    /\ WF_vars(Cpu2Get)
    /\ WF_vars(InputStep)
    /\ \A w \in Worker : WF_vars(WorkerStep(w))
    /\ \A h \in Handlers : WF_vars(HandlerStep(h))

FairSpec == Spec /\ Fairness
-----------------------------------------------------------------------------
(* The type invariant. *)
TypeOK ==
    /\ pool \subseteq Local
    /\ cblk \in [Callers -> Local \cup {NULL}]
    /\ done \in [Callers -> BOOLEAN]
    /\ resp \in [Block -> BOOLEAN]
    /\ context \in [Block -> Callers \cup {NULL}]
    /\ output_pending \in Seq(Block)
    /\ output_flag \in BOOLEAN
    /\ unsignalled \subseteq Submitter
    /\ opc \in {"check", "wait", "push"}
    /\ batch \in Seq(Block)
    /\ outbox \in Seq(Block) /\ Len(outbox) <= OutCap
    /\ inbox \in Seq(Message) /\ Len(inbox) <= InCap
    /\ cpu2 \subseteq Block
    /\ ipc \in {"get", "dispatch", "request"}
    /\ icur \in Block \cup {NULL}
    /\ iscan \in 1 .. MAX_CONCURRENT_HANDLES + 1
    /\ input_pending \in Seq(Block)
    /\ running \in [Worker -> BOOLEAN]
    /\ wakeup \in [Worker -> Nat]
    /\ data \in [Worker -> Block \cup {NULL}]
    /\ wpc \in [Worker -> {"wait", "complete", "check", "clear"}]
    /\ wcur \in [Worker -> Block \cup {NULL}]
    /\ fifo \in [Handlers -> Seq(Block)]
    /\ hcur \in [Handlers -> Block \cup {NULL}]

(* Where a block can be: a place has a kind and, if there are several of   *)
(* that kind, the thread it belongs to.  A block handed to a worker is in  *)
(* data until the worker takes it; a caller owns its block again once      *)
(* ctx.done is set.                                                        *)
Out   == {"output_pending", "batch", "outbox"}
In    == {"inbox", "input"}
ForUs == {"input_pending", "data", "worker"}
ToDo  == {"fifo", "handler"}
Kind  == {"pool", "caller", "cpu2"} \cup Out \cup In \cup ForUs \cup ToDo
Index == Callers \cup Worker \cup Handlers \cup {NULL}

Holds(k, i, b) ==
    \/ k = "pool" /\ i = NULL /\ b \in pool
    \/ k = "output_pending" /\ i = NULL /\ b \in Range(output_pending)
    \/ k = "batch" /\ i = NULL /\ b \in Range(batch)
    \/ k = "outbox" /\ i = NULL /\ b \in Range(outbox)
    \/ k = "cpu2" /\ i = NULL /\ b \in cpu2
    \/ k = "inbox" /\ i = NULL /\ b \in Range(inbox)
    \/ k = "input" /\ i = NULL /\ b = icur
    \/ k = "input_pending" /\ i = NULL /\ b \in Range(input_pending)
    \/ k = "caller" /\ i \in Callers /\ cblk[i] = b /\ done[i]
    \/ k = "data" /\ i \in Worker /\ data[i] = b /\ wakeup[i] > 0
    \/ k = "worker" /\ i \in Worker /\ wcur[i] = b
    \/ k = "fifo" /\ i \in Handlers /\ b \in Range(fifo[i])
    \/ k = "handler" /\ i \in Handlers /\ hcur[i] = b

HeldOnlyBy(k, i, b) ==
    /\ Holds(k, i, b)
    /\ \A l \in Kind, j \in Index : Holds(l, j, b) => l = k /\ j = i

(* Every block is in exactly one place: no interleaving of the threads,    *)
(* whose hand-overs use list nodes, the mailbox, a worker's data field and *)
(* ctx.done, loses a block, lets two threads use it, or links it twice.    *)
UniqueHolder ==
    \A b \in Block : \E k \in Kind, i \in Index : HeldOnlyBy(k, i, b)
NoneLinkedTwice ==
    /\ IsInjective(output_pending) /\ IsInjective(batch)
    /\ IsInjective(outbox) /\ IsInjective(inbox) /\ IsInjective(input_pending)
    /\ \A h \in Handlers : IsInjective(fifo[h])
OneOwner == UniqueHolder /\ NoneLinkedTwice

(* What travels towards CPU2 are requests in Local blocks and responses in *)
(* Remote ones, and the other way around in the opposite direction; only   *)
(* own blocks get to the workers and only CPU2's to the command handlers.  *)
(* So the RESPONSE_BIT that input_thread and mreqb_submit branch on is     *)
(* never stale, and neither side takes a block of its own for a request.   *)
Fits(k, b) ==
    /\ k \in Out => (resp[b] <=> b \in Remote)
    /\ k \in In => (resp[b] <=> b \in Local)
    /\ k \in ForUs \cup {"caller"} => b \in Local /\ resp[b]
    /\ k \in ToDo => b \in Remote /\ ~ resp[b]
    /\ k = "pool" => b \in Local /\ ~ resp[b]
    /\ k = "cpu2" /\ b \in Local => ~ resp[b]
Direction ==
    \A b \in Block, k \in Kind, i \in Index : Holds(k, i, b) => Fits(k, b)

(* The output thread never sleeps on blocks nobody will wake it for,       *)
(* although submitters set output_flag only after they released            *)
(* output_lock.                                                            *)
OutputWakeup ==
    opc = "wait" /\ output_pending # <<>> => output_flag \/ unsignalled # {}

(* The ctx of mreqb_submit_and_wait is on the caller's stack: as long as a *)
(* block points to it, that caller is still in the call, for this very     *)
(* block; and once it is woken nobody else can reach the block.            *)
CtxAlive ==
    \A b \in Block : context[b] # NULL =>
        /\ cblk[context[b]] = b
        /\ done[context[b]] => resp[b] /\ HeldOnlyBy("caller", context[b], b)

(* Requests reach CPU2 in the order of their insertion, although the       *)
(* output thread moves them batch by batch and responses overtake them:    *)
(* a request on its way to CPU2 is never overtaken by another, and does    *)
(* not leave the way while one is ahead of it.                             *)
Outgoing == outbox \o batch \o output_pending
Ahead(b, c) ==
    \E j \in DOMAIN Outgoing : \E i \in 1 .. j - 1 : Outgoing[i] = b /\ Outgoing[j] = c
RequestsInOrder ==
    [][\A b, c \in Local : c \in Range(Outgoing) =>
          /\ Ahead(b, c)' => Ahead(b, c)
          /\ c \in Range(Outgoing)' \/ ~ Ahead(b, c)]_vars

(* The protocol implements the life cycle of module MreqbLifecycle: every  *)
(* request is answered at most once and completed only after its answer,   *)
(* and a waiting caller returns only with the answer to its own request.   *)
PhaseOf == [b \in Block |->
              IF b \in pool \/ (b \in Remote /\ b \in cpu2) THEN "free"
              ELSE IF resp[b] THEN "answered" ELSE "requested"]
Lifecycle == INSTANCE MreqbLifecycle WITH phase <- PhaseOf, waiting <- cblk
ImplementsLifecycle == Lifecycle!Spec

(* A submitted request reaches CPU2, however many responses overtake it in *)
(* output_pending and although the mailbox may be full.                    *)
RequestsReachCpu2 ==
    \A b \in Local : b \in Range(output_pending) ~> b \in cpu2

(* A request of CPU2 is given back, by its handler, by the thread it was   *)
(* deferred to, or with MREQB_RET_NOHANDLE.                                *)
RemoteRequestsAnswered ==
    \A b \in Remote : b \in Range(inbox) ~> b \in cpu2

(* What the comment in pool_thread_function says: a worker checks for a    *)
(* pending response and picks it, so a parked response is picked up.       *)
PendingPicked ==
    \A b \in Local : b \in Range(input_pending) ~> b \notin Range(input_pending)

=============================================================================
