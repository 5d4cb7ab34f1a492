------------------------------ MODULE P4aMbox ------------------------------
(***************************************************************************)
(* The mailbox driver of the test project (src/project/test/p4a_mbox.c) on *)
(* the default work queue (src/src/mf_thread.c): a hardware FIFO and a     *)
(* software FIFO in each direction, an interrupt mask register that        *)
(* threads and the DSR change by read-modify-write, and the work tx_work   *)
(* that moves messages from the software to the hardware.                  *)
(*                                                                         *)
(* The output thread of the engine is the only one that puts, its input    *)
(* thread the only one that gets.  A DSR is atomic for threads.            *)
(***************************************************************************)
EXTENDS Naturals, Sequences, Functions

CONSTANTS
    OutMsg, InMsg,           \* messages to CPU2 and from CPU2
    HwCap, OutCap, InCap     \* depth of a hardware FIFO, os_outmbox, os_inmbox

ASSUME DepthAssumption == {HwCap, OutCap, InCap} \subseteq Nat \ {0}

VARIABLES
    hwout, out,          \* to CPU2: hardware FIFO, os_outmbox
    hwin, kept, inbox,   \* from CPU2: hardware FIFO, the static msg of the
                         \* DSR (a sequence of at most one), os_inmbox
    inmbox_full,
    int_mask,            \* the interrupts that are masked, of {"TX", "RX"}
    copy,                \* what a thread read from int_mask
    undone,              \* history: a write of int_mask undid another one
    ppc, msg,            \* output thread in mf_mbox_msg_put; its message
    rpc,                 \* input thread in mf_mbox_msg_get
    wpc, held,           \* work thread; the message between 233 and 235
    works,               \* the list of works: "empty", "linked", or "broken"
                         \* when tx_work was linked twice
    wakeup, WQ_RUNNING,  \* event flag and state of the work queue
    passed,              \* history: the threads ("put", "work") that found
                         \* room in the hardware, which another then used
    unheard              \* history: the linked work was queued while the
                         \* work thread was started but not noted as running

queue == <<wpc, works, wakeup, WQ_RUNNING, unheard>>
tx == <<hwout, out, ppc, msg, held, queue, passed>>
rx == <<hwin, kept, inbox, inmbox_full, rpc>>
reg == <<int_mask, copy, undone>>
vars == <<tx, rx, reg>>

Tx == hwout \o held \o out \o msg \* all messages to CPU2, oldest first
Rx == inbox \o kept \o hwin        \* all messages from CPU2, oldest first

(* mf_mbox_startup: only the RX interrupt is enabled. *)
Init ==
    /\ hwout = <<>> /\ out = <<>> /\ hwin = <<>> /\ kept = <<>> /\ inbox = <<>>
    /\ inmbox_full = FALSE
    /\ int_mask = {"TX"} /\ undone = FALSE
    /\ copy = [t \in {"input", "work"} |-> {}]
    /\ ppc = "idle" /\ msg = <<>> /\ rpc = "get"
    /\ wpc = "suspended" /\ held = <<>>
    /\ works = "empty" /\ wakeup = FALSE /\ WQ_RUNNING = FALSE
    /\ passed = {} /\ unheard = FALSE

-----------------------------------------------------------------------------
(* p4a_mbox_enable_irq: the register is read, changed and written in two   *)
(* steps of the thread.                                                    *)
ReadMask(t) == copy' = [copy EXCEPT ![t] = int_mask] /\ UNCHANGED <<int_mask, undone>>

WriteMask(t, irq) ==
    /\ int_mask' = copy[t] \ {irq}
    /\ undone' = (undone \/ int_mask # copy[t])
    /\ copy' = [copy EXCEPT ![t] = {}]

(* The hardware takes no message when its FIFO is full.  Thread t writes;  *)
(* the room that others found may be gone then.                            *)
FifoWrite(t, m, others) ==
    IF Len(hwout) < HwCap
    THEN hwout' = hwout \o m /\ passed' = (passed \ {t}) \cup others
    ELSE UNCHANGED hwout /\ passed' = passed \ {t}

(* list_add_tail: a node that is already linked becomes its own neighbour, *)
(* and the list never looks empty again.                                   *)
AddTail == works' = IF works = "empty" THEN "linked" ELSE "broken"

-----------------------------------------------------------------------------
(* The operators named ...Fault are not the program: each is a definition  *)
(* with one mistake in it, which a property of this module excludes.       *)
DirectFault == Len(hwout) < HwCap     \* does not look at the software FIFO

(* mf_mbox_msg_put: with an empty os_outmbox and room in the hardware FIFO *)
(* the message goes there directly ...                                     *)
Direct == out = <<>> /\ Len(hwout) < HwCap

Test ==
    /\ ppc' = IF Direct THEN "direct" ELSE "soft"
    /\ UNCHANGED <<hwout, out, held, queue, passed, rx, reg>>

Put(m) == ppc = "idle" /\ m \notin Range(Tx) /\ msg' = <<m>> /\ Test
PutAgain == ppc = "again" /\ UNCHANGED msg /\ Test

PutDirect ==
    /\ ppc = "direct"
    /\ FifoWrite("put", msg, {t \in {"work"} : held # <<>>})
    /\ ppc' = "idle" /\ msg' = <<>>
    /\ UNCHANGED <<out, held, queue, rx, reg>>

(* ... otherwise into os_outmbox; when that is full too, the output thread *)
(* comes again with the same message.                                      *)
PutSoft ==
    /\ ppc = "soft"
    /\ IF Len(out) < OutCap
       THEN out' = out \o msg /\ ppc' = "queue" /\ msg' = <<>>
       ELSE ppc' = "again" /\ UNCHANGED <<out, msg>>
    /\ UNCHANGED <<hwout, held, queue, passed, rx, reg>>

(* mf_queue_work: link the work under the lock ... *)
QueueWork ==
    /\ ppc = "queue"
    /\ AddTail
    /\ ppc' = "notify"
    /\ UNCHANGED <<hwout, out, msg, wpc, held, wakeup, WQ_RUNNING, passed,
                   unheard, rx, reg>>

(* ... then wake the work thread, or start it and note that it runs in a   *)
(* step of its own.                                                        *)
Notify ==
    /\ ppc = "notify"
    /\ IF WQ_RUNNING
       THEN wakeup' = TRUE /\ ppc' = "idle" /\ UNCHANGED wpc
       ELSE /\ wpc' = IF wpc = "suspended" THEN "check" ELSE wpc
            /\ ppc' = "running" /\ UNCHANGED wakeup
    /\ UNCHANGED <<hwout, out, msg, held, works, WQ_RUNNING, passed, unheard,
                   rx, reg>>

NoteRunning ==
    /\ ppc = "running"
    /\ WQ_RUNNING' = TRUE /\ ppc' = "idle"
    /\ UNCHANGED <<hwout, out, msg, wpc, held, works, wakeup, passed, unheard,
                   rx, reg>>

PutStep == PutAgain \/ PutDirect \/ PutSoft \/ QueueWork \/ Notify \/ NoteRunning

-----------------------------------------------------------------------------
(* workqueue_thread: takes a work, or waits.  A broken list still gives    *)
(* tx_work after list_del.                                                 *)
TakeWork ==
    /\ wpc = "check"
    /\ IF works = "empty"
       THEN wpc' = "wait" /\ UNCHANGED <<works, unheard>>
       ELSE /\ wpc' = "peek" /\ unheard' = FALSE
            /\ works' = IF works = "linked" THEN "empty" ELSE works
    /\ UNCHANGED <<hwout, out, ppc, msg, held, wakeup, WQ_RUNNING, passed, rx, reg>>

WorkWait ==
    /\ wpc = "wait" /\ wakeup
    /\ wakeup' = FALSE /\ wpc' = "check"
    /\ UNCHANGED <<hwout, out, ppc, msg, held, works, WQ_RUNNING, passed,
                   unheard, rx, reg>>

(* p4a_mbox_tx_work: the next message, if any and if there is room.  With  *)
(* os_outmbox not empty no put writes directly until the work thread has   *)
(* taken its message, so test and take are one step.                       *)
AtFullFault == "check"                \* leaves without enabling the interrupt
AtFull == "enable"

WorkTake ==
    /\ wpc = "peek"
    /\ IF out = <<>> THEN wpc' = "check" /\ UNCHANGED <<out, held>>
       ELSE IF Len(hwout) < HwCap
       THEN wpc' = "write" /\ held' = <<Head(out)>> /\ out' = Tail(out)
       ELSE wpc' = AtFull /\ UNCHANGED <<out, held>>
    /\ UNCHANGED <<hwout, ppc, msg, works, wakeup, WQ_RUNNING, passed, unheard,
                   rx, reg>>

WorkWrite ==
    /\ wpc = "write"
    /\ FifoWrite("work", held, {t \in {"put"} : ppc = "direct"})
    /\ wpc' = "peek" /\ held' = <<>>
    /\ UNCHANGED <<out, ppc, msg, works, wakeup, WQ_RUNNING, unheard, rx, reg>>

WorkEnable ==
    /\ UNCHANGED <<hwout, out, ppc, msg, held, works, wakeup, WQ_RUNNING, passed,
                   unheard, rx>>
    /\ \/ wpc = "enable" /\ ReadMask("work") /\ wpc' = "enable2"
       \/ wpc = "enable2" /\ WriteMask("work", "TX") /\ wpc' = "check"

WorkStep == TakeWork \/ WorkWait \/ WorkTake \/ WorkWrite \/ WorkEnable

-----------------------------------------------------------------------------
(* int_stat shows what is not masked; both bits are levels. *)
RxIrq == "RX" \notin int_mask /\ hwin # <<>>
TxIrq == "TX" \notin int_mask /\ Len(hwout) < HwCap

(* __mbox_rx_interrupt: what was kept and all of the hardware FIFO go to   *)
(* os_inmbox; the first message that does not fit is kept, and os_inmbox   *)
(* noted as full.                                                          *)
Arrived == kept \o hwin
Room == InCap - Len(inbox)
Full == Len(Arrived) > Room
KeepFault == <<>>                     \* what does not fit is dropped
KeepFirstFault == <<Head(Arrived)>>   \* msg is not read anew
Keep == <<Arrived[Room + 1]>>
NoteFault == inmbox_full              \* the full box is not noted
Note == TRUE

RxInterrupt ==
    IF Full
    THEN /\ inbox' = inbox \o SubSeq(Arrived, 1, Room)
         /\ kept' = Keep
         /\ hwin' = SubSeq(Arrived, Room + 2, Len(Arrived))
         /\ inmbox_full' = Note
    ELSE /\ inbox' = inbox \o Arrived /\ kept' = <<>> /\ hwin' = <<>>
         /\ UNCHANGED inmbox_full

(* __mbox_tx_interrupt: queue the work; the DSR is all of mf_queue_work. *)
TxInterrupt ==
    /\ AddTail
    /\ IF WQ_RUNNING
       THEN wakeup' = TRUE /\ UNCHANGED <<wpc, WQ_RUNNING, unheard>>
       ELSE /\ WQ_RUNNING' = TRUE /\ UNCHANGED wakeup
            /\ unheard' = (wpc # "suspended")
            /\ wpc' = IF wpc = "suspended" THEN "check" ELSE wpc

(* p4a_mbox_dsr; each half masks its interrupt, RX only when it kept one. *)
Dsr ==
    /\ RxIrq \/ TxIrq
    /\ IF RxIrq THEN RxInterrupt ELSE UNCHANGED <<hwin, kept, inbox, inmbox_full>>
    /\ IF TxIrq THEN TxInterrupt ELSE UNCHANGED queue
    /\ int_mask' = int_mask \cup {irq \in {"RX"} : RxIrq /\ Full}
                            \cup {irq \in {"TX"} : TxIrq}
    /\ UNCHANGED <<hwout, out, ppc, msg, held, passed, rpc, copy, undone>>

-----------------------------------------------------------------------------
(* mf_mbox_msg_get: take a message; if the box was full, note that it is   *)
(* not and enable the interrupt again.                                     *)
Get ==
    /\ rpc = "get" /\ inbox # <<>>
    /\ inbox' = Tail(inbox) /\ rpc' = "test"
    /\ UNCHANGED <<hwin, kept, inmbox_full, tx, reg>>

TestFull ==
    /\ rpc = "test"
    /\ rpc' = IF inmbox_full THEN "clear" ELSE "get"
    /\ UNCHANGED <<hwin, kept, inbox, inmbox_full, tx, reg>>

ClearFull ==
    /\ rpc = "clear"
    /\ inmbox_full' = FALSE /\ rpc' = "enable"
    /\ UNCHANGED <<hwin, kept, inbox, tx, reg>>

GetEnable ==
    /\ UNCHANGED <<hwin, kept, inbox, inmbox_full, tx>>
    /\ \/ rpc = "enable" /\ ReadMask("input") /\ rpc' = "enable2"
       \/ rpc = "enable2" /\ WriteMask("input", "RX") /\ rpc' = "get"

GetStep == Get \/ TestFull \/ ClearFull \/ GetEnable

(* CPU2 reads and writes the hardware FIFOs. *)
Cpu2Get == hwout # <<>> /\ hwout' = Tail(hwout)
           /\ UNCHANGED <<out, ppc, msg, held, queue, passed, rx, reg>>
Cpu2Put(m) == m \notin Range(Rx) /\ Len(hwin) < HwCap /\ hwin' = Append(hwin, m)
              /\ UNCHANGED <<kept, inbox, inmbox_full, rpc, tx, reg>>

Next ==
    \/ \E m \in OutMsg : Put(m)
    \/ \E m \in InMsg : Cpu2Put(m)
    \/ PutStep \/ WorkStep \/ Dsr \/ GetStep \/ Cpu2Get

Spec == Init /\ [][Next]_vars

(* Threads that are ready run: the work thread may spin, but those that    *)
(* put and get are more urgent.  An interrupt that is pending is served,   *)
(* CPU2 empties its FIFO; nobody has to send.                              *)
FairSpec ==
    /\ Spec
    /\ WF_vars(PutStep) /\ WF_vars(WorkStep) /\ WF_vars(GetStep)
    /\ WF_vars(Dsr) /\ WF_vars(Cpu2Get)

-----------------------------------------------------------------------------
(* The type invariant: no queue holds more than it has room for, and a     *)
(* message is in one place only.                                           *)
TypeOK ==
    /\ Len(hwout) <= HwCap /\ Len(hwin) <= HwCap
    /\ Len(out) <= OutCap /\ Len(inbox) <= InCap
    /\ Len(kept) <= 1 /\ Len(held) <= 1 /\ Len(msg) <= 1
    /\ IsInjective(Tx) /\ Range(Tx) \subseteq OutMsg
    /\ IsInjective(Rx) /\ Range(Rx) \subseteq InMsg
    /\ held # <<>> <=> wpc = "write"
    /\ msg # <<>> <=> ppc \in {"again", "direct", "soft"}
    /\ int_mask \subseteq {"TX", "RX"} /\ works \in {"empty", "linked", "broken"}

(* The receiving side, hardware FIFO, static variable and os_inmbox        *)
(* together, is a FIFO queue: nothing is lost, doubled or reordered, though *)
(* messages stay behind in the DSR when the inbox is full.                 *)
Q == INSTANCE FifoQueue WITH Item <- InMsg, items <- Rx, outside <- InMsg \ Range(Rx)
ReceivesInOrder == Q!Spec

(* The sending side, from the put of a message until CPU2 takes it, is one *)
(* too, but for three steps that need a message in the work thread's hands *)
(* (between cyg_mbox_get and the write) and a put that goes directly: the  *)
(* put overtakes that one message; or one of the two found room that the   *)
(* other has used since, and what it writes is lost.                       *)
Overtaken == ppc = "direct" /\ held # <<>> /\ Tx' = hwout \o msg \o held
PutLost   == /\ ppc = "direct" /\ "put" \in passed /\ Len(hwout) = HwCap
             /\ Tx' = hwout \o held \o out
WorkLost  == /\ held # <<>> /\ "work" \in passed /\ Len(hwout) = HwCap
             /\ Tx' = hwout \o out \o msg
SendsInOrder ==
    [][ \/ Tx' = Tx
        \/ hwout # <<>> /\ hwout' = Tail(hwout) /\ Tx' = Tail(Tx)
        \/ ppc = "idle" /\ \E m \in OutMsg : Tx' = Append(Tx, m)
        \/ Overtaken \/ PutLost \/ WorkLost ]_vars

(* What CPU2 sent is read: no message is there from some time on for ever, *)
(* though os_inmbox may be full and the interrupt off, unless the mask was *)
(* spoilt, or it is the message that the DSR keeps: the reader has emptied *)
(* os_inmbox and enabled the interrupt, but the hardware FIFO raises none  *)
(* before CPU2 sends again, and the reader blocks, other than the comment  *)
(* at p4a_mbox.c 327 says ("if mailbox empty").                            *)
Left(m) ==
    /\ kept = <<m>> /\ hwin = <<>> /\ inbox = <<>>
    /\ rpc = "get" /\ "RX" \notin int_mask
MessagesRead ==
    \A m \in InMsg : []<>(m \notin Range(Rx) \/ undone \/ Left(m))

(* What the software FIFO took gets to the hardware: no message is there   *)
(* from some time on for ever, unless the mask was spoilt, or the DSR      *)
(* queued the work of a thread that was started but not yet noted as       *)
(* running (mf_queue_work): it links the work and wakes nobody.            *)
Unheard == unheard /\ wpc = "wait" /\ ~wakeup /\ works = "linked"
SoftwareEmptied ==
    \A m \in OutMsg : []<>(m \notin Range(out) \/ undone \/ Unheard)

=============================================================================
