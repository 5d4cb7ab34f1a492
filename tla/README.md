# Formal model of mflib

mflib is the library that lets CPU1 (eCos) work with CPU2 over a mailbox: a
protocol engine that exchanges the addresses of request blocks, and the
services on top of it (network interface, serial ports with an AT and a log
channel, NAND server). This directory holds TLA+ modules of that program, TLC
configurations that check them on small instances, and TLAPS proofs of what
matters most for every instance. `PROJECT.json` lists components, runs,
the lines each definition translates (`map`), disagreements found
(`findings`), hazards and theorems.

    tlc -workers 2 -config Micproto.cfg Micproto.tla
    tlapm Micproto_proof.tla

## 1. Inventory

| component | source | state | operations | made correct by |
|---|---|---|---|---|
| protocol engine | `src/micproto.c` | `output_pending`, `input_pending`, `handle_table`, pool entries of 4 workers, statistics, `struct mreqb` of every block | `mreqb_submit`, `mreqb_submit_and_wait`, `mreqb_giveback`, output, input and pool threads, `mreqb_register_handle` | a block has one owner; requests and responses are not mistaken; no lost wakeup; the context of a waiting call outlives its use; every request reaches CPU2 and is answered |
| request block allocator | `src/mreqb.c` | free list, event flag, extra data pool | `mreqb_waited_alloc`, `mreqb_free` | conservation; nobody waits beside free blocks (not kept, section 3) |
| FIFO of deferring handlers | `src/mreqb_fifo.c` | list, event flag | put, waited_get | no lost wakeup, nothing stranded, order |
| reserve pool | `src/mreqb_reservep.c` | free list | create, alloc, free | conservation; a block comes back clean |
| packet buffer queue | `src/nbuf_queue.c` | linked list with a pointer to the last pointer, count, event flag | put, get, waited_get | pointers well formed, FIFO, no lost wakeup |
| packet buffers | `src/mf_nbuf.c`, `src/mf_memp.c` | free list, reference counts, data pointers | alloc, ref, free, reserve, put, pull | no use after free, no leak |
| net interface | `src/mf_mbnetif.c` | reserve pool, forward backlog | link indications, blocking and asynchronous transmission, reception | everything taken is given back on every path |
| mailbox serial ports | `src/mf_mbserial.c` | ports, status, FIFO, lock | get, register, send, dispatch of CPU2's requests | pieces of a send together, silence after a shutdown, every request answered |
| AT channel | `src/mbser_at.c` | cache ring, `can_send`, line buffer | `mf_ATSend`, notifier, receive | nothing handed to the port twice or reordered, nothing stranded |
| log channel | `src/mbser_log.c` | cache ring, `can_print` | `mf_LogSend`, notifier | the last 4096 characters, all handed to the port by a flush |
| NAND server | `src/mf_mbnand.c`, `project/*/nand*.c` | FIFO, storage | read, write, erase, ... | requests take effect in order, as on a flash memory, and are answered |
| notifier chains | `src/mf_notifier.c` | linked list by priority | register, unregister, call | list whole and sorted, a call reaches everyone who stays |
| threads, work queue | `src/mf_thread.c` | list of works | create, queue_work | each queued work runs |
| mailbox driver | `project/test/p4a_mbox.c` | hardware and software FIFOs, interrupt mask | put, get, ISR, DSR, tx work | FIFO, nothing stuck |
| mailbox (lte) | `project/lte/mailbox.c` | bounded inbox | put, get, ISR | loses messages when full |
| usb wan, usb net | `project/test/usb*.c` | forward queues | forward threads | buffers given back |
| start up | `src/mf_core.c`, `src/mf_bootcpu2.c`, `src/cpu2_boot.S` | init tables | `MF_SysInit`, `MF_SysStart`, boot of CPU2 | order of initialisation, code visible to CPU2 |
| cache maintenance | `include/mf_cache.h`, parts of `micproto.c` | cache lines | clean, invalidate | no stale data, no lost neighbour data |
| the rest | `src/iomux.c`, `src/mf_debug.c`, `board/`, `tools/` | registers, none | | not modelled |

How they interact. A client takes a block (from the allocator or a reserve
pool), fills it and submits it. The output thread moves it into the mailbox.
CPU2 answers by sending the same address back with `RESPONSE_BIT` set; the
input thread hands it to a pool thread, which runs the completion callback:
that callback frees the block, or wakes the caller of
`mreqb_submit_and_wait`. A request of CPU2 arrives in the input thread and
goes to the handler registered for its command, which answers at once or
queues the block in an `mreqb_fifo` for its own thread (serial, NAND). Network
reception copies the packet into an `nbuf`, which goes through an `nbuf_queue`
to a forward thread.

What is hard: the threads of the engine share lists under two locks, but signal
each other outside them; a worker's idle flag is written outside the lock;
blocks are handed over by address, so ownership is a convention; half of the
services keep a cache for the time CPU2 is not up and race with its start up;
the chain of notifiers changes while it is called; the mailbox driver shares a
mask register and a hardware FIFO between threads and a DSR without a lock;
pools run empty in the middle of an operation; indices wrap around.
`PROJECT.json` lists each of these hazards at its line.

Four smaller ones are not in that list. The statistics counters of the engine
are incremented under no lock (`micproto.c` 203), but only printed. The first
two calls of `mf_mbserial_get` for one line may both create the port
(`mf_mbserial.c` 242), but all calls come from the sequential start up. The
boot code is cleaned from the cache at the address behind the copy
(`mf_bootcpu2.c` 41), and a log text longer than its buffer is read behind it,
since `vsnprintf` returns the length it would have had (`mbser_log.c` 149):
both are visible in sequential code, where a model would add nothing.

## 2. The modules

| module | models | composed of |
|---|---|---|
| `Micproto` | the engine with mailbox and CPU2 | |
| `MreqbLifecycle` | abstract: a request block is requested, answered once, completed | refined by `Micproto` |
| `MreqbFifo` | FIFO of a deferring handler | |
| `MbNand` | nand server on its request FIFO, with both chips | extends `MreqbFifo` |
| `Flash` | abstract: a flash memory that executes requests in order | refined by `MbNand` |
| `MreqbPool` | request block allocator with extra data | |
| `FifoQueue` | abstract FIFO queue | refined by `NbufQueue`, and by the receiving side of `P4aMbox` |
| `Nbufs`, `PointerList` | constants only: the packet buffers; a linked list in memory as a sequence | |
| `NbufQueue` | packet buffer queue with its pointers | extends `Nbufs`, `PointerList` |
| `MbNetif` | net interface, buffers, reserve pool, forward thread | extends `Nbufs` |
| `Notifier` | notifier chain with its pointers | extends `PointerList` |
| `MbSerial` | serial port: requests of CPU2, clients, sends in pieces | extends `Notifier` |
| `AtChannel` | AT channel on its serial port | |
| `LogBuffer` | abstract: keeps the last characters | refined by `LogChannel`, with one exception |
| `LogChannel` | log ring with its index arithmetic, on its serial port | |
| `P4aMbox` | mailbox driver of the test project on the work queue | uses `FifoQueue` |
| `ListLemmas` | lemmas about lists, pointers and counting | extended by every proof module |
| `Micproto_proof`, `MreqbPool_proof`, `AtChannel_proof`, `P4aMbox_proof` | the proofs about one module | extend that module |
| `MbNand_proof` | the proofs about `MreqbFifo` and `MbNand` | extends `MbNand` |
| `MbNetif_proof` | the proofs about `MbNetif` and, at its end, `NbufQueue` | extends both, which share only `Nbufs` |
| `MbSerial_proof` | the proofs about `Notifier` and `MbSerial` | extends `MbSerial` |

Each module stands for one file or two, one action for one critical section
or one access of shared data outside the locks. Definitions keep the names of
the source where there is one.

**Micproto.** `output_pending` and `input_pending` are the two lists;
`output_flag` is the eCos flag of the output thread; `unsignalled` holds the
threads that are in `mreqb_submit` between the unlock and
`cyg_flag_setbits`. `opc`/`batch`, `ipc`/`icur`/`iscan` and `wpc`/`wcur` are
the places and local variables of the threads; `running`, `wakeup` and `data`
are `pool_entry_t`; `cblk`/`done` stand for a caller's
`mreqb_submit_and_wait` and its `ctx`. The mailbox is a bounded FIFO in each
direction; CPU2 takes, answers in any order and sends requests of its own
(`Cpu2Get`, `Cpu2Put`). Of a block only `RESPONSE_BIT` (`resp`) and the
context pointer of its completion (`context`) matter. Which handler defers is
a free choice (`InputGiveback`, `InputDefer`). What is left out: the cache
maintenance around a message, `mreqb_register_handle` (start up only), and a
timeout of `mreqb_submit_and_wait`: the only call in the repository passes 0,
which waits without limit (`WaitOverFault` shows what a timeout would do); the
statistics, which are only printed; and a block whose `complete` is NULL, which
nobody would get back: everything in the repository that submits a block sets a
callback (`mf_mbserial.c` 211, `micproto.c` 253, `mf_mbnetif.c` 141, 164, 234,
265). A message that is the address of no request block, one without the magic
number, is `NULL` in the mailbox (`Cpu2PutInvalid`, `InputInvalid`); `Strays` says
whether CPU2 sends any.

**MbNetif.** Buffers carry a reference count, blocks their arguments (`argc`,
`ranges`), context and callback. The requests in flight may complete at any time
and in any order; `Micproto` is what justifies that each completes once.
The client is the forward thread of `project/test/usbwan.c`.

**AtChannel, LogChannel.** Both cache while CPU2 is not up. The AT channel is
modelled with commands as units (one command fills one request block, the
ring drops the oldest), its threads and its port; the log channel with the
arithmetic of the ring, byte by byte, indices modulo a power of two, which
wrap around any number of times. In both, the end of the flush of a start up
and `can_send = 1` (`can_print = 1`) are two steps, and `mf_mbserial_send`
tests the status of the port in a step of its own, before it takes the lock of the
port (`admitted` in `AtChannel`: threads that found it up). A send passes on as
much as there are request blocks for. `AtChannel` counts the blocks; in
`LogChannel` a send may stop at any multiple of `PRE_ALLOC_DATA_SIZE`, since the
other ports use the same reserve pool. A flush of the log that crosses the end of
the buffer is two sends under the lock of the ring, and a direct send may come
between them.

**Notifier, MbSerial.** The chain is `head` and the `next` fields of the
blocks. Registering and unregistering run with interrupts off and are one step;
the call of the chain holds no lock, reads the successor of a block before it
calls it, and is one step per block. `called`, `since` and `left` are history.
`MayRegister` states what the chain assumes of its clients without testing it.
`MbSerial` puts the dispatch thread, which calls the chain, beside the senders;
the test of the status, the lock and each piece of a send are steps of their
own. Its FIFO is the abstract sequence `pending`.

**MbNand.** Extends the request FIFO with what the blocks carry: requests
(read, write or erase; anything else answers without a change) and a storage.
The chip is the emulated one of `project/test/nand_stub.c`, whose blocks and
pages are allocated at the first write, the mtd chip of `project/lte/nand.c`,
or none; `Execute` is the handler with the chip's function. The functions of the mtd
chip check no address and cut no length, and what the driver makes of a
write that leaves its page is not in the repository, so `MaySend` sends that chip
writes inside of a page only; the emulated chip gets the others, too. `Flash` knows nothing
of allocation or of the FIFO.

**P4aMbox.** Two hardware and two software FIFOs, the mask register with the
copy a thread holds between its read and its write, the static message of the
DSR (`kept`), and the default work queue with its list, its event flag and its
late start. The DSR is one step: no thread runs in it. Three variables are history:
`undone`, a write of the mask dropped the change of another; `passed`, the
threads that found room in the hardware FIFO which another has used since;
`unheard`, the work in the list was queued by the DSR while the work thread was
started and not yet noted as running.

**MreqbPool, MreqbFifo, NbufQueue.** An eCos event flag with
`CYG_FLAG_WAITMODE_CLR` is a bit: setting it releases one blocked thread, which
clears it again; with none blocked the bit stays set. `NbufQueue` keeps
`head`, `last` and the `next` fields of the buffers. The walk along such a list
(`Elements` in `PointerList`) is a function on the natural numbers, cut off at a
number of nodes the caller gives, so that it is defined of a list with a circle, too.

Definitions named `...Fault` are not the program. Each is the definition it is
named after (or that follows it) with one plausible mistake; replacing the
definition by it makes TLC find a violated property, so each property is
known to depend on the code.

## 3. What the runs show

| run | cfg | shows |
|---|---|---|
| `micproto` | `Micproto` | ownership, direction, wakeups of the output thread, contexts, order of requests, refinement of `MreqbLifecycle` |
| `micproto_live` | `Micproto_live` | with two pool threads: requests reach CPU2, requests of CPU2 are answered |
| `micproto_pending` | `Micproto_pending` | violation: a parked response can stay (below) |
| `nbuf_queue` | `NbufQueue` | pointers, delivery in spite of few signals, refinement of `FifoQueue` |
| `mreqb_pool` | `MreqbPool` | conservation with three threads; threads end up asleep on free blocks in one way only |
| `net_interface` | `MbNetif` | no use after free, receive buffers and answered blocks come back, the only leak is the one of a transmission that finds no request block |
| `nand` | `MbNand` | refinement of `Flash`, wakeups of the FIFO, every request given back |
| `notifier` | `Notifier` | the chain stays whole and sorted, a call reaches all who stay and only those who were there |
| `mbserial` | `MbSerial` | pieces of a send stay together, silence after the last shutdown, CPU2 gets its answers although the chain changes |
| `at_channel` | `AtChannel` | nothing sent twice, commands on their way keep their order, a start up flushes, a command is left behind in one way only |
| `log_ring` | `LogChannel` | the ring implements `LogBuffer` (it keeps the last characters and hands all of them to the port, in order), but for a range just before the wrap of the indices |
| `p4a_mbox` | `P4aMbox` | receiving is a FIFO queue; sending is one but for three steps of a direct put beside the work thread; messages go on unless the mask was spoilt, the work queue was just starting, or, receiving, the message is the one the DSR keeps |

A type invariant is a property of its own in `Micproto`, `MbNand` and `P4aMbox`;
elsewhere it is a conjunct of the first property.

### Disagreement between the code and a comment

**A parked response can stay parked** (`PendingPicked`, `micproto.c` 503-516).
A worker finds `input_pending` empty and unlocks; before it clears `running`
the dispatcher finds all workers running and parks a response. Only the next
response makes a worker look again. A caller that waits for that response
hangs until then.

### Defects that appear as exceptions of properties that hold

Each of these properties says that the defect is the *only* way to break what a
reader would expect, and what its limits are.

* `LeakOnlyWithoutReqb`: no step of the net interface leaves a reference
  behind, except a transmission that finds no request block:
  `mf_NetifPacketXmitAsync` takes its reference first and returns -1 without
  dropping it, and its caller (`project/test/usbwan.c`) drops only its own.
* `StrandedOnlyByTake`: a thread can sleep while blocks are free, although
  the comment at `mreqb.c` 391 has it block "when memory not available".
  `__mreqb_pool_free` signals only when the list was empty (325), and a
  signal wakes one thread: with two threads waiting and two blocks freed, the one
  that was woken takes a block and goes its way, and the other sleeps with a block in
  the list, until the list has run empty and filled again. Such an allocation, which
  takes one of several blocks and does not pass the signal on, is the only way; no
  free, no step of a thread that comes to wait and no other allocation does it.
  The repository calls the waiting allocator at start up only, so it does not meet this.
* `StrandedOnlyByOpen`: a command is left in the cache of an open AT channel with
  nobody about to flush it only if it came between the flush of a start up
  and `can_send = 1` (`mbser_at.c` 233-234). The log channel has the same gap
  and does not even test again; no property is stated about it.
* `ImplementsLogBuffer`: when start and end of the log ring both lie in the last
  buffer length before the indices wrap to 0, `boundary` is 0, smaller than
  `end`, and the flush sends something else than the range (`mbser_log.c` 55-61).
  A range that runs across the wrap is sent rightly.
* `SendsInOrder`: from the put of a message until CPU2 takes it, messages are lost
  or overtaken in three steps only, all of which need a message that the work
  thread has taken from `os_outmbox` and not yet written (`p4a_mbox.c` 233-235)
  and a put that goes directly (304): the put overtakes that one message, or one
  of the two found room that the other has used since, and what it writes is lost.
* `MessagesRead`: what CPU2 sent is read, with the exception of one message. With
  `os_inmbox` full the DSR keeps a message in its static `msg` and masks the RX
  interrupt (`p4a_mbox.c` 190-203). The reader unmasks it after its next get
  (337-340), but if the hardware FIFO is empty there is no interrupt, nobody pushes
  the kept message, and `mf_mbox_msg_get` blocks until CPU2 sends another;
  its comment (327) says that it blocks "if mailbox empty". The property allows
  that state (`Left`), and a mask that a read-modify-write spoilt by undoing another
  (98-106), and nothing else.
* `SoftwareEmptied`: what the software FIFO took gets to the hardware, unless the
  mask was spoilt in that way, or the DSR queued the work while the thread of the work
  queue was started and not yet noted as running (`mf_thread.c` 221-226).

One more shows only in the priorities, which are not modelled. A work that is linked
twice (`mf_thread.c` 218, `works = "broken"`) leaves a list that never looks empty
again. Messages go on, but the work thread never sleeps again: it spins at priority
10 (`mf_thread.c` 109) and starves every thread that is less urgent. Those are the
response pool threads, to which `CFG_UCLINUX` gives priority 16 (`micproto.c` 47,
88-91) unless `CYG_HAL_LTE_ARM2_ENABLE` puts them at 3 (79-82).

### Bounds

| module | bound | why it is enough |
|---|---|---|
| Micproto | 2 own blocks (1 in `micproto_live`), 1 of CPU2, 1 caller, 1 handler, 1 worker (2 in `micproto_live`), mailbox depth 1; invalid messages (`Strays`) in `micproto_live`, one in the mailbox at a time | depth 1 makes the mailbox full after one message; with more blocks than workers the dispatcher meets busy workers and parks; the caller, the handler and the input thread meet in `output_pending`. A worker that has freed a block is still `running`, so even one block can find both workers busy. Larger instances (2 callers; 2 workers with 2 blocks) were run for the safety properties, and the theorems cover every size |
| NbufQueue | 4 buffers | empty, one, and longer lists with a buffer in the consumer's hands |
| MbNand | a chip of 2 blocks with 2 pages of 2 columns, 3 of the pages used and, for the emulated chip, one address behind it (`Beyond`) and writes longer than the rest of the page; one value, 2 request blocks | two requests wait while one is executed; writes hit an allocated page, an unallocated page of an allocated block, and an unallocated block; the theorem about the FIFO covers every number of blocks and producers |
| MreqbPool | 3 blocks, 3 threads, 2 units | list and extra data both run empty, with waiting threads |
| MbNetif | 2 buffers, 2 blocks, 2 clients, 1 worker | both pools run empty in the middle of every operation; 3/3/2/1 was also run, 88k states |
| Notifier | 4 clients of 2 priorities | the next block of a call leaves, its successor leaves, both leave, and others come on either side |
| MbSerial | 2 clients, 2 senders, 2 pieces, 2 blocks, 1 request of CPU2 at a time (`MaxPending`) | a send runs out of blocks between its pieces; both clients come and go in a call, and without the rule of `MayRegister` a call of two already need not end |
| AtChannel | 3 commands, 2 senders, cache of 2, pool of 2 | the cache overflows, a send finds the pool empty, two senders and the notifier flush |
| LogChannel | ring of 4, texts up to 2 (`MaxText`), indices modulo 16, request blocks of 2 characters | the port takes none, half or all of a full ring; every position of start and end in four ring lengths and across the wrap; two characters |
| P4aMbox | hardware FIFO, `os_outmbox`, `os_inmbox` of depth 1; 2 messages each way | every FIFO is full with one message, and the second message finds it so; a message is in one place, so it comes again when CPU2 or the reader has had it |

Deadlock is checked in every run, and none of the configurations uses symmetry.

### Fairness

eCos is preemptive with time slicing among equal priorities. The threads of the
engine and of the services block between two messages, so a ready thread
runs: weak fairness of each thread's step. The work thread of `mf_thread.c` is the
exception once its work is linked twice (above): weak fairness then holds for what is
not less urgent, which in `P4aMbox` it is, because the threads that put and
get have priorities 2 to 4. `Micproto` stands beside a mailbox without such a
thread, or with its pool threads at priority 3. Only `PendingPicked` needs the
fairness of the pool threads: both properties of `micproto_live` hold without it.

CPU2 is obliged only to empty its side of the mailbox in `Micproto`; it need
not answer, and nobody has to submit. In `MbNetif` too an answer may never come, or
never reach a worker (`PendingPicked` shows how): completions have no fairness, and
`ReqbRecycled` speaks of a block whose answer was taken. In `AtChannel` a mutex
passes to its waiters in turn (strong fairness of each thread). In `MbSerial` weak
fairness of a sender's steps is enough, since nothing that is stated depends
on who gets the lock; CPU2 answers the pieces, and a callback returns. In `P4aMbox`
an interrupt that is pending and not masked is served, and CPU2 reads its FIFO;
nobody has to send or, in any module, to register. In `MbNand` the thread runs, and
CPU2 owes nothing. `MreqbPool` and `LogChannel` assume nothing, and state only
safety: the callers of the waiting allocator keep their blocks for ever.

## 4. What is proved

Every safety property and every refinement that a passing run checks is also a
theorem, for all values of the constants, with one exception
(`ImplementsLogBuffer`, see the end of this section). The assumptions are those
of the modules: NULL and other special values differ from the elements beside
them; sets of threads are disjoint where a variable is indexed by several;
depths and counts are natural numbers, positive where the source has a buffer
that holds something. Sets are finite only where something is counted
(`PoolAssumption`, `NetifAssumption`, `ChainAssumption`); the number of threads,
blocks and messages is free otherwise.

**Micproto** (`Micproto_proof`). None of `TypeOK`, `OneOwner`, `Direction`,
`CtxAlive` is inductive alone. The invariant proved is

    IInv == TypeOK /\ PcInv /\ OneOwner /\ Direction /\ CtxInv

`PcInv` ties each thread's place to its local variables (a worker that waits
has no block, and its semaphore counts at most one and only while it is
`running`, hence the dispatcher never overwrites a block in `data`);
`CtxInv` ties a block's context to the caller in the call. `UniqueHolder` sees a
block in exactly one place `(kind, index)`. Each action takes at most one block
from one place to another (`MoveOne`) or moves none (`MoveNone`), except
`OutputTake`, which moves a whole list; so each action's proof shows which
`Holds` changes and that the new place `Fits` the block.

* `Invariance`: `Spec => []IInv`; from it `TypeCorrect`, `EveryBlockHasOneOwner`,
  `NoMessageMistaken` and `ContextsAlive` (`CtxAlive` follows from `CtxInv` and
  `OneOwner`: the caller that was woken is the only holder).
* `NoLostWakeup`: `OutputWakeup` is inductive with `TypeOK`: whoever makes the
  list non-empty is in `unsignalled` until it sets the flag, and the thread
  sleeps only after it saw the list empty.
* `MicprotoImplementsLifecycle`: initial states map to initial states and each
  action to a step of `MreqbLifecycle` or a stutter (one lemma per step that is not
  a stutter), `IInv` supplying the guards.
* `RequestsKeepOrder`: the three lists on the way to CPU2, one behind the other,
  are the list `Outgoing`. A step appends a request to it that was not in it
  (`OneOwner`), inserts a response (no request, by `Direction`) somewhere inside,
  takes its first element off, or only moves elements between the three
  (`OutputInv`: a batch is complete before the next is taken). Each of these
  keeps the order of the requests (`KeptAppend`, `KeptInsert`, `KeptTail`).

**MreqbFifo and MbNand** (`MbNand_proof`). `FifoWakesConsumer`: with `TypeOK`,
`NoLostWakeup` is inductive for any number of producers and one consumer
(`ConsumerAssumption`, as in the source). With two consumers it would be
false: a second signal finds the bit already set. The server's steps are steps
of the FIFO (`NandUsesFifo`), so its thread is woken, too (`NandWakesThread`).
`ImplementsFlash` maps the blocks in the FIFO and the one in the thread's hands
to the queue of `Flash`, and the storage of either chip to its pages: an
unallocated page reads as an erased one. The invariant adds to the types that a
block is in one place, that just the blocks in the server carry a request, and
that a chip which does not allocate its pages has all of them. A request for the
mtd chip writes inside of its page (`MaySend`), which is the only way in which the
theorem says less of that chip than of the emulated one. A division of
page numbers into blocks and pages is proved about once (`Address`).

**MreqbPool** (`MreqbPool_proof`). `Conserved` becomes inductive with
`MineInv`: a thread has a block of its own just while it waits for extra data.
The count of extra data follows the set of blocks that have some.
`PoolStrandedOnlyByTake` goes through the actions: a free into an empty list finds a
blocked thread, which it wakes, or leaves the bit (`SignalHeard`); a thread
that comes to wait was on its way before, and takes the bit if it is set.

**MbNetif** (`MbNetif_proof`). `IInv` says which thread has which block and
buffer at which place (`ClientInv`), what the blocks in flight carry (`BlockInv`),
that those in the pool carry nothing (`PoolInv`), and that a buffer has at least
as many references as users. `Users` is a sum of cardinalities; the proof shows of
every step by how much each summand changes (`UsersAre`, `UsersChange`), and
so that references and users change together. The same account proves `OnlyLeak`:
their difference grows in one step only.

**NbufQueue** (in `MbNetif_proof`). `QueueInv` has a sequence along which the
pointers lead, `last` behind its end, and no stale `next` field outside of it.
`QueueWellLinked` and `QueueImplemented` follow, the second by showing that put
appends to the sequence and get takes its head.

**AtChannel** (`AtChannel_proof`). The commands on their way, those in requests, in
the batch of a flush and in the cache, form one sequence. Every step can be seen as
putting new commands into that sequence at one place and taking some out
(`Step`, with `Within` for "a part of, in the same order"), which is all that
`SentOnce` and `NeverOvertaken` need. `NeverOvertaken` is about commands that are
on their way: a direct send is a new command that comes in in front of the batch and the
cache, and so before commands that were accepted earlier. `OnlyOpenStrands` goes through the actions.

**P4aMbox** (`P4aMbox_proof`). `IInv` says that the lists of each direction are
disjoint, within their depths and without repetition, and that a thread that
found the software FIFO empty still finds it so when it writes to the hardware
(`ppc = "direct" => out = <<>>`), because nobody else fills it, and that a thread
which found room in the hardware FIFO still has it unless it is in `passed`.
`SendingInOrder` follows each message from its put, the one in the putter's hands
included, and leaves just the three steps of `SendsInOrder`. The receiving side
is a `FifoQueue` of the three lists behind each other; the loop of the
DSR is one step that distributes a sequence over them (`Distributed`).

**Notifier** (in `MbSerial_proof`). The chain holds no lock while it is called, so
the call follows pointers of blocks that have left. `ChainInv` therefore has,
beside the sequence of the blocks, a function `pos`: the place of a block in the
chain, or, of a block that has left during the call, the place its stale pointers
lead to. Whoever was there from the start and has not been called has a place
at or behind that of `next_nb`. Registering shifts places, unregistering a
block leaves it with the place of its successor, and a call moves on by
one; this gives `CallReachesEveryone` and `CallReachesOnlyThose`. It is here that the
rule `MayRegister` is needed: a block that comes back during the call would have
its stale pointers changed.

**MbSerial** (`MbSerial_proof`). Its steps are steps of the chain (`PortChainStep`).
`PiecesAlwaysTogether` needs that the last piece on the wire is the last one of
the sender that has the lock, until CPU2 has taken everything.

What tlapm cannot do, and what stays with TLC:

* all liveness properties, which need fairness and `ENABLED`: `EveryPacketTaken`,
  `RxBufferFreed`, `ReqbRecycled`, `StartupFlushes`, `MessagesRead`,
  `SoftwareEmptied`, `ShutdownQuiesces`, `RequestsAnswered`, `AllGivenBack`,
  `RequestsReachCpu2`, `RemoteRequestsAnswered`;
* `ImplementsLogBuffer`: one `mf_LogSend` puts a text into the ring character by
  character, a fold, whose value for a text of every length needs an induction with
  an operator as parameter; and its indices are products and remainders
  with a ring length that is not a number, which the SMT solver does not decide.

The walk along pointers would be an induction, too. `ElementsAre` avoids it: of the
places where walk and sequence differ there would be a first, and there they
cannot differ.

## 5. Not modelled, and the plan

Not modelled, with the reason:

* `project/lte/mailbox.c`: an eCos mailbox and one external call. A message
  that finds its inbox full is dropped, and the engine has no timeout and no
  retry: over this mailbox every liveness property is simply false.
* Start up (`mf_core.c`, `mf_bootcpu2.c`, `cpu2_boot.S`): sequential, run once
  before there is another thread; the modules start in the state it leaves. The
  sizes of the pools it fills with the waiting allocator are board parameters
  that are not in the repository.
* Cache maintenance (`mf_cache.h`, the ranges of `micproto.c`): which data share
  a line is decided by the linker and by alignment attributes, not by the code;
  the engine is modelled on coherent memory.
* The receive path of `mbser_at.c`: a sequential reassembly of lines that shares
  no state with the sending side.
* The half of `mreqb.c` that is not compiled (an extra data pool of its own).
* `iomux.c`, `mf_debug.c`, `board/`, the Makefiles and `tools/`: register writes
  without state other parts read, output, constants, and a host tool that edits
  a file.
* The moves of the data pointers of a packet buffer, statistics, formatting.

Proofs to come: `LogChannel` with its text cached by what the ring holds
afterwards rather than by a fold, which would let `TypeOK` and the refinement be
proved for every length, and the two indices relative to the wrap.
