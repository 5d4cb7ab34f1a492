------------------------------- MODULE MbNand -------------------------------
(***************************************************************************)
(* The nand server (src/src/mf_mbnand.c): the command handler puts CPU2's  *)
(* requests into the FIFO of module MreqbFifo, and the thread takes them   *)
(* out, executes them on the chip and gives them back.  The chip is the    *)
(* emulated one of the test project (nand_stub.c), which allocates blocks  *)
(* and pages when they are first written, or that of the lte project       *)
(* (nand.c), reached through the mtd driver, which may be missing.         *)
(***************************************************************************)
EXTENDS MreqbFifo, Integers, FiniteSetsExt

CONSTANTS
    NBlocks,            \* NEM_BLOCKS_PER_CHIP
    PerBlock,           \* NEM_PAGES_PER_BLOCK
    Total,              \* NEM_PAGE_TOTAL_SIZE, in columns
    Page, Start,        \* pages that CPU2 uses, columns its writes start at
    Data, Erased        \* what it writes; what an erased column holds

ASSUME ChipAssumption ==
    /\ NBlocks \in Nat /\ PerBlock \in Nat \ {0} /\ Total \in Nat \ {0}
    /\ Page \subseteq 0 .. NBlocks * PerBlock - 1
    /\ Start \subseteq 0 .. Total - 1
    /\ Erased \notin Data

VARIABLES
    chip,   \* "stub", "mtd", or "none": get_mtd_info finds no chip
    store,  \* [block -> NULL or [page in block -> NULL or its columns]]
    req,    \* the request in each request block
    ans     \* what the thread has filled in to the block it has, or <<>>

nandVars == <<vars, chip, store, req, ans>>

Column == 0 .. Total - 1
Beyond == NBlocks * PerBlock    \* a page address outside of the chip

(* CPU2 reads and erases inside of the chip, and starts inside of a page:  *)
(* nothing but the write of nand_stub.c checks an address.  A write may    *)
(* ask for more columns than the page has behind its start.                *)
Request ==
    [cmd : {"READPAGE"}, page : Page, column : {0}, len : {Total}]
    \cup [cmd : {"WRITEPAGE"}, page : Page \cup {Beyond}, column : Start,
          len : 1 .. Total, value : Data]
    \cup [cmd : {"ERASEBLOCK"}, page : Page]
    \cup [cmd : {"READID", "GETINFO", "CHIPSELECT", "READ"}]

Columns == [Column -> Data \cup {Erased}]               \* what a page can hold
Pages == [0 .. PerBlock - 1 -> {NULL} \cup Columns]     \* and a block

(* A null pointer points to no request, to no page and to no block. *)
ASSUME PointerAssumption == NULL \notin Request \cup Columns \cup Pages

NandInit ==
    /\ Init
    /\ chip \in {"stub", "mtd", "none"}
    /\ store = [b \in 0 .. NBlocks - 1 |->
                  IF chip = "stub" THEN NULL
                  ELSE [i \in 0 .. PerBlock - 1 |-> [c \in Column |-> Erased]]]
    /\ req = [q \in Block |-> NULL]
    /\ ans = <<>>

-----------------------------------------------------------------------------
page_to_block(p) == p \div PerBlock
page_to_pageinblock(p) == p % PerBlock

(* The columns that a read or a write covers: len is cut at the page end.  *)
Span(r) == r.column .. r.column + Min({r.len, Total - r.column}) - 1

Blank == [c \in Column |-> Erased]

(* What a page holds; one that is not allocated reads as erased. *)
Content(p) ==
    LET block == store[page_to_block(p)]
    IN  IF block = NULL \/ block[page_to_pageinblock(p)] = NULL
        THEN Blank
        ELSE block[page_to_pageinblock(p)]

StubRead(r) ==
    /\ ans' = [ret |-> 0, read |-> [c \in Span(r) |-> Content(r.page)[c]]]
    /\ UNCHANGED store

(* The operators named ...Fault are not the program: each is a definition  *)
(* with one mistake in it, which a property of this module excludes.       *)

(* Allocates the block anew, though it was written. *)
WithPageFault(block, p) ==
    [i \in 0 .. PerBlock - 1 |-> IF i = page_to_pageinblock(p) THEN Blank ELSE NULL]

(* mf_NandWritePage allocates the block and the page if it has to. *)
WithPage(block, p) ==
    LET i == page_to_pageinblock(p)
        pages == IF block = NULL THEN [j \in 0 .. PerBlock - 1 |-> NULL] ELSE block
    IN  IF pages[i] = NULL THEN [pages EXCEPT ![i] = Blank] ELSE pages

Overlay(content, columns, value) ==
    [c \in Column |-> IF c \in columns THEN value ELSE content[c]]

StubWrite(r) ==
    LET b == page_to_block(r.page)
        i == page_to_pageinblock(r.page)
        pages == WithPage(store[b], r.page)
    IN  IF b >= NBlocks
        THEN ans' = [ret |-> -1] /\ UNCHANGED store
        ELSE /\ store' = [store EXCEPT ![b] = [pages EXCEPT ![i] =
                                                  Overlay(pages[i], Span(r), r.value)]]
             /\ ans' = [ret |-> 0]

-----------------------------------------------------------------------------
(* mf_NandEraseBlock: a block that is not allocated is erased already, and *)
(* so is a page.                                                           *)
ErasedBlock(block) ==
    IF block = NULL THEN NULL
    ELSE [i \in DOMAIN block |-> IF block[i] = NULL THEN NULL ELSE Blank]

StubErase(r) ==
    /\ store' = [store EXCEPT ![page_to_block(r.page)] = ErasedBlock(@)]
    /\ ans' = [ret |-> 0]

-----------------------------------------------------------------------------
(* get_mtd_info, which every function of the lte project calls first. *)
NoChip == chip = "none"

(* mf_NandReadID, mf_NandGetInfo and mf_NandChipSelect tell CPU2 about the *)
(* chip, or that there is none, and touch no page.                         *)
Inquire ==
    /\ ans' = [ret |-> IF NoChip THEN -1 ELSE 0]
    /\ UNCHANGED store

(* The columns that the mtd driver is asked for: nothing cuts len.         *)
Asked(r) == r.column .. r.column + r.len - 1

(* The driver reads what the chip holds; a read has no status to look at.  *)
MtdRead(r) ==
    LET columns == store[page_to_block(r.page)][page_to_pageinblock(r.page)]
    IN  /\ ans' = [ret |-> 0, read |-> [c \in Asked(r) |-> columns[c]]]
        /\ UNCHANGED store

(* The chip of the lte project, external but for its status: a program     *)
(* that fails, or that meets a column that was not erased, may leave       *)
(* columns as they were.  Page, column and len go to the driver as they    *)
(* are; what it does with a write that leaves the page or the chip is not  *)
(* known, and such writes are not sent here (MaySend).                     *)
MtdWrite(r) ==
    LET b == page_to_block(r.page)
        i == page_to_pageinblock(r.page)
        written == {c \in Asked(r) : store[b][i][c] # Erased}
    IN  \E status \in {0, -1} :
            /\ ans' = [ret |-> status]
            /\ \E kept \in SUBSET (IF status = 0 THEN written ELSE Asked(r)) :
                  store' = [store EXCEPT ![b][i] = Overlay(@, Asked(r) \ kept, r.value)]

(* An erase that fails may leave pages as they were. *)
MtdErase(r) ==
    LET b == page_to_block(r.page)
    IN  \E status \in {0, -1} :
            /\ ans' = [ret |-> status]
            /\ \E kept \in SUBSET (IF status = 0 THEN {} ELSE DOMAIN store[b]) :
                  store' = [store EXCEPT ![b] =
                               [i \in DOMAIN @ |-> IF i \in kept THEN @[i] ELSE Blank]]

-----------------------------------------------------------------------------
Read(r)  == IF chip = "stub" THEN StubRead(r) ELSE MtdRead(r)
Write(r) == IF chip = "stub" THEN StubWrite(r) ELSE MtdWrite(r)
Erase(r) == IF chip = "stub" THEN StubErase(r) ELSE MtdErase(r)

(* handle_nand_request: what a command does, or the answer of a command    *)
(* nobody knows.  The status of a write or an erase follows ret.           *)
Access(r) ==
    \/ r.cmd = "READPAGE" /\ Read(r)
    \/ r.cmd = "WRITEPAGE" /\ Write(r)
    \/ r.cmd = "ERASEBLOCK" /\ Erase(r)

Execute(r) ==
    \/ r.cmd \in {"READID", "GETINFO", "CHIPSELECT"} /\ Inquire
    \/ r.cmd \in {"READPAGE", "WRITEPAGE", "ERASEBLOCK"} /\
          IF NoChip THEN ans' = [ret |-> -1] /\ UNCHANGED store ELSE Access(r)
    \/ r.cmd = "READ" /\ ans' = [ret |-> -2] /\ UNCHANGED store   \* NOTSUPPORT

-----------------------------------------------------------------------------
(* What CPU2 may send: nand_stub.c refuses a write behind the chip and     *)
(* cuts one at the page end, and without a chip everything is refused; the *)
(* mtd chip gets only writes inside of one of its pages.                   *)
MaySend(r) ==
    chip = "mtd" /\ r.cmd = "WRITEPAGE" => r.page # Beyond /\ r.column + r.len <= Total

(* do_mbnand_request, in the two steps of mreqb_fifo_put. *)
PutRequest(p, q, r) ==
    /\ MaySend(r)
    /\ Put(p, q)
    /\ req' = [req EXCEPT ![q] = r]
    /\ UNCHANGED <<chip, store, ans>>

(* The thread waits for a request and takes it out, ... *)
Fetch(c) ==
    /\ FindEmpty(c) \/ Wait(c) \/ Get(c)
    /\ UNCHANGED <<chip, store, req, ans>>

(* ... executes it, ... *)
Serve(c) ==
    /\ cpc[c] = "got" /\ ans = <<>>
    /\ Execute(req[got[c]])
    /\ UNCHANGED <<vars, chip, req>>

(* Gives it back and forgets the answer, but keeps the request. *)
GiveBackFault(c) ==
    /\ ans # <<>> /\ ans' = <<>>
    /\ Finish(c)
    /\ UNCHANGED <<chip, store, req>>

(* ... and gives it back. *)
GiveBack(c) ==
    /\ ans # <<>> /\ ans' = <<>>
    /\ Finish(c)
    /\ req' = [req EXCEPT ![got[c]] = NULL]
    /\ UNCHANGED <<chip, store>>

Thread(c) == Fetch(c) \/ Serve(c) \/ GiveBack(c)

Raise(p) == Signal(p) /\ UNCHANGED <<chip, store, req, ans>>

NandNext ==
    \/ \E p \in Producers : Raise(p) \/ \E q \in Block, r \in Request : PutRequest(p, q, r)
    \/ \E c \in Consumers : Thread(c)

(* The input thread finishes its put, and the server thread goes on. *)
NandSpec ==
    /\ NandInit /\ [][NandNext]_nandVars
    /\ \A p \in Producers : WF_nandVars(Raise(p))
    /\ \A c \in Consumers : WF_nandVars(Thread(c))

-----------------------------------------------------------------------------
(* Every variable of the server has its type, and a block has a request    *)
(* just as long as it is in the FIFO or in the hands of the thread.        *)
NandTypeOK ==
    /\ TypeOK
    /\ store \in [0 .. NBlocks - 1 -> {NULL} \cup Pages]
    /\ \A q \in Block : req[q] \in Request <=> q \notin Outside
    /\ ans # <<>> => \E c \in Consumers : cpc[c] = "got"

(* The server is the flash memory that CPU2 takes it for: requests take    *)
(* effect in the order they were put, although put and get have two halves *)
(* and a thread between them; lazily allocated pages (nand_stub.c 176-272) *)
(* read like pages of a chip, and a write there that leaves the page or    *)
(* the chip reaches nothing else.  Of the mtd chip this is said for writes *)
(* inside of its pages only.                                               *)
Unserved == LET c == CHOOSE c \in Consumers : TRUE
                held == IF cpc[c] = "got" /\ ans = <<>> THEN <<got[c]>> ELSE <<>>
                order == held \o list
            IN  [k \in 1 .. Len(order) |-> req[order[k]]]
F == INSTANCE Flash WITH
        Range <- Span,
        Block <- LAMBDA r : {p \in Page : page_to_block(p) = page_to_block(r.page)},
        queue <- Unserved, mem <- [p \in Page |-> Content(p)]
IsFlash == F!Spec

(* Every request of CPU2 is given back, the ones that fail too. *)
AllGivenBack == \A q \in Block : req[q] # NULL ~> req[q] = NULL

=============================================================================
