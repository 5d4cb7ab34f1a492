---------------------------- MODULE MbNand_proof ----------------------------
(***************************************************************************)
(* Proofs about the nand server: first about the FIFO of a deferring       *)
(* command handler (module MreqbFifo), then about the server that runs on  *)
(* it, and that it implements the flash memory of module Flash.            *)
(***************************************************************************)
EXTENDS MbNand, ListLemmas, TLAPS

(* The invariant of the FIFO is inductive with the type invariant alone: a *)
(* consumer that is about to block depends on the bit, one that is blocked *)
(* only on the producers.                                                  *)
FifoInv == TypeOK /\ NoLostWakeup

(* A consumer that is to block can only be the one that took the bit.      *)
LEMMA OneConsumer == \A c, d \in Consumers : c = d
  BY ConsumerAssumption

(* The types are kept by every step of producers and consumers. *)
LEMMA TypeStep == TypeOK /\ [Next]_vars => TypeOK'
<1> SUFFICES ASSUME TypeOK, [Next]_vars PROVE TypeOK'
  OBVIOUS
<1> USE DEF TypeOK
<1>1. ASSUME NEW p \in Producers, NEW b \in Block, Put(p, b)
      PROVE  TypeOK'
  BY <1>1 DEF Put, Outside
<1>2. ASSUME NEW p \in Producers, Signal(p)
      PROVE  TypeOK'
  BY <1>2 DEF Signal, SetBits
<1>3. ASSUME NEW c \in Consumers, FindEmpty(c) \/ Wait(c) \/ Finish(c)
      PROVE  TypeOK'
  BY <1>3 DEF FindEmpty, Wait, Finish
<1>4. ASSUME NEW c \in Consumers, Get(c)
      PROVE  TypeOK'
  <2>1. Head(list) \in Block /\ Tail(list) \in Seq(Block) /\ Head(list) # NULL
    BY <1>4, NullAssumption DEF Get
  <2> QED
    BY <1>4, <2>1 DEF Get
<1>5. CASE UNCHANGED vars
  BY <1>5 DEF vars
<1> QED
  BY <1>1, <1>2, <1>3, <1>4, <1>5 DEF Next, ConsumerStep

(* The heart of the argument, action by action: a block that arrives has   *)
(* its signal coming, a signal finds the consumer or leaves the bit, and   *)
(* a consumer blocks only without the bit.                                 *)
LEMMA WakeupStep == FifoInv /\ [Next]_vars => NoLostWakeup'
<1> SUFFICES ASSUME TypeOK, NoLostWakeup, [Next]_vars,
                    NEW d \in Consumers, list' # <<>>
             PROVE  /\ cpc'[d] = "blocked" => Coming'
                    /\ cpc'[d] = "sleep" => wakeup' \/ Coming'
  BY DEF FifoInv, NoLostWakeup, Coming
<1>1. ASSUME NEW p \in Producers, NEW b \in Block, Put(p, b)
      PROVE  Coming'
  BY <1>1 DEF Put, Coming, TypeOK
<1>2. ASSUME NEW p \in Producers, Signal(p)
      PROVE  cpc'[d] # "blocked" /\ (cpc'[d] = "sleep" => wakeup')
  BY <1>2, OneConsumer DEF Signal, SetBits, TypeOK
<1>3. ASSUME NEW c \in Consumers, FindEmpty(c)
      PROVE  FALSE
  BY <1>3 DEF FindEmpty
<1>4. ASSUME NEW c \in Consumers, Wait(c)
      PROVE  cpc'[d] # "sleep" /\ (cpc'[d] = "blocked" => Coming')
  BY <1>4, OneConsumer DEF Wait, TypeOK, NoLostWakeup, Coming
<1>5. ASSUME NEW c \in Consumers, Get(c) \/ Finish(c)
      PROVE  cpc'[d] \notin {"sleep", "blocked"}
  BY <1>5, OneConsumer DEF Get, Finish, TypeOK
<1>6. CASE UNCHANGED vars
  BY <1>6 DEF vars, NoLostWakeup, Coming
<1> QED
  BY <1>1, <1>2, <1>3, <1>4, <1>5, <1>6 DEF Next, ConsumerStep

(* The invariant holds in every reachable state of the FIFO. *)
THEOREM FifoInvariance == Spec => []FifoInv
<1>1. Init => FifoInv
  <2> SUFFICES ASSUME Init PROVE TypeOK /\ NoLostWakeup
    BY DEF FifoInv
  <2>1. list = <<>> /\ list \in Seq(Block)
    BY DEF Init
  <2>2. TypeOK
    BY <2>1 DEF Init, TypeOK
  <2>3. NoLostWakeup
    BY <2>1 DEF NoLostWakeup
  <2> QED
    BY <2>2, <2>3
<1>2. FifoInv /\ [Next]_vars => FifoInv'
  BY TypeStep, WakeupStep DEF FifoInv
<1> QED
  BY <1>1, <1>2, PTL DEF Spec

(* For any number of producers and blocks, the consumer of the FIFO is     *)
(* never blocked on a block without a wakeup on its way.                   *)
THEOREM FifoWakesConsumer == Spec => []NoLostWakeup
<1>1. FifoInv => NoLostWakeup
  BY DEF FifoInv
<1> QED
  BY <1>1, FifoInvariance, PTL

-----------------------------------------------------------------------------
(* The server.  Its steps are steps of the FIFO, or leave it alone.        *)
LEMMA NandStep == [NandNext]_nandVars => [Next]_vars
<1> SUFFICES ASSUME [NandNext]_nandVars PROVE [Next]_vars
  OBVIOUS
<1>1. ASSUME NEW p \in Producers, Raise(p)
      PROVE  Next
  BY <1>1 DEF Raise, Next
<1>2. ASSUME NEW p \in Producers, NEW q \in Block, NEW r \in Request,
             PutRequest(p, q, r)
      PROVE  Next
  BY <1>2 DEF PutRequest, Next
<1>3. ASSUME NEW c \in Consumers, Fetch(c) \/ GiveBack(c)
      PROVE  Next
  BY <1>3 DEF Fetch, GiveBack, Next, ConsumerStep
<1>4. ASSUME NEW c \in Consumers, Serve(c)
      PROVE  UNCHANGED vars
  BY <1>4 DEF Serve
<1>5. CASE UNCHANGED nandVars
  BY <1>5 DEF nandVars
<1> QED
  BY <1>1, <1>2, <1>3, <1>4, <1>5 DEF NandNext, Thread

(* The server uses its FIFO as the FIFO's specification says, *)
THEOREM NandUsesFifo == NandSpec => Spec
<1>1. NandInit => Init
  BY DEF NandInit
<1> QED
  BY <1>1, NandStep, PTL DEF NandSpec, Spec

(* so its thread is not left blocked on a request either. *)
THEOREM NandWakesThread == NandSpec => []NoLostWakeup
  BY NandUsesFifo, FifoWakesConsumer, PTL

-----------------------------------------------------------------------------
(* A block is in the FIFO once, or in the hands of the thread.             *)
Once ==
    /\ IsInjective(list)
    /\ \A c \in Consumers : got[c] \notin Range(list)

(* A chip that does not allocate its pages has all of them.                *)
StoreInv ==
    /\ chip \in {"stub", "mtd", "none"}
    /\ store \in [0 .. NBlocks - 1 -> {NULL} \cup Pages]
    /\ chip # "stub" =>
          store \in [0 .. NBlocks - 1 -> [0 .. PerBlock - 1 -> Columns]]

(* There is a request in the blocks of the FIFO and of the thread.         *)
RequestInv ==
    /\ req \in [Block -> Request \cup {NULL}]
    /\ \A q \in Block : req[q] # NULL <=> q \notin Outside
    /\ \A q \in Block : req[q] # NULL => MaySend(req[q])

AnswerInv == ans # <<>> => \E c \in Consumers : cpc[c] = "got"

NandInv == TypeOK /\ Once /\ StoreInv /\ RequestInv /\ AnswerInv

(* The blocks outside of the server, with its one thread c. *)
LEMMA OutsideIs ==
    ASSUME TypeOK, NEW c \in Consumers
    PROVE  Outside = Block \ (Range(list) \cup {got[c]})
<1>1. Range(got) = {got[c]}
  BY OneConsumer DEF TypeOK, Range
<1> QED
  BY <1>1 DEF Outside

(* A page address is a block and a page in the block. *)
LEMMA Division ==
    ASSUME NEW n \in Nat, NEW k \in Nat \ {0}
    PROVE  /\ n \div k \in Nat
           /\ n % k \in 0 .. k - 1
           /\ n = k * (n \div k) + (n % k)
  OBVIOUS

LEMMA Quotient ==
    ASSUME NEW n \in Nat, NEW k \in Nat \ {0}, NEW p \in Nat, p < n * k
    PROVE  p \div k < n
<1>1. PICK d \in Nat, m \in Nat : d = p \div k /\ p = k * d + m
  <2>1. p \div k \in Nat /\ p % k \in Nat /\ p = k * (p \div k) + (p % k)
    BY Division
  <2> QED
    BY <2>1, Zenon
<1>2. ASSUME d >= n PROVE FALSE
  <2>1. PICK e \in Nat : d = n + e
    BY <1>2
  <2>2. k * d = n * k + k * e
    BY <2>1
  <2>3. PICK x \in Nat : x = n * k
    OBVIOUS
  <2>4. PICK y \in Nat : y = k * e
    OBVIOUS
  <2>5. p = x + y + m
    BY <1>1, <2>2, <2>3, <2>4
  <2> QED
    BY <2>3, <2>5
<1> QED
  BY <1>1, <1>2

LEMMA Address ==
    /\ \A p \in Page : /\ page_to_block(p) \in 0 .. NBlocks - 1
                       /\ page_to_pageinblock(p) \in 0 .. PerBlock - 1
    /\ \A p, q \in Page : /\ page_to_block(p) = page_to_block(q)
                          /\ page_to_pageinblock(p) = page_to_pageinblock(q)
                          => p = q
    /\ page_to_block(Beyond) = NBlocks
    /\ Beyond \notin Page
<1>1. /\ NBlocks \in Nat /\ PerBlock \in Nat \ {0}
      /\ NBlocks * PerBlock \in Nat
      /\ \A p \in Page : p \in Nat /\ p < NBlocks * PerBlock
  BY ChipAssumption
<1>2. ASSUME NEW p \in Page
      PROVE  /\ page_to_block(p) \in 0 .. NBlocks - 1
             /\ page_to_pageinblock(p) \in 0 .. PerBlock - 1
             /\ p = PerBlock * page_to_block(p) + page_to_pageinblock(p)
  <2>1. page_to_block(p) < NBlocks
    BY <1>1, Quotient DEF page_to_block
  <2>2. /\ page_to_block(p) \in Nat
        /\ page_to_pageinblock(p) \in 0 .. PerBlock - 1
        /\ p = PerBlock * page_to_block(p) + page_to_pageinblock(p)
    BY <1>1, Division DEF page_to_block, page_to_pageinblock
  <2> QED
    BY <1>1, <2>1, <2>2
<1>3. page_to_block(Beyond) = NBlocks
  BY <1>1 DEF page_to_block, Beyond
<1>4. Beyond \notin Page
  BY <1>1 DEF Beyond
<1>5. ASSUME NEW p \in Page, NEW q \in Page,
             page_to_block(p) = page_to_block(q),
             page_to_pageinblock(p) = page_to_pageinblock(q)
      PROVE  p = q
  BY <1>2, <1>5, Zenon
<1> QED
  BY <1>2, <1>3, <1>4, <1>5, Zenon

(* What a request of CPU2 carries, and the columns it covers. *)
LEMMA Requests ==
    ASSUME NEW r \in Request
    PROVE  /\ r.cmd = "READPAGE" => r.page \in Page /\ Span(r) = Column
           /\ r.cmd = "WRITEPAGE" => /\ r.page \in Page \cup {Beyond}
                                    /\ r.value \in Data
                                    /\ Span(r) \subseteq Column
           /\ r.cmd = "ERASEBLOCK" => r.page \in Page
           /\ r.cmd = "READPAGE" => Asked(r) = Span(r)
           /\ r.cmd = "WRITEPAGE" /\ r.column + r.len <= Total => Asked(r) = Span(r)
<1>1. \A x, y \in Int : Min({x, y}) \in Int /\ Min({x, y}) <= x /\ Min({x, y}) <= y
  BY DEF Min
<1>2. \A x, y \in Int : x <= y => Min({x, y}) = x
  BY DEF Min
<1>3. ASSUME r.cmd = "READPAGE"
      PROVE  r.page \in Page /\ Span(r) = Column /\ Asked(r) = Span(r)
  <2>1. r.page \in Page /\ r.column = 0 /\ r.len = Total
    BY <1>3 DEF Request
  <2>2. Min({r.len, Total - r.column}) = Total
    BY <2>1, <1>2, ChipAssumption
  <2> QED
    BY <2>1, <2>2, ChipAssumption DEF Span, Column, Asked
<1>4. ASSUME r.cmd = "WRITEPAGE"
      PROVE  /\ r.page \in Page \cup {Beyond} /\ r.value \in Data /\ Span(r) \subseteq Column
             /\ r.column + r.len <= Total => Asked(r) = Span(r)
  <2>1. r.page \in Page \cup {Beyond} /\ r.value \in Data /\ r.column \in Start
        /\ r.len \in 1 .. Total
    BY <1>4 DEF Request
  <2>2. Total \in Int /\ Start \subseteq 0 .. Total - 1
    BY ChipAssumption
  <2>3. PICK x \in 0 .. Total - 1 : x = r.column
    BY <2>1, <2>2, Zenon
  <2>7. PICK n \in Int : n = r.len
    BY <2>1, <2>2
  <2>8. Total - x \in Int
    BY <2>2
  <2>4. PICK m \in Int : m = Min({n, Total - x}) /\ m <= Total - x
    BY <2>7, <2>8, <1>1
  <2>5. x .. x + m - 1 \subseteq 0 .. Total - 1
    BY <2>2, <2>4
  <2>6. Span(r) = x .. x + m - 1 /\ Asked(r) = x .. x + n - 1
    BY <2>3, <2>4, <2>7 DEF Span, Asked
  <2>9. ASSUME x + n <= Total PROVE m = n
    <3>1. n <= Total - x
      BY <2>2, <2>9
    <3> QED
      BY <1>2, <2>4, <2>7, <2>8, <3>1
  <2> QED
    BY <2>1, <2>3, <2>5, <2>6, <2>7, <2>9 DEF Column
<1>5. ASSUME r.cmd = "ERASEBLOCK"
      PROVE  r.page \in Page
  BY <1>5 DEF Request
<1> QED
  BY <1>3, <1>4, <1>5

(* A chip of the lte project has all its pages; an allocated block has a   *)
(* place for each page.                                                    *)
LEMMA Stored ==
    ASSUME StoreInv, NEW p \in Page
    PROVE  LET b == page_to_block(p)
               i == page_to_pageinblock(p)
           IN  /\ b \in 0 .. NBlocks - 1 /\ i \in 0 .. PerBlock - 1
               /\ store[b] = NULL \/ store[b] \in Pages
               /\ store[b] # NULL => store[b][i] = NULL \/ store[b][i] \in Columns
               /\ chip # "stub" => /\ store[b] # NULL /\ store[b][i] # NULL
                                   /\ store[b] \in [0 .. PerBlock - 1 -> Columns]
               /\ Content(p) \in Columns
               /\ chip # "stub" => Content(p) = store[b][i]
<1> DEFINE b == page_to_block(p)
           i == page_to_pageinblock(p)
<1>1. b \in 0 .. NBlocks - 1 /\ i \in 0 .. PerBlock - 1
  BY Address
<1> HIDE DEF b, i
<1>2. store[b] = NULL \/ store[b] \in Pages
  BY <1>1 DEF StoreInv
<1>3. store[b] # NULL => store[b][i] = NULL \/ store[b][i] \in Columns
  BY <1>1, <1>2 DEF Pages
<1>4. ASSUME chip # "stub"
      PROVE  /\ store[b] # NULL /\ store[b][i] # NULL
             /\ store[b] \in [0 .. PerBlock - 1 -> Columns]
  <2>1. store[b] \in [0 .. PerBlock - 1 -> Columns]
    BY <1>1, <1>4 DEF StoreInv
  <2>2. store[b] \in Pages /\ store[b][i] \in Columns
    BY <1>1, <2>1 DEF Pages
  <2> QED
    BY <2>1, <2>2, PointerAssumption
<1>5. Blank \in Columns
  BY DEF Blank, Columns
<1>6. Content(p) = IF store[b] = NULL \/ store[b][i] = NULL THEN Blank ELSE store[b][i]
  BY DEF Content, b, i
<1>7. Content(p) \in Columns /\ (chip # "stub" => Content(p) = store[b][i])
  BY <1>3, <1>4, <1>5, <1>6
<1> QED
  BY <1>1, <1>2, <1>3, <1>4, <1>7 DEF b, i

-----------------------------------------------------------------------------
(* A write that overlays some columns of its page, when it succeeds all    *)
(* those that were erased, is a write of the flash memory.                 *)
LEMMA WriteEffect ==
    ASSUME NEW r, NEW ok \in BOOLEAN, NEW columns, r.page \in Page,
           Span(r) \subseteq Column, columns \subseteq Span(r),
           \A p \in Page : Content(p)' = IF p = r.page
                                          THEN Overlay(Content(p), columns, r.value)
                                          ELSE Content(p),
           \A p \in Page : Content(p) \in Columns,
           ok => \A c \in Span(r) : Content(r.page)[c] = Erased => c \in columns
    PROVE  F!Write(r, ok)
<1>1. F!Only({r.page} \X Span(r))
  <2> SUFFICES ASSUME NEW p \in Page, NEW c \in Column, <<p, c>> \notin {r.page} \X Span(r)
               PROVE  Content(p)'[c] = Content(p)[c]
    BY DEF F!Only
  <2>1. CASE p # r.page
    BY <2>1
  <2>2. CASE p = r.page
    <3>1. c \notin columns
      BY <2>2
    <3>2. Content(p)' = Overlay(Content(p), columns, r.value)
      BY <2>2
    <3> QED
      BY <3>1, <3>2 DEF Overlay
  <2> QED
    BY <2>1, <2>2
<1>2. ASSUME ok, NEW x \in {r.page} \X Span(r), Content(x[1])[x[2]] = Erased
      PROVE  Content(x[1])'[x[2]] = r.value
  <2>1. x[1] = r.page /\ x[2] \in columns /\ x[2] \in Column
    BY <1>2
  <2>2. Content(r.page)' = Overlay(Content(r.page), columns, r.value)
    OBVIOUS
  <2> QED
    BY <2>1, <2>2 DEF Overlay
<1>3. ASSUME ok
      PROVE  \A x \in {r.page} \X Span(r) :
                [p \in Page |-> Content(p)][x[1]][x[2]] = Erased
                  => [p \in Page |-> Content(p)'][x[1]][x[2]] = r.value
  <2> SUFFICES ASSUME NEW x \in {r.page} \X Span(r),
                      [p \in Page |-> Content(p)][x[1]][x[2]] = Erased
               PROVE  [p \in Page |-> Content(p)'][x[1]][x[2]] = r.value
    OBVIOUS
  <2>1. x[1] \in Page
    OBVIOUS
  <2> QED
    BY <2>1, <1>2, <1>3
<1> QED
  BY <1>1, <1>3 DEF F!Write

(* One that leaves the other blocks alone and, when it succeeds, blanks    *)
(* its own block, is an erase of the flash memory.                         *)
LEMMA EraseEffect ==
    ASSUME NEW r, NEW ok \in BOOLEAN, r.page \in Page,
           \A p \in Page : page_to_block(p) # page_to_block(r.page)
                             => Content(p)' = Content(p),
           ok => \A p \in Page : page_to_block(p) = page_to_block(r.page)
                                     => Content(p)' = Blank
    PROVE  F!Erase(r, ok)
<1> DEFINE pages == {p \in Page : page_to_block(p) = page_to_block(r.page)}
<1>1. F!Only(pages \X Column)
  <2> SUFFICES ASSUME NEW p \in Page, NEW c \in Column, <<p, c>> \notin pages \X Column
               PROVE  Content(p)'[c] = Content(p)[c]
    BY DEF F!Only
  <2>1. page_to_block(p) # page_to_block(r.page)
    OBVIOUS
  <2> QED
    BY <2>1
<1>2. ASSUME ok
      PROVE  \A x \in pages \X Column : [p \in Page |-> Content(p)'][x[1]][x[2]] = Erased
  <2> SUFFICES ASSUME NEW x \in pages \X Column
               PROVE  [p \in Page |-> Content(p)'][x[1]][x[2]] = Erased
    OBVIOUS
  <2>1. x[1] \in Page /\ x[2] \in Column /\ page_to_block(x[1]) = page_to_block(r.page)
    OBVIOUS
  <2>2. Content(x[1])' = Blank
    BY <2>1, <1>2
  <2> QED
    BY <2>1, <2>2 DEF Blank
<1> QED
  BY <1>1, <1>2 DEF F!Erase

-----------------------------------------------------------------------------
(* A step that puts another block in the place of one.                     *)
LEMMA StorePut ==
    ASSUME StoreInv, UNCHANGED chip, NEW b \in 0 .. NBlocks - 1, NEW new,
           new \in {NULL} \cup Pages,
           chip # "stub" => new \in [0 .. PerBlock - 1 -> Columns],
           store' = [store EXCEPT ![b] = new]
    PROVE  /\ StoreInv'
           /\ store'[b] = new
           /\ \A p \in Page : page_to_block(p) # b => Content(p)' = Content(p)
<1>1. store'[b] = new /\ \A a \in 0 .. NBlocks - 1 : a # b => store'[a] = store[a]
  BY DEF StoreInv
<1>2. StoreInv'
  BY DEF StoreInv
<1>3. ASSUME NEW p \in Page, page_to_block(p) # b
      PROVE  Content(p)' = Content(p)
  BY <1>1, <1>3, Address DEF Content
<1> QED
  BY <1>1, <1>2, <1>3

(* The emulated chip: a write allocates the page, which stays blank, and   *)
(* then overlays it.                                                       *)
LEMMA StubWriteStep ==
    ASSUME StoreInv, UNCHANGED chip, chip = "stub", NEW r \in Request,
           r.cmd = "WRITEPAGE", StubWrite(r)
    PROVE  StoreInv' /\ ans' # <<>> /\ F!Write(r, ans'.ret = 0)
<1> DEFINE b == page_to_block(r.page)
           i == page_to_pageinblock(r.page)
<1>1. CASE r.page = Beyond
  <2>1. ans' = [ret |-> -1] /\ UNCHANGED store
    BY <1>1, Address, ChipAssumption DEF StubWrite
  <2>2. StoreInv' /\ \A p \in Page : Content(p)' = Content(p)
    BY <2>1 DEF StoreInv, Content
  <2>3. ans' # <<>> /\ ans'.ret # 0
    BY <2>1
  <2> QED
    BY <1>1, <2>2, <2>3, Address DEF F!Write, F!Only
<1>2. CASE r.page \in Page
  <2>1. b \in 0 .. NBlocks - 1 /\ i \in 0 .. PerBlock - 1
    BY <1>2, Address
  <2>2. PICK old : old = store[b]
    OBVIOUS
  <2>3. PICK pages : pages = WithPage(old, r.page)
    OBVIOUS
  <2>4. PICK new : new = [pages EXCEPT ![i] = Overlay(pages[i], Span(r), r.value)]
    OBVIOUS
  <2>5. ans' = [ret |-> 0] /\ store' = [store EXCEPT ![b] = new]
    <3>1. ~(b >= NBlocks)
      BY <2>1, ChipAssumption
    <3> QED
      BY <3>1, <2>2, <2>3, <2>4, Zenon DEF StubWrite
  <2>6. /\ old = NULL \/ old \in Pages
        /\ old # NULL => old[i] = NULL \/ old[i] \in Columns
        /\ Content(r.page) = IF old = NULL \/ old[i] = NULL THEN Blank ELSE old[i]
    BY <1>2, <2>2, Stored DEF Content
  <2>7. Blank \in Columns /\ NULL \notin Columns /\ NULL \notin Pages
    BY PointerAssumption DEF Blank, Columns
  <2> HIDE DEF b, i
  <2>8. /\ pages \in Pages
        /\ pages[i] = Content(r.page)
        /\ \A j \in 0 .. PerBlock - 1 :
              j # i => pages[j] = IF old = NULL THEN NULL ELSE old[j]
    BY <2>1, <2>3, <2>6, <2>7 DEF WithPage, Pages, i
  <2>9. Overlay(pages[i], Span(r), r.value) \in Columns
    <3>1. r.value \in Data /\ pages[i] \in Columns
      BY <1>2, <2>8, Requests, Stored
    <3> QED
      BY <3>1 DEF Overlay, Columns
  <2>10. /\ new \in Pages
         /\ new[i] = Overlay(Content(r.page), Span(r), r.value)
         /\ \A j \in 0 .. PerBlock - 1 : j # i => new[j] = pages[j]
    BY <2>1, <2>4, <2>8, <2>9 DEF Pages
  <2>11. /\ StoreInv' /\ store'[b] = new
         /\ \A p \in Page : page_to_block(p) # b => Content(p)' = Content(p)
    BY <2>1, <2>5, <2>10, StorePut
  <2>12. ASSUME NEW p \in Page
         PROVE  Content(p)' = IF p = r.page THEN Overlay(Content(p), Span(r), r.value)
                                           ELSE Content(p)
    <3>1. CASE page_to_block(p) # b
      BY <3>1, <2>11 DEF b
    <3>2. CASE page_to_block(p) = b
      <4>1. PICK j \in 0 .. PerBlock - 1 : j = page_to_pageinblock(p)
        BY Address
      <4>2. Content(p)' = IF new[j] = NULL THEN Blank ELSE new[j]
        BY <3>2, <4>1, <2>11, <2>10, <2>7 DEF Content
      <4>3. Content(p) = IF old = NULL \/ old[j] = NULL THEN Blank ELSE old[j]
        BY <3>2, <4>1, <2>2 DEF Content
      <4>4. p = r.page <=> j = i
        BY <3>2, <4>1, <1>2, Address DEF b, i
      <4>5. CASE j = i
        <5>1. new[j] # NULL
          BY <4>5, <2>10, <2>9, <2>8, <2>7
        <5> QED
          BY <4>5, <4>4, <4>2, <5>1, <2>10
      <4>6. CASE j # i
        BY <4>6, <4>4, <4>2, <4>3, <2>10, <2>8, <2>7
      <4> QED
        BY <4>5, <4>6
    <3> QED
      BY <3>1, <3>2
  <2>13. ans' # <<>> /\ ans'.ret = 0
    BY <2>5
  <2>14. F!Write(r, ans'.ret = 0)
    <3>1. Span(r) \subseteq Column
      BY Requests
    <3>2. \A p \in Page : Content(p) \in Columns
      BY Stored
    <3> QED
      BY <1>2, <2>12, <3>1, <3>2, WriteEffect
  <2> QED
    BY <2>11, <2>13, <2>14
<1> QED
  BY <1>1, <1>2, Requests

(* The emulated chip: an erase blanks the pages that are allocated. *)
LEMMA StubEraseStep ==
    ASSUME StoreInv, UNCHANGED chip, chip = "stub", NEW r \in Request,
           r.cmd = "ERASEBLOCK", StubErase(r)
    PROVE  StoreInv' /\ ans' # <<>> /\ F!Erase(r, ans'.ret = 0)
<1>1. r.page \in Page
  BY Requests
<1>2. PICK b \in 0 .. NBlocks - 1 : b = page_to_block(r.page)
  BY <1>1, Address
<1>3. PICK old \in {NULL} \cup Pages : old = store[b]
  BY DEF StoreInv
<1>4. PICK new : new = ErasedBlock(old)
  OBVIOUS
<1>5. ans' = [ret |-> 0] /\ store' = [store EXCEPT ![b] = new]
  BY <1>2, <1>3, <1>4 DEF StubErase
<1>6. Blank \in Columns /\ NULL \notin Pages
  BY PointerAssumption DEF Blank, Columns
<1>7. /\ new \in {NULL} \cup Pages
      /\ new # NULL => \A j \in 0 .. PerBlock - 1 : new[j] = NULL \/ new[j] = Blank
  BY <1>3, <1>4, <1>6 DEF ErasedBlock, Pages
<1>8. /\ StoreInv' /\ store'[b] = new
      /\ \A p \in Page : page_to_block(p) # b => Content(p)' = Content(p)
  BY <1>5, <1>7, StorePut
<1>9. ASSUME NEW p \in Page, page_to_block(p) = b
      PROVE  Content(p)' = Blank
  BY <1>7, <1>8, <1>9, Address DEF Content
<1>10. ans' # <<>> /\ ans'.ret = 0
  BY <1>5
<1>11. F!Erase(r, ans'.ret = 0)
  BY <1>1, <1>2, <1>8, <1>9, EraseEffect
<1> QED
  BY <1>8, <1>10, <1>11

(* The chip of the lte project: a write that succeeds leaves columns as    *)
(* they were only if they were written before.                             *)
LEMMA MtdWriteStep ==
    ASSUME StoreInv, UNCHANGED chip, chip # "stub", NEW r \in Request,
           r.cmd = "WRITEPAGE", MtdWrite(r),
           r.page # Beyond, r.column + r.len <= Total
    PROVE  StoreInv' /\ ans' # <<>> /\ F!Write(r, ans'.ret = 0)
<1>1. Asked(r) = Span(r)
  BY Requests
<1>2. CASE r.page \in Page
  <2>1. PICK b \in 0 .. NBlocks - 1 : b = page_to_block(r.page)
    BY <1>2, Address
  <2>2. PICK i \in 0 .. PerBlock - 1 : i = page_to_pageinblock(r.page)
    BY <1>2, Address
  <2>3. PICK old \in [0 .. PerBlock - 1 -> Columns] : old = store[b]
    BY DEF StoreInv
  <2>4. Content(r.page) = old[i]
    BY <1>2, <2>1, <2>2, <2>3, Stored
  <2>5. PICK status \in {0, -1}, kept \in SUBSET Span(r) :
            /\ ans' = [ret |-> status]
            /\ status = 0 => kept \subseteq {c \in Span(r) : old[i][c] # Erased}
            /\ store' = [store EXCEPT ![b][i] =
                            Overlay(store[b][i], Span(r) \ kept, r.value)]
    <3>1. PICK status \in {0, -1} :
              /\ ans' = [ret |-> status]
              /\ \E kept \in SUBSET (IF status = 0
                                     THEN {c \in Asked(r) : store[b][i][c] # Erased}
                                     ELSE Asked(r)) :
                    store' = [store EXCEPT ![b][i] =
                                 Overlay(@, Asked(r) \ kept, r.value)]
      BY <2>1, <2>2, Zenon DEF MtdWrite
    <3>2. PICK kept \in SUBSET (IF status = 0
                               THEN {c \in Span(r) : old[i][c] # Erased}
                               ELSE Span(r)) :
              store' = [store EXCEPT ![b][i] =
                           Overlay(store[b][i], Span(r) \ kept, r.value)]
      BY <1>1, <2>3, <3>1
    <3>3. /\ kept \in SUBSET Span(r)
          /\ status = 0 => kept \subseteq {c \in Span(r) : old[i][c] # Erased}
      OBVIOUS
    <3> QED
      BY <3>1, <3>2, <3>3
  <2>6. PICK columns : columns = Span(r) \ kept
    OBVIOUS
  <2>7. PICK new : new = [old EXCEPT ![i] = Overlay(old[i], columns, r.value)]
    OBVIOUS
  <2>8. store' = [store EXCEPT ![b] = new]
    BY <2>3, <2>5, <2>6, <2>7
  <2>9. Overlay(old[i], columns, r.value) \in Columns
    <3>1. r.value \in Data
      BY Requests
    <3> QED
      BY <3>1 DEF Overlay, Columns
  <2>10. /\ new \in [0 .. PerBlock - 1 -> Columns]
         /\ new[i] = Overlay(old[i], columns, r.value)
         /\ \A j \in 0 .. PerBlock - 1 : j # i => new[j] = old[j]
    BY <2>7, <2>9
  <2>11. new \in Pages
    BY <2>10 DEF Pages
  <2>12. /\ StoreInv' /\ store'[b] = new
         /\ \A p \in Page : page_to_block(p) # b => Content(p)' = Content(p)
    BY <2>8, <2>10, <2>11, StorePut
  <2>13. ASSUME NEW p \in Page
         PROVE  Content(p)' = IF p = r.page THEN Overlay(Content(p), columns, r.value)
                                           ELSE Content(p)
    <3>1. CASE page_to_block(p) # b
      BY <3>1, <2>1, <2>12
    <3>2. CASE page_to_block(p) = b
      <4>1. PICK j \in 0 .. PerBlock - 1 : j = page_to_pageinblock(p)
        BY Address
      <4>2. Content(p)' = new[j]
        <5>1. new # NULL /\ new[j] # NULL
          BY <2>10, <2>11, PointerAssumption
        <5> QED
          BY <3>2, <4>1, <2>12, <5>1 DEF Content
      <4>3. Content(p) = old[j]
        BY <3>2, <4>1, <2>3, Stored
      <4>4. p = r.page <=> j = i
        BY <3>2, <4>1, <1>2, <2>1, <2>2, Address
      <4> QED
        BY <4>2, <4>3, <4>4, <2>10
    <3> QED
      BY <3>1, <3>2
  <2>14. ans' # <<>> /\ ans'.ret = status
    BY <2>5
  <2>15. F!Write(r, ans'.ret = 0)
    <3>1. Span(r) \subseteq Column
      BY Requests
    <3>2. \A p \in Page : Content(p) \in Columns
      BY Stored
    <3>3. status = 0 => \A c \in Span(r) : Content(r.page)[c] = Erased => c \in columns
      BY <2>4, <2>5, <2>6
    <3>4. columns \subseteq Span(r)
      BY <2>6
    <3> QED
      BY <1>2, <2>13, <2>14, <3>1, <3>2, <3>3, <3>4, WriteEffect
  <2> QED
    BY <2>12, <2>14, <2>15
<1> QED
  BY <1>2, Requests

(* The chip of the lte project: an erase that succeeds blanks all pages of *)
(* its block.                                                              *)
LEMMA MtdEraseStep ==
    ASSUME StoreInv, UNCHANGED chip, chip # "stub", NEW r \in Request,
           r.cmd = "ERASEBLOCK", MtdErase(r)
    PROVE  StoreInv' /\ ans' # <<>> /\ F!Erase(r, ans'.ret = 0)
<1>1. r.page \in Page
  BY Requests
<1>2. PICK b \in 0 .. NBlocks - 1 : b = page_to_block(r.page)
  BY <1>1, Address
<1>3. PICK old \in [0 .. PerBlock - 1 -> Columns] : old = store[b]
  BY DEF StoreInv
<1>4. PICK status \in {0, -1} : \E kept :
         /\ ans' = [ret |-> status]
         /\ status = 0 => kept = {}
         /\ store' = [store EXCEPT ![b] = [i \in 0 .. PerBlock - 1 |->
                                             IF i \in kept THEN old[i] ELSE Blank]]
  <2> DEFINE d == page_to_block(r.page)
  <2>1. PICK status \in {0, -1} : \E kept :
           /\ ans' = [ret |-> status]
           /\ kept \subseteq IF status = 0 THEN {} ELSE DOMAIN store[d]
           /\ store' = [store EXCEPT ![d] = [i \in DOMAIN store[d] |->
                                               IF i \in kept THEN store[d][i] ELSE Blank]]
    BY DEF MtdErase
  <2> HIDE DEF d
  <2>2. PICK kept :
           /\ ans' = [ret |-> status]
           /\ kept \subseteq IF status = 0 THEN {} ELSE DOMAIN store[d]
           /\ store' = [store EXCEPT ![d] = [i \in DOMAIN store[d] |->
                                               IF i \in kept THEN store[d][i] ELSE Blank]]
    BY <2>1
  <2>3. d = b
    BY <1>2 DEF d
  <2>4. DOMAIN store[d] = 0 .. PerBlock - 1 /\ store[d] = old
    BY <1>3, <2>3
  <2>5. status = 0 => kept = {}
    BY <2>2
  <2>6. store' = [store EXCEPT ![b] = [i \in 0 .. PerBlock - 1 |->
                                         IF i \in kept THEN old[i] ELSE Blank]]
    BY <2>2, <2>3, <2>4
  <2> QED
    BY <2>2, <2>5, <2>6
<1>4a. PICK kept :
         /\ ans' = [ret |-> status]
         /\ status = 0 => kept = {}
         /\ store' = [store EXCEPT ![b] = [i \in 0 .. PerBlock - 1 |->
                                             IF i \in kept THEN old[i] ELSE Blank]]
  BY <1>4
<1>5. PICK new : new = [i \in 0 .. PerBlock - 1 |-> IF i \in kept THEN old[i] ELSE Blank]
  OBVIOUS
<1>6. new \in [0 .. PerBlock - 1 -> Columns]
  <2>1. Blank \in Columns
    BY DEF Blank, Columns
  <2> QED
    BY <1>5, <2>1
<1>7. new \in Pages
  BY <1>6 DEF Pages
<1>8. /\ StoreInv' /\ store'[b] = new
      /\ \A p \in Page : page_to_block(p) # b => Content(p)' = Content(p)
  BY <1>4a, <1>5, <1>6, <1>7, StorePut
<1>9. ASSUME status = 0, NEW p \in Page, page_to_block(p) = b
      PROVE  Content(p)' = Blank
  <2>1. PICK j \in 0 .. PerBlock - 1 : j = page_to_pageinblock(p)
    BY Address
  <2>2. new # NULL /\ new[j] # NULL
    BY <1>6, <1>7, PointerAssumption
  <2>3. new[j] = Blank
    BY <1>4a, <1>5, <1>9
  <2> QED
    BY <1>8, <1>9, <2>1, <2>2, <2>3 DEF Content
<1>10. ans' # <<>> /\ ans'.ret = status
  BY <1>4a
<1>11. F!Erase(r, ans'.ret = 0)
  BY <1>1, <1>2, <1>8, <1>9, <1>10, EraseEffect
<1> QED
  BY <1>8, <1>10, <1>11

-----------------------------------------------------------------------------
(* A step that leaves the store alone. *)
LEMMA StoreSame ==
    ASSUME StoreInv, UNCHANGED <<chip, store>>
    PROVE  StoreInv' /\ \A p \in Page : Content(p)' = Content(p)
  BY DEF StoreInv, Content

(* The reads give what the page holds. *)
LEMMA ReadStep ==
    ASSUME StoreInv, UNCHANGED chip, NEW r \in Request,
           r.cmd = "READPAGE", Read(r)
    PROVE  /\ UNCHANGED store
           /\ ans' # <<>>
           /\ ans'.read = [c \in Column |-> Content(r.page)[c]]
<1>1. r.page \in Page /\ Span(r) = Column /\ Asked(r) = Column
  BY Requests
<1>2. CASE chip = "stub"
  <2>1. UNCHANGED store /\ ans' = [ret |-> 0, read |-> [c \in Column |-> Content(r.page)[c]]]
    BY <1>1, <1>2 DEF Read, StubRead
  <2> QED
    BY <2>1
<1>3. CASE chip # "stub"
  <2>1. PICK x : x = store[page_to_block(r.page)][page_to_pageinblock(r.page)]
    OBVIOUS
  <2>2. UNCHANGED store /\ ans' = [ret |-> 0, read |-> [c \in Column |-> x[c]]]
    BY <1>1, <1>3, <2>1 DEF Read, MtdRead
  <2>3. Content(r.page) = x
    BY <1>1, <1>3, <2>1, Stored
  <2> QED
    BY <2>2, <2>3
<1> QED
  BY <1>2, <1>3

(* What serving request r does to the flash memory. *)
Effect(r) ==
    LET ok == ans'.ret = 0
    IN  CASE r.cmd = "WRITEPAGE" -> F!Write(r, ok)
          [] r.cmd = "ERASEBLOCK" -> F!Erase(r, ok)
          [] r.cmd = "READPAGE" ->
               /\ \A p \in Page : Content(p)' = Content(p)
               /\ ok => ans'.read = [c \in Column |-> Content(r.page)[c]]
          [] r.cmd \in {"READID", "GETINFO", "CHIPSELECT"} ->
               \A p \in Page : Content(p)' = Content(p)
          [] OTHER -> (\A p \in Page : Content(p)' = Content(p)) /\ ~ok

(* Without a chip every access fails, and touches nothing. *)
LEMMA NoChipStep ==
    ASSUME StoreInv, UNCHANGED <<chip, store>>, NEW r \in Request,
           r.cmd \in {"READPAGE", "WRITEPAGE", "ERASEBLOCK"}, ans' = [ret |-> -1]
    PROVE  StoreInv' /\ ans' # <<>> /\ Effect(r)
<1>1. StoreInv' /\ \A p \in Page : Content(p)' = Content(p)
  BY StoreSame
<1>2. ans' # <<>> /\ ans'.ret # 0
  OBVIOUS
<1>3. r.cmd = "WRITEPAGE" => F!Write(r, ans'.ret = 0)
  BY <1>1, <1>2 DEF F!Write, F!Only
<1>4. r.cmd = "ERASEBLOCK" => F!Erase(r, ans'.ret = 0)
  BY <1>1, <1>2 DEF F!Erase, F!Only
<1> QED
  BY <1>1, <1>2, <1>3, <1>4 DEF Effect

(* Every command that CPU2 may send has the effect of the flash memory. *)
LEMMA ExecuteStep ==
    ASSUME StoreInv, UNCHANGED chip, NEW r \in Request, MaySend(r), Execute(r)
    PROVE  StoreInv' /\ ans' # <<>> /\ Effect(r)
<1>1. CASE r.cmd \in {"READID", "GETINFO", "CHIPSELECT"}
  <2>1. UNCHANGED store /\ ans' = [ret |-> IF NoChip THEN -1 ELSE 0]
    BY <1>1 DEF Execute, Inquire
  <2>2. ans' # <<>>
    BY <2>1
  <2> QED
    BY <1>1, <2>1, <2>2, StoreSame DEF Effect
<1>2. CASE r.cmd = "READ"
  <2>1. UNCHANGED store /\ ans' = [ret |-> -2]
    BY <1>2 DEF Execute
  <2>2. ans' # <<>> /\ ans'.ret # 0
    BY <2>1
  <2> QED
    BY <1>2, <2>1, <2>2, StoreSame DEF Effect
<1>3. CASE r.cmd \in {"READPAGE", "WRITEPAGE", "ERASEBLOCK"} /\ NoChip
  <2>1. UNCHANGED store /\ ans' = [ret |-> -1]
    BY <1>3 DEF Execute
  <2> QED
    BY <1>3, <2>1, NoChipStep
<1>4. CASE r.cmd = "READPAGE" /\ ~NoChip
  <2>1. Read(r)
    BY <1>4 DEF Execute, Access
  <2>2. UNCHANGED store /\ ans' # <<>>
        /\ ans'.read = [c \in Column |-> Content(r.page)[c]]
    BY <1>4, <2>1, ReadStep
  <2>3. StoreInv' /\ \A p \in Page : Content(p)' = Content(p)
    BY <2>2, StoreSame
  <2> QED
    BY <1>4, <2>2, <2>3 DEF Effect
<1>5. CASE r.cmd = "WRITEPAGE" /\ ~NoChip
  <2>1. Write(r)
    BY <1>5 DEF Execute, Access
  <2>2. StoreInv' /\ ans' # <<>> /\ F!Write(r, ans'.ret = 0)
    <3>1. CASE chip = "stub"
      BY <1>5, <2>1, <3>1, StubWriteStep DEF Write
    <3>2. CASE chip # "stub"
      <4>1. r.page # Beyond /\ r.column + r.len <= Total
        BY <1>5, <3>2 DEF MaySend, StoreInv, NoChip
      <4> QED
        BY <1>5, <2>1, <3>2, <4>1, MtdWriteStep DEF Write
    <3> QED
      BY <3>1, <3>2
  <2> QED
    BY <1>5, <2>2 DEF Effect
<1>6. CASE r.cmd = "ERASEBLOCK" /\ ~NoChip
  <2>1. Erase(r)
    BY <1>6 DEF Execute, Access
  <2>2. StoreInv' /\ ans' # <<>> /\ F!Erase(r, ans'.ret = 0)
    BY <1>6, <2>1, StubEraseStep, MtdEraseStep DEF Erase
  <2> QED
    BY <1>6, <2>2 DEF Effect
<1>7. r.cmd \in {"READPAGE", "WRITEPAGE", "ERASEBLOCK"}
        \cup {"READID", "GETINFO", "CHIPSELECT", "READ"}
  BY DEF Request
<1> QED
  BY <1>1, <1>2, <1>3, <1>4, <1>5, <1>6, <1>7

-----------------------------------------------------------------------------
(* A block comes once, and the thread takes it out. *)
LEMMA OnceStep == TypeOK /\ Once /\ [Next]_vars => Once'
<1> SUFFICES ASSUME TypeOK, Once, [Next]_vars PROVE Once'
  OBVIOUS
<1>1. ASSUME NEW p \in Producers, NEW b \in Block, Put(p, b)
      PROVE  Once'
  <2>1. b \in Block /\ b \notin Range(list) /\ \A c \in Consumers : got[c] # b
    <3>1. \A c \in Consumers : b \notin Range(list) \cup {got[c]}
      BY <1>1, OutsideIs DEF Put
    <3> QED
      BY <3>1, ConsumerAssumption
  <2>2. list' = Append(list, b) /\ got' = got
    BY <1>1 DEF Put
  <2>3. Range(list') = Range(list) \cup {b} /\ IsInjective(list')
    BY <2>1, <2>2, ListAddTail DEF TypeOK, Once
  <2> QED
    BY <2>1, <2>2, <2>3 DEF Once
<1>2. ASSUME NEW c \in Consumers, Get(c)
      PROVE  Once'
  <2>1. list # <<>> /\ list' = Tail(list) /\ got' = [got EXCEPT ![c] = Head(list)]
    BY <1>2 DEF Get
  <2>2. Range(list') = Range(list) \ {Head(list)} /\ IsInjective(list')
    BY <2>1, ListDelFirst DEF TypeOK, Once
  <2>3. \A d \in Consumers : got'[d] = Head(list)
    BY <2>1, OneConsumer DEF TypeOK
  <2> QED
    BY <2>2, <2>3 DEF Once
<1>3. ASSUME NEW c \in Consumers, Finish(c)
      PROVE  Once'
  <2>1. list' = list /\ \A d \in Consumers : got'[d] = NULL
    BY <1>3, OneConsumer DEF Finish, TypeOK
  <2>2. NULL \notin Range(list)
    BY NullAssumption DEF TypeOK, Range
  <2> QED
    BY <2>1, <2>2 DEF Once
<1>4. ASSUME NEW p \in Producers, Signal(p)
      PROVE  Once'
  BY <1>4 DEF Signal, Once
<1>5. ASSUME NEW c \in Consumers, FindEmpty(c) \/ Wait(c)
      PROVE  Once'
  BY <1>5 DEF FindEmpty, Wait, Once
<1>6. CASE UNCHANGED vars
  BY <1>6 DEF vars, Once
<1> QED
  BY <1>1, <1>2, <1>3, <1>4, <1>5, <1>6 DEF Next, ConsumerStep

(* Which blocks are outside after a step of the FIFO. *)
LEMMA OutsideStep ==
    ASSUME TypeOK, Once, [Next]_vars
    PROVE  /\ \A p \in Producers, b \in Block : Put(p, b) => Outside' = Outside \ {b}
           /\ \A c \in Consumers : Finish(c) => Outside' = Outside \cup {got[c]}
           /\ \A c \in Consumers : Get(c) => Outside' = Outside
           /\ UNCHANGED <<list, got>> => Outside' = Outside
<1>1. TypeOK'
  BY TypeStep
<1>2. ASSUME NEW c \in Consumers
      PROVE  /\ Outside = Block \ (Range(list) \cup {got[c]})
             /\ Outside' = Block \ (Range(list') \cup {got'[c]})
  <2>1. Range(got) = {got[c]} /\ Range(got') = {got'[c]}
    BY <1>1, OneConsumer DEF TypeOK, Range
  <2> QED
    BY <2>1 DEF Outside
<1>3. ASSUME NEW p \in Producers, NEW b \in Block, Put(p, b)
      PROVE  Outside' = Outside \ {b}
  <2>1. list' = Append(list, b) /\ got' = got
    BY <1>3 DEF Put
  <2>2. Range(list') = Range(list) \cup {b}
    BY <2>1, ListAddTail DEF TypeOK
  <2> QED
    BY <1>2, <2>1, <2>2, ConsumerAssumption
<1>4. ASSUME NEW c \in Consumers, Finish(c)
      PROVE  Outside' = Outside \cup {got[c]}
  <2>1. list' = list /\ got'[c] = NULL /\ got[c] \in Block /\ got[c] \notin Range(list)
    BY <1>4 DEF Finish, TypeOK, Once
  <2> QED
    BY <1>2, <2>1, NullAssumption
<1>5. ASSUME NEW c \in Consumers, Get(c)
      PROVE  Outside' = Outside
  <2>1. list # <<>> /\ list' = Tail(list) /\ got'[c] = Head(list) /\ got[c] = NULL
    BY <1>5 DEF Get, TypeOK
  <2>2. Range(list') = Range(list) \ {Head(list)} /\ Head(list) \in Range(list)
    BY <2>1, ListDelFirst DEF TypeOK, Once
  <2>3. Outside = Block \ Range(list)
    BY <1>2, <2>1, NullAssumption
  <2>4. Range(list') \cup {got'[c]} = Range(list)
    BY <2>1, <2>2
  <2> QED
    BY <1>2, <2>3, <2>4
<1>6. UNCHANGED <<list, got>> => Outside' = Outside
  BY DEF Outside
<1> QED
  BY <1>3, <1>4, <1>5, <1>6

(* A block gets its request when it enters the FIFO, and loses it when the *)
(* thread gives it back.                                                   *)
LEMMA RequestStep == NandInv /\ [NandNext]_nandVars => RequestInv'
<1> SUFFICES ASSUME TypeOK, Once, RequestInv, [NandNext]_nandVars PROVE RequestInv'
  BY DEF NandInv
<1> USE DEF RequestInv
<1>0. [Next]_vars
  BY NandStep
<1>6. UNCHANGED chip => \A r : MaySend(r)' = MaySend(r)
  BY DEF MaySend
<1>1. ASSUME NEW p \in Producers, NEW q \in Block, NEW r \in Request, PutRequest(p, q, r)
      PROVE  RequestInv'
  <2>3. MaySend(r) /\ UNCHANGED chip
    BY <1>1 DEF PutRequest
  <2>1. Outside' = Outside \ {q} /\ req' = [req EXCEPT ![q] = r]
    BY <1>0, <1>1, OutsideStep DEF PutRequest
  <2>2. r # NULL
    BY PointerAssumption
  <2> QED
    BY <1>6, <2>1, <2>2, <2>3
<1>2. ASSUME NEW c \in Consumers, GiveBack(c)
      PROVE  RequestInv'
  <2>1. Outside' = Outside \cup {got[c]} /\ req' = [req EXCEPT ![got[c]] = NULL]
    BY <1>0, <1>2, OutsideStep DEF GiveBack
  <2>2. got[c] \in Block
    BY <1>2 DEF GiveBack, Finish, TypeOK
  <2>3. UNCHANGED chip
    BY <1>2 DEF GiveBack
  <2> QED
    BY <1>6, <2>1, <2>2, <2>3
<1>3. ASSUME NEW c \in Consumers, Fetch(c) \/ Serve(c)
      PROVE  RequestInv'
  <2>1. Outside' = Outside
    <3>1. CASE Get(c)
      BY <1>0, <3>1, OutsideStep
    <3>2. CASE FindEmpty(c) \/ Wait(c) \/ Serve(c)
      BY <1>0, <3>2, OutsideStep DEF FindEmpty, Wait, Serve, vars
    <3> QED
      BY <1>3, <3>1, <3>2 DEF Fetch
  <2>2. UNCHANGED <<req, chip>>
    BY <1>3 DEF Fetch, Serve
  <2> QED
    BY <1>6, <2>1, <2>2
<1>4. ASSUME NEW p \in Producers, Raise(p)
      PROVE  RequestInv'
  BY <1>0, <1>4, <1>6, OutsideStep DEF Raise, Signal
<1>5. CASE UNCHANGED nandVars
  BY <1>0, <1>5, <1>6, OutsideStep DEF nandVars, vars
<1> QED
  BY <1>1, <1>2, <1>3, <1>4, <1>5 DEF NandNext, Thread

(* The thread has a request to serve. *)
LEMMA Serving ==
    ASSUME NandInv, NEW c \in Consumers, cpc[c] = "got"
    PROVE  got[c] \in Block /\ req[got[c]] \in Request /\ MaySend(req[got[c]])
<1>1. got[c] \in Block
  BY DEF NandInv, TypeOK
<1>2. got[c] \notin Outside
  BY OutsideIs DEF NandInv
<1> QED
  BY <1>1, <1>2, PointerAssumption DEF NandInv, RequestInv

(* The store changes only when the thread serves a request. *)
LEMMA StoreStep == NandInv /\ [NandNext]_nandVars => StoreInv'
<1> SUFFICES ASSUME NandInv, [NandNext]_nandVars PROVE StoreInv'
  OBVIOUS
<1>1. ASSUME NEW c \in Consumers, Serve(c)
      PROVE  StoreInv'
  <2>1. /\ req[got[c]] \in Request /\ MaySend(req[got[c]])
        /\ Execute(req[got[c]]) /\ UNCHANGED chip
    BY <1>1, Serving DEF Serve
  <2> QED
    BY <2>1, ExecuteStep DEF NandInv
<1>2. CASE UNCHANGED <<chip, store>>
  BY <1>2, StoreSame DEF NandInv
<1>3. (\E c \in Consumers : Serve(c)) \/ UNCHANGED <<chip, store>>
  BY DEF NandNext, Thread, Raise, PutRequest, Fetch, GiveBack, nandVars
<1> QED
  BY <1>1, <1>2, <1>3

(* There is an answer only while the thread has the block. *)
LEMMA AnswerStep == NandInv /\ [NandNext]_nandVars => AnswerInv'
<1> SUFFICES ASSUME TypeOK, AnswerInv, [NandNext]_nandVars PROVE AnswerInv'
  BY DEF NandInv
<1> USE DEF AnswerInv, TypeOK
<1>1. ASSUME NEW p \in Producers, NEW q \in Block, NEW r \in Request, PutRequest(p, q, r)
      PROVE  AnswerInv'
  BY <1>1 DEF PutRequest, Put
<1>2. ASSUME NEW p \in Producers, Raise(p)
      PROVE  AnswerInv'
  BY <1>2 DEF Raise, Signal, SetBits
<1>3. ASSUME NEW c \in Consumers, Fetch(c)
      PROVE  AnswerInv'
  BY <1>3, OneConsumer DEF Fetch, FindEmpty, Wait, Get
<1>4. ASSUME NEW c \in Consumers, Serve(c)
      PROVE  AnswerInv'
  BY <1>4 DEF Serve, vars
<1>5. ASSUME NEW c \in Consumers, GiveBack(c)
      PROVE  AnswerInv'
  BY <1>5 DEF GiveBack
<1>6. CASE UNCHANGED nandVars
  BY <1>6 DEF nandVars, vars
<1> QED
  BY <1>1, <1>2, <1>3, <1>4, <1>5, <1>6 DEF NandNext, Thread

(* The invariant of the server holds in every reachable state. *)
THEOREM Invariance == NandSpec => []NandInv
<1>1. NandInit => NandInv
  <2> SUFFICES ASSUME NandInit PROVE NandInv
    OBVIOUS
  <2>1. TypeOK /\ list = <<>> /\ got = [c \in Consumers |-> NULL]
    <3>1. list = <<>> /\ list \in Seq(Block)
      BY DEF NandInit, Init
    <3> QED
      BY <3>1 DEF NandInit, Init, TypeOK
  <2>2. Once
    BY <2>1, EmptyList DEF Once
  <2>3. StoreInv
    <3>1. [i \in 0 .. PerBlock - 1 |-> [c \in Column |-> Erased]]
             \in [0 .. PerBlock - 1 -> Columns]
      BY DEF Columns
    <3>2. [i \in 0 .. PerBlock - 1 |-> [c \in Column |-> Erased]] \in Pages
      BY <3>1 DEF Pages
    <3> QED
      BY <3>1, <3>2 DEF NandInit, StoreInv
  <2>4. RequestInv
    <3>1. Range(list) = {} /\ NULL \notin Block
      BY <2>1, EmptyList, NullAssumption
    <3>2. Range(got) \subseteq {NULL}
      BY <2>1 DEF Range
    <3>3. Outside = Block
      BY <3>1, <3>2 DEF Outside
    <3> QED
      BY <3>3 DEF NandInit, RequestInv
  <2>5. AnswerInv
    BY DEF NandInit, AnswerInv
  <2> QED
    BY <2>1, <2>2, <2>3, <2>4, <2>5 DEF NandInv
<1>2. NandInv /\ [NandNext]_nandVars => NandInv'
  BY NandStep, TypeStep, OnceStep, StoreStep, RequestStep, AnswerStep DEF NandInv
<1> QED
  BY <1>1, <1>2, PTL DEF NandSpec

(* Every variable of the server keeps its type, and a block has a request  *)
(* just as long as it is in the server.                                    *)
THEOREM NandTypeCorrect == NandSpec => []NandTypeOK
<1>1. NandInv => NandTypeOK
  BY PointerAssumption DEF NandInv, StoreInv, RequestInv, AnswerInv, NandTypeOK
<1> QED
  BY <1>1, Invariance, PTL

-----------------------------------------------------------------------------
(* The server is a flash memory.  Its queue is the requests of the blocks  *)
(* that the thread has not served, oldest first.                           *)
Map(f, s) == [k \in 1 .. Len(s) |-> f[s[k]]]

LEMMA MapAppend ==
    ASSUME NEW S, NEW T, NEW f \in [S -> T], NEW s \in Seq(S), NEW e \in S
    PROVE  Map(f, Append(s, e)) = Append(Map(f, s), f[e])
<1>1. PICK t : t = Append(s, e)
  OBVIOUS
<1>2. /\ t \in Seq(S) /\ Len(t) = Len(s) + 1
      /\ \A k \in 1 .. Len(s) : t[k] = s[k]
      /\ t[Len(s) + 1] = e
  BY <1>1
<1>3. PICK m : m = Map(f, s)
  OBVIOUS
<1>4. m \in Seq(T) /\ Len(m) = Len(s) /\ \A k \in 1 .. Len(s) : m[k] = f[s[k]]
  BY <1>3 DEF Map
<1>5. PICK n : n = Map(f, t)
  OBVIOUS
<1>6. n \in Seq(T) /\ Len(n) = Len(t) /\ \A k \in 1 .. Len(t) : n[k] = f[t[k]]
  BY <1>2, <1>5 DEF Map
<1>7. f[e] \in T
  OBVIOUS
<1>8. n = Append(m, f[e])
  BY <1>2, <1>4, <1>6, <1>7
<1> QED
  BY <1>1, <1>3, <1>5, <1>8

LEMMA MapTail ==
    ASSUME NEW S, NEW T, NEW f \in [S -> T], NEW s \in Seq(S), s # <<>>
    PROVE  /\ Map(f, s) # <<>>
           /\ Head(Map(f, s)) = f[Head(s)]
           /\ Tail(Map(f, s)) = Map(f, Tail(s))
<1>1. PICK m : m = Map(f, s)
  OBVIOUS
<1>2. m \in Seq(T) /\ Len(m) = Len(s) /\ \A k \in 1 .. Len(s) : m[k] = f[s[k]]
  BY <1>1 DEF Map
<1>3. PICK t : t = Tail(s)
  OBVIOUS
<1>4. /\ t \in Seq(S) /\ Len(t) = Len(s) - 1
      /\ \A k \in 1 .. Len(t) : t[k] = s[k + 1]
  BY <1>3
<1>5. PICK n : n = Map(f, t)
  OBVIOUS
<1>6. n \in Seq(T) /\ Len(n) = Len(t) /\ \A k \in 1 .. Len(t) : n[k] = f[t[k]]
  BY <1>4, <1>5 DEF Map
<1>7. m # <<>> /\ Head(m) = f[Head(s)]
  BY <1>2
<1>8. Tail(m) = n
  <2>1. Tail(m) \in Seq(T) /\ Len(Tail(m)) = Len(s) - 1
        /\ \A k \in 1 .. Len(s) - 1 : Tail(m)[k] = m[k + 1]
    BY <1>2
  <2>2. \A k \in 1 .. Len(s) - 1 : Tail(m)[k] = n[k]
    BY <2>1, <1>2, <1>4, <1>6
  <2> QED
    BY <2>1, <2>2, <1>4, <1>6
<1> QED
  BY <1>1, <1>3, <1>5, <1>7, <1>8

LEMMA MapSame ==
    ASSUME NEW S, NEW f, NEW g, NEW s \in Seq(S),
           \A e \in Range(s) : f[e] = g[e]
    PROVE  Map(f, s) = Map(g, s)
  BY DEF Map, Range

(* The blocks that wait to be served, with the one thread c. *)
Order(c) == IF cpc[c] = "got" /\ ans = <<>> THEN <<got[c]>> \o list ELSE list

LEMMA UnservedIs ==
    /\ TypeOK => \A c \in Consumers : Unserved = Map(req, Order(c))
    /\ TypeOK' => \A c \in Consumers : Unserved' = Map(req', Order(c)')
<1>1. ASSUME TypeOK, NEW c \in Consumers
      PROVE  Unserved = Map(req, Order(c))
  <2>1. (CHOOSE d \in Consumers : TRUE) = c
    BY OneConsumer
  <2>2. <<>> \o list = list
    BY <1>1 DEF TypeOK
  <2> QED
    BY <2>1, <2>2 DEF Unserved, Order, Map
<1>2. ASSUME TypeOK', NEW c \in Consumers
      PROVE  Unserved' = Map(req', Order(c)')
  <2>1. (CHOOSE d \in Consumers : TRUE) = c
    BY OneConsumer
  <2>2. <<>> \o list' = list'
    BY <1>2 DEF TypeOK
  <2> QED
    BY <2>1, <2>2 DEF Unserved, Order, Map
<1> QED
  BY <1>1, <1>2

LEMMA OrderType ==
    ASSUME TypeOK, NEW c \in Consumers
    PROVE  /\ Order(c) \in Seq(Block)
           /\ Range(Order(c)) \subseteq Range(list) \cup {got[c]}
<1>1. CASE cpc[c] = "got" /\ ans = <<>>
  <2>1. got[c] \in Block /\ list \in Seq(Block)
    BY <1>1 DEF TypeOK
  <2> QED
    BY <1>1, <2>1, ListAdd DEF Order
<1>2. CASE ~(cpc[c] = "got" /\ ans = <<>>)
  BY <1>2 DEF Order, TypeOK
<1> QED
  BY <1>1, <1>2

(* A request that is put is sent ... *)
LEMMA PutSends ==
    ASSUME NandInv, TypeOK', NEW p \in Producers, NEW q \in Block, NEW r \in Request,
           PutRequest(p, q, r)
    PROVE  F!Send
<1>1. PICK c \in Consumers : TRUE
  BY ConsumerAssumption
<1>2. /\ q \notin Range(list) /\ q # got[c]
      /\ list' = Append(list, q) /\ got' = got /\ cpc' = cpc /\ ans' = ans
      /\ req' = [req EXCEPT ![q] = r] /\ store' = store
  BY OutsideIs DEF NandInv, PutRequest, Put
<1>3. Order(c)' = Append(Order(c), q)
  <2>1. CASE cpc[c] = "got" /\ ans = <<>>
    <3>1. <<got[c]>> \in Seq(Block) /\ list \in Seq(Block)
      BY <2>1 DEF NandInv, TypeOK
    <3>2. <<got[c]>> \o Append(list, q) = Append(<<got[c]>> \o list, q)
      BY <3>1, ConcatEnds
    <3> QED
      BY <1>2, <2>1, <3>2 DEF Order
  <2>2. CASE ~(cpc[c] = "got" /\ ans = <<>>)
    BY <1>2, <2>2 DEF Order
  <2> QED
    BY <2>1, <2>2
<1>4. /\ Order(c) \in Seq(Block) /\ q \notin Range(Order(c))
      /\ req \in [Block -> Request \cup {NULL}]
      /\ req' \in [Block -> Request \cup {NULL}] /\ req'[q] = r
  BY <1>2, OrderType DEF NandInv, RequestInv
<1>5. Map(req', Append(Order(c), q)) = Append(Map(req', Order(c)), r)
  <2>1. PICK T : T = Request \cup {NULL}
    OBVIOUS
  <2>2. PICK f \in [Block -> T] : f = req'
    BY <1>4, <2>1
  <2>3. PICK o \in Seq(Block) : o = Order(c)
    BY <1>4
  <2>4. Map(f, Append(o, q)) = Append(Map(f, o), f[q])
    BY MapAppend, Zenon
  <2> QED
    BY <1>4, <2>2, <2>3, <2>4, Zenon
<1>6. Map(req', Order(c)) = Map(req, Order(c))
  <2>1. \A e \in Range(Order(c)) : req'[e] = req[e]
    <3>1. Range(Order(c)) \subseteq Block
      BY <1>4 DEF Range
    <3> QED
      BY <1>2, <1>4, <3>1
  <2> QED
    BY <1>4, <2>1, MapSame
<1>7. Unserved' = Append(Unserved, r)
  BY <1>3, <1>5, <1>6, UnservedIs DEF NandInv
<1>8. [x \in Page |-> Content(x)]' = [x \in Page |-> Content(x)]
  BY <1>2 DEF Content
<1> QED
  BY <1>2, <1>7, <1>8 DEF F!Send

(* ... one that is executed is served, ... *)
LEMMA ServeServes ==
    ASSUME NandInv, TypeOK', NEW c \in Consumers, Serve(c)
    PROVE  F!Serve
<1>1. PICK r \in Request : r = req[got[c]] /\ MaySend(r)
  BY Serving DEF Serve
<1>2. /\ cpc[c] = "got" /\ ans = <<>> /\ Execute(r)
      /\ UNCHANGED <<list, cpc, got, req, chip>>
  BY <1>1 DEF Serve, vars
<1>3. ans' # <<>> /\ Effect(r)
  BY <1>1, <1>2, ExecuteStep DEF NandInv
<1>4. got[c] \in Block /\ list \in Seq(Block) /\ req \in [Block -> Request \cup {NULL}]
  BY <1>2, Serving DEF NandInv, TypeOK, RequestInv
<1>5. PICK o : o = <<got[c]>> \o list
  OBVIOUS
<1>6. o \in Seq(Block) /\ o # <<>> /\ Head(o) = got[c] /\ Tail(o) = list
  BY <1>4, <1>5
<1>7. Order(c) = o /\ Order(c)' = list
  BY <1>2, <1>3, <1>5 DEF Order
<1>8. Unserved # <<>> /\ Head(Unserved) = r /\ Unserved' = Tail(Unserved)
  <2>1. Map(req, o) # <<>> /\ Head(Map(req, o)) = r /\ Tail(Map(req, o)) = Map(req, list)
    <3>1. PICK T : T = Request \cup {NULL}
      OBVIOUS
    <3>2. req \in [Block -> T]
      BY <1>4, <3>1
    <3>3. /\ Map(req, o) # <<>> /\ Head(Map(req, o)) = req[Head(o)]
          /\ Tail(Map(req, o)) = Map(req, Tail(o))
      BY <1>6, <3>2, MapTail, Zenon
    <3> QED
      BY <1>1, <1>6, <3>3, Zenon
  <2> QED
    BY <1>2, <1>7, <2>1, UnservedIs DEF NandInv
<1>9. (\A p \in Page : Content(p)' = Content(p))
        => [p \in Page |-> Content(p)]' = [p \in Page |-> Content(p)]
  OBVIOUS
<1>10. CASE r.cmd = "WRITEPAGE"
  BY <1>3, <1>8, <1>10 DEF Effect, F!Serve
<1>11. CASE r.cmd = "ERASEBLOCK"
  BY <1>3, <1>8, <1>11 DEF Effect, F!Serve
<1>12. CASE r.cmd = "READPAGE"
  <2>1. r.page \in Page /\ Span(r) = Column
    BY <1>12, Requests
  <2> QED
    BY <1>3, <1>8, <1>9, <1>12, <2>1 DEF Effect, F!Serve
<1>13. CASE r.cmd \in {"READID", "GETINFO", "CHIPSELECT", "READ"}
  BY <1>3, <1>8, <1>9, <1>13 DEF Effect, F!Serve
<1>14. r.cmd \in {"READPAGE", "WRITEPAGE", "ERASEBLOCK"}
        \cup {"READID", "GETINFO", "CHIPSELECT", "READ"}
  BY DEF Request
<1> QED
  BY <1>10, <1>11, <1>12, <1>13, <1>14

(* ... one that is given back is answered, ... *)
LEMMA GiveBackAnswers ==
    ASSUME NandInv, TypeOK', NEW c \in Consumers, GiveBack(c)
    PROVE  F!Answered
<1>1. /\ cpc[c] = "got" /\ cpc'[c] = "check" /\ ans # <<>> /\ ans' = <<>>
      /\ list' = list /\ store' = store
      /\ req' = [req EXCEPT ![got[c]] = NULL]
  BY DEF NandInv, TypeOK, GiveBack, Finish
<1>2. Order(c) = list /\ Order(c)' = list
  BY <1>1 DEF Order
<1>3. Map(req', list) = Map(req, list)
  <2>1. list \in Seq(Block) /\ got[c] \notin Range(list)
    BY DEF NandInv, TypeOK, Once
  <2>2. \A e \in Range(list) : req'[e] = req[e]
    <3>1. Range(list) \subseteq Block
      BY <2>1 DEF Range
    <3> QED
      BY <1>1, <2>1, <3>1 DEF NandInv, RequestInv
  <2> QED
    BY <2>1, <2>2, MapSame
<1>4. Unserved' = Unserved
  BY <1>2, <1>3, UnservedIs DEF NandInv
<1>5. [p \in Page |-> Content(p)]' = [p \in Page |-> Content(p)]
  BY <1>1 DEF Content
<1> QED
  BY <1>1, <1>4, <1>5 DEF F!Answered

(* ... and the other steps are not seen. *)
LEMMA FetchStutters ==
    ASSUME NandInv, TypeOK', NEW c \in Consumers,
           \/ Fetch(c)
           \/ \E p \in Producers : Raise(p)
           \/ UNCHANGED nandVars
    PROVE  UNCHANGED <<Unserved, [p \in Page |-> Content(p)], ans>>
<1>1. UNCHANGED <<chip, store, req, ans>>
  BY DEF Fetch, Raise, nandVars
<1>2. Order(c)' = Order(c)
  <2>1. CASE Get(c)
    <3>1. /\ cpc[c] = "check" /\ cpc'[c] = "got" /\ list # <<>>
          /\ got'[c] = Head(list) /\ list' = Tail(list)
      BY <2>1 DEF NandInv, TypeOK, Get
    <3>2. ans = <<>>
      BY <3>1, OneConsumer DEF NandInv, AnswerInv
    <3>3. <<Head(list)>> \o Tail(list) = list
      <4>1. list \in Seq(Block) /\ list # <<>>
        BY <3>1 DEF NandInv, TypeOK
      <4> QED
        BY <4>1
    <3> QED
      BY <1>1, <3>1, <3>2, <3>3 DEF Order
  <2>2. CASE FindEmpty(c) \/ Wait(c)
    BY <1>1, <2>2 DEF NandInv, TypeOK, FindEmpty, Wait, Order
  <2>3. ASSUME NEW p \in Producers, Raise(p)
        PROVE  Order(c)' = Order(c)
    BY <1>1, <2>3 DEF NandInv, TypeOK, Raise, Signal, SetBits, Order
  <2>4. CASE UNCHANGED nandVars
    BY <2>4 DEF nandVars, vars, Order
  <2> QED
    BY <2>1, <2>2, <2>3, <2>4 DEF Fetch
<1>3. Unserved' = Unserved
  BY <1>1, <1>2, UnservedIs DEF NandInv
<1>4. [p \in Page |-> Content(p)]' = [p \in Page |-> Content(p)]
  BY <1>1 DEF Content
<1> QED
  BY <1>1, <1>3, <1>4

(* For any number of blocks, pages and requests the server implements the  *)
(* flash memory that CPU2 takes it for: with the emulated chip whatever is *)
(* written, with the mtd chip for writes inside of its pages.              *)
THEOREM ImplementsFlash == NandSpec => IsFlash
<1>1. NandInit => F!Init
  <2> SUFFICES ASSUME NandInit PROVE F!Init
    OBVIOUS
  <2>1. Unserved = <<>>
    <3>1. \A c \in Consumers : cpc[c] = "check"
      BY DEF NandInit, Init
    <3>2. list = <<>>
      BY DEF NandInit, Init
    <3>3. (CHOOSE c \in Consumers : TRUE) \in Consumers
      BY ConsumerAssumption
    <3> QED
      BY <3>1, <3>2, <3>3 DEF Unserved
  <2>2. ASSUME NEW p \in Page
        PROVE  Content(p) = [c \in Column |-> Erased]
    <3>1. /\ page_to_block(p) \in 0 .. NBlocks - 1
          /\ page_to_pageinblock(p) \in 0 .. PerBlock - 1
      BY Address
    <3>2. store[page_to_block(p)] =
            IF chip = "stub" THEN NULL ELSE [i \in 0 .. PerBlock - 1 |-> Blank]
      BY <3>1 DEF NandInit, Blank
    <3> QED
      BY <3>1, <3>2 DEF Content, Blank
  <2> QED
    BY <2>1, <2>2 DEF F!Init, NandInit
<1>2. NandInv /\ [NandNext]_nandVars
        => [F!Next]_<<Unserved, [p \in Page |-> Content(p)], ans>>
  <2> SUFFICES ASSUME NandInv, [NandNext]_nandVars
               PROVE  F!Next \/ UNCHANGED <<Unserved, [p \in Page |-> Content(p)], ans>>
    OBVIOUS
  <2>1. TypeOK'
    BY NandStep, TypeStep DEF NandInv
  <2>2. PICK c \in Consumers : TRUE
    BY ConsumerAssumption
  <2>3. ASSUME NEW p \in Producers, NEW q \in Block, NEW r \in Request, PutRequest(p, q, r)
        PROVE  F!Next
    BY <2>1, <2>3, PutSends DEF F!Next
  <2>4. ASSUME NEW d \in Consumers, Serve(d)
        PROVE  F!Next
    BY <2>1, <2>4, ServeServes DEF F!Next
  <2>5. ASSUME NEW d \in Consumers, GiveBack(d)
        PROVE  F!Next
    BY <2>1, <2>5, GiveBackAnswers DEF F!Next
  <2>6. ASSUME \/ \E d \in Consumers : Fetch(d)
               \/ \E p \in Producers : Raise(p)
               \/ UNCHANGED nandVars
        PROVE  UNCHANGED <<Unserved, [p \in Page |-> Content(p)], ans>>
    BY <2>1, <2>2, <2>6, FetchStutters
  <2> QED
    BY <2>3, <2>4, <2>5, <2>6 DEF NandNext, Thread
<1> QED
  BY <1>1, <1>2, Invariance, PTL DEF NandSpec, IsFlash, F!Spec

=============================================================================
