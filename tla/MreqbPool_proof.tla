-------------------------- MODULE MreqbPool_proof --------------------------
(***************************************************************************)
(* Proofs about the allocator of request blocks, for any number of blocks, *)
(* threads and units of extra data.                                        *)
(***************************************************************************)
EXTENDS MreqbPool, ListLemmas

(* A thread has a block in its hands exactly while it waits for the extra  *)
(* data of the block: without this, nothing says whose block becomes full. *)
MineInv == \A t \in Threads : pc[t] = "edata" <=> mine[t] # NULL

IInv == Conserved /\ MineInv

(* The blocks that have extra data; there are finitely many. *)
Full == {b \in Block : use[b] = "full"}

LEMMA FullFinite == IsFiniteSet(Full) /\ Cardinality(Full) \in Nat
  BY PoolAssumption, FS_Subset, FS_CardinalityType DEF Full

-----------------------------------------------------------------------------
(* The invariant holds at the start: mreqb_pool_create links every block. *)
LEMMA InitIInv == Init => IInv
<1> SUFFICES ASSUME Init PROVE IInv
  OBVIOUS
<1>1. free \in Seq(Block) /\ IsInjective(free) /\ Range(free) = Block
  BY PoolAssumption, ListEnumeration DEF Init
<1>2. TypeOK
  <2>1. event \in BOOLEAN
    BY DEF Init
  <2>2. edata \in 0 .. Units
    <3>1. edata = Units
      BY DEF Init
    <3> QED
      BY <3>1, PoolAssumption
  <2>3. /\ pc \in [Threads -> {"idle", "try", "sleep", "blocked", "edata"}]
        /\ wants \in [Threads -> BOOLEAN]
        /\ mine \in [Threads -> Block \cup {NULL}]
        /\ use \in [Block -> {"none", "bare", "full", "freeing"}]
    BY DEF Init
  <2> QED
    BY <1>1, <2>1, <2>2, <2>3 DEF TypeOK
<1>3. Full = {} /\ Cardinality(Full) = 0
  BY FS_EmptySet DEF Init, Full
<1>4. \A b \in Block : Waiting(b) = {}
  BY PoolAssumption DEF Init, Waiting
<1>5. \A s, t \in Threads : mine[s] = mine[t] /\ mine[s] # NULL => s = t
  BY DEF Init
<1>6. edata + Cardinality(Full) = Units
  BY <1>3, PoolAssumption DEF Init
<1>7. MineInv
  BY DEF Init, MineInv
<1> QED
  BY <1>1, <1>2, <1>4, <1>5, <1>6, <1>7 DEF IInv, Conserved, Full, Init

-----------------------------------------------------------------------------
(* The steps that move no block. *)
LEMMA IdleStep ==
    ASSUME IInv, UNCHANGED <<free, edata, mine, use>>,
           event' \in BOOLEAN,
           wants' \in [Threads -> BOOLEAN],
           pc' \in [Threads -> {"idle", "try", "sleep", "blocked", "edata"}],
           \A t \in Threads : pc'[t] = "edata" <=> pc[t] = "edata"
    PROVE  IInv'
<1>1. TypeOK'
  BY DEF IInv, Conserved, TypeOK
<1>2. \A b \in Block : Waiting(b)' = Waiting(b)
  BY DEF Waiting
<1> QED
  BY <1>1, <1>2 DEF IInv, Conserved, MineInv

(* A thread takes the head of the free list. *)
LEMMA TakeStep ==
    ASSUME IInv, NEW t \in Threads, Take(t)
    PROVE  IInv'
<1> PICK b : b = Head(free)
  OBVIOUS
<1>1. /\ b \in Block /\ b \in Range(free) /\ b # NULL
      /\ Tail(free) \in Seq(Block)
      /\ Range(Tail(free)) = Range(free) \ {b}
      /\ IsInjective(Tail(free))
  BY ListDelFirst, PoolAssumption DEF IInv, Conserved, TypeOK, Take
<1>2. use[b] = "none" /\ Waiting(b) = {} /\ mine[t] = NULL
  BY <1>1 DEF IInv, Conserved, MineInv, Take
<1>3. free' = Tail(free) /\ UNCHANGED <<event, edata, wants>>
  BY DEF Take
<1>4. Full' = Full
  BY <1>1, <1>2 DEF Take, Full, IInv, Conserved, TypeOK
<1>5. edata' + Cardinality(Full') = Units
  BY <1>3, <1>4 DEF IInv, Conserved, Full
<1>6. CASE wants[t]
  <2>1. mine' = [mine EXCEPT ![t] = b] /\ pc' = [pc EXCEPT ![t] = "edata"] /\ use' = use
    BY <1>6 DEF Take
  <2>2. TypeOK'
    BY <1>1, <1>3, <2>1 DEF IInv, Conserved, TypeOK
  <2>3. Waiting(b)' = {t} /\ \A x \in Block \ {b} : Waiting(x)' = Waiting(x)
    <3>1. \A u \in Threads : mine'[u] = IF u = t THEN b ELSE mine[u]
      BY <2>1 DEF IInv, Conserved, TypeOK
    <3>2. Waiting(b)' = {t}
      BY <1>2, <3>1 DEF Waiting
    <3>3. ASSUME NEW x \in Block \ {b} PROVE Waiting(x)' = Waiting(x)
      BY <1>1, <1>2, <3>1, PoolAssumption DEF Waiting
    <3> QED
      BY <3>2, <3>3
  <2>4. \A s, u \in Threads : mine'[s] = mine'[u] /\ mine'[s] # NULL => s = u
    BY <1>1, <1>2, <2>1 DEF Waiting, IInv, Conserved, TypeOK
  <2>5. MineInv'
    BY <1>1, <2>1 DEF IInv, Conserved, TypeOK, MineInv
  <2> QED
    BY <1>1, <1>2, <1>3, <1>5, <2>1, <2>2, <2>3, <2>4, <2>5
    DEF IInv, Conserved, Full
<1>7. CASE ~ wants[t]
  <2>1. use' = [use EXCEPT ![b] = "bare"] /\ pc' = [pc EXCEPT ![t] = "idle"] /\ mine' = mine
    BY <1>7 DEF Take
  <2>2. TypeOK'
    BY <1>1, <1>3, <2>1 DEF IInv, Conserved, TypeOK
  <2>3. \A x \in Block : Waiting(x)' = Waiting(x)
    BY <2>1 DEF Waiting
  <2>4. MineInv'
    BY <1>2, <2>1 DEF IInv, Conserved, TypeOK, MineInv
  <2> QED
    BY <1>1, <1>2, <1>3, <1>5, <2>1, <2>2, <2>3, <2>4
    DEF IInv, Conserved, Full, TypeOK
<1> QED
  BY <1>6, <1>7

(* Its extra data arrives: one unit less, one block with extra data more. *)
LEMMA TakeEdataStep ==
    ASSUME IInv, NEW t \in Threads, TakeEdata(t)
    PROVE  IInv'
<1> PICK b : b = mine[t]
  OBVIOUS
<1>1. b \in Block /\ t \in Waiting(b) /\ use[b] = "none"
  BY DEF IInv, Conserved, TypeOK, MineInv, Waiting, TakeEdata
<1>2. b \notin Range(free)
  BY <1>1 DEF IInv, Conserved
<1>3. /\ edata' = edata - 1 /\ edata > 0
      /\ use' = [use EXCEPT ![b] = "full"]
      /\ mine' = [mine EXCEPT ![t] = NULL]
      /\ pc' = [pc EXCEPT ![t] = "idle"]
      /\ UNCHANGED <<free, event, wants>>
  BY DEF TakeEdata
<1>4. TypeOK'
  BY <1>1, <1>3, PoolAssumption DEF IInv, Conserved, TypeOK
<1>5. Full' = Full \cup {b} /\ b \notin Full
  BY <1>1, <1>3 DEF Full, IInv, Conserved, TypeOK
<1>6. edata' + Cardinality(Full') = Units
  <2>1. edata \in Nat /\ edata + Cardinality(Full) = Units
    BY DEF IInv, Conserved, Full, TypeOK
  <2>2. Cardinality(Full') = Cardinality(Full) + 1
    BY <1>5, FullFinite, FS_AddElement
  <2> QED
    BY <1>3, <2>1, <2>2, FullFinite
<1>7. Waiting(b)' = {} /\ \A x \in Block \ {b} : Waiting(x)' = Waiting(x)
  BY <1>1, <1>3, PoolAssumption DEF Waiting, IInv, Conserved, TypeOK
<1>8. \A s, u \in Threads : mine'[s] = mine'[u] /\ mine'[s] # NULL => s = u
  BY <1>3 DEF IInv, Conserved, TypeOK
<1>9. MineInv'
  BY <1>3 DEF IInv, Conserved, TypeOK, MineInv
<1> QED
  BY <1>1, <1>2, <1>3, <1>4, <1>6, <1>7, <1>8, <1>9
  DEF IInv, Conserved, Full, TypeOK

(* mreqb_free returns the extra data, which the block no longer has. *)
LEMMA FreeEdataStep ==
    ASSUME IInv, NEW b \in Block, FreeEdata(b)
    PROVE  IInv'
<1>1. /\ use[b] = "full" /\ edata' = edata + 1
      /\ use' = [use EXCEPT ![b] = "freeing"]
      /\ UNCHANGED <<free, event, pc, wants, mine>>
  BY DEF FreeEdata
<1>2. Full' = Full \ {b} /\ b \in Full
  BY <1>1 DEF Full, IInv, Conserved, TypeOK
<1>3. /\ edata \in Nat /\ edata + Cardinality(Full) = Units
      /\ Cardinality(Full) \in Nat /\ Cardinality(Full') \in Nat
      /\ Cardinality(Full') = Cardinality(Full) - 1
  <2>1. edata \in Nat /\ edata + Cardinality(Full) = Units
    BY DEF IInv, Conserved, Full, TypeOK
  <2>2. IsFiniteSet(Full')
    BY <1>2, FullFinite, FS_RemoveElement
  <2> QED
    BY <1>2, <2>1, <2>2, FullFinite, FS_RemoveElement, FS_CardinalityType
<1>4. edata' + Cardinality(Full') = Units /\ edata' \in 0 .. Units
  BY <1>1, <1>3
<1>5. TypeOK'
  BY <1>1, <1>4 DEF IInv, Conserved, TypeOK
<1>6. \A x \in Block : Waiting(x)' = Waiting(x)
  BY <1>1 DEF Waiting
<1>7. MineInv'
  BY <1>1 DEF IInv, MineInv
<1> QED
  BY <1>1, <1>4, <1>5, <1>6, <1>7 DEF IInv, Conserved, Full, TypeOK

(* A signal wakes a thread that has no block. *)
LEMMA SetBitsStep ==
    ASSUME TypeOK, SetBits
    PROVE  /\ event' \in BOOLEAN
           /\ pc' \in [Threads -> {"idle", "try", "sleep", "blocked", "edata"}]
           /\ \A t \in Threads : pc'[t] = "edata" <=> pc[t] = "edata"
  BY DEF TypeOK, SetBits

(* A block that was in use is linked in front of the free list. *)
LEMMA FreeBlockStep ==
    ASSUME IInv, NEW b \in Block, FreeBlock(b)
    PROVE  IInv'
<1>1. /\ use[b] \in {"bare", "freeing"}
      /\ free' = <<b>> \o free
      /\ use' = [use EXCEPT ![b] = "none"]
      /\ UNCHANGED <<edata, wants, mine>>
  BY DEF FreeBlock
<1>2. b \notin Range(free) /\ Waiting(b) = {}
  BY <1>1 DEF IInv, Conserved
<1>3. /\ free' \in Seq(Block) /\ IsInjective(free')
      /\ Range(free') = Range(free) \cup {b}
  BY <1>1, <1>2, ListAdd DEF IInv, Conserved, TypeOK
<1>4. /\ event' \in BOOLEAN
      /\ pc' \in [Threads -> {"idle", "try", "sleep", "blocked", "edata"}]
      /\ \A t \in Threads : pc'[t] = "edata" <=> pc[t] = "edata"
  <2>1. CASE Signals
    BY <2>1, SetBitsStep DEF FreeBlock, IInv, Conserved
  <2>2. CASE ~ Signals
    BY <2>2 DEF FreeBlock, IInv, Conserved, TypeOK
  <2> QED
    BY <2>1, <2>2
<1>5. TypeOK'
  BY <1>1, <1>3, <1>4 DEF IInv, Conserved, TypeOK
<1>6. Full' = Full
  BY <1>1 DEF Full, IInv, Conserved, TypeOK
<1>7. edata' + Cardinality(Full') = Units
  BY <1>1, <1>6 DEF IInv, Conserved, Full
<1>8. \A x \in Block : Waiting(x)' = Waiting(x)
  BY <1>1 DEF Waiting
<1>9. MineInv'
  BY <1>1, <1>4 DEF IInv, MineInv
<1> QED
  BY <1>1, <1>2, <1>3, <1>5, <1>7, <1>8, <1>9
  DEF IInv, Conserved, Full, TypeOK

LEMMA NextIInv == IInv /\ [Next]_vars => IInv'
<1> SUFFICES ASSUME IInv, [Next]_vars PROVE IInv'
  OBVIOUS
<1>1. ASSUME NEW t \in Threads, Call(t) \/ FindEmpty(t) \/ Wait(t)
      PROVE  IInv'
  <2>1. /\ UNCHANGED <<free, edata, mine, use>>
        /\ event' \in BOOLEAN /\ wants' \in [Threads -> BOOLEAN]
        /\ pc' \in [Threads -> {"idle", "try", "sleep", "blocked", "edata"}]
        /\ \A u \in Threads : pc'[u] = "edata" <=> pc[u] = "edata"
    BY <1>1 DEF Call, FindEmpty, Wait, IInv, Conserved, TypeOK
  <2> QED
    BY <2>1, IdleStep
<1>2. ASSUME NEW t \in Threads, Take(t) \/ TakeEdata(t)
      PROVE  IInv'
  BY <1>2, TakeStep, TakeEdataStep
<1>3. ASSUME NEW b \in Block, Release(b)
      PROVE  IInv'
  BY <1>3, FreeEdataStep, FreeBlockStep DEF Release
<1>4. CASE UNCHANGED vars
  <2>1. /\ UNCHANGED <<free, edata, mine, use, pc>>
        /\ event' \in BOOLEAN /\ wants' \in [Threads -> BOOLEAN]
        /\ pc' \in [Threads -> {"idle", "try", "sleep", "blocked", "edata"}]
    BY <1>4 DEF vars, IInv, Conserved, TypeOK
  <2> QED
    BY <2>1, IdleStep
<1> QED
  BY <1>1, <1>2, <1>3, <1>4 DEF Next, Serve

(* The invariant holds in every reachable state of the allocator. *)
THEOREM Invariance == Spec => []IInv
  BY InitIInv, NextIInv, PTL DEF Spec

(* No block is lost, handed out twice or linked twice, and no unit of      *)
(* extra data is lost or freed twice, however many threads allocate and    *)
(* free.                                                                   *)
THEOREM PoolConserved == Spec => []Conserved
<1>1. IInv => Conserved
  BY DEF IInv
<1> QED
  BY <1>1, Invariance, PTL

-----------------------------------------------------------------------------
(* A signal leaves a thread on its way, or the bit. *)
LEMMA SignalHeard ==
    ASSUME TypeOK, SetBits
    PROVE  event' \/ \E t \in Threads : pc'[t] = "try"
<1>1. CASE \E t \in Threads : pc[t] = "blocked" /\ pc' = [pc EXCEPT ![t] = "try"]
  BY <1>1 DEF TypeOK
<1>2. CASE event' = TRUE
  BY <1>2
<1> QED
  BY <1>1, <1>2 DEF SetBits

(* No step but an allocation that leaves blocks behind makes threads sleep *)
(* on free blocks.                                                         *)
LEMMA StrandedStep ==
    TypeOK /\ [Next]_vars /\ ~ Stranded /\ Stranded'
    => \E t \in Threads : Take(t) /\ free' # <<>>
<1> SUFFICES ASSUME TypeOK, [Next]_vars, ~ Stranded, Stranded'
             PROVE  \E t \in Threads : Take(t) /\ free' # <<>>
  OBVIOUS
<1>1. /\ free' # <<>> /\ ~ event'
      /\ \E t \in Threads : pc'[t] \in {"sleep", "blocked"}
      /\ \A t \in Threads : pc'[t] # "try"
  BY DEF Stranded
<1>2. ASSUME NEW t \in Threads, Call(t)
      PROVE  FALSE
  BY <1>1, <1>2 DEF Call, TypeOK
<1>3. ASSUME NEW t \in Threads, FindEmpty(t)
      PROVE  FALSE
  BY <1>1, <1>3 DEF FindEmpty
<1>4. ASSUME NEW t \in Threads, Wait(t)
      PROVE  FALSE
  <2>1. pc[t] = "sleep" /\ free' = free /\ pc'[t] = IF event THEN "try" ELSE "blocked"
    BY <1>4 DEF Wait, TypeOK
  <2>2. ~ event
    BY <1>1, <2>1
  <2>3. PICK u \in Threads : pc[u] = "try"
    BY <1>1, <2>1, <2>2 DEF Stranded
  <2>4. pc'[u] = "try"
    BY <1>4, <2>1, <2>3 DEF Wait, TypeOK
  <2> QED
    BY <1>1, <2>4
<1>5. ASSUME NEW t \in Threads, TakeEdata(t)
      PROVE  FALSE
  <2>1. UNCHANGED <<free, event>> /\ \A u \in Threads : pc'[u] = IF u = t THEN "idle" ELSE pc[u]
    BY <1>5 DEF TakeEdata, TypeOK
  <2>2. pc[t] = "edata"
    BY <1>5 DEF TakeEdata
  <2> QED
    BY <1>1, <2>1, <2>2 DEF Stranded
<1>6. ASSUME NEW b \in Block, FreeEdata(b)
      PROVE  FALSE
  BY <1>1, <1>6 DEF FreeEdata, Stranded
<1>7. ASSUME NEW b \in Block, FreeBlock(b)
      PROVE  FALSE
  <2>1. CASE Signals
    BY <1>1, <1>7, <2>1, SignalHeard DEF FreeBlock
  <2>2. CASE ~ Signals
    BY <1>1, <1>7, <2>2 DEF FreeBlock, Signals, Stranded
  <2> QED
    BY <2>1, <2>2
<1>8. CASE UNCHANGED vars
  BY <1>1, <1>8 DEF vars, Stranded
<1> QED
  BY <1>1, <1>2, <1>3, <1>4, <1>5, <1>6, <1>7, <1>8 DEF Next, Serve, Release

(* For any number of threads and blocks: though only the free that finds   *)
(* the list empty signals, and wakes one thread, threads sleep on free     *)
(* blocks only after an allocation that left blocks behind.                *)
THEOREM PoolStrandedOnlyByTake == Spec => StrandedOnlyByTake
<1>1. Conserved /\ [Next]_vars
      => [~ Stranded /\ Stranded' => \E t \in Threads : Take(t) /\ free' # <<>>]_vars
  BY StrandedStep DEF Conserved
<1> QED
  BY <1>1, PoolConserved, PTL DEF Spec, StrandedOnlyByTake

=============================================================================
