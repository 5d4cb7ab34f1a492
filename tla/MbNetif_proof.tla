--------------------------- MODULE MbNetif_proof ---------------------------
(***************************************************************************)
(* Proofs about the net interface, for any number of packet buffers,       *)
(* request blocks, clients and workers, and about its queue of received    *)
(* packets (module NbufQueue).                                             *)
(***************************************************************************)
EXTENDS MbNetif, NbufQueue, ListLemmas

(* A client has a buffer from its allocation until it frees it, and a      *)
(* block from mreqb_submit_and_wait until it returns the block.            *)
ClientInv ==
    /\ \A t \in Clients : tbuf[t] # NULL <=> tpc[t] \in {"own", "ref", "free"}
    /\ \A t \in Clients : treq[t] # NULL <=> tpc[t] = "wait"
    /\ \A s, t \in Clients : treq[s] = treq[t] /\ treq[s] # NULL => s = t

(* A block is in the pool, in flight, or with the caller that waits for    *)
(* it; one in flight has such a caller just if its callback wakes one, and *)
(* points to a buffer only if its callback frees it.                       *)
BlockInv ==
    /\ \A t \in Clients : treq[t] \notin Range(req_pool)
    /\ \A r \in Reqb : r \in inflight \cup Range(req_pool) \/ \E t \in Clients : treq[t] = r
    /\ \A r \in inflight :
          /\ complete[r] = "mreqb_blocking_completion" <=> \E t \in Clients : treq[t] = r
          /\ context[r] # NULL => complete[r] = "xmit_async_complete"

(* ReqbConserved without its counting. *)
PoolInv ==
    /\ IsInjective(req_pool)
    /\ inflight \cap Range(req_pool) = {}
    /\ \A r \in Range(req_pool) : argc[r] = 0 /\ ranges[r] = 0 /\ context[r] = NULL

ReqbInv == TypeOK /\ PoolInv /\ ClientInv /\ BlockInv

IInv == ReqbInv /\ NoUseAfterFree

-----------------------------------------------------------------------------
(* The request blocks.  mreqb_reservepool_alloc takes one off the pool ... *)
LEMMA SubmitEffect ==
    ASSUME ReqbInv, NEW isPacket \in BOOLEAN, NEW n \in Nbuf \cup {NULL},
           NEW callback \in {"xmit_async_complete", "recycle_mreqb_resource",
                             "mreqb_blocking_completion"},
           SubmitReqb(isPacket, n, callback)
    PROVE  \E r \in Reqb :
              /\ r = Head(req_pool)
              /\ r \in Range(req_pool) /\ r \notin inflight
              /\ req_pool' \in Seq(Reqb)
              /\ Range(req_pool') = Range(req_pool) \ {r}
              /\ inflight' = inflight \cup {r}
              /\ argc' \in [Reqb -> 0 .. MaxArgs] /\ ranges' \in [Reqb -> 0 .. MaxArgs]
              /\ context' = [context EXCEPT ![r] = n]
              /\ complete' = [complete EXCEPT ![r] = callback]
              /\ PoolInv'
<1>0. PICK r : r = Head(req_pool)
  OBVIOUS
<1>1. /\ req_pool # <<>> /\ req_pool' = Tail(req_pool)
      /\ argc' = [argc EXCEPT ![r] = IF isPacket THEN @ + 3 ELSE @]
      /\ ranges' = [ranges EXCEPT ![r] = IF isPacket THEN @ + 1 ELSE @]
      /\ context' = [context EXCEPT ![r] = n]
      /\ complete' = [complete EXCEPT ![r] = callback]
      /\ inflight' = inflight \cup {r}
  BY <1>0 DEF SubmitReqb
<1>2. /\ r \in Reqb /\ r \in Range(req_pool)
      /\ Tail(req_pool) \in Seq(Reqb)
      /\ Range(Tail(req_pool)) = Range(req_pool) \ {r}
      /\ IsInjective(Tail(req_pool))
  BY <1>0, <1>1, ListDelFirst DEF ReqbInv, TypeOK, PoolInv
<1>3. r \notin inflight /\ argc[r] = 0 /\ ranges[r] = 0
  BY <1>2 DEF ReqbInv, PoolInv
<1>4. argc' \in [Reqb -> 0 .. MaxArgs] /\ ranges' \in [Reqb -> 0 .. MaxArgs]
  BY <1>1, <1>2, <1>3 DEF ReqbInv, TypeOK, MaxArgs
<1>5. ASSUME NEW q \in Range(req_pool')
      PROVE  argc'[q] = 0 /\ ranges'[q] = 0 /\ context'[q] = NULL
  <2>1. q \in Range(req_pool) /\ q # r /\ q \in Reqb
    BY <1>1, <1>2, RangeOfSeq
  <2> QED
    BY <1>1, <2>1 DEF ReqbInv, PoolInv, TypeOK
<1>6. PoolInv'
  BY <1>1, <1>2, <1>5 DEF ReqbInv, PoolInv
<1> QED
  BY <1>0, <1>1, <1>2, <1>3, <1>4, <1>6

(* ... and mreqb_reservepool_free puts it back, cleared. *)
LEMMA FreeEffect ==
    ASSUME ReqbInv, NEW r \in Reqb, r \notin Range(req_pool), ReservepoolFree(r),
           inflight' = inflight \ {r}
    PROVE  /\ req_pool' \in Seq(Reqb)
           /\ Range(req_pool') = Range(req_pool) \cup {r}
           /\ argc' \in [Reqb -> 0 .. MaxArgs] /\ ranges' \in [Reqb -> 0 .. MaxArgs]
           /\ context' = [context EXCEPT ![r] = NULL]
           /\ complete' = [complete EXCEPT ![r] = "none"]
           /\ PoolInv'
<1>1. /\ req_pool' = Append(req_pool, r)
      /\ argc' = [argc EXCEPT ![r] = 0] /\ ranges' = [ranges EXCEPT ![r] = 0]
      /\ context' = [context EXCEPT ![r] = NULL]
      /\ complete' = [complete EXCEPT ![r] = "none"]
  BY DEF ReservepoolFree, Reinit
<1>2. /\ Append(req_pool, r) \in Seq(Reqb)
      /\ Range(Append(req_pool, r)) = Range(req_pool) \cup {r}
      /\ IsInjective(Append(req_pool, r))
  BY ListAddTail DEF ReqbInv, TypeOK, PoolInv
<1>3. argc' \in [Reqb -> 0 .. MaxArgs] /\ ranges' \in [Reqb -> 0 .. MaxArgs]
  BY <1>1 DEF ReqbInv, TypeOK, MaxArgs
<1>4. ASSUME NEW q \in Range(req_pool')
      PROVE  argc'[q] = 0 /\ ranges'[q] = 0 /\ context'[q] = NULL
  <2>1. q \in Reqb /\ (q = r \/ q \in Range(req_pool))
    BY <1>1, <1>2, RangeOfSeq
  <2> QED
    BY <1>1, <2>1 DEF ReqbInv, PoolInv, TypeOK
<1>5. PoolInv'
  BY <1>1, <1>2, <1>4 DEF ReqbInv, PoolInv
<1> QED
  BY <1>1, <1>2, <1>3, <1>5

-----------------------------------------------------------------------------
(* The buffer of the call that transmits one, and that of a request in     *)
(* flight: with tbuf, wbuf, backlog and fwd all there is to reach one by.  *)
calling == [t \in Clients |-> IF tpc[t] = "ref" THEN tbuf[t] ELSE NULL]
flying  == [r \in Reqb |-> IF r \in inflight THEN context[r] ELSE NULL]

Count(f, n) == Cardinality(Places(f, n))
Is(a, b) == IF a = b THEN 1 ELSE 0

(* Users counts these.  (Both conjuncts say the same of the two states of  *)
(* a step.)                                                                *)
LEMMA UsersAre ==
    /\ TypeOK => \A n \in Nbuf :
          Users(n) = Count(tbuf, n) + Count(calling, n) + Count(flying, n)
                     + Count(wbuf, n) + Count(backlog, n) + Is(fwd, n)
    /\ TypeOK' => \A n \in Nbuf :
          Users(n)' = Count(tbuf', n) + Count(calling', n) + Count(flying', n)
                      + Count(wbuf', n) + Count(backlog', n) + Is(fwd', n)
<1>1. ASSUME TypeOK, NEW n \in Nbuf
      PROVE  /\ Places(tbuf, n) = {t \in Clients : tbuf[t] = n}
             /\ Places(calling, n) = {t \in Clients : tbuf[t] = n /\ tpc[t] = "ref"}
             /\ Places(flying, n) = {r \in inflight : context[r] = n}
             /\ Places(wbuf, n) = {w \in Workers : wbuf[w] = n}
  BY <1>1, NetifAssumption, NbufAssumption DEF TypeOK, Places, calling, flying
<1>2. ASSUME TypeOK', NEW n \in Nbuf
      PROVE  /\ Places(tbuf', n) = {t \in Clients : tbuf'[t] = n}
             /\ Places(calling', n) = {t \in Clients : tbuf'[t] = n /\ tpc'[t] = "ref"}
             /\ Places(flying', n) = {r \in inflight' : context'[r] = n}
             /\ Places(wbuf', n) = {w \in Workers : wbuf'[w] = n}
  BY <1>2, NetifAssumption, NbufAssumption DEF TypeOK, Places, calling, flying
<1>3. ASSUME TypeOK
      PROVE  \A n \in Nbuf :
          Users(n) = Count(tbuf, n) + Count(calling, n) + Count(flying, n)
                     + Count(wbuf, n) + Count(backlog, n) + Is(fwd, n)
  <2>1. SUFFICES ASSUME NEW n \in Nbuf
                 PROVE  Users(n) = Count(tbuf, n) + Count(calling, n) + Count(flying, n)
                                   + Count(wbuf, n) + Count(backlog, n) + Is(fwd, n)
    OBVIOUS
  <2>2. Places(backlog, n) = {i \in DOMAIN backlog : backlog[i] = n}
    BY DEF Places
  <2> QED BY <1>1, <1>3, <2>2, Zenon DEF Users, Count, Is
<1>4. ASSUME TypeOK'
      PROVE  \A n \in Nbuf :
          Users(n)' = Count(tbuf', n) + Count(calling', n) + Count(flying', n)
                      + Count(wbuf', n) + Count(backlog', n) + Is(fwd', n)
  <2>1. SUFFICES ASSUME NEW n \in Nbuf
                 PROVE  Users(n)' = Count(tbuf', n) + Count(calling', n) + Count(flying', n)
                                    + Count(wbuf', n) + Count(backlog', n) + Is(fwd', n)
    OBVIOUS
  <2>2. Places(backlog', n) = {i \in DOMAIN backlog' : backlog'[i] = n}
    BY DEF Places
  <2> QED BY <1>2, <1>4, <2>2, Zenon DEF Users, Count, Is
<1> QED
  BY <1>3, <1>4

(* The counts are numbers, so is their sum. *)
LEMMA CountType ==
    ASSUME TypeOK, NEW n
    PROVE  /\ Count(tbuf, n) \in Nat /\ Count(calling, n) \in Nat
           /\ Count(flying, n) \in Nat /\ Count(wbuf, n) \in Nat
           /\ Count(backlog, n) \in Nat /\ Is(fwd, n) \in {0, 1}
<1>1. /\ IsFiniteSet(Clients) /\ IsFiniteSet(Workers) /\ IsFiniteSet(Reqb)
      /\ Places(tbuf, n) \subseteq Clients /\ Places(calling, n) \subseteq Clients
      /\ Places(flying, n) \subseteq Reqb /\ Places(wbuf, n) \subseteq Workers
  BY NetifAssumption, NbufAssumption DEF TypeOK, Places, calling, flying
<1>2. /\ IsFiniteSet(Places(tbuf, n)) /\ IsFiniteSet(Places(calling, n))
      /\ IsFiniteSet(Places(flying, n)) /\ IsFiniteSet(Places(wbuf, n))
  BY <1>1, FS_Subset
<1>3. Count(backlog, n) \in Nat
  BY PlacesFinite DEF TypeOK, Count
<1>4. /\ Count(tbuf, n) \in Nat /\ Count(calling, n) \in Nat
      /\ Count(flying, n) \in Nat /\ Count(wbuf, n) \in Nat
  BY <1>2, FS_CardinalityType DEF Count
<1> QED
  BY <1>3, <1>4 DEF Is

LEMMA UsersType ==
    TypeOK => \A n \in Nbuf : Users(n) \in Nat
  BY CountType, UsersAre

(* Setting one place of a table a of buffers (of clients, requests or      *)
(* workers) changes its counts at that place.                              *)
LEMMA CountSet ==
    ASSUME NEW S, IsFiniteSet(S), NEW a, NEW b, DOMAIN a = S, DOMAIN b = S,
           NEW x \in S, \A y \in S : y # x => b[y] = a[y]
    PROVE  \A n : /\ Count(a, n) \in Nat
                  /\ Count(b, n) = Count(a, n) + Is(b[x], n) - Is(a[x], n)
  BY PlacesUpdate DEF Count, Is

(* A buffer somewhere in one of the tables has a user. *)
LEMMA CountPositive ==
    ASSUME NEW a, NEW x \in DOMAIN a, IsFiniteSet(DOMAIN a)
    PROVE  Count(a, a[x]) > 0
<1>1. Places(a, a[x]) \subseteq DOMAIN a /\ x \in Places(a, a[x])
  BY DEF Places
<1>2. IsFiniteSet(Places(a, a[x])) /\ Cardinality(Places(a, a[x])) \in Nat
  BY <1>1, FS_Subset, FS_CardinalityType
<1>3. Cardinality(Places(a, a[x])) # 0
  BY <1>1, <1>2, FS_EmptySet
<1> QED
  BY <1>2, <1>3 DEF Count

LEMMA Held ==
    ASSUME TypeOK, NEW m \in Nbuf,
           \/ \E t \in Clients : tbuf[t] = m
           \/ \E w \in Workers : wbuf[w] = m
           \/ fwd = m
    PROVE  Users(m) > 0
<1>1. /\ Count(tbuf, m) \in Nat /\ Count(calling, m) \in Nat
      /\ Count(flying, m) \in Nat /\ Count(wbuf, m) \in Nat
      /\ Count(backlog, m) \in Nat /\ Is(fwd, m) \in {0, 1}
  BY CountType
<1>2. /\ IsFiniteSet(Clients) /\ IsFiniteSet(Workers)
      /\ DOMAIN tbuf = Clients /\ DOMAIN wbuf = Workers
  BY NetifAssumption, NbufAssumption DEF TypeOK
<1>3. CASE \E t \in Clients : tbuf[t] = m
  BY <1>1, <1>2, <1>3, CountPositive, UsersAre
<1>4. CASE \E w \in Workers : wbuf[w] = m
  BY <1>1, <1>2, <1>4, CountPositive, UsersAre
<1>5. CASE fwd = m
  BY <1>1, <1>5, UsersAre DEF Is
<1> QED
  BY <1>3, <1>4, <1>5

(* A step changes the number of users of buffer m by d and of no other. *)
UsersChange(m, d) ==
    \A n \in Nbuf : Users(n)' = Users(n) + (IF n = m THEN d ELSE 0)

(* A step that leaves a reference behind, and the only reason for one. *)
Leaks == \E n \in Nbuf : Slack(n)' > Slack(n)
LeakExcused ==
    \A n \in Nbuf : Slack(n)' > Slack(n) =>
        req_pool = <<>> /\ \E t \in Clients : tpc[t] = "ref" /\ tbuf[t] = n

(* What the references have to do for the users: nothing ... *)
LEMMA BalanceSame ==
    ASSUME TypeOK, NoUseAfterFree, UNCHANGED nbufVars,
           \A n \in Nbuf : Users(n)' = Users(n)
    PROVE  NoUseAfterFree' /\ ~ Leaks
<1>1. UNCHANGED <<memp, ref>>
  BY DEF nbufVars
<1>2. \A n \in Nbuf : Users(n) \in Nat /\ ref[n] \in Nat
  BY UsersType DEF TypeOK
<1> QED
  BY <1>1, <1>2 DEF NoUseAfterFree, Slack, Leaks

(* ... a new buffer with the one user it was allocated for ... *)
LEMMA BalanceAlloc ==
    ASSUME TypeOK, NoUseAfterFree, NEW m \in Nbuf, NetbufAlloc(m), UsersChange(m, 1)
    PROVE  NoUseAfterFree' /\ ~ Leaks
<1>1. \A n \in Nbuf : Users(n) \in Nat /\ ref[n] \in Nat
  BY UsersType DEF TypeOK
<1>2. m \in memp /\ memp' = memp \ {m} /\ ref' = [ref EXCEPT ![m] = 1]
  BY DEF NetbufAlloc, MempAlloc
<1>3. Users(m) = 0
  BY <1>1, <1>2 DEF NoUseAfterFree
<1> QED
  BY <1>1, <1>2, <1>3 DEF NoUseAfterFree, Slack, Leaks, UsersChange, TypeOK

(* ... one reference more for a user more, of a buffer that is in use ...  *)
LEMMA BalanceRef ==
    ASSUME TypeOK, NoUseAfterFree, NEW m \in Nbuf, Users(m) > 0,
           memp' = memp, ref' = [ref EXCEPT ![m] = @ + 1], UsersChange(m, 1)
    PROVE  NoUseAfterFree' /\ ~ Leaks
<1>1. \A n \in Nbuf : Users(n) \in Nat /\ ref[n] \in Nat
  BY UsersType DEF TypeOK
<1> QED
  BY <1>1 DEF NoUseAfterFree, Slack, Leaks, UsersChange, TypeOK

(* ... and one less for a user less, the last of which frees the buffer.   *)
LEMMA FreeType ==
    ASSUME TypeOK, NoUseAfterFree, NEW m \in Nbuf, Users(m) > 0, NetbufFree(m)
    PROVE  memp' \subseteq Nbuf /\ ref' \in [Nbuf -> Nat]
<1>1. Users(m) \in Nat /\ ref[m] \in Nat
  BY UsersType DEF TypeOK
<1>2. ref[m] >= Users(m)
  BY <1>1 DEF NoUseAfterFree, Slack
<1> QED
  BY <1>1, <1>2 DEF NetbufFree, MempFree, TypeOK

LEMMA BalanceFree ==
    ASSUME TypeOK, NoUseAfterFree, NEW m \in Nbuf, Users(m) > 0,
           NetbufFree(m), UsersChange(m, -1)
    PROVE  NoUseAfterFree' /\ ~ Leaks
<1>1. \A n \in Nbuf : Users(n) \in Nat /\ ref[n] \in Nat
  BY UsersType DEF TypeOK
<1>2. /\ ref' = [ref EXCEPT ![m] = @ - 1]
      /\ memp' = IF ref[m] = 1 THEN memp \cup {m} ELSE memp
  BY DEF NetbufFree, MempFree
<1>3. ref[m] >= Users(m)
  BY <1>1 DEF NoUseAfterFree, Slack
<1>4. \A n \in Nbuf : /\ ref'[n] = ref[n] - (IF n = m THEN 1 ELSE 0)
                      /\ Users(n)' = Users(n) - (IF n = m THEN 1 ELSE 0)
  BY <1>1, <1>2 DEF UsersChange, TypeOK
<1>5. \A n \in Nbuf : Slack(n)' = Slack(n)
  BY <1>1, <1>4 DEF Slack
<1>6. \A n \in Nbuf : Users(n)' > 0 => n \notin memp'
  BY <1>1, <1>2, <1>3, <1>4 DEF NoUseAfterFree
<1> QED
  BY <1>1, <1>5, <1>6 DEF NoUseAfterFree, Slack, Leaks

-----------------------------------------------------------------------------
(* What every step keeps. *)
Kept == IInv' /\ LeakExcused

LEMMA KeptBy ==
    ReqbInv' /\ NoUseAfterFree' /\ ~ Leaks => Kept
  BY DEF Kept, IInv, Leaks, LeakExcused

(* The client. *)
LEMMA ClientAllocKept ==
    ASSUME IInv, NEW t \in Clients, NEW m \in Nbuf, ClientAlloc(t, m)
    PROVE  Kept
<1>1. /\ tpc[t] = "idle" /\ NetbufAlloc(m)
      /\ tpc' = [tpc EXCEPT ![t] = "own"] /\ tbuf' = [tbuf EXCEPT ![t] = m]
      /\ UNCHANGED <<reqbVars, treq, wbuf, rxVars>>
  BY DEF ClientAlloc
<1>2. TypeOK /\ ReqbInv /\ NoUseAfterFree
  BY DEF IInv, ReqbInv
<1>3. TypeOK'
  BY <1>1, <1>2 DEF TypeOK, NetbufAlloc, MempAlloc, reqbVars, rxVars
<1>4. ReqbInv'
  <2>1. PoolInv' /\ BlockInv'
    BY <1>1, <1>2 DEF ReqbInv, PoolInv, BlockInv, reqbVars
  <2>2. ClientInv'
    BY <1>1, <1>2, NetifAssumption, NbufAssumption DEF ReqbInv, ClientInv, TypeOK
  <2> QED
    BY <1>3, <2>1, <2>2 DEF ReqbInv
<1>5. tbuf[t] = NULL /\ tbuf'[t] = m /\ calling' = calling /\ flying' = flying
  BY <1>1, <1>2 DEF ReqbInv, ClientInv, TypeOK, calling, flying, reqbVars
<1>6. \A n : Count(tbuf', n) = Count(tbuf, n) + Is(m, n) - Is(NULL, n)
  <2>1. /\ IsFiniteSet(Clients) /\ DOMAIN tbuf = Clients /\ DOMAIN tbuf' = Clients
        /\ \A s \in Clients : s # t => tbuf'[s] = tbuf[s]
    BY <1>1, <1>2, NetifAssumption, NbufAssumption DEF TypeOK
  <2> QED
    BY <1>5, <2>1, CountSet
<1>7. UsersChange(m, 1)
  <2>1. SUFFICES ASSUME NEW n \in Nbuf
                 PROVE  Users(n)' = Users(n) + (IF n = m THEN 1 ELSE 0)
    BY DEF UsersChange
  <2>2. Is(m, n) = (IF n = m THEN 1 ELSE 0) /\ Is(NULL, n) = 0
    BY NetifAssumption, NbufAssumption DEF Is
  <2>3. wbuf' = wbuf /\ backlog' = backlog /\ fwd' = fwd
    BY <1>1 DEF rxVars
  <2> QED
    BY <1>2, <1>3, <1>5, <1>6, <2>2, <2>3, UsersAre, CountType
<1> QED
  BY <1>1, <1>2, <1>4, <1>7, BalanceAlloc, KeptBy

LEMMA XmitAsyncRefKept ==
    ASSUME IInv, NEW t \in Clients, XmitAsyncRef(t)
    PROVE  Kept
<1>0. PICK m : m = tbuf[t]
  OBVIOUS
<1>1. /\ tpc[t] = "own" /\ memp' = memp /\ ref' = [ref EXCEPT ![m] = @ + 1]
      /\ tpc' = [tpc EXCEPT ![t] = "ref"]
      /\ UNCHANGED <<reqbVars, tbuf, treq, wbuf, rxVars>>
  BY <1>0 DEF XmitAsyncRef
<1>2. TypeOK /\ ReqbInv /\ NoUseAfterFree
  BY DEF IInv, ReqbInv
<1>3. m \in Nbuf
  BY <1>0, <1>1, <1>2 DEF ReqbInv, ClientInv, TypeOK
<1>4. TypeOK'
  BY <1>1, <1>2, <1>3 DEF TypeOK, reqbVars, rxVars
<1>5. ReqbInv'
  <2>1. PoolInv' /\ BlockInv'
    BY <1>1, <1>2 DEF ReqbInv, PoolInv, BlockInv, reqbVars
  <2>2. ClientInv'
    BY <1>1, <1>2 DEF ReqbInv, ClientInv, TypeOK
  <2> QED
    BY <1>4, <2>1, <2>2 DEF ReqbInv
<1>6. calling[t] = NULL /\ calling'[t] = m /\ flying' = flying
  BY <1>0, <1>1, <1>2 DEF TypeOK, calling, flying, reqbVars
<1>7. \A n : Count(calling', n) = Count(calling, n) + Is(m, n) - Is(NULL, n)
  <2>1. /\ IsFiniteSet(Clients) /\ DOMAIN calling = Clients /\ DOMAIN calling' = Clients
        /\ \A s \in Clients : s # t => calling'[s] = calling[s]
    BY <1>1, <1>2, NetifAssumption, NbufAssumption DEF TypeOK, calling
  <2> QED
    BY <1>6, <2>1, CountSet
<1>8. UsersChange(m, 1)
  <2>1. SUFFICES ASSUME NEW n \in Nbuf
                 PROVE  Users(n)' = Users(n) + (IF n = m THEN 1 ELSE 0)
    BY DEF UsersChange
  <2>2. Is(m, n) = (IF n = m THEN 1 ELSE 0) /\ Is(NULL, n) = 0
    BY NetifAssumption, NbufAssumption DEF Is
  <2>3. tbuf' = tbuf /\ wbuf' = wbuf /\ backlog' = backlog /\ fwd' = fwd
    BY <1>1 DEF rxVars
  <2> QED
    BY <1>2, <1>4, <1>6, <1>7, <2>2, <2>3, UsersAre, CountType
<1>9. Users(m) > 0
  BY <1>0, <1>2, <1>3, Held
<1> QED
  BY <1>1, <1>2, <1>3, <1>5, <1>8, <1>9, BalanceRef, KeptBy

LEMMA XmitAsyncSubmitKept ==
    ASSUME IInv, NEW t \in Clients, XmitAsyncSubmit(t)
    PROVE  Kept
<1>0. PICK m : m = tbuf[t]
  OBVIOUS
<1>1. /\ tpc[t] = "ref" /\ SubmitReqb(TRUE, m, "xmit_async_complete")
      /\ tpc' = [tpc EXCEPT ![t] = "free"]
      /\ UNCHANGED <<nbufVars, tbuf, treq, wbuf, rxVars>>
  BY <1>0 DEF XmitAsyncSubmit
<1>2. TypeOK /\ ReqbInv /\ NoUseAfterFree
  BY DEF IInv, ReqbInv
<1>3. m \in Nbuf
  BY <1>0, <1>1, <1>2 DEF ReqbInv, ClientInv, TypeOK
<1>4. PICK r \in Reqb :
          /\ r \in Range(req_pool) /\ r \notin inflight
          /\ req_pool' \in Seq(Reqb)
          /\ Range(req_pool') = Range(req_pool) \ {r}
          /\ inflight' = inflight \cup {r}
          /\ argc' \in [Reqb -> 0 .. MaxArgs] /\ ranges' \in [Reqb -> 0 .. MaxArgs]
          /\ context' = [context EXCEPT ![r] = m]
          /\ complete' = [complete EXCEPT ![r] = "xmit_async_complete"]
          /\ PoolInv'
  BY <1>1, <1>2, <1>3, SubmitEffect
<1>5. TypeOK'
  BY <1>1, <1>2, <1>3, <1>4 DEF TypeOK, nbufVars, rxVars
<1>6. ReqbInv'
  <2>1. ClientInv'
    BY <1>1, <1>2 DEF ReqbInv, ClientInv, TypeOK
  <2>2. BlockInv'
    BY <1>1, <1>2, <1>4 DEF ReqbInv, BlockInv, TypeOK
  <2> QED
    BY <1>4, <1>5, <2>1, <2>2 DEF ReqbInv
<1>7. /\ calling[t] = m /\ calling'[t] = NULL
      /\ flying[r] = NULL /\ flying'[r] = m
  BY <1>0, <1>1, <1>2, <1>4 DEF TypeOK, calling, flying
<1>8. \A n : Count(calling', n) = Count(calling, n) + Is(NULL, n) - Is(m, n)
  <2>1. /\ IsFiniteSet(Clients) /\ DOMAIN calling = Clients /\ DOMAIN calling' = Clients
        /\ \A s \in Clients : s # t => calling'[s] = calling[s]
    BY <1>1, <1>2, NetifAssumption, NbufAssumption DEF TypeOK, calling
  <2> QED
    BY <1>7, <2>1, CountSet
<1>9. \A n : Count(flying', n) = Count(flying, n) + Is(m, n) - Is(NULL, n)
  <2>1. /\ IsFiniteSet(Reqb) /\ DOMAIN flying = Reqb /\ DOMAIN flying' = Reqb
        /\ \A q \in Reqb : q # r => flying'[q] = flying[q]
    BY <1>2, <1>4, NetifAssumption, NbufAssumption DEF TypeOK, flying
  <2> QED
    BY <1>7, <2>1, CountSet
<1>10. ASSUME NEW n \in Nbuf PROVE Users(n)' = Users(n)
  <2>1. Is(m, n) \in {0, 1} /\ Is(NULL, n) = 0
    BY NetifAssumption, NbufAssumption DEF Is
  <2>2. tbuf' = tbuf /\ wbuf' = wbuf /\ backlog' = backlog /\ fwd' = fwd
    BY <1>1 DEF rxVars
  <2> QED
    BY <1>2, <1>5, <1>8, <1>9, <2>1, <2>2, UsersAre, CountType
<1> QED
  BY <1>1, <1>2, <1>6, <1>10, BalanceSame, KeptBy

(* The request's reference stays behind, and nobody is left to give it     *)
(* back.                                                                   *)
LEMMA XmitAsyncFailKept ==
    ASSUME IInv, NEW t \in Clients, XmitAsyncFail(t)
    PROVE  Kept
<1>0. PICK m : m = tbuf[t]
  OBVIOUS
<1>1. /\ tpc[t] = "ref" /\ req_pool = <<>>
      /\ tpc' = [tpc EXCEPT ![t] = "free"]
      /\ UNCHANGED <<nbufVars, reqbVars, tbuf, treq, wbuf, rxVars>>
  BY DEF XmitAsyncFail
<1>2. TypeOK /\ ReqbInv /\ NoUseAfterFree
  BY DEF IInv, ReqbInv
<1>3. m \in Nbuf
  BY <1>0, <1>1, <1>2 DEF ReqbInv, ClientInv, TypeOK
<1>4. TypeOK'
  BY <1>1, <1>2 DEF TypeOK, nbufVars, reqbVars, rxVars
<1>5. ReqbInv'
  <2>1. PoolInv' /\ BlockInv'
    BY <1>1, <1>2 DEF ReqbInv, PoolInv, BlockInv, reqbVars
  <2>2. ClientInv'
    BY <1>1, <1>2 DEF ReqbInv, ClientInv, TypeOK
  <2> QED
    BY <1>4, <2>1, <2>2 DEF ReqbInv
<1>6. calling[t] = m /\ calling'[t] = NULL /\ flying' = flying
  BY <1>0, <1>1, <1>2 DEF TypeOK, calling, flying, reqbVars
<1>7. \A n : Count(calling', n) = Count(calling, n) + Is(NULL, n) - Is(m, n)
  <2>1. /\ IsFiniteSet(Clients) /\ DOMAIN calling = Clients /\ DOMAIN calling' = Clients
        /\ \A s \in Clients : s # t => calling'[s] = calling[s]
    BY <1>1, <1>2, NetifAssumption, NbufAssumption DEF TypeOK, calling
  <2> QED
    BY <1>6, <2>1, CountSet
<1>8. ASSUME NEW n \in Nbuf PROVE Users(n)' = Users(n) - (IF n = m THEN 1 ELSE 0)
  <2>1. Is(m, n) = (IF n = m THEN 1 ELSE 0) /\ Is(NULL, n) = 0
    BY NetifAssumption, NbufAssumption DEF Is
  <2>2. tbuf' = tbuf /\ wbuf' = wbuf /\ backlog' = backlog /\ fwd' = fwd
    BY <1>1 DEF rxVars
  <2> QED
    BY <1>2, <1>4, <1>6, <1>7, <2>1, <2>2, UsersAre, CountType
<1>9. ref' = ref /\ memp' = memp
  BY <1>1 DEF nbufVars
<1>10. \A n \in Nbuf : Users(n) \in Nat /\ ref[n] \in Nat
  BY <1>2, UsersType DEF TypeOK
<1>11. NoUseAfterFree'
  BY <1>2, <1>8, <1>9, <1>10 DEF NoUseAfterFree, Slack
<1>12. LeakExcused
  <2>1. SUFFICES ASSUME NEW n \in Nbuf, Slack(n)' > Slack(n)
                 PROVE  req_pool = <<>> /\ \E s \in Clients : tpc[s] = "ref" /\ tbuf[s] = n
    BY DEF LeakExcused
  <2>2. n = m
    BY <1>8, <1>9, <1>10, <2>1 DEF Slack
  <2> QED
    BY <1>0, <1>1, <2>2
<1> QED
  BY <1>5, <1>11, <1>12 DEF Kept, IInv

LEMMA ClientFreeKept ==
    ASSUME IInv, NEW t \in Clients, ClientFree(t)
    PROVE  Kept
<1>0. PICK m : m = tbuf[t]
  OBVIOUS
<1>1. /\ tpc[t] = "free" /\ NetbufFree(m)
      /\ tpc' = [tpc EXCEPT ![t] = "idle"] /\ tbuf' = [tbuf EXCEPT ![t] = NULL]
      /\ UNCHANGED <<reqbVars, treq, wbuf, rxVars>>
  BY <1>0 DEF ClientFree
<1>2. TypeOK /\ ReqbInv /\ NoUseAfterFree
  BY DEF IInv, ReqbInv
<1>3. m \in Nbuf /\ Users(m) > 0
  <2>1. m \in Nbuf
    BY <1>0, <1>1, <1>2 DEF ReqbInv, ClientInv, TypeOK
  <2> QED
    BY <1>0, <1>2, <2>1, Held
<1>4. TypeOK'
  <2>1. memp' \subseteq Nbuf /\ ref' \in [Nbuf -> Nat]
    BY <1>1, <1>2, <1>3, FreeType
  <2> QED
    BY <1>1, <1>2, <2>1 DEF TypeOK, reqbVars, rxVars
<1>5. ReqbInv'
  <2>1. PoolInv' /\ BlockInv'
    BY <1>1, <1>2 DEF ReqbInv, PoolInv, BlockInv, reqbVars
  <2>2. ClientInv'
    BY <1>1, <1>2 DEF ReqbInv, ClientInv, TypeOK
  <2> QED
    BY <1>4, <2>1, <2>2 DEF ReqbInv
<1>6. tbuf[t] = m /\ tbuf'[t] = NULL /\ calling' = calling /\ flying' = flying
  BY <1>0, <1>1, <1>2 DEF TypeOK, calling, flying, reqbVars
<1>7. \A n : Count(tbuf', n) = Count(tbuf, n) + Is(NULL, n) - Is(m, n)
  <2>1. /\ IsFiniteSet(Clients) /\ DOMAIN tbuf = Clients /\ DOMAIN tbuf' = Clients
        /\ \A s \in Clients : s # t => tbuf'[s] = tbuf[s]
    BY <1>1, <1>2, NetifAssumption, NbufAssumption DEF TypeOK
  <2> QED
    BY <1>6, <2>1, CountSet
<1>8. UsersChange(m, -1)
  <2>1. SUFFICES ASSUME NEW n \in Nbuf
                 PROVE  Users(n)' = Users(n) + (IF n = m THEN -1 ELSE 0)
    BY DEF UsersChange
  <2>2. Is(m, n) = (IF n = m THEN 1 ELSE 0) /\ Is(NULL, n) = 0
    BY NetifAssumption, NbufAssumption DEF Is
  <2>3. wbuf' = wbuf /\ backlog' = backlog /\ fwd' = fwd
    BY <1>1 DEF rxVars
  <2> QED
    BY <1>2, <1>4, <1>6, <1>7, <2>2, <2>3, UsersAre, CountType
<1> QED
  BY <1>1, <1>2, <1>3, <1>5, <1>8, BalanceFree, KeptBy

(* A step that moves no buffer. *)
LEMMA NoneMovedKept ==
    ASSUME IInv, ReqbInv', calling' = calling, flying' = flying,
           UNCHANGED <<nbufVars, tbuf, wbuf, rxVars>>
    PROVE  Kept
<1>1. TypeOK /\ TypeOK' /\ NoUseAfterFree
  BY DEF IInv, ReqbInv
<1>2. \A n \in Nbuf : Users(n)' = Users(n)
  BY <1>1, UsersAre DEF rxVars
<1> QED
  BY <1>1, <1>2, BalanceSame, KeptBy

LEMMA LinkIndKept ==
    ASSUME IInv, NEW t \in Clients, LinkInd(t)
    PROVE  Kept
<1>1. /\ SubmitReqb(FALSE, NULL, "recycle_mreqb_resource")
      /\ UNCHANGED <<nbufVars, clientVars, wbuf, rxVars>>
  BY DEF LinkInd
<1>2. TypeOK /\ ReqbInv
  BY DEF IInv, ReqbInv
<1>3. PICK r \in Reqb :
          /\ r \in Range(req_pool) /\ r \notin inflight
          /\ req_pool' \in Seq(Reqb)
          /\ Range(req_pool') = Range(req_pool) \ {r}
          /\ inflight' = inflight \cup {r}
          /\ argc' \in [Reqb -> 0 .. MaxArgs] /\ ranges' \in [Reqb -> 0 .. MaxArgs]
          /\ context' = [context EXCEPT ![r] = NULL]
          /\ complete' = [complete EXCEPT ![r] = "recycle_mreqb_resource"]
          /\ PoolInv'
  BY <1>1, <1>2, SubmitEffect
<1>4. ReqbInv'
  <2>1. TypeOK'
    BY <1>1, <1>2, <1>3 DEF TypeOK, nbufVars, clientVars, rxVars
  <2>2. ClientInv'
    BY <1>1, <1>2 DEF ReqbInv, ClientInv, clientVars
  <2>3. BlockInv'
    BY <1>1, <1>2, <1>3 DEF ReqbInv, BlockInv, TypeOK, clientVars
  <2> QED
    BY <1>3, <2>1, <2>2, <2>3 DEF ReqbInv
<1>5. calling' = calling /\ flying' = flying
  BY <1>1, <1>2, <1>3 DEF TypeOK, calling, flying, clientVars
<1> QED
  BY <1>1, <1>4, <1>5, NoneMovedKept DEF clientVars

LEMMA PacketXmitKept ==
    ASSUME IInv, NEW t \in Clients, PacketXmit(t)
    PROVE  Kept
<1>1. /\ tpc[t] = "idle" /\ SubmitReqb(TRUE, NULL, "mreqb_blocking_completion")
      /\ treq' = [treq EXCEPT ![t] = Head(req_pool)]
      /\ tpc' = [tpc EXCEPT ![t] = "wait"]
      /\ UNCHANGED <<nbufVars, tbuf, wbuf, rxVars>>
  BY DEF PacketXmit
<1>2. TypeOK /\ ReqbInv
  BY DEF IInv, ReqbInv
<1>3. PICK r \in Reqb :
          /\ r = Head(req_pool)
          /\ r \in Range(req_pool) /\ r \notin inflight
          /\ req_pool' \in Seq(Reqb)
          /\ Range(req_pool') = Range(req_pool) \ {r}
          /\ inflight' = inflight \cup {r}
          /\ argc' \in [Reqb -> 0 .. MaxArgs] /\ ranges' \in [Reqb -> 0 .. MaxArgs]
          /\ context' = [context EXCEPT ![r] = NULL]
          /\ complete' = [complete EXCEPT ![r] = "mreqb_blocking_completion"]
          /\ PoolInv'
  BY <1>1, <1>2, SubmitEffect
<1>4. ReqbInv'
  <2>1. TypeOK'
    BY <1>1, <1>2, <1>3 DEF TypeOK, nbufVars, rxVars
  <2>2. \A s \in Clients : treq[s] # r
    BY <1>2, <1>3 DEF ReqbInv, BlockInv
  <2>3. ClientInv'
    BY <1>1, <1>2, <1>3, <2>2, NetifAssumption, NbufAssumption DEF ReqbInv, ClientInv, TypeOK
  <2>4. BlockInv'
    <3>1. treq[t] = NULL
      BY <1>1, <1>2 DEF ReqbInv, ClientInv
    <3>2. /\ treq'[t] = r /\ \A s \in Clients : s # t => treq'[s] = treq[s]
          /\ complete'[r] = "mreqb_blocking_completion" /\ context'[r] = NULL
          /\ \A q \in Reqb : q # r => complete'[q] = complete[q] /\ context'[q] = context[q]
      BY <1>1, <1>2, <1>3 DEF TypeOK
    <3>3. \A s \in Clients : treq'[s] \notin Range(req_pool')
      BY <1>2, <1>3, <3>2 DEF ReqbInv, BlockInv
    <3>4. \A q \in Reqb : q # r =>
             ((\E s \in Clients : treq'[s] = q) <=> (\E s \in Clients : treq[s] = q))
      BY <3>1, <3>2, NetifAssumption, NbufAssumption
    <3>5. \A q \in Reqb : q \in inflight' \cup Range(req_pool') \/ \E s \in Clients : treq'[s] = q
      BY <1>2, <1>3, <3>2, <3>4 DEF ReqbInv, BlockInv
    <3>6. ASSUME NEW q \in inflight'
          PROVE  /\ complete'[q] = "mreqb_blocking_completion" <=> \E s \in Clients : treq'[s] = q
                 /\ context'[q] # NULL => complete'[q] = "xmit_async_complete"
      <4>1. CASE q = r
        BY <3>2, <4>1
      <4>2. CASE q # r
        <5>1. q \in inflight /\ q \in Reqb
          BY <1>2, <1>3, <4>2 DEF TypeOK
        <5> QED
          BY <1>2, <3>2, <3>4, <4>2, <5>1 DEF ReqbInv, BlockInv
      <4> QED
        BY <4>1, <4>2
    <3> QED
      BY <3>3, <3>5, <3>6 DEF BlockInv
  <2> QED
    BY <1>3, <2>1, <2>3, <2>4 DEF ReqbInv
<1>5. calling' = calling /\ flying' = flying
  BY <1>1, <1>2, <1>3 DEF TypeOK, calling, flying
<1> QED
  BY <1>1, <1>4, <1>5, NoneMovedKept

LEMMA PacketXmitReturnKept ==
    ASSUME IInv, NEW t \in Clients, PacketXmitReturn(t)
    PROVE  Kept
<1>0. PICK r : r = treq[t]
  OBVIOUS
<1>1. /\ tpc[t] = "wait" /\ r \notin inflight /\ ReservepoolFree(r)
      /\ treq' = [treq EXCEPT ![t] = NULL] /\ tpc' = [tpc EXCEPT ![t] = "idle"]
      /\ UNCHANGED <<nbufVars, inflight, tbuf, wbuf, rxVars>>
  BY <1>0 DEF PacketXmitReturn
<1>2. TypeOK /\ ReqbInv
  BY DEF IInv, ReqbInv
<1>3. r \in Reqb /\ r \notin Range(req_pool)
  BY <1>0, <1>1, <1>2 DEF ReqbInv, ClientInv, BlockInv, TypeOK
<1>4. /\ req_pool' \in Seq(Reqb)
      /\ Range(req_pool') = Range(req_pool) \cup {r}
      /\ argc' \in [Reqb -> 0 .. MaxArgs] /\ ranges' \in [Reqb -> 0 .. MaxArgs]
      /\ context' = [context EXCEPT ![r] = NULL]
      /\ complete' = [complete EXCEPT ![r] = "none"]
      /\ PoolInv'
  <2>1. inflight' = inflight \ {r}
    BY <1>1
  <2> QED
    BY <1>1, <1>2, <1>3, <2>1, FreeEffect
<1>5. ReqbInv'
  <2>1. TypeOK'
    BY <1>1, <1>2, <1>4 DEF TypeOK, nbufVars, rxVars
  <2>2. /\ treq'[t] = NULL
        /\ \A s \in Clients : s # t => treq'[s] = treq[s] /\ treq[s] # r
    BY <1>0, <1>1, <1>2, <1>3, NetifAssumption, NbufAssumption DEF ReqbInv, ClientInv, TypeOK
  <2>3. ClientInv'
    BY <1>1, <1>2, <2>2 DEF ReqbInv, ClientInv, TypeOK
  <2>4. BlockInv'
    <3>1. NULL \notin Range(req_pool) /\ NULL # r
      BY <1>2, <1>3, RangeOfSeq, NetifAssumption, NbufAssumption DEF TypeOK
    <3>2. \A s \in Clients : treq'[s] \notin Range(req_pool')
      BY <1>2, <1>4, <2>2, <3>1 DEF ReqbInv, BlockInv
    <3>3. \A q \in Reqb : q # r =>
             ((\E s \in Clients : treq'[s] = q) <=> (\E s \in Clients : treq[s] = q))
      BY <1>0, <2>2, NetifAssumption, NbufAssumption
    <3>4. \A q \in Reqb : q \in inflight' \cup Range(req_pool') \/ \E s \in Clients : treq'[s] = q
      BY <1>1, <1>2, <1>4, <3>3 DEF ReqbInv, BlockInv
    <3>5. \A q \in Reqb : q # r => complete'[q] = complete[q] /\ context'[q] = context[q]
      BY <1>2, <1>4 DEF TypeOK
    <3>6. ASSUME NEW q \in inflight'
          PROVE  /\ complete'[q] = "mreqb_blocking_completion" <=> \E s \in Clients : treq'[s] = q
                 /\ context'[q] # NULL => complete'[q] = "xmit_async_complete"
      <4>1. q \in inflight /\ q \in Reqb /\ q # r
        BY <1>1, <1>2 DEF TypeOK
      <4> QED
        BY <1>2, <3>3, <3>5, <4>1 DEF ReqbInv, BlockInv
    <3> QED
      BY <3>2, <3>4, <3>6 DEF BlockInv
  <2> QED
    BY <1>4, <2>1, <2>3, <2>4 DEF ReqbInv
<1>6. calling' = calling /\ flying' = flying
  BY <1>1, <1>2, <1>4 DEF TypeOK, calling, flying
<1> QED
  BY <1>1, <1>5, <1>6, NoneMovedKept

-----------------------------------------------------------------------------
(* The workers.  A block nobody waits for goes back to the pool. *)
LEMMA CompletionEffect ==
    ASSUME ReqbInv, NEW r \in inflight, complete[r] # "mreqb_blocking_completion",
           ReservepoolFree(r), inflight' = inflight \ {r},
           UNCHANGED <<memp, ref, clientVars, rxVars>>,
           wbuf' \in [Workers -> Nbuf \cup {NULL}]
    PROVE  /\ ReqbInv'
           /\ context' = [context EXCEPT ![r] = NULL]
<1>1. r \in Reqb /\ r \notin Range(req_pool) /\ TypeOK
  BY DEF ReqbInv, PoolInv, TypeOK
<1>2. /\ req_pool' \in Seq(Reqb)
      /\ Range(req_pool') = Range(req_pool) \cup {r}
      /\ argc' \in [Reqb -> 0 .. MaxArgs] /\ ranges' \in [Reqb -> 0 .. MaxArgs]
      /\ context' = [context EXCEPT ![r] = NULL]
      /\ complete' = [complete EXCEPT ![r] = "none"]
      /\ PoolInv'
  BY <1>1, FreeEffect
<1>3. TypeOK'
  BY <1>1, <1>2 DEF TypeOK, clientVars, rxVars
<1>4. ClientInv'
  BY DEF ReqbInv, ClientInv, clientVars
<1>5. BlockInv'
  BY <1>1, <1>2 DEF ReqbInv, BlockInv, TypeOK, clientVars
<1> QED
  BY <1>2, <1>3, <1>4, <1>5 DEF ReqbInv

LEMMA XmitAsyncCompleteKept ==
    ASSUME IInv, NEW w \in Workers, NEW r \in Reqb, XmitAsyncComplete(w, r)
    PROVE  Kept
<1>0. PICK c : c = context[r]
  OBVIOUS
<1>1. /\ wbuf[w] = NULL /\ r \in inflight /\ complete[r] = "xmit_async_complete"
      /\ inflight' = inflight \ {r} /\ wbuf' = [wbuf EXCEPT ![w] = c]
      /\ ReservepoolFree(r) /\ UNCHANGED <<nbufVars, clientVars, rxVars>>
  BY <1>0 DEF XmitAsyncComplete, ContextOf
<1>2. TypeOK /\ ReqbInv /\ NoUseAfterFree
  BY DEF IInv, ReqbInv
<1>3. ReqbInv' /\ TypeOK' /\ context' = [context EXCEPT ![r] = NULL]
  <2>1. wbuf' \in [Workers -> Nbuf \cup {NULL}]
    BY <1>0, <1>1, <1>2 DEF TypeOK
  <2> QED
    BY <1>1, <1>2, <2>1, CompletionEffect DEF nbufVars, ReqbInv
<1>4. /\ calling' = calling /\ flying[r] = c /\ flying'[r] = NULL
      /\ wbuf'[w] = c
  BY <1>0, <1>1, <1>2, <1>3 DEF TypeOK, calling, flying, clientVars
<1>5. \A n : Count(flying', n) = Count(flying, n) + Is(NULL, n) - Is(c, n)
  <2>1. /\ IsFiniteSet(Reqb) /\ DOMAIN flying = Reqb /\ DOMAIN flying' = Reqb
        /\ \A q \in Reqb : q # r => flying'[q] = flying[q]
    BY <1>1, <1>2, <1>3, NetifAssumption, NbufAssumption DEF TypeOK, flying
  <2> QED
    BY <1>4, <2>1, CountSet
<1>6. \A n : Count(wbuf', n) = Count(wbuf, n) + Is(c, n) - Is(NULL, n)
  <2>1. /\ IsFiniteSet(Workers) /\ DOMAIN wbuf = Workers /\ DOMAIN wbuf' = Workers
        /\ \A v \in Workers : v # w => wbuf'[v] = wbuf[v]
    BY <1>1, <1>2, NetifAssumption, NbufAssumption DEF TypeOK
  <2>2. wbuf[w] = NULL /\ wbuf'[w] = c
    BY <1>1, <1>4
  <2> QED
    BY <2>1, <2>2, CountSet
<1>7. ASSUME NEW n \in Nbuf PROVE Users(n)' = Users(n)
  <2>1. Is(c, n) \in {0, 1} /\ Is(NULL, n) = 0
    BY NetifAssumption, NbufAssumption DEF Is
  <2>2. tbuf' = tbuf /\ backlog' = backlog /\ fwd' = fwd
    BY <1>1 DEF clientVars, rxVars
  <2> QED
    BY <1>2, <1>3, <1>4, <1>5, <1>6, <2>1, <2>2, UsersAre, CountType
<1> QED
  BY <1>1, <1>2, <1>3, <1>7, BalanceSame, KeptBy

LEMMA XmitAsyncFreeKept ==
    ASSUME IInv, NEW w \in Workers, XmitAsyncFree(w)
    PROVE  Kept
<1>0. PICK m : m = wbuf[w]
  OBVIOUS
<1>1. /\ m # NULL /\ NetbufFree(m) /\ wbuf' = [wbuf EXCEPT ![w] = NULL]
      /\ UNCHANGED <<reqbVars, clientVars, rxVars>>
  BY <1>0 DEF XmitAsyncFree
<1>2. TypeOK /\ ReqbInv /\ NoUseAfterFree
  BY DEF IInv, ReqbInv
<1>3. m \in Nbuf /\ Users(m) > 0
  <2>1. m \in Nbuf
    BY <1>0, <1>1, <1>2 DEF TypeOK
  <2> QED
    BY <1>0, <1>2, <2>1, Held
<1>4. TypeOK' /\ ReqbInv'
  <2>1. memp' \subseteq Nbuf /\ ref' \in [Nbuf -> Nat]
    BY <1>1, <1>2, <1>3, FreeType
  <2>2. TypeOK'
    BY <1>1, <1>2, <2>1 DEF TypeOK, reqbVars, clientVars, rxVars
  <2>3. PoolInv' /\ ClientInv' /\ BlockInv'
    BY <1>1, <1>2 DEF ReqbInv, PoolInv, ClientInv, BlockInv, reqbVars, clientVars
  <2> QED
    BY <2>2, <2>3 DEF ReqbInv
<1>5. wbuf'[w] = NULL /\ calling' = calling /\ flying' = flying
  BY <1>1, <1>2 DEF TypeOK, calling, flying, reqbVars, clientVars
<1>6. \A n : Count(wbuf', n) = Count(wbuf, n) + Is(NULL, n) - Is(m, n)
  <2>1. /\ IsFiniteSet(Workers) /\ DOMAIN wbuf = Workers /\ DOMAIN wbuf' = Workers
        /\ \A v \in Workers : v # w => wbuf'[v] = wbuf[v]
    BY <1>1, <1>2, NetifAssumption, NbufAssumption DEF TypeOK
  <2> QED
    BY <1>0, <1>5, <2>1, CountSet
<1>7. UsersChange(m, -1)
  <2>1. SUFFICES ASSUME NEW n \in Nbuf
                 PROVE  Users(n)' = Users(n) + (IF n = m THEN -1 ELSE 0)
    BY DEF UsersChange
  <2>2. Is(m, n) = (IF n = m THEN 1 ELSE 0) /\ Is(NULL, n) = 0
    BY NetifAssumption, NbufAssumption DEF Is
  <2>3. tbuf' = tbuf /\ backlog' = backlog /\ fwd' = fwd
    BY <1>1 DEF clientVars, rxVars
  <2> QED
    BY <1>2, <1>4, <1>5, <1>6, <2>2, <2>3, UsersAre, CountType
<1> QED
  BY <1>1, <1>2, <1>3, <1>4, <1>7, BalanceFree, KeptBy

LEMMA RecycleKept ==
    ASSUME IInv, NEW w \in Workers, NEW r \in Reqb, Recycle(w, r)
    PROVE  Kept
<1>1. /\ r \in inflight /\ complete[r] = "recycle_mreqb_resource"
      /\ inflight' = inflight \ {r} /\ ReservepoolFree(r)
      /\ UNCHANGED <<nbufVars, clientVars, wbuf, rxVars>>
  BY DEF Recycle
<1>2. TypeOK /\ ReqbInv /\ context[r] = NULL
  BY <1>1 DEF IInv, ReqbInv, BlockInv
<1>3. ReqbInv' /\ context' = [context EXCEPT ![r] = NULL]
  BY <1>1, <1>2, CompletionEffect DEF nbufVars, TypeOK
<1>4. calling' = calling /\ flying' = flying
  BY <1>1, <1>2, <1>3 DEF TypeOK, calling, flying, clientVars
<1> QED
  BY <1>1, <1>3, <1>4, NoneMovedKept DEF clientVars

LEMMA BlockingCompletionKept ==
    ASSUME IInv, NEW w \in Workers, NEW r \in Reqb, BlockingCompletion(w, r)
    PROVE  Kept
<1>1. /\ r \in inflight /\ complete[r] = "mreqb_blocking_completion"
      /\ inflight' = inflight \ {r}
      /\ UNCHANGED <<nbufVars, req_pool, argc, ranges, context, complete,
                     clientVars, wbuf, rxVars>>
  BY DEF BlockingCompletion
<1>2. TypeOK /\ ReqbInv
  BY DEF IInv, ReqbInv
<1>3. context[r] = NULL /\ \E t \in Clients : treq[t] = r
  BY <1>1, <1>2 DEF ReqbInv, BlockInv
<1>4. ReqbInv'
  <2>1. TypeOK'
    BY <1>1, <1>2 DEF TypeOK, nbufVars, clientVars, rxVars
  <2>2. PoolInv' /\ ClientInv'
    BY <1>1, <1>2 DEF ReqbInv, PoolInv, ClientInv, clientVars
  <2>3. BlockInv'
    BY <1>1, <1>2, <1>3 DEF ReqbInv, BlockInv, clientVars
  <2> QED
    BY <2>1, <2>2, <2>3 DEF ReqbInv
<1>5. calling' = calling /\ flying' = flying
  BY <1>1, <1>2, <1>3 DEF TypeOK, calling, flying, clientVars
<1> QED
  BY <1>1, <1>4, <1>5, NoneMovedKept DEF clientVars

-----------------------------------------------------------------------------
(* The receive path. *)
LEMMA NewIpPacketKept ==
    ASSUME IInv, NEW m \in Nbuf, NewIpPacket(m)
    PROVE  Kept
<1>1. /\ NetbufAlloc(m) /\ backlog' = Append(backlog, m)
      /\ UNCHANGED <<reqbVars, clientVars, wbuf, fwd>>
  BY DEF NewIpPacket
<1>2. TypeOK /\ ReqbInv /\ NoUseAfterFree
  BY DEF IInv, ReqbInv
<1>3. TypeOK' /\ ReqbInv'
  <2>1. TypeOK'
    BY <1>1, <1>2 DEF TypeOK, NetbufAlloc, MempAlloc, reqbVars, clientVars
  <2>2. PoolInv' /\ ClientInv' /\ BlockInv'
    BY <1>1, <1>2 DEF ReqbInv, PoolInv, ClientInv, BlockInv, reqbVars, clientVars
  <2> QED
    BY <2>1, <2>2 DEF ReqbInv
<1>4. calling' = calling /\ flying' = flying
  BY <1>1 DEF calling, flying, reqbVars, clientVars
<1>5. \A n : Count(backlog', n) = Count(backlog, n) + Is(m, n)
  <2>1. backlog \in Seq(Nbuf)
    BY <1>2 DEF TypeOK
  <2> QED
    BY <1>1, <2>1, PlacesAppend DEF Count, Is
<1>6. UsersChange(m, 1)
  <2>1. SUFFICES ASSUME NEW n \in Nbuf
                 PROVE  Users(n)' = Users(n) + (IF n = m THEN 1 ELSE 0)
    BY DEF UsersChange
  <2>2. Is(m, n) = (IF n = m THEN 1 ELSE 0)
    BY DEF Is
  <2>3. tbuf' = tbuf /\ wbuf' = wbuf /\ fwd' = fwd
    BY <1>1 DEF clientVars
  <2> QED
    BY <1>2, <1>3, <1>4, <1>5, <2>2, <2>3, UsersAre, CountType
<1> QED
  BY <1>1, <1>2, <1>3, <1>6, BalanceAlloc, KeptBy

LEMMA ForwardGetKept ==
    ASSUME IInv, ForwardGet
    PROVE  Kept
<1>1. /\ fwd = NULL /\ backlog # <<>>
      /\ fwd' = Head(backlog) /\ backlog' = Tail(backlog)
      /\ UNCHANGED <<nbufVars, reqbVars, clientVars, wbuf>>
  BY DEF ForwardGet
<1>2. TypeOK /\ ReqbInv /\ NoUseAfterFree /\ backlog \in Seq(Nbuf)
  BY DEF IInv, ReqbInv, TypeOK
<1>3. TypeOK' /\ ReqbInv'
  <2>1. Head(backlog) \in Nbuf /\ Tail(backlog) \in Seq(Nbuf)
    BY <1>1, <1>2, HeadTailProperties
  <2>2. TypeOK'
    BY <1>1, <1>2, <2>1 DEF TypeOK, nbufVars, reqbVars, clientVars
  <2>3. PoolInv' /\ ClientInv' /\ BlockInv'
    BY <1>1, <1>2 DEF ReqbInv, PoolInv, ClientInv, BlockInv, reqbVars, clientVars
  <2> QED
    BY <2>2, <2>3 DEF ReqbInv
<1>4. calling' = calling /\ flying' = flying
  BY <1>1 DEF calling, flying, reqbVars, clientVars
<1>5. \A n : Count(backlog', n) = Count(backlog, n) - Is(fwd', n)
  BY <1>1, <1>2, PlacesTail DEF Count, Is
<1>6. ASSUME NEW n \in Nbuf PROVE Users(n)' = Users(n)
  <2>1. Is(fwd', n) \in {0, 1} /\ Is(fwd, n) = 0
    BY <1>1, NetifAssumption, NbufAssumption DEF Is
  <2>2. tbuf' = tbuf /\ wbuf' = wbuf
    BY <1>1 DEF clientVars
  <2> QED
    BY <1>2, <1>3, <1>4, <1>5, <2>1, <2>2, UsersAre, CountType
<1> QED
  BY <1>1, <1>2, <1>3, <1>6, BalanceSame, KeptBy

LEMMA NetifRxKept ==
    ASSUME IInv, NetifRx
    PROVE  Kept
<1>0. PICK m : m = fwd
  OBVIOUS
<1>1. /\ m # NULL /\ NetbufFree(m) /\ fwd' = NULL
      /\ UNCHANGED <<reqbVars, clientVars, wbuf, backlog>>
  BY <1>0 DEF NetifRx
<1>2. TypeOK /\ ReqbInv /\ NoUseAfterFree
  BY DEF IInv, ReqbInv
<1>3. m \in Nbuf /\ Users(m) > 0
  <2>1. m \in Nbuf
    BY <1>0, <1>1, <1>2 DEF TypeOK
  <2> QED
    BY <1>0, <1>2, <2>1, Held
<1>4. TypeOK' /\ ReqbInv'
  <2>1. memp' \subseteq Nbuf /\ ref' \in [Nbuf -> Nat]
    BY <1>1, <1>2, <1>3, FreeType
  <2>2. TypeOK'
    BY <1>1, <1>2, <2>1 DEF TypeOK, reqbVars, clientVars
  <2>3. PoolInv' /\ ClientInv' /\ BlockInv'
    BY <1>1, <1>2 DEF ReqbInv, PoolInv, ClientInv, BlockInv, reqbVars, clientVars
  <2> QED
    BY <2>2, <2>3 DEF ReqbInv
<1>5. calling' = calling /\ flying' = flying
  BY <1>1 DEF calling, flying, reqbVars, clientVars
<1>6. UsersChange(m, -1)
  <2>1. SUFFICES ASSUME NEW n \in Nbuf
                 PROVE  Users(n)' = Users(n) + (IF n = m THEN -1 ELSE 0)
    BY DEF UsersChange
  <2>2. Is(fwd, n) = (IF n = m THEN 1 ELSE 0) /\ Is(fwd', n) = 0
    BY <1>0, <1>1, NetifAssumption, NbufAssumption DEF Is
  <2>3. tbuf' = tbuf /\ wbuf' = wbuf /\ backlog' = backlog
    BY <1>1 DEF clientVars
  <2> QED
    BY <1>2, <1>4, <1>5, <2>2, <2>3, UsersAre, CountType
<1> QED
  BY <1>1, <1>2, <1>3, <1>4, <1>6, BalanceFree, KeptBy

-----------------------------------------------------------------------------
LEMMA InitIInv == Init => IInv
<1> SUFFICES ASSUME Init PROVE IInv
  OBVIOUS
<1>1. req_pool \in Seq(Reqb) /\ IsInjective(req_pool) /\ Range(req_pool) = Reqb
  BY ListEnumeration, NetifAssumption, NbufAssumption DEF Init, ReservepoolCreate
<1>2. /\ memp = Nbuf /\ ref = [n \in Nbuf |-> 0]
      /\ argc = [r \in Reqb |-> 0] /\ ranges = [r \in Reqb |-> 0]
      /\ context = [r \in Reqb |-> NULL] /\ complete = [r \in Reqb |-> "none"]
      /\ inflight = {}
      /\ tpc = [t \in Clients |-> "idle"] /\ tbuf = [t \in Clients |-> NULL]
      /\ treq = [t \in Clients |-> NULL] /\ wbuf = [w \in Workers |-> NULL]
      /\ backlog = <<>> /\ fwd = NULL
  BY DEF Init, MempInit
<1>3. TypeOK
  BY <1>1, <1>2 DEF TypeOK, MaxArgs
<1>4. ReqbInv
  BY <1>1, <1>2, <1>3, NetifAssumption, NbufAssumption DEF ReqbInv, PoolInv, ClientInv, BlockInv
<1>5. ASSUME NEW n \in Nbuf PROVE Users(n) = 0
  <2>1. /\ Places(tbuf, n) = {} /\ Places(calling, n) = {} /\ Places(flying, n) = {}
        /\ Places(wbuf, n) = {} /\ Places(backlog, n) = {} /\ Is(fwd, n) = 0
    BY <1>2, NetifAssumption, NbufAssumption DEF Places, calling, flying, Is
  <2> QED
    BY <1>3, <2>1, UsersAre, FS_EmptySet DEF Count
<1>6. NoUseAfterFree
  BY <1>2, <1>5 DEF NoUseAfterFree, Slack
<1> QED
  BY <1>4, <1>6 DEF IInv

LEMMA NextKept == IInv /\ [Next]_vars => Kept
<1> SUFFICES ASSUME IInv, [Next]_vars PROVE Kept
  OBVIOUS
<1>1. ASSUME NEW t \in Clients, \E n \in Nbuf : ClientAlloc(t, n) PROVE Kept
  BY <1>1, ClientAllocKept
<1>2. ASSUME NEW t \in Clients, LinkInd(t) PROVE Kept
  BY <1>2, LinkIndKept
<1>3. ASSUME NEW t \in Clients, PacketXmit(t) PROVE Kept
  BY <1>3, PacketXmitKept
<1>4. ASSUME NEW t \in Clients, ClientStep(t) PROVE Kept
  BY <1>4, XmitAsyncRefKept, XmitAsyncSubmitKept, XmitAsyncFailKept, ClientFreeKept,
     PacketXmitReturnKept DEF ClientStep
<1>5. ASSUME NEW w \in Workers, XmitAsyncFree(w) PROVE Kept
  BY <1>5, XmitAsyncFreeKept
<1>6. ASSUME NEW w \in Workers, NEW r \in Reqb, Completion(w, r) PROVE Kept
  BY <1>6, XmitAsyncCompleteKept, RecycleKept, BlockingCompletionKept DEF Completion
<1>7. ASSUME NEW n \in Nbuf, NewIpPacket(n) PROVE Kept
  BY <1>7, NewIpPacketKept
<1>8. CASE ForwardStep
  BY <1>8, ForwardGetKept, NetifRxKept DEF ForwardStep
<1>9. CASE UNCHANGED vars
  <2>1. UNCHANGED <<nbufVars, reqbVars, clientVars, wbuf, rxVars>>
    BY <1>9 DEF vars
  <2>2. ReqbInv'
    BY <2>1 DEF IInv, ReqbInv, TypeOK, PoolInv, ClientInv, BlockInv,
       nbufVars, reqbVars, clientVars, rxVars
  <2>3. calling' = calling /\ flying' = flying /\ tbuf' = tbuf
    BY <2>1 DEF calling, flying, reqbVars, clientVars
  <2> QED
    BY <2>1, <2>2, <2>3, NoneMovedKept
<1> QED
  BY <1>1, <1>2, <1>3, <1>4, <1>5, <1>6, <1>7, <1>8, <1>9 DEF Next

(* IInv is inductive. *)
THEOREM Invariance == Spec => []IInv
<1>1. IInv /\ [Next]_vars => IInv'
  BY NextKept DEF Kept
<1> QED
  BY <1>1, InitIInv, PTL DEF Spec

(* However many buffers, blocks and threads there are: no request block is *)
(* lost or linked twice, and none goes back to the pool with something     *)
(* left from its last use (mreqb_reservep.c, mreqb_reinit).                *)
THEOREM ReqbAlwaysConserved == Spec => []ReqbConserved
<1>1. ASSUME IInv PROVE ReqbConserved
  <2>1. TypeOK /\ PoolInv /\ ClientInv /\ BlockInv
    BY <1>1 DEF IInv, ReqbInv
  <2>2. ASSUME NEW r \in Reqb, r \notin inflight \cup Range(req_pool)
        PROVE  Cardinality({t \in Clients : treq[t] = r}) = 1
    <3>1. PICK t \in Clients : treq[t] = r
      BY <2>1, <2>2 DEF BlockInv
    <3>2. {s \in Clients : treq[s] = r} = {t}
      BY <2>1, <3>1, NetifAssumption, NbufAssumption DEF ClientInv
    <3> QED
      BY <3>2, FS_Singleton
  <2> QED
    BY <2>1, <2>2 DEF ReqbConserved, PoolInv
<1> QED
  BY <1>1, Invariance, PTL

(* A buffer is not handed out again while its client, a request in flight, *)
(* a worker or the receive path can still reach it (nbuf_lock and the      *)
(* reference count of mf_nbuf.c).                                          *)
THEOREM NeverUsedAfterFree == Spec => []NoUseAfterFree
<1>1. IInv => NoUseAfterFree
  BY DEF IInv
<1> QED
  BY <1>1, Invariance, PTL

(* The only leak is mf_NetifPacketXmitAsync without a request block.       *)
THEOREM OnlyLeak == Spec => LeakOnlyWithoutReqb
<1>1. IInv /\ [Next]_vars =>
         [\A n \in Nbuf : Slack(n)' > Slack(n) =>
             req_pool = <<>> /\ \E t \in Clients : tpc[t] = "ref" /\ tbuf[t] = n]_vars
  BY NextKept DEF Kept, LeakExcused
<1> QED
  BY <1>1, Invariance, PTL DEF Spec, LeakOnlyWithoutReqb

-----------------------------------------------------------------------------
(* The queue of received packets, backlog above, with its pointers: module *)
(* NbufQueue, whose constant AtHead is an address no buffer has.           *)
Packets(s) == {s[i] : i \in 1 .. elem_num}

(* s has the buffers of the queue: the pointers lead along it, last points *)
(* behind its end, and no buffer that is not queued points anywhere.       *)
IsQueue(s) ==
    /\ Leads(s, elem_num, head, next, NULL)
    /\ \A i, j \in 1 .. elem_num : s[i] = s[j] => i = j
    /\ last = IF elem_num = 0 THEN AtHead ELSE s[elem_num]
    /\ \A n \in Nbuf \ Packets(s) : next[n] = NULL
    /\ \A n \in outside : n \notin Packets(s)
    /\ got \notin Packets(s)

QueueInv ==
    /\ QueueTypeOK
    /\ cpc = "got" <=> got # NULL
    /\ got \notin outside
    /\ \E s \in [1 .. elem_num -> Nbuf] : IsQueue(s)

(* The walk along the pointers finds the buffers of the queue. *)
LEMMA ListIs ==
    ASSUME elem_num \in Nat, NEW s \in [1 .. elem_num -> Nbuf], IsQueue(s)
    PROVE  /\ List = s /\ s \in Seq(Nbuf) /\ Len(s) = elem_num
           /\ Range(s) = Packets(s) /\ IsInjective(s)
<1>1. PICK m \in Nat : m = elem_num
  OBVIOUS
<1>2. m + 1 \in Nat /\ m <= m + 1 /\ NULL \notin Nbuf
  BY NetifAssumption, NbufAssumption
<1>3. Elements(head, next, NULL, m + 1) = s
  BY <1>1, <1>2, ElementsAre DEF IsQueue
<1>4. Len(s) = m /\ DOMAIN s = 1 .. m /\ s \in Seq(Nbuf)
  BY <1>1
<1> QED
  BY <1>1, <1>3, <1>4 DEF List, Range, Packets, IsInjective, IsQueue

(* mf_nbuf_queue_put appends. *)
LEMMA PutStep ==
    ASSUME QueueInv, NEW n \in Nbuf, Put(n)
    PROVE  QueueInv' /\ Queue!Put(n)
<1>0. PICK m \in Nat : m = elem_num
  BY DEF QueueInv, QueueTypeOK
<1>1. PICK s \in [1 .. m -> Nbuf] : IsQueue(s)
  BY <1>0 DEF QueueInv
<1> DEFINE t == [i \in 1 .. m + 1 |-> IF i <= m THEN s[i] ELSE n]
<1>2. /\ n \in outside /\ n \notin Packets(s) /\ n # NULL /\ n # AtHead
      /\ \A i \in 1 .. m : s[i] # n
      /\ last = IF m = 0 THEN AtHead ELSE s[m]
      /\ head = IF m = 0 THEN NULL ELSE s[1]
      /\ next \in [Nbuf -> Nbuf \cup {NULL}]
      /\ next[n] = NULL
  BY <1>0, <1>1, NetifAssumption, NbufAssumption, PointerAssumption
     DEF Put, IsQueue, Packets, Leads, QueueInv, QueueTypeOK
<1>3. /\ outside' = outside \ {n} /\ last' = n /\ elem_num' = m + 1 /\ got' = got
      /\ cpc' \in {"check", "sleep", "blocked", "got"} /\ event' \in BOOLEAN
      /\ cpc' = "got" <=> cpc = "got"
  BY <1>0 DEF Put, SetBits, QueueInv, QueueTypeOK
<1>4. /\ head' = IF m = 0 THEN n ELSE head
      /\ next' \in [Nbuf -> Nbuf \cup {NULL}]
      /\ \A e \in Nbuf : next'[e] = IF m # 0 /\ e = s[m] THEN n ELSE next[e]
  <2>1. CASE m = 0
    <3>1. head' = n /\ next' = next
      BY <2>1, <1>2 DEF Put
    <3> QED
      BY <2>1, <3>1, <1>2
  <2>2. CASE m # 0
    <3>1. m \in 1 .. m /\ s[m] \in Nbuf
      BY <2>2
    <3>2. last # AtHead
      BY <3>1, <2>2, <1>2, PointerAssumption
    <3>3. head' = head /\ next' = [next EXCEPT ![s[m]] = n]
      BY <2>2, <3>2, <1>2 DEF Put
    <3> QED
      BY <2>2, <3>1, <3>3, <1>2
  <2> QED
    BY <2>1, <2>2
<1>5. \A i \in 1 .. m + 1 : t[i] = IF i <= m THEN s[i] ELSE n
  OBVIOUS
<1> HIDE DEF t
<1>6. /\ \A i, j \in 1 .. m + 1 : t[i] = t[j] => i = j
      /\ \A i \in 1 .. m + 1 : t[i] \in Nbuf
      /\ Leads(t, m + 1, head', next', NULL)
  <2>1. next[n] = IF m = 0 THEN head ELSE next[s[m]]
    <3>1. m # 0 => next[s[m]] = NULL
      BY <1>0, <1>1 DEF IsQueue, Leads
    <3> QED
      BY <3>1, <1>2
  <2>2. Insertion(Nbuf, m, s, head, next, m, n, next', t)
    <3>1. next'[n] = next[n]
      <4>1. m # 0 => s[m] # n
        BY <1>2
      <4> QED
        BY <4>1, <1>4
    <3>2. \A i \in 1 .. m + 1 : i <= m \/ i = m + 1
      OBVIOUS
    <3> QED
      BY <1>2, <1>4, <1>5, <2>1, <3>1, <3>2 DEF Insertion
  <2>3. /\ Leads(s, m, head, next, NULL) /\ \A i, j \in 1 .. m : s[i] = s[j] => i = j
        /\ NULL \notin Nbuf
    BY <1>0, <1>1, NetifAssumption, NbufAssumption DEF IsQueue
  <2>4. /\ \A i, j \in 1 .. m + 1 : t[i] = t[j] => i = j
        /\ \A i \in 1 .. m + 1 : t[i] \in Nbuf
        /\ Leads(t, m + 1, IF m = 0 THEN n ELSE head, next', NULL)
    BY <2>2, <2>3, LeadsInsert
  <2> QED
    BY <1>4, <2>4
<1>7. t = [i \in 1 .. m + 1 |-> IF i <= m THEN s[i] ELSE n]
  BY DEF t
<1>8. t \in [1 .. m + 1 -> Nbuf]
  BY <1>6, <1>7
<1>9. {t[i] : i \in 1 .. m + 1} = {s[i] : i \in 1 .. m} \cup {n}
  <2>1. \A i \in 1 .. m : i \in 1 .. m + 1 /\ t[i] = s[i]
    BY <1>5
  <2>2. m + 1 \in 1 .. m + 1 /\ t[m + 1] = n
    BY <1>5
  <2>3. \A i \in 1 .. m + 1 : i \in 1 .. m \/ i = m + 1
    OBVIOUS
  <2> QED
    BY <2>1, <2>2, <2>3
<1>10. IsQueue(t)'
  <2>1. Packets(t)' = Packets(s) \cup {n}
    BY <1>0, <1>3, <1>9 DEF Packets
  <2>2. last' = t[m + 1] /\ m + 1 # 0
    BY <1>3, <1>5
  <2>3. \A e \in Nbuf \ (Packets(s) \cup {n}) : next'[e] = NULL
    <3>1. m # 0 => s[m] \in Packets(s)
      BY <1>0 DEF Packets
    <3> QED
      BY <3>1, <1>1, <1>4 DEF IsQueue
  <2>4. got # n /\ got \notin Packets(s)
    BY <1>1, <1>2 DEF IsQueue, QueueInv
  <2>5. \A e \in outside \ {n} : e \notin Packets(s) \cup {n}
    BY <1>1 DEF IsQueue
  <2> QED
    BY <1>3, <1>6, <2>1, <2>2, <2>3, <2>4, <2>5 DEF IsQueue
<1>11. QueueTypeOK'
  <2>1. head' \in Nbuf \cup {NULL} /\ last' \in Nbuf \cup {AtHead} /\ elem_num' \in Nat
    BY <1>2, <1>3, <1>4
  <2>2. outside' \subseteq Nbuf /\ got' \in Nbuf \cup {NULL}
    BY <1>3 DEF QueueInv, QueueTypeOK
  <2> QED
    BY <1>3, <1>4, <2>1, <2>2 DEF QueueTypeOK
<1>12. QueueInv'
  BY <1>3, <1>8, <1>10, <1>11 DEF QueueInv
<1>13. Queue!Put(n)
  <2>1. List = s
    BY <1>0, <1>1, ListIs
  <2>2. List' = t
    <3>1. /\ Leads(t, m + 1, head', next', NULL) /\ NULL \notin Nbuf
          /\ elem_num' = m + 1 /\ m + 1 \in Nat /\ (m + 1) + 1 \in Nat /\ m + 1 <= (m + 1) + 1
      BY <1>3, <1>6, NetifAssumption, NbufAssumption
    <3>2. Elements(head', next', NULL, (m + 1) + 1) = t
      BY <3>1, <1>8, ElementsAre
    <3> QED
      BY <3>1, <3>2 DEF List
  <2>3. t = Append(s, n)
    <3>1. /\ s \in Seq(Nbuf) /\ Len(s) = m
          /\ t \in Seq(Nbuf) /\ Len(t) = m + 1
      BY <1>8
    <3>2. PICK u \in Seq(Nbuf) : u = Append(s, n)
      BY <3>1, AppendProperties
    <3>3. Len(u) = m + 1 /\ \A i \in 1 .. m + 1 : u[i] = IF i <= m THEN s[i] ELSE n
      BY <3>1, <3>2, AppendProperties
    <3> QED
      BY <3>1, <3>2, <3>3, <1>5, SeqEqual
  <2>4. (outside \cup ({got} \ {NULL}))' = (outside \cup ({got} \ {NULL})) \ {n}
    BY <1>2, <1>3 DEF QueueInv
  <2> QED
    BY <1>2, <2>1, <2>2, <2>3, <2>4 DEF Queue!Put
<1> QED
  BY <1>12, <1>13

(* mf_nbuf_queue_get takes the first buffer. *)
LEMMA GetStep ==
    ASSUME QueueInv, Get
    PROVE  QueueInv' /\ Queue!Take
<1>0. PICK m \in Nat : m = elem_num
  BY DEF QueueInv, QueueTypeOK
<1>1. PICK s \in [1 .. m -> Nbuf] : IsQueue(s)
  BY <1>0 DEF QueueInv
<1>2. /\ m # 0 /\ 1 \in 1 .. m /\ head = s[1] /\ head \in Nbuf /\ NULL \notin Nbuf
      /\ next \in [Nbuf -> Nbuf \cup {NULL}]
      /\ next[head] = IF m = 1 THEN NULL ELSE s[2]
      /\ \A i, j \in 1 .. m : s[i] = s[j] => i = j
      /\ last = s[m]
  BY <1>0, <1>1, NetifAssumption, NbufAssumption DEF Get, QueueInv, QueueTypeOK, IsQueue, Leads
<1>3. /\ cpc = "check" /\ got = NULL
      /\ got' = head /\ head' = next[head]
      /\ last' = IF next[head] = NULL THEN AtHead ELSE last
      /\ next' = [next EXCEPT ![head] = NULL]
      /\ elem_num' = m - 1 /\ m - 1 \in Nat /\ cpc' = "got"
      /\ UNCHANGED <<outside, event>>
  BY <1>0, <1>2 DEF Get, LastAfter, QueueInv
<1> DEFINE t == [i \in 1 .. m - 1 |-> s[i + 1]]
<1>4. \A i \in 1 .. m - 1 : t[i] = s[i + 1] /\ i + 1 \in 1 .. m
  OBVIOUS
<1> HIDE DEF t
<1>5. /\ \A i, j \in 1 .. m - 1 : t[i] = t[j] => i = j
      /\ \A i \in 1 .. m - 1 : t[i] \in Nbuf \ {head}
      /\ Leads(t, m - 1, head', next', NULL)
  <2>1. Removal(Nbuf, m, s, head, next, 1, head', next', t)
    <3>1. \A i \in 1 .. m - 1 : ~(i < 1)
      OBVIOUS
    <3> QED
      BY <1>2, <1>3, <1>4, <3>1 DEF Removal
  <2>2. Leads(s, m, head, next, NULL)
    BY <1>0, <1>1 DEF IsQueue
  <2> QED
    BY <1>2, <2>1, <2>2, LeadsRemove
<1>6. t = [i \in 1 .. m - 1 |-> s[i + 1]]
  BY DEF t
<1>7. t \in [1 .. m - 1 -> Nbuf]
  BY <1>5, <1>6
<1>8. {t[i] : i \in 1 .. m - 1} = {s[i] : i \in 1 .. m} \ {head}
  <2>1. \A i \in 1 .. m : i = 1 \/ (i - 1 \in 1 .. m - 1 /\ t[i - 1] = s[i])
    <3>1. ASSUME NEW i \in 1 .. m, i # 1
          PROVE  i - 1 \in 1 .. m - 1 /\ t[i - 1] = s[i]
      <4>1. i - 1 \in 1 .. m - 1 /\ (i - 1) + 1 = i
        BY <3>1
      <4> QED
        BY <4>1, <1>4
    <3> QED
      BY <3>1
  <2> QED
    BY <2>1, <1>2, <1>4, <1>5
<1>9. IsQueue(t)'
  <2>1. Packets(t)' = Packets(s) \ {head} /\ head \in Packets(s)
    BY <1>0, <1>2, <1>3, <1>8 DEF Packets
  <2>2. last' = IF m - 1 = 0 THEN AtHead ELSE t[m - 1]
    <3>1. CASE m = 1
      BY <3>1, <1>2, <1>3
    <3>2. CASE m # 1
      <4>1. /\ 2 \in 1 .. m /\ s[2] # NULL /\ m - 1 \in 1 .. m - 1
            /\ (m - 1) + 1 = m
        BY <3>2, <1>2
      <4>2. last' = s[m]
        BY <3>2, <4>1, <1>2, <1>3
      <4>3. t[m - 1] = s[m]
        BY <4>1, <1>4
      <4> QED
        BY <3>2, <4>1, <4>2, <4>3
    <3> QED
      BY <3>1, <3>2
  <2>3. \A e \in Nbuf \ (Packets(s) \ {head}) : next'[e] = NULL
    BY <1>1, <1>2, <1>3 DEF IsQueue
  <2>4. \A e \in outside : e \notin Packets(s)
    BY <1>1 DEF IsQueue
  <2> QED
    BY <1>3, <1>5, <2>1, <2>2, <2>3, <2>4 DEF IsQueue
<1>10. QueueTypeOK'
  <2>1. next' \in [Nbuf -> Nbuf \cup {NULL}]
    BY <1>2, <1>3
  <2>2. head' \in Nbuf \cup {NULL} /\ last' \in Nbuf \cup {AtHead} /\ got' \in Nbuf \cup {NULL}
    BY <1>2, <1>3 DEF QueueInv, QueueTypeOK
  <2>3. outside' \subseteq Nbuf /\ event' \in BOOLEAN /\ elem_num' \in Nat
    BY <1>3 DEF QueueInv, QueueTypeOK
  <2> QED
    BY <1>3, <2>1, <2>2, <2>3 DEF QueueTypeOK
<1>11. QueueInv'
  <2>1. got' # NULL /\ got' \notin outside'
    BY <1>0, <1>1, <1>2, <1>3 DEF IsQueue, Packets
  <2> QED
    BY <1>3, <1>7, <1>9, <1>10, <2>1 DEF QueueInv
<1>12. Queue!Take
  <2>1. List = s /\ s \in Seq(Nbuf) /\ Len(s) = m
    BY <1>0, <1>1, ListIs
  <2>2. List' = t
    <3>1. /\ elem_num' = m - 1 /\ m - 1 \in Nat /\ (m - 1) + 1 \in Nat
          /\ m - 1 <= (m - 1) + 1
      BY <1>3
    <3>2. Elements(head', next', NULL, (m - 1) + 1) = t
      BY <3>1, <1>2, <1>5, <1>7, ElementsAre
    <3> QED
      BY <3>1, <3>2 DEF List
  <2>3. s # <<>> /\ Head(s) = head
    BY <1>2, <2>1, EmptyList
  <2>4. t = Tail(s)
    <3>1. t \in Seq(Nbuf) /\ Len(t) = m - 1
      BY <1>7, <1>3
    <3>2. PICK u \in Seq(Nbuf) : u = Tail(s)
      BY <2>1, <2>3, HeadTailProperties
    <3>3. Len(u) = m - 1 /\ \A i \in 1 .. m - 1 : u[i] = s[i + 1]
      BY <2>1, <2>3, <3>2, HeadTailProperties
    <3> QED
      BY <3>1, <3>2, <3>3, <1>4, SeqEqual
  <2>5. (outside \cup ({got} \ {NULL}))' = (outside \cup ({got} \ {NULL})) \cup {head}
    BY <1>2, <1>3
  <2> QED
    BY <2>1, <2>2, <2>3, <2>4, <2>5 DEF Queue!Take
<1> QED
  BY <1>11, <1>12

(* The other steps leave the list alone. *)
LEMMA OtherStep ==
    ASSUME QueueInv, FindEmpty \/ Wait \/ Finish \/ UNCHANGED queueVars
    PROVE  QueueInv' /\ UNCHANGED Queue!vars
<1>1. UNCHANGED <<head, last, next, elem_num>>
  BY DEF FindEmpty, Wait, Finish, queueVars
<1>2. List' = List
  BY <1>1 DEF List
<1>3. \/ UNCHANGED <<outside, got>> /\ (cpc' = "got" <=> cpc = "got")
      \/ got # NULL /\ outside' = outside \cup {got} /\ got' = NULL /\ cpc' = "check"
  BY DEF FindEmpty, Wait, Finish, queueVars, QueueInv
<1>4. cpc' \in {"check", "sleep", "blocked", "got"} /\ event' \in BOOLEAN
  BY DEF FindEmpty, Wait, Finish, queueVars, QueueInv, QueueTypeOK
<1>5. (outside \cup ({got} \ {NULL}))' = outside \cup ({got} \ {NULL})
  BY <1>3
<1>6. PICK s \in [1 .. elem_num -> Nbuf] : IsQueue(s)
  BY DEF QueueInv
<1>7. NULL \notin Packets(s)
  BY <1>6, NetifAssumption, NbufAssumption DEF Packets
<1>8. Packets(s)' = Packets(s)
  BY <1>1 DEF Packets
<1>9. IsQueue(s)'
  BY <1>1, <1>3, <1>6, <1>7, <1>8 DEF IsQueue
<1>10. outside' \subseteq Nbuf /\ got' \in Nbuf \cup {NULL} /\ NULL \notin outside
  BY <1>3, NetifAssumption, NbufAssumption DEF QueueInv, QueueTypeOK
<1>11. QueueTypeOK'
  BY <1>1, <1>4, <1>10 DEF QueueInv, QueueTypeOK
<1>12. /\ cpc' = "got" <=> got' # NULL
       /\ got' \notin outside'
  BY <1>3, <1>10 DEF QueueInv
<1>13. QueueInv'
  BY <1>1, <1>9, <1>11, <1>12 DEF QueueInv
<1>14. UNCHANGED Queue!vars
  BY <1>2, <1>5 DEF Queue!vars
<1> QED
  BY <1>13, <1>14

(* Each step keeps the queue, and is one of the abstract queue. *)
LEMMA QueueStep ==
    ASSUME QueueInv, [QueueNext]_queueVars
    PROVE  QueueInv' /\ [Queue!Next]_(Queue!vars)
<1>1. ASSUME NEW n \in Nbuf, Put(n)
      PROVE  QueueInv' /\ Queue!Next
  BY <1>1, PutStep DEF Queue!Next
<1>2. CASE Get
  BY <1>2, GetStep DEF Queue!Next
<1>3. CASE FindEmpty \/ Wait \/ Finish \/ UNCHANGED queueVars
  BY <1>3, OtherStep
<1> QED
  BY <1>1, <1>2, <1>3 DEF QueueNext, ConsumerStep

LEMMA QueueStart ==
    ASSUME QueueInit
    PROVE  QueueInv /\ Queue!Init
<1> DEFINE s == [i \in 1 .. 0 |-> NULL]
<1>1. s \in [1 .. 0 -> Nbuf] /\ elem_num = 0 /\ \A i \in 1 .. 0 : FALSE
  BY DEF QueueInit
<1> HIDE DEF s
<1>2. IsQueue(s)
  BY <1>1 DEF QueueInit, IsQueue, Leads, Packets
<1>3. QueueTypeOK
  BY DEF QueueInit, QueueTypeOK
<1>4. QueueInv
  BY <1>1, <1>2, <1>3, NetifAssumption, NbufAssumption DEF QueueInit, QueueInv
<1>5. List = s /\ s = <<>>
  <2>1. List = s /\ s \in Seq(Nbuf) /\ Len(s) = 0
    BY <1>1, <1>2, ListIs
  <2> QED
    BY <2>1, EmptySeq, EmptyList
<1>6. Queue!Init
  BY <1>5 DEF QueueInit, Queue!Init
<1> QED
  BY <1>4, <1>6

(* The invariant of the queue of received packets. *)
THEOREM QueueInvariance == QueueSpec => []QueueInv
<1>1. QueueInit => QueueInv
  BY QueueStart
<1>2. QueueInv /\ [QueueNext]_queueVars => QueueInv'
  BY QueueStep
<1> QED
  BY <1>1, <1>2, PTL DEF QueueSpec

(* Its pointers always form the list that put and get mean: no buffer is   *)
(* lost or twice in it, and a later put finds its end (nbuf_queue.c).      *)
THEOREM QueueWellLinked == QueueSpec => []WellLinked
<1>1. QueueInv => WellLinked
  <2> SUFFICES ASSUME QueueInv PROVE WellLinked
    OBVIOUS
  <2>1. PICK s \in [1 .. elem_num -> Nbuf] : IsQueue(s)
    BY DEF QueueInv
  <2>2. elem_num \in Nat
    BY DEF QueueInv, QueueTypeOK
  <2>3. /\ List = s /\ s \in Seq(Nbuf) /\ Len(s) = elem_num
        /\ Range(s) = Packets(s) /\ IsInjective(s)
    BY <2>1, <2>2, ListIs
  <2>4. s = <<>> <=> elem_num = 0
    BY <2>2, <2>3, EmptyList
  <2> QED
    BY <2>1, <2>3, <2>4 DEF QueueInv, IsQueue, WellLinked
<1> QED
  BY <1>1, QueueInvariance, PTL

(* With them it is a queue: the packets are forwarded in the order of      *)
(* their arrival, each once.                                               *)
THEOREM QueueImplemented == QueueSpec => ImplementsQueue
<1>1. QueueInit => Queue!Init
  BY QueueStart
<1>2. QueueInv /\ [QueueNext]_queueVars => [Queue!Next]_(Queue!vars)
  BY QueueStep
<1> QED
  BY <1>1, <1>2, QueueInvariance, PTL DEF QueueSpec, ImplementsQueue, Queue!Spec

=============================================================================
