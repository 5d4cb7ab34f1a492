-------------------------- MODULE AtChannel_proof --------------------------
(***************************************************************************)
(* Proofs about the AT command channel, for any number of senders and      *)
(* commands, any cache and any number of request blocks.                   *)
(***************************************************************************)
EXTENDS AtChannel, ListLemmas

(* A thread has a command of its own exactly in mf_ATSend, until the       *)
(* command is sent or cached.                                              *)
CmdInv ==
    /\ \A t \in Thread : cmd[t] # NULL <=> pc[t] \in {"direct", "put", "cache"}
    /\ \A s, t \in Thread : cmd[s] = cmd[t] /\ cmd[s] # NULL => s = t

IInv == SentOnce /\ CmdInv

-----------------------------------------------------------------------------
(* All that a step does to the commands on their way: the elements of New  *)
(* come in at one place, some others go away, and none change places.      *)
Step(New) ==
    \E L \in Seq(Commands) :
        /\ IsInjective(L)
        /\ Range(L) = Range(Stream) \cup New
        /\ Within(Stream, L)
        /\ Within(Stream', L)

(* A stream is put together from three pieces. *)
LEMMA ThreePieces ==
    ASSUME NEW s \in Seq(Commands), NEW t \in Seq(Commands), NEW u \in Seq(Commands)
    PROVE  /\ s \o t \in Seq(Commands)
           /\ s \o t \o u \in Seq(Commands)
           /\ s \o t \o u = s \o (t \o u)
           /\ Range(s \o t \o u) = Range(s) \cup Range(t) \cup Range(u)
<1>0. PICK v : v = s \o t
  OBVIOUS
<1>1. v \in Seq(Commands) /\ Range(v) = Range(s) \cup Range(t)
  BY <1>0, ConcatProperties, RangeConcatenation
<1>2. v \o u \in Seq(Commands)
  BY <1>1, ConcatProperties
<1>3. Range(v \o u) = Range(v) \cup Range(u)
  BY <1>1, RangeConcatenation
<1> QED
  BY <1>0, <1>1, <1>2, <1>3, ConcatAssociative

(* The commands on their way are those in requests, in the batch of a      *)
(* flush, and in the cache.                                                *)
LEMMA StreamRange ==
    ASSUME TypeOK
    PROVE  /\ Stream \in Seq(Commands)
           /\ sent \o batch \in Seq(Commands)
           /\ Range(Stream) = Range(sent) \cup Range(batch) \cup Range(cache)
  BY ThreePieces DEF TypeOK, Stream

(* After such a step no command is on its way twice, and no two commands   *)
(* have changed places.                                                    *)
LEMMA StepKeepsOrder ==
    ASSUME TypeOK, TypeOK', NEW New, Step(New)
    PROVE  /\ IsInjective(Stream')
           /\ Range(Stream') \subseteq Range(Stream) \cup New
           /\ \A a, b \in Commands : Before(a, b) => ~ Before(b, a)'
<1>1. Stream \in Seq(Commands) /\ Stream' \in Seq(Commands)
  BY ThreePieces DEF TypeOK, Stream
<1>2. PICK L \in Seq(Commands) :
          /\ IsInjective(L) /\ Range(L) = Range(Stream) \cup New
          /\ Within(Stream, L) /\ Within(Stream', L)
  BY DEF Step
<1>3. IsInjective(Stream') /\ Range(Stream') \subseteq Range(Stream) \cup New
  BY <1>1, <1>2, WithinInjective
<1>4. ASSUME NEW a \in Commands, NEW b \in Commands, Before(a, b), Before(b, a)'
      PROVE  FALSE
  <2>1. DOMAIN L \subseteq Nat /\ DOMAIN Stream \subseteq Nat /\ DOMAIN Stream' \subseteq Nat
    BY <1>1, <1>2, LenProperties
  <2>2. \E i, j \in DOMAIN L : i < j /\ L[i] = a /\ L[j] = b
    <3>1. PICK f \in [DOMAIN Stream -> DOMAIN L] :
              /\ \A i, j \in DOMAIN Stream : i < j => f[i] < f[j]
              /\ \A i \in DOMAIN Stream : Stream[i] = L[f[i]]
      BY <1>2 DEF Within
    <3>2. PICK i \in DOMAIN Stream, j \in DOMAIN Stream :
              i < j /\ Stream[i] = a /\ Stream[j] = b
      BY <1>4 DEF Before
    <3> QED
      BY <3>1, <3>2
  <2>3. \E i, j \in DOMAIN L : i < j /\ L[i] = b /\ L[j] = a
    <3>1. PICK f \in [DOMAIN Stream' -> DOMAIN L] :
              /\ \A i, j \in DOMAIN Stream' : i < j => f[i] < f[j]
              /\ \A i \in DOMAIN Stream' : Stream'[i] = L[f[i]]
      BY <1>2 DEF Within
    <3>2. PICK i \in DOMAIN Stream', j \in DOMAIN Stream' :
              i < j /\ Stream'[i] = b /\ Stream'[j] = a
      BY <1>4 DEF Before
    <3> QED
      BY <3>1, <3>2
  <2>4. PICK i \in DOMAIN L, j \in DOMAIN L : i < j /\ L[i] = a /\ L[j] = b
    BY <2>2
  <2>5. PICK k \in DOMAIN L, l \in DOMAIN L : k < l /\ L[k] = b /\ L[l] = a
    BY <2>3
  <2>6. k = j /\ l = i
    BY <1>2, <2>4, <2>5 DEF IsInjective
  <2> QED
    BY <2>1, <2>4, <2>5, <2>6
<1> QED
  BY <1>3, <1>4

-----------------------------------------------------------------------------
(* What mf_mbserial_send takes of a text: as much as it has blocks for.    *)
LEMMA TransmitTakes ==
    ASSUME TypeOK, NEW s \in Seq(Commands), NEW t \in Thread, Transmit(t, s)
    PROVE  /\ sent' \in Seq(Commands) /\ Len(sent') <= PoolSize /\ admitted' \subseteq Thread
           /\ \E p \in Seq(Commands) : Within(p, s) /\ sent' = sent \o p
<1>1. /\ sent \in Seq(Commands) /\ Len(sent) \in Nat /\ Len(s) \in Nat
      /\ PoolSize \in Nat /\ Len(sent) <= PoolSize
  BY ChannelAssumption, LenProperties DEF TypeOK
<1> PICK k : k = IF t \in admitted THEN (IF Len(s) < Free THEN Len(s) ELSE Free) ELSE 0
  OBVIOUS
<1>2. k \in 0 .. Len(s) /\ Len(sent) + k <= PoolSize
  BY <1>1 DEF Free
<1> PICK p : p = SubSeq(s, 1, k)
  OBVIOUS
<1>3. p \in Seq(Commands) /\ Within(p, s)
  BY <1>2, WithinPart
<1>4. Len(p) = k
  <2>1. \A i \in 1 .. k : s[i] \in Commands
    BY <1>1, <1>2, ElementOfSeq
  <2> QED
    BY <1>1, <1>2, <2>1, SubSeqProperties
<1>5. sent' = sent \o p
  <2>1. CASE t \in admitted
    BY <2>1 DEF Transmit
  <2>2. CASE t \notin admitted
    <3>1. p = <<>>
      BY <2>2, SubSeqEmpty
    <3> QED
      BY <1>1, <2>2, <3>1, ConcatEmptySeq DEF Transmit
  <2> QED
    BY <2>1, <2>2
<1>6. sent' \in Seq(Commands) /\ Len(sent') = Len(sent) + k
  BY <1>1, <1>3, <1>4, <1>5, ConcatProperties
<1>7. admitted' \subseteq Thread
  BY DEF Transmit, TypeOK
<1> QED
  BY <1>2, <1>3, <1>5, <1>6, <1>7

(* A step that moves no command. *)
LEMMA StepSame ==
    ASSUME SentOnce, UNCHANGED <<sent, batch, cache>>
    PROVE  Step({})
<1>1. Stream \in Seq(Commands) /\ IsInjective(Stream) /\ Stream' = Stream
  BY StreamRange DEF SentOnce, Stream
<1>2. Within(Stream, Stream)
  BY <1>1, WithinRefl
<1> QED
  BY <1>1, <1>2 DEF Step

(* A step that only takes commands away. *)
LEMMA StepLess ==
    ASSUME SentOnce, Within(Stream', Stream)
    PROVE  Step({})
<1>1. Stream \in Seq(Commands) /\ IsInjective(Stream)
  BY StreamRange DEF SentOnce
<1>2. Within(Stream, Stream)
  BY <1>1, WithinRefl
<1> QED
  BY <1>1, <1>2 DEF Step

(* The command of a thread is not on its way. *)
LEMMA OwnCommand ==
    ASSUME SentOnce, NEW t \in Thread
    PROVE  cmd[t] \notin Range(Stream)
<1>1. cmd[t] \in Range(cmd)
  BY DEF Range, SentOnce, TypeOK
<1> QED
  BY <1>1 DEF SentOnce

(* A direct send goes between the requests and what is being flushed. *)
LEMMA StepDirect ==
    ASSUME SentOnce, NEW t \in Thread, Direct(t), cmd[t] \in Commands
    PROVE  Step({cmd[t]})
<1> PICK c \in Commands : c = cmd[t]
  OBVIOUS
<1> DEFINE rest == batch \o cache
           L == (sent \o <<c>>) \o rest
<1>1. /\ sent \in Seq(Commands) /\ batch \in Seq(Commands) /\ cache \in Seq(Commands)
      /\ <<c>> \in Seq(Commands) /\ Range(<<c>>) = {c}
  BY DEF SentOnce, TypeOK, Range
<1>2. rest \in Seq(Commands) /\ Stream = sent \o rest /\ Stream \in Seq(Commands)
  BY <1>1, ConcatProperties, ThreePieces DEF Stream
<1>3. c \notin Range(Stream) /\ IsInjective(Stream)
  BY OwnCommand DEF SentOnce
<1>4. L \in Seq(Commands) /\ IsInjective(L) /\ Range(L) = Range(Stream) \cup {c}
  <2> HIDE DEF rest
  <2>1. IsInjective(sent \o rest) /\ c \notin Range(sent \o rest)
    BY <1>2, <1>3
  <2> QED
    BY <1>1, <1>2, <2>1, ListInsert
<1>5. PICK p \in Seq(Commands) : Within(p, <<c>>) /\ sent' = sent \o p
  BY <1>1, TransmitTakes DEF Direct, SentOnce
<1>6. Stream' = (sent \o p) \o rest
  <2>1. Stream' = (sent' \o batch) \o cache
    BY DEF Direct, Stream
  <2>2. sent' \in Seq(Commands)
    BY <1>1, <1>5, ConcatProperties
  <2>3. Stream' = sent' \o rest
    BY <1>1, <2>1, <2>2, ThreePieces
  <2> QED
    BY <1>5, <2>3
<1>7. Within(sent, sent) /\ Within(rest, rest)
  BY <1>1, <1>2, WithinRefl
<1>8. Within(<<>>, <<c>>) /\ <<>> \in Seq(Commands)
  <2> PICK d \in Seq(Commands) : d = <<c>>
    BY <1>1
  <2>1. Within(<<>>, d)
    BY WithinEnds
  <2> QED
    BY <2>1
<1>9. Within(Stream, L)
  <2>1. sent \o <<>> \in Seq(Commands) /\ sent \o <<c>> \in Seq(Commands)
    BY <1>1, <1>8, ConcatProperties
  <2>2. Within(sent \o <<>>, sent \o <<c>>)
    BY <1>1, <1>7, <1>8, WithinConcat
  <2>3. Within((sent \o <<>>) \o rest, L)
    BY <1>2, <1>7, <2>1, <2>2, WithinConcat
  <2> QED
    BY <1>1, <1>2, <2>3, ConcatEmptySeq
<1>10. Within(Stream', L)
  <2>1. sent \o p \in Seq(Commands) /\ sent \o <<c>> \in Seq(Commands)
    BY <1>1, <1>5, ConcatProperties
  <2>2. Within(sent \o p, sent \o <<c>>)
    BY <1>1, <1>5, <1>7, WithinConcat
  <2>3. Within((sent \o p) \o rest, L)
    BY <1>2, <1>7, <2>1, <2>2, WithinConcat
  <2> QED
    BY <1>6, <2>3
<1> QED
  BY <1>4, <1>9, <1>10 DEF Step

(* A cached command goes behind all others; the oldest in the cache may    *)
(* give way.                                                               *)
LEMMA StepCache ==
    ASSUME SentOnce, NEW t \in Thread, CacheSend(t), cmd[t] \in Commands
    PROVE  Step({cmd[t]}) /\ cache' \in Seq(Commands) /\ Len(cache') <= CacheLen
<1> PICK c \in Commands : c = cmd[t]
  OBVIOUS
<1> DEFINE head == sent \o batch
           all == Append(cache, c)
           L == Append(Stream, c)
<1>1. /\ cache \in Seq(Commands) /\ head \in Seq(Commands)
      /\ Stream = head \o cache /\ Stream \in Seq(Commands)
  BY StreamRange DEF SentOnce, TypeOK, Stream
<1>2. c \notin Range(Stream) /\ IsInjective(Stream)
  BY OwnCommand DEF SentOnce
<1>3. L \in Seq(Commands) /\ IsInjective(L) /\ Range(L) = Range(Stream) \cup {c}
  BY <1>1, <1>2, ListAddTail
<1>4. /\ all \in Seq(Commands) /\ all # <<>> /\ Len(all) = Len(cache) + 1
      /\ Len(cache) \in Nat /\ Len(cache) <= CacheLen /\ CacheLen \in Nat
  <2>1. all \in Seq(Commands) /\ all # <<>> /\ Len(all) = Len(cache) + 1
    BY <1>1, AppendProperties
  <2>2. Len(cache) \in Nat
    BY <1>1, LenProperties
  <2>3. Len(cache) <= CacheLen
    BY DEF SentOnce, TypeOK
  <2>4. CacheLen \in Nat
    BY ChannelAssumption
  <2> QED
    BY <2>1, <2>2, <2>3, <2>4
<1>5. L = head \o all
  <2>1. <<c>> \in Seq(Commands) /\ L = Stream \o <<c>> /\ all = cache \o <<c>>
    BY <1>1, AppendIsConcat
  <2> PICK d \in Seq(Commands) : d = <<c>>
    BY <2>1
  <2>2. (head \o cache) \o d = head \o (cache \o d)
    BY <1>1, ConcatAssociative
  <2> QED
    BY <1>1, <2>1, <2>2
<1>6. /\ cache' = IF Len(all) > CacheLen THEN Tail(all) ELSE all
      /\ Stream' = head \o cache'
  BY DEF CacheSend, Stream
<1>7. /\ cache' \in Seq(Commands) /\ Within(cache', all)
      /\ Len(cache') <= CacheLen
  <2>1. CASE Len(all) > CacheLen
    <3>1. /\ Tail(all) \in Seq(Commands) /\ Len(Tail(all)) = Len(all) - 1
          /\ Within(Tail(all), all)
      BY <1>4, HeadTailProperties, WithinEnds
    <3> QED
      BY <1>4, <1>6, <2>1, <3>1
  <2>2. CASE ~ Len(all) > CacheLen
    <3>1. cache' = all /\ ~ Len(all) > CacheLen
      BY <1>6, <2>2
    <3>2. Within(all, all)
      BY <1>4, WithinRefl
    <3> QED
      BY <1>4, <3>1, <3>2
  <2> QED
    BY <2>1, <2>2
<1>8. Within(Stream', L)
  BY <1>1, <1>4, <1>5, <1>6, <1>7, WithinRefl, WithinConcat
<1>9. Within(Stream, L)
  <2>1. Within(cache, all)
    BY <1>1, WithinEnds
  <2> QED
    BY <1>1, <1>4, <1>5, <2>1, WithinRefl, WithinConcat
<1> QED
  BY <1>3, <1>7, <1>8, <1>9 DEF Step

(* A flush takes the cache over as its batch: every command keeps its      *)
(* place in the stream.                                                    *)
LEMMA StepFlushTake ==
    ASSUME SentOnce, NEW t \in Thread, FlushTake(t)
    PROVE  Step({})
<1>1. sent \in Seq(Commands) /\ cache \in Seq(Commands) /\ batch = <<>>
  BY DEF SentOnce, TypeOK, FlushTake
<1>2. sent \o cache \in Seq(Commands)
  BY <1>1, ConcatProperties
<1>3. Stream = sent \o cache
  BY <1>1, ConcatEmptySeq DEF Stream
<1>4. Stream' = (sent \o cache) \o <<>>
  BY DEF FlushTake, Stream
<1>5. Stream' = Stream
  BY <1>2, <1>3, <1>4, ConcatEmptySeq
<1> QED
  BY <1>2, <1>3, <1>5, StepLess, WithinRefl

(* The first piece of a flush: what the port does not take of it is lost,  *)
(* the rest of the batch follows.                                          *)
LEMMA StepFlushFirst ==
    ASSUME SentOnce, NEW t \in Thread, NEW n \in Nat \ {0}, FlushFirst(t, n)
    PROVE  Step({}) /\ batch' \in Seq(Commands)
<1>0. PICK one, two : one = SubSeq(batch, 1, n) /\ two = SubSeq(batch, n + 1, Len(batch))
  OBVIOUS
<1>1. /\ sent \in Seq(Commands) /\ batch \in Seq(Commands) /\ cache \in Seq(Commands)
      /\ Len(batch) \in Nat /\ n < Len(batch)
  BY LenProperties DEF SentOnce, TypeOK, FlushFirst
<1>2. one \in Seq(Commands) /\ two \in Seq(Commands)
  <2>1. /\ n \in 0 .. Len(batch) /\ Len(batch) \in 0 .. Len(batch)
        /\ n + 1 \in Nat \ {0} /\ 1 \in Nat \ {0}
    BY <1>1
  <2> QED
    BY <1>0, <1>1, <2>1, WithinPart
<1>3. batch = one \o two
  <2>1. /\ 1 \in 1 .. Len(batch) + 1 /\ n \in 1 - 1 .. Len(batch)
        /\ Len(batch) \in n .. Len(batch)
    BY <1>1
  <2>2. SubSeq(batch, 1, Len(batch)) = batch
    BY <1>1, SubSeqFull
  <2> QED
    BY <1>0, <1>1, <2>1, <2>2, ConcatAdjacentSubSeq
<1>4. PICK p \in Seq(Commands) : Within(p, one) /\ sent' = sent \o p
  BY <1>0, <1>2, TransmitTakes DEF FlushFirst, SentOnce
<1>5. Stream' = ((sent \o p) \o two) \o cache
  BY <1>0, <1>4 DEF FlushFirst, Stream
<1>6. Stream = (sent \o (one \o two)) \o cache
  BY <1>3 DEF Stream
<1>7. Within((sent \o (p \o two)) \o cache, (sent \o (one \o two)) \o cache)
  <2>1. p \o two \in Seq(Commands) /\ one \o two \in Seq(Commands)
    BY <1>2, <1>4, ConcatProperties
  <2>2. Within(p \o two, one \o two)
    BY <1>2, <1>4, WithinRefl, WithinConcat
  <2>3. Within(sent \o (p \o two), sent \o (one \o two))
    BY <1>1, <2>1, <2>2, WithinRefl, WithinConcat
  <2>4. sent \o (p \o two) \in Seq(Commands) /\ sent \o (one \o two) \in Seq(Commands)
    BY <1>1, <2>1, ConcatProperties
  <2> QED
    BY <1>1, <2>3, <2>4, WithinRefl, WithinConcat
<1>8. (sent \o p) \o two = sent \o (p \o two)
  <2>1. sent \in Seq(Commands) /\ p \in Seq(Commands) /\ two \in Seq(Commands)
    BY <1>1, <1>2
  <2> QED
    BY <2>1, ConcatAssociative
<1>9. batch' = two
  BY <1>0 DEF FlushFirst
<1> QED
  BY <1>2, <1>5, <1>6, <1>7, <1>8, <1>9, StepLess

(* The last piece, or all in one. *)
LEMMA StepFlushLast ==
    ASSUME SentOnce, NEW t \in Thread, FlushLast(t)
    PROVE  Step({})
<1>1. sent \in Seq(Commands) /\ batch \in Seq(Commands) /\ cache \in Seq(Commands)
  BY DEF SentOnce, TypeOK
<1>2. PICK p \in Seq(Commands) : Within(p, batch) /\ sent' = sent \o p
  BY <1>1, TransmitTakes DEF FlushLast, SentOnce
<1>3. sent \o p \in Seq(Commands) /\ sent \o batch \in Seq(Commands)
  BY <1>1, <1>2, ConcatProperties
<1>4. Stream' = (sent \o p) \o cache
  <2>1. Stream' = ((sent \o p) \o <<>>) \o cache
    BY <1>2 DEF FlushLast, Stream
  <2> QED
    BY <1>3, <2>1, ConcatEmptySeq
<1>5. Within(sent \o p, sent \o batch)
  BY <1>1, <1>2, WithinRefl, WithinConcat
<1>6. Within((sent \o p) \o cache, (sent \o batch) \o cache)
  BY <1>1, <1>3, <1>5, WithinRefl, WithinConcat
<1> QED
  BY <1>4, <1>6, StepLess DEF Stream

(* CPU2 takes the oldest request. *)
LEMMA StepDeliver ==
    ASSUME SentOnce, Deliver
    PROVE  Step({}) /\ sent' \in Seq(Commands) /\ Len(sent') <= PoolSize
<1>1. /\ sent \in Seq(Commands) /\ batch \in Seq(Commands) /\ cache \in Seq(Commands)
      /\ sent # <<>> /\ sent' = Tail(sent)
  BY DEF SentOnce, TypeOK, Deliver
<1>2. /\ Tail(sent) \in Seq(Commands) /\ Len(Tail(sent)) = Len(sent) - 1
      /\ Head(sent) \in Commands
  BY <1>1, HeadTailProperties
<1>3. Within(Tail(sent), sent)
  BY <1>1, <1>2, WithinEnds
<1>4. Tail(sent) \o batch \in Seq(Commands) /\ sent \o batch \in Seq(Commands)
  BY <1>1, <1>2, ConcatProperties
<1>5. Within(Tail(sent) \o batch, sent \o batch)
  BY <1>1, <1>2, <1>3, WithinRefl, WithinConcat
<1>6. Within((Tail(sent) \o batch) \o cache, (sent \o batch) \o cache)
  BY <1>1, <1>4, <1>5, WithinRefl, WithinConcat
<1>7. Len(sent) <= PoolSize /\ Len(sent) \in Nat /\ PoolSize \in Nat
  BY <1>1, LenProperties, ChannelAssumption DEF SentOnce, TypeOK
<1> QED
  BY <1>1, <1>2, <1>6, <1>7, StepLess DEF Deliver, Stream

-----------------------------------------------------------------------------
(* What a step keeps: the invariant, and the order of the commands. *)
Kept == IInv' /\ \A a, b \in Commands : Before(a, b) => ~ Before(b, a)'

(* What is left to show of a step once its effect on the stream is known.  *)
LEMMA FromStep ==
    ASSUME IInv, TypeOK', CmdInv', NEW New, Step(New),
           Range(cmd') \cap (Range(Stream) \cup New) = {},
           {t \in Thread : pc'[t] \in {"send", "first", "rest", "last"}} = {lock'} \ {NULL},
           lock' = NULL => batch' = <<>>
    PROVE  Kept
  BY StepKeepsOrder DEF Kept, IInv, SentOnce

(* Only the thread that flushes has the lock. *)
LEMMA LockHolder ==
    ASSUME SentOnce, NEW t \in Thread
    PROVE  pc[t] \in {"send", "first", "rest", "last"} <=> lock = t
  BY ChannelAssumption DEF SentOnce, Thread

LEMMA CallKept ==
    ASSUME IInv, NEW t \in Senders, NEW c \in Commands, Call(t, c)
    PROVE  Kept
<1>1. /\ t \in Thread /\ pc[t] = "idle" /\ c \in Unsent /\ c # NULL
      /\ cmd' = [cmd EXCEPT ![t] = c]
      /\ pc' = [pc EXCEPT ![t] = IF can_send THEN "direct" ELSE "cache"]
      /\ UNCHANGED <<up, can_send, cache, lock, batch, sent, admitted>>
  BY ChannelAssumption DEF Call, At, Thread
<1>2. TypeOK'
  BY <1>1 DEF IInv, SentOnce, TypeOK
<1>3. CmdInv'
  <2>1. \A u \in Thread : cmd[u] # c
    BY <1>1 DEF Unsent, Range, IInv, SentOnce, TypeOK
  <2> QED
    BY <1>1, <2>1 DEF IInv, SentOnce, TypeOK, CmdInv
<1>4. Step({})
  BY <1>1, StepSame DEF IInv
<1>5. Range(cmd') \cap Range(Stream) = {}
  <2>1. c \notin Range(Stream)
    BY <1>1, StreamRange DEF Unsent, IInv, SentOnce
  <2>2. Range(cmd') \subseteq Range(cmd) \cup {c}
    BY <1>1 DEF Range, IInv, SentOnce, TypeOK
  <2> QED
    BY <2>1, <2>2 DEF IInv, SentOnce
<1>6. {u \in Thread : pc'[u] \in {"send", "first", "rest", "last"}} = {lock'} \ {NULL}
  BY <1>1 DEF IInv, SentOnce, TypeOK
<1> QED
  BY <1>1, <1>2, <1>3, <1>4, <1>5, <1>6, FromStep DEF IInv, SentOnce

(* The command of a thread that sends or caches it becomes nobody's. *)
LEMMA GivenUp ==
    ASSUME IInv, NEW t \in Thread, pc[t] \in {"put", "cache"},
           NEW place \in {"idle", "recheck"},
           cmd' = [cmd EXCEPT ![t] = NULL], pc' = [pc EXCEPT ![t] = place]
    PROVE  /\ cmd[t] \in Commands
           /\ cmd' \in [Thread -> Commands \cup {NULL}]
           /\ CmdInv'
           /\ Range(cmd') \cap (Range(Stream) \cup {cmd[t]}) = {}
           /\ {u \in Thread : pc'[u] \in {"send", "first", "rest", "last"}}
                 = {u \in Thread : pc[u] \in {"send", "first", "rest", "last"}}
<1>1. cmd[t] # NULL /\ cmd[t] \in Commands
  BY DEF IInv, CmdInv, SentOnce, TypeOK
<1>2. cmd' \in [Thread -> Commands \cup {NULL}]
  BY DEF IInv, SentOnce, TypeOK
<1>3. CmdInv'
  BY DEF IInv, CmdInv, SentOnce, TypeOK
<1>4. ASSUME NEW u \in Thread
      PROVE  cmd'[u] \notin Range(Stream) \cup {cmd[t]}
  <2>1. Range(Stream) \subseteq Commands
    BY StreamRange, RangeOfSeq DEF IInv, SentOnce
  <2>2. CASE u = t
    <3>1. cmd'[u] = NULL
      BY <2>2 DEF IInv, SentOnce, TypeOK
    <3> QED
      BY <1>1, <2>1, <3>1, ChannelAssumption
  <2>3. CASE u # t
    <3>1. cmd'[u] = cmd[u] /\ cmd[u] # cmd[t]
      BY <1>1, <2>3 DEF IInv, SentOnce, TypeOK, CmdInv
    <3>2. cmd[u] \in Range(cmd)
      BY DEF Range, IInv, SentOnce, TypeOK
    <3> QED
      BY <3>1, <3>2 DEF IInv, SentOnce
  <2> QED
    BY <2>2, <2>3
<1>5. Range(cmd') \cap (Range(Stream) \cup {cmd[t]}) = {}
  BY <1>2, <1>4 DEF Range
<1>6. \A u \in Thread : pc'[u] \in {"send", "first", "rest", "last"} <=> pc[u] \in {"send", "first", "rest", "last"}
  BY DEF IInv, SentOnce, TypeOK
<1> QED
  BY <1>1, <1>2, <1>3, <1>5, <1>6

LEMMA DirectKept ==
    ASSUME IInv, NEW t \in Thread, Direct(t)
    PROVE  Kept
<1>1. /\ pc[t] = "put" /\ Transmit(t, <<cmd[t]>>)
      /\ cmd' = [cmd EXCEPT ![t] = NULL] /\ pc' = [pc EXCEPT ![t] = "idle"]
      /\ UNCHANGED <<up, can_send, cache, lock, batch>>
  BY DEF Direct, At
<1>2. /\ cmd[t] \in Commands
      /\ cmd' \in [Thread -> Commands \cup {NULL}]
      /\ CmdInv'
      /\ Range(cmd') \cap (Range(Stream) \cup {cmd[t]}) = {}
      /\ {u \in Thread : pc'[u] \in {"send", "first", "rest", "last"}}
            = {u \in Thread : pc[u] \in {"send", "first", "rest", "last"}}
  BY <1>1, GivenUp
<1>3. Step({cmd[t]})
  BY <1>2, StepDirect DEF IInv
<1>4. sent' \in Seq(Commands) /\ Len(sent') <= PoolSize /\ admitted' \subseteq Thread
  <2>1. <<cmd[t]>> \in Seq(Commands)
    BY <1>2
  <2> QED
    BY <1>1, <2>1, TransmitTakes DEF IInv, SentOnce
<1>5. TypeOK'
  BY <1>1, <1>2, <1>4 DEF IInv, SentOnce, TypeOK
<1> QED
  BY <1>1, <1>2, <1>3, <1>5, FromStep DEF IInv, SentOnce

LEMMA CacheSendKept ==
    ASSUME IInv, NEW t \in Thread, CacheSend(t)
    PROVE  Kept
<1>1. /\ pc[t] = "cache"
      /\ cmd' = [cmd EXCEPT ![t] = NULL] /\ pc' = [pc EXCEPT ![t] = "recheck"]
      /\ UNCHANGED <<up, can_send, lock, batch, sent, admitted>>
  BY DEF CacheSend, At
<1>2. /\ cmd[t] \in Commands
      /\ cmd' \in [Thread -> Commands \cup {NULL}]
      /\ CmdInv'
      /\ Range(cmd') \cap (Range(Stream) \cup {cmd[t]}) = {}
      /\ {u \in Thread : pc'[u] \in {"send", "first", "rest", "last"}}
            = {u \in Thread : pc[u] \in {"send", "first", "rest", "last"}}
  BY <1>1, GivenUp
<1>3. Step({cmd[t]}) /\ cache' \in Seq(Commands) /\ Len(cache') <= CacheLen
  BY <1>2, StepCache DEF IInv
<1>4. TypeOK'
  BY <1>1, <1>2, <1>3 DEF IInv, SentOnce, TypeOK
<1> QED
  BY <1>1, <1>2, <1>3, <1>4, FromStep DEF IInv, SentOnce

(* The steps that neither move a command nor take or release the lock. *)
LEMMA PassKept ==
    ASSUME IInv, NEW t \in Thread, UNCHANGED <<cache, lock, batch, sent, admitted, cmd>>,
           up' \in BOOLEAN, can_send' \in BOOLEAN,
           pc[t] \in {"idle", "recheck", "flush", "open", "close"},
           NEW place \in {"idle", "flush", "open", "close"},
           pc' = [pc EXCEPT ![t] = place]
    PROVE  Kept
<1>1. TypeOK'
  BY DEF IInv, SentOnce, TypeOK
<1>2. CmdInv'
  BY DEF IInv, SentOnce, TypeOK, CmdInv
<1>3. {u \in Thread : pc'[u] \in {"send", "first", "rest", "last"}} = {lock'} \ {NULL}
  BY DEF IInv, SentOnce, TypeOK
<1>4. Step({})
  BY StepSame DEF IInv
<1> QED
  BY <1>1, <1>2, <1>3, <1>4, FromStep DEF IInv, SentOnce

(* The test of the port's status moves no command. *)
LEMMA TestStatusKept ==
    ASSUME IInv, NEW t \in Thread, TestStatus(t)
    PROVE  Kept
<1>1. /\ \/ pc[t] = "direct" /\ pc' = [pc EXCEPT ![t] = "put"]
         \/ pc[t] = "send" /\ pc' = [pc EXCEPT ![t] = "first"]
         \/ pc[t] = "rest" /\ pc' = [pc EXCEPT ![t] = "last"]
      /\ UNCHANGED <<up, can_send, cache, lock, batch, sent, cmd>>
  <2>1. /\ pc[t] \in DOMAIN Tested /\ pc' = [pc EXCEPT ![t] = Tested[pc[t]]]
        /\ UNCHANGED <<up, can_send, cache, lock, batch, sent, cmd>>
    BY DEF TestStatus, At
  <2>2. /\ DOMAIN Tested = {"direct", "send", "rest"}
        /\ Tested["direct"] = "put" /\ Tested["send"] = "first" /\ Tested["rest"] = "last"
    BY DEF Tested
  <2>3. pc[t] = "direct" \/ pc[t] = "send" \/ pc[t] = "rest"
    BY <2>1, <2>2
  <2> QED
    BY <2>1, <2>2, <2>3
<1>2. admitted' \subseteq Thread
  BY DEF TestStatus, IInv, SentOnce, TypeOK
<1>3. TypeOK'
  BY <1>1, <1>2 DEF IInv, SentOnce, TypeOK
<1>4. CmdInv'
  BY <1>1 DEF IInv, SentOnce, TypeOK, CmdInv
<1>5. {u \in Thread : pc'[u] \in {"send", "first", "rest", "last"}} = {lock'} \ {NULL}
  BY <1>1 DEF IInv, SentOnce, TypeOK
<1>6. Step({})
  BY <1>1, StepSame DEF IInv
<1> QED
  BY <1>1, <1>3, <1>4, <1>5, <1>6, FromStep DEF IInv, SentOnce

(* The steps of a flush that leave the threads' own commands alone. *)
LEMMA FlushKept ==
    ASSUME IInv, NEW t \in Thread,
           FlushTake(t) \/ FlushLast(t) \/ \E n \in 1 .. CacheLen : FlushFirst(t, n)
    PROVE  Kept
<1>1. NULL \notin Thread /\ t # NULL /\ CacheLen \in Nat
  BY ChannelAssumption DEF Thread
<1>2. Range(cmd) \cap (Range(Stream) \cup {}) = {}
  BY DEF IInv, SentOnce
<1>3. CASE FlushTake(t)
  <2>1. Step({})
    BY <1>3, StepFlushTake DEF IInv
  <2>2. TypeOK'
    <3>1. <<>> \in Seq(Commands) /\ Len(<<>>) <= CacheLen
      BY <1>1
    <3> QED
      BY <1>3, <3>1 DEF FlushTake, At, IInv, SentOnce, TypeOK
  <2>3. CmdInv' /\ cmd' = cmd /\ lock' = t
    BY <1>3 DEF FlushTake, At, IInv, SentOnce, TypeOK, CmdInv
  <2>4. {u \in Thread : pc'[u] \in {"send", "first", "rest", "last"}} = {lock'} \ {NULL}
    BY <1>1, <1>3 DEF FlushTake, At, IInv, SentOnce, TypeOK
  <2> QED
    BY <1>1, <1>2, <2>1, <2>2, <2>3, <2>4, FromStep
<1>4. CASE FlushLast(t)
  <2>1. Step({})
    BY <1>4, StepFlushLast DEF IInv
  <2>2. sent' \in Seq(Commands) /\ Len(sent') <= PoolSize /\ admitted' \subseteq Thread
    BY <1>4, TransmitTakes DEF FlushLast, IInv, SentOnce, TypeOK
  <2>3. TypeOK'
    BY <1>4, <2>2 DEF FlushLast, At, IInv, SentOnce, TypeOK
  <2>4. CmdInv' /\ cmd' = cmd /\ lock' = NULL /\ batch' = <<>>
    BY <1>4 DEF FlushLast, At, IInv, SentOnce, TypeOK, CmdInv
  <2>5. {u \in Thread : pc'[u] \in {"send", "first", "rest", "last"}} = {}
    BY <1>4, LockHolder DEF FlushLast, At, IInv, SentOnce, TypeOK
  <2> QED
    BY <1>2, <2>1, <2>3, <2>4, <2>5, FromStep
<1>5. ASSUME NEW n \in 1 .. CacheLen, FlushFirst(t, n)
      PROVE  Kept
  <2>1. Step({}) /\ batch' \in Seq(Commands)
    BY <1>1, <1>5, StepFlushFirst DEF IInv
  <2>2. sent' \in Seq(Commands) /\ Len(sent') <= PoolSize /\ admitted' \subseteq Thread
    <3>1. 1 \in Nat \ {0} /\ n \in 0 .. Len(batch) /\ batch \in Seq(Commands)
      BY <1>1, <1>5, LenProperties DEF FlushFirst, IInv, SentOnce, TypeOK
    <3>2. SubSeq(batch, 1, n) \in Seq(Commands)
      BY <3>1, WithinPart
    <3> QED
      BY <1>5, <3>2, TransmitTakes DEF FlushFirst, IInv, SentOnce
  <2>3. /\ pc[t] = "first" /\ pc' = [pc EXCEPT ![t] = "rest"]
        /\ UNCHANGED <<up, can_send, cache, lock, cmd>>
    BY <1>5 DEF FlushFirst, At
  <2>4. TypeOK'
    BY <2>1, <2>2, <2>3 DEF IInv, SentOnce, TypeOK
  <2>5. CmdInv'
    BY <2>3 DEF IInv, SentOnce, TypeOK, CmdInv
  <2>6. {u \in Thread : pc'[u] \in {"send", "first", "rest", "last"}} = {lock'} \ {NULL}
    BY <2>3 DEF IInv, SentOnce, TypeOK
  <2>7. lock # NULL
    BY <1>1, <2>3, LockHolder DEF IInv
  <2> QED
    BY <1>2, <2>1, <2>3, <2>4, <2>5, <2>6, <2>7, FromStep
<1> QED
  BY <1>3, <1>4, <1>5

LEMMA DeliverKept ==
    ASSUME IInv, Deliver
    PROVE  Kept
<1>1. Step({}) /\ sent' \in Seq(Commands) /\ Len(sent') <= PoolSize
  BY StepDeliver DEF IInv
<1>2. UNCHANGED <<up, can_send, cache, lock, batch, admitted, pc, cmd>>
  BY DEF Deliver
<1>3. TypeOK' /\ CmdInv'
  BY <1>1, <1>2 DEF IInv, SentOnce, TypeOK, CmdInv
<1> QED
  BY <1>1, <1>2, <1>3, FromStep DEF IInv, SentOnce

LEMMA StutterKept ==
    ASSUME IInv, UNCHANGED vars
    PROVE  Kept
<1>1. TypeOK' /\ CmdInv'
  BY DEF vars, IInv, SentOnce, TypeOK, CmdInv
<1>2. Step({})
  BY StepSame DEF vars, IInv
<1> QED
  BY <1>1, <1>2, FromStep DEF vars, IInv, SentOnce

(* Every step keeps the invariant and the order of the commands. *)
LEMMA NextKept == IInv /\ [Next]_vars => Kept
<1> SUFFICES ASSUME IInv, [Next]_vars PROVE Kept
  OBVIOUS
<1>1. Senders \subseteq Thread /\ Notifier \in Thread
  BY DEF Thread
<1>2. ASSUME NEW t \in Thread, FlushDone(t)
      PROVE  Kept
  BY <1>2, PassKept DEF FlushDone, At, IInv, SentOnce, TypeOK
<1>3. ASSUME NEW t \in Thread, Flush(t)
      PROVE  Kept
  BY <1>2, <1>3, FlushKept DEF Flush
<1>4. ASSUME NEW t \in Thread, Recheck(t)
      PROVE  Kept
  <2>1. PICK place \in {"idle", "flush"} : pc' = [pc EXCEPT ![t] = place]
    BY <1>4 DEF Recheck, At
  <2> QED
    BY <1>4, <2>1, PassKept DEF Recheck, IInv, SentOnce, TypeOK
<1>5. CASE Startup \/ Shutdown \/ Open \/ Close
  BY <1>1, <1>5, PassKept DEF Startup, Shutdown, Open, Close, At, IInv, SentOnce, TypeOK
<1>6. ASSUME NEW t \in Senders, SenderStep(t) \/ \E c \in Commands : Call(t, c)
      PROVE  Kept
  BY <1>1, <1>3, <1>4, <1>6, CallKept, TestStatusKept, DirectKept, CacheSendKept
  DEF SenderStep
<1> QED
  BY <1>1, <1>3, <1>5, <1>6, TestStatusKept, DeliverKept, StutterKept DEF Next, NotifierStep

(* The channel starts with nothing on its way. *)
LEMMA InitIInv == Init => IInv
<1> SUFFICES ASSUME Init PROVE IInv
  OBVIOUS
<1>1. <<>> \in Seq(Commands) /\ Len(<<>>) = 0 /\ Range(<<>>) = {} /\ IsInjective(<<>>)
  BY EmptySeq, EmptyList
<1>2. TypeOK
  <2>1. /\ cache = <<>> /\ batch = <<>> /\ sent = <<>>
        /\ lock = NULL /\ up \in BOOLEAN /\ can_send \in BOOLEAN
        /\ admitted \subseteq Thread
        /\ pc \in [Thread -> {"idle", "direct", "put", "cache", "recheck", "flush",
                              "send", "first", "rest", "last", "open", "close"}]
        /\ cmd \in [Thread -> Commands \cup {NULL}]
    BY DEF Init
  <2>2. 0 <= CacheLen /\ 0 <= PoolSize
    BY ChannelAssumption
  <2> QED
    BY <1>1, <2>1, <2>2 DEF TypeOK
<1>3. Stream = <<>>
  <2>1. <<>> \o <<>> = <<>>
    BY <1>1, ConcatEmptySeq
  <2> QED
    BY <2>1 DEF Init, Stream
<1>4. CmdInv
  BY DEF Init, CmdInv
<1>5. {t \in Thread : pc[t] \in {"send", "first", "rest", "last"}} = {lock} \ {NULL}
  BY DEF Init
<1> QED
  BY <1>1, <1>2, <1>3, <1>4, <1>5 DEF IInv, SentOnce, Init

(* The invariant holds in every reachable state of the channel. *)
THEOREM Invariance == Spec => []IInv
<1>1. IInv /\ [Next]_vars => IInv'
  BY NextKept DEF Kept
<1> QED
  BY InitIInv, <1>1, PTL DEF Spec

(* However senders, flushes and events of the port interleave, no command  *)
(* is on its way twice.                                                    *)
THEOREM CommandsSentOnce == Spec => []SentOnce
<1>1. IInv => SentOnce
  BY DEF IInv
<1> QED
  BY <1>1, Invariance, PTL

(* No step makes two commands on their way, in requests, batch or cache,   *)
(* change places.  (A direct send comes in in front of the cache.)         *)
THEOREM CommandsInOrder == Spec => NeverOvertaken
<1>1. IInv /\ [Next]_vars
        => [\A a, b \in Commands : Before(a, b) => ~ Before(b, a)']_vars
  BY NextKept DEF Kept
<1> QED
  BY <1>1, Invariance, PTL DEF Spec, NeverOvertaken

(* A command gets stuck in the cache of an open channel by no other step   *)
(* than the one that opens the channel.                                    *)
LEMMA StrandedStep ==
    ASSUME TypeOK, [Next]_vars, ~ Stranded, Stranded'
    PROVE  pc[Notifier] = "open" /\ ~ can_send
<1>1. Senders \subseteq Thread /\ Notifier \in Thread
  BY DEF Thread
<1>2. Flushing' = {} /\ can_send' /\ cache' # <<>>
  BY DEF Stranded
<1>3. \A t \in Thread : pc'[t] \notin {"cache", "recheck", "flush", "send", "first", "rest", "last"}
  BY <1>2 DEF Flushing
<1>4. ~ can_send \/ cache = <<>>
         \/ \E t \in Thread : pc[t] \in {"cache", "recheck", "flush", "send", "first", "rest", "last"}
  BY DEF Stranded, Flushing
<1>5. ASSUME NEW t \in Thread, Flush(t)
      PROVE  FALSE
  <2>1. CASE FlushDone(t)
    <3>1. cache' = <<>>
      BY <2>1 DEF FlushDone
    <3> QED
      BY <1>2, <3>1
  <2>2. CASE FlushTake(t) \/ FlushLast(t) \/ \E n \in 1 .. CacheLen : FlushFirst(t, n)
    <3>1. pc'[t] \in {"flush", "send", "first", "rest", "last"}
      BY <2>2 DEF FlushTake, FlushLast, FlushFirst, At, TypeOK
    <3> QED
      BY <1>3, <3>1
  <2> QED
    BY <1>5, <2>1, <2>2 DEF Flush
<1>6. ASSUME NEW t \in Thread, CacheSend(t)
      PROVE  FALSE
  BY <1>3, <1>6 DEF CacheSend, At, TypeOK
<1>7. ASSUME NEW t \in Thread, Recheck(t)
      PROVE  FALSE
  BY <1>2, <1>3, <1>7 DEF Recheck, At, TypeOK
<1>8. ASSUME NEW t \in Thread, NEW place,
             place \notin {"cache", "recheck", "flush", "send", "first", "rest", "last"},
             pc[t] \notin {"cache", "recheck", "flush", "send", "first", "rest", "last"},
             pc' = [pc EXCEPT ![t] = place], UNCHANGED <<can_send, cache>>
      PROVE  FALSE
  BY <1>2, <1>3, <1>4, <1>8 DEF TypeOK
<1>9. ASSUME NEW t \in Senders, Direct(t) \/ \E c \in Commands : Call(t, c)
      PROVE  FALSE
  <2>1. CASE Direct(t)
    BY <1>1, <1>8, <2>1 DEF Direct, At
  <2>2. ASSUME NEW c \in Commands, Call(t, c)
        PROVE  FALSE
    <3>1. can_send
      BY <1>2, <2>2 DEF Call
    <3>2. pc' = [pc EXCEPT ![t] = "direct"]
      BY <2>2, <3>1 DEF Call, At
    <3> QED
      BY <1>1, <1>8, <2>2, <3>2 DEF Call
  <2> QED
    BY <1>9, <2>1, <2>2
<1>15. ASSUME NEW t \in Thread, TestStatus(t)
       PROVE  FALSE
  <2>1. UNCHANGED <<can_send, cache>>
    BY <1>15 DEF TestStatus
  <2>2. CASE pc[t] = "direct"
    <3>1. pc' = [pc EXCEPT ![t] = "put"]
      BY <1>15, <2>2 DEF TestStatus, Tested, At
    <3> QED
      BY <1>8, <2>1, <2>2, <3>1
  <2>3. CASE pc[t] \in {"send", "rest"}
    <3>1. pc'[t] \in {"first", "last"}
      BY <1>15, <2>3 DEF TestStatus, Tested, At, TypeOK
    <3> QED
      BY <1>3, <3>1
  <2> QED
    BY <1>15, <2>2, <2>3 DEF TestStatus, Tested
<1>10. CASE Startup
  BY <1>1, <1>3, <1>10 DEF Startup, At, TypeOK
<1>11. CASE Shutdown \/ Close
  <2>1. CASE Close
    BY <1>2, <2>1 DEF Close
  <2>2. CASE Shutdown
    BY <1>1, <1>8, <2>2 DEF Shutdown, At
  <2> QED
    BY <1>11, <2>1, <2>2
<1>12. CASE Open
  <2>1. CASE ~ can_send
    BY <1>12, <2>1 DEF Open
  <2>2. CASE can_send
    <3>1. can_send' = can_send /\ UNCHANGED cache
      BY <1>2, <1>12, <2>2 DEF Open, TypeOK
    <3> QED
      BY <1>1, <1>8, <1>12, <3>1 DEF Open, At
  <2> QED
    BY <2>1, <2>2
<1>13. CASE Deliver
  BY <1>2, <1>13 DEF Deliver, Stranded, Flushing
<1>14. CASE UNCHANGED vars
  BY <1>2, <1>14 DEF vars, Stranded, Flushing
<1> QED
  BY <1>1, <1>5, <1>6, <1>7, <1>9, <1>10, <1>11, <1>12, <1>13, <1>14, <1>15
  DEF Next, SenderStep, NotifierStep

(* For any number of senders: commands are stranded in the cache only by   *)
(* the start up that opens the channel behind them.                        *)
THEOREM OnlyOpenStrands == Spec => StrandedOnlyByOpen
<1>1. IInv /\ [Next]_vars
        => [~ Stranded /\ Stranded' => pc[Notifier] = "open" /\ ~ can_send]_vars
  BY StrandedStep DEF IInv, SentOnce
<1> QED
  BY <1>1, Invariance, PTL DEF Spec, StrandedOnlyByOpen

=============================================================================
