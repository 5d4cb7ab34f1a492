--------------------------- MODULE P4aMbox_proof ---------------------------
(***************************************************************************)
(* Proofs about the mailbox driver of the test project, for any set of     *)
(* messages and any depth of the queues.                                   *)
(***************************************************************************)
EXTENDS P4aMbox, ListLemmas

(* Two lists share no element. *)
Apart(a, b) == Range(a) \cap Range(b) = {}

(* The sending side.  A message that is about to be put directly found the *)
(* software FIFO empty, and only its thread fills that.  A thread that     *)
(* found room in the hardware still has it, if no other wrote since.       *)
TxInv ==
    /\ hwout \in Seq(OutMsg) /\ held \in Seq(OutMsg)
    /\ out \in Seq(OutMsg) /\ msg \in Seq(OutMsg)
    /\ Len(hwout) <= HwCap /\ Len(out) <= OutCap /\ Len(held) <= 1 /\ Len(msg) <= 1
    /\ IsInjective(hwout) /\ IsInjective(held) /\ IsInjective(out) /\ IsInjective(msg)
    /\ Apart(hwout, held) /\ Apart(hwout, out) /\ Apart(hwout, msg)
    /\ Apart(held, out) /\ Apart(held, msg) /\ Apart(out, msg)
    /\ held # <<>> <=> wpc = "write"
    /\ msg # <<>> <=> ppc \in {"again", "direct", "soft"}
    /\ ppc = "direct" => out = <<>>
    /\ ppc = "direct" /\ "put" \notin passed => Len(hwout) < HwCap
    /\ held # <<>> /\ "work" \notin passed => Len(hwout) < HwCap
    /\ works \in {"empty", "linked", "broken"}

(* The receiving side. *)
RxInv ==
    /\ inbox \in Seq(InMsg) /\ kept \in Seq(InMsg) /\ hwin \in Seq(InMsg)
    /\ Len(inbox) <= InCap /\ Len(kept) <= 1 /\ Len(hwin) <= HwCap
    /\ IsInjective(Rx)

(* The interrupt mask register. *)
RegInv ==
    /\ int_mask \subseteq {"TX", "RX"}
    /\ copy \in [{"input", "work"} -> SUBSET {"TX", "RX"}]

IInv == TxInv /\ RxInv /\ RegInv

-----------------------------------------------------------------------------
(* Four lists, one behind the other. *)
LEMMA FourLists ==
    ASSUME NEW S, NEW a \in Seq(S), NEW b \in Seq(S), NEW c \in Seq(S), NEW d \in Seq(S)
    PROVE  /\ a \o b \o c \o d \in Seq(S)
           /\ Range(a \o b \o c \o d) \subseteq S
           /\ Range(a \o b \o c) = Range(a) \cup Range(b) \cup Range(c)
           /\ IsInjective(a \o b \o c \o d) <=>
                /\ IsInjective(a) /\ IsInjective(b) /\ IsInjective(c) /\ IsInjective(d)
                /\ Apart(a, b) /\ Apart(a, c) /\ Apart(a, d)
                /\ Apart(b, c) /\ Apart(b, d) /\ Apart(c, d)
<1>1. PICK ab : ab = a \o b
  OBVIOUS
<1>2. /\ ab \in Seq(S) /\ Range(ab) = Range(a) \cup Range(b)
      /\ IsInjective(ab) <=> IsInjective(a) /\ IsInjective(b) /\ Range(a) \cap Range(b) = {}
  BY <1>1, ConcatInjective
<1>3. PICK abc : abc = ab \o c
  OBVIOUS
<1>4. /\ abc \in Seq(S) /\ Range(abc) = Range(ab) \cup Range(c)
      /\ IsInjective(abc) <=> IsInjective(ab) /\ IsInjective(c) /\ Range(ab) \cap Range(c) = {}
  BY <1>2, <1>3, ConcatInjective
<1>5. /\ abc \o d \in Seq(S)
      /\ IsInjective(abc \o d) <=> IsInjective(abc) /\ IsInjective(d) /\ Range(abc) \cap Range(d) = {}
  BY <1>4, ConcatInjective
<1>6. Range(abc \o d) \subseteq S
  BY <1>5, RangeOfSeq
<1>7. /\ Range(ab) \cap Range(c) = {} <=> Apart(a, c) /\ Apart(b, c)
      /\ Range(abc) \cap Range(d) = {} <=> Apart(a, d) /\ Apart(b, d) /\ Apart(c, d)
      /\ Range(a) \cap Range(b) = {} <=> Apart(a, b)
  BY <1>2, <1>4 DEF Apart
<1>8. IsInjective(abc \o d) <=>
        /\ IsInjective(a) /\ IsInjective(b) /\ IsInjective(c) /\ IsInjective(d)
        /\ Apart(a, b) /\ Apart(a, c) /\ Apart(a, d)
        /\ Apart(b, c) /\ Apart(b, d) /\ Apart(c, d)
  BY <1>2, <1>4, <1>5, <1>7, Zenon
<1> QED
  BY <1>1, <1>2, <1>3, <1>4, <1>5, <1>6, <1>8

(* The type invariant follows. *)
LEMMA TypeOKFollows == IInv => TypeOK
<1> SUFFICES ASSUME IInv PROVE TypeOK
  OBVIOUS
<1>1. IsInjective(Tx) /\ Range(Tx) \subseteq OutMsg
  BY FourLists DEF IInv, TxInv, Tx
<1>2. Range(Rx) \subseteq InMsg
  <2>1. inbox \o kept \in Seq(InMsg)
    BY ConcatProperties DEF IInv, RxInv
  <2>2. Rx \in Seq(InMsg)
    BY <2>1, ConcatProperties DEF IInv, RxInv, Rx
  <2> QED
    BY <2>2, RangeOfSeq
<1> QED
  BY <1>1, <1>2 DEF IInv, TxInv, RxInv, RegInv, TypeOK

-----------------------------------------------------------------------------
(* The sending side: what a step may do to the messages (SendsInOrder). *)
SendStep ==
    \/ Tx' = Tx
    \/ hwout # <<>> /\ hwout' = Tail(hwout) /\ Tx' = Tail(Tx)
    \/ ppc = "idle" /\ \E m \in OutMsg : Tx' = Append(Tx, m)
    \/ Overtaken \/ PutLost \/ WorkLost

(* A list of at most one element. *)
LEMMA One ==
    ASSUME NEW S, NEW s \in Seq(S), Len(s) <= 1, s # <<>>
    PROVE  \E e \in S : s = <<e>> /\ s = Append(<<>>, e)
<1>1. Len(s) = 1
  <2>1. PICK n \in Nat : n = Len(s)
    BY LenProperties
  <2>2. n > 0
    BY <2>1, EmptyList
  <2>3. n <= 1
    BY <2>1
  <2> QED
    BY <2>1, <2>2, <2>3
<1>2. s[1] \in S
  BY <1>1, ElementOfSeq
<1>3. PICK e \in S : e = s[1]
  BY <1>2
<1>4. s = <<e>>
  BY <1>1, <1>3
<1> QED
  BY <1>3, <1>4

(* A list is its first element, then the others. *)
LEMMA HeadThenTail ==
    ASSUME NEW S, NEW r \in Seq(S), NEW s \in Seq(S), s # <<>>
    PROVE  (r \o <<Head(s)>>) \o Tail(s) = r \o s
<1>0. \A a, b, d \in Seq(S) : (a \o d) \o b = a \o (d \o b)
  BY ConcatAssociative
<1>1. Len(s) \in Nat /\ Len(s) > 0
  BY EmptyList, LenProperties
<1>2. 1 \in 1 .. Len(s) /\ Len(s) \in 1 .. Len(s)
  BY <1>1
<1>3. SubSeq(s, 1, Len(s)) = <<s[1]>> \o SubSeq(s, 1 + 1, Len(s))
  BY <1>2, SubSeqRecursiveFirst
<1>4. SubSeq(s, 1, Len(s)) = s /\ Tail(s) = SubSeq(s, 2, Len(s)) /\ Head(s) = s[1]
  BY SubSeqFull, TailIsSubSeq
<1>5. s = <<Head(s)>> \o Tail(s)
  BY <1>3, <1>4
<1>6. PICK e \in S, t \in Seq(S) : e = Head(s) /\ t = Tail(s)
  BY HeadTailProperties
<1>7. <<e>> \in Seq(S)
  OBVIOUS
<1>8. (r \o <<e>>) \o t = r \o (<<e>> \o t)
  BY <1>0, <1>7
<1> QED
  BY <1>5, <1>6, <1>8, Zenon

(* A step that moves no message. *)
LEMMA NothingSent ==
    ASSUME TxInv, UNCHANGED <<hwout, out, held, msg, passed>>,
           wpc = wpc' \/ "write" \notin {wpc, wpc'},
           ppc' = ppc \/ {ppc, ppc'} \cap {"again", "direct", "soft"} = {},
           works' \in {"empty", "linked", "broken"}
    PROVE  TxInv' /\ SendStep
<1>1. Tx' = Tx
  BY DEF Tx
<1>2. TxInv'
  BY DEF TxInv
<1> QED
  BY <1>1, <1>2 DEF SendStep

(* Two lists become one, the other is empty. *)
LEMMA Joined ==
    ASSUME NEW S, NEW a \in Seq(S), NEW b \in Seq(S), IsInjective(a), IsInjective(b),
           Apart(a, b)
    PROVE  /\ a \o b \in Seq(S) /\ IsInjective(a \o b)
           /\ Len(a \o b) = Len(a) + Len(b)
           /\ \A c : Apart(a, c) /\ Apart(b, c) => Apart(a \o b, c) /\ Apart(c, a \o b)
           /\ \A c : Apart(c, <<>>) /\ Apart(<<>>, c)
<1>1. /\ a \o b \in Seq(S) /\ Range(a \o b) = Range(a) \cup Range(b)
      /\ IsInjective(a \o b)
  BY ConcatInjective DEF Apart
<1>2. Len(a \o b) = Len(a) + Len(b)
  BY ConcatProperties
<1>3. Range(<<>>) = {}
  BY EmptyList
<1> QED
  BY <1>1, <1>2, <1>3 DEF Apart

LEMMA ApartSymmetric == \A a, b : Apart(a, b) <=> Apart(b, a)
  BY DEF Apart

(* The empty list. *)
LEMMA Empty ==
    /\ \A S : <<>> \in Seq(S)
    /\ Len(<<>>) = 0 /\ IsInjective(<<>>)
    /\ \A a : Apart(a, <<>>) /\ Apart(<<>>, a)
  BY EmptyList, EmptySeq DEF Apart, IsInjective

LEMMA PutSends ==
    ASSUME TxInv, NEW m \in OutMsg, Put(m)
    PROVE  TxInv' /\ SendStep
<1>1. /\ ppc = "idle" /\ m \notin Range(Tx) /\ msg' = <<m>>
      /\ ppc' \in {"direct", "soft"}
      /\ ppc' = "direct" => out = <<>> /\ Len(hwout) < HwCap
      /\ UNCHANGED <<hwout, out, wpc, held, works, passed>>
  BY DEF Put, Test, Direct, queue
<1>2. <<m>> \in Seq(OutMsg) /\ Len(<<m>>) = 1 /\ <<m>> # <<>>
      /\ IsInjective(<<m>>) /\ Range(<<m>>) = {m}
  BY DEF IsInjective, Range
<1>3. PICK l \in Seq(OutMsg) : l = (hwout \o held) \o out
  BY FourLists, Empty, ConcatEmptySeq, ConcatProperties DEF TxInv
<1>4. msg = <<>> /\ Tx = l
  <2>1. msg = <<>>
    BY <1>1 DEF TxInv
  <2> QED
    BY <1>3, <2>1, ConcatEmptySeq DEF Tx
<1>5. Range(l) = Range(hwout) \cup Range(held) \cup Range(out)
  BY <1>3, FourLists DEF TxInv
<1>6. Apart(hwout, <<m>>) /\ Apart(held, <<m>>) /\ Apart(out, <<m>>)
  BY <1>1, <1>2, <1>4, <1>5 DEF Apart
<1>7. Tx' = Append(Tx, m)
  <2>1. Tx' = l \o <<m>>
    BY <1>1, <1>3 DEF Tx
  <2> QED
    BY <1>4, <2>1, AppendIsConcat
<1> QED
  BY <1>1, <1>2, <1>6, <1>7 DEF TxInv, SendStep

LEMMA PutAgainSends ==
    ASSUME TxInv, PutAgain
    PROVE  TxInv' /\ SendStep
<1>1. /\ ppc = "again" /\ ppc' \in {"direct", "soft"}
      /\ ppc' = "direct" => out = <<>> /\ Len(hwout) < HwCap
      /\ UNCHANGED <<hwout, out, msg, wpc, held, works, passed>>
  BY DEF PutAgain, Test, Direct, queue
<1>2. Tx' = Tx
  BY <1>1 DEF Tx
<1> QED
  BY <1>1, <1>2 DEF TxInv, SendStep

LEMMA PutDirectSends ==
    ASSUME TxInv, PutDirect
    PROVE  TxInv' /\ SendStep
<1>1. /\ ppc = "direct" /\ ppc' = "idle" /\ msg' = <<>>
      /\ hwout' = IF Len(hwout) < HwCap THEN hwout \o msg ELSE hwout
      /\ UNCHANGED <<out, wpc, held, works>>
  BY DEF PutDirect, FifoWrite, queue
<1>0. /\ Len(hwout) < HwCap /\ held # <<>> => "work" \in passed'
      /\ ~ Len(hwout) < HwCap => passed' = passed \ {"put"}
  BY DEF PutDirect, FifoWrite
<1>2. /\ hwout \in Seq(OutMsg) /\ held \in Seq(OutMsg) /\ msg \in Seq(OutMsg)
      /\ IsInjective(hwout) /\ IsInjective(msg) /\ Apart(hwout, msg)
      /\ Len(hwout) <= HwCap /\ Len(msg) <= 1 /\ msg # <<>> /\ out = <<>>
  BY <1>1 DEF TxInv
<1>3. PICK m \in OutMsg : msg = <<m>> /\ msg = Append(<<>>, m)
  BY <1>2, One
<1>4. /\ hwout \o msg \in Seq(OutMsg) /\ IsInjective(hwout \o msg)
      /\ Len(hwout \o msg) = Len(hwout) + 1
      /\ Apart(hwout \o msg, held) /\ Apart(hwout \o msg, out)
  <2>1. Len(msg) = 1
    BY <1>3
  <2>2. /\ Apart(hwout, held) /\ Apart(msg, held) /\ Apart(hwout, out) /\ Apart(msg, out)
    BY ApartSymmetric DEF TxInv
  <2> QED
    BY <1>2, <2>1, <2>2, Joined
<1>5. Len(hwout) < HwCap => Len(hwout) + 1 <= HwCap
  BY <1>2, LenProperties, DepthAssumption
<1>6. TxInv'
  <2>1. held' # <<>> /\ "work" \notin passed' => Len(hwout') < HwCap
    BY <1>0, <1>1 DEF TxInv
  <2> QED
    BY <1>1, <1>4, <1>5, <2>1, Empty DEF TxInv
<1>7. SendStep
  <2>1. CASE ~ Len(hwout) < HwCap
    <3>1. Tx' = ((hwout \o held) \o out) \o <<>>
      BY <1>1, <2>1 DEF Tx
    <3>2. (hwout \o held) \o out \in Seq(OutMsg)
      BY <1>2, ConcatProperties DEF TxInv
    <3>3. Tx' = (hwout \o held) \o out
      BY <3>1, <3>2, ConcatEmptySeq
    <3>4. "put" \in passed
      BY <1>1, <2>1 DEF TxInv
    <3>5. Len(hwout) = HwCap
      BY <1>2, <2>1, LenProperties, DepthAssumption
    <3> QED
      BY <1>1, <3>3, <3>4, <3>5 DEF SendStep, PutLost
  <2>2. CASE Len(hwout) < HwCap /\ held = <<>>
    <3>1. PICK a \in Seq(OutMsg) : a = hwout \o msg
      BY <1>4
    <3>2. Tx = ((hwout \o <<>>) \o <<>>) \o msg /\ Tx' = ((a \o <<>>) \o <<>>) \o <<>>
      BY <1>1, <1>2, <2>2, <3>1 DEF Tx
    <3>3. hwout \o <<>> = hwout /\ a \o <<>> = a
      BY <1>2, ConcatEmptySeq
    <3>4. Tx' = Tx
      BY <3>1, <3>2, <3>3, Zenon
    <3> QED
      BY <3>4 DEF SendStep
  <2>3. CASE Len(hwout) < HwCap /\ held # <<>>
    <3>1. PICK a \in Seq(OutMsg) : a = (hwout \o msg) \o held
      BY <1>2, <1>4, ConcatProperties
    <3>2. Tx' = (a \o <<>>) \o <<>>
      BY <1>1, <1>2, <2>3, <3>1 DEF Tx
    <3>3. a \o <<>> = a
      BY ConcatEmptySeq
    <3>4. Tx' = a
      BY <3>2, <3>3, Zenon
    <3> QED
      BY <1>1, <2>3, <3>1, <3>4 DEF SendStep, Overtaken
  <2> QED
    BY <2>1, <2>2, <2>3
<1> QED
  BY <1>6, <1>7

(* Three lists put together one way or the other. *)
LEMMA Regroup ==
    \A S, a, b, c, bc, abc :
        a \in Seq(S) /\ b \in Seq(S) /\ c \in Seq(S) /\ bc = b \o c /\ abc = a \o bc
        => abc = (a \o b) \o c
  BY ConcatAssociative

LEMMA PutSoftSends ==
    ASSUME TxInv, PutSoft
    PROVE  TxInv' /\ SendStep
<1>1. /\ ppc = "soft" /\ UNCHANGED <<hwout, wpc, held, works, passed>>
      /\ IF Len(out) < OutCap
         THEN out' = out \o msg /\ ppc' = "queue" /\ msg' = <<>>
         ELSE ppc' = "again" /\ UNCHANGED <<out, msg>>
  BY DEF PutSoft, queue
<1>2. CASE ~ Len(out) < OutCap
  <2>1. Tx' = Tx
    BY <1>1, <1>2 DEF Tx
  <2> QED
    BY <1>1, <1>2, <2>1 DEF TxInv, SendStep
<1>3. CASE Len(out) < OutCap
  <2>1. /\ hwout \in Seq(OutMsg) /\ held \in Seq(OutMsg)
        /\ out \in Seq(OutMsg) /\ msg \in Seq(OutMsg)
        /\ IsInjective(out) /\ IsInjective(msg) /\ Apart(out, msg)
        /\ Len(msg) <= 1 /\ msg # <<>>
    BY <1>1 DEF TxInv
  <2>2. PICK m \in OutMsg : msg = <<m>> /\ msg = Append(<<>>, m)
    BY <2>1, One
  <2>3. /\ out \o msg \in Seq(OutMsg) /\ IsInjective(out \o msg)
        /\ Len(out \o msg) = Len(out) + 1
        /\ Apart(hwout, out \o msg) /\ Apart(held, out \o msg)
    <3>1. Len(msg) = 1
      BY <2>2
    <3>2. /\ Apart(out, hwout) /\ Apart(msg, hwout) /\ Apart(out, held) /\ Apart(msg, held)
      BY ApartSymmetric DEF TxInv
    <3> QED
      BY <2>1, <3>1, <3>2, Joined
  <2>4. Len(out) + 1 <= OutCap
    BY <1>3, <2>1, LenProperties, DepthAssumption
  <2>5. TxInv'
    <3>1. PICK o \in Seq(OutMsg) : o = out \o msg
      BY <2>3
    <3>2. out' = o /\ msg' = <<>> /\ ppc' = "queue"
      BY <1>1, <1>3, <3>1
    <3>3. /\ Len(o) <= OutCap /\ IsInjective(o) /\ Apart(hwout, o) /\ Apart(held, o)
      BY <2>3, <2>4, <3>1
    <3> QED
      BY <1>1, <3>2, <3>3, Empty DEF TxInv
  <2>6. Tx' = Tx
    <3>1. PICK a \in Seq(OutMsg), b \in Seq(OutMsg) : a = hwout \o held /\ b = out \o msg
      BY <2>1, <2>3, ConcatProperties
    <3>2. Tx' = (a \o b) \o <<>>
      BY <1>1, <1>3, <3>1 DEF Tx
    <3>3. (a \o b) \o <<>> = a \o b
      BY ConcatProperties, ConcatEmptySeq
    <3>4. a \o (out \o msg) = (a \o out) \o msg
      BY <2>1, Regroup
    <3>5. Tx = (a \o out) \o msg
      BY <3>1 DEF Tx
    <3> QED
      BY <3>1, <3>2, <3>3, <3>4, <3>5, Zenon
  <2> QED
    BY <2>5, <2>6 DEF SendStep
<1> QED
  BY <1>2, <1>3

LEMMA WorkTakeSends ==
    ASSUME TxInv, WorkTake
    PROVE  TxInv' /\ SendStep
<1>1. /\ wpc = "peek" /\ UNCHANGED <<hwout, ppc, msg, works, passed>>
      /\ \/ wpc' \in {"check", "enable"} /\ UNCHANGED <<out, held>>
         \/ /\ out # <<>> /\ Len(hwout) < HwCap /\ wpc' = "write"
            /\ held' = <<Head(out)>> /\ out' = Tail(out)
  BY DEF WorkTake, AtFull
<1>2. CASE wpc' \in {"check", "enable"} /\ UNCHANGED <<out, held>>
  BY <1>1, <1>2, NothingSent DEF TxInv
<1>3. CASE /\ out # <<>> /\ Len(hwout) < HwCap /\ wpc' = "write"
           /\ held' = <<Head(out)>> /\ out' = Tail(out)
  <2>1. /\ hwout \in Seq(OutMsg) /\ out \in Seq(OutMsg) /\ held = <<>>
        /\ IsInjective(out) /\ ppc # "direct"
    BY <1>1, <1>3 DEF TxInv
  <2>2. PICK m \in OutMsg : m = Head(out) /\ m \in Range(out)
    BY <1>3, <2>1, ListDelFirst
  <2>3. /\ Tail(out) \in Seq(OutMsg) /\ Len(Tail(out)) = Len(out) - 1
        /\ Range(Tail(out)) = Range(out) \ {m} /\ IsInjective(Tail(out))
    BY <1>3, <2>1, <2>2, ListDelFirst
  <2>4. /\ <<m>> \in Seq(OutMsg) /\ Len(<<m>>) = 1 /\ <<m>> # <<>>
        /\ IsInjective(<<m>>) /\ Range(<<m>>) = {m}
    BY DEF IsInjective, Range
  <2>5. /\ Apart(hwout, <<m>>) /\ Apart(hwout, Tail(out)) /\ Apart(<<m>>, Tail(out))
        /\ Apart(<<m>>, msg) /\ Apart(Tail(out), msg)
    BY <2>2, <2>3, <2>4 DEF TxInv, Apart
  <2>6. Len(Tail(out)) <= OutCap
    BY <2>1, <2>3, LenProperties, DepthAssumption DEF TxInv
  <2>7. TxInv'
    <3>1. PICK d, o : d = <<m>> /\ o = Tail(out)
      OBVIOUS
    <3>2. held' = d /\ out' = o
      BY <1>3, <2>2, <3>1
    <3>3. /\ d \in Seq(OutMsg) /\ o \in Seq(OutMsg) /\ d # <<>>
          /\ Len(d) <= 1 /\ Len(o) <= OutCap /\ IsInjective(d) /\ IsInjective(o)
          /\ Apart(hwout, d) /\ Apart(hwout, o) /\ Apart(d, o)
          /\ Apart(d, msg) /\ Apart(o, msg)
      BY <2>3, <2>4, <2>5, <2>6, <3>1
    <3> QED
      BY <1>1, <1>3, <2>1, <3>2, <3>3 DEF TxInv
  <2>8. Tx' = Tx
    <3>1. hwout \o <<>> = hwout
      BY <2>1, ConcatEmptySeq
    <3>2. Tx = ((hwout \o <<>>) \o out) \o msg
      BY <2>1 DEF Tx
    <3>3. Tx' = ((hwout \o <<Head(out)>>) \o Tail(out)) \o msg
      BY <1>1, <1>3 DEF Tx
    <3>4. (hwout \o <<Head(out)>>) \o Tail(out) = hwout \o out
      BY <1>3, <2>1, HeadThenTail
    <3> QED
      BY <3>1, <3>2, <3>3, <3>4, Zenon
  <2> QED
    BY <2>7, <2>8 DEF SendStep
<1> QED
  BY <1>1, <1>2, <1>3

LEMMA WorkWriteSends ==
    ASSUME TxInv, WorkWrite
    PROVE  TxInv' /\ SendStep
<1>1. /\ wpc = "write" /\ wpc' = "peek" /\ held' = <<>>
      /\ hwout' = IF Len(hwout) < HwCap THEN hwout \o held ELSE hwout
      /\ UNCHANGED <<out, ppc, msg, works>>
  BY DEF WorkWrite, FifoWrite
<1>0. /\ Len(hwout) < HwCap /\ ppc = "direct" => "put" \in passed'
      /\ ~ Len(hwout) < HwCap => passed' = passed \ {"work"}
  BY DEF WorkWrite, FifoWrite
<1>2. /\ hwout \in Seq(OutMsg) /\ held \in Seq(OutMsg) /\ out \in Seq(OutMsg)
      /\ IsInjective(hwout) /\ IsInjective(held) /\ Apart(hwout, held)
      /\ Len(hwout) <= HwCap /\ Len(held) <= 1 /\ held # <<>>
  BY <1>1 DEF TxInv
<1>3. PICK m \in OutMsg : held = <<m>> /\ held = Append(<<>>, m)
  BY <1>2, One
<1>4. /\ hwout \o held \in Seq(OutMsg) /\ IsInjective(hwout \o held)
      /\ Len(hwout \o held) = Len(hwout) + 1
      /\ Apart(hwout \o held, out) /\ Apart(hwout \o held, msg)
  <2>1. Len(held) = 1
    BY <1>3
  <2>2. /\ Apart(hwout, out) /\ Apart(held, out) /\ Apart(hwout, msg) /\ Apart(held, msg)
    BY DEF TxInv
  <2> QED
    BY <1>2, <2>1, <2>2, Joined
<1>5. /\ Len(hwout) < HwCap => Len(hwout) + 1 <= HwCap
      /\ ~ Len(hwout) < HwCap => Len(hwout) = HwCap
  BY <1>2, LenProperties, DepthAssumption
<1>6. TxInv'
  <2>1. ppc' = "direct" /\ "put" \notin passed' => Len(hwout') < HwCap
    BY <1>0, <1>1 DEF TxInv
  <2> QED
    BY <1>1, <1>4, <1>5, <2>1, Empty DEF TxInv
<1>7. SendStep
  <2>1. CASE Len(hwout) < HwCap
    <3>1. PICK a \in Seq(OutMsg) : a = hwout \o held
      BY <1>4
    <3>2. Tx = (a \o out) \o msg /\ Tx' = ((a \o <<>>) \o out) \o msg
      BY <1>1, <2>1, <3>1 DEF Tx
    <3>3. a \o <<>> = a
      BY ConcatEmptySeq
    <3>4. Tx' = Tx
      BY <3>2, <3>3, Zenon
    <3> QED
      BY <3>4 DEF SendStep
  <2>2. CASE ~ Len(hwout) < HwCap
    <3>1. Tx' = ((hwout \o <<>>) \o out) \o msg /\ hwout \o <<>> = hwout
      BY <1>1, <1>2, <2>2, ConcatEmptySeq DEF Tx
    <3>2. Tx' = (hwout \o out) \o msg
      BY <3>1, Zenon
    <3>3. "work" \in passed
      BY <1>2, <2>2 DEF TxInv
    <3> QED
      BY <1>2, <1>5, <2>2, <3>2, <3>3 DEF SendStep, WorkLost
  <2> QED
    BY <2>1, <2>2
<1> QED
  BY <1>6, <1>7

LEMMA Cpu2GetSends ==
    ASSUME TxInv, Cpu2Get
    PROVE  TxInv' /\ SendStep
<1>1. /\ hwout # <<>> /\ hwout' = Tail(hwout)
      /\ UNCHANGED <<out, ppc, msg, wpc, held, works, passed>>
  BY DEF Cpu2Get, queue
<1>2. /\ hwout \in Seq(OutMsg) /\ held \in Seq(OutMsg) /\ out \in Seq(OutMsg)
      /\ msg \in Seq(OutMsg)
      /\ IsInjective(hwout) /\ Len(hwout) <= HwCap
  BY DEF TxInv
<1>3. /\ Tail(hwout) \in Seq(OutMsg) /\ Len(Tail(hwout)) = Len(hwout) - 1
      /\ Range(Tail(hwout)) \subseteq Range(hwout) /\ IsInjective(Tail(hwout))
  BY <1>1, <1>2, ListDelFirst
<1>4. /\ Apart(Tail(hwout), held) /\ Apart(Tail(hwout), out) /\ Apart(Tail(hwout), msg)
  BY <1>3 DEF TxInv, Apart
<1>5. Len(Tail(hwout)) <= HwCap /\ Len(Tail(hwout)) < HwCap
  BY <1>2, <1>3, LenProperties, DepthAssumption
<1>6. TxInv'
  BY <1>1, <1>3, <1>4, <1>5 DEF TxInv
<1>7. Tx # <<>> /\ Tx' = Tail(Tx)
  <2>1. PICK a \in Seq(OutMsg) : a = hwout \o held
    BY <1>2, ConcatProperties
  <2>2. a # <<>> /\ Tail(a) = Tail(hwout) \o held
    BY <1>1, <1>2, <2>1, ConcatEnds
  <2>3. a \o out # <<>> /\ Tail(a \o out) = Tail(a) \o out
    BY <1>2, <2>2, ConcatEnds
  <2>4. PICK b \in Seq(OutMsg) : b = a \o out
    BY <1>2, ConcatProperties
  <2>5. b \o msg # <<>> /\ Tail(b \o msg) = Tail(b) \o msg
    BY <1>2, <2>3, <2>4, ConcatEnds
  <2>6. Tx = b \o msg /\ Tx' = ((Tail(hwout) \o held) \o out) \o msg
    BY <1>1, <2>1, <2>4 DEF Tx
  <2> QED
    BY <2>2, <2>3, <2>4, <2>5, <2>6, Zenon
<1> QED
  BY <1>1, <1>6, <1>7 DEF SendStep

(* The other steps move no message: they link the work, wake or start its  *)
(* thread, or change the mask.                                             *)
LEMMA OthersSend ==
    ASSUME TxInv,
           \/ QueueWork \/ Notify \/ NoteRunning
           \/ TakeWork \/ WorkWait \/ WorkEnable \/ Dsr
           \/ UNCHANGED tx
    PROVE  TxInv' /\ SendStep
<1>1. UNCHANGED <<hwout, out, held, msg, passed>>
  BY DEF QueueWork, Notify, NoteRunning, TakeWork, WorkWait, WorkEnable, Dsr, tx
<1>2. wpc = wpc' \/ "write" \notin {wpc, wpc'}
  BY DEF QueueWork, Notify, NoteRunning, TakeWork, WorkWait, WorkEnable, Dsr, TxInterrupt, tx, queue
<1>3. ppc' = ppc \/ {ppc, ppc'} \cap {"again", "direct", "soft"} = {}
  BY DEF QueueWork, Notify, NoteRunning, TakeWork, WorkWait, WorkEnable, Dsr, tx
<1>4. works' \in {"empty", "linked", "broken"}
  BY DEF TxInv, QueueWork, Notify, NoteRunning, TakeWork, WorkWait, WorkEnable, Dsr,
     TxInterrupt, AddTail, tx, queue
<1> QED
  BY <1>1, <1>2, <1>3, <1>4, NothingSent

-----------------------------------------------------------------------------
(* The receiving side. *)
ReceiveStep ==
    \/ Rx' = Rx
    \/ Rx # <<>> /\ Rx' = Tail(Rx)
    \/ \E m \in InMsg : m \notin Range(Rx) /\ Rx' = Append(Rx, m)

(* What __mbox_rx_interrupt does with a full inbox i of which room places  *)
(* were left, the message k it kept and the hardware FIFO h.               *)
Distributed(S, i, k, h, room) ==
    LET all == k \o h
        fits == SubSeq(all, 1, room)
        rest == SubSeq(all, room + 2, Len(all))
    IN  /\ i \o fits \in Seq(S) /\ Len(i \o fits) = Len(i) + room
        /\ <<all[room + 1]>> \in Seq(S) /\ Len(<<all[room + 1]>>) = 1
        /\ rest \in Seq(S) /\ Len(rest) <= Len(h)
        /\ i \o fits \o <<all[room + 1]>> \o rest = i \o k \o h

LEMMA Distribute ==
    \A S, i, k, h, room :
        /\ i \in Seq(S) /\ k \in Seq(S) /\ h \in Seq(S)
        /\ Len(k) <= 1 /\ room \in Nat /\ room < Len(k \o h)
        => Distributed(S, i, k, h, room)
<1>1. SUFFICES ASSUME NEW S, NEW i, NEW k, NEW h, NEW room,
                      i \in Seq(S), k \in Seq(S), h \in Seq(S),
                      Len(k) <= 1, room \in Nat, room < Len(k \o h)
               PROVE  Distributed(S, i, k, h, room)
  OBVIOUS
<1>2. PICK all : all = k \o h
  OBVIOUS
<1>3. /\ all \in Seq(S) /\ Len(all) = Len(k) + Len(h)
      /\ Len(k) \in Nat /\ Len(h) \in Nat /\ room < Len(all)
  BY <1>1, <1>2, ConcatProperties, LenProperties
<1>4. /\ SubSeq(all, 1, room) \in Seq(S) /\ Len(SubSeq(all, 1, room)) = room
      /\ all[room + 1] \in S
      /\ SubSeq(all, room + 2, Len(all)) \in Seq(S)
      /\ Len(SubSeq(all, room + 2, Len(all))) = Len(all) - room - 1
      /\ all = (SubSeq(all, 1, room) \o <<all[room + 1]>>) \o SubSeq(all, room + 2, Len(all))
  <2>1. room \in Nat /\ room < Len(all) /\ all \in Seq(S)
    BY <1>1, <1>3
  <2> QED
    BY <2>1, SplitAt
<1>5. PICK fits, e, rest :
          /\ fits = SubSeq(all, 1, room) /\ e = all[room + 1]
          /\ rest = SubSeq(all, room + 2, Len(all))
  OBVIOUS
<1>6. /\ fits \in Seq(S) /\ Len(fits) = room /\ e \in S /\ rest \in Seq(S)
      /\ all = (fits \o <<e>>) \o rest
  BY <1>4, <1>5
<1>7. i \o fits \in Seq(S) /\ Len(i \o fits) = Len(i) + room
  <2>1. i \in Seq(S) /\ fits \in Seq(S)
    BY <1>1, <1>6
  <2> QED
    BY <1>6, <2>1, ConcatProperties
<1>8. PICK d : d = <<e>> /\ d \in Seq(S) /\ Len(d) = 1
  <2>1. e \in S
    BY <1>6
  <2>2. <<e>> \in Seq(S) /\ Len(<<e>>) = 1
    BY <2>1
  <2> QED
    BY <2>2, Zenon
<1>9. Len(rest) <= Len(h)
  <2>1. Len(rest) = Len(k) + Len(h) - room - 1
    BY <1>3, <1>4, <1>5
  <2> QED
    BY <1>1, <1>3, <2>1
<1>10. ((i \o fits) \o d) \o rest = (i \o k) \o h
  <2>1. (i \o fits) \o d = i \o (fits \o d)
    <3>1. i \in Seq(S) /\ fits \in Seq(S) /\ d \in Seq(S)
      BY <1>1, <1>6, <1>8
    <3> QED
      BY <3>1, ConcatAssociative
  <2>2. (i \o (fits \o d)) \o rest = i \o ((fits \o d) \o rest)
    <3>1. PICK fd : fd = fits \o d
      OBVIOUS
    <3>2. fd \in Seq(S)
      BY <1>6, <1>8, <3>1, ConcatProperties
    <3>3. i \in Seq(S) /\ fd \in Seq(S) /\ rest \in Seq(S)
      BY <1>1, <1>6, <3>2
    <3>4. (i \o fd) \o rest = i \o (fd \o rest)
      BY <3>3, ConcatAssociative
    <3> QED
      BY <3>1, <3>4
  <2>3. (i \o k) \o h = i \o (k \o h)
    <3>1. i \in Seq(S) /\ k \in Seq(S) /\ h \in Seq(S)
      BY <1>1
    <3> QED
      BY <3>1, ConcatAssociative
  <2> QED
    BY <1>2, <1>6, <1>8, <2>1, <2>2, <2>3, Zenon
<1> QED
  BY <1>2, <1>4, <1>5, <1>7, <1>8, <1>9, <1>10, Zenon DEF Distributed

(* A step that leaves it alone. *)
LEMMA RxSame ==
    ASSUME RxInv, UNCHANGED <<inbox, kept, hwin>>
    PROVE  RxInv' /\ ReceiveStep
<1>1. Rx' = Rx
  BY DEF Rx
<1> QED
  BY <1>1 DEF RxInv, ReceiveStep

LEMMA GetReceives ==
    ASSUME RxInv, Get
    PROVE  RxInv' /\ ReceiveStep
<1>1. inbox # <<>> /\ inbox' = Tail(inbox) /\ UNCHANGED <<kept, hwin>>
  BY DEF Get
<1>2. /\ inbox \in Seq(InMsg) /\ kept \in Seq(InMsg) /\ hwin \in Seq(InMsg)
      /\ Len(inbox) <= InCap /\ IsInjective(Rx)
  BY DEF RxInv
<1>3. Tail(inbox) \in Seq(InMsg) /\ Len(Tail(inbox)) <= InCap
  <2>1. Tail(inbox) \in Seq(InMsg) /\ Len(Tail(inbox)) = Len(inbox) - 1 /\ Len(inbox) \in Nat
    BY <1>1, <1>2, HeadTailProperties, LenProperties
  <2> QED
    BY <1>2, <2>1, DepthAssumption
<1>4. Rx # <<>> /\ Rx' = Tail(Rx) /\ Rx \in Seq(InMsg)
  <2>1. PICK a \in Seq(InMsg) : a = inbox \o kept
    BY <1>2, ConcatProperties
  <2>2. a # <<>> /\ Tail(a) = Tail(inbox) \o kept
    BY <1>1, <1>2, <2>1, ConcatEnds
  <2>3. a \o hwin # <<>> /\ Tail(a \o hwin) = Tail(a) \o hwin /\ a \o hwin \in Seq(InMsg)
    BY <1>2, <2>2, ConcatEnds, ConcatProperties
  <2>4. Rx = a \o hwin /\ Rx' = (Tail(inbox) \o kept) \o hwin
    BY <1>1, <2>1 DEF Rx
  <2> QED
    BY <2>2, <2>3, <2>4, Zenon
<1>5. IsInjective(Rx')
  BY <1>2, <1>4, ListDelFirst
<1> QED
  BY <1>1, <1>3, <1>4, <1>5 DEF RxInv, ReceiveStep

LEMMA Cpu2PutReceives ==
    ASSUME RxInv, NEW m \in InMsg, Cpu2Put(m)
    PROVE  RxInv' /\ ReceiveStep
<1>1. /\ m \notin Range(Rx) /\ Len(hwin) < HwCap /\ hwin' = Append(hwin, m)
      /\ UNCHANGED <<inbox, kept>>
  BY DEF Cpu2Put
<1>2. /\ inbox \in Seq(InMsg) /\ kept \in Seq(InMsg) /\ hwin \in Seq(InMsg)
      /\ IsInjective(Rx)
  BY DEF RxInv
<1>3. Append(hwin, m) \in Seq(InMsg) /\ Len(Append(hwin, m)) <= HwCap
  <2>1. /\ Append(hwin, m) \in Seq(InMsg) /\ Len(Append(hwin, m)) = Len(hwin) + 1
        /\ Len(hwin) \in Nat
    BY <1>2, AppendProperties, LenProperties
  <2> QED
    BY <1>1, <2>1, DepthAssumption
<1>4. Rx' = Append(Rx, m) /\ Rx \in Seq(InMsg)
  <2>1. PICK a \in Seq(InMsg) : a = inbox \o kept
    BY <1>2, ConcatProperties
  <2>2. a \o Append(hwin, m) = Append(a \o hwin, m) /\ a \o hwin \in Seq(InMsg)
    BY <1>2, ConcatEnds, ConcatProperties
  <2> QED
    BY <1>1, <2>1, <2>2 DEF Rx
<1>5. IsInjective(Rx')
  BY <1>1, <1>2, <1>4, ListAddTail
<1> QED
  BY <1>1, <1>3, <1>4, <1>5 DEF RxInv, ReceiveStep

LEMMA DsrReceives ==
    ASSUME RxInv, Dsr
    PROVE  RxInv' /\ ReceiveStep
<1>1. CASE ~ RxIrq
  BY <1>1, RxSame DEF Dsr
<1>2. CASE RxIrq
  <2>1. /\ inbox \in Seq(InMsg) /\ kept \in Seq(InMsg) /\ hwin \in Seq(InMsg)
        /\ Len(inbox) <= InCap /\ Len(kept) <= 1 /\ Len(hwin) <= HwCap
        /\ IsInjective(Rx)
    BY DEF RxInv
  <2>2. PICK room \in Nat : room = Room /\ Len(inbox) + room = InCap
    <3>1. Len(inbox) \in Nat /\ InCap \in Nat
      BY <2>1, LenProperties, DepthAssumption
    <3>2. InCap - Len(inbox) \in Nat /\ Len(inbox) + (InCap - Len(inbox)) = InCap
      BY <2>1, <3>1
    <3> QED
      BY <3>2 DEF Room
  <2>3. PICK all \in Seq(InMsg) : all = kept \o hwin
    BY <2>1, ConcatProperties
  <2>4. IF Len(all) > room
        THEN /\ inbox' = inbox \o SubSeq(all, 1, room)
             /\ kept' = <<all[room + 1]>>
             /\ hwin' = SubSeq(all, room + 2, Len(all))
        ELSE inbox' = inbox \o all /\ kept' = <<>> /\ hwin' = <<>>
    BY <1>2, <2>2, <2>3 DEF Dsr, RxInterrupt, Full, Keep, Arrived
  <2>5. CASE Len(all) > room
    <3>1. room < Len(kept \o hwin)
      BY <2>3, <2>5, LenProperties
    <3>2. /\ inbox' \in Seq(InMsg) /\ Len(inbox') = Len(inbox) + room
          /\ kept' \in Seq(InMsg) /\ Len(kept') = 1
          /\ hwin' \in Seq(InMsg) /\ Len(hwin') <= Len(hwin)
          /\ Rx' = Rx
      <4>1. Distributed(InMsg, inbox, kept, hwin, room)
        BY <2>1, <3>1, Distribute
      <4> QED
        BY <2>3, <2>4, <2>5, <4>1, Zenon DEF Distributed, Rx
    <3>3. Len(hwin') <= HwCap
      BY <2>1, <3>2, LenProperties, DepthAssumption
    <3>4. RxInv'
      BY <2>1, <2>2, <3>2, <3>3, DepthAssumption DEF RxInv
    <3> QED
      BY <3>2, <3>4 DEF ReceiveStep
  <2>6. CASE ~ Len(all) > room
    <3>1. PICK full \in Seq(InMsg) : full = inbox \o all /\ Len(full) = Len(inbox) + Len(all)
      BY <2>1, ConcatProperties
    <3>2. Len(full) <= InCap
      <4>1. Len(inbox) \in Nat /\ Len(all) \in Nat /\ Len(all) <= room
        BY <2>1, <2>6, LenProperties
      <4> QED
        BY <2>2, <3>1, <4>1
    <3>3. inbox' = full /\ kept' = <<>> /\ hwin' = <<>>
      BY <2>4, <2>6, <3>1
    <3>4. Rx' = Rx
      <4>1. (full \o <<>>) \o <<>> = full
        BY ConcatEmptySeq
      <4>2. full = (inbox \o kept) \o hwin
        BY <2>1, <2>3, <3>1, Regroup
      <4> QED
        BY <3>3, <4>1, <4>2, Zenon DEF Rx
    <3>5. RxInv'
      BY <2>1, <3>2, <3>3, <3>4, Empty, DepthAssumption DEF RxInv
    <3> QED
      BY <3>4, <3>5 DEF ReceiveStep
  <2> QED
    BY <2>5, <2>6
<1> QED
  BY <1>1, <1>2

-----------------------------------------------------------------------------
LEMMA InitIInv == Init => IInv
<1> SUFFICES ASSUME Init PROVE IInv
  OBVIOUS
<1>1. TxInv
  BY Empty, DepthAssumption DEF Init, TxInv
<1>2. RxInv
  <2>1. Rx = <<>>
    BY Empty, ConcatEmptySeq DEF Init, Rx
  <2> QED
    BY <2>1, Empty, DepthAssumption DEF Init, RxInv
<1>3. RegInv
  BY DEF Init, RegInv
<1> QED
  BY <1>1, <1>2, <1>3 DEF IInv

(* What every step keeps and does. *)
LEMMA NextKept ==
    IInv /\ [Next]_vars => IInv' /\ SendStep /\ ReceiveStep
<1> SUFFICES ASSUME IInv, [Next]_vars PROVE IInv' /\ SendStep /\ ReceiveStep
  OBVIOUS
<1>1. TxInv /\ RxInv /\ RegInv
  BY DEF IInv
<1>2. TxInv' /\ SendStep
  <2>1. CASE GetStep \/ \E m \in InMsg : Cpu2Put(m)
    BY <1>1, <2>1, OthersSend DEF GetStep, Get, TestFull, ClearFull, GetEnable, Cpu2Put
  <2>2. CASE UNCHANGED vars
    BY <1>1, <2>2, OthersSend DEF vars
  <2> QED
    BY <1>1, <2>1, <2>2, PutSends, PutAgainSends, PutDirectSends, PutSoftSends,
       WorkTakeSends, WorkWriteSends, Cpu2GetSends, OthersSend
       DEF Next, PutStep, WorkStep
<1>3. RxInv' /\ ReceiveStep
  <2>1. CASE \/ PutStep \/ \E m \in OutMsg : Put(m)
             \/ WorkStep \/ Cpu2Get
    <3>1. UNCHANGED <<inbox, kept, hwin>>
      BY <2>1 DEF PutStep, Put, PutAgain, Test, PutDirect, PutSoft, QueueWork, Notify,
         NoteRunning, WorkStep, TakeWork, WorkWait, WorkTake, WorkWrite, WorkEnable,
         Cpu2Get, rx
    <3> QED
      BY <1>1, <3>1, RxSame
  <2>2. CASE TestFull \/ ClearFull \/ GetEnable
    BY <1>1, <2>2, RxSame DEF TestFull, ClearFull, GetEnable
  <2>3. CASE UNCHANGED vars
    BY <1>1, <2>3, RxSame DEF vars, rx
  <2> QED
    BY <1>1, <2>1, <2>2, <2>3, GetReceives, Cpu2PutReceives, DsrReceives
       DEF Next, GetStep
<1>4. RegInv'
  <2>1. CASE WorkEnable \/ GetEnable
    BY <1>1, <2>1 DEF RegInv, WorkEnable, GetEnable, ReadMask, WriteMask
  <2>2. CASE Dsr
    BY <1>1, <2>2 DEF RegInv, Dsr
  <2>3. CASE UNCHANGED reg
    BY <1>1, <2>3 DEF RegInv, reg
  <2>4. WorkEnable \/ GetEnable \/ Dsr \/ UNCHANGED reg
    BY DEF Next, vars, PutStep, Put, PutAgain, Test, PutDirect, PutSoft, QueueWork, Notify,
       NoteRunning, WorkStep, TakeWork, WorkWait, WorkTake, WorkWrite,
       Cpu2Get, Cpu2Put, GetStep, Get, TestFull, ClearFull
  <2> QED
    BY <2>1, <2>2, <2>3, <2>4
<1> QED
  BY <1>2, <1>3, <1>4 DEF IInv

(* IInv is inductive. *)
THEOREM Invariance == Spec => []IInv
  BY InitIInv, NextKept, PTL DEF Spec

(* For any depths and any messages: no FIFO overflows, no message is in    *)
(* two places (p4a_mbox.c, mf_thread.c).                                   *)
THEOREM TypeCorrect == Spec => []TypeOK
  BY TypeOKFollows, Invariance, PTL

(* From the put of a message until CPU2 takes it the sending side is a     *)
(* FIFO queue, for any depths: only the one message the work thread holds  *)
(* is overtaken, and only a message whose thread found room in the         *)
(* hardware that the other has used since is lost (mf_mbox_msg_put,        *)
(* p4a_mbox_tx_work).                                                      *)
THEOREM SendingInOrder == Spec => SendsInOrder
<1>1. IInv /\ [Next]_vars =>
        [ \/ Tx' = Tx
          \/ hwout # <<>> /\ hwout' = Tail(hwout) /\ Tx' = Tail(Tx)
          \/ ppc = "idle" /\ \E m \in OutMsg : Tx' = Append(Tx, m)
          \/ Overtaken \/ PutLost \/ WorkLost ]_vars
  BY NextKept DEF SendStep
<1> QED
  BY <1>1, Invariance, PTL DEF Spec, SendsInOrder

(* The receiving side implements the FIFO queue: its initial states are    *)
(* initial states of FifoQueue, its steps are steps of it or leave the     *)
(* queue alone (__mbox_rx_interrupt, mf_mbox_msg_get).                     *)
THEOREM ReceivingImplementsQueue == Spec => ReceivesInOrder
<1>1. Init => Q!Init
  <2> SUFFICES ASSUME Init PROVE Q!Init
    OBVIOUS
  <2>1. Rx = <<>>
    BY Empty, ConcatEmptySeq DEF Init, Rx
  <2> QED
    BY <2>1, EmptyList DEF Q!Init
<1>2. IInv /\ [Next]_vars => [Q!Next]_(Q!vars)
  <2> SUFFICES ASSUME IInv, ReceiveStep, IInv' PROVE [Q!Next]_(Q!vars)
    BY NextKept
  <2>1. Rx \in Seq(InMsg) /\ IsInjective(Rx)
    <3>1. inbox \o kept \in Seq(InMsg)
      BY ConcatProperties DEF IInv, RxInv
    <3> QED
      BY <3>1, ConcatProperties DEF IInv, RxInv, Rx
  <2>2. CASE Rx' = Rx
    BY <2>2 DEF Q!vars
  <2>3. CASE Rx # <<>> /\ Rx' = Tail(Rx)
    <3>1. Range(Tail(Rx)) = Range(Rx) \ {Head(Rx)} /\ Head(Rx) \in InMsg
      BY <2>1, <2>3, ListDelFirst
    <3>2. InMsg \ Range(Rx') = (InMsg \ Range(Rx)) \cup {Head(Rx)}
      BY <2>3, <3>1
    <3> QED
      BY <2>3, <3>2 DEF Q!Next, Q!Take
  <2>4. CASE \E m \in InMsg : m \notin Range(Rx) /\ Rx' = Append(Rx, m)
    <3>1. PICK m \in InMsg : m \notin Range(Rx) /\ Rx' = Append(Rx, m)
      BY <2>4
    <3>2. Range(Append(Rx, m)) = Range(Rx) \cup {m}
      BY <2>1, ListAddTail
    <3>3. InMsg \ Range(Rx') = (InMsg \ Range(Rx)) \ {m}
      BY <3>1, <3>2
    <3> QED
      BY <3>1, <3>3 DEF Q!Next, Q!Put
  <2> QED
    BY <2>2, <2>3, <2>4 DEF ReceiveStep
<1> QED
  BY <1>1, <1>2, Invariance, PTL DEF Spec, ReceivesInOrder, Q!Spec

=============================================================================
