----------------------------- MODULE ListLemmas -----------------------------
(***************************************************************************)
(* What the operations on doubly linked lists (list_add, list_add_tail,    *)
(* list_del of the kernel's list.h), modelled as sequences, do to the set   *)
(* of linked elements, and that they link no element twice; what is left   *)
(* of a list, lists one behind the other, and how often an element is      *)
(* linked; and when pointers form a list (module PointerList).             *)
(***************************************************************************)
EXTENDS Sequences, Integers, Functions, PointerList, FiniteSetTheorems,
        SequenceTheorems, WellFoundedInduction, TLAPS

(* An empty list links nothing. *)
LEMMA EmptyList ==
    /\ Range(<<>>) = {} /\ IsInjective(<<>>)
    /\ \A S : \A s \in Seq(S) : s # <<>> <=> Len(s) > 0
  BY DEF Range, IsInjective

(* list_add_tail links one more block. *)
LEMMA ListAddTail ==
    ASSUME NEW S, NEW s \in Seq(S), NEW e \in S
    PROVE  /\ Append(s, e) \in Seq(S)
           /\ Append(s, e) # <<>>
           /\ Range(Append(s, e)) = Range(s) \cup {e}
           /\ IsInjective(s) /\ e \notin Range(s) => IsInjective(Append(s, e))
  <1>1. /\ Append(s, e) \in Seq(S)
        /\ Append(s, e) # <<>>
        /\ DOMAIN Append(s, e) = 1 .. Len(s) + 1
        /\ DOMAIN s = 1 .. Len(s) /\ Len(s) \in Nat
        /\ \A i \in 1 .. Len(s) : Append(s, e)[i] = s[i]
        /\ Append(s, e)[Len(s) + 1] = e
    BY AppendProperties, LenProperties
  <1>2. Range(Append(s, e)) = Range(s) \cup {e}
    <2>1. \A i \in 1 .. Len(s) + 1 : i \in 1 .. Len(s) \/ i = Len(s) + 1
      BY <1>1
    <2>2. ASSUME NEW x PROVE x \in Range(Append(s, e)) <=> x \in Range(s) \cup {e}
      BY <1>1, <2>1 DEF Range
    <2> QED BY <2>2
  <1>3. ASSUME IsInjective(s), e \notin Range(s)
        PROVE  IsInjective(Append(s, e))
    BY <1>1, <1>3 DEF IsInjective, Range
  <1> QED BY <1>1, <1>2, <1>3

(* list_add links one more block, in front. *)
LEMMA ListAdd ==
    ASSUME NEW S, NEW s \in Seq(S), NEW e \in S
    PROVE  /\ <<e>> \o s \in Seq(S)
           /\ <<e>> \o s # <<>>
           /\ Range(<<e>> \o s) = Range(s) \cup {e}
           /\ IsInjective(s) /\ e \notin Range(s) => IsInjective(<<e>> \o s)
  <1> DEFINE t == <<e>> \o s
  <1>0. <<e>> \in Seq(S) /\ Len(<<e>>) = 1 /\ <<e>>[1] = e
    OBVIOUS
  <1>1. /\ t \in Seq(S)
        /\ Len(t) = Len(s) + 1
        /\ DOMAIN t = 1 .. Len(s) + 1
        /\ DOMAIN s = 1 .. Len(s) /\ Len(s) \in Nat
        /\ \A i \in 1 .. Len(s) + 1 : t[i] = IF i = 1 THEN e ELSE s[i - 1]
    <2>1. /\ t \in Seq(S) /\ Len(t) = Len(s) + 1
          /\ \A i \in 1 .. 1 + Len(s) : t[i] = IF i <= 1 THEN <<e>>[i] ELSE s[i - 1]
      BY <1>0, ConcatProperties
    <2> QED BY <1>0, <2>1, LenProperties
  <1> HIDE DEF t
  <1>2. Range(t) = Range(s) \cup {e}
    <2>1. \A i \in 1 .. Len(s) : i + 1 \in 1 .. Len(s) + 1 /\ t[i + 1] = s[i]
      BY <1>1
    <2>2. t[1] = e /\ 1 \in 1 .. Len(s) + 1
      BY <1>1
    <2>3. \A i \in 1 .. Len(s) + 1 : i = 1 \/ (i - 1 \in 1 .. Len(s) /\ t[i] = s[i - 1])
      BY <1>1
    <2>4. ASSUME NEW x PROVE x \in Range(t) <=> x \in Range(s) \cup {e}
      BY <1>1, <2>1, <2>2, <2>3 DEF Range
    <2> QED BY <2>4
  <1>3. ASSUME IsInjective(s), e \notin Range(s)
        PROVE  IsInjective(t)
    <2>1. \A i \in 2 .. Len(s) + 1 : i - 1 \in 1 .. Len(s) /\ t[i] = s[i - 1]
      BY <1>1
    <2>2. \A i \in 2 .. Len(s) + 1 : t[i] # e
      BY <1>1, <1>3, <2>1 DEF Range
    <2>3. \A i, j \in 2 .. Len(s) + 1 : t[i] = t[j] => i = j
      <3>1. SUFFICES ASSUME NEW i \in 2 .. Len(s) + 1, NEW j \in 2 .. Len(s) + 1,
                            s[i - 1] = s[j - 1]
                     PROVE  i = j
        BY <2>1
      <3>2. i - 1 = j - 1
        BY <1>1, <1>3, <2>1, <3>1 DEF IsInjective
      <3> QED BY <1>1, <3>2
    <2>4. t[1] = e /\ \A i \in DOMAIN t : i = 1 \/ i \in 2 .. Len(s) + 1
      BY <1>1
    <2> QED BY <2>2, <2>3, <2>4 DEF IsInjective
  <1>4. t # <<>>
    BY <1>1
  <1> QED BY <1>1, <1>2, <1>3, <1>4 DEF t

(* Taking the first block off a list unlinks that block. *)
LEMMA ListDelFirst ==
    ASSUME NEW S, NEW s \in Seq(S), s # <<>>, IsInjective(s)
    PROVE  /\ Head(s) \in S /\ Head(s) \in Range(s)
           /\ Tail(s) \in Seq(S)
           /\ Len(Tail(s)) = Len(s) - 1
           /\ Range(Tail(s)) = Range(s) \ {Head(s)}
           /\ IsInjective(Tail(s))
  <1>1. /\ Head(s) \in S /\ Head(s) = s[1] /\ 1 \in 1 .. Len(s)
        /\ Tail(s) \in Seq(S)
        /\ Len(Tail(s)) = Len(s) - 1
        /\ DOMAIN Tail(s) = 1 .. Len(s) - 1
        /\ DOMAIN s = 1 .. Len(s) /\ Len(s) \in Nat /\ Len(s) > 0
        /\ \A i \in 1 .. Len(s) - 1 : Tail(s)[i] = s[i + 1]
    BY HeadTailProperties, LenProperties, EmptyList
  <1>2. Range(Tail(s)) = Range(s) \ {Head(s)}
    <2>1. \A i \in 1 .. Len(s) - 1 : i + 1 \in 1 .. Len(s) /\ i + 1 # 1
      BY <1>1
    <2>2. \A i \in 1 .. Len(s) : i = 1 \/ (i - 1 \in 1 .. Len(s) - 1 /\ Tail(s)[i - 1] = s[i])
      BY <1>1
    <2>3. ASSUME NEW x, x \in Range(Tail(s)) PROVE x \in Range(s) \ {Head(s)}
      <3>1. PICK i \in 1 .. Len(s) - 1 : x = s[i + 1]
        BY <1>1, <2>3 DEF Range
      <3>2. s[i + 1] # s[1]
        BY <1>1, <2>1 DEF IsInjective
      <3> QED BY <1>1, <2>1, <3>1, <3>2 DEF Range
    <2>4. ASSUME NEW x, x \in Range(s) \ {Head(s)} PROVE x \in Range(Tail(s))
      <3>1. PICK i \in 1 .. Len(s) : x = s[i] /\ i # 1
        BY <1>1, <2>4 DEF Range
      <3> QED BY <1>1, <2>2, <3>1 DEF Range
    <2> QED BY <2>3, <2>4
  <1>3. IsInjective(Tail(s))
    BY <1>1 DEF IsInjective
  <1>4. Head(s) \in Range(s)
    BY <1>1 DEF Range
  <1> QED BY <1>1, <1>2, <1>3, <1>4

(* A list that links n elements one behind the other, none of them twice,  *)
(* where there are n: it links all of them.                                *)
LEMMA ListEnumeration ==
    ASSUME NEW S, IsFiniteSet(S)
    PROVE  LET s == CHOOSE f \in [1 .. Cardinality(S) -> S] : IsInjective(f)
           IN  s \in Seq(S) /\ IsInjective(s) /\ Range(s) = S
  <1> DEFINE n == Cardinality(S)
             s == CHOOSE f \in [1 .. n -> S] : IsInjective(f)
  <1>1. n \in Nat /\ \E f \in [1 .. n -> S] : IsInjective(f)
    BY FS_CardinalityType DEF ExistsBijection, Bijection, Injection
  <1>2. s \in [1 .. n -> S] /\ IsInjective(s)
    BY <1>1
  <1>3. IsFiniteSet(1 .. n) /\ Cardinality(1 .. n) = n
    BY <1>1, FS_Interval
  <1> HIDE DEF s
  <1>4. s \in Surjection(1 .. n, S)
    <2>1. s \in Injection(1 .. n, S)
      BY <1>2 DEF Injection
    <2> QED BY <1>3, <2>1, FS_Injection
  <1>5. Range(s) = S
    BY <1>2, <1>4 DEF Surjection, Range
  <1>6. s \in Seq(S)
    BY <1>1, <1>2, SeqDef
  <1> QED BY <1>2, <1>5, <1>6 DEF s

-----------------------------------------------------------------------------
(* What is left of a list when elements are taken out anywhere: t has      *)
(* elements of s, in the order of s.                                       *)
Within(t, s) ==
    \E f \in [DOMAIN t -> DOMAIN s] :
        /\ \A i, j \in DOMAIN t : i < j => f[i] < f[j]
        /\ \A i \in DOMAIN t : t[i] = s[f[i]]

(* A list is left of itself. *)
LEMMA WithinRefl ==
    ASSUME NEW S, NEW s \in Seq(S)
    PROVE  Within(s, s)
  <1>1. DOMAIN s \subseteq Nat
    BY LenProperties
  <1> DEFINE f == [i \in DOMAIN s |-> i]
  <1>2. f \in [DOMAIN s -> DOMAIN s]
    OBVIOUS
  <1>3. /\ \A i, j \in DOMAIN s : i < j => f[i] < f[j]
        /\ \A i \in DOMAIN s : s[i] = s[f[i]]
    OBVIOUS
  <1> QED BY <1>2, <1>3 DEF Within

(* The elements between two places are left of a list. *)
LEMMA WithinPart ==
    ASSUME NEW S, NEW s \in Seq(S), NEW m \in Nat \ {0}, NEW n \in 0 .. Len(s)
    PROVE  SubSeq(s, m, n) \in Seq(S) /\ Within(SubSeq(s, m, n), s)
  <1> DEFINE t == SubSeq(s, m, n)
  <1>1. Len(s) \in Nat /\ DOMAIN s = 1 .. Len(s) /\ \A i \in m .. n : s[i] \in S
    BY LenProperties, ElementOfSeq
  <1>2. /\ t \in Seq(S)
        /\ Len(t) = IF m <= n THEN n - m + 1 ELSE 0
        /\ \A i \in 1 .. n - m + 1 : t[i] = s[m + i - 1]
    BY <1>1, SubSeqProperties
  <1>3. DOMAIN t = 1 .. Len(t)
    BY <1>2, LenProperties
  <1> HIDE DEF t
  <1> DEFINE f == [i \in DOMAIN t |-> m + i - 1]
  <1>4. f \in [DOMAIN t -> DOMAIN s]
    BY <1>1, <1>2, <1>3
  <1>5. \A i \in DOMAIN t : f[i] = m + i - 1 /\ i \in 1 .. n - m + 1
    BY <1>2, <1>3
  <1>6. /\ \A i, j \in DOMAIN t : i < j => f[i] < f[j]
        /\ \A i \in DOMAIN t : t[i] = s[f[i]]
    BY <1>2, <1>3, <1>5
  <1> QED BY <1>2, <1>4, <1>6 DEF Within, t

(* Nothing, the list without its first element, and the list before an     *)
(* element was appended are left of a list.                                *)
LEMMA WithinEnds ==
    ASSUME NEW S, NEW s \in Seq(S), NEW e \in S
    PROVE  /\ Within(<<>>, s)
           /\ s # <<>> => Within(Tail(s), s)
           /\ Within(s, Append(s, e))
  <1>1. Within(<<>>, s)
    <2>1. SubSeq(s, 1, 0) = <<>>
      BY SubSeqEmpty
    <2>2. 0 \in 0 .. Len(s) /\ 1 \in Nat \ {0}
      BY LenProperties
    <2> QED BY <2>1, <2>2, WithinPart
  <1>2. ASSUME s # <<>> PROVE Within(Tail(s), s)
    <2>1. Tail(s) = SubSeq(s, 2, Len(s))
      BY <1>2, TailIsSubSeq
    <2>2. Len(s) \in 0 .. Len(s) /\ 2 \in Nat \ {0}
      BY LenProperties
    <2> QED BY <2>1, <2>2, WithinPart
  <1>3. Within(s, Append(s, e))
    <2> PICK t : t = Append(s, e)
      OBVIOUS
    <2>1. /\ t \in Seq(S) /\ Len(t) = Len(s) + 1 /\ Len(s) \in Nat
          /\ \A i \in 1 .. Len(s) : t[i] = s[i] /\ t[i] \in S
      BY AppendProperties, LenProperties, ElementOfSeq
    <2>2. SubSeq(t, 1, Len(s)) = s
      <3>1. /\ SubSeq(t, 1, Len(s)) \in Seq(S)
            /\ Len(SubSeq(t, 1, Len(s))) = Len(s)
            /\ \A i \in 1 .. Len(s) : SubSeq(t, 1, Len(s))[i] = t[i]
        BY <2>1, SubSeqProperties
      <3> QED BY <2>1, <3>1, SeqEqual
    <2>3. Len(s) \in 0 .. Len(t) /\ 1 \in Nat \ {0}
      BY <2>1
    <2> QED BY <2>1, <2>2, <2>3, WithinPart
  <1> QED BY <1>1, <1>2, <1>3

(* What is left of two lists, one behind the other. *)
LEMMA WithinConcat ==
    ASSUME NEW S, NEW s1 \in Seq(S), NEW s2 \in Seq(S),
           NEW t1 \in Seq(S), NEW t2 \in Seq(S),
           Within(t1, s1), Within(t2, s2)
    PROVE  Within(t1 \o t2, s1 \o s2)
  <1> DEFINE s == s1 \o s2
             t == t1 \o t2
  <1>1. /\ DOMAIN s1 = 1 .. Len(s1) /\ Len(s1) \in Nat
        /\ DOMAIN s2 = 1 .. Len(s2) /\ Len(s2) \in Nat
        /\ DOMAIN t1 = 1 .. Len(t1) /\ Len(t1) \in Nat
        /\ DOMAIN t2 = 1 .. Len(t2) /\ Len(t2) \in Nat
    BY LenProperties
  <1>2. /\ s \in Seq(S) /\ Len(s) = Len(s1) + Len(s2)
        /\ \A i \in 1 .. Len(s1) + Len(s2) :
              s[i] = IF i <= Len(s1) THEN s1[i] ELSE s2[i - Len(s1)]
        /\ t \in Seq(S) /\ Len(t) = Len(t1) + Len(t2)
        /\ \A i \in 1 .. Len(t1) + Len(t2) :
              t[i] = IF i <= Len(t1) THEN t1[i] ELSE t2[i - Len(t1)]
    BY ConcatProperties
  <1>3. DOMAIN s = 1 .. Len(s1) + Len(s2) /\ DOMAIN t = 1 .. Len(t1) + Len(t2)
    BY <1>2, LenProperties
  <1> HIDE DEF s, t
  <1>4. PICK f1 \in [1 .. Len(t1) -> 1 .. Len(s1)] :
           /\ \A i, j \in 1 .. Len(t1) : i < j => f1[i] < f1[j]
           /\ \A i \in 1 .. Len(t1) : t1[i] = s1[f1[i]]
    BY <1>1 DEF Within
  <1>5. PICK f2 \in [1 .. Len(t2) -> 1 .. Len(s2)] :
           /\ \A i, j \in 1 .. Len(t2) : i < j => f2[i] < f2[j]
           /\ \A i \in 1 .. Len(t2) : t2[i] = s2[f2[i]]
    BY <1>1 DEF Within
  <1> DEFINE f == [i \in DOMAIN t |->
                     IF i <= Len(t1) THEN f1[i] ELSE Len(s1) + f2[i - Len(t1)]]
  <1>6. \A i \in DOMAIN t :
           \/ i \in 1 .. Len(t1) /\ f[i] = f1[i] /\ f1[i] \in 1 .. Len(s1)
           \/ /\ i > Len(t1) /\ i - Len(t1) \in 1 .. Len(t2)
              /\ f[i] = Len(s1) + f2[i - Len(t1)]
              /\ f2[i - Len(t1)] \in 1 .. Len(s2)
    BY <1>1, <1>3
  <1>7. \A i \in DOMAIN t : f[i] \in DOMAIN s
    BY <1>1, <1>3, <1>6
  <1>8. f \in [DOMAIN t -> DOMAIN s]
    BY <1>7
  <1> HIDE DEF f
  <1>9. ASSUME NEW i \in DOMAIN t, NEW j \in DOMAIN t, i < j
        PROVE  f[i] < f[j]
    <2>0. /\ i \in 1 .. Len(t1) + Len(t2) /\ j \in 1 .. Len(t1) + Len(t2)
          /\ i \in Nat /\ j \in Nat
      BY <1>1, <1>3
    <2>1. CASE j <= Len(t1)
      <3>1. i \in 1 .. Len(t1) /\ j \in 1 .. Len(t1)
        BY <1>1, <1>9, <2>0, <2>1
      <3>2. ~ i > Len(t1) /\ ~ j > Len(t1)
        BY <1>1, <3>1
      <3>3. f[i] = f1[i]
        BY <1>6, <3>2
      <3>4. f[j] = f1[j]
        BY <1>6, <3>2
      <3> QED BY <1>4, <1>9, <3>1, <3>3, <3>4
    <2>2. CASE i <= Len(t1) /\ j > Len(t1)
      <3>1. f[i] = f1[i] /\ f1[i] \in 1 .. Len(s1)
        BY <1>1, <1>6, <2>0, <2>2
      <3>2. f[j] = Len(s1) + f2[j - Len(t1)] /\ f2[j - Len(t1)] \in 1 .. Len(s2)
        BY <1>1, <1>6, <2>0, <2>2
      <3> QED BY <1>1, <3>1, <3>2
    <2>3. CASE i > Len(t1)
      <3>1. /\ i - Len(t1) \in 1 .. Len(t2) /\ j - Len(t1) \in 1 .. Len(t2)
            /\ i - Len(t1) < j - Len(t1)
        BY <1>1, <1>9, <2>0, <2>3
      <3>2. f2[i - Len(t1)] < f2[j - Len(t1)]
        BY <1>5, <3>1
      <3>3. /\ f[i] = Len(s1) + f2[i - Len(t1)] /\ f2[i - Len(t1)] \in 1 .. Len(s2)
            /\ f[j] = Len(s1) + f2[j - Len(t1)] /\ f2[j - Len(t1)] \in 1 .. Len(s2)
        BY <1>1, <1>6, <1>9, <2>0, <2>3
      <3> QED BY <1>1, <3>2, <3>3
    <2> QED BY <1>1, <2>0, <2>1, <2>2, <2>3
  <1>10. ASSUME NEW i \in DOMAIN t
         PROVE  t[i] = s[f[i]]
    <2>1. CASE i \in 1 .. Len(t1) /\ f[i] = f1[i] /\ f1[i] \in 1 .. Len(s1)
      BY <1>1, <1>2, <1>3, <1>4, <2>1
    <2>2. CASE /\ i > Len(t1) /\ i - Len(t1) \in 1 .. Len(t2)
               /\ f[i] = Len(s1) + f2[i - Len(t1)]
               /\ f2[i - Len(t1)] \in 1 .. Len(s2)
      <3>1. t[i] = t2[i - Len(t1)]
        BY <1>1, <1>2, <1>3, <2>2
      <3>2. t2[i - Len(t1)] = s2[f2[i - Len(t1)]]
        BY <1>5, <2>2
      <3>3. /\ f[i] \in 1 .. Len(s1) + Len(s2) /\ ~ f[i] <= Len(s1)
            /\ f[i] - Len(s1) = f2[i - Len(t1)]
        BY <1>1, <2>2
      <3> QED BY <1>2, <3>1, <3>2, <3>3
    <2> QED BY <1>6, <2>1, <2>2
  <1> QED BY <1>8, <1>9, <1>10 DEF Within, s, t

(* No element is there twice that was not before. *)
LEMMA WithinInjective ==
    ASSUME NEW S, NEW s \in Seq(S), NEW t \in Seq(S), Within(t, s)
    PROVE  /\ Range(t) \subseteq Range(s)
           /\ IsInjective(s) => IsInjective(t)
  <1>1. PICK f \in [DOMAIN t -> DOMAIN s] :
           /\ \A i, j \in DOMAIN t : i < j => f[i] < f[j]
           /\ \A i \in DOMAIN t : t[i] = s[f[i]]
    BY DEF Within
  <1>2. Range(t) \subseteq Range(s)
    BY <1>1 DEF Range
  <1>3. ASSUME IsInjective(s), NEW i \in DOMAIN t, NEW j \in DOMAIN t, t[i] = t[j]
        PROVE  i = j
    <2>1. f[i] = f[j]
      BY <1>1, <1>3 DEF IsInjective
    <2>2. i \in Nat /\ j \in Nat /\ f[i] \in Nat /\ f[j] \in Nat
      BY <1>1, LenProperties
    <2>3. ~ (i < j) /\ ~ (j < i)
      BY <1>1, <2>1, <2>2
    <2> QED BY <2>2, <2>3
  <1> QED BY <1>2, <1>3 DEF IsInjective

(* An element put between two others of a list is one more. *)
LEMMA ListInsert ==
    ASSUME NEW S, NEW s \in Seq(S), NEW t \in Seq(S), NEW e \in S
    PROVE  /\ (s \o <<e>>) \o t \in Seq(S)
           /\ Range((s \o <<e>>) \o t) = Range(s \o t) \cup {e}
           /\ IsInjective(s \o t) /\ e \notin Range(s \o t)
                => IsInjective((s \o <<e>>) \o t)
  <1> DEFINE u == s \o t
             v == (s \o <<e>>) \o t
  <1>1. <<e>> \in Seq(S) /\ Len(<<e>>) = 1 /\ <<e>>[1] = e /\ Range(<<e>>) = {e}
    BY DEF Range
  <1>2. /\ s \o <<e>> \in Seq(S) /\ Len(s \o <<e>>) = Len(s) + 1
        /\ \A i \in 1 .. Len(s) + 1 :
              (s \o <<e>>)[i] = IF i <= Len(s) THEN s[i] ELSE e
    <2>1. /\ s \o <<e>> \in Seq(S) /\ Len(s \o <<e>>) = Len(s) + 1
          /\ \A i \in 1 .. Len(s) + 1 :
                (s \o <<e>>)[i] = IF i <= Len(s) THEN s[i] ELSE <<e>>[i - Len(s)]
      BY <1>1, ConcatProperties
    <2>2. Len(s) \in Nat /\ \A i \in 1 .. Len(s) + 1 : i <= Len(s) \/ i - Len(s) = 1
      BY LenProperties
    <2> QED BY <1>1, <2>1, <2>2
  <1>3. /\ v \in Seq(S) /\ Len(v) = Len(s) + 1 + Len(t)
        /\ \A i \in 1 .. Len(s) + 1 + Len(t) : v[i] =
              IF i <= Len(s) + 1 THEN (s \o <<e>>)[i] ELSE t[i - (Len(s) + 1)]
    BY <1>2, ConcatProperties
  <1>4. /\ u \in Seq(S) /\ Len(u) = Len(s) + Len(t)
        /\ \A i \in 1 .. Len(s) + Len(t) :
              u[i] = IF i <= Len(s) THEN s[i] ELSE t[i - Len(s)]
    BY ConcatProperties
  <1>5. Range(v) = Range(u) \cup {e}
    <2>1. Range(s \o <<e>>) = Range(s) \cup {e}
      <3>1. Range(s \o <<e>>) = Range(s) \cup Range(<<e>>)
        BY <1>1, RangeConcatenation
      <3> QED BY <1>1, <3>1, Zenon
    <2>2. Range(v) = Range(s \o <<e>>) \cup Range(t)
      BY <1>2, RangeConcatenation
    <2>3. Range(u) = Range(s) \cup Range(t)
      BY RangeConcatenation
    <2> QED BY <2>1, <2>2, <2>3
  <1>6. /\ Len(s) \in Nat /\ Len(t) \in Nat
        /\ DOMAIN v = 1 .. Len(s) + 1 + Len(t) /\ DOMAIN u = 1 .. Len(s) + Len(t)
    BY <1>3, <1>4, LenProperties
  <1> HIDE DEF u, v
  <1> DEFINE g == [i \in DOMAIN v |-> IF i <= Len(s) THEN i ELSE i - 1]
  <1>7. ASSUME NEW i \in DOMAIN v, i # Len(s) + 1
        PROVE  g[i] \in DOMAIN u /\ v[i] = u[g[i]]
    <2>1. i \in 1 .. Len(s) + 1 + Len(t) /\ i \in Nat
      BY <1>6
    <2>2. CASE i <= Len(s)
      <3>1. i \in 1 .. Len(s) + 1 /\ i \in 1 .. Len(s) + Len(t)
        BY <1>6, <2>1, <2>2
      <3>2. v[i] = s[i] /\ u[i] = s[i]
        BY <1>2, <1>3, <1>4, <1>6, <2>1, <2>2, <3>1
      <3> QED BY <1>6, <2>2, <3>1, <3>2
    <2>3. CASE ~ i <= Len(s)
      <3>1. /\ i - 1 \in 1 .. Len(s) + Len(t) /\ ~ i <= Len(s) + 1
            /\ ~ i - 1 <= Len(s) /\ i - 1 - Len(s) = i - (Len(s) + 1)
        <4>1. Len(s) \in Nat /\ Len(t) \in Nat /\ i \in Nat /\ i <= Len(s) + 1 + Len(t)
          BY <1>6, <2>1
        <4>2. i > Len(s) + 1
          BY <1>7, <2>3, <4>1
        <4> QED BY <4>1, <4>2
      <3>2. v[i] = t[i - (Len(s) + 1)]
        BY <1>3, <2>1, <3>1
      <3>3. u[i - 1] = t[i - (Len(s) + 1)]
        BY <1>4, <3>1
      <3> QED BY <1>6, <2>3, <3>1, <3>2, <3>3
    <2> QED BY <2>2, <2>3
  <1>8. v[Len(s) + 1] = e
    BY <1>2, <1>3, <1>6
  <1>9. ASSUME IsInjective(u), e \notin Range(u),
               NEW i \in DOMAIN v, NEW j \in DOMAIN v, v[i] = v[j]
        PROVE  i = j
    <2>1. \A k \in DOMAIN u : u[k] # e
      BY <1>9 DEF Range
    <2>2. CASE i = Len(s) + 1 \/ j = Len(s) + 1
      BY <1>7, <1>8, <1>9, <2>1, <2>2
    <2>3. CASE i # Len(s) + 1 /\ j # Len(s) + 1
      <3>1. g[i] = g[j]
        BY <1>7, <1>9, <2>3 DEF IsInjective
      <3> QED BY <1>6, <2>3, <3>1
    <2> QED BY <2>2, <2>3
  <1> QED BY <1>3, <1>5, <1>9 DEF IsInjective, u, v

-----------------------------------------------------------------------------
(* Lists one behind the other. *)
LEMMA ConcatInjective ==
    ASSUME NEW S, NEW s \in Seq(S), NEW t \in Seq(S)
    PROVE  /\ s \o t \in Seq(S)
           /\ Range(s \o t) = Range(s) \cup Range(t)
           /\ IsInjective(s \o t) <=>
                 IsInjective(s) /\ IsInjective(t) /\ Range(s) \cap Range(t) = {}
  <1>0. PICK u : u = s \o t
    OBVIOUS
  <1>1. /\ u \in Seq(S) /\ Len(u) = Len(s) + Len(t)
        /\ \A i \in 1 .. Len(s) + Len(t) :
              u[i] = IF i <= Len(s) THEN s[i] ELSE t[i - Len(s)]
    BY <1>0, ConcatProperties
  <1>2. /\ Len(s) \in Nat /\ DOMAIN s = 1 .. Len(s)
        /\ Len(t) \in Nat /\ DOMAIN t = 1 .. Len(t)
        /\ DOMAIN u = 1 .. Len(s) + Len(t)
    BY <1>1, LenProperties
  <1>3. \A i \in DOMAIN s : i \in DOMAIN u /\ u[i] = s[i]
    BY <1>1, <1>2
  <1>4. \A j \in DOMAIN t : Len(s) + j \in DOMAIN u /\ u[Len(s) + j] = t[j]
    BY <1>1, <1>2
  <1>5. \A i \in DOMAIN u : \/ i \in DOMAIN s
                            \/ i - Len(s) \in DOMAIN t /\ i = Len(s) + (i - Len(s))
    BY <1>2
  <1>6. Range(u) = Range(s) \cup Range(t)
    BY <1>0, RangeConcatenation
  <1>7. ASSUME IsInjective(u)
        PROVE  IsInjective(s) /\ IsInjective(t) /\ Range(s) \cap Range(t) = {}
    <2>1. IsInjective(s)
      BY <1>3, <1>7 DEF IsInjective
    <2>2. IsInjective(t)
      <3>1. ASSUME NEW i \in DOMAIN t, NEW j \in DOMAIN t, t[i] = t[j] PROVE i = j
        <4>1. Len(s) + i = Len(s) + j
          BY <1>4, <1>7, <3>1 DEF IsInjective
        <4> QED BY <1>2, <4>1
      <3> QED BY <3>1 DEF IsInjective
    <2>3. ASSUME NEW i \in DOMAIN s, NEW j \in DOMAIN t, s[i] = t[j] PROVE FALSE
      <3>1. i = Len(s) + j
        BY <1>3, <1>4, <1>7, <2>3 DEF IsInjective
      <3> QED BY <1>2, <3>1
    <2> QED BY <2>1, <2>2, <2>3 DEF Range
  <1>8. ASSUME IsInjective(s), IsInjective(t), Range(s) \cap Range(t) = {},
               NEW i \in DOMAIN u, NEW j \in DOMAIN u, u[i] = u[j]
        PROVE  i = j
    <2>1. \A k \in DOMAIN s, l \in DOMAIN t : s[k] # t[l]
      BY <1>8 DEF Range
    <2>2. CASE i \in DOMAIN s /\ j \in DOMAIN s
      BY <1>3, <1>8, <2>2 DEF IsInjective
    <2>3. CASE i - Len(s) \in DOMAIN t /\ j - Len(s) \in DOMAIN t
      <3>1. t[i - Len(s)] = t[j - Len(s)]
        BY <1>4, <1>5, <1>8, <1>2, <2>3
      <3>2. i - Len(s) = j - Len(s)
        BY <1>8, <2>3, <3>1 DEF IsInjective
      <3> QED BY <1>2, <3>2
    <2>4. CASE i \in DOMAIN s /\ j - Len(s) \in DOMAIN t
      <3>1. u[i] = s[i] /\ u[j] = t[j - Len(s)]
        BY <1>2, <1>3, <1>4, <2>4
      <3> QED BY <1>8, <2>1, <2>4, <3>1
    <2>5. CASE i - Len(s) \in DOMAIN t /\ j \in DOMAIN s
      <3>1. u[j] = s[j] /\ u[i] = t[i - Len(s)]
        BY <1>2, <1>3, <1>4, <2>5
      <3> QED BY <1>8, <2>1, <2>5, <3>1
    <2> QED BY <1>5, <2>2, <2>3, <2>4, <2>5
  <1>9. IsInjective(u) <=>
          IsInjective(s) /\ IsInjective(t) /\ Range(s) \cap Range(t) = {}
    BY <1>7, <1>8 DEF IsInjective
  <1> QED BY <1>0, <1>1, <1>6, <1>9

(* The ends of two lists are those of the one in front, if it is not       *)
(* empty, and of the one behind.                                           *)
LEMMA ConcatEnds ==
    ASSUME NEW S, NEW s \in Seq(S), NEW t \in Seq(S)
    PROVE  /\ s # <<>> => /\ s \o t # <<>>
                         /\ Head(s \o t) = Head(s)
                         /\ Tail(s \o t) = Tail(s) \o t
           /\ \A e \in S : s \o Append(t, e) = Append(s \o t, e)
  <1>1. /\ Len(s) \in Nat /\ Len(t) \in Nat
        /\ s \o t \in Seq(S) /\ Len(s \o t) = Len(s) + Len(t)
        /\ \A i \in 1 .. Len(s) + Len(t) :
              (s \o t)[i] = IF i <= Len(s) THEN s[i] ELSE t[i - Len(s)]
    BY ConcatProperties, LenProperties
  <1>2. ASSUME s # <<>>
        PROVE  /\ s \o t # <<>> /\ Head(s \o t) = Head(s)
               /\ Tail(s \o t) = Tail(s) \o t
    <2>1. Len(s) > 0
      BY <1>2, EmptyList
    <2>2. s \o t # <<>>
      BY <1>1, <2>1, EmptyList
    <2>3. Head(s \o t) = Head(s)
      BY <1>1, <2>1
    <2>4. /\ Tail(s) \in Seq(S) /\ Len(Tail(s)) = Len(s) - 1
          /\ \A i \in 1 .. Len(s) - 1 : Tail(s)[i] = s[i + 1]
      BY <1>2, HeadTailProperties
    <2>5. /\ Tail(s \o t) \in Seq(S) /\ Len(Tail(s \o t)) = Len(s) + Len(t) - 1
          /\ \A i \in 1 .. Len(s) + Len(t) - 1 : Tail(s \o t)[i] = (s \o t)[i + 1]
      BY <1>1, <2>2, HeadTailProperties
    <2>6. /\ Tail(s) \o t \in Seq(S) /\ Len(Tail(s) \o t) = Len(s) - 1 + Len(t)
          /\ \A i \in 1 .. Len(s) - 1 + Len(t) : (Tail(s) \o t)[i] =
                IF i <= Len(s) - 1 THEN Tail(s)[i] ELSE t[i - (Len(s) - 1)]
      BY <2>4, ConcatProperties
    <2>7. ASSUME NEW i \in 1 .. Len(s) + Len(t) - 1
          PROVE  Tail(s \o t)[i] = (Tail(s) \o t)[i]
      <3>1. i \in Nat /\ i + 1 \in 1 .. Len(s) + Len(t) /\ i \in 1 .. Len(s) - 1 + Len(t)
        BY <1>1, <2>1
      <3>2. CASE i <= Len(s) - 1
        <4>1. i + 1 <= Len(s) /\ i \in 1 .. Len(s) - 1
          BY <1>1, <3>1, <3>2
        <4> QED BY <1>1, <2>4, <2>5, <2>6, <3>1, <3>2, <4>1
      <3>3. CASE ~ i <= Len(s) - 1
        <4>1. ~ i + 1 <= Len(s) /\ i + 1 - Len(s) = i - (Len(s) - 1)
          BY <1>1, <3>1, <3>3
        <4> QED BY <1>1, <2>5, <2>6, <3>1, <3>3, <4>1
      <3> QED BY <3>2, <3>3
    <2>8. Tail(s \o t) = Tail(s) \o t
      <3>1. Len(Tail(s \o t)) = Len(Tail(s) \o t)
        BY <1>1, <2>5, <2>6
      <3> QED BY <2>5, <2>6, <2>7, <3>1, SeqEqual
    <2> QED BY <2>2, <2>3, <2>8
  <1>3. ASSUME NEW e \in S PROVE s \o Append(t, e) = Append(s \o t, e)
    <2>0. <<e>> \in Seq(S)
      OBVIOUS
    <2>1. PICK d \in Seq(S) : d = <<e>>
      BY <2>0, Zenon
    <2>2. Append(t, e) = t \o d /\ Append(s \o t, e) = (s \o t) \o d
      BY <1>1, <2>1, AppendIsConcat
    <2> QED BY <2>1, <2>2, ConcatAssociative
  <1> QED BY <1>2, <1>3

(* An element between two lists may be put on either side. *)
LEMMA ConcatOne ==
    ASSUME NEW S, NEW s \in Seq(S), NEW t \in Seq(S), NEW e \in S
    PROVE  s \o (<<e>> \o t) = (s \o <<e>>) \o t
  <1>1. PICK d \in Seq(S) : d = <<e>>
    <2>1. <<e>> \in Seq(S)
      OBVIOUS
    <2> QED BY <2>1, Zenon
  <1>2. (s \o d) \o t = s \o (d \o t)
    BY ConcatAssociative
  <1> QED BY <1>1, <1>2, Zenon

(* A list is what is before one of its elements, the element, and what is  *)
(* behind it.                                                              *)
LEMMA SplitAt ==
    ASSUME NEW S, NEW s \in Seq(S), NEW k \in Nat, k < Len(s)
    PROVE  /\ SubSeq(s, 1, k) \in Seq(S) /\ Len(SubSeq(s, 1, k)) = k
           /\ s[k + 1] \in S
           /\ SubSeq(s, k + 2, Len(s)) \in Seq(S)
           /\ Len(SubSeq(s, k + 2, Len(s))) = Len(s) - k - 1
           /\ s = (SubSeq(s, 1, k) \o <<s[k + 1]>>) \o SubSeq(s, k + 2, Len(s))
  <1>0. \A a, b, d \in Seq(S) : (a \o d) \o b = a \o (d \o b)
    BY ConcatAssociative
  <1>1. Len(s) \in Nat /\ \A i \in 1 .. Len(s) : s[i] \in S
    BY LenProperties, ElementOfSeq
  <1>2. SubSeq(s, 1, k) \in Seq(S) /\ Len(SubSeq(s, 1, k)) = k
    <2>1. \A i \in 1 .. k : s[i] \in S
      BY <1>1
    <2>2. 1 \in Int /\ k \in Int
      OBVIOUS
    <2>3. /\ SubSeq(s, 1, k) \in Seq(S)
          /\ Len(SubSeq(s, 1, k)) = IF 1 <= k THEN k - 1 + 1 ELSE 0
      BY <2>1, <2>2, SubSeqProperties
    <2> QED BY <2>3
  <1>3. /\ SubSeq(s, k + 2, Len(s)) \in Seq(S)
        /\ Len(SubSeq(s, k + 2, Len(s))) = Len(s) - k - 1
    <2>1. \A i \in k + 2 .. Len(s) : s[i] \in S
      BY <1>1
    <2>2. k + 2 \in Int /\ Len(s) \in Int
      BY <1>1
    <2>3. /\ SubSeq(s, k + 2, Len(s)) \in Seq(S)
          /\ Len(SubSeq(s, k + 2, Len(s))) =
                IF k + 2 <= Len(s) THEN Len(s) - (k + 2) + 1 ELSE 0
      BY <2>1, <2>2, SubSeqProperties
    <2> QED BY <1>1, <2>3
  <1>4. s = SubSeq(s, 1, k) \o SubSeq(s, k + 1, Len(s))
    <2>1. 1 \in 1 .. Len(s) + 1 /\ k \in 1 - 1 .. Len(s) /\ Len(s) \in k .. Len(s)
      BY <1>1
    <2>2. SubSeq(s, 1, k) \o SubSeq(s, k + 1, Len(s)) = SubSeq(s, 1, Len(s))
      BY <2>1, ConcatAdjacentSubSeq
    <2> QED BY <2>2, SubSeqFull
  <1>5. /\ k + 1 \in 1 .. Len(s) /\ s[k + 1] \in S
        /\ SubSeq(s, k + 1, Len(s)) = <<s[k + 1]>> \o SubSeq(s, k + 2, Len(s))
    <2>1. k + 1 \in 1 .. Len(s) /\ Len(s) \in k + 1 .. Len(s) /\ k + 1 + 1 = k + 2
      BY <1>1
    <2> QED BY <1>1, <2>1, SubSeqRecursiveFirst
  <1>6. PICK x \in S : x = s[k + 1]
    BY <1>5
  <1>7. <<x>> \in Seq(S)
    OBVIOUS
  <1>8. s = (SubSeq(s, 1, k) \o <<x>>) \o SubSeq(s, k + 2, Len(s))
    <2>1. PICK a \in Seq(S), b \in Seq(S), d \in Seq(S) :
             /\ a = SubSeq(s, 1, k) /\ b = SubSeq(s, k + 2, Len(s)) /\ d = <<x>>
      BY <1>2, <1>3, <1>7, Zenon
    <2>2. s = a \o (d \o b)
      BY <1>4, <1>5, <1>6, <2>1, Zenon
    <2>3. (a \o d) \o b = a \o (d \o b)
      BY <1>0
    <2> QED BY <2>1, <2>2, <2>3, Zenon
  <1> QED BY <1>2, <1>3, <1>5, <1>6, <1>8

-----------------------------------------------------------------------------
(* How often an element is linked. *)
Places(s, e) == {i \in DOMAIN s : s[i] = e}

(* It is linked at finitely many places. *)
LEMMA PlacesFinite ==
    ASSUME NEW S, NEW s \in Seq(S), NEW e
    PROVE  IsFiniteSet(Places(s, e)) /\ Cardinality(Places(s, e)) \in Nat
  <1>1. DOMAIN s = 1 .. Len(s) /\ Len(s) \in Nat
    BY LenProperties
  <1>2. IsFiniteSet(1 .. Len(s))
    BY <1>1, FS_Interval
  <1>3. Places(s, e) \subseteq 1 .. Len(s)
    BY <1>1 DEF Places
  <1> QED BY <1>2, <1>3, FS_Subset, FS_CardinalityType

(* list_add_tail links one element once more. *)
LEMMA PlacesAppend ==
    ASSUME NEW S, NEW s \in Seq(S), NEW x \in S, NEW e
    PROVE  Cardinality(Places(Append(s, x), e)) =
              Cardinality(Places(s, e)) + (IF x = e THEN 1 ELSE 0)
  <1>0. PICK t : t = Append(s, x)
    OBVIOUS
  <1>1. /\ t \in Seq(S) /\ Len(t) = Len(s) + 1 /\ Len(s) \in Nat
        /\ \A i \in 1 .. Len(s) : t[i] = s[i]
        /\ t[Len(s) + 1] = x
    BY <1>0, AppendProperties, LenProperties
  <1>2. DOMAIN t = 1 .. Len(s) + 1 /\ DOMAIN s = 1 .. Len(s)
    BY <1>1, LenProperties
  <1>3. IsFiniteSet(Places(s, e)) /\ Cardinality(Places(s, e)) \in Nat
    BY PlacesFinite
  <1>4. Len(s) + 1 \notin Places(s, e)
    BY <1>1, <1>2 DEF Places
  <1>5. CASE x = e
    <2>1. Places(t, e) = Places(s, e) \cup {Len(s) + 1}
      BY <1>1, <1>2, <1>5 DEF Places
    <2> QED BY <1>0, <1>3, <1>4, <1>5, <2>1, FS_AddElement
  <1>6. CASE x # e
    <2>1. Places(t, e) = Places(s, e)
      BY <1>1, <1>2, <1>6 DEF Places
    <2> QED BY <1>0, <1>3, <1>6, <2>1
  <1> QED BY <1>5, <1>6

(* Taking the first one off a list links it once less. *)
LEMMA PlacesTail ==
    ASSUME NEW S, NEW s \in Seq(S), s # <<>>, NEW e
    PROVE  Cardinality(Places(Tail(s), e)) =
              Cardinality(Places(s, e)) - (IF Head(s) = e THEN 1 ELSE 0)
  <1>0. PICK t : t = Tail(s)
    OBVIOUS
  <1>1. /\ t \in Seq(S) /\ Len(t) = Len(s) - 1 /\ Len(s) \in Nat /\ Len(s) > 0
        /\ \A i \in 1 .. Len(s) - 1 : t[i] = s[i + 1]
        /\ Head(s) = s[1]
    BY <1>0, HeadTailProperties, LenProperties, EmptyList
  <1>2. DOMAIN t = 1 .. Len(s) - 1 /\ DOMAIN s = 1 .. Len(s)
    BY <1>1, LenProperties
  <1>3. IsFiniteSet(Places(s, e)) /\ Cardinality(Places(s, e)) \in Nat
    BY PlacesFinite
  <1> DEFINE behind == Places(s, e) \ {1}
             shift == [i \in behind |-> i - 1]
  <1>4. /\ IsFiniteSet(behind)
        /\ Cardinality(behind) = Cardinality(Places(s, e)) - (IF Head(s) = e THEN 1 ELSE 0)
    <2>1. 1 \in Places(s, e) <=> Head(s) = e
      BY <1>1, <1>2 DEF Places
    <2> QED BY <1>3, <2>1, FS_RemoveElement
  <1>5. shift \in Bijection(behind, Places(t, e))
    <2>1. ASSUME NEW i \in behind PROVE i - 1 \in Places(t, e) /\ i \in Nat
      BY <1>1, <1>2 DEF Places
    <2>2. shift \in [behind -> Places(t, e)]
      BY <2>1
    <2>3. IsInjective(shift)
      BY <2>1 DEF IsInjective
    <2>4. ASSUME NEW j \in Places(t, e) PROVE \E i \in behind : shift[i] = j
      <3>1. j \in 1 .. Len(s) - 1 /\ s[j + 1] = e
        BY <1>1, <1>2 DEF Places
      <3>2. j + 1 \in behind
        BY <1>1, <1>2, <3>1 DEF Places
      <3>3. shift[j + 1] = j
        BY <3>1, <3>2
      <3> QED BY <3>2, <3>3
    <2> QED BY <2>2, <2>3, <2>4 DEF Bijection, Injection, Surjection
  <1>6. Cardinality(Places(t, e)) = Cardinality(behind)
    <2>1. ExistsBijection(behind, Places(t, e))
      BY <1>5 DEF ExistsBijection
    <2> QED BY <1>4, <2>1, FS_Bijection
  <1> QED BY <1>0, <1>4, <1>6

(* Changing one value of a function: what held the old value holds it one *)
(* time less, the new one once more.                                       *)
LEMMA PlacesUpdate ==
    ASSUME NEW f, NEW g, NEW x \in DOMAIN f, IsFiniteSet(DOMAIN f),
           DOMAIN g = DOMAIN f, \A y \in DOMAIN f : y # x => g[y] = f[y],
           NEW e
    PROVE  /\ Cardinality(Places(f, e)) \in Nat
           /\ Cardinality(Places(g, e)) = Cardinality(Places(f, e))
                + (IF g[x] = e THEN 1 ELSE 0) - (IF f[x] = e THEN 1 ELSE 0)
  <1> DEFINE rest == Places(f, e) \ {x}
  <1>1. IsFiniteSet(Places(f, e)) /\ IsFiniteSet(rest)
    <2>1. Places(f, e) \subseteq DOMAIN f /\ rest \subseteq DOMAIN f
      BY DEF Places
    <2> QED BY <2>1, FS_Subset
  <1>2. Cardinality(Places(f, e)) \in Nat /\ Cardinality(rest) \in Nat
    BY <1>1, FS_CardinalityType
  <1>3. Cardinality(rest) = Cardinality(Places(f, e)) - (IF f[x] = e THEN 1 ELSE 0)
    <2>1. x \in Places(f, e) <=> f[x] = e
      BY DEF Places
    <2> QED BY <1>1, <1>2, <2>1, FS_RemoveElement
  <1>4. Cardinality(Places(g, e)) = Cardinality(rest) + (IF g[x] = e THEN 1 ELSE 0)
    <2>1. CASE g[x] = e
      <3>1. Places(g, e) = rest \cup {x} /\ x \notin rest
        BY <2>1 DEF Places
      <3> QED BY <1>1, <2>1, <3>1, FS_AddElement
    <2>2. CASE g[x] # e
      <3>1. Places(g, e) = rest
        BY <2>2 DEF Places
      <3> QED BY <1>2, <2>2, <3>1
    <2> QED BY <2>1, <2>2
  <1> HIDE DEF rest
  <1>5. PICK h \in {0, 1}, d \in {0, 1} : /\ h = (IF g[x] = e THEN 1 ELSE 0)
                                          /\ d = (IF f[x] = e THEN 1 ELSE 0)
    OBVIOUS
  <1>6. Cardinality(Places(g, e)) = Cardinality(Places(f, e)) + h - d
    BY <1>2, <1>3, <1>4, <1>5
  <1> QED BY <1>2, <1>5, <1>6

-----------------------------------------------------------------------------
(* A set of numbers has a least one: with it, what holds of 0, and of k + 1 *)
(* when it holds of k, holds of every number.                              *)
LEMMA LeastNumber ==
    ASSUME NEW T \in SUBSET Nat, T # {}
    PROVE  \E x \in T : \A y \in T : x <= y
<1>1. PICK R : R = OpToRel(<, Nat)
  OBVIOUS
<1>2. IsWellFoundedOn(R, Nat)
  BY <1>1, NatLessThanWellFounded
<1>3. PICK x \in T : \A y \in T : ~(<<y, x>> \in R)
  BY <1>2, WFMin
<1>4. \A a, b \in Nat : <<b, a>> \in R <=> b < a
  BY <1>1 DEF OpToRel
<1>5. \A y \in T : y \in Nat /\ ~(y < x)
  BY <1>3, <1>4
<1> QED
  BY <1>5

(* The list that starts at the pointer first has the m elements of s. *)
Leads(s, m, first, next, null) ==
    /\ first = IF m = 0 THEN null ELSE s[1]
    /\ \A i \in 1 .. m : next[s[i]] = IF i = m THEN null ELSE s[i + 1]

(* Then its elements are those of s. *)
LEMMA ElementsAre ==
    ASSUME NEW S, NEW m \in Nat, NEW s \in [1 .. m -> S],
           NEW first, NEW next, NEW null, null \notin S,
           Leads(s, m, first, next, null), NEW max \in Nat, m <= max
    PROVE  Elements(first, next, null, max) = s
<1> DEFINE g == [k \in Nat |-> IF k < m THEN s[k + 1] ELSE null]
           Walks(f) == f = [k \in Nat |->
                              IF k = 0 THEN first
                              ELSE IF f[k - 1] = null THEN null ELSE next[f[k - 1]]]
<1>1. m \in Nat /\ \A i \in 1 .. m : s[i] \in S
  OBVIOUS
<1>2. \A k \in Nat : /\ k < m => g[k] = s[k + 1] /\ g[k] # null
                     /\ k >= m => g[k] = null
  BY <1>1
<1> HIDE DEF g
<1>3. ASSUME NEW k \in Nat
      PROVE  g[k] = IF k = 0 THEN first
                    ELSE IF g[k - 1] = null THEN null ELSE next[g[k - 1]]
  <2>1. CASE k = 0
    BY <2>1, <1>1, <1>2 DEF Leads
  <2>2. CASE k # 0 /\ k - 1 < m
    <3>1. k - 1 \in Nat /\ k \in 1 .. m
      BY <2>2, <1>1
    <3>2. g[k - 1] = s[k] /\ g[k - 1] # null
      BY <2>2, <3>1, <1>2
    <3>3. next[s[k]] = IF k = m THEN null ELSE s[k + 1]
      BY <3>1 DEF Leads
    <3> QED
      BY <2>2, <3>1, <3>2, <3>3, <1>1, <1>2
  <2>3. CASE k # 0 /\ ~(k - 1 < m)
    <3>1. k - 1 \in Nat /\ k - 1 >= m /\ k >= m
      BY <2>3, <1>1
    <3> QED
      BY <2>3, <3>1, <1>2
  <2> QED
    BY <2>1, <2>2, <2>3
<1>4. Walks(g)
  <2>1. g = [k \in Nat |-> g[k]]
    BY DEF g
  <2> QED
    BY <2>1, <1>3
<1>5. PICK f : Walks(f) /\ f = CHOOSE h : Walks(h)
  BY <1>4
<1>6. ASSUME NEW k \in Nat
      PROVE  f[k] = g[k]
  <2> DEFINE T == {j \in Nat : f[j] # g[j]}
  <2>1. ASSUME T # {} PROVE FALSE
    <3>1. T \in SUBSET Nat
      OBVIOUS
    <3>2. PICK x \in T : \A y \in T : x <= y
      <4> HIDE DEF T
      <4> QED
        BY <2>1, <3>1, LeastNumber
    <3>3. x \in Nat /\ f[x] # g[x]
      OBVIOUS
    <3>4. f[x] = IF x = 0 THEN first ELSE IF f[x - 1] = null THEN null ELSE next[f[x - 1]]
      BY <1>5, <3>3
    <3>5. g[x] = IF x = 0 THEN first ELSE IF g[x - 1] = null THEN null ELSE next[g[x - 1]]
      BY <1>3, <3>3
    <3>6. x # 0
      BY <3>3, <3>4, <3>5
    <3>7. x - 1 \in Nat /\ x - 1 \notin T
      BY <3>2, <3>3, <3>6
    <3> QED
      BY <3>3, <3>4, <3>5, <3>6, <3>7
  <2> QED
    BY <2>1
<1>7. {k \in 1 .. max : f[k - 1] # null} = 1 .. m
  <2>1. \A k \in 1 .. max : k - 1 \in Nat /\ (k - 1 < m <=> k <= m)
    BY <1>1
  <2>2. \A k \in 1 .. max : f[k - 1] # null <=> k <= m
    BY <2>1, <1>1, <1>2, <1>6
  <2> QED
    BY <2>2, <1>1
<1>8. Cardinality(1 .. m) = m
  <2>1. Cardinality(1 .. m) = IF 1 > m THEN 0 ELSE m - 1 + 1
    BY FS_Interval
  <2> QED
    BY <2>1
<1>9. Elements(first, next, null, max) = [k \in 1 .. m |-> f[k - 1]]
  <2>1. Elements(first, next, null, max) =
          [k \in 1 .. Cardinality({j \in 1 .. max : f[j - 1] # null}) |-> f[k - 1]]
    BY <1>5 DEF Elements
  <2> QED
    BY <2>1, <1>7, <1>8
<1>10. \A k \in 1 .. m : f[k - 1] = s[k]
  <2>1. \A k \in 1 .. m : k - 1 \in Nat /\ k - 1 < m /\ (k - 1) + 1 = k
    BY <1>1
  <2> QED
    BY <2>1, <1>2, <1>6
<1> QED
  BY <1>9, <1>10

(* An insertion behind the first k elements sets the pointer of the new    *)
(* element n, and the one that led to the (k + 1)st.                       *)
Insertion(S, m, s, first, next, k, n, table, t) ==
    /\ k \in 0 .. m /\ n \in S /\ \A i \in 1 .. m : s[i] # n
    /\ table[n] = IF k = 0 THEN first ELSE next[s[k]]
    /\ \A e \in S \ {n} : table[e] = IF k # 0 /\ e = s[k] THEN n ELSE next[e]
    /\ \A i \in 1 .. m + 1 : t[i] = IF i <= k THEN s[i]
                                    ELSE IF i = k + 1 THEN n ELSE s[i - 1]

LEMMA LeadsInsert ==
    ASSUME NEW S, NEW null, null \notin S, NEW m \in Nat, NEW s \in [1 .. m -> S],
           \A i, j \in 1 .. m : s[i] = s[j] => i = j,
           NEW first, NEW next, Leads(s, m, first, next, null),
           NEW k, NEW n, NEW table, NEW t,
           Insertion(S, m, s, first, next, k, n, table, t)
    PROVE  /\ \A i, j \in 1 .. m + 1 : t[i] = t[j] => i = j
           /\ \A i \in 1 .. m + 1 : t[i] \in S
           /\ Leads(t, m + 1, IF k = 0 THEN n ELSE first, table, null)
<1>0. PICK after : /\ after = IF k = 0 THEN first ELSE next[s[k]]
                   /\ table[n] = after
  BY DEF Insertion
<1> USE <1>0 DEF Insertion
<1>1. k \in Nat /\ k <= m /\ \A i \in 1 .. m : s[i] \in S \ {n}
  OBVIOUS
<1>2. \A i \in 1 .. m : next[s[i]] = IF i = m THEN null ELSE s[i + 1]
  BY DEF Leads
<1>3. \A i \in 1 .. k : i \in 1 .. m /\ t[i] = s[i]
  BY <1>1
<1>4. t[k + 1] = n
  BY <1>1
<1>5. \A i \in k + 1 .. m : i \in 1 .. m /\ t[i + 1] = s[i]
  BY <1>1
<1>6. ASSUME NEW i \in 1 .. m + 1
      PROVE  \/ i \in 1 .. k
             \/ i = k + 1
             \/ \E j \in k + 1 .. m : i = j + 1
  <2>1. CASE i > k + 1
    <3>1. i - 1 \in k + 1 .. m /\ i = (i - 1) + 1
      BY <1>1, <2>1
    <3> QED
      BY <3>1
  <2>2. CASE i <= k + 1
    BY <1>1, <2>2
  <2> QED
    BY <1>1, <2>1, <2>2
<1>7. \A i \in 1 .. m + 1 : t[i] \in S
  BY <1>1, <1>3, <1>4, <1>5, <1>6
<1>8. ASSUME NEW i \in 1 .. m + 1, NEW j \in 1 .. m + 1, t[i] = t[j]
      PROVE  i = j
  BY <1>1, <1>8
<1>9. Leads(t, m + 1, IF k = 0 THEN n ELSE first, table, null)
  <2>1. t[1] = IF k = 0 THEN n ELSE first
    BY <1>1, <1>3, <1>4 DEF Leads
  <2>2. ASSUME NEW i \in 1 .. m + 1
        PROVE  table[t[i]] = IF i = m + 1 THEN null ELSE t[i + 1]
    <3>1. CASE i \in 1 .. k
      <4>1. i \in 1 .. m /\ t[i] = s[i] /\ i # m + 1
        BY <3>1, <1>1, <1>3
      <4>2. CASE i = k
        <5>1. table[s[k]] = n /\ k # 0
          BY <3>1, <4>1, <4>2, <1>1
        <5> QED
          BY <4>1, <4>2, <5>1, <1>4
      <4>3. CASE i # k
        <5>1. s[i] # s[k] /\ i # m /\ t[i + 1] = s[i + 1]
          BY <3>1, <4>1, <4>3, <1>1, <1>3
        <5>2. table[s[i]] = next[s[i]]
          BY <4>1, <5>1, <1>1
        <5> QED
          BY <4>1, <5>1, <5>2, <1>2
      <4> QED
        BY <4>2, <4>3
    <3>2. CASE i = k + 1
      <4>1. after = IF k = m THEN null ELSE s[k + 1]
        <5>1. CASE k = 0
          BY <5>1 DEF Leads
        <5>2. CASE k # 0
          <6>1. k \in 1 .. m
            BY <5>2, <1>1
          <6> QED
            BY <5>2, <6>1, <1>2
        <5> QED
          BY <5>1, <5>2
      <4>2. k # m => t[i + 1] = s[k + 1]
        <5> SUFFICES ASSUME k # m PROVE t[i + 1] = s[k + 1]
          OBVIOUS
        <5>1. k + 1 \in k + 1 .. m
          BY <1>1
        <5> QED
          BY <3>2, <5>1, <1>5
      <4> QED
        BY <3>2, <4>1, <4>2, <1>1, <1>4
    <3>3. ASSUME NEW j \in k + 1 .. m, i = j + 1
          PROVE  table[t[i]] = IF i = m + 1 THEN null ELSE t[i + 1]
      <4>1. j \in 1 .. m /\ t[i] = s[j] /\ (k # 0 => s[j] # s[k])
        BY <3>3, <1>1, <1>5
      <4>2. table[s[j]] = next[s[j]]
        BY <4>1, <1>1
      <4>3. j # m => t[i + 1] = s[j + 1]
        <5> SUFFICES ASSUME j # m PROVE t[i + 1] = s[j + 1]
          OBVIOUS
        <5>1. j + 1 \in k + 1 .. m
          BY <1>1
        <5> QED
          BY <3>3, <5>1, <1>5
      <4> QED
        BY <3>3, <4>1, <4>2, <4>3, <1>1, <1>2
    <3> QED
      BY <1>6, <3>1, <3>2, <3>3
  <2> QED
    BY <2>1, <2>2, <1>1 DEF Leads
<1> QED
  BY <1>7, <1>8, <1>9

(* The removal of the k-th element sets the pointer that led to it, which  *)
(* may be the one to the first, start; it does not matter what becomes of   *)
(* its own.                                                                *)
Removal(S, m, s, first, next, k, start, table, t) ==
    /\ k \in 1 .. m
    /\ start = IF k = 1 THEN next[s[k]] ELSE first
    /\ \A e \in S \ {s[k]} :
          table[e] = IF k # 1 /\ e = s[k - 1] THEN next[s[k]] ELSE next[e]
    /\ \A i \in 1 .. m - 1 : t[i] = IF i < k THEN s[i] ELSE s[i + 1]

LEMMA LeadsRemove ==
    ASSUME NEW S, NEW null, null \notin S, NEW m \in Nat, NEW s \in [1 .. m -> S],
           \A i, j \in 1 .. m : s[i] = s[j] => i = j,
           NEW first, NEW next, Leads(s, m, first, next, null),
           NEW k, NEW start, NEW table, NEW t,
           Removal(S, m, s, first, next, k, start, table, t)
    PROVE  /\ \A i, j \in 1 .. m - 1 : t[i] = t[j] => i = j
           /\ \A i \in 1 .. m - 1 : t[i] \in S \ {s[k]}
           /\ Leads(t, m - 1, start, table, null)
<1> USE DEF Removal
<1>1. k \in Nat /\ 1 <= k /\ k <= m
  OBVIOUS
<1>2. \A i \in 1 .. m : next[s[i]] = IF i = m THEN null ELSE s[i + 1]
  BY DEF Leads
<1>3. \A i \in 1 .. k - 1 : i \in 1 .. m /\ t[i] = s[i] /\ s[i] # s[k]
  BY <1>1
<1>4. \A i \in k .. m - 1 : /\ i + 1 \in 1 .. m /\ i \in 1 .. m - 1
                            /\ t[i] = s[i + 1] /\ s[i + 1] # s[k]
  BY <1>1
<1>5. \A i \in 1 .. m - 1 : i \in 1 .. k - 1 \/ i \in k .. m - 1
  BY <1>1
<1>6. \A i \in 1 .. m - 1 : t[i] \in S \ {s[k]}
  BY <1>3, <1>4, <1>5
<1>7. ASSUME NEW i \in 1 .. m - 1, NEW j \in 1 .. m - 1, t[i] = t[j]
      PROVE  i = j
  BY <1>1, <1>7
<1>8. Leads(t, m - 1, start, table, null)
  <2>1. m - 1 # 0 => t[1] = start
    <3> SUFFICES ASSUME m - 1 # 0
                 PROVE  t[1] = start
      OBVIOUS
    <3>1. CASE k = 1
      <4>1. 1 \in k .. m - 1 /\ 1 \in 1 .. m /\ 1 # m
        BY <3>1, <1>1
      <4> QED
        BY <3>1, <4>1, <1>2, <1>4
    <3>2. CASE k # 1
      <4>1. 1 \in 1 .. k - 1
        BY <3>2, <1>1
      <4> QED
        BY <3>2, <4>1, <1>1, <1>3 DEF Leads
    <3> QED
      BY <3>1, <3>2
  <2>2. m - 1 = 0 => k = 1 /\ next[s[1]] = null
    BY <1>1, <1>2
  <2>3. ASSUME NEW i \in 1 .. m - 1
        PROVE  table[t[i]] = IF i = m - 1 THEN null ELSE t[i + 1]
    <3>1. CASE i \in 1 .. k - 1 /\ i # k - 1
      <4>1. i + 1 \in 1 .. k - 1 /\ i # m /\ i # m - 1 /\ t[i + 1] = s[i + 1]
        BY <3>1, <1>1, <1>3
      <4>2. /\ i \in 1 .. m /\ t[i] = s[i] /\ s[i] \in S \ {s[k]}
            /\ ~(k # 1 /\ s[i] = s[k - 1])
        BY <3>1, <1>1, <1>3
      <4>3. table[s[i]] = next[s[i]]
        BY <4>2
      <4> QED
        BY <4>1, <4>2, <4>3, <1>2
    <3>2. CASE i \in 1 .. k - 1 /\ i = k - 1
      <4>1. t[i] = s[k - 1] /\ s[k - 1] \in S \ {s[k]} /\ k # 1
        BY <3>2, <1>1, <1>3
      <4>2. table[s[k - 1]] = next[s[k]]
        BY <4>1
      <4>3. k # m => k \in k .. m - 1 /\ t[i + 1] = s[k + 1]
        BY <3>2, <1>1, <1>4
      <4> QED
        BY <3>2, <4>1, <4>2, <4>3, <1>1, <1>2
    <3>3. CASE i \in k .. m - 1
      <4>1. i + 1 \in 1 .. m /\ t[i] = s[i + 1] /\ s[i + 1] \in S \ {s[k]}
        BY <3>3, <1>4
      <4>2. ~(k # 1 /\ s[i + 1] = s[k - 1])
        <5>1. i + 1 # k - 1 /\ (k # 1 => k - 1 \in 1 .. m)
          BY <3>3, <1>1
        <5> QED
          BY <4>1, <5>1
      <4>3. table[s[i + 1]] = next[s[i + 1]]
        BY <4>1, <4>2
      <4>4. i # m - 1 => t[i + 1] = s[(i + 1) + 1]
        <5> SUFFICES ASSUME i # m - 1 PROVE t[i + 1] = s[(i + 1) + 1]
          OBVIOUS
        <5>1. i + 1 \in k .. m - 1
          BY <3>3, <1>1
        <5> QED
          BY <5>1, <1>4
      <4>5. i + 1 = m <=> i = m - 1
        BY <4>1
      <4> QED
        BY <4>1, <4>3, <4>4, <4>5, <1>2
    <3> QED
      BY <1>5, <3>1, <3>2, <3>3
  <2> QED
    BY <2>1, <2>2, <2>3, <1>1 DEF Leads
<1> QED
  BY <1>6, <1>7, <1>8

(* A list without repetition in a finite set is not longer than the set. *)
LEMMA InjectionBound ==
    ASSUME NEW S, IsFiniteSet(S), NEW m \in Nat, NEW s \in [1 .. m -> S],
           \A i, j \in 1 .. m : s[i] = s[j] => i = j
    PROVE  Cardinality(S) \in Nat /\ m <= Cardinality(S)
<1>1. s \in Injection(1 .. m, S)
  BY DEF Injection, IsInjective
<1>2. Cardinality(1 .. m) <= Cardinality(S) /\ Cardinality(S) \in Nat
  BY <1>1, FS_Injection, FS_CardinalityType
<1>3. Cardinality(1 .. m) = IF 1 > m THEN 0 ELSE m - 1 + 1
  BY FS_Interval
<1> QED
  BY <1>2, <1>3

=============================================================================
