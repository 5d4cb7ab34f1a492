--------------------------- MODULE MbSerial_proof ---------------------------
(***************************************************************************)
(* Proofs about a mailbox serial port: first about the notifier chain of   *)
(* its clients (module Notifier), then about the port.                     *)
(***************************************************************************)
EXTENDS MbSerial, ListLemmas

(* The chain, from pointer h on, has the m blocks of s.                    *)
Blocks(m, s) == {s[i] : i \in 1 .. m}

IsChain(m, s, h, nx) ==
    /\ Leads(s, m, h, nx, NULL)
    /\ \A i, j \in 1 .. m : s[i] = s[j] => i = j
    /\ \A i, j \in 1 .. m : i <= j => Priority(s[i]) >= Priority(s[j])

(* Where a call of the chain will be after a block: pos is the place of a  *)
(* block in the chain, and, of a block that has left during the call, the  *)
(* place its stale pointers lead to.                                       *)
Placed(m, s, pos) ==
    /\ \A i \in 1 .. m : pos[s[i]] = i
    /\ pos[NULL] = m + 1
    /\ \A x \in left : /\ x \notin Blocks(m, s)
                       /\ next[x] \in Blocks(m, s) \cup left \cup {NULL}
                       /\ pos[next[x]] = pos[x]
    /\ next_nb \in Blocks(m, s) \cup left \cup {NULL}
    /\ called \subseteq Blocks(m, s) \cup left
    /\ since \subseteq Blocks(m, s)
    /\ \A e \in since : e \in called \/ pos[e] >= pos[next_nb]

ChainVarsOK ==
    /\ head \in Clients \cup {NULL} /\ next \in [Clients -> Clients \cup {NULL}]
    /\ calling \in BOOLEAN
    /\ next_nb \in Clients \cup {NULL} /\ last \in called \cup {NULL}
    /\ called \subseteq Clients /\ left \subseteq Clients
    /\ ~calling => next_nb = NULL /\ left = {} /\ called = {} /\ since = {}

ChainInv ==
    /\ ChainVarsOK
    /\ \E m \in Nat :
          \E s \in [1 .. m -> Clients], pos \in [Clients \cup {NULL} -> Nat] :
             IsChain(m, s, head, next) /\ Placed(m, s, pos)

(* The walk along the pointers finds the blocks of the chain. *)
LEMMA WalkIs ==
    ASSUME NEW m \in Nat, NEW s \in [1 .. m -> Clients], NEW h, NEW nx,
           IsChain(m, s, h, nx)
    PROVE  /\ Elements(h, nx, NULL, Cardinality(Clients)) = s
           /\ Len(s) = m /\ DOMAIN s = 1 .. m
           /\ Range(s) = Blocks(m, s) /\ IsInjective(s)
<1>1. Cardinality(Clients) \in Nat /\ m <= Cardinality(Clients)
  BY ChainAssumption, InjectionBound DEF IsChain
<1>2. Elements(h, nx, NULL, Cardinality(Clients)) = s
  BY <1>1, ChainAssumption, ElementsAre DEF IsChain
<1>3. Len(s) = m /\ DOMAIN s = 1 .. m
  OBVIOUS
<1>4. Range(s) = Blocks(m, s) /\ IsInjective(s)
  BY <1>3 DEF Range, Blocks, IsInjective, IsChain
<1> QED
  BY <1>2, <1>3, <1>4

(* A block is registered behind those of at least its priority. *)
LEMMA PassedIs ==
    ASSUME NEW m \in Nat, NEW s \in [1 .. m -> Clients], IsChain(m, s, head, next),
           NEW n \in Clients
    PROVE  /\ Passed(n) \in 0 .. m
           /\ \A i \in 1 .. Passed(n) : Priority(s[i]) >= Priority(n)
           /\ \A i \in Passed(n) + 1 .. m : ~(Priority(s[i]) >= Priority(n))
<1> DEFINE Stop(k) == /\ \A i \in 1 .. k : Passes(n, s[i])
                      /\ k < m => ~Passes(n, s[k + 1])
           T == {k \in 0 .. m : k < m => ~Passes(n, s[k + 1])}
<1>1. Walk = s /\ Len(s) = m
  BY WalkIs DEF Walk
<1>2. \E k \in 0 .. m : Stop(k)
  <2>1. m \in T /\ T \in SUBSET Nat
    OBVIOUS
  <2>2. PICK k \in T : \A j \in T : k <= j
    <3> HIDE DEF T
    <3> QED
      BY <2>1, LeastNumber
  <2>3. k \in 0 .. m /\ (k < m => ~Passes(n, s[k + 1]))
    OBVIOUS
  <2>4. ASSUME NEW i \in 1 .. k
        PROVE  Passes(n, s[i])
    <3>1. i - 1 \in 0 .. m /\ i - 1 < m /\ ~(k <= i - 1) /\ (i - 1) + 1 = i
      BY <2>3
    <3>2. i - 1 \notin T
      BY <2>2, <3>1
    <3> QED
      BY <3>1, <3>2
  <2> QED
    BY <2>3, <2>4
<1>3. Passed(n) = CHOOSE k \in 0 .. m : Stop(k)
  BY <1>1 DEF Passed
<1>4. Passed(n) \in 0 .. m /\ Stop(Passed(n))
  BY <1>2, <1>3
<1>5. PICK k \in 0 .. m : k = Passed(n)
  BY <1>4
<1>6. ASSUME NEW i \in k + 1 .. m
      PROVE  ~(Priority(s[i]) >= Priority(n))
  <2>1. k + 1 \in 1 .. m /\ i \in 1 .. m /\ k + 1 <= i
    OBVIOUS
  <2>2. Priority(s[k + 1]) >= Priority(s[i])
    BY <2>1 DEF IsChain
  <2>3. ~(Priority(s[k + 1]) >= Priority(n))
    BY <1>4, <1>5, <2>1 DEF Passes
  <2> QED
    BY <2>2, <2>3 DEF Priority
<1>7. \A i \in 1 .. k : Priority(s[i]) >= Priority(n)
  BY <1>4, <1>5 DEF Passes
<1> QED
  BY <1>5, <1>6, <1>7

(* Registration inserts one block; a running call stays where it is. *)
LEMMA RegisterStep ==
    ASSUME ChainInv, NEW n \in Clients, Register(n)
    PROVE  ChainInv'
<1>0. PICK m \in Nat :
         \E s \in [1 .. m -> Clients], pos \in [Clients \cup {NULL} -> Nat] :
            IsChain(m, s, head, next) /\ Placed(m, s, pos)
  BY DEF ChainInv
<1>1. PICK s \in [1 .. m -> Clients], pos \in [Clients \cup {NULL} -> Nat] :
         IsChain(m, s, head, next) /\ Placed(m, s, pos)
  BY <1>0
<1>2. Walk = s /\ Linked = Blocks(m, s)
  BY <1>1, WalkIs DEF Walk, Linked
<1>3. n \notin Blocks(m, s) /\ n \notin left
  BY <1>2 DEF Register, MayRegister
<1>4. PICK k \in 0 .. m :
         /\ k = Passed(n)
         /\ \A i \in 1 .. k : Priority(s[i]) >= Priority(n)
         /\ \A i \in k + 1 .. m : ~(Priority(s[i]) >= Priority(n))
  BY <1>1, PassedIs
<1> DEFINE t == [i \in 1 .. m + 1 |-> IF i <= k THEN s[i]
                                     ELSE IF i = k + 1 THEN n ELSE s[i - 1]]
           after == IF k = 0 THEN head ELSE next[s[k]]
           place == [y \in Clients \cup {NULL} |->
                       IF y = n THEN k + 1 ELSE IF pos[y] <= k THEN pos[y] ELSE pos[y] + 1]
<1>5. /\ head' = IF k = 0 THEN n ELSE head
      /\ next' \in [Clients -> Clients \cup {NULL}]
      /\ next'[n] = after
      /\ \A e \in Clients \ {n} : next'[e] = IF k # 0 /\ e = s[k] THEN n ELSE next[e]
      /\ UNCHANGED <<calling, next_nb, called, last, since, left>>
  <2>1. CASE k = 0
    <3>1. head' = n /\ next' = [next EXCEPT ![n] = head]
      BY <2>1, <1>4 DEF Register, LinkBehind
    <3> QED
      BY <2>1, <3>1 DEF Register, history, ChainInv, ChainVarsOK
  <2>2. CASE k # 0
    <3>1. s[k] \in Clients /\ s[k] # n
      BY <2>2, <1>3 DEF Blocks
    <3>2. head' = head /\ next' = [next EXCEPT ![n] = next[s[k]], ![s[k]] = n]
      BY <2>2, <1>2, <1>4 DEF Register, LinkBehind
    <3> QED
      BY <2>2, <3>1, <3>2 DEF Register, history, ChainInv, ChainVarsOK
  <2> QED
    BY <2>1, <2>2
<1>6. /\ \A i, j \in 1 .. m + 1 : t[i] = t[j] => i = j
      /\ \A i \in 1 .. m + 1 : t[i] \in Clients
      /\ Leads(t, m + 1, head', next', NULL)
  <2>1. \A i \in 1 .. m : s[i] # n
    BY <1>3 DEF Blocks
  <2>2. Leads(s, m, head, next, NULL) /\ \A i, j \in 1 .. m : s[i] = s[j] => i = j
    BY <1>1 DEF IsChain
  <2>3. \A i \in 1 .. m + 1 : t[i] = IF i <= k THEN s[i] ELSE IF i = k + 1 THEN n ELSE s[i - 1]
    OBVIOUS
  <2>4. Insertion(Clients, m, s, head, next, k, n, next', t)
    BY <1>5, <2>1, <2>3 DEF Insertion
  <2> HIDE DEF t
  <2>6. /\ \A i, j \in 1 .. m + 1 : t[i] = t[j] => i = j
        /\ \A i \in 1 .. m + 1 : t[i] \in Clients
        /\ Leads(t, m + 1, IF k = 0 THEN n ELSE head, next', NULL)
    BY <2>2, <2>4, LeadsInsert, ChainAssumption
  <2> QED
    BY <1>5, <2>6
<1>7. t \in [1 .. m + 1 -> Clients] /\ m + 1 \in Nat
  BY <1>6
<1>8. /\ \A i \in 1 .. k : i \in 1 .. m /\ i \in 1 .. m + 1 /\ t[i] = s[i]
      /\ k + 1 \in 1 .. m + 1 /\ t[k + 1] = n
      /\ \A i \in k + 1 .. m : i \in 1 .. m /\ i + 1 \in 1 .. m + 1 /\ t[i + 1] = s[i]
  OBVIOUS
<1>9. ASSUME NEW i \in 1 .. m + 1
      PROVE  \/ i \in 1 .. k
             \/ i = k + 1
             \/ \E j \in k + 1 .. m : i = j + 1
  <2>1. CASE i > k + 1
    <3>1. i - 1 \in k + 1 .. m /\ i = (i - 1) + 1
      BY <2>1
    <3> QED
      BY <3>1
  <2>2. CASE i <= k + 1
    BY <2>2
  <2> QED
    BY <2>1, <2>2
<1> HIDE DEF t
<1>10. Blocks(m + 1, t) = Blocks(m, s) \cup {n}
  <2>1. \A i \in 1 .. m : i \in 1 .. k \/ i \in k + 1 .. m
    OBVIOUS
  <2>2. \A e : e \in Blocks(m, s) => e \in Blocks(m + 1, t)
    BY <2>1, <1>8 DEF Blocks
  <2>3. \A e : e \in Blocks(m + 1, t) => e \in Blocks(m, s) \cup {n}
    BY <1>8, <1>9 DEF Blocks
  <2>4. n \in Blocks(m + 1, t)
    BY <1>8 DEF Blocks
  <2> QED
    BY <2>2, <2>3, <2>4
<1>11. ASSUME NEW i \in 1 .. m + 1, NEW j \in 1 .. m + 1, i <= j
       PROVE  Priority(t[i]) >= Priority(t[j])
  <2>1. \A a, b \in 1 .. m : a <= b => Priority(s[a]) >= Priority(s[b])
    BY <1>1 DEF IsChain
  <2>2. \A c \in Clients : Priority(c) \in {0, 1}
    BY DEF Priority
  <2>3. CASE i \in 1 .. k
    BY <1>4, <1>8, <1>9, <1>11, <2>1, <2>3
  <2>4. CASE i = k + 1
    <3>1. j = k + 1 \/ \E b \in k + 1 .. m : j = b + 1
      BY <1>9, <1>11, <2>4
    <3> QED
      BY <3>1, <2>2, <2>4, <1>4, <1>8
  <2>5. ASSUME NEW a \in k + 1 .. m, i = a + 1
        PROVE  Priority(t[i]) >= Priority(t[j])
    <3>1. PICK b \in k + 1 .. m : j = b + 1 /\ a <= b
      BY <1>9, <1>11, <2>5
    <3> QED
      BY <3>1, <2>1, <2>5, <1>8
  <2> QED
    BY <1>9, <2>3, <2>4, <2>5
<1>12. IsChain(m + 1, t, head', next')
  BY <1>6, <1>11 DEF IsChain
<1>13. place \in [Clients \cup {NULL} -> Nat] /\ n # NULL
  BY ChainAssumption
<1>14. /\ place[n] = k + 1
       /\ \A y \in (Clients \cup {NULL}) \ {n} :
             place[y] = IF pos[y] <= k THEN pos[y] ELSE pos[y] + 1
  OBVIOUS
<1> HIDE DEF place
<1>15. Placed(m + 1, t, place)'
  <2>1. \A i \in 1 .. m : pos[s[i]] = i /\ s[i] \in Clients \ {n}
    BY <1>1, <1>3 DEF Placed, Blocks
  <2>2. ASSUME NEW i \in 1 .. m + 1
        PROVE  place[t[i]] = i
    <3>1. CASE i \in 1 .. k
      <4>1. i \in 1 .. m /\ t[i] = s[i] /\ i <= k
        BY <3>1, <1>8
      <4> QED
        BY <4>1, <2>1, <1>14
    <3>2. CASE i = k + 1
      BY <3>2, <1>8, <1>14
    <3>3. ASSUME NEW j \in k + 1 .. m, i = j + 1
          PROVE  place[t[i]] = i
      <4>1. j \in 1 .. m /\ t[i] = s[j] /\ ~(j <= k)
        BY <3>3, <1>8
      <4> QED
        BY <3>3, <4>1, <2>1, <1>14
    <3> QED
      BY <1>9, <3>1, <3>2, <3>3
  <2>3. place[NULL] = (m + 1) + 1
    BY <1>1, <1>13, <1>14 DEF Placed
  <2>4. n \notin Blocks(m, s) \cup left \cup {NULL}
    BY <1>3, <1>13
  <2>5. ASSUME NEW x \in left
        PROVE  /\ x \notin Blocks(m + 1, t)
               /\ next'[x] \in Blocks(m + 1, t) \cup left \cup {NULL}
               /\ place[next'[x]] = place[x]
    <3>1. x \in Clients /\ x # n /\ x \notin Blocks(m, s)
      BY <1>1, <1>3 DEF Placed, ChainInv, ChainVarsOK
    <3>2. next'[x] = next[x]
      BY <1>5, <3>1 DEF Blocks
    <3>3. /\ next[x] \in Blocks(m, s) \cup left \cup {NULL} /\ next[x] # n
          /\ pos[next[x]] = pos[x] /\ next[x] \in Clients \cup {NULL}
      BY <1>1, <2>4, <3>1 DEF Placed, ChainInv, ChainVarsOK
    <3> QED
      BY <1>10, <1>14, <3>1, <3>2, <3>3
  <2>6. next_nb \in Blocks(m, s) \cup left \cup {NULL} /\ next_nb \in Clients \cup {NULL}
    BY <1>1 DEF Placed, ChainInv, ChainVarsOK
  <2>7. ASSUME NEW e \in since
        PROVE  e \in called \/ place[e] >= place[next_nb]
    <3>1. e \in Clients \ {n} /\ (e \in called \/ pos[e] >= pos[next_nb])
      BY <1>1, <2>1 DEF Placed, Blocks
    <3>2. next_nb \in (Clients \cup {NULL}) \ {n}
      BY <2>4, <2>6
    <3>3. pos[e] \in Nat /\ pos[next_nb] \in Nat
      BY <3>1, <3>2
    <3> QED
      BY <3>1, <3>2, <3>3, <1>14
  <2>8. called \subseteq Blocks(m, s) \cup left /\ since \subseteq Blocks(m, s)
    BY <1>1 DEF Placed
  <2> QED
    BY <1>5, <1>10, <2>2, <2>3, <2>5, <2>6, <2>7, <2>8 DEF Placed
<1>16. ChainVarsOK'
  BY <1>5 DEF ChainInv, ChainVarsOK
<1> QED
  BY <1>7, <1>12, <1>13, <1>15, <1>16 DEF ChainInv

(* Unregistration takes one block out; a call that is to come to it, by a  *)
(* stale pointer too, will come to the one behind it.                      *)
LEMMA UnregisterStep ==
    ASSUME ChainInv, NEW n \in Clients, Unregister(n)
    PROVE  ChainInv'
<1>0. PICK m \in Nat :
         \E s \in [1 .. m -> Clients], pos \in [Clients \cup {NULL} -> Nat] :
            IsChain(m, s, head, next) /\ Placed(m, s, pos)
  BY DEF ChainInv
<1>1. PICK s \in [1 .. m -> Clients], pos \in [Clients \cup {NULL} -> Nat] :
         IsChain(m, s, head, next) /\ Placed(m, s, pos)
  BY <1>0
<1>2. Linked = Blocks(m, s)
  BY <1>1, WalkIs DEF Walk, Linked
<1>3. PICK k \in 1 .. m : s[k] = n
  BY <1>2 DEF Unregister, Blocks
<1>4. /\ Leads(s, m, head, next, NULL)
      /\ \A i, j \in 1 .. m : s[i] = s[j] => i = j
      /\ \A i \in 1 .. m : next[s[i]] = IF i = m THEN NULL ELSE s[i + 1]
      /\ head = s[1]
  BY <1>1 DEF IsChain, Leads
<1> DEFINE t == [i \in 1 .. m - 1 |-> IF i < k THEN s[i] ELSE s[i + 1]]
           place == [y \in Clients \cup {NULL} |-> IF pos[y] <= k THEN pos[y] ELSE pos[y] - 1]
<1>5. /\ head' = IF k = 1 THEN next[s[1]] ELSE head
      /\ next' \in [Clients -> Clients \cup {NULL}]
      /\ \A e \in Clients : next'[e] = IF k # 1 /\ e = s[k - 1] THEN next[n] ELSE next[e]
  <2>1. CASE k = 1
    <3>1. head' = next[n] /\ next' = next
      BY <2>1, <1>3, <1>4 DEF Unregister, Unlink
    <3> QED
      BY <2>1, <3>1, <1>3 DEF ChainInv, ChainVarsOK
  <2>2. CASE k # 1
    <3>1. head # n
      BY <2>2, <1>3, <1>4
    <3>2. PICK p \in Blocks(m, s) : /\ next[p] = n
                                   /\ next' = [next EXCEPT ![p] = next[n]]
                                   /\ head' = head
      BY <3>1, <1>2 DEF Unregister, Unlink
    <3>3. PICK j \in 1 .. m : p = s[j]
      BY DEF Blocks
    <3>4. j # m /\ s[j + 1] = n
      BY <3>2, <3>3, <1>4, ChainAssumption
    <3>5. j = k - 1
      BY <3>4, <1>3, <1>4
    <3> QED
      BY <2>2, <3>2, <3>3, <3>5 DEF ChainInv, ChainVarsOK
  <2> QED
    BY <2>1, <2>2
<1>6. /\ \A i, j \in 1 .. m - 1 : t[i] = t[j] => i = j
      /\ \A i \in 1 .. m - 1 : t[i] \in Clients \ {n}
      /\ Leads(t, m - 1, head', next', NULL)
  <2>1. \A i \in 1 .. m - 1 : t[i] = IF i < k THEN s[i] ELSE s[i + 1]
    OBVIOUS
  <2>2. Removal(Clients, m, s, head, next, k, head', next', t)
    BY <1>3, <1>4, <1>5, <2>1 DEF Removal
  <2> HIDE DEF t
  <2>3. /\ \A i, j \in 1 .. m - 1 : t[i] = t[j] => i = j
        /\ \A i \in 1 .. m - 1 : t[i] \in Clients \ {s[k]}
        /\ Leads(t, m - 1, head', next', NULL)
    BY <1>4, <2>2, LeadsRemove, ChainAssumption
  <2> QED
    BY <1>3, <1>5, <2>3
<1>7. t \in [1 .. m - 1 -> Clients] /\ m - 1 \in Nat
  BY <1>6
<1>8. /\ \A i \in 1 .. k - 1 : i \in 1 .. m /\ i \in 1 .. m - 1 /\ t[i] = s[i]
      /\ \A i \in k .. m - 1 : i + 1 \in 1 .. m /\ i \in 1 .. m - 1 /\ t[i] = s[i + 1]
      /\ \A i \in 1 .. m - 1 : i \in 1 .. k - 1 \/ i \in k .. m - 1
  OBVIOUS
<1> HIDE DEF t
<1>9. Blocks(m - 1, t) = Blocks(m, s) \ {n}
  <2>1. ASSUME NEW i \in 1 .. m, i # k
        PROVE  s[i] \in Blocks(m - 1, t)
    <3>1. CASE i < k
      <4>1. i \in 1 .. k - 1
        BY <3>1
      <4> QED
        BY <4>1, <1>8 DEF Blocks
    <3>2. CASE i > k
      <4>1. i - 1 \in k .. m - 1 /\ (i - 1) + 1 = i
        BY <3>2
      <4> QED
        BY <4>1, <1>8 DEF Blocks
    <3> QED
      BY <2>1, <3>1, <3>2
  <2>2. \A i \in 1 .. m - 1 : t[i] \in Blocks(m, s) \ {n}
    BY <1>6, <1>8 DEF Blocks
  <2> QED
    BY <1>3, <2>1, <2>2 DEF Blocks
<1>10. ASSUME NEW i \in 1 .. m - 1, NEW j \in 1 .. m - 1, i <= j
       PROVE  Priority(t[i]) >= Priority(t[j])
  <2>1. \A a, b \in 1 .. m : a <= b => Priority(s[a]) >= Priority(s[b])
    BY <1>1 DEF IsChain
  <2>2. PICK a \in 1 .. m : t[i] = s[a] /\ a = IF i < k THEN i ELSE i + 1
    BY <1>8
  <2>3. PICK b \in 1 .. m : t[j] = s[b] /\ b = IF j < k THEN j ELSE j + 1
    BY <1>8
  <2> QED
    BY <1>10, <2>1, <2>2, <2>3
<1>11. IsChain(m - 1, t, head', next')
  BY <1>6, <1>10 DEF IsChain
<1>12. /\ \A i \in 1 .. m : pos[s[i]] = i
       /\ pos[NULL] = m + 1
  BY <1>1 DEF Placed
<1>13. /\ place \in [Clients \cup {NULL} -> Nat]
       /\ \A y \in Clients \cup {NULL} : place[y] = IF pos[y] <= k THEN pos[y] ELSE pos[y] - 1
  OBVIOUS
<1> HIDE DEF place
<1>14. /\ UNCHANGED <<calling, next_nb, called, last>>
       /\ since' = since \ {n}
       /\ left' = IF calling THEN left \cup {n} ELSE left
  BY DEF Unregister
<1>15. /\ left \subseteq Clients /\ next \in [Clients -> Clients \cup {NULL}]
       /\ next_nb \in Clients \cup {NULL} /\ calling \in BOOLEAN
       /\ ~calling => next_nb = NULL /\ left = {} /\ called = {} /\ since = {}
  BY DEF ChainInv, ChainVarsOK
<1>16. Placed(m - 1, t, place)'
  <2>1. ASSUME NEW i \in 1 .. m - 1
        PROVE  place[t[i]] = i
    <3>1. CASE i \in 1 .. k - 1
      <4>1. t[i] \in Clients /\ pos[t[i]] = i
        BY <3>1, <1>6, <1>8, <1>12
      <4>2. PICK y \in Clients \cup {NULL} : y = t[i]
        BY <4>1
      <4>3. pos[y] = i
        BY <4>1, <4>2, Zenon
      <4>4. place[y] = IF pos[y] <= k THEN pos[y] ELSE pos[y] - 1
        BY <1>13, Zenon
      <4>5. i <= k
        BY <3>1
      <4>6. place[y] = i
        BY <4>3, <4>4, <4>5
      <4> QED
        BY <4>2, <4>6, Zenon
    <3>2. CASE i \in k .. m - 1
      <4>1. t[i] \in Clients /\ pos[t[i]] = i + 1
        BY <3>2, <1>6, <1>8, <1>12
      <4>2. PICK y \in Clients \cup {NULL} : y = t[i]
        BY <4>1
      <4>3. pos[y] = i + 1
        BY <4>1, <4>2, Zenon
      <4>4. place[y] = IF pos[y] <= k THEN pos[y] ELSE pos[y] - 1
        BY <1>13, Zenon
      <4>5. ~(i + 1 <= k) /\ (i + 1) - 1 = i
        BY <3>2
      <4>6. place[y] = i
        BY <4>3, <4>4, <4>5
      <4> QED
        BY <4>2, <4>6, Zenon
    <3> QED
      BY <3>1, <3>2, <1>8
  <2>2. place[NULL] = (m - 1) + 1
    BY <1>12, <1>13
  <2>3. ASSUME NEW x \in left
        PROVE  /\ x \notin Blocks(m - 1, t)
               /\ next'[x] \in Blocks(m - 1, t) \cup left' \cup {NULL}
               /\ place[next'[x]] = place[x]
    <3>1. /\ x \in Clients /\ calling /\ x \notin Blocks(m, s)
          /\ next[x] \in Blocks(m, s) \cup left \cup {NULL}
          /\ next[x] \in Clients \cup {NULL} /\ pos[next[x]] = pos[x]
      BY <1>1, <1>15 DEF Placed
    <3>2. next'[x] = next[x]
      BY <1>5, <3>1 DEF Blocks
    <3> QED
      BY <1>9, <1>13, <1>14, <3>1, <3>2
  <2>4. /\ n \notin Blocks(m - 1, t)
        /\ next'[n] \in Blocks(m - 1, t) \cup left' \cup {NULL}
        /\ place[next'[n]] = place[n]
    <3>1. next'[n] = next[n] /\ next[n] = IF k = m THEN NULL ELSE s[k + 1]
      <4>1. k # 1 => k - 1 \in 1 .. m /\ s[k - 1] # s[k]
        BY <1>4
      <4> QED
        BY <4>1, <1>3, <1>4, <1>5
    <3>2. place[n] = k
      BY <1>3, <1>12, <1>13
    <3>3. CASE k = m
      BY <3>1, <3>2, <3>3, <1>9, <2>2
    <3>4. CASE k # m
      <4>1. k \in k .. m - 1 /\ k \in 1 .. m - 1 /\ t[k] = s[k + 1]
        BY <3>4, <1>8
      <4> QED
        BY <3>1, <3>2, <3>4, <4>1, <1>9, <2>1 DEF Blocks
    <3> QED
      BY <3>3, <3>4
  <2>5. next_nb \in Blocks(m - 1, t) \cup left' \cup {NULL}
    BY <1>1, <1>9, <1>14, <1>15 DEF Placed
  <2>6. called \subseteq Blocks(m - 1, t) \cup left' /\ since' \subseteq Blocks(m - 1, t)
    BY <1>1, <1>9, <1>14, <1>15 DEF Placed
  <2>7. ASSUME NEW e \in since'
        PROVE  e \in called \/ place[e] >= place[next_nb]
    <3>1. e \in since /\ e # n
      BY <1>14
    <3>2. PICK i \in 1 .. m : e = s[i] /\ i # k /\ pos[e] = i
      BY <1>1, <1>3, <1>12, <3>1 DEF Placed, Blocks
    <3>3. e \in called \/ pos[e] >= pos[next_nb]
      BY <1>1, <3>1 DEF Placed
    <3>4. pos[next_nb] \in Nat /\ e \in Clients
      BY <1>15, <3>2
    <3> QED
      BY <3>2, <3>3, <3>4, <1>13, <1>15
  <2>8. ASSUME NEW x \in left'
        PROVE  /\ x \notin Blocks(m - 1, t)
               /\ next'[x] \in Blocks(m - 1, t) \cup left' \cup {NULL}
               /\ place[next'[x]] = place[x]
    BY <1>14, <2>3, <2>4
  <2>9. next_nb' = next_nb /\ called' = called
    BY <1>14
  <2> QED
    BY <2>1, <2>2, <2>5, <2>6, <2>7, <2>8, <2>9 DEF Placed
<1>17. head' \in Clients \cup {NULL}
  BY <1>3, <1>5 DEF ChainInv, ChainVarsOK
<1>18. ChainVarsOK'
  BY <1>5, <1>14, <1>15, <1>17 DEF ChainInv, ChainVarsOK
<1> QED
  BY <1>7, <1>11, <1>13, <1>16, <1>18 DEF ChainInv

(* A call begins at the first block. *)
LEMMA CallBeginStep ==
    ASSUME ChainInv, CallBegin
    PROVE  ChainInv'
<1>0. PICK m \in Nat :
         \E s \in [1 .. m -> Clients], pos \in [Clients \cup {NULL} -> Nat] :
            IsChain(m, s, head, next) /\ Placed(m, s, pos)
  BY DEF ChainInv
<1>1. PICK s \in [1 .. m -> Clients], pos \in [Clients \cup {NULL} -> Nat] :
         IsChain(m, s, head, next) /\ Placed(m, s, pos)
  BY <1>0
<1>2. Linked = Blocks(m, s)
  BY <1>1, WalkIs DEF Walk, Linked
<1>3. /\ UNCHANGED <<head, next, called, last, left>>
      /\ calling' = TRUE /\ next_nb' = head /\ since' = Blocks(m, s)
      /\ left = {} /\ called = {}
  BY <1>2 DEF CallBegin, ChainInv, ChainVarsOK
<1>4. /\ head = IF m = 0 THEN NULL ELSE s[1]
      /\ \A i \in 1 .. m : pos[s[i]] = i
      /\ pos[NULL] = m + 1
  BY <1>1 DEF IsChain, Leads, Placed
<1>5. head \in Blocks(m, s) \cup left \cup {NULL}
  <2>1. m # 0 => 1 \in 1 .. m
    OBVIOUS
  <2> QED
    BY <1>4, <2>1 DEF Blocks
<1>6. \A e \in Blocks(m, s) : pos[e] >= pos[head]
  BY <1>4 DEF Blocks
<1>7. IsChain(m, s, head', next')
  BY <1>1, <1>3
<1>8. Placed(m, s, pos)'
  BY <1>3, <1>4, <1>5, <1>6 DEF Placed
<1>9. ChainVarsOK'
  BY <1>3 DEF ChainInv, ChainVarsOK
<1> QED
  BY <1>7, <1>8, <1>9 DEF ChainInv

(* A call goes on to the block behind the one it calls, or behind the      *)
(* place where that one was.                                               *)
LEMMA CallNextStep ==
    ASSUME ChainInv, CallNext
    PROVE  ChainInv'
<1>0. PICK m \in Nat :
         \E s \in [1 .. m -> Clients], pos \in [Clients \cup {NULL} -> Nat] :
            IsChain(m, s, head, next) /\ Placed(m, s, pos)
  BY DEF ChainInv
<1>1. PICK s \in [1 .. m -> Clients], pos \in [Clients \cup {NULL} -> Nat] :
         IsChain(m, s, head, next) /\ Placed(m, s, pos)
  BY <1>0
<1>2. /\ UNCHANGED <<head, next, calling, since, left>>
      /\ next_nb # NULL /\ next_nb' = next[next_nb]
      /\ called' = called \cup {next_nb} /\ last' = next_nb
  BY DEF CallNext, Advance
<1>3. /\ next_nb \in Clients /\ next \in [Clients -> Clients \cup {NULL}]
      /\ next_nb \in Blocks(m, s) \cup left
  BY <1>1, <1>2 DEF ChainInv, ChainVarsOK, Placed
<1>4. /\ \A i \in 1 .. m : pos[s[i]] = i
      /\ pos[NULL] = m + 1
      /\ \A i \in 1 .. m : next[s[i]] = IF i = m THEN NULL ELSE s[i + 1]
  BY <1>1 DEF IsChain, Leads, Placed
<1>5. /\ next[next_nb] \in Blocks(m, s) \cup left \cup {NULL}
      /\ \A e \in Blocks(m, s) \ {next_nb} :
            pos[e] >= pos[next_nb] => pos[e] >= pos[next[next_nb]]
  <2>1. CASE next_nb \in left
    BY <1>1, <2>1 DEF Placed
  <2>2. CASE next_nb \in Blocks(m, s)
    <3>1. PICK i \in 1 .. m : next_nb = s[i]
      BY <2>2 DEF Blocks
    <3>2. /\ next[next_nb] \in Blocks(m, s) \cup {NULL}
          /\ pos[next[next_nb]] = i + 1
      <4>1. i # m => i + 1 \in 1 .. m
        OBVIOUS
      <4> QED
        BY <3>1, <4>1, <1>4 DEF Blocks
    <3>3. ASSUME NEW e \in Blocks(m, s), e # next_nb, pos[e] >= pos[next_nb]
          PROVE  pos[e] >= pos[next[next_nb]]
      <4>1. PICK j \in 1 .. m : e = s[j]
        BY <3>3 DEF Blocks
      <4>2. pos[e] = j /\ pos[next_nb] = i /\ j # i
        BY <3>1, <3>3, <4>1, <1>4
      <4> QED
        BY <3>2, <3>3, <4>2
    <3> QED
      BY <3>2, <3>3
  <2> QED
    BY <1>3, <2>1, <2>2
<1>6. IsChain(m, s, head', next')
  BY <1>1, <1>2
<1>7. Placed(m, s, pos)'
  <2>1. \A e \in since : e \in called' \/ pos[e] >= pos[next_nb']
    <3>1. /\ since \subseteq Blocks(m, s)
          /\ \A e \in since : e \in called \/ pos[e] >= pos[next_nb]
      BY <1>1 DEF Placed
    <3> QED
      BY <3>1, <1>2, <1>5
  <2>2. called' \subseteq Blocks(m, s) \cup left
    BY <1>1, <1>2, <1>3 DEF Placed
  <2> QED
    BY <1>1, <1>2, <1>5, <2>1, <2>2 DEF Placed
<1>8. ChainVarsOK'
  BY <1>2, <1>3 DEF ChainInv, ChainVarsOK
<1> QED
  BY <1>6, <1>7, <1>8 DEF ChainInv

(* A call ends, and its history with it. *)
LEMMA CallEndStep ==
    ASSUME ChainInv, CallEnd
    PROVE  ChainInv'
<1>0. PICK m \in Nat :
         \E s \in [1 .. m -> Clients], pos \in [Clients \cup {NULL} -> Nat] :
            IsChain(m, s, head, next) /\ Placed(m, s, pos)
  BY DEF ChainInv
<1>1. PICK s \in [1 .. m -> Clients], pos \in [Clients \cup {NULL} -> Nat] :
         IsChain(m, s, head, next) /\ Placed(m, s, pos)
  BY <1>0
<1>2. /\ UNCHANGED <<head, next, next_nb>> /\ next_nb = NULL /\ calling' = FALSE
      /\ called' = {} /\ last' = NULL /\ since' = {} /\ left' = {}
  BY DEF CallEnd
<1>3. IsChain(m, s, head', next')
  BY <1>1, <1>2
<1>4. Placed(m, s, pos)'
  BY <1>1, <1>2 DEF Placed
<1>5. ChainVarsOK'
  BY <1>2 DEF ChainInv, ChainVarsOK
<1> QED
  BY <1>3, <1>4, <1>5 DEF ChainInv

(* At first the chain is empty. *)
LEMMA ChainInitStep ==
    ASSUME ChainInit
    PROVE  ChainInv
<1> DEFINE s == [i \in 1 .. 0 |-> NULL]
           pos == [y \in Clients \cup {NULL} |-> 1]
<1>1. s \in [1 .. 0 -> Clients] /\ 0 \in Nat
  OBVIOUS
<1>2. pos \in [Clients \cup {NULL} -> Nat] /\ pos[NULL] = 0 + 1
  OBVIOUS
<1> HIDE DEF s, pos
<1>3. IsChain(0, s, head, next)
  BY DEF ChainInit, IsChain, Leads
<1>4. Placed(0, s, pos)
  BY <1>2 DEF ChainInit, Placed
<1>5. ChainVarsOK
  BY DEF ChainInit, ChainVarsOK
<1> QED
  BY <1>1, <1>2, <1>3, <1>4, <1>5 DEF ChainInv

(* No step of the chain disturbs it. *)
LEMMA ChainStep ==
    ASSUME ChainInv, [ChainNext]_chain
    PROVE  ChainInv'
<1>1. ASSUME NEW n \in Clients, Register(n) \/ Unregister(n)
      PROVE  ChainInv'
  BY <1>1, RegisterStep, UnregisterStep
<1>2. CASE Call
  BY <1>2, CallBeginStep, CallNextStep, CallEndStep DEF Call
<1>3. CASE UNCHANGED chain
  <2>1. ChainVarsOK'
    BY <1>3 DEF chain, history, ChainInv, ChainVarsOK
  <2>2. PICK m \in Nat :
           \E s \in [1 .. m -> Clients], pos \in [Clients \cup {NULL} -> Nat] :
              IsChain(m, s, head, next) /\ Placed(m, s, pos)
    BY DEF ChainInv
  <2>3. PICK s \in [1 .. m -> Clients], pos \in [Clients \cup {NULL} -> Nat] :
           IsChain(m, s, head, next) /\ Placed(m, s, pos)
    BY <2>2
  <2>4. IsChain(m, s, head', next') /\ Placed(m, s, pos)'
    BY <1>3, <2>3 DEF chain, history, Placed
  <2> QED
    BY <2>1, <2>4 DEF ChainInv
<1> QED
  BY <1>1, <1>2, <1>3 DEF ChainNext

(* What the invariant says of the pointers, of a call that ends, and of    *)
(* one that runs.                                                          *)
LEMMA ChainMeans ==
    ASSUME ChainInv
    PROVE  ChainSorted /\ EveryoneCalled /\ OnlyThoseThere
<1>0. PICK m \in Nat :
         \E s \in [1 .. m -> Clients], pos \in [Clients \cup {NULL} -> Nat] :
            IsChain(m, s, head, next) /\ Placed(m, s, pos)
  BY DEF ChainInv
<1>1. PICK s \in [1 .. m -> Clients], pos \in [Clients \cup {NULL} -> Nat] :
         IsChain(m, s, head, next) /\ Placed(m, s, pos)
  BY <1>0
<1>2. Walk = s /\ Linked = Blocks(m, s) /\ Len(s) = m /\ IsInjective(s)
  BY <1>1, WalkIs DEF Walk, Linked
<1>3. ChainTypeOK
  BY <1>1, <1>2 DEF ChainInv, ChainVarsOK, ChainTypeOK, Placed
<1>4. ChainSorted
  <2>1. s # <<>> => next[s[m]] = NULL
    <3>1. s # <<>> => m \in 1 .. m
      OBVIOUS
    <3> QED
      BY <1>1, <3>1 DEF IsChain, Leads
  <2>2. \A i \in 1 .. m - 1 : Priority(s[i]) >= Priority(s[i + 1])
    <3>1. \A i \in 1 .. m - 1 : i \in 1 .. m /\ i + 1 \in 1 .. m /\ i <= i + 1
      OBVIOUS
    <3> QED
      BY <1>1, <3>1 DEF IsChain
  <2> QED
    BY <1>2, <1>3, <2>1, <2>2 DEF ChainSorted
<1>5. EveryoneCalled
  <2> SUFFICES ASSUME next_nb = NULL, NEW e \in since
               PROVE  e \in called
    BY DEF EveryoneCalled
  <2>1. PICK i \in 1 .. m : e = s[i]
    BY <1>1 DEF Placed, Blocks
  <2>2. pos[e] = i /\ pos[next_nb] = m + 1
    BY <1>1, <2>1 DEF Placed
  <2>3. e \in called \/ pos[e] >= pos[next_nb]
    BY <1>1 DEF Placed
  <2> QED
    BY <2>2, <2>3
<1>6. OnlyThoseThere
  BY <1>1, <1>2 DEF OnlyThoseThere, Placed
<1> QED
  BY <1>4, <1>5, <1>6

(* The invariant holds of every chain. *)
THEOREM ChainInvariance == ChainSpec => []ChainInv
<1>1. ChainInit => ChainInv
  BY ChainInitStep
<1>2. ChainInv /\ [ChainNext]_chain => ChainInv'
  BY ChainStep
<1> QED
  BY <1>1, <1>2, PTL DEF ChainSpec

(* The pointers of a notifier chain always form one list without a circle, *)
(* in descending priority (mf_notifier.c 13-40).                           *)
THEOREM ChainAlwaysSorted == ChainSpec => []ChainSorted
<1>1. ChainInv => ChainSorted
  BY ChainMeans
<1> QED
  BY <1>1, ChainInvariance, PTL

(* No call of a chain passes over a block that stays registered while it   *)
(* runs, whoever comes and goes (mf_notifier.c 42-59).                     *)
THEOREM CallReachesEveryone == ChainSpec => []EveryoneCalled
<1>1. ChainInv => EveryoneCalled
  BY ChainMeans
<1> QED
  BY <1>1, ChainInvariance, PTL

(* A call reaches only blocks that were registered at some time while it   *)
(* ran (mf_notifier.c 42-59).                                              *)
THEOREM CallReachesOnlyThose == ChainSpec => []OnlyThoseThere
<1>1. ChainInv => OnlyThoseThere
  BY ChainMeans
<1> QED
  BY <1>1, ChainInvariance, PTL

-----------------------------------------------------------------------------
(* The port.  A sender submits pieces only while it has the lock, and      *)
(* until CPU2 has had it, the last piece it submitted is the last on the   *)
(* wire.                                                                   *)
PortVarsOK ==
    /\ exists \in BOOLEAN /\ up \in BOOLEAN
    /\ pending \in Seq(Commands) /\ Len(pending) <= MaxPending
    /\ calling => pending # <<>>
    /\ lock \in Senders \cup {NULL}
    /\ todo \in [Senders -> 0 .. MaxPieces] /\ done \in [Senders -> 0 .. MaxPieces]
    /\ wire \in Seq(Senders \X (1 .. MaxPieces)) /\ Len(wire) <= PoolSize

Follows(p, q) == q[2] = 1 \/ q = <<p[1], p[2] + 1>>

PiecesOK ==
    /\ \A s \in Senders : done[s] # 0 => lock = s
    /\ \A s \in Senders : done[s] # 0 /\ wire # <<>> => wire[Len(wire)] = <<s, done[s]>>
    /\ \A i \in 1 .. Len(wire) - 1 : Follows(wire[i], wire[i + 1])

PortInv == ChainInv /\ PortVarsOK /\ PiecesOK

(* Each step of the port is a step of the chain, or leaves it alone. *)
LEMMA PortChainStep == [Next]_vars => [ChainNext]_chain
<1>1. ASSUME Next
      PROVE  ChainNext \/ UNCHANGED chain
  BY <1>1 DEF Next, Leave, Get, Request, Dispatch, Refuse, Handle, Callback, GiveBack,
              Send, SendLock, SendPiece, SendEnd, SendTest, Answered, ChainNext, Call
<1>2. UNCHANGED vars => UNCHANGED chain
  BY DEF vars
<1> QED
  BY <1>1, <1>2

(* The next piece of a send goes behind the one before it. *)
LEMMA SendPieceStep ==
    ASSUME PortVarsOK, PiecesOK, NEW s \in Senders, SendPiece(s)
    PROVE  PortVarsOK' /\ PiecesOK'
<1> DEFINE Piece == Senders \X (1 .. MaxPieces)
<1>1. PICK piece : piece = <<s, done[s] + 1>>
  OBVIOUS
<1>2. /\ UNCHANGED <<chain, exists, up, pending, lock, todo>>
      /\ lock = s /\ done[s] < todo[s] /\ Len(wire) < PoolSize
      /\ done' = [done EXCEPT ![s] = done[s] + 1]
  BY DEF SendPiece, BlockLeft
<1>3. /\ todo \in [Senders -> 0 .. MaxPieces] /\ done \in [Senders -> 0 .. MaxPieces]
      /\ wire \in Seq(Piece)
  BY DEF PortVarsOK
<1>4. done'[s] = done[s] + 1 /\ done[s] + 1 \in 1 .. MaxPieces
  BY <1>2, <1>3, PortAssumption
<1>5. wire' = Append(wire, piece)
  BY <1>1, <1>4 DEF SendPiece
<1>6. piece \in Piece
  BY <1>1, <1>4
<1>7. PICK n \in Nat : n = Len(wire)
  BY <1>3, LenProperties
<1>8. /\ wire' \in Seq(Piece) /\ Len(wire') = n + 1 /\ wire' # <<>>
      /\ \A i \in 1 .. n : wire'[i] = wire[i]
      /\ wire'[n + 1] = piece
  BY <1>3, <1>5, <1>6, <1>7, AppendProperties
<1>9. n + 1 <= PoolSize
  BY <1>2, <1>7, PortAssumption
<1>10. done' \in [Senders -> 0 .. MaxPieces]
  BY <1>2, <1>3, <1>4
<1>11. PortVarsOK'
  BY <1>2, <1>8, <1>9, <1>10 DEF PortVarsOK, chain
<1>12. \A q \in Senders : done'[q] # 0 => q = s
  BY <1>2, <1>3 DEF PiecesOK
<1>13. \A q \in Senders : done'[q] # 0 => lock' = q /\ wire'[Len(wire')] = <<q, done'[q]>>
  BY <1>1, <1>2, <1>4, <1>8, <1>12
<1>14. ASSUME NEW i \in 1 .. n
       PROVE  Follows(wire'[i], wire'[i + 1])
  <2>1. CASE i = n
    <3>1. wire # <<>> /\ wire'[n] = wire[n]
      BY <1>7, <1>8, <2>1, EmptyList
    <3>2. CASE done[s] = 0
      BY <2>1, <3>2, <1>1, <1>8 DEF Follows
    <3>3. CASE done[s] # 0
      <4>1. wire[n] = <<s, done[s]>>
        BY <3>1, <3>3, <1>7 DEF PiecesOK
      <4> QED
        BY <2>1, <3>1, <4>1, <1>1, <1>8 DEF Follows
    <3> QED
      BY <3>2, <3>3
  <2>2. CASE i # n
    <3>1. i \in 1 .. n - 1 /\ i + 1 \in 1 .. n
      BY <2>2
    <3>2. Follows(wire[i], wire[i + 1])
      BY <3>1, <1>7 DEF PiecesOK
    <3> QED
      BY <3>1, <3>2, <1>8
  <2> QED
    BY <2>1, <2>2
<1>15. Len(wire') - 1 = n
  BY <1>8
<1> QED
  BY <1>11, <1>13, <1>14, <1>15 DEF PiecesOK

(* CPU2 answers the oldest piece. *)
LEMMA AnsweredStep ==
    ASSUME PortVarsOK, PiecesOK, Answered
    PROVE  PortVarsOK' /\ PiecesOK'
<1> DEFINE Piece == Senders \X (1 .. MaxPieces)
<1>1. wire \in Seq(Piece) /\ wire # <<>> /\ wire' = Tail(wire)
  BY DEF PortVarsOK, Answered
<1>2. PICK n \in Nat : n = Len(wire)
  BY <1>1, LenProperties
<1>3. /\ wire' \in Seq(Piece) /\ Len(wire') = n - 1 /\ n > 0
      /\ \A i \in 1 .. n - 1 : wire'[i] = wire[i + 1]
  BY <1>1, <1>2, HeadTailProperties, EmptyList
<1>4. UNCHANGED <<exists, up, pending, calling, lock, todo, done>>
  BY DEF Answered, chain
<1>5. PortVarsOK'
  <2>1. Len(wire') <= PoolSize
    BY <1>2, <1>3, PortAssumption DEF PortVarsOK
  <2> QED
    BY <1>3, <1>4, <2>1 DEF PortVarsOK
<1>6. wire' # <<>> => n - 1 \in 1 .. n - 1 /\ (n - 1) + 1 = n
  BY <1>3, EmptyList
<1>7. ASSUME NEW s \in Senders, done'[s] # 0, wire' # <<>>
      PROVE  wire'[Len(wire')] = <<s, done'[s]>>
  <2>1. wire[n] = <<s, done[s]>>
    BY <1>1, <1>2, <1>4, <1>7 DEF PiecesOK
  <2>2. wire'[n - 1] = wire[n]
    BY <1>3, <1>6, <1>7
  <2> QED
    BY <2>1, <2>2, <1>3, <1>4
<1>8. ASSUME NEW i \in 1 .. Len(wire') - 1
      PROVE  Follows(wire'[i], wire'[i + 1])
  <2>1. i \in 1 .. n - 1 /\ i + 1 \in 1 .. n - 1
    BY <1>3, <1>8
  <2>2. wire'[i] = wire[i + 1] /\ wire'[i + 1] = wire[(i + 1) + 1]
    BY <2>1, <1>3
  <2>3. Follows(wire[i + 1], wire[(i + 1) + 1])
    BY <2>1, <1>2 DEF PiecesOK
  <2> QED
    BY <2>2, <2>3
<1>9. \A s \in Senders : done'[s] # 0 => lock' = s
  BY <1>4 DEF PiecesOK
<1> QED
  BY <1>5, <1>7, <1>8, <1>9 DEF PiecesOK

(* The other steps of a send test the status, take the lock, and give it   *)
(* back.                                                                   *)
LEMMA SendStep ==
    ASSUME PortVarsOK, PiecesOK, NEW s \in Senders,
           Send(s) \/ \E n \in 1 .. MaxPieces : SendTest(s, n)
    PROVE  PortVarsOK' /\ PiecesOK'
<1>1. ASSUME NEW n \in 1 .. MaxPieces, SendTest(s, n)
      PROVE  PortVarsOK' /\ PiecesOK'
  <2>1. /\ UNCHANGED <<exists, up, pending, calling, lock, done, wire>>
        /\ todo' = [todo EXCEPT ![s] = n]
    BY <1>1 DEF SendTest, chain
  <2>2. n \in 0 .. MaxPieces
    BY PortAssumption
  <2>3. todo' \in [Senders -> 0 .. MaxPieces]
    BY <2>1, <2>2 DEF PortVarsOK
  <2> QED
    BY <2>1, <2>3 DEF PortVarsOK, PiecesOK
<1>2. CASE SendLock(s)
  <2>1. /\ UNCHANGED <<exists, up, pending, calling, todo, done, wire>>
        /\ lock = NULL /\ lock' = s
    BY <1>2 DEF SendLock, LockFree, chain
  <2>2. \A q \in Senders : done[q] = 0
    BY <2>1, PortAssumption DEF PiecesOK
  <2> QED
    BY <2>1, <2>2 DEF PortVarsOK, PiecesOK
<1>3. CASE SendEnd(s)
  <2>1. /\ UNCHANGED <<exists, up, pending, calling, wire>>
        /\ lock = s /\ lock' = NULL
        /\ todo' = [todo EXCEPT ![s] = 0] /\ done' = [done EXCEPT ![s] = 0]
    BY <1>3 DEF SendEnd, chain
  <2>2. todo' \in [Senders -> 0 .. MaxPieces] /\ done' \in [Senders -> 0 .. MaxPieces]
    BY <2>1, PortAssumption DEF PortVarsOK
  <2>3. \A q \in Senders : done'[q] = 0
    BY <2>1 DEF PiecesOK, PortVarsOK
  <2> QED
    BY <2>1, <2>2, <2>3 DEF PortVarsOK, PiecesOK
<1> QED
  BY <1>1, <1>2, <1>3, SendPieceStep DEF Send

(* The steps of the dispatch thread, of the threads that come and go, and  *)
(* of CPU2 leave the sends alone.                                          *)
LEMMA DispatchStep ==
    ASSUME PortInv,
           \/ \E n \in Clients : Leave(n)
           \/ \E n \in Clients \cup {NULL} : Get(n)
           \/ \E cmd \in Commands : Request(cmd)
           \/ Dispatch
    PROVE  PortVarsOK' /\ PiecesOK'
<1>0. pending \in Seq(Commands) /\ Len(pending) \in Nat
  BY LenProperties DEF PortInv, PortVarsOK
<1>1. UNCHANGED data
  BY DEF Leave, Get, Request, Dispatch, Refuse, Handle, Callback, GiveBack
<1>2. PiecesOK'
  BY <1>1 DEF data, PortInv, PiecesOK
<1>3. exists' \in BOOLEAN /\ up' \in BOOLEAN
  BY DEF Leave, Get, Request, Dispatch, Refuse, Handle, UpAfter, Callback, GiveBack,
         PortInv, PortVarsOK
<1>4. /\ pending' \in Seq(Commands) /\ Len(pending') <= MaxPending
      /\ calling' => pending' # <<>>
  <2> DEFINE Pending == /\ pending' \in Seq(Commands) /\ Len(pending') <= MaxPending
                        /\ calling' => pending' # <<>>
  <2>1. ASSUME NEW cmd \in Commands, Request(cmd)
        PROVE  Pending
    <3>1. pending' = Append(pending, cmd) /\ Len(pending) < MaxPending
      BY <2>1 DEF Request
    <3>2. pending' \in Seq(Commands) /\ Len(pending') = Len(pending) + 1 /\ pending' # <<>>
      BY <1>0, <3>1, AppendProperties
    <3> QED
      BY <1>0, <3>1, <3>2, PortAssumption
  <2>2. CASE Refuse \/ GiveBack
    <3>1. pending' = Tail(pending) /\ pending # <<>> /\ calling' = FALSE
      BY <2>2 DEF Refuse, GiveBack, CallEnd, chain, PortInv, PortVarsOK, ChainInv, ChainVarsOK
    <3>2. /\ pending' \in Seq(Commands) /\ Len(pending') = Len(pending) - 1
          /\ Len(pending) \in Nat
      BY <1>0, <3>1, HeadTailProperties, LenProperties
    <3>3. Len(pending') <= MaxPending
      BY <3>2, PortAssumption DEF PortInv, PortVarsOK
    <3> QED
      BY <3>1, <3>2, <3>3
  <2>3. CASE Handle
    BY <2>3 DEF Handle, PortInv, PortVarsOK
  <2>4. CASE Callback \/ \E n \in Clients : Leave(n)
    <3>1. UNCHANGED <<calling, pending>>
      BY <2>4 DEF Callback, CallNext, Leave, Unregister
    <3> QED
      BY <3>1 DEF PortInv, PortVarsOK
  <2>5. ASSUME NEW n \in Clients \cup {NULL}, Get(n)
        PROVE  Pending
    <3>1. UNCHANGED <<calling, pending>>
      BY <2>5 DEF Get, Register, chain
    <3> QED
      BY <3>1 DEF PortInv, PortVarsOK
  <2> QED
    BY <2>1, <2>2, <2>3, <2>4, <2>5 DEF Dispatch
<1> QED
  BY <1>1, <1>2, <1>3, <1>4 DEF data, PortInv, PortVarsOK

(* The invariant holds of every port. *)
THEOREM PortInvariance == Spec => []PortInv
<1>1. Init => PortInv
  <2> SUFFICES ASSUME Init PROVE PortInv
    OBVIOUS
  <2>1. ChainInv
    BY ChainInitStep DEF Init
  <2>2. PortVarsOK
    <3>1. Len(pending) = 0 /\ Len(wire) = 0 /\ pending \in Seq(Commands)
          /\ wire \in Seq(Senders \X (1 .. MaxPieces))
      BY EmptySeq DEF Init
    <3>2. todo \in [Senders -> 0 .. MaxPieces] /\ done \in [Senders -> 0 .. MaxPieces]
      BY PortAssumption DEF Init
    <3>3. ~calling /\ exists \in BOOLEAN /\ up \in BOOLEAN /\ lock = NULL
      BY DEF Init, ChainInit
    <3> QED
      BY <3>1, <3>2, <3>3, PortAssumption DEF PortVarsOK
  <2>3. PiecesOK
    BY DEF Init, PiecesOK
  <2> QED
    BY <2>1, <2>2, <2>3 DEF PortInv
<1>2. PortInv /\ [Next]_vars => PortInv'
  <2> SUFFICES ASSUME PortInv, [Next]_vars PROVE PortInv'
    OBVIOUS
  <2>1. ChainInv'
    BY PortChainStep, ChainStep DEF PortInv
  <2>2. CASE UNCHANGED vars
    <3>1. UNCHANGED <<calling, exists, up, pending, lock, todo, done, wire>>
      BY <2>2 DEF vars, chain, data
    <3>2. PortVarsOK'
      BY <3>1 DEF PortInv, PortVarsOK
    <3>3. PiecesOK'
      BY <3>1 DEF PortInv, PiecesOK
    <3> QED
      BY <2>1, <3>2, <3>3 DEF PortInv
  <2>3. CASE Next
    <3>1. ASSUME NEW s \in Senders, Send(s) \/ \E n \in 1 .. MaxPieces : SendTest(s, n)
          PROVE  PortInv'
      BY <2>1, <3>1, SendStep DEF PortInv
    <3>2. CASE Answered
      BY <2>1, <3>2, AnsweredStep DEF PortInv
    <3>3. CASE \/ \E n \in Clients : Leave(n)
               \/ \E n \in Clients \cup {NULL} : Get(n)
               \/ \E cmd \in Commands : Request(cmd)
               \/ Dispatch
      BY <2>1, <3>3, DispatchStep DEF PortInv
    <3> QED
      BY <2>3, <3>1, <3>2, <3>3 DEF Next
  <2> QED
    BY <2>2, <2>3
<1> QED
  BY <1>1, <1>2, PTL DEF Spec

(* The pieces of a send are never mixed with those of another on their way *)
(* to CPU2 (mf_mbserial.c 187-219).                                        *)
THEOREM PiecesAlwaysTogether == Spec => []PiecesTogether
<1>1. PortInv => PiecesTogether
  <2> SUFFICES ASSUME PortInv PROVE PiecesTogether
    OBVIOUS
  <2>1. ChainTypeOK
    BY ChainMeans DEF PortInv, ChainSorted
  <2>2. Range(pending) \subseteq Commands /\ Range(wire) \subseteq Senders \X (1 .. MaxPieces)
    BY DEF PortInv, PortVarsOK, Range
  <2> QED
    BY <2>1, <2>2 DEF PortInv, PortVarsOK, PiecesOK, Follows, TypeOK, PiecesTogether
<1> QED
  BY <1>1, PortInvariance, PTL

=============================================================================
