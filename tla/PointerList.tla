---------------------------- MODULE PointerList ----------------------------
(***************************************************************************)
(* A singly linked list in memory, as a sequence.                          *)
(***************************************************************************)
EXTENDS Naturals, FiniteSets

(* The elements reached from the pointer first by their fields next, up to *)
(* the null pointer, or the first max of them.                             *)
Elements(first, next, null, max) ==
    LET node[k \in Nat] ==
            IF k = 0 THEN first
            ELSE IF node[k - 1] = null THEN null ELSE next[node[k - 1]]
        len == Cardinality({k \in 1 .. max : node[k - 1] # null})
    IN  [k \in 1 .. len |-> node[k - 1]]

============================================================================
