----------------------------- MODULE FifoQueue -----------------------------
(***************************************************************************)
(* What a queue between threads promises: an item that was put is taken    *)
(* exactly once, and items are taken in the order they were put.  Modules  *)
(* NbufQueue and P4aMbox are shown to implement this specification.        *)
(***************************************************************************)
EXTENDS Sequences

CONSTANT Item

VARIABLES
    items,     \* put and not yet taken, oldest first
    outside    \* the items that are not in the queue

vars == <<items, outside>>

Init == items = <<>> /\ outside = Item

Put(x) ==
    /\ x \in outside
    /\ items' = Append(items, x)
    /\ outside' = outside \ {x}

Take ==
    /\ items # <<>>
    /\ items' = Tail(items)
    /\ outside' = outside \cup {Head(items)}

Next == Take \/ \E x \in Item : Put(x)

Spec == Init /\ [][Next]_vars

=============================================================================
