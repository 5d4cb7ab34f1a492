----------------------------- MODULE LogBuffer -----------------------------
(***************************************************************************)
(* What the log cache promises: it keeps the last Size characters that     *)
(* were logged and hands all of them, in order, to a port that may take    *)
(* less of a piece than it is handed; the rest of that piece is lost.      *)
(***************************************************************************)
EXTENDS Naturals, Sequences

CONSTANTS
    Text,    \* what can be logged at a time: sequences of characters
    Size

VARIABLES
    content,    \* what is cached, oldest first
    out,        \* what this step handed to the port
    taken       \* what the port took of it

Init == content = <<>> /\ out = <<>> /\ taken = <<>>

Last(s) == IF Len(s) <= Size THEN s ELSE SubSeq(s, Len(s) - Size + 1, Len(s))

Hand(s) == out' = s /\ \E n \in 0 .. Len(s) : taken' = SubSeq(s, 1, n)

Log(s) == content' = Last(content \o s) /\ Hand(<<>>)

(* A flush hands over what there is, piece by piece from the front. *)
Flush ==
    \E n \in 1 .. Len(content) :
        /\ Hand(SubSeq(content, 1, n))
        /\ content' = SubSeq(content, n + 1, Len(content))

(* A text may also go past the cache. *)
Pass(s) == Hand(s) /\ UNCHANGED content

Next == Flush \/ \E s \in Text : Log(s) \/ Pass(s) \/ Pass(<<>>)

Spec == Init /\ [][Next]_<<content, out, taken>>

=============================================================================
