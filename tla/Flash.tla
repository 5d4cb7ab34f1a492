------------------------------- MODULE Flash -------------------------------
(***************************************************************************)
(* What CPU2 relies on when it sends NAND requests: they are served one    *)
(* after the other in the order they were sent, a cell that was erased and *)
(* then written holds what was written, and a request disturbs no cell but *)
(* its own.  Of a cell written twice nothing is promised.                  *)
(***************************************************************************)
EXTENDS Naturals, Sequences

CONSTANTS
    Page, Column,       \* pages of the chip, columns of a page
    Erased,             \* what an erased column holds
    Request,            \* requests CPU2 sends
    Range(_),           \* columns a request covers
    Block(_)            \* pages a request's erase block has

VARIABLES
    queue,              \* requests sent and not served
    mem,                \* the cells
    ans                 \* answer to the last request: its ret, and for a read
                        \* what was read, the request with it

Init ==
    /\ queue = <<>>
    /\ mem = [p \in Page |-> [c \in Column |-> Erased]]
    /\ ans = <<>>

Send == \E r \in Request : queue' = Append(queue, r) /\ UNCHANGED <<mem, ans>>

Only(cells) == \A p \in Page, c \in Column :
                  <<p, c>> \notin cells => mem'[p][c] = mem[p][c]

(* A failed request may leave its own cells in any state. *)
Write(r, ok) ==
    LET cells == IF r.page \in Page THEN {r.page} \X Range(r) ELSE {}
    IN  /\ Only(cells)
        /\ r.page \notin Page => ~ok
        /\ ok => \A x \in cells : mem[x[1]][x[2]] = Erased => mem'[x[1]][x[2]] = r.value

Erase(r, ok) ==
    LET cells == Block(r) \X Column
    IN  /\ Only(cells)
        /\ ok => \A x \in cells : mem'[x[1]][x[2]] = Erased

Serve ==
    /\ queue # <<>> /\ queue' = Tail(queue)
    /\ ans' # <<>>
    /\ LET r == Head(queue)
           ok == ans'.ret = 0
       IN  CASE r.cmd = "WRITEPAGE" -> Write(r, ok)
             [] r.cmd = "ERASEBLOCK" -> Erase(r, ok)
             [] r.cmd = "READPAGE" ->
                  /\ UNCHANGED mem
                  /\ ok => ans'.read = [c \in Range(r) |-> mem[r.page][c]]
             [] r.cmd \in {"READID", "GETINFO", "CHIPSELECT"} -> UNCHANGED mem
             [] OTHER -> UNCHANGED mem /\ ~ok

Answered == ans # <<>> /\ ans' = <<>> /\ UNCHANGED <<queue, mem>>

Next == Send \/ Serve \/ Answered

Spec == Init /\ [][Next]_<<queue, mem, ans>>

============================================================================
