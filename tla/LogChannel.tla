----------------------------- MODULE LogChannel -----------------------------
(***************************************************************************)
(* The log channel (src/src/mbser_log.c): a ring of characters that keeps  *)
(* the log while CPU2 does not print it.  The ring's indices are unsigned  *)
(* numbers that run on; only their low bits address the buffer.  One       *)
(* thread logs; the mailbox serial thread brings the status of the port    *)
(* (src/src/mf_mbserial.c) and flushes.                                    *)
(***************************************************************************)
EXTENDS Integers, Sequences, SequencesExt

CONSTANTS
    Char,
    LOG_BUFSZ,    \* 4096 in the source
    Modulus,      \* 2^32: indices are counted modulo this
    MaxText,      \* longest text of one mf_LogSend
    PRE_ALLOC_DATA_SIZE,    \* characters in a request block, 512 in the source
    NULL

ASSUME SizeAssumption ==
    /\ LOG_BUFSZ \in Nat \ {0} /\ Modulus \in Nat
    /\ PRE_ALLOC_DATA_SIZE \in Nat \ {0}
    /\ Modulus > LOG_BUFSZ /\ Modulus % (2 * LOG_BUFSZ) = 0
ASSUME NullAssumption == NULL \notin Char

Text == UNION {[1 .. n -> Char] : n \in 1 .. MaxText}

VARIABLES
    log_buf, log_start, log_end,
    can_print,
    up,          \* PORT_STATUS_UP of the port
    text, spc,   \* mf_LogSend: its text, and its place
    npc,         \* log_mbserial_notifier: its place
    rest,        \* <<index, length>> of what a flush has still to send
    out, taken   \* what this step passed to the port; what the port took

ring == <<log_buf, log_start, log_end>>
vars == <<ring, can_print, up, text, spc, npc, rest, out, taken>>

(* mf_log_init: malloc does not clear the buffer, NULL is what it holds.   *)
Init ==
    /\ log_buf = [i \in 0 .. LOG_BUFSZ - 1 |-> NULL]
    /\ log_start = 0 /\ log_end = 0
    /\ can_print = FALSE /\ up = FALSE
    /\ text = <<>> /\ spc = "idle" /\ npc = "idle"
    /\ rest = <<0, 0>>
    /\ out = <<>> /\ taken = <<>>

-----------------------------------------------------------------------------
(* mf_mbserial_send, behind its test of the status: a full request block   *)
(* after the other, until the text ends or there is no free block.  The    *)
(* pool is that of all ports, so it may be empty at any time.              *)
Send(s) ==
    /\ out' = s
    /\ \E n \in 0 .. Len(s) :
          /\ n = Len(s) \/ n % PRE_ALLOC_DATA_SIZE = 0
          /\ taken' = SubSeq(s, 1, n)

Quiet == out' = <<>> /\ taken' = <<>>

(* mf_LogSend tests can_print: a direct send does not touch the ring.      *)
LogSend(s) ==
    /\ spc = "idle"
    /\ text' = s
    /\ spc' = IF can_print THEN "direct" ELSE "cache"
    /\ Quiet /\ UNCHANGED <<ring, can_print, up, npc, rest>>

(* mf_mbserial_send looks at the status without a lock, ... *)
TestStatus ==
    /\ spc = "direct"
    /\ IF up THEN spc' = "put" /\ UNCHANGED text
             ELSE spc' = "idle" /\ text' = <<>>
    /\ Quiet /\ UNCHANGED <<ring, can_print, up, npc, rest>>

(* ... then it sends, between two sends of a flush or before or after.     *)
Direct ==
    /\ spc = "put"
    /\ Send(text)
    /\ spc' = "idle" /\ text' = <<>>
    /\ UNCHANGED <<ring, can_print, up, npc, rest>>

(* emit_log_char: the oldest character gives way when the ring is full. *)
StartAfter(start, end) ==
    IF (end - start) % Modulus > LOG_BUFSZ THEN (end - LOG_BUFSZ) % Modulus
    ELSE start

Emit(r, c) ==
    LET end == (r.end + 1) % Modulus IN
    [buf   |-> [r.buf EXCEPT ![r.end % LOG_BUFSZ] = c],
     start |-> StartAfter(r.start, end),
     end   |-> end]

(* cache_log_buf; the lock is held by a flush between its two sends.       *)
CacheLogBuf ==
    /\ spc = "cache" /\ npc # "second"
    /\ LET new == FoldLeft(Emit, [buf |-> log_buf, start |-> log_start,
                                  end |-> log_end], text)
       IN  /\ log_buf' = new.buf
           /\ log_start' = new.start
           /\ log_end' = new.end
    /\ spc' = "idle" /\ text' = <<>>
    /\ Quiet /\ UNCHANGED <<can_print, up, npc, rest>>

-----------------------------------------------------------------------------
(* The length of mf_mbserial_send is an int: an unsigned difference above  *)
(* Modulus / 2 is negative there, and nothing is sent.                     *)
Piece(p) ==
    [k \in 1 .. (IF p[2] < Modulus \div 2 THEN p[2] ELSE 0)
       |-> log_buf[(p[1] % LOG_BUFSZ) + k - 1]]

AlignUp(i) ==
    LET last == (i + LOG_BUFSZ - 1) % Modulus IN last - (last % LOG_BUFSZ)

(* The operators named ...Fault are not the program: each is a definition  *)
(* with one mistake in it, which a property of this module excludes.       *)
SecondFault(start, end) == <<start, 0>>     \* the second piece is forgotten

(* What flush_log_buf sends of a range first, and what after it: what lies *)
(* behind the end of the buffer goes out as a second piece.                *)
First(start, end) ==
    LET boundary == AlignUp(start)
    IN  <<start, (IF boundary < end THEN boundary - start ELSE end - start) % Modulus>>
Second(start, end) ==
    LET boundary == AlignUp(start)
    IN  <<boundary, IF boundary < end THEN (end - boundary) % Modulus ELSE 0>>

(* flush_log_buf takes the lock and all there is, and sends: the port is   *)
(* up, because the thread that would change that is the one that flushes.  *)
FlushLogBuf ==
    /\ npc = "flush" /\ log_start # log_end
    /\ Send(Piece(First(log_start, log_end)))
    /\ rest' = Second(log_start, log_end)
    /\ log_start' = log_end
    /\ npc' = "second"
    /\ UNCHANGED <<log_buf, log_end, can_print, up, text, spc>>

(* The second send, if there is one; then it looks again. *)
FlushSecond ==
    /\ npc = "second"
    /\ Send(Piece(rest))
    /\ rest' = <<0, 0>>
    /\ npc' = "flush"
    /\ UNCHANGED <<ring, can_print, up, text, spc>>

(* The ring is empty when flush_log_buf returns; MBSERIAL_EVENT_STARTUP    *)
(* sets can_print only then, and text may be cached in between.            *)
FlushDone ==
    /\ npc = "flush" /\ log_start = log_end
    /\ npc' = "open"
    /\ Quiet /\ UNCHANGED <<ring, can_print, up, text, spc, rest>>

Open ==
    /\ npc = "open"
    /\ can_print' = TRUE
    /\ npc' = "idle"
    /\ Quiet /\ UNCHANGED <<ring, up, text, spc, rest>>

(* MBSERIAL_CMD_STARTUP and SHUTDOWN change the status of the port, then   *)
(* call the notifier.                                                      *)
Startup ==
    /\ npc = "idle"
    /\ up' = TRUE
    /\ npc' = "flush"
    /\ Quiet /\ UNCHANGED <<ring, can_print, text, spc, rest>>

Shutdown ==
    /\ npc = "idle"
    /\ up' = FALSE
    /\ npc' = "close"
    /\ Quiet /\ UNCHANGED <<ring, can_print, text, spc, rest>>

Close ==
    /\ npc = "close"
    /\ can_print' = FALSE
    /\ npc' = "idle"
    /\ Quiet /\ UNCHANGED <<ring, up, text, spc, rest>>

-----------------------------------------------------------------------------
Next ==
    \/ \E s \in Text : LogSend(s)
    \/ TestStatus \/ Direct \/ CacheLogBuf
    \/ Startup \/ FlushLogBuf \/ FlushSecond \/ FlushDone \/ Open
    \/ Shutdown \/ Close

Spec == Init /\ [][Next]_vars

-----------------------------------------------------------------------------
(* The type invariant: the two indices stay one buffer apart at most, and  *)
(* what a flush has still to send lies in the buffer, or is nothing.       *)
TypeOK ==
    /\ log_buf \in [0 .. LOG_BUFSZ - 1 -> Char \cup {NULL}]
    /\ log_start \in 0 .. Modulus - 1
    /\ log_end \in 0 .. Modulus - 1
    /\ (log_end - log_start) % Modulus <= LOG_BUFSZ
    /\ can_print \in BOOLEAN /\ up \in BOOLEAN
    /\ text \in Text \cup {<<>>}
    /\ spc \in {"idle", "direct", "put", "cache"}
    /\ npc \in {"idle", "flush", "second", "open", "close"}
    /\ \A k \in DOMAIN Piece(rest) : Piece(rest)[k] \in Char

(* The ring keeps the last LOG_BUFSZ characters, and a flush passes just   *)
(* these to the port, in order, wherever they lie around the end of the    *)
(* buffer, though it does so in two sends and other texts may go between   *)
(* them.  What the port does not take, for want of request blocks, is lost *)
(* to either.  The comment in flush_log_buf (mbser_log.c 55-58) has one    *)
(* exception that it does not know of: when start and end both lie in the  *)
(* last LOG_BUFSZ indices before they wrap around to 0, boundary is 0,     *)
(* which is smaller than end, and the flush takes the range for one that   *)
(* crosses.  A range that does run across the wrap is sent rightly.        *)
Content ==
    Piece(rest) \o
    [k \in 1 .. (log_end - log_start) % Modulus
       |-> log_buf[(log_start + k - 1) % LOG_BUFSZ]]
JustBeforeWrap == log_start > Modulus - LOG_BUFSZ /\ log_start < log_end
Buffer == INSTANCE LogBuffer WITH Size <- LOG_BUFSZ, content <- Content
ImplementsLogBuffer ==
    /\ []TypeOK
    /\ Buffer!Init
    /\ [][Buffer!Next \/ (JustBeforeWrap /\ Content' = <<>>)]_<<Content, out, taken>>

=============================================================================
