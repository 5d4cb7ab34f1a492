----------------------------- MODULE AtChannel -----------------------------
(***************************************************************************)
(* The AT command channel (src/src/mbser_at.c) on its mailbox serial port  *)
(* (src/src/mf_mbserial.c).  While the remote end is not up, commands go   *)
(* into a cache; the STARTUP event flushes the cache and then opens the    *)
(* channel for direct sends.  Events arrive in the mailbox serial thread,  *)
(* commands in any thread.                                                 *)
(*                                                                         *)
(* A command is one datum that fills one request block.  The cache is a    *)
(* bounded buffer that drops the oldest data: module LogChannel has the    *)
(* index arithmetic of such a ring.                                        *)
(***************************************************************************)
EXTENDS Naturals, Sequences, FiniteSets, Functions

CONSTANTS
    Commands,     \* what threads send
    Senders,      \* threads that call mf_ATSend
    Notifier,     \* the mailbox serial thread
    CacheLen,     \* commands that fit into atsend_buf
    PoolSize,     \* request blocks of the port's reserve pool
    NULL

ASSUME ChannelAssumption ==
    /\ Notifier \notin Senders
    /\ NULL \notin Senders \cup {Notifier} \cup Commands
    /\ CacheLen \in Nat \ {0} /\ PoolSize \in Nat

Thread == Senders \cup {Notifier}

VARIABLES
    up,           \* PORT_STATUS_UP of the port
    can_send,
    cache,        \* contents of atsend_buf, oldest first
    lock, batch,  \* owner of lock; what the owner took out of the cache
    sent,         \* commands in requests on their way to CPU2
    admitted,     \* threads in mf_mbserial_send that found the port up
    pc, cmd       \* thread: its place; the command of its mf_ATSend

vars == <<up, can_send, cache, lock, batch, sent, admitted, pc, cmd>>

Init ==
    /\ up = FALSE
    /\ can_send = FALSE
    /\ cache = <<>>
    /\ lock = NULL
    /\ batch = <<>>
    /\ sent = <<>>
    /\ admitted = {}
    /\ pc = [t \in Thread |-> "idle"]
    /\ cmd = [t \in Thread |-> NULL]

(* A command is a token that is at one place: one that was delivered or    *)
(* dropped may be sent again.                                              *)
Unsent == Commands \ (Range(sent) \cup Range(batch) \cup Range(cache) \cup Range(cmd))

At(t, place) == pc' = [pc EXCEPT ![t] = place]

-----------------------------------------------------------------------------
(* mf_mbserial_send looks at the status of the port first, without a lock: *)
(* at "direct" from mf_ATSend, at "send" and "rest" from a flush.         *)
Tested == [direct |-> "put", send |-> "first", rest |-> "last"]
TestStatus(t) ==
    /\ pc[t] \in DOMAIN Tested
    /\ admitted' = IF up THEN admitted \cup {t} ELSE admitted
    /\ At(t, Tested[pc[t]])
    /\ UNCHANGED <<up, can_send, cache, lock, batch, sent, cmd>>

(* Then, under the lock of the port, it sends as much as there are request *)
(* blocks for; nothing is sent if the port was down.                       *)
Free == PoolSize - Len(sent)
Transmit(t, s) ==
    /\ sent' = IF t \in admitted
               THEN sent \o SubSeq(s, 1, IF Len(s) < Free THEN Len(s) ELSE Free)
               ELSE sent
    /\ admitted' = admitted \ {t}

(* mf_ATSend tests can_send ... *)
Call(t, c) ==
    /\ pc[t] = "idle" /\ c \in Unsent
    /\ cmd' = [cmd EXCEPT ![t] = c]
    /\ At(t, IF can_send THEN "direct" ELSE "cache")
    /\ UNCHANGED <<up, can_send, cache, lock, batch, sent, admitted>>

(* ... and sends the command ... *)
Direct(t) ==
    /\ pc[t] = "put"
    /\ Transmit(t, <<cmd[t]>>)
    /\ cmd' = [cmd EXCEPT ![t] = NULL]
    /\ At(t, "idle")
    /\ UNCHANGED <<up, can_send, cache, lock, batch>>

(* ... or puts it into the cache, whose oldest data give way if need be.   *)
CacheSend(t) ==
    /\ pc[t] = "cache" /\ lock = NULL
    /\ LET all == Append(cache, cmd[t]) IN
         cache' = IF Len(all) > CacheLen THEN Tail(all) ELSE all
    /\ cmd' = [cmd EXCEPT ![t] = NULL]
    /\ At(t, "recheck")
    /\ UNCHANGED <<up, can_send, lock, batch, sent, admitted>>

(* The operators named ...Fault are not the program: each is a definition  *)
(* with one mistake in it, which a property of this module excludes.       *)
RecheckFault(t) ==          \* returns at once
    /\ pc[t] = "recheck"
    /\ At(t, "idle")
    /\ UNCHANGED <<up, can_send, cache, lock, batch, sent, admitted, cmd>>

(* cache_atsend_buffer flushes if the channel has opened in the meantime.  *)
Recheck(t) ==
    /\ pc[t] = "recheck"
    /\ At(t, IF can_send THEN "flush" ELSE "idle")
    /\ UNCHANGED <<up, can_send, cache, lock, batch, sent, admitted, cmd>>

-----------------------------------------------------------------------------
(* flush_buffered_at, in a sender or in the notifier: take all there is    *)
(* under the lock, send it in one piece or, if it crosses the end of the   *)
(* ring, in two, and look again.                                           *)
FlushTakeFault(t) ==        \* the cache is not emptied
    /\ pc[t] = "flush" /\ lock = NULL /\ cache # <<>>
    /\ lock' = t
    /\ batch' = cache
    /\ At(t, "send")
    /\ UNCHANGED <<up, can_send, cache, sent, admitted, cmd>>

FlushTake(t) ==
    /\ pc[t] = "flush" /\ lock = NULL /\ cache # <<>>
    /\ lock' = t
    /\ batch' = cache
    /\ cache' = <<>>
    /\ At(t, "send")
    /\ UNCHANGED <<up, can_send, sent, admitted, cmd>>

FlushFirstFault(t, n) ==    \* the part behind the boundary goes first
    /\ pc[t] = "first" /\ n < Len(batch)
    /\ Transmit(t, SubSeq(batch, n + 1, Len(batch)))
    /\ batch' = SubSeq(batch, 1, n)
    /\ At(t, "rest")
    /\ UNCHANGED <<up, can_send, cache, lock, cmd>>

FlushFirst(t, n) ==
    /\ pc[t] = "first" /\ n < Len(batch)
    /\ Transmit(t, SubSeq(batch, 1, n))
    /\ batch' = SubSeq(batch, n + 1, Len(batch))
    /\ At(t, "rest")
    /\ UNCHANGED <<up, can_send, cache, lock, cmd>>

FlushLast(t) ==
    /\ pc[t] \in {"first", "last"}
    /\ Transmit(t, batch)
    /\ batch' = <<>>
    /\ lock' = NULL
    /\ At(t, "flush")
    /\ UNCHANGED <<up, can_send, cache, cmd>>

FlushDoneFault(t) ==        \* does not look again
    /\ pc[t] = "flush" /\ lock = NULL
    /\ At(t, IF t = Notifier THEN "open" ELSE "idle")
    /\ UNCHANGED <<up, can_send, cache, lock, batch, sent, admitted, cmd>>

FlushDone(t) ==
    /\ pc[t] = "flush" /\ lock = NULL /\ cache = <<>>
    /\ At(t, IF t = Notifier THEN "open" ELSE "idle")
    /\ UNCHANGED <<up, can_send, cache, lock, batch, sent, admitted, cmd>>

-----------------------------------------------------------------------------
(* handle_mbserial_request: MBSERIAL_CMD_STARTUP and SHUTDOWN change the   *)
(* status of the port, then call at_mbserial_notifier.                     *)
Startup ==
    /\ pc[Notifier] = "idle"
    /\ up' = TRUE
    /\ At(Notifier, "flush")
    /\ UNCHANGED <<can_send, cache, lock, batch, sent, admitted, cmd>>

Open ==
    /\ pc[Notifier] = "open"
    /\ can_send' = TRUE
    /\ At(Notifier, "idle")
    /\ UNCHANGED <<up, cache, lock, batch, sent, admitted, cmd>>

Shutdown ==
    /\ pc[Notifier] = "idle"
    /\ up' = FALSE
    /\ At(Notifier, "close")
    /\ UNCHANGED <<can_send, cache, lock, batch, sent, admitted, cmd>>

Close ==
    /\ pc[Notifier] = "close"
    /\ can_send' = FALSE
    /\ At(Notifier, "idle")
    /\ UNCHANGED <<up, cache, lock, batch, sent, admitted, cmd>>

(* CPU2 answers a request, put_mreqb returns the block to the pool         *)
(* (external: module Micproto).                                            *)
Deliver ==
    /\ sent # <<>>
    /\ sent' = Tail(sent)
    /\ UNCHANGED <<up, can_send, cache, lock, batch, admitted, pc, cmd>>

-----------------------------------------------------------------------------
Flush(t) == \/ FlushTake(t) \/ FlushLast(t) \/ FlushDone(t)
            \/ \E n \in 1 .. CacheLen : FlushFirst(t, n)
SenderStep(t) == TestStatus(t) \/ Direct(t) \/ CacheSend(t) \/ Recheck(t) \/ Flush(t)
NotifierStep  == Open \/ Close \/ TestStatus(Notifier) \/ Flush(Notifier)

Next ==
    \/ \E t \in Senders : SenderStep(t) \/ \E c \in Commands : Call(t, c)
    \/ Startup \/ Shutdown \/ NotifierStep
    \/ Deliver

Spec == Init /\ [][Next]_vars

(* Ready threads run, and the mutex goes to every thread that waits for it *)
(* in its turn; nobody has to send, start up or shut down.                 *)
FairSpec ==
    /\ Spec
    /\ \A t \in Senders : SF_vars(SenderStep(t))
    /\ SF_vars(NotifierStep)

-----------------------------------------------------------------------------
(* The type invariant. *)
TypeOK ==
    /\ up \in BOOLEAN /\ can_send \in BOOLEAN
    /\ cache \in Seq(Commands) /\ Len(cache) <= CacheLen
    /\ lock \in Thread \cup {NULL}
    /\ batch \in Seq(Commands)
    /\ sent \in Seq(Commands) /\ Len(sent) <= PoolSize
    /\ admitted \subseteq Thread
    /\ pc \in [Thread -> {"idle", "direct", "put", "cache", "recheck", "flush",
                          "send", "first", "rest", "last", "open", "close"}]
    /\ cmd \in [Thread -> Commands \cup {NULL}]

Stream == sent \o batch \o cache

(* No command is sent twice, although the sender that finds the channel    *)
(* open after it cached its command and the notifier may flush the same    *)
(* cache: a command is at one place, and the batch belongs to the thread   *)
(* that holds the lock.                                                    *)
SentOnce ==
    /\ TypeOK
    /\ IsInjective(Stream)
    /\ Range(Stream) \cap Range(cmd) = {}
    /\ {t \in Thread : pc[t] \in {"send", "first", "rest", "last"}} = {lock} \ {NULL}
    /\ lock = NULL => batch = <<>>

(* Of two commands on their way - in requests, in the batch of a flush, in *)
(* the cache - the one in front stays in front: neither the two pieces of  *)
(* a flush nor two flushes change the order.  It is not the order of the   *)
(* calls of mf_ATSend: a direct send comes in in front of the batch and    *)
(* the cache, and so overtakes commands that were cached before it.        *)
Before(a, b) == \E i, j \in DOMAIN Stream : i < j /\ Stream[i] = a /\ Stream[j] = b
NeverOvertaken ==
    [][\A a, b \in Commands : Before(a, b) => ~ Before(b, a)']_vars

(* What is in the cache when the remote end starts up leaves it.           *)
StartupFlushes ==
    \A c \in Commands :
        (c \in Range(cache) /\ pc[Notifier] = "flush") ~> c \notin Range(cache)

(* The comment on cache_atsend_buffer says that commands are in the cache  *)
(* because the channel is unavailable.  They can be in the cache of an     *)
(* open channel with nobody about to flush it (until the next start up),   *)
(* but in one way only: they came between the flush of a start up and its  *)
(* can_send = 1 (mbser_at.c 233-234), and looked again before that.        *)
Flushing == {t \in Thread : pc[t] \in {"cache", "recheck", "flush",
                                      "send", "first", "rest", "last"}}
Stranded == can_send /\ cache # <<>> /\ Flushing = {}
StrandedOnlyByOpen ==
    [][~ Stranded /\ Stranded' => pc[Notifier] = "open" /\ ~ can_send]_vars

=============================================================================
