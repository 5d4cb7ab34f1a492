------------------------------ MODULE MbNetif ------------------------------
(***************************************************************************)
(* The net interface of CPU1 (src/src/mf_mbnetif.c) and what it shares     *)
(* with its clients: reference counted packet buffers (mf_nbuf.c,          *)
(* mf_memp.c) and a reserve pool of request blocks (mreqb_reservep.c).     *)
(*                                                                         *)
(* The client is the forward thread of project/test/usbwan.c: it transmits *)
(* a buffer and frees its own reference without looking at the result.     *)
(* That a request in flight completes once is what module Micproto shows   *)
(* of the protocol engine; here it may complete at any time.               *)
(***************************************************************************)
EXTENDS Integers, Sequences, FiniteSets, Functions, Nbufs

CONSTANTS
    Reqb,       \* the blocks of req_pool (PREALLOC_MREQB_NUM, 128)
    Clients,    \* threads that transmit
    Workers     \* threads that run completion callbacks

ASSUME NetifAssumption ==
    /\ NULL \notin Reqb
    /\ IsFiniteSet(Nbuf) /\ IsFiniteSet(Reqb)
    /\ IsFiniteSet(Clients) /\ IsFiniteSet(Workers)

MaxArgs == 8    \* argv[8] and cache_update.range[8] of struct mreqb

VARIABLES
    memp, ref,          \* free buffers; the reference counts
    req_pool,           \* the reserve pool's free list
    argc, ranges,       \* block: number of arguments and of cache updates
    context, complete,  \* block: its buffer; its completion callback
    inflight,           \* blocks submitted and not completed
    tpc, tbuf, treq,    \* client: its place, its buffer, the block it waits for
    wbuf,               \* worker: the buffer it is about to free, or NULL
    backlog, fwd        \* forward_backlog; buffer of the forward thread

nbufVars   == <<memp, ref>>
reqbVars   == <<req_pool, argc, ranges, context, complete, inflight>>
clientVars == <<tpc, tbuf, treq>>
rxVars     == <<backlog, fwd>>
vars == <<nbufVars, reqbVars, clientVars, wbuf, rxVars>>

(* mf_memp_init frees every buffer. *)
MempInit == memp = Nbuf

(* mreqb_reservepool_create links its blocks one behind the other. *)
ReservepoolCreate ==
    req_pool = CHOOSE s \in [1 .. Cardinality(Reqb) -> Reqb] : IsInjective(s)

(* mf_netif_init *)
Init ==
    /\ MempInit
    /\ ReservepoolCreate
    /\ ref = [n \in Nbuf |-> 0]
    /\ argc = [r \in Reqb |-> 0]
    /\ ranges = [r \in Reqb |-> 0]
    /\ context = [r \in Reqb |-> NULL]
    /\ complete = [r \in Reqb |-> "none"]
    /\ inflight = {}
    /\ tpc = [t \in Clients |-> "idle"]
    /\ tbuf = [t \in Clients |-> NULL]
    /\ treq = [t \in Clients |-> NULL]
    /\ wbuf = [w \in Workers |-> NULL]
    /\ backlog = <<>>
    /\ fwd = NULL

-----------------------------------------------------------------------------
(* mf_memp_alloc (fails when there is none) and mf_memp_free. *)
MempAlloc(n) == n \in memp /\ memp' = memp \ {n}
MempFree(n) == memp' = memp \cup {n}

(* mf_netbuf_alloc and mf_netbuf_free, under nbuf_lock. *)
NetbufAlloc(n) ==
    /\ MempAlloc(n)
    /\ ref' = [ref EXCEPT ![n] = 1]

NetbufFree(n) ==
    /\ ref' = [ref EXCEPT ![n] = @ - 1]
    /\ IF ref[n] = 1 THEN MempFree(n) ELSE UNCHANGED memp

(* mreqb_reservepool_alloc, the fields set for the request, mreqb_submit.  *)
(* A packet request gets three arguments and one cache update              *)
(* (__BUILD_NET_REQUEST_MREQB), a link indication none.                    *)
SubmitReqb(isPacket, n, callback) ==
    LET r == Head(req_pool) IN
    /\ req_pool # <<>>
    /\ req_pool' = Tail(req_pool)
    /\ argc' = [argc EXCEPT ![r] = IF isPacket THEN @ + 3 ELSE @]
    /\ ranges' = [ranges EXCEPT ![r] = IF isPacket THEN @ + 1 ELSE @]
    /\ context' = [context EXCEPT ![r] = n]
    /\ complete' = [complete EXCEPT ![r] = callback]
    /\ inflight' = inflight \cup {r}

(* mreqb_reinit, then mreqb_reservepool_free puts the block at the tail. *)
Reinit(r) ==
    /\ argc' = [argc EXCEPT ![r] = 0]
    /\ ranges' = [ranges EXCEPT ![r] = 0]
    /\ context' = [context EXCEPT ![r] = NULL]
    /\ complete' = [complete EXCEPT ![r] = "none"]

ReservepoolFree(r) ==
    /\ Reinit(r)
    /\ req_pool' = Append(req_pool, r)

-----------------------------------------------------------------------------
(* Client t gets a buffer and fills it. *)
ClientAlloc(t, n) ==
    /\ tpc[t] = "idle"
    /\ NetbufAlloc(n)
    /\ tpc' = [tpc EXCEPT ![t] = "own"]
    /\ tbuf' = [tbuf EXCEPT ![t] = n]
    /\ UNCHANGED <<reqbVars, treq, wbuf, rxVars>>

(* The operators named ...Fault are not the program: each is a definition  *)
(* with one mistake in it, which a property of this module excludes.       *)
XmitAsyncRefFault(t) ==     \* no reference for the request
    /\ tpc[t] = "own"
    /\ tpc' = [tpc EXCEPT ![t] = "ref"]
    /\ UNCHANGED <<nbufVars, reqbVars, tbuf, treq, wbuf, rxVars>>

(* mf_NetifPacketXmitAsync: mf_netbuf_ref ... *)
XmitAsyncRef(t) ==
    /\ tpc[t] = "own"
    /\ ref' = [ref EXCEPT ![tbuf[t]] = @ + 1]
    /\ tpc' = [tpc EXCEPT ![t] = "ref"]
    /\ UNCHANGED <<memp, reqbVars, tbuf, treq, wbuf, rxVars>>

(* ... then the request goes out ... *)
XmitAsyncSubmit(t) ==
    /\ tpc[t] = "ref"
    /\ SubmitReqb(TRUE, tbuf[t], "xmit_async_complete")
    /\ tpc' = [tpc EXCEPT ![t] = "free"]
    /\ UNCHANGED <<nbufVars, tbuf, treq, wbuf, rxVars>>

(* ... or there is no block for it, and the call returns -1. *)
XmitAsyncFail(t) ==
    /\ tpc[t] = "ref" /\ req_pool = <<>>
    /\ tpc' = [tpc EXCEPT ![t] = "free"]
    /\ UNCHANGED <<nbufVars, reqbVars, tbuf, treq, wbuf, rxVars>>

(* usbwan_forward_thread frees its reference whatever the result was. *)
ClientFree(t) ==
    /\ tpc[t] = "free"
    /\ NetbufFree(tbuf[t])
    /\ tpc' = [tpc EXCEPT ![t] = "idle"]
    /\ tbuf' = [tbuf EXCEPT ![t] = NULL]
    /\ UNCHANGED <<reqbVars, treq, wbuf, rxVars>>

(* mf_NetifLinkupInd, mf_NetifLinkdownInd; without a block they return -1. *)
LinkInd(t) ==
    /\ tpc[t] = "idle"
    /\ SubmitReqb(FALSE, NULL, "recycle_mreqb_resource")
    /\ UNCHANGED <<nbufVars, clientVars, wbuf, rxVars>>

(* mf_NetifPacketXmit: the caller waits, its packet is in its own memory. *)
PacketXmit(t) ==
    /\ tpc[t] = "idle"
    /\ SubmitReqb(TRUE, NULL, "mreqb_blocking_completion")
    /\ treq' = [treq EXCEPT ![t] = Head(req_pool)]
    /\ tpc' = [tpc EXCEPT ![t] = "wait"]
    /\ UNCHANGED <<nbufVars, tbuf, wbuf, rxVars>>

PacketXmitReturnFault(t) == \* does not wait for the answer
    /\ tpc[t] = "wait"
    /\ ReservepoolFree(treq[t])
    /\ treq' = [treq EXCEPT ![t] = NULL]
    /\ tpc' = [tpc EXCEPT ![t] = "idle"]
    /\ UNCHANGED <<nbufVars, inflight, tbuf, wbuf, rxVars>>

PacketXmitReturn(t) ==
    /\ tpc[t] = "wait" /\ treq[t] \notin inflight
    /\ ReservepoolFree(treq[t])
    /\ treq' = [treq EXCEPT ![t] = NULL]
    /\ tpc' = [tpc EXCEPT ![t] = "idle"]
    /\ UNCHANGED <<nbufVars, inflight, tbuf, wbuf, rxVars>>

-----------------------------------------------------------------------------
ContextFault(r) == NULL     \* reads the block after mreqb_reinit cleared it

(* A worker runs the completion of a request.  xmit_async_complete reads   *)
(* the buffer out of the block, returns the block, then frees the buffer.  *)
ContextOf(r) == context[r]

XmitAsyncComplete(w, r) ==
    /\ wbuf[w] = NULL
    /\ r \in inflight /\ complete[r] = "xmit_async_complete"
    /\ inflight' = inflight \ {r}
    /\ wbuf' = [wbuf EXCEPT ![w] = ContextOf(r)]
    /\ ReservepoolFree(r)
    /\ UNCHANGED <<nbufVars, clientVars, rxVars>>

XmitAsyncFree(w) ==
    /\ wbuf[w] # NULL
    /\ NetbufFree(wbuf[w])
    /\ wbuf' = [wbuf EXCEPT ![w] = NULL]
    /\ UNCHANGED <<reqbVars, clientVars, rxVars>>

RecycleFault(w, r) ==       \* the block is not returned
    /\ wbuf[w] = NULL
    /\ r \in inflight /\ complete[r] = "recycle_mreqb_resource"
    /\ inflight' = inflight \ {r}
    /\ UNCHANGED <<nbufVars, req_pool, argc, ranges, context, complete,
                   clientVars, wbuf, rxVars>>

Recycle(w, r) ==
    /\ wbuf[w] = NULL
    /\ r \in inflight /\ complete[r] = "recycle_mreqb_resource"
    /\ inflight' = inflight \ {r}
    /\ ReservepoolFree(r)
    /\ UNCHANGED <<nbufVars, clientVars, wbuf, rxVars>>

BlockingCompletion(w, r) ==
    /\ wbuf[w] = NULL
    /\ r \in inflight /\ complete[r] = "mreqb_blocking_completion"
    /\ inflight' = inflight \ {r}
    /\ UNCHANGED <<nbufVars, req_pool, argc, ranges, context, complete,
                   clientVars, wbuf, rxVars>>

-----------------------------------------------------------------------------
(* handle_new_ip_packet in the input thread: the packet is copied into a   *)
(* buffer and queued; it is dropped if there is no buffer.                 *)
NewIpPacket(n) ==
    /\ NetbufAlloc(n)
    /\ backlog' = Append(backlog, n)
    /\ UNCHANGED <<reqbVars, clientVars, wbuf, fwd>>

(* netbuf_forward_thread: mf_netif_rx hands the packet up and frees it. *)
ForwardGet ==
    /\ fwd = NULL /\ backlog # <<>>
    /\ fwd' = Head(backlog)
    /\ backlog' = Tail(backlog)
    /\ UNCHANGED <<nbufVars, reqbVars, clientVars, wbuf>>

NetifRxFault ==             \* the packet is not freed
    /\ fwd # NULL
    /\ fwd' = NULL
    /\ UNCHANGED <<nbufVars, reqbVars, clientVars, wbuf, backlog>>

NetifRx ==
    /\ fwd # NULL
    /\ NetbufFree(fwd)
    /\ fwd' = NULL
    /\ UNCHANGED <<reqbVars, clientVars, wbuf, backlog>>

-----------------------------------------------------------------------------
ClientStep(t) ==
    \/ XmitAsyncRef(t) \/ XmitAsyncSubmit(t) \/ XmitAsyncFail(t)
    \/ ClientFree(t) \/ PacketXmitReturn(t)
Completion(w, r) ==
    XmitAsyncComplete(w, r) \/ Recycle(w, r) \/ BlockingCompletion(w, r)
ForwardStep == ForwardGet \/ NetifRx

Next ==
    \/ \E t \in Clients :
          \/ \E n \in Nbuf : ClientAlloc(t, n)
          \/ LinkInd(t) \/ PacketXmit(t) \/ ClientStep(t)
    \/ \E w \in Workers : XmitAsyncFree(w) \/ \E r \in Reqb : Completion(w, r)
    \/ \E n \in Nbuf : NewIpPacket(n)
    \/ ForwardStep

Spec == Init /\ [][Next]_vars

(* Ready threads run.  CPU2 need not answer, and of an answer nothing is   *)
(* assumed either: the engine may leave it parked (PendingPicked in        *)
(* Micproto).  A client is not obliged to start anything, only to finish   *)
(* it.                                                                     *)
FairSpec ==
    /\ Spec
    /\ \A t \in Clients : WF_vars(ClientStep(t))
    /\ \A w \in Workers : WF_vars(XmitAsyncFree(w))
    /\ WF_vars(ForwardStep)

-----------------------------------------------------------------------------
(* The type invariant. *)
TypeOK ==
    /\ memp \subseteq Nbuf
    /\ ref \in [Nbuf -> Nat]
    /\ req_pool \in Seq(Reqb)
    /\ argc \in [Reqb -> 0 .. MaxArgs] /\ ranges \in [Reqb -> 0 .. MaxArgs]
    /\ context \in [Reqb -> Nbuf \cup {NULL}]
    /\ complete \in [Reqb -> {"none", "xmit_async_complete",
                        "recycle_mreqb_resource", "mreqb_blocking_completion"}]
    /\ inflight \subseteq Reqb
    /\ tpc \in [Clients -> {"idle", "own", "ref", "free", "wait"}]
    /\ tbuf \in [Clients -> Nbuf \cup {NULL}]
    /\ treq \in [Clients -> Reqb \cup {NULL}]
    /\ wbuf \in [Workers -> Nbuf \cup {NULL}]
    /\ backlog \in Seq(Nbuf)
    /\ fwd \in Nbuf \cup {NULL}

(* Who can still reach buffer n: its client, the call that transmits it,   *)
(* the requests in flight (CPU2 reads the data), the workers, the receive  *)
(* path.  Each of them stands for one reference.                           *)
Users(n) ==
      Cardinality({t \in Clients : tbuf[t] = n})
    + Cardinality({t \in Clients : tbuf[t] = n /\ tpc[t] = "ref"})
    + Cardinality({r \in inflight : context[r] = n})
    + Cardinality({w \in Workers : wbuf[w] = n})
    + Cardinality({i \in DOMAIN backlog : backlog[i] = n})
    + (IF fwd = n THEN 1 ELSE 0)
Slack(n) == ref[n] - Users(n)

(* No use after free: a buffer that anybody can still reach has a          *)
(* reference for each of them and is not on the free list, so it cannot be *)
(* handed out again while CPU2 or a thread uses it.                        *)
NoUseAfterFree ==
    \A n \in Nbuf : Slack(n) >= 0 /\ (Users(n) > 0 => n \notin memp)

(* A request block is in the reserve pool, in flight, or with the caller   *)
(* that waits for it; it is in the free list at most once; and in the pool *)
(* nothing of its last use is left, so arguments never pile up past the    *)
(* arrays of struct mreqb.                                                 *)
ReqbConserved ==
    /\ TypeOK
    /\ IsInjective(req_pool)
    /\ inflight \cap Range(req_pool) = {}
    /\ \A r \in Reqb :
          /\ r \in Range(req_pool) => argc[r] = 0 /\ ranges[r] = 0 /\ context[r] = NULL
          /\ r \notin inflight \cup Range(req_pool)
                => Cardinality({t \in Clients : treq[t] = r}) = 1

(* The only step that leaves a reference behind is a transmission that     *)
(* finds no request block: every other path gives back what it took.       *)
LeakOnlyWithoutReqb ==
    [][\A n \in Nbuf : Slack(n)' > Slack(n) =>
          req_pool = <<>> /\ \E t \in Clients : tpc[t] = "ref" /\ tbuf[t] = n]_vars

(* A received packet's buffer gets back to the free list. *)
RxBufferFreed == \A n \in Nbuf : n \in Range(backlog) ~> n \in memp

(* A request block whose request was answered gets back to the reserve     *)
(* pool: by its completion, or by the caller that waited for it.  Whether  *)
(* a request is answered is up to CPU2 and the engine.                     *)
ReqbRecycled == \A r \in Reqb : r \notin inflight ~> r \in Range(req_pool)

=============================================================================
