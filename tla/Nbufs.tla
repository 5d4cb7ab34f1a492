------------------------------- MODULE Nbufs -------------------------------
(***************************************************************************)
(* The packet buffers (src/include/mf_nbuf.h), which the net interface and *)
(* the queue of received packets share.                                    *)
(***************************************************************************)
CONSTANTS
    Nbuf,      \* packet buffers (struct mf_netbuf, 128 of them)
    NULL       \* the null pointer

ASSUME NbufAssumption == NULL \notin Nbuf

============================================================================
