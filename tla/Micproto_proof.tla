--------------------------- MODULE Micproto_proof ---------------------------
(***************************************************************************)
(* Proofs about the mailbox protocol engine, for any number of blocks,     *)
(* callers, handler threads, pool threads and any mailbox depth.           *)
(***************************************************************************)
EXTENDS Micproto, ListLemmas

(* Where a thread is in its code, and the block it has in its hands. *)
OutputInv == opc = "push" <=> batch # <<>>
InputInv ==
    /\ ipc = "get" <=> icur = NULL
    /\ ipc = "dispatch" => icur \in Local
    /\ ipc = "request" => icur \in Remote
WorkerInv ==
    \A w \in Worker :
        /\ wpc[w] = "complete" <=> wcur[w] # NULL
        /\ wakeup[w] \in {0, 1}
        /\ wakeup[w] = 1 => running[w] /\ wpc[w] = "wait" /\ data[w] # NULL
        /\ wpc[w] # "wait" => running[w]
PcInv == OutputInv /\ InputInv /\ WorkerInv

(* A block points to the ctx of a caller exactly if that caller is in      *)
(* mreqb_submit_and_wait with it; only such a caller can have been woken.  *)
CtxInv ==
    /\ \A b \in Block : context[b] # NULL => cblk[context[b]] = b
    /\ \A c \in Callers : cblk[c] # NULL => context[cblk[c]] = c
    /\ \A c \in Callers : done[c] => cblk[c] # NULL
    /\ \A b \in pool : context[b] = NULL

IInv == TypeOK /\ PcInv /\ OneOwner /\ Direction /\ CtxInv

-----------------------------------------------------------------------------
(* Moving blocks between places. *)

(* The step takes block b from place (k, i) to (l, j); no other block moves. *)
Moves(b, k, i, l, j) ==
    \A x \in Block, m \in Kind, n \in Index :
        Holds(m, n, x)' <=> \/ x = b /\ m = l /\ n = j
                            \/ Holds(m, n, x) /\ ~ (x = b /\ m = k /\ n = i)
(* No block moved. *)
NoneMoved ==
    \A x \in Block, l \in Kind, j \in Index : Holds(l, j, x)' <=> Holds(l, j, x)

(* NULL stands for no block and no caller. *)
LEMMA NotNull == NULL \notin Block /\ NULL \notin Callers
  BY BlockAssumption DEF Block

(* A place that holds a block is the only one that does. *)
LEMMA OnlyHolder ==
    ASSUME UniqueHolder, NEW b \in Block, NEW k \in Kind, NEW i \in Index,
           Holds(k, i, b)
    PROVE  HeldOnlyBy(k, i, b)
  BY DEF UniqueHolder, HeldOnlyBy

(* A step that moves one block to a place it fits keeps every block in one *)
(* place, and in one that it fits.                                         *)
LEMMA MoveOne ==
    ASSUME UniqueHolder, Direction,
           NEW b \in Block, NEW k \in Kind, NEW i \in Index,
           NEW l \in Kind, NEW j \in Index,
           Holds(k, i, b), Moves(b, k, i, l, j), Fits(l, b)',
           \A x \in Block : x # b => (resp'[x] <=> resp[x])
    PROVE  UniqueHolder' /\ Direction'
  <1>1. HeldOnlyBy(k, i, b)
    BY OnlyHolder
  <1>2. \A x \in Block, m \in Kind, n \in Index :
            Holds(m, n, x)' <=> IF x = b THEN m = l /\ n = j ELSE Holds(m, n, x)
    BY <1>1 DEF Moves, HeldOnlyBy
  <1>3. ASSUME NEW x \in Block
        PROVE  (\E m \in Kind, n \in Index : HeldOnlyBy(m, n, x))'
    <2>1. CASE x = b
      BY <1>2, <2>1 DEF HeldOnlyBy
    <2>2. CASE x # b
      <3>1. PICK m \in Kind, n \in Index : HeldOnlyBy(m, n, x)
        BY DEF UniqueHolder
      <3>2. HeldOnlyBy(m, n, x)'
        BY <1>2, <2>2, <3>1 DEF HeldOnlyBy
      <3> QED BY <3>2
    <2> QED BY <2>1, <2>2
  <1>4. ASSUME NEW x \in Block, NEW m \in Kind, NEW n \in Index, Holds(m, n, x)'
        PROVE  Fits(m, x)'
    <2>1. CASE x = b
      BY <1>2, <1>4, <2>1
    <2>2. CASE x # b
      BY <1>2, <1>4, <2>2 DEF Direction, Fits
    <2> QED BY <2>1, <2>2
  <1> QED BY <1>3, <1>4 DEF UniqueHolder, Direction

(* A step that moves no block and changes no RESPONSE_BIT. *)
LEMMA MoveNone ==
    ASSUME UniqueHolder, Direction, NoneMoved, UNCHANGED resp
    PROVE  UniqueHolder' /\ Direction'
  <1>1. ASSUME NEW x \in Block
        PROVE  (\E l \in Kind, j \in Index : HeldOnlyBy(l, j, x))'
    BY DEF UniqueHolder, NoneMoved, HeldOnlyBy
  <1>2. ASSUME NEW x \in Block, NEW l \in Kind, NEW j \in Index, Holds(l, j, x)'
        PROVE  Fits(l, x)'
    BY <1>2 DEF NoneMoved, Direction, Fits
  <1> QED BY <1>1, <1>2 DEF UniqueHolder, Direction

(* A client hands a block to the output list. *)
LEMMA SubmitAsyncInv ==
    ASSUME IInv, NEW c \in Callers, NEW b \in Local, SubmitAsync(c, b)
    PROVE  IInv'
  <1> USE NotNull, SizeAssumption
  <1>1. UNCHANGED <<cblk, done, context, output_flag, opc, batch, outbox,
                     inbox, cpu2, ipc, icur, iscan, input_pending, running,
                     wakeup, data, wpc, wcur, fifo, hcur>>
    BY DEF SubmitAsync, Submit, Free, callerVars, blockVars, submitVars, outputVars, mboxVars, inputVars, workerVars, handleVars
  <1>2. /\ b \in Block
        /\ Holds("pool", NULL, b)
        /\ NULL \in Index
    BY DEF SubmitAsync, Holds, Block, Index
  <1>3. /\ pool' = pool \ {b}
        /\ resp' = [resp EXCEPT ![b] = FALSE]
        /\ output_pending' \in Seq(Block)
        /\ Range(output_pending') = Range(output_pending) \cup {b}
        /\ IsInjective(output_pending')
    <2>1. HeldOnlyBy("pool", NULL, b)
      BY <1>2, OnlyHolder DEF IInv, OneOwner, Kind, Out, In, ForUs, ToDo
    <2>2. b \notin Range(output_pending)
      BY <1>2, <2>1 DEF HeldOnlyBy, Holds, Kind, Out, In, ForUs, ToDo
    <2> QED BY <1>2, <2>2, ListAddTail
            DEF SubmitAsync, Submit, Insert, IInv, TypeOK, OneOwner, NoneLinkedTwice
  <1>4. Moves(b, "pool", NULL, "output_pending", NULL)
    BY <1>1, <1>2, <1>3 DEF Moves, Holds
  <1>5. UniqueHolder' /\ Direction'
    <2>0. Fits("pool", b)
      BY <1>2 DEF IInv, Direction, Index, Kind, Out, In, ForUs, ToDo
    <2>1. Fits("output_pending", b)'
      BY <1>1, <1>2, <1>3, <2>0, BlockAssumption
         DEF IInv, TypeOK, Fits, Block, Out, In, ForUs, ToDo
    <2>2. \A x \in Block : x # b => (resp'[x] <=> resp[x])
      BY <1>1, <1>3 DEF IInv, TypeOK
    <2>3. /\ "pool" \in Kind /\ NULL \in Index
          /\ "output_pending" \in Kind /\ NULL \in Index
      BY <1>2 DEF Index, Kind, Out, In, ForUs, ToDo
    <2> QED BY <1>2, <1>4, <2>1, <2>2, <2>3, MoveOne DEF IInv, OneOwner
  <1>6. TypeOK'
    <2>1. unsignalled' \subseteq Submitter
      BY DEF SubmitAsync, Submit, IInv, TypeOK, Submitter
    <2>2. Local \subseteq Block
      BY DEF Block
    <2> QED BY <1>1, <1>2, <1>3, <2>1, <2>2 DEF IInv, TypeOK
  <1>7. NoneLinkedTwice'
    BY <1>1, <1>3 DEF IInv, OneOwner, NoneLinkedTwice
  <1>8. PcInv'
    BY <1>1, <1>2, <1>3 DEF IInv, TypeOK, PcInv, OutputInv, InputInv, WorkerInv,
       SubmitAsync, Block
  <1>9. CtxInv'
    BY <1>1, <1>2, <1>3 DEF IInv, TypeOK, CtxInv, SubmitAsync, Block
  <1> QED BY <1>5, <1>6, <1>7, <1>8, <1>9 DEF IInv, OneOwner

(* A client hands a block to the output list and starts to wait. *)
LEMMA SubmitAndWaitInv ==
    ASSUME IInv, NEW c \in Callers, NEW b \in Local, SubmitAndWait(c, b)
    PROVE  IInv'
  <1> USE NotNull, SizeAssumption
  <1>1. UNCHANGED <<output_flag, opc, batch, outbox, inbox, cpu2, ipc, icur,
                     iscan, input_pending, running, wakeup, data, wpc, wcur,
                     fifo, hcur>>
    BY DEF SubmitAndWait, Submit, Free, callerVars, blockVars, submitVars, outputVars, mboxVars, inputVars, workerVars, handleVars
  <1>2. /\ b \in Block
        /\ Holds("pool", NULL, b)
        /\ NULL \in Index
    BY DEF SubmitAndWait, Holds, Block, Index
  <1>3. /\ pool' = pool \ {b}
        /\ resp' = [resp EXCEPT ![b] = FALSE]
        /\ output_pending' \in Seq(Block)
        /\ Range(output_pending') = Range(output_pending) \cup {b}
        /\ IsInjective(output_pending')
        /\ cblk[c] = NULL /\ cblk' = [cblk EXCEPT ![c] = b]
        /\ done' = [done EXCEPT ![c] = FALSE]
        /\ context' = [context EXCEPT ![b] = c]
    <2>1. HeldOnlyBy("pool", NULL, b)
      BY <1>2, OnlyHolder DEF IInv, OneOwner, Kind, Out, In, ForUs, ToDo
    <2>2. b \notin Range(output_pending)
      BY <1>2, <2>1 DEF HeldOnlyBy, Holds, Kind, Out, In, ForUs, ToDo
    <2> QED BY <1>2, <2>2, ListAddTail
            DEF SubmitAndWait, Submit, Insert, IInv, TypeOK, OneOwner, NoneLinkedTwice
  <1>4. Moves(b, "pool", NULL, "output_pending", NULL)
    <2>1. \A d \in Callers, x \in Block :
              (cblk[d] = x /\ done[d])' <=> cblk[d] = x /\ done[d]
      BY <1>3 DEF IInv, TypeOK
    <2> QED BY <1>1, <1>2, <1>3, <2>1 DEF Moves, Holds
  <1>5. UniqueHolder' /\ Direction'
    <2>0. Fits("pool", b)
      BY <1>2 DEF IInv, Direction, Index, Kind, Out, In, ForUs, ToDo
    <2>1. Fits("output_pending", b)'
      BY <1>1, <1>2, <1>3, <2>0, BlockAssumption
         DEF IInv, TypeOK, Fits, Block, Out, In, ForUs, ToDo
    <2>2. \A x \in Block : x # b => (resp'[x] <=> resp[x])
      BY <1>1, <1>3 DEF IInv, TypeOK
    <2>3. /\ "pool" \in Kind /\ NULL \in Index
          /\ "output_pending" \in Kind /\ NULL \in Index
      BY <1>2 DEF Index, Kind, Out, In, ForUs, ToDo
    <2> QED BY <1>2, <1>4, <2>1, <2>2, <2>3, MoveOne DEF IInv, OneOwner
  <1>6. TypeOK'
    <2>1. unsignalled' \subseteq Submitter
      BY DEF SubmitAndWait, Submit, IInv, TypeOK, Submitter
    <2>2. Local \subseteq Block
      BY DEF Block
    <2> QED BY <1>1, <1>2, <1>3, <2>1, <2>2 DEF IInv, TypeOK
  <1>7. NoneLinkedTwice'
    BY <1>1, <1>3 DEF IInv, OneOwner, NoneLinkedTwice
  <1>8. PcInv'
    BY <1>1, <1>2, <1>3 DEF IInv, TypeOK, PcInv, OutputInv, InputInv, WorkerInv,
       SubmitAndWait, Block
  <1>9. CtxInv'
    BY <1>1, <1>2, <1>3 DEF IInv, TypeOK, CtxInv, SubmitAndWait, Block
  <1> QED BY <1>5, <1>6, <1>7, <1>8, <1>9 DEF IInv, OneOwner

(* A woken caller takes its block back. *)
LEMMA WaitDoneInv ==
    ASSUME IInv, NEW c \in Callers, WaitDone(c)
    PROVE  IInv'
  <1>0. PICK b : b = cblk[c]
    OBVIOUS
  <1> USE NotNull, SizeAssumption
  <1>1. UNCHANGED <<output_pending, output_flag, unsignalled, opc, batch,
                     outbox, inbox, cpu2, ipc, icur, iscan, input_pending,
                     running, wakeup, data, wpc, wcur, fifo, hcur>>
    BY DEF WaitDone, Submit, Free, callerVars, blockVars, submitVars, outputVars, mboxVars, inputVars, workerVars, handleVars
  <1>2. /\ b \in Block
        /\ Holds("caller", c, b)
        /\ b \in Local /\ NULL \in Index /\ c \in Index
    BY <1>0 DEF IInv, TypeOK, WaitDone, WaitOver, Holds, Block, Index
  <1>3. /\ pool' = pool \cup {b}
        /\ cblk' = [cblk EXCEPT ![c] = NULL]
        /\ done' = [done EXCEPT ![c] = FALSE]
        /\ resp' = [resp EXCEPT ![b] = FALSE]
        /\ context' = [context EXCEPT ![b] = NULL]
    BY <1>0 DEF WaitDone, Free
  <1>4. Moves(b, "caller", c, "pool", NULL)
    BY <1>0, <1>1, <1>2, <1>3 DEF Moves, Holds, IInv, TypeOK
  <1>5. UniqueHolder' /\ Direction'
    <2>0. Fits("caller", b)
      BY <1>2 DEF IInv, Direction, Index, Kind, Out, In, ForUs, ToDo
    <2>1. Fits("pool", b)'
      BY <1>1, <1>2, <1>3, <2>0, BlockAssumption
         DEF IInv, TypeOK, Fits, Block, Out, In, ForUs, ToDo
    <2>2. \A x \in Block : x # b => (resp'[x] <=> resp[x])
      BY <1>1, <1>3 DEF IInv, TypeOK
    <2>3. /\ "caller" \in Kind /\ c \in Index
          /\ "pool" \in Kind /\ NULL \in Index
      BY <1>2 DEF Index, Kind, Out, In, ForUs, ToDo
    <2> QED BY <1>2, <1>4, <2>1, <2>2, <2>3, MoveOne DEF IInv, OneOwner
  <1>6. TypeOK'
    BY <1>0, <1>1, <1>2, <1>3 DEF IInv, TypeOK, WaitDone, Free, Block
  <1>7. NoneLinkedTwice'
    BY <1>1, <1>3 DEF IInv, OneOwner, NoneLinkedTwice
  <1>8. PcInv'
    BY <1>0, <1>1, <1>2, <1>3 DEF IInv, TypeOK, PcInv, OutputInv, InputInv, WorkerInv,
       WaitDone, Block
  <1>9. CtxInv'
    BY <1>0, <1>1, <1>2, <1>3 DEF IInv, TypeOK, CtxInv, WaitDone, Block
  <1> QED BY <1>5, <1>6, <1>7, <1>8, <1>9 DEF IInv, OneOwner

(* The output thread puts a block into the mailbox. *)
LEMMA OutputPushInv ==
    ASSUME IInv, OutputPush
    PROVE  IInv'
  <1>0. PICK b : b = Head(batch)
    OBVIOUS
  <1> USE NotNull, SizeAssumption
  <1>1. UNCHANGED <<pool, cblk, done, resp, context, output_pending,
                     output_flag, unsignalled, inbox, cpu2, ipc, icur, iscan,
                     input_pending, running, wakeup, data, wpc, wcur, fifo,
                     hcur>>
    BY DEF OutputPush, Submit, Free, callerVars, blockVars, submitVars, outputVars, mboxVars, inputVars, workerVars, handleVars
  <1>2. /\ b \in Block
        /\ Holds("batch", NULL, b)
        /\ batch # <<>> /\ NULL \in Index
    BY <1>0, ListDelFirst DEF IInv, TypeOK, OneOwner, NoneLinkedTwice, PcInv, OutputInv,
       OutputPush, Holds, Index
  <1>3. /\ batch' \in Seq(Block) /\ outbox' \in Seq(Block)
        /\ Range(batch') = Range(batch) \ {b}
        /\ Range(outbox') = Range(outbox) \cup {b}
        /\ IsInjective(batch') /\ IsInjective(outbox')
        /\ Len(outbox') <= OutCap
        /\ opc' = "push" <=> batch' # <<>>
        /\ opc' \in {"check", "push"}
    <2>1. HeldOnlyBy("batch", NULL, b)
      BY <1>0, <1>2, OnlyHolder DEF IInv, OneOwner, Kind, Out, In, ForUs, ToDo
    <2>2. b \notin Range(outbox)
      BY <1>0, <1>2, <2>1 DEF HeldOnlyBy, Holds, Kind, Out, In, ForUs, ToDo
    <2>3. /\ outbox' \in Seq(Block) /\ Range(outbox') = Range(outbox) \cup {b}
          /\ IsInjective(outbox') /\ Len(outbox') <= OutCap
      BY <1>0, <1>2, <2>2, ListAddTail, AppendProperties
         DEF OutputPush, IInv, TypeOK, OneOwner, NoneLinkedTwice
    <2>4. /\ batch' \in Seq(Block) /\ Range(batch') = Range(batch) \ {b}
          /\ IsInjective(batch') /\ Len(batch') = Len(batch) - 1
      BY <1>0, <1>2, ListDelFirst DEF OutputPush, IInv, TypeOK, OneOwner, NoneLinkedTwice
    <2>5. opc' = "push" <=> batch' # <<>>
      <3>1. Len(batch) \in Nat /\ (Len(batch') = 0 <=> batch' = <<>>)
        <4>1. batch' # <<>> <=> Len(batch') > 0
          BY <2>4, EmptyList
        <4>2. Len(batch') \in Nat /\ Len(batch) \in Nat
          BY <2>4, LenProperties DEF IInv, TypeOK
        <4> QED BY <4>1, <4>2
      <3>2. Len(batch) = 1 <=> Len(batch') = 0
        BY <2>4, LenProperties DEF IInv, TypeOK
      <3> QED BY <3>1, <3>2 DEF OutputPush
    <2> QED BY <2>3, <2>4, <2>5 DEF OutputPush
  <1>4. Moves(b, "batch", NULL, "outbox", NULL)
    BY <1>0, <1>1, <1>2, <1>3 DEF Moves, Holds
  <1>5. UniqueHolder' /\ Direction'
    <2>0. Fits("batch", b)
      BY <1>2 DEF IInv, Direction, Index, Kind, Out, In, ForUs, ToDo
    <2>1. Fits("outbox", b)'
      BY <1>1, <1>2, <1>3, <2>0, BlockAssumption
         DEF IInv, TypeOK, Fits, Block, Out, In, ForUs, ToDo
    <2>2. \A x \in Block : x # b => (resp'[x] <=> resp[x])
      BY <1>1, <1>3 DEF IInv, TypeOK
    <2>3. /\ "batch" \in Kind /\ NULL \in Index
          /\ "outbox" \in Kind /\ NULL \in Index
      BY <1>2 DEF Index, Kind, Out, In, ForUs, ToDo
    <2> QED BY <1>2, <1>4, <2>1, <2>2, <2>3, MoveOne DEF IInv, OneOwner
  <1>6. TypeOK'
    BY <1>0, <1>1, <1>2, <1>3 DEF IInv, TypeOK, OutputPush, Free, Block
  <1>7. NoneLinkedTwice'
    BY <1>1, <1>3 DEF IInv, OneOwner, NoneLinkedTwice
  <1>8. PcInv'
    BY <1>0, <1>1, <1>2, <1>3 DEF IInv, TypeOK, PcInv, OutputInv, InputInv, WorkerInv,
       OutputPush, Block
  <1>9. CtxInv'
    BY <1>0, <1>1, <1>2, <1>3 DEF IInv, TypeOK, CtxInv, OutputPush, Block
  <1> QED BY <1>5, <1>6, <1>7, <1>8, <1>9 DEF IInv, OneOwner

(* CPU2 takes a block out of the mailbox. *)
LEMMA Cpu2GetInv ==
    ASSUME IInv, Cpu2Get
    PROVE  IInv'
  <1>0. PICK b : b = Head(outbox)
    OBVIOUS
  <1> USE NotNull, SizeAssumption
  <1>1. UNCHANGED <<pool, cblk, done, resp, context, output_pending,
                     output_flag, unsignalled, opc, batch, inbox, ipc, icur,
                     iscan, input_pending, running, wakeup, data, wpc, wcur,
                     fifo, hcur>>
    BY DEF Cpu2Get, Submit, Free, callerVars, blockVars, submitVars, outputVars, mboxVars, inputVars, workerVars, handleVars
  <1>2. /\ b \in Block
        /\ Holds("outbox", NULL, b)
        /\ outbox # <<>> /\ NULL \in Index
    BY <1>0, ListDelFirst DEF IInv, TypeOK, OneOwner, NoneLinkedTwice, Cpu2Get, Holds, Index
  <1>3. /\ outbox' \in Seq(Block)
        /\ Range(outbox') = Range(outbox) \ {b}
        /\ IsInjective(outbox') /\ Len(outbox') <= OutCap
        /\ cpu2' = cpu2 \cup {b}
    BY <1>0, <1>2, ListDelFirst, LenProperties
       DEF Cpu2Get, IInv, TypeOK, OneOwner, NoneLinkedTwice
  <1>4. Moves(b, "outbox", NULL, "cpu2", NULL)
    BY <1>0, <1>1, <1>2, <1>3 DEF Moves, Holds
  <1>5. UniqueHolder' /\ Direction'
    <2>0. Fits("outbox", b)
      BY <1>2 DEF IInv, Direction, Index, Kind, Out, In, ForUs, ToDo
    <2>1. Fits("cpu2", b)'
      BY <1>1, <1>2, <1>3, <2>0, BlockAssumption
         DEF IInv, TypeOK, Fits, Block, Out, In, ForUs, ToDo
    <2>2. \A x \in Block : x # b => (resp'[x] <=> resp[x])
      BY <1>1, <1>3 DEF IInv, TypeOK
    <2>3. /\ "outbox" \in Kind /\ NULL \in Index
          /\ "cpu2" \in Kind /\ NULL \in Index
      BY <1>2 DEF Index, Kind, Out, In, ForUs, ToDo
    <2> QED BY <1>2, <1>4, <2>1, <2>2, <2>3, MoveOne DEF IInv, OneOwner
  <1>6. TypeOK'
    BY <1>0, <1>1, <1>2, <1>3 DEF IInv, TypeOK, Cpu2Get, Free, Block
  <1>7. NoneLinkedTwice'
    BY <1>1, <1>3 DEF IInv, OneOwner, NoneLinkedTwice
  <1>8. PcInv'
    BY <1>0, <1>1, <1>2, <1>3 DEF IInv, TypeOK, PcInv, OutputInv, InputInv, WorkerInv,
       Cpu2Get, Block
  <1>9. CtxInv'
    BY <1>0, <1>1, <1>2, <1>3 DEF IInv, TypeOK, CtxInv, Cpu2Get, Block
  <1> QED BY <1>5, <1>6, <1>7, <1>8, <1>9 DEF IInv, OneOwner

(* CPU2 puts a block into the mailbox. *)
LEMMA Cpu2PutInv ==
    ASSUME IInv, NEW b \in Block, Cpu2Put(b)
    PROVE  IInv'
  <1> USE NotNull, SizeAssumption
  <1>1. UNCHANGED <<pool, cblk, done, context, output_pending, output_flag,
                     unsignalled, opc, batch, outbox, ipc, icur, iscan,
                     input_pending, running, wakeup, data, wpc, wcur, fifo,
                     hcur>>
    BY DEF Cpu2Put, Submit, Free, callerVars, blockVars, submitVars, outputVars, mboxVars, inputVars, workerVars, handleVars
  <1>2. /\ b \in Block
        /\ Holds("cpu2", NULL, b)
        /\ NULL \in Index
    BY DEF Cpu2Put, Holds, Index
  <1>3. /\ cpu2' = cpu2 \ {b}
        /\ resp' = [resp EXCEPT ![b] = b \in Local]
        /\ inbox' \in Seq(Message)
        /\ Range(inbox') = Range(inbox) \cup {b}
        /\ IsInjective(inbox') /\ Len(inbox') <= InCap
    <2>1. HeldOnlyBy("cpu2", NULL, b)
      BY <1>2, OnlyHolder DEF IInv, OneOwner, Kind, Out, In, ForUs, ToDo
    <2>2. b \notin Range(inbox)
      BY <1>2, <2>1 DEF HeldOnlyBy, Holds, Kind, Out, In, ForUs, ToDo
    <2>3. b \in Message /\ inbox \in Seq(Message) /\ IsInjective(inbox)
      BY <1>2 DEF Message, IInv, TypeOK, OneOwner, NoneLinkedTwice
    <2> QED BY <1>2, <2>2, <2>3, ListAddTail, AppendProperties
            DEF Cpu2Put, IInv, TypeOK, OneOwner, NoneLinkedTwice
  <1>4. Moves(b, "cpu2", NULL, "inbox", NULL)
    BY <1>1, <1>2, <1>3 DEF Moves, Holds
  <1>5. UniqueHolder' /\ Direction'
    <2>0. Fits("cpu2", b)
      BY <1>2 DEF IInv, Direction, Index, Kind, Out, In, ForUs, ToDo
    <2>1. Fits("inbox", b)'
      BY <1>1, <1>2, <1>3, <2>0, BlockAssumption
         DEF IInv, TypeOK, Fits, Block, Out, In, ForUs, ToDo
    <2>2. \A x \in Block : x # b => (resp'[x] <=> resp[x])
      BY <1>1, <1>3 DEF IInv, TypeOK
    <2>3. /\ "cpu2" \in Kind /\ NULL \in Index
          /\ "inbox" \in Kind /\ NULL \in Index
      BY <1>2 DEF Index, Kind, Out, In, ForUs, ToDo
    <2> QED BY <1>2, <1>4, <2>1, <2>2, <2>3, MoveOne DEF IInv, OneOwner
  <1>6. TypeOK'
    BY <1>1, <1>2, <1>3 DEF IInv, TypeOK, Cpu2Put, Free, Block
  <1>7. NoneLinkedTwice'
    BY <1>1, <1>3 DEF IInv, OneOwner, NoneLinkedTwice
  <1>8. PcInv'
    BY <1>1, <1>2, <1>3 DEF IInv, TypeOK, PcInv, OutputInv, InputInv, WorkerInv,
       Cpu2Put, Block
  <1>9. CtxInv'
    BY <1>1, <1>2, <1>3 DEF IInv, TypeOK, CtxInv, Cpu2Put, Block
  <1> QED BY <1>5, <1>6, <1>7, <1>8, <1>9 DEF IInv, OneOwner

(* The input thread takes a block out of the mailbox. *)
LEMMA InputGetInv ==
    ASSUME IInv, InputGet
    PROVE  IInv'
  <1>0. PICK b : b = Head(inbox)
    OBVIOUS
  <1> USE NotNull, SizeAssumption
  <1>1. UNCHANGED <<pool, cblk, done, resp, context, output_pending,
                     output_flag, unsignalled, opc, batch, outbox, cpu2, iscan,
                     input_pending, running, wakeup, data, wpc, wcur, fifo,
                     hcur>>
    BY DEF InputGet, Submit, Free, callerVars, blockVars, submitVars, outputVars, mboxVars, inputVars, workerVars, handleVars
  <1>2. /\ b \in Block
        /\ Holds("inbox", NULL, b)
        /\ inbox # <<>> /\ NULL \in Index
    <2>1. Head(inbox) \in Message /\ Head(inbox) \in Range(inbox)
      BY ListDelFirst DEF IInv, TypeOK, OneOwner, NoneLinkedTwice, InputGet
    <2> QED BY <1>0, <2>1 DEF Message, InputGet, Holds, Index
  <1>3. /\ inbox' \in Seq(Message)
        /\ Range(inbox') = Range(inbox) \ {b}
        /\ IsInjective(inbox') /\ Len(inbox') <= InCap
        /\ icur = NULL /\ icur' = b
        /\ ipc' = IF b \in Local THEN "dispatch" ELSE "request"
    <2>1. resp[b] <=> b \in Local
      BY <1>0, <1>2 DEF IInv, Direction, Fits, Kind, Out, In, ForUs, ToDo
    <2> QED BY <1>0, <1>2, <2>1, ListDelFirst, LenProperties
            DEF InputGet, IInv, TypeOK, OneOwner, NoneLinkedTwice, PcInv, InputInv
  <1>4. Moves(b, "inbox", NULL, "input", NULL)
    BY <1>0, <1>1, <1>2, <1>3 DEF Moves, Holds
  <1>5. UniqueHolder' /\ Direction'
    <2>0. Fits("inbox", b)
      BY <1>2 DEF IInv, Direction, Index, Kind, Out, In, ForUs, ToDo
    <2>1. Fits("input", b)'
      BY <1>1, <1>2, <1>3, <2>0, BlockAssumption
         DEF IInv, TypeOK, Fits, Block, Out, In, ForUs, ToDo
    <2>2. \A x \in Block : x # b => (resp'[x] <=> resp[x])
      BY <1>1, <1>3 DEF IInv, TypeOK
    <2>3. /\ "inbox" \in Kind /\ NULL \in Index
          /\ "input" \in Kind /\ NULL \in Index
      BY <1>2 DEF Index, Kind, Out, In, ForUs, ToDo
    <2> QED BY <1>2, <1>4, <2>1, <2>2, <2>3, MoveOne DEF IInv, OneOwner
  <1>6. TypeOK'
    BY <1>0, <1>1, <1>2, <1>3 DEF IInv, TypeOK, InputGet, Free, Block
  <1>7. NoneLinkedTwice'
    BY <1>1, <1>3 DEF IInv, OneOwner, NoneLinkedTwice
  <1>8. PcInv'
    BY <1>0, <1>1, <1>2, <1>3 DEF IInv, TypeOK, PcInv, OutputInv, InputInv, WorkerInv,
       InputGet, Block
  <1>9. CtxInv'
    BY <1>0, <1>1, <1>2, <1>3 DEF IInv, TypeOK, CtxInv, InputGet, Block
  <1> QED BY <1>5, <1>6, <1>7, <1>8, <1>9 DEF IInv, OneOwner

(* The input thread hands a response to an idle worker. *)
LEMMA InputDispatchInv ==
    ASSUME IInv, InputDispatch
    PROVE  IInv'
  <1>0. PICK b, w : b = icur /\ w = iscan
    OBVIOUS
  <1> USE NotNull, SizeAssumption
  <1>1. UNCHANGED <<pool, cblk, done, resp, context, output_pending,
                     output_flag, unsignalled, opc, batch, outbox, inbox, cpu2,
                     input_pending, wpc, wcur, fifo, hcur>>
    BY DEF InputDispatch, Submit, Free, callerVars, blockVars, submitVars, outputVars, mboxVars, inputVars, workerVars, handleVars
  <1>2. /\ b \in Block
        /\ Holds("input", NULL, b)
        /\ b \in Local /\ w \in Worker /\ w \in Index /\ NULL \in Index
    BY <1>0 DEF IInv, TypeOK, PcInv, InputInv, InputDispatch, Holds, Block, Index
  <1>3. /\ icur' = NULL /\ ipc' = "get" /\ iscan' = 1
        /\ data' = [data EXCEPT ![w] = b]
        /\ wakeup[w] = 0 /\ wakeup' = [wakeup EXCEPT ![w] = 1]
        /\ wpc[w] = "wait" /\ running' = [running EXCEPT ![w] = TRUE]
    <2>1. ~ running[w] /\ wakeup[w] = 0 /\ wpc[w] = "wait"
      BY <1>0, <1>2 DEF InputDispatch, IInv, TypeOK, PcInv, WorkerInv
    <2> QED BY <1>0, <1>2, <2>1 DEF InputDispatch
  <1>4. Moves(b, "input", NULL, "data", w)
    BY <1>0, <1>1, <1>2, <1>3 DEF Moves, Holds, IInv, TypeOK
  <1>5. UniqueHolder' /\ Direction'
    <2>0. Fits("input", b)
      BY <1>2 DEF IInv, Direction, Index, Kind, Out, In, ForUs, ToDo
    <2>1. Fits("data", b)'
      BY <1>1, <1>2, <1>3, <2>0, BlockAssumption
         DEF IInv, TypeOK, Fits, Block, Out, In, ForUs, ToDo
    <2>2. \A x \in Block : x # b => (resp'[x] <=> resp[x])
      BY <1>1, <1>3 DEF IInv, TypeOK
    <2>3. /\ "input" \in Kind /\ NULL \in Index
          /\ "data" \in Kind /\ w \in Index
      BY <1>2 DEF Index, Kind, Out, In, ForUs, ToDo
    <2> QED BY <1>2, <1>4, <2>1, <2>2, <2>3, MoveOne DEF IInv, OneOwner
  <1>6. TypeOK'
    BY <1>1, <1>2, <1>3 DEF IInv, TypeOK
  <1>7. NoneLinkedTwice'
    BY <1>1, <1>3 DEF IInv, OneOwner, NoneLinkedTwice
  <1>8. PcInv'
    BY <1>0, <1>1, <1>2, <1>3 DEF IInv, TypeOK, PcInv, OutputInv, InputInv, WorkerInv,
       InputDispatch, Block
  <1>9. CtxInv'
    BY <1>0, <1>1, <1>2, <1>3 DEF IInv, TypeOK, CtxInv, InputDispatch, Block
  <1> QED BY <1>5, <1>6, <1>7, <1>8, <1>9 DEF IInv, OneOwner

(* The input thread parks a response. *)
LEMMA InputPendInv ==
    ASSUME IInv, InputPend
    PROVE  IInv'
  <1>0. PICK b : b = icur
    OBVIOUS
  <1> USE NotNull, SizeAssumption
  <1>1. UNCHANGED <<pool, cblk, done, resp, context, output_pending,
                     output_flag, unsignalled, opc, batch, outbox, inbox, cpu2,
                     running, wakeup, data, wpc, wcur, fifo, hcur>>
    BY DEF InputPend, Submit, Free, callerVars, blockVars, submitVars, outputVars, mboxVars, inputVars, workerVars, handleVars
  <1>2. /\ b \in Block
        /\ Holds("input", NULL, b)
        /\ b \in Local /\ NULL \in Index
    BY <1>0 DEF IInv, TypeOK, PcInv, InputInv, InputPend, Holds, Block, Index
  <1>3. /\ icur' = NULL /\ ipc' = "get" /\ iscan' = 1
        /\ input_pending' \in Seq(Block)
        /\ Range(input_pending') = Range(input_pending) \cup {b}
        /\ IsInjective(input_pending')
    <2>1. HeldOnlyBy("input", NULL, b)
      BY <1>0, <1>2, OnlyHolder DEF IInv, OneOwner, Kind, Out, In, ForUs, ToDo
    <2>2. b \notin Range(input_pending)
      BY <1>0, <1>2, <2>1 DEF HeldOnlyBy, Holds, Kind, Out, In, ForUs, ToDo
    <2> QED BY <1>0, <1>2, <2>2, ListAddTail
            DEF InputPend, IInv, TypeOK, OneOwner, NoneLinkedTwice
  <1>4. Moves(b, "input", NULL, "input_pending", NULL)
    BY <1>0, <1>1, <1>2, <1>3 DEF Moves, Holds
  <1>5. UniqueHolder' /\ Direction'
    <2>0. Fits("input", b)
      BY <1>2 DEF IInv, Direction, Index, Kind, Out, In, ForUs, ToDo
    <2>1. Fits("input_pending", b)'
      BY <1>1, <1>2, <1>3, <2>0, BlockAssumption
         DEF IInv, TypeOK, Fits, Block, Out, In, ForUs, ToDo
    <2>2. \A x \in Block : x # b => (resp'[x] <=> resp[x])
      BY <1>1, <1>3 DEF IInv, TypeOK
    <2>3. /\ "input" \in Kind /\ NULL \in Index
          /\ "input_pending" \in Kind /\ NULL \in Index
      BY <1>2 DEF Index, Kind, Out, In, ForUs, ToDo
    <2> QED BY <1>2, <1>4, <2>1, <2>2, <2>3, MoveOne DEF IInv, OneOwner
  <1>6. TypeOK'
    BY <1>0, <1>1, <1>2, <1>3 DEF IInv, TypeOK, InputPend, Free, Block
  <1>7. NoneLinkedTwice'
    BY <1>1, <1>3 DEF IInv, OneOwner, NoneLinkedTwice
  <1>8. PcInv'
    BY <1>0, <1>1, <1>2, <1>3 DEF IInv, TypeOK, PcInv, OutputInv, InputInv, WorkerInv,
       InputPend, Block
  <1>9. CtxInv'
    BY <1>0, <1>1, <1>2, <1>3 DEF IInv, TypeOK, CtxInv, InputPend, Block
  <1> QED BY <1>5, <1>6, <1>7, <1>8, <1>9 DEF IInv, OneOwner

(* The input thread gives a request back. *)
LEMMA InputGivebackInv ==
    ASSUME IInv, InputGiveback
    PROVE  IInv'
  <1>0. PICK b : b = icur
    OBVIOUS
  <1> USE NotNull, SizeAssumption
  <1>1. UNCHANGED <<pool, cblk, done, context, output_flag, opc, batch,
                     outbox, inbox, cpu2, iscan, input_pending, running,
                     wakeup, data, wpc, wcur, fifo, hcur>>
    BY DEF InputGiveback, Submit, Free, callerVars, blockVars, submitVars, outputVars, mboxVars, inputVars, workerVars, handleVars
  <1>2. /\ b \in Block
        /\ Holds("input", NULL, b)
        /\ b \in Remote /\ NULL \in Index
    BY <1>0 DEF IInv, TypeOK, PcInv, InputInv, InputGiveback, Holds, Block, Index
  <1>3. /\ icur' = NULL /\ ipc' = "get"
        /\ output_pending' \in Seq(Block)
        /\ Range(output_pending') = Range(output_pending) \cup {b}
        /\ IsInjective(output_pending')
        /\ resp' = [resp EXCEPT ![b] = TRUE]
    <2>1. HeldOnlyBy("input", NULL, b)
      BY <1>0, <1>2, OnlyHolder DEF IInv, OneOwner, Index, Kind, Out, In, ForUs, ToDo
    <2>2. b \notin Range(output_pending)
      BY <1>0, <1>2, <2>1 DEF HeldOnlyBy, Holds, Kind, Out, In, ForUs, ToDo
    <2> QED BY <1>0, <1>2, <2>2, ListAdd
            DEF InputGiveback, Submit, Insert, IInv, TypeOK, OneOwner, NoneLinkedTwice
  <1>4. Moves(b, "input", NULL, "output_pending", NULL)
    BY <1>0, <1>1, <1>2, <1>3 DEF Moves, Holds
  <1>5. UniqueHolder' /\ Direction'
    <2>0. Fits("input", b)
      BY <1>2 DEF IInv, Direction, Index, Kind, Out, In, ForUs, ToDo
    <2>1. Fits("output_pending", b)'
      BY <1>1, <1>2, <1>3, <2>0, BlockAssumption
         DEF IInv, TypeOK, Fits, Block, Out, In, ForUs, ToDo
    <2>2. \A x \in Block : x # b => (resp'[x] <=> resp[x])
      BY <1>1, <1>3 DEF IInv, TypeOK
    <2>3. /\ "input" \in Kind /\ NULL \in Index
          /\ "output_pending" \in Kind /\ NULL \in Index
      BY <1>2 DEF Index, Kind, Out, In, ForUs, ToDo
    <2> QED BY <1>2, <1>4, <2>1, <2>2, <2>3, MoveOne DEF IInv, OneOwner
  <1>6. TypeOK'
    <2>1. unsignalled' \subseteq Submitter
      BY DEF InputGiveback, Submit, IInv, TypeOK, Submitter
    <2>2. Local \subseteq Block
      BY DEF Block
    <2> QED BY <1>0, <1>1, <1>2, <1>3, <2>1, <2>2 DEF IInv, TypeOK
  <1>7. NoneLinkedTwice'
    BY <1>1, <1>3 DEF IInv, OneOwner, NoneLinkedTwice
  <1>8. PcInv'
    BY <1>0, <1>1, <1>2, <1>3 DEF IInv, TypeOK, PcInv, OutputInv, InputInv, WorkerInv,
       InputGiveback, Block
  <1>9. CtxInv'
    BY <1>0, <1>1, <1>2, <1>3 DEF IInv, TypeOK, CtxInv, InputGiveback, Block
  <1> QED BY <1>5, <1>6, <1>7, <1>8, <1>9 DEF IInv, OneOwner

(* The input thread queues a request for a handler thread. *)
LEMMA InputDeferInv ==
    ASSUME IInv, NEW h \in Handlers, InputDefer(h)
    PROVE  IInv'
  <1>0. PICK b : b = icur
    OBVIOUS
  <1> USE NotNull, SizeAssumption
  <1>1. UNCHANGED <<pool, cblk, done, resp, context, output_pending,
                     output_flag, unsignalled, opc, batch, outbox, inbox, cpu2,
                     iscan, input_pending, running, wakeup, data, wpc, wcur,
                     hcur>>
    BY DEF InputDefer, Submit, Free, callerVars, blockVars, submitVars, outputVars, mboxVars, inputVars, workerVars, handleVars
  <1>2. /\ b \in Block
        /\ Holds("input", NULL, b)
        /\ b \in Remote /\ h \in Index /\ NULL \in Index
    BY <1>0 DEF IInv, TypeOK, PcInv, InputInv, InputDefer, Holds, Block, Index
  <1>3. /\ icur' = NULL /\ ipc' = "get"
        /\ fifo' = [fifo EXCEPT ![h] = Append(@, b)]
        /\ Append(fifo[h], b) \in Seq(Block)
        /\ Range(Append(fifo[h], b)) = Range(fifo[h]) \cup {b}
        /\ IsInjective(Append(fifo[h], b))
        /\ fifo \in [Handlers -> Seq(Block)]
    <2>1. HeldOnlyBy("input", NULL, b)
      BY <1>0, <1>2, OnlyHolder DEF IInv, OneOwner, Kind, Out, In, ForUs, ToDo
    <2>2. b \notin Range(fifo[h])
      BY <1>0, <1>2, <2>1 DEF HeldOnlyBy, Holds, Kind, Out, In, ForUs, ToDo
    <2> QED BY <1>0, <1>2, <2>2, ListAddTail
            DEF InputDefer, IInv, TypeOK, OneOwner, NoneLinkedTwice
  <1>4. Moves(b, "input", NULL, "fifo", h)
    BY <1>0, <1>1, <1>2, <1>3 DEF Moves, Holds
  <1>5. UniqueHolder' /\ Direction'
    <2>0. Fits("input", b)
      BY <1>2 DEF IInv, Direction, Index, Kind, Out, In, ForUs, ToDo
    <2>1. Fits("fifo", b)'
      BY <1>1, <1>2, <1>3, <2>0, BlockAssumption
         DEF IInv, TypeOK, Fits, Block, Out, In, ForUs, ToDo
    <2>2. \A x \in Block : x # b => (resp'[x] <=> resp[x])
      BY <1>1, <1>3 DEF IInv, TypeOK
    <2>3. /\ "input" \in Kind /\ NULL \in Index
          /\ "fifo" \in Kind /\ h \in Index
      BY <1>2 DEF Index, Kind, Out, In, ForUs, ToDo
    <2> QED BY <1>2, <1>4, <2>1, <2>2, <2>3, MoveOne DEF IInv, OneOwner
  <1>6. TypeOK'
    BY <1>0, <1>1, <1>2, <1>3 DEF IInv, TypeOK, InputDefer, Free, Block
  <1>7. NoneLinkedTwice'
    BY <1>1, <1>3 DEF IInv, OneOwner, NoneLinkedTwice
  <1>8. PcInv'
    BY <1>0, <1>1, <1>2, <1>3 DEF IInv, TypeOK, PcInv, OutputInv, InputInv, WorkerInv,
       InputDefer, Block
  <1>9. CtxInv'
    BY <1>0, <1>1, <1>2, <1>3 DEF IInv, TypeOK, CtxInv, InputDefer, Block
  <1> QED BY <1>5, <1>6, <1>7, <1>8, <1>9 DEF IInv, OneOwner

(* A worker takes the response handed to it. *)
LEMMA WorkerWakeInv ==
    ASSUME IInv, NEW w \in Worker, WorkerWake(w)
    PROVE  IInv'
  <1>0. PICK b : b = data[w]
    OBVIOUS
  <1> USE NotNull, SizeAssumption
  <1>1. UNCHANGED <<pool, cblk, done, resp, context, output_pending,
                     output_flag, unsignalled, opc, batch, outbox, inbox, cpu2,
                     ipc, icur, iscan, input_pending, running, data, fifo, hcur>>
    BY DEF WorkerWake, Submit, Free, callerVars, blockVars, submitVars, outputVars,
           mboxVars, inputVars, workerVars, handleVars
  <1>2. /\ b \in Block
        /\ Holds("data", w, b)
        /\ wakeup[w] = 1 /\ wpc[w] = "wait" /\ running[w]
        /\ w \in Index
    BY <1>0 DEF IInv, TypeOK, PcInv, WorkerInv, WorkerWake, Holds, Index
  <1>3. /\ wakeup' = [wakeup EXCEPT ![w] = 0]
        /\ wcur[w] = NULL /\ wcur' = [wcur EXCEPT ![w] = b]
        /\ wpc' = [wpc EXCEPT ![w] = "complete"]
    BY <1>0, <1>2 DEF WorkerWake, IInv, TypeOK, PcInv, WorkerInv
  <1>4. Moves(b, "data", w, "worker", w)
    BY <1>0, <1>1, <1>2, <1>3 DEF Moves, Holds, IInv, TypeOK
  <1>5. UniqueHolder' /\ Direction'
    <2>0. Fits("data", b)
      BY <1>2 DEF IInv, Direction, Index, Kind, Out, In, ForUs, ToDo
    <2>1. Fits("worker", b)'
      BY <1>1, <1>2, <1>3, <2>0, BlockAssumption
         DEF IInv, TypeOK, Fits, Block, Out, In, ForUs, ToDo
    <2>2. \A x \in Block : x # b => (resp'[x] <=> resp[x])
      BY <1>1, <1>3 DEF IInv, TypeOK
    <2>3. /\ "data" \in Kind /\ w \in Index
          /\ "worker" \in Kind /\ w \in Index
      BY <1>2 DEF Index, Kind, Out, In, ForUs, ToDo
    <2> QED BY <1>2, <1>4, <2>1, <2>2, <2>3, MoveOne DEF IInv, OneOwner
  <1>6. TypeOK'
    BY <1>1, <1>2, <1>3 DEF IInv, TypeOK
  <1>7. NoneLinkedTwice'
    BY <1>1, <1>3 DEF IInv, OneOwner, NoneLinkedTwice
  <1>8. PcInv'
    BY <1>0, <1>1, <1>2, <1>3 DEF IInv, TypeOK, PcInv, OutputInv, InputInv, WorkerInv
  <1>9. CtxInv'
    BY <1>0, <1>1, <1>2, <1>3 DEF IInv, TypeOK, CtxInv
  <1> QED BY <1>5, <1>6, <1>7, <1>8, <1>9 DEF IInv, OneOwner

(* The completion callback of an asynchronous request frees its block. *)
LEMMA WorkerFreesInv ==
    ASSUME IInv, NEW w \in Worker, WorkerComplete(w),
           context[wcur[w]] = NULL
    PROVE  IInv'
  <1>0. PICK b : b = wcur[w]
    OBVIOUS
  <1> USE NotNull, SizeAssumption
  <1>1. UNCHANGED <<cblk, done, output_pending, output_flag, unsignalled, opc,
                     batch, outbox, inbox, cpu2, ipc, icur, iscan,
                     input_pending, running, wakeup, data, fifo, hcur>>
    BY DEF WorkerComplete, Submit, Free, callerVars, blockVars, submitVars, outputVars,
           mboxVars, inputVars, workerVars, handleVars
  <1>2. /\ b \in Block
        /\ Holds("worker", w, b)
        /\ wpc[w] = "complete" /\ running[w] /\ wakeup[w] = 0
        /\ b \in Local /\ resp[b] /\ NULL \in Index /\ w \in Index
    <2>1. wpc[w] = "complete" /\ wcur[w] # NULL /\ running[w] /\ wakeup[w] = 0
      BY DEF IInv, TypeOK, PcInv, WorkerInv, WorkerComplete
    <2>2. b \in Block /\ Holds("worker", w, b) /\ NULL \in Index /\ w \in Index
      BY <1>0, <2>1 DEF IInv, TypeOK, Holds, Index
    <2> QED BY <2>1, <2>2 DEF IInv, Direction, Fits, Kind, Out, In, ForUs, ToDo
  <1>3. /\ pool' = pool \cup {b}
        /\ resp' = [resp EXCEPT ![b] = FALSE]
        /\ context' = [context EXCEPT ![b] = NULL] /\ context[b] = NULL
        /\ wcur' = [wcur EXCEPT ![w] = NULL]
        /\ wpc' = [wpc EXCEPT ![w] = "check"]
    BY <1>0 DEF WorkerComplete, Free
  <1>4. Moves(b, "worker", w, "pool", NULL)
    BY <1>0, <1>1, <1>2, <1>3 DEF Moves, Holds, IInv, TypeOK
  <1>5. UniqueHolder' /\ Direction'
    <2>0. Fits("worker", b)
      BY <1>2 DEF IInv, Direction, Index, Kind, Out, In, ForUs, ToDo
    <2>1. Fits("pool", b)'
      BY <1>1, <1>2, <1>3, <2>0, BlockAssumption
         DEF IInv, TypeOK, Fits, Block, Out, In, ForUs, ToDo
    <2>2. \A x \in Block : x # b => (resp'[x] <=> resp[x])
      BY <1>1, <1>3 DEF IInv, TypeOK
    <2>3. /\ "worker" \in Kind /\ w \in Index
          /\ "pool" \in Kind /\ NULL \in Index
      BY <1>2 DEF Index, Kind, Out, In, ForUs, ToDo
    <2> QED BY <1>2, <1>4, <2>1, <2>2, <2>3, MoveOne DEF IInv, OneOwner
  <1>6. TypeOK'
    BY <1>1, <1>2, <1>3 DEF IInv, TypeOK
  <1>7. NoneLinkedTwice'
    BY <1>1, <1>3 DEF IInv, OneOwner, NoneLinkedTwice
  <1>8. PcInv'
    BY <1>0, <1>1, <1>2, <1>3 DEF IInv, TypeOK, PcInv, OutputInv, InputInv, WorkerInv
  <1>9. CtxInv'
    BY <1>0, <1>1, <1>2, <1>3 DEF IInv, TypeOK, CtxInv
  <1> QED BY <1>5, <1>6, <1>7, <1>8, <1>9 DEF IInv, OneOwner

(* The completion callback of a waiting caller wakes it. *)
LEMMA WorkerWakesCallerInv ==
    ASSUME IInv, NEW w \in Worker, WorkerComplete(w),
           context[wcur[w]] # NULL
    PROVE  IInv'
  <1>0. PICK b, c : b = wcur[w] /\ c = context[b]
    OBVIOUS
  <1> USE NotNull, SizeAssumption
  <1>1. UNCHANGED <<pool, cblk, resp, context, output_pending, output_flag,
                     unsignalled, opc, batch, outbox, inbox, cpu2, ipc, icur,
                     iscan, input_pending, running, wakeup, data, fifo, hcur>>
    BY DEF WorkerComplete, Submit, Free, callerVars, blockVars, submitVars, outputVars,
           mboxVars, inputVars, workerVars, handleVars
  <1>2. /\ b \in Block
        /\ Holds("worker", w, b)
        /\ wpc[w] = "complete" /\ running[w] /\ wakeup[w] = 0
        /\ b \in Local /\ resp[b] /\ NULL \in Index /\ w \in Index
    <2>1. wpc[w] = "complete" /\ wcur[w] # NULL /\ running[w] /\ wakeup[w] = 0
      BY DEF IInv, TypeOK, PcInv, WorkerInv, WorkerComplete
    <2>2. b \in Block /\ Holds("worker", w, b) /\ NULL \in Index /\ w \in Index
      BY <1>0, <2>1 DEF IInv, TypeOK, Holds, Index
    <2> QED BY <2>1, <2>2 DEF IInv, Direction, Fits, Kind, Out, In, ForUs, ToDo
  <1>3. /\ c \in Index /\ c \in Callers /\ context[b] = c
        /\ cblk[c] = b /\ ~ done[c]
        /\ done' = [done EXCEPT ![c] = TRUE]
        /\ wcur' = [wcur EXCEPT ![w] = NULL]
        /\ wpc' = [wpc EXCEPT ![w] = "check"]
    <2>1. c \in Callers /\ c \in Index /\ cblk[c] = b /\ context[b] = c
      BY <1>0, <1>2 DEF IInv, TypeOK, CtxInv, Index
    <2>2. HeldOnlyBy("worker", w, b)
      BY <1>2, OnlyHolder DEF IInv, OneOwner, Kind, Out, In, ForUs, ToDo
    <2>3. ~ done[c]
      BY <2>1, <2>2 DEF HeldOnlyBy, Holds, Kind
    <2> QED BY <1>0, <2>1, <2>3 DEF WorkerComplete
  <1>4. Moves(b, "worker", w, "caller", c)
    BY <1>0, <1>1, <1>2, <1>3 DEF Moves, Holds, IInv, TypeOK
  <1>5. UniqueHolder' /\ Direction'
    <2>0. Fits("worker", b)
      BY <1>2 DEF IInv, Direction, Index, Kind, Out, In, ForUs, ToDo
    <2>1. Fits("caller", b)'
      BY <1>1, <1>2, <1>3, <2>0, BlockAssumption
         DEF IInv, TypeOK, Fits, Block, Out, In, ForUs, ToDo
    <2>2. \A x \in Block : x # b => (resp'[x] <=> resp[x])
      BY <1>1, <1>3 DEF IInv, TypeOK
    <2>3. /\ "worker" \in Kind /\ w \in Index
          /\ "caller" \in Kind /\ c \in Index
      BY <1>2, <1>3 DEF Index, Kind, Out, In, ForUs, ToDo
    <2> QED BY <1>2, <1>4, <2>1, <2>2, <2>3, MoveOne DEF IInv, OneOwner
  <1>6. TypeOK'
    BY <1>1, <1>2, <1>3 DEF IInv, TypeOK
  <1>7. NoneLinkedTwice'
    BY <1>1, <1>3 DEF IInv, OneOwner, NoneLinkedTwice
  <1>8. PcInv'
    BY <1>0, <1>1, <1>2, <1>3 DEF IInv, TypeOK, PcInv, OutputInv, InputInv, WorkerInv
  <1>9. CtxInv'
    BY <1>0, <1>1, <1>2, <1>3 DEF IInv, TypeOK, CtxInv
  <1> QED BY <1>5, <1>6, <1>7, <1>8, <1>9 DEF IInv, OneOwner

(* A worker takes a parked response. *)
LEMMA WorkerNextInv ==
    ASSUME IInv, NEW w \in Worker, WorkerNext(w)
    PROVE  IInv'
  <1>0. PICK b : b = Head(input_pending)
    OBVIOUS
  <1> USE NotNull, SizeAssumption
  <1>1. UNCHANGED <<pool, cblk, done, resp, context, output_pending,
                     output_flag, unsignalled, opc, batch, outbox, inbox, cpu2,
                     ipc, icur, iscan, running, wakeup, data, fifo, hcur>>
    BY DEF WorkerNext, Submit, Free, callerVars, blockVars, submitVars, outputVars,
           mboxVars, inputVars, workerVars, handleVars
  <1>2. /\ b \in Block
        /\ Holds("input_pending", NULL, b)
        /\ input_pending # <<>> /\ NULL \in Index /\ w \in Index
        /\ wpc[w] = "check" /\ running[w] /\ wakeup[w] = 0 /\ wcur[w] = NULL
    BY <1>0, ListDelFirst DEF IInv, TypeOK, OneOwner, NoneLinkedTwice, WorkerNext, PcInv,
       WorkerInv, Holds, Index
  <1>3. /\ input_pending' \in Seq(Block)
        /\ Range(input_pending') = Range(input_pending) \ {b}
        /\ IsInjective(input_pending')
        /\ wcur' = [wcur EXCEPT ![w] = b]
        /\ wpc' = [wpc EXCEPT ![w] = "complete"]
    BY <1>0, <1>2, ListDelFirst
       DEF WorkerNext, IInv, TypeOK, OneOwner, NoneLinkedTwice
  <1>4. Moves(b, "input_pending", NULL, "worker", w)
    BY <1>0, <1>1, <1>2, <1>3 DEF Moves, Holds, IInv, TypeOK
  <1>5. UniqueHolder' /\ Direction'
    <2>0. Fits("input_pending", b)
      BY <1>2 DEF IInv, Direction, Index, Kind, Out, In, ForUs, ToDo
    <2>1. Fits("worker", b)'
      BY <1>1, <1>2, <1>3, <2>0, BlockAssumption
         DEF IInv, TypeOK, Fits, Block, Out, In, ForUs, ToDo
    <2>2. \A x \in Block : x # b => (resp'[x] <=> resp[x])
      BY <1>1, <1>3 DEF IInv, TypeOK
    <2>3. /\ "input_pending" \in Kind /\ NULL \in Index
          /\ "worker" \in Kind /\ w \in Index
      BY <1>2 DEF Index, Kind, Out, In, ForUs, ToDo
    <2> QED BY <1>2, <1>4, <2>1, <2>2, <2>3, MoveOne DEF IInv, OneOwner
  <1>6. TypeOK'
    BY <1>1, <1>2, <1>3 DEF IInv, TypeOK
  <1>7. NoneLinkedTwice'
    BY <1>1, <1>3 DEF IInv, OneOwner, NoneLinkedTwice
  <1>8. PcInv'
    BY <1>0, <1>1, <1>2, <1>3 DEF IInv, TypeOK, PcInv, OutputInv, InputInv, WorkerInv
  <1>9. CtxInv'
    BY <1>0, <1>1, <1>2, <1>3 DEF IInv, TypeOK, CtxInv
  <1> QED BY <1>5, <1>6, <1>7, <1>8, <1>9 DEF IInv, OneOwner

(* A handler thread takes a request out of its fifo. *)
LEMMA HandlerGetInv ==
    ASSUME IInv, NEW h \in Handlers, HandlerGet(h)
    PROVE  IInv'
  <1>0. PICK b : b = Head(fifo[h])
    OBVIOUS
  <1> USE NotNull, SizeAssumption
  <1>1. UNCHANGED <<pool, cblk, done, resp, context, output_pending,
                     output_flag, unsignalled, opc, batch, outbox, inbox, cpu2,
                     ipc, icur, iscan, input_pending, running, wakeup, data,
                     wpc, wcur>>
    BY DEF HandlerGet, Submit, Free, callerVars, blockVars, submitVars, outputVars,
           mboxVars, inputVars, workerVars, handleVars
  <1>2. /\ b \in Block
        /\ Holds("fifo", h, b)
        /\ fifo[h] \in Seq(Block) /\ fifo[h] # <<>> /\ IsInjective(fifo[h])
        /\ h \in Index
    <2>1. fifo[h] \in Seq(Block) /\ fifo[h] # <<>> /\ IsInjective(fifo[h])
      BY DEF IInv, TypeOK, OneOwner, NoneLinkedTwice, HandlerGet
    <2> QED BY <1>0, <2>1, ListDelFirst DEF Holds, Index
  <1>3. /\ hcur[h] = NULL /\ hcur' = [hcur EXCEPT ![h] = b]
        /\ fifo' = [fifo EXCEPT ![h] = Tail(@)]
        /\ Tail(fifo[h]) \in Seq(Block)
        /\ Range(Tail(fifo[h])) = Range(fifo[h]) \ {b}
        /\ IsInjective(Tail(fifo[h]))
        /\ fifo \in [Handlers -> Seq(Block)]
        /\ hcur \in [Handlers -> Block \cup {NULL}]
    BY <1>0, <1>2, ListDelFirst DEF HandlerGet, IInv, TypeOK
  <1>4. Moves(b, "fifo", h, "handler", h)
    BY <1>0, <1>1, <1>2, <1>3 DEF Moves, Holds
  <1>5. UniqueHolder' /\ Direction'
    <2>0. Fits("fifo", b)
      BY <1>2 DEF IInv, Direction, Index, Kind, Out, In, ForUs, ToDo
    <2>1. Fits("handler", b)'
      BY <1>1, <1>2, <1>3, <2>0, BlockAssumption
         DEF IInv, TypeOK, Fits, Block, Out, In, ForUs, ToDo
    <2>2. \A x \in Block : x # b => (resp'[x] <=> resp[x])
      BY <1>1, <1>3 DEF IInv, TypeOK
    <2>3. /\ "fifo" \in Kind /\ h \in Index
          /\ "handler" \in Kind /\ h \in Index
      BY <1>2 DEF Index, Kind, Out, In, ForUs, ToDo
    <2> QED BY <1>2, <1>4, <2>1, <2>2, <2>3, MoveOne DEF IInv, OneOwner
  <1>6. TypeOK'
    BY <1>1, <1>2, <1>3 DEF IInv, TypeOK
  <1>7. NoneLinkedTwice'
    BY <1>1, <1>3 DEF IInv, OneOwner, NoneLinkedTwice
  <1>8. PcInv'
    BY <1>0, <1>1, <1>2, <1>3 DEF IInv, TypeOK, PcInv, OutputInv, InputInv, WorkerInv
  <1>9. CtxInv'
    BY <1>0, <1>1, <1>2, <1>3 DEF IInv, TypeOK, CtxInv
  <1> QED BY <1>5, <1>6, <1>7, <1>8, <1>9 DEF IInv, OneOwner

(* A handler thread gives a request back. *)
LEMMA HandlerGivebackInv ==
    ASSUME IInv, NEW h \in Handlers, HandlerGiveback(h)
    PROVE  IInv'
  <1>0. PICK b : b = hcur[h]
    OBVIOUS
  <1> USE NotNull, SizeAssumption
  <1>1. UNCHANGED <<pool, cblk, done, context, output_flag, opc, batch,
                     outbox, inbox, cpu2, ipc, icur, iscan, input_pending,
                     running, wakeup, data, wpc, wcur, fifo>>
    BY DEF HandlerGiveback, Submit, Free, callerVars, blockVars, submitVars, outputVars,
           mboxVars, inputVars, workerVars, handleVars
  <1>2. /\ b \in Block
        /\ Holds("handler", h, b)
        /\ NULL \in Index /\ h \in Index
    BY <1>0 DEF HandlerGiveback, IInv, TypeOK, Holds, Index
  <1>3. /\ hcur' = [hcur EXCEPT ![h] = NULL]
        /\ hcur \in [Handlers -> Block \cup {NULL}]
        /\ output_pending' \in Seq(Block)
        /\ Range(output_pending') = Range(output_pending) \cup {b}
        /\ IsInjective(output_pending')
        /\ resp' = [resp EXCEPT ![b] = TRUE]
    <2>1. HeldOnlyBy("handler", h, b)
      BY <1>2, OnlyHolder DEF IInv, OneOwner, Kind, Out, In, ForUs, ToDo
    <2>2. b \notin Range(output_pending)
      BY <1>2, <2>1 DEF HeldOnlyBy, Holds, Kind, Out, In, ForUs, ToDo
    <2> QED BY <1>0, <1>2, <2>2, ListAdd
            DEF HandlerGiveback, Submit, Insert, IInv, TypeOK, OneOwner, NoneLinkedTwice
  <1>4. Moves(b, "handler", h, "output_pending", NULL)
    BY <1>0, <1>1, <1>2, <1>3 DEF Moves, Holds
  <1>5. UniqueHolder' /\ Direction'
    <2>0. Fits("handler", b)
      BY <1>2 DEF IInv, Direction, Index, Kind, Out, In, ForUs, ToDo
    <2>1. Fits("output_pending", b)'
      BY <1>1, <1>2, <1>3, <2>0, BlockAssumption
         DEF IInv, TypeOK, Fits, Block, Out, In, ForUs, ToDo
    <2>2. \A x \in Block : x # b => (resp'[x] <=> resp[x])
      BY <1>1, <1>3 DEF IInv, TypeOK
    <2>3. /\ "handler" \in Kind /\ h \in Index
          /\ "output_pending" \in Kind /\ NULL \in Index
      BY <1>2 DEF Index, Kind, Out, In, ForUs, ToDo
    <2> QED BY <1>2, <1>4, <2>1, <2>2, <2>3, MoveOne DEF IInv, OneOwner
  <1>6. TypeOK'
    <2>1. unsignalled' \subseteq Submitter
      BY DEF HandlerGiveback, Submit, IInv, TypeOK, Submitter
    <2> QED BY <1>1, <1>2, <1>3, <2>1 DEF IInv, TypeOK
  <1>7. NoneLinkedTwice'
    BY <1>1, <1>3 DEF IInv, OneOwner, NoneLinkedTwice
  <1>8. PcInv'
    BY <1>0, <1>1, <1>2, <1>3 DEF IInv, TypeOK, PcInv, OutputInv, InputInv, WorkerInv
  <1>9. CtxInv'
    BY <1>0, <1>1, <1>2, <1>3 DEF IInv, TypeOK, CtxInv
  <1> QED BY <1>5, <1>6, <1>7, <1>8, <1>9 DEF IInv, OneOwner

(* A submitter sets the output flag. *)
LEMMA SignalInv ==
    ASSUME IInv, NEW t \in Submitter, Signal(t)
    PROVE  IInv'
  <1> USE NotNull, SizeAssumption
  <1>1. UNCHANGED <<pool, cblk, done, resp, context, output_pending, opc,
                     batch, outbox, inbox, cpu2, ipc, icur, iscan,
                     input_pending, running, wakeup, data, wpc, wcur, fifo,
                     hcur>>
    BY DEF Signal, callerVars, blockVars, submitVars, outputVars,
           mboxVars, inputVars, workerVars, handleVars
  <1>2. NoneMoved
    BY <1>1 DEF NoneMoved, Holds
  <1>3. UniqueHolder' /\ Direction' /\ NoneLinkedTwice'
    BY <1>1, <1>2, MoveNone DEF IInv, OneOwner, NoneLinkedTwice
  <1>4. TypeOK'
    BY <1>1 DEF IInv, TypeOK, Signal
  <1>5. PcInv' /\ CtxInv'
    BY <1>1 DEF IInv, TypeOK, PcInv, OutputInv, InputInv, WorkerInv, CtxInv,
       Signal
  <1> QED BY <1>3, <1>4, <1>5 DEF IInv, OneOwner

(* The output thread goes to sleep. *)
LEMMA OutputIdleInv ==
    ASSUME IInv, OutputIdle
    PROVE  IInv'
  <1> USE NotNull, SizeAssumption
  <1>1. UNCHANGED <<pool, cblk, done, resp, context, output_pending,
                     output_flag, unsignalled, batch, outbox, inbox, cpu2, ipc,
                     icur, iscan, input_pending, running, wakeup, data, wpc,
                     wcur, fifo, hcur>>
    BY DEF OutputIdle, callerVars, blockVars, submitVars, outputVars,
           mboxVars, inputVars, workerVars, handleVars
  <1>2. NoneMoved
    BY <1>1 DEF NoneMoved, Holds
  <1>3. UniqueHolder' /\ Direction' /\ NoneLinkedTwice'
    BY <1>1, <1>2, MoveNone DEF IInv, OneOwner, NoneLinkedTwice
  <1>4. TypeOK'
    BY <1>1 DEF IInv, TypeOK, OutputIdle
  <1>5. PcInv' /\ CtxInv'
    BY <1>1 DEF IInv, TypeOK, PcInv, OutputInv, InputInv, WorkerInv, CtxInv,
       OutputIdle
  <1> QED BY <1>3, <1>4, <1>5 DEF IInv, OneOwner

(* The output thread wakes up. *)
LEMMA OutputWakeInv ==
    ASSUME IInv, OutputWake
    PROVE  IInv'
  <1> USE NotNull, SizeAssumption
  <1>1. UNCHANGED <<pool, cblk, done, resp, context, output_pending,
                     unsignalled, batch, outbox, inbox, cpu2, ipc, icur, iscan,
                     input_pending, running, wakeup, data, wpc, wcur, fifo,
                     hcur>>
    BY DEF OutputWake, callerVars, blockVars, submitVars, outputVars,
           mboxVars, inputVars, workerVars, handleVars
  <1>2. NoneMoved
    BY <1>1 DEF NoneMoved, Holds
  <1>3. UniqueHolder' /\ Direction' /\ NoneLinkedTwice'
    BY <1>1, <1>2, MoveNone DEF IInv, OneOwner, NoneLinkedTwice
  <1>4. TypeOK'
    BY <1>1 DEF IInv, TypeOK, OutputWake
  <1>5. PcInv' /\ CtxInv'
    BY <1>1 DEF IInv, TypeOK, PcInv, OutputInv, InputInv, WorkerInv, CtxInv,
       OutputWake
  <1> QED BY <1>3, <1>4, <1>5 DEF IInv, OneOwner

(* A step that only changes which messages without a block are in the      *)
(* mailbox.                                                                *)
LEMMA SameBlocksInv ==
    ASSUME IInv, UNCHANGED <<callerVars, blockVars, submitVars, outputVars, outbox,
                             cpu2, inputVars, input_pending, workerVars, handleVars>>,
           inbox' \in Seq(Message), Len(inbox') <= InCap, IsInjective(inbox'),
           Range(inbox') \ {NULL} = Range(inbox) \ {NULL}
    PROVE  IInv'
  <1>1. UNCHANGED <<pool, cblk, done, resp, context, output_pending,
                     output_flag, unsignalled, opc, batch, outbox, cpu2,
                     ipc, icur, iscan, input_pending, running, wakeup, data,
                     wpc, wcur, fifo, hcur>>
    BY DEF callerVars, blockVars, submitVars, outputVars, inputVars, workerVars,
           handleVars
  <1>2. \A x \in Block : x \in Range(inbox') <=> x \in Range(inbox)
    BY NotNull
  <1>3. NoneMoved
    BY <1>1, <1>2 DEF NoneMoved, Holds
  <1>4. UniqueHolder' /\ Direction' /\ NoneLinkedTwice'
    BY <1>1, <1>3, MoveNone DEF IInv, OneOwner, NoneLinkedTwice
  <1>5. TypeOK'
    BY <1>1 DEF IInv, TypeOK
  <1>6. PcInv' /\ CtxInv'
    BY <1>1 DEF IInv, TypeOK, PcInv, OutputInv, InputInv, WorkerInv, CtxInv
  <1> QED BY <1>4, <1>5, <1>6 DEF IInv, OneOwner

(* CPU2 puts a message into the mailbox that is no block. *)
LEMMA Cpu2PutInvalidInv ==
    ASSUME IInv, Cpu2PutInvalid
    PROVE  IInv'
  <1>1. /\ inbox \in Seq(Message) /\ NULL \in Message /\ NULL \notin Range(inbox)
        /\ IsInjective(inbox) /\ inbox' = Append(inbox, NULL)
    BY DEF Message, IInv, TypeOK, OneOwner, NoneLinkedTwice, Cpu2PutInvalid
  <1>2. /\ inbox' \in Seq(Message) /\ IsInjective(inbox')
        /\ Range(inbox') = Range(inbox) \cup {NULL}
    BY <1>1, ListAddTail
  <1>3. Len(inbox') <= InCap
    BY <1>1, AppendProperties, LenProperties, SizeAssumption DEF Cpu2PutInvalid
  <1> QED BY <1>2, <1>3, SameBlocksInv DEF Cpu2PutInvalid

(* The input thread drops it. *)
LEMMA InputInvalidInv ==
    ASSUME IInv, InputInvalid
    PROVE  IInv'
  <1>1. /\ inbox \in Seq(Message) /\ inbox # <<>> /\ IsInjective(inbox)
        /\ Head(inbox) = NULL /\ inbox' = Tail(inbox) /\ Len(inbox) <= InCap
    BY DEF IInv, TypeOK, OneOwner, NoneLinkedTwice, InputInvalid
  <1>2. /\ inbox' \in Seq(Message) /\ IsInjective(inbox')
        /\ Range(inbox') = Range(inbox) \ {NULL}
        /\ Len(inbox') = Len(inbox) - 1
    BY <1>1, ListDelFirst
  <1>3. Len(inbox') <= InCap
    BY <1>1, <1>2, LenProperties, SizeAssumption
  <1> QED BY <1>2, <1>3, SameBlocksInv DEF InputInvalid

(* The input thread finds a worker busy. *)
LEMMA InputSkipInv ==
    ASSUME IInv, InputSkip
    PROVE  IInv'
  <1> USE NotNull, SizeAssumption
  <1>1. UNCHANGED <<pool, cblk, done, resp, context, output_pending,
                     output_flag, unsignalled, opc, batch, outbox, inbox, cpu2,
                     ipc, icur, input_pending, running, wakeup, data, wpc,
                     wcur, fifo, hcur>>
    BY DEF InputSkip, callerVars, blockVars, submitVars, outputVars,
           mboxVars, inputVars, workerVars, handleVars
  <1>2. NoneMoved
    BY <1>1 DEF NoneMoved, Holds
  <1>3. UniqueHolder' /\ Direction' /\ NoneLinkedTwice'
    BY <1>1, <1>2, MoveNone DEF IInv, OneOwner, NoneLinkedTwice
  <1>4. TypeOK'
    BY <1>1 DEF IInv, TypeOK, InputSkip, Worker
  <1>5. PcInv' /\ CtxInv'
    BY <1>1 DEF IInv, TypeOK, PcInv, OutputInv, InputInv, WorkerInv, CtxInv,
       InputSkip
  <1> QED BY <1>3, <1>4, <1>5 DEF IInv, OneOwner

(* A worker finds no parked response. *)
LEMMA WorkerEmptyInv ==
    ASSUME IInv, NEW w \in Worker, WorkerEmpty(w)
    PROVE  IInv'
  <1> USE NotNull, SizeAssumption
  <1>1. UNCHANGED <<pool, cblk, done, resp, context, output_pending,
                     output_flag, unsignalled, opc, batch, outbox, inbox, cpu2,
                     ipc, icur, iscan, input_pending, running, wakeup, data,
                     wcur, fifo, hcur>>
    BY DEF WorkerEmpty, callerVars, blockVars, submitVars, outputVars,
           mboxVars, inputVars, workerVars, handleVars
  <1>2. NoneMoved
    BY <1>1 DEF NoneMoved, Holds
  <1>3. UniqueHolder' /\ Direction' /\ NoneLinkedTwice'
    BY <1>1, <1>2, MoveNone DEF IInv, OneOwner, NoneLinkedTwice
  <1>4. TypeOK'
    BY <1>1 DEF IInv, TypeOK, WorkerEmpty
  <1>5. PcInv' /\ CtxInv'
    BY <1>1 DEF IInv, TypeOK, PcInv, OutputInv, InputInv, WorkerInv, CtxInv,
       WorkerEmpty
  <1> QED BY <1>3, <1>4, <1>5 DEF IInv, OneOwner

(* A worker declares itself idle. *)
LEMMA WorkerIdleInv ==
    ASSUME IInv, NEW w \in Worker, WorkerIdle(w)
    PROVE  IInv'
  <1> USE NotNull, SizeAssumption
  <1>1. UNCHANGED <<pool, cblk, done, resp, context, output_pending,
                     output_flag, unsignalled, opc, batch, outbox, inbox, cpu2,
                     ipc, icur, iscan, input_pending, wakeup, data, wcur, fifo,
                     hcur>>
    BY DEF WorkerIdle, callerVars, blockVars, submitVars, outputVars,
           mboxVars, inputVars, workerVars, handleVars
  <1>2. NoneMoved
    BY <1>1 DEF NoneMoved, Holds
  <1>3. UniqueHolder' /\ Direction' /\ NoneLinkedTwice'
    BY <1>1, <1>2, MoveNone DEF IInv, OneOwner, NoneLinkedTwice
  <1>4. TypeOK'
    BY <1>1 DEF IInv, TypeOK, WorkerIdle
  <1>5. PcInv' /\ CtxInv'
    BY <1>1 DEF IInv, TypeOK, PcInv, OutputInv, InputInv, WorkerInv, CtxInv,
       WorkerIdle
  <1> QED BY <1>3, <1>4, <1>5 DEF IInv, OneOwner

(* The output thread takes the whole list: all its blocks move at once. *)
LEMMA OutputTakeInv ==
    ASSUME IInv, OutputTake
    PROVE  IInv'
  <1> USE NotNull
  <1>1. UNCHANGED <<pool, cblk, done, resp, context, output_flag, unsignalled,
                     outbox, inbox, cpu2, ipc, icur, iscan, input_pending,
                     running, wakeup, data, wpc, wcur, fifo, hcur>>
    BY DEF OutputTake, callerVars, blockVars, submitVars, outputVars,
           mboxVars, inputVars, workerVars, handleVars
  <1>2. /\ opc' = "push" /\ output_pending # <<>> /\ batch = <<>>
        /\ batch' = output_pending /\ output_pending' = <<>>
        /\ Range(<<>>) = {} /\ IsInjective(<<>>)
    BY EmptyList DEF OutputTake, IInv, PcInv, OutputInv
  <1>3. ASSUME NEW x \in Block, NEW m \in Kind, NEW n \in Index
        PROVE  Holds(m, n, x)' <=>
                 \/ m = "batch" /\ n = NULL /\ Holds("output_pending", NULL, x)
                 \/ m # "output_pending" /\ Holds(m, n, x)
    BY <1>1, <1>2 DEF Holds
  <1>4. ASSUME NEW x \in Block
        PROVE  (\E m \in Kind, n \in Index : HeldOnlyBy(m, n, x))'
    <2>1. PICK k \in Kind, i \in Index : HeldOnlyBy(k, i, x)
      BY DEF IInv, OneOwner, UniqueHolder
    <2>2. "batch" \in Kind /\ "output_pending" \in Kind /\ NULL \in Index
      BY DEF Index, Kind, Out
    <2>3. CASE k = "output_pending"
      <3>1. i = NULL
        BY <2>1, <2>3 DEF HeldOnlyBy, Holds
      <3>2. HeldOnlyBy("batch", NULL, x)'
        BY <1>3, <2>1, <2>2, <2>3, <3>1 DEF HeldOnlyBy
      <3> QED BY <2>2, <3>2
    <2>4. CASE k # "output_pending"
      <3>1. HeldOnlyBy(k, i, x)'
        BY <1>3, <2>1, <2>2, <2>4 DEF HeldOnlyBy
      <3> QED BY <3>1
    <2> QED BY <2>3, <2>4
  <1>5. ASSUME NEW x \in Block, NEW m \in Kind, NEW n \in Index, Holds(m, n, x)'
        PROVE  Fits(m, x)'
    <2>1. "output_pending" \in Kind /\ NULL \in Index
      BY DEF Index, Kind, Out
    <2>2. CASE m = "batch" /\ Holds("output_pending", NULL, x)
      BY <1>1, <2>1, <2>2 DEF IInv, Direction, Fits, Out, In, ForUs, ToDo
    <2>3. CASE Holds(m, n, x)
      BY <1>1, <2>3 DEF IInv, Direction, Fits
    <2> QED BY <1>3, <1>5, <2>2, <2>3
  <1>6. TypeOK'
    BY <1>1, <1>2 DEF IInv, TypeOK
  <1>7. NoneLinkedTwice'
    BY <1>1, <1>2 DEF IInv, OneOwner, NoneLinkedTwice
  <1>8. PcInv' /\ CtxInv'
    BY <1>1, <1>2 DEF IInv, PcInv, OutputInv, InputInv, WorkerInv, CtxInv
  <1> QED BY <1>4, <1>5, <1>6, <1>7, <1>8 DEF IInv, OneOwner, UniqueHolder, Direction

-----------------------------------------------------------------------------
(* The theorems. *)

(* Initially CPU2 holds its blocks and the pool all others. *)
LEMMA InitIInv == Init => IInv
  <1> SUFFICES ASSUME Init PROVE IInv
    OBVIOUS
  <1> USE NotNull
  <1>1. TypeOK
    <2>1. /\ <<>> \in Seq(Block) /\ <<>> \in Seq(Message) /\ Len(<<>>) = 0
          /\ Local \subseteq Block
      BY DEF Block
    <2>2. 1 \in 1 .. MAX_CONCURRENT_HANDLES + 1 /\ 0 <= OutCap /\ 0 <= InCap
      BY SizeAssumption
    <2>3. Remote \subseteq Block
      BY DEF Block
    <2> QED BY <2>1, <2>2, <2>3 DEF Init, TypeOK
  <1>2. PcInv
    BY DEF Init, PcInv, OutputInv, InputInv, WorkerInv
  <1>3. CtxInv
    BY DEF Init, CtxInv, Block
  <1>4. NoneLinkedTwice
    BY EmptyList DEF Init, NoneLinkedTwice
  <1>5. \A b \in Block, m \in Kind, n \in Index :
            Holds(m, n, b) <=> \/ m = "pool" /\ n = NULL /\ b \in Local
                               \/ m = "cpu2" /\ n = NULL /\ b \in Remote
    BY EmptyList DEF Init, Holds
  <1>6. UniqueHolder
    <2>1. "pool" \in Kind /\ "cpu2" \in Kind /\ NULL \in Index
      BY DEF Kind, Index
    <2>2. ASSUME NEW b \in Local PROVE HeldOnlyBy("pool", NULL, b)
      BY <1>5, <2>1, BlockAssumption DEF HeldOnlyBy, Block
    <2>3. ASSUME NEW b \in Remote PROVE HeldOnlyBy("cpu2", NULL, b)
      BY <1>5, <2>1, BlockAssumption DEF HeldOnlyBy, Block
    <2> QED BY <2>1, <2>2, <2>3 DEF UniqueHolder, Block
  <1>7. Direction
    <2>1. ASSUME NEW b \in Block, NEW m \in Kind, NEW n \in Index, Holds(m, n, b)
          PROVE  Fits(m, b)
      <3>1. ~ resp[b]
        BY DEF Init
      <3>2. \/ m = "pool" /\ b \in Local
            \/ m = "cpu2" /\ b \in Remote
        BY <1>5, <2>1
      <3> QED BY <3>1, <3>2, BlockAssumption DEF Fits, Out, In, ForUs, ToDo
    <2> QED BY <2>1 DEF Direction
  <1> QED BY <1>1, <1>2, <1>3, <1>4, <1>6, <1>7 DEF IInv, OneOwner

(* A step that changes no variable keeps the invariant. *)
LEMMA StutterIInv ==
    ASSUME IInv, UNCHANGED vars
    PROVE  IInv'
  <1>1. UNCHANGED <<pool, cblk, done, resp, context, output_pending, output_flag,
                     unsignalled, opc, batch, outbox, inbox, cpu2, ipc, icur,
                     iscan, input_pending, running, wakeup, data, wpc, wcur,
                     fifo, hcur>>
    BY DEF vars, callerVars, blockVars, submitVars, outputVars, mboxVars, inputVars,
           workerVars, handleVars
  <1>2. NoneMoved
    BY <1>1 DEF NoneMoved, Holds
  <1>3. UniqueHolder' /\ Direction' /\ NoneLinkedTwice'
    BY <1>1, <1>2, MoveNone DEF IInv, OneOwner, NoneLinkedTwice
  <1>4. TypeOK' /\ PcInv' /\ CtxInv'
    BY <1>1 DEF IInv, TypeOK, PcInv, OutputInv, InputInv, WorkerInv, CtxInv
  <1> QED BY <1>3, <1>4 DEF IInv, OneOwner

(* One step of the protocol, by thread and by action. *)
LEMMA NextIInv ==
    ASSUME IInv, [Next]_vars
    PROVE  IInv'
  <1>1. CASE \E t \in Submitter : Signal(t)
    BY <1>1, SignalInv
  <1>2. CASE \E c \in Callers : CallerStep(c)
    BY <1>2, SubmitAsyncInv, SubmitAndWaitInv, WaitDoneInv DEF CallerStep
  <1>3. CASE OutputStep
    BY <1>3, OutputIdleInv, OutputWakeInv, OutputTakeInv, OutputPushInv DEF OutputStep
  <1>4. CASE Cpu2Get \/ Cpu2PutInvalid \/ \E b \in Block : Cpu2Put(b)
    BY <1>4, Cpu2GetInv, Cpu2PutInv, Cpu2PutInvalidInv
  <1>5. CASE InputStep
    BY <1>5, InputInvalidInv, InputGetInv, InputSkipInv, InputDispatchInv, InputPendInv,
       InputGivebackInv, InputDeferInv DEF InputStep
  <1>6. CASE \E w \in Worker : WorkerStep(w)
    BY <1>6, WorkerWakeInv, WorkerFreesInv, WorkerWakesCallerInv, WorkerNextInv,
       WorkerEmptyInv, WorkerIdleInv DEF WorkerStep
  <1>7. CASE \E h \in Handlers : HandlerStep(h)
    BY <1>7, HandlerGetInv, HandlerGivebackInv DEF HandlerStep
  <1>8. CASE UNCHANGED vars
    BY <1>8, StutterIInv
  <1> QED BY <1>1, <1>2, <1>3, <1>4, <1>5, <1>6, <1>7, <1>8 DEF Next

(* The inductive invariant: where each thread is, that every block is in   *)
(* one place and fits there, and whose ctx it points to.                   *)
THEOREM Invariance == Spec => []IInv
  <1>1. Init => IInv
    BY InitIInv
  <1>2. IInv /\ [Next]_vars => IInv'
    BY NextIInv
  <1> QED BY <1>1, <1>2, PTL DEF Spec

(* Every variable keeps its type; in particular no step of the code takes  *)
(* a block off an empty list or indexes a worker out of bounds.            *)
THEOREM TypeCorrect == Spec => []TypeOK
  <1>1. IInv => TypeOK
    BY DEF IInv
  <1> QED BY <1>1, Invariance, PTL

(* No interleaving of any number of threads loses, shares or doubly links  *)
(* a request block.                                                        *)
THEOREM EveryBlockHasOneOwner == Spec => []OneOwner
  <1>1. IInv => OneOwner
    BY DEF IInv
  <1> QED BY <1>1, Invariance, PTL

(* The RESPONSE_BIT always tells requests and responses apart. *)
THEOREM NoMessageMistaken == Spec => []Direction
  <1>1. IInv => Direction
    BY DEF IInv
  <1> QED BY <1>1, Invariance, PTL

(* The output thread never sleeps on a block nobody will wake it for: a    *)
(* thread that inserts is in unsignalled until it sets the flag, and only  *)
(* the output thread clears the flag, before it looks at the list.         *)
LEMMA WakeupStep ==
    ASSUME TypeOK, OutputWakeup, [Next]_vars
    PROVE  OutputWakeup'
  <1> USE DEF OutputWakeup, callerVars, blockVars, submitVars, outputVars, mboxVars,
          inputVars, workerVars, handleVars
  <1>1. CASE \E t \in Submitter : Signal(t)
    BY <1>1 DEF Signal
  <1>2. CASE \E c \in Callers : CallerStep(c)
    <2>1. ASSUME NEW c \in Callers, NEW b \in Local, SubmitAsync(c, b)
          PROVE  OutputWakeup'
      BY <2>1 DEF SubmitAsync, Submit
    <2>2. ASSUME NEW c \in Callers, NEW b \in Local, SubmitAndWait(c, b)
          PROVE  OutputWakeup'
      BY <2>2 DEF SubmitAndWait, Submit
    <2>3. ASSUME NEW c \in Callers, WaitDone(c)
          PROVE  OutputWakeup'
      BY <2>3 DEF WaitDone
    <2> QED BY <1>2, <2>1, <2>2, <2>3 DEF CallerStep
  <1>3. CASE OutputStep
    BY <1>3 DEF OutputStep, OutputIdle, OutputWake, OutputTake, OutputPush
  <1>4. CASE Cpu2Get \/ Cpu2PutInvalid \/ \E b \in Block : Cpu2Put(b)
    BY <1>4 DEF Cpu2Get, Cpu2Put, Cpu2PutInvalid
  <1>5. CASE InputStep
    <2>1. CASE InputGiveback
      BY <2>1 DEF InputGiveback, Submit
    <2>2. CASE InputInvalid \/ InputGet \/ InputSkip \/ InputDispatch \/ InputPend
      BY <2>2 DEF InputInvalid, InputGet, InputSkip, InputDispatch, InputPend
    <2>3. CASE \E h \in Handlers : InputDefer(h)
      BY <2>3 DEF InputDefer
    <2> QED BY <1>5, <2>1, <2>2, <2>3 DEF InputStep
  <1>6. CASE \E w \in Worker : WorkerStep(w)
    BY <1>6 DEF WorkerStep, WorkerWake, WorkerComplete, WorkerNext, WorkerEmpty, WorkerIdle
  <1>7. CASE \E h \in Handlers : HandlerStep(h)
    <2>1. ASSUME NEW h \in Handlers, HandlerGiveback(h)
          PROVE  OutputWakeup'
      BY <2>1 DEF HandlerGiveback, Submit
    <2>2. ASSUME NEW h \in Handlers, HandlerGet(h)
          PROVE  OutputWakeup'
      BY <2>2 DEF HandlerGet
    <2> QED BY <1>7, <2>1, <2>2 DEF HandlerStep
  <1>8. CASE UNCHANGED vars
    BY <1>8 DEF vars
  <1> QED BY <1>1, <1>2, <1>3, <1>4, <1>5, <1>6, <1>7, <1>8 DEF Next

(* The output thread never sleeps for good on submitted blocks, whatever   *)
(* the order of insertions, signals and its own test of the list.          *)
THEOREM NoLostWakeup == Spec => []OutputWakeup
  <1>1. Init => OutputWakeup
    BY DEF Init, OutputWakeup
  <1>2. TypeOK /\ OutputWakeup /\ [Next]_vars => OutputWakeup'
    BY WakeupStep
  <1> QED BY <1>1, <1>2, TypeCorrect, PTL DEF Spec

(* A completion callback never writes to the ctx of a finished call. *)
THEOREM ContextsAlive == Spec => []CtxAlive
  <1>1. IInv => CtxAlive
    <2> SUFFICES ASSUME IInv, NEW b \in Block, context[b] # NULL
                 PROVE  /\ cblk[context[b]] = b
                        /\ done[context[b]] => /\ resp[b]
                                               /\ HeldOnlyBy("caller", context[b], b)
      BY DEF CtxAlive
    <2>1. context[b] \in Callers /\ cblk[context[b]] = b
      BY DEF IInv, TypeOK, CtxInv
    <2>2. "caller" \in Kind /\ context[b] \in Index
      BY <2>1 DEF Kind, Index
    <2>3. ASSUME done[context[b]]
          PROVE  resp[b] /\ HeldOnlyBy("caller", context[b], b)
      <3>1. Holds("caller", context[b], b)
        BY <2>1, <2>3 DEF Holds
      <3>2. Fits("caller", b)
        BY <2>2, <3>1 DEF IInv, Direction
      <3> QED BY <2>2, <3>1, <3>2, OnlyHolder DEF IInv, OneOwner, Fits
    <2> QED BY <2>1, <2>3
  <1> QED BY <1>1, Invariance, PTL

-----------------------------------------------------------------------------
(* The protocol implements the life cycle of a block. *)

(* A step that changes neither pool, resp, cblk nor the Remote blocks that *)
(* CPU2 holds is a stuttering step of the life cycle.                      *)
LEMMA SamePhase ==
    ASSUME UNCHANGED <<pool, resp, cblk>>, cpu2' \cap Remote = cpu2 \cap Remote
    PROVE  UNCHANGED Lifecycle!vars
  <1>1. \A x \in Remote : x \in cpu2' <=> x \in cpu2
    OBVIOUS
  <1>2. PhaseOf' = PhaseOf
    BY <1>1 DEF PhaseOf
  <1> QED BY <1>2 DEF Lifecycle!vars

(* The phases after a step that changes those of block b only. *)
LEMMA OnePhase ==
    ASSUME NEW b \in Block, NEW p,
           PhaseOf'[b] = p,
           \A x \in Block : x # b => PhaseOf'[x] = PhaseOf[x]
    PROVE  PhaseOf' = [PhaseOf EXCEPT ![b] = p]
  BY DEF PhaseOf

(* The two ways to submit a block request service in the life cycle. *)
LEMMA SubmitStep ==
    ASSUME IInv, NEW c \in Callers, NEW b \in Local
    PROVE  /\ SubmitAsync(c, b) => Lifecycle!Request(b)
           /\ SubmitAndWait(c, b) => Lifecycle!RequestAndWait(c, b)
  <1>1. b \in Block /\ b \notin Remote
    BY BlockAssumption DEF Block
  <1>2. ASSUME b \in pool, pool' = pool \ {b}, resp' = [resp EXCEPT ![b] = FALSE],
               UNCHANGED cpu2
        PROVE  PhaseOf[b] = "free" /\ PhaseOf' = [PhaseOf EXCEPT ![b] = "requested"]
    <2>1. PhaseOf[b] = "free" /\ PhaseOf'[b] = "requested"
      BY <1>1, <1>2 DEF PhaseOf, IInv, TypeOK
    <2>2. \A x \in Block : x # b => PhaseOf'[x] = PhaseOf[x]
      BY <1>2 DEF PhaseOf, IInv, TypeOK
    <2> QED BY <1>1, <2>1, <2>2, OnePhase
  <1>3. SubmitAsync(c, b) => Lifecycle!Request(b)
    BY <1>2 DEF SubmitAsync, Submit, mboxVars, Lifecycle!Request
  <1>4. SubmitAndWait(c, b) => Lifecycle!RequestAndWait(c, b)
    BY <1>2 DEF SubmitAndWait, Submit, mboxVars, Lifecycle!RequestAndWait
  <1> QED BY <1>3, <1>4

(* A caller that was woken returns with the answer to its own request. *)
LEMMA ReturnStep ==
    ASSUME IInv, NEW c \in Callers, WaitDone(c)
    PROVE  Lifecycle!Return(c)
  <1>0. PICK b : b = cblk[c]
    OBVIOUS
  <1>1. /\ b \in Local /\ b \in Block /\ b \notin Remote /\ b # NULL
        /\ Holds("caller", c, b) /\ "caller" \in Kind /\ c \in Index
    BY <1>0, BlockAssumption DEF WaitDone, WaitOver, IInv, TypeOK, Block, Holds, Index, Kind
  <1>2. b \notin pool
    <2>1. HeldOnlyBy("caller", c, b)
      BY <1>1, OnlyHolder DEF IInv, OneOwner
    <2>2. "pool" \in Kind /\ NULL \in Index
      BY DEF Kind, Index
    <2> QED BY <2>1, <2>2 DEF HeldOnlyBy, Holds
  <1>3. resp[b]
    BY <1>1 DEF IInv, Direction, Fits
  <1>4. /\ pool' = pool \cup {b} /\ resp' = [resp EXCEPT ![b] = FALSE]
        /\ cblk' = [cblk EXCEPT ![c] = NULL] /\ UNCHANGED cpu2
    BY <1>0 DEF WaitDone, Free, mboxVars
  <1>5. PhaseOf[b] = "answered"
    BY <1>1, <1>2, <1>3 DEF PhaseOf
  <1>6. PhaseOf' = [PhaseOf EXCEPT ![b] = "free"]
    <2>1. PhaseOf'[b] = "free"
      BY <1>1, <1>4 DEF PhaseOf
    <2>2. \A x \in Block : x # b => PhaseOf'[x] = PhaseOf[x]
      BY <1>4 DEF PhaseOf, IInv, TypeOK
    <2> QED BY <1>1, <2>1, <2>2, OnePhase
  <1> QED BY <1>0, <1>1, <1>4, <1>5, <1>6 DEF Lifecycle!Return

(* A message of CPU2 answers a request of CPU1 or is a request of its own. *)
LEMMA Cpu2PutStep ==
    ASSUME IInv, NEW b \in Block, Cpu2Put(b)
    PROVE  Lifecycle!Answer(b) \/ Lifecycle!Request(b)
  <1>1. /\ cpu2' = cpu2 \ {b} /\ resp' = [resp EXCEPT ![b] = b \in Local]
        /\ UNCHANGED <<pool, cblk>>
        /\ Holds("cpu2", NULL, b) /\ "cpu2" \in Kind /\ "pool" \in Kind /\ NULL \in Index
    BY DEF Cpu2Put, callerVars, Holds, Kind, Index
  <1>2. HeldOnlyBy("cpu2", NULL, b) /\ Fits("cpu2", b)
    BY <1>1, OnlyHolder DEF IInv, OneOwner, Direction
  <1>3. b \notin pool
    BY <1>1, <1>2 DEF HeldOnlyBy, Holds
  <1>4. \A x \in Block : x # b => PhaseOf'[x] = PhaseOf[x]
    BY <1>1 DEF PhaseOf, IInv, TypeOK
  <1>5. CASE b \in Local
    <2>1. PhaseOf[b] = "requested" /\ PhaseOf'[b] = "answered"
      BY <1>1, <1>2, <1>3, <1>5, BlockAssumption DEF PhaseOf, Fits, IInv, TypeOK
    <2>2. PhaseOf' = [PhaseOf EXCEPT ![b] = "answered"]
      BY <1>4, <2>1, OnePhase
    <2> QED BY <1>1, <2>1, <2>2 DEF Lifecycle!Answer
  <1>6. CASE b \in Remote
    <2>1. PhaseOf[b] = "free" /\ PhaseOf'[b] = "requested"
      BY <1>1, <1>2, <1>3, <1>6, BlockAssumption DEF PhaseOf, HeldOnlyBy, Holds, IInv, TypeOK
    <2>2. PhaseOf' = [PhaseOf EXCEPT ![b] = "requested"]
      BY <1>4, <2>1, OnePhase
    <2> QED BY <1>1, <2>1, <2>2 DEF Lifecycle!Request
  <1> QED BY <1>5, <1>6 DEF Block

(* CPU2 gets a request, which is no step of the life cycle, or the answer  *)
(* to one of its own, which completes it.                                  *)
LEMMA Cpu2GetStep ==
    ASSUME IInv, Cpu2Get
    PROVE  UNCHANGED Lifecycle!vars \/ \E b \in Block : Lifecycle!Complete(b)
  <1>0. PICK b : b = Head(outbox)
    OBVIOUS
  <1>1. /\ b \in Block /\ Holds("outbox", NULL, b)
        /\ "outbox" \in Kind /\ "pool" \in Kind /\ "cpu2" \in Kind /\ NULL \in Index
        /\ cpu2' = cpu2 \cup {b} /\ UNCHANGED <<pool, cblk, resp>>
    BY <1>0, ListDelFirst DEF IInv, TypeOK, OneOwner, NoneLinkedTwice, Cpu2Get, Holds,
       Index, Kind, Out, callerVars, blockVars
  <1>2. HeldOnlyBy("outbox", NULL, b) /\ Fits("outbox", b)
    BY <1>1, OnlyHolder DEF IInv, OneOwner, Direction
  <1>3. b \notin pool /\ b \notin cpu2
    BY <1>1, <1>2 DEF HeldOnlyBy, Holds
  <1>4. CASE b \in Local
    BY <1>1, <1>4, SamePhase, BlockAssumption
  <1>5. CASE b \in Remote
    <2>1. resp[b]
      BY <1>2, <1>5 DEF Fits, Out
    <2>2. PhaseOf[b] = "answered" /\ PhaseOf'[b] = "free"
      BY <1>1, <1>3, <1>5, <2>1 DEF PhaseOf
    <2>3. \A x \in Block : x # b => PhaseOf'[x] = PhaseOf[x]
      BY <1>1 DEF PhaseOf
    <2>4. PhaseOf' = [PhaseOf EXCEPT ![b] = "free"]
      BY <1>1, <2>2, <2>3, OnePhase
    <2>5. ~ Lifecycle!Awaited(b)
      BY <1>1, <1>5, NotNull, BlockAssumption DEF Lifecycle!Awaited, IInv, TypeOK
    <2> QED BY <1>1, <2>2, <2>4, <2>5 DEF Lifecycle!Complete
  <1> QED BY <1>1, <1>4, <1>5 DEF Block

(* Giving a request of CPU2 back answers it. *)
LEMMA GivebackStep ==
    ASSUME IInv, NEW b \in Block, NEW k \in ToDo \cup {"input"}, NEW i \in Index,
           Holds(k, i, b), k = "input" => ipc = "request",
           resp' = [resp EXCEPT ![b] = TRUE], UNCHANGED <<pool, cblk, cpu2>>
    PROVE  Lifecycle!Answer(b)
  <1>1. k \in Kind /\ "pool" \in Kind /\ "cpu2" \in Kind /\ NULL \in Index
    BY DEF Kind, In, ToDo, Index
  <1>2. HeldOnlyBy(k, i, b) /\ Fits(k, b)
    BY <1>1, OnlyHolder DEF IInv, OneOwner, Direction
  <1>3. b \notin pool /\ b \notin cpu2
    BY <1>1, <1>2 DEF HeldOnlyBy, Holds, ToDo
  <1>4. ~ resp[b]
    <2>1. CASE k \in ToDo
      BY <1>2, <2>1 DEF Fits
    <2>2. CASE k = "input"
      <3>1. b \in Remote
        BY <2>2 DEF Holds, IInv, PcInv, InputInv
      <3> QED BY <1>2, <2>2, <3>1, BlockAssumption DEF Fits, In
    <2> QED BY <2>1, <2>2
  <1>5. PhaseOf[b] = "requested" /\ PhaseOf'[b] = "answered"
    BY <1>3, <1>4 DEF PhaseOf, IInv, TypeOK
  <1>6. \A x \in Block : x # b => PhaseOf'[x] = PhaseOf[x]
    BY DEF PhaseOf, IInv, TypeOK
  <1>7. PhaseOf' = [PhaseOf EXCEPT ![b] = "answered"]
    BY <1>5, <1>6, OnePhase
  <1> QED BY <1>5, <1>7 DEF Lifecycle!Answer

(* The completion callback wakes the waiting caller, which is no step of   *)
(* the life cycle yet, or completes an asynchronous request.               *)
LEMMA WorkerCompleteStep ==
    ASSUME IInv, NEW w \in Worker, WorkerComplete(w)
    PROVE  UNCHANGED Lifecycle!vars \/ \E b \in Block : Lifecycle!Complete(b)
  <1>0. PICK b : b = wcur[w]
    OBVIOUS
  <1>1. /\ b \in Block /\ Holds("worker", w, b) /\ UNCHANGED <<cblk, cpu2>>
        /\ "worker" \in Kind /\ "pool" \in Kind /\ NULL \in Index /\ w \in Index
    BY <1>0 DEF WorkerComplete, IInv, TypeOK, PcInv, WorkerInv, Holds, Index, Kind, ForUs,
       mboxVars
  <1>2. HeldOnlyBy("worker", w, b) /\ Fits("worker", b)
    BY <1>1, OnlyHolder DEF IInv, OneOwner, Direction
  <1>3. b \notin pool /\ resp[b] /\ b \in Local /\ b \notin Remote
    BY <1>1, <1>2, BlockAssumption DEF HeldOnlyBy, Holds, Fits, ForUs
  <1>4. CASE context[b] # NULL
    BY <1>0, <1>1, <1>4, SamePhase DEF WorkerComplete, blockVars
  <1>5. CASE context[b] = NULL
    <2>1. pool' = pool \cup {b} /\ resp' = [resp EXCEPT ![b] = FALSE]
      BY <1>0, <1>5 DEF WorkerComplete, Free
    <2>2. PhaseOf[b] = "answered" /\ PhaseOf'[b] = "free"
      BY <1>1, <1>3, <2>1 DEF PhaseOf
    <2>3. \A x \in Block : x # b => PhaseOf'[x] = PhaseOf[x]
      BY <1>1, <2>1 DEF PhaseOf, IInv, TypeOK
    <2>4. PhaseOf' = [PhaseOf EXCEPT ![b] = "free"]
      BY <1>1, <2>2, <2>3, OnePhase
    <2>5. ~ Lifecycle!Awaited(b)
      BY <1>1, <1>5, NotNull DEF Lifecycle!Awaited, IInv, CtxInv
    <2> QED BY <1>1, <2>2, <2>4, <2>5 DEF Lifecycle!Complete
  <1> QED BY <1>4, <1>5

(* Every step of the protocol is a step of the life cycle or leaves the    *)
(* phases and the waiting callers as they are.                             *)
LEMMA LifecycleStep ==
    ASSUME IInv, [Next]_vars
    PROVE  [Lifecycle!Next]_(Lifecycle!vars)
  <1> USE DEF Lifecycle!Next
  <1>1. CASE \E t \in Submitter : Signal(t)
    BY <1>1, SamePhase DEF Signal, callerVars, blockVars, mboxVars
  <1>2. CASE \E c \in Callers : CallerStep(c)
    <2>1. PICK c \in Callers : CallerStep(c)
      BY <1>2
    <2>2. CASE WaitDone(c)
      BY <2>2, ReturnStep
    <2>3. CASE \E b \in Local : SubmitAsync(c, b) \/ SubmitAndWait(c, b)
      <3>1. Local \subseteq Block
        BY DEF Block
      <3> QED BY <2>3, <3>1, SubmitStep
    <2> QED BY <2>1, <2>2, <2>3 DEF CallerStep
  <1>3. CASE OutputStep
    BY <1>3, SamePhase DEF OutputStep, OutputIdle, OutputWake, OutputTake, OutputPush,
       callerVars, blockVars, mboxVars
  <1>4. CASE Cpu2Get \/ Cpu2PutInvalid \/ \E b \in Block : Cpu2Put(b)
    BY <1>4, SamePhase, Cpu2GetStep, Cpu2PutStep DEF Cpu2PutInvalid, callerVars, blockVars
  <1>5. CASE InputStep
    <2>1. CASE InputGiveback
      <3>1. /\ icur \in Block /\ Holds("input", NULL, icur) /\ NULL \in Index
            /\ ipc = "request"
        BY <2>1 DEF InputGiveback, IInv, PcInv, InputInv, Holds, Index, Block
      <3>2. resp' = [resp EXCEPT ![icur] = TRUE] /\ UNCHANGED <<pool, cblk, cpu2>>
        BY <2>1 DEF InputGiveback, Submit, callerVars, mboxVars
      <3> QED BY <3>1, <3>2, GivebackStep
    <2>2. CASE InputInvalid \/ InputGet
      BY <2>2, SamePhase DEF InputInvalid, InputGet, callerVars, blockVars
    <2>3. CASE InputSkip \/ InputDispatch \/ InputPend
      BY <2>3, SamePhase DEF InputSkip, InputDispatch, InputPend, callerVars, blockVars,
         mboxVars
    <2>4. CASE \E h \in Handlers : InputDefer(h)
      BY <2>4, SamePhase DEF InputDefer, callerVars, blockVars, mboxVars
    <2> QED BY <1>5, <2>1, <2>2, <2>3, <2>4 DEF InputStep
  <1>6. CASE \E w \in Worker : WorkerStep(w)
    <2>1. PICK w \in Worker : WorkerStep(w)
      BY <1>6
    <2>2. CASE WorkerComplete(w)
      BY <2>2, WorkerCompleteStep
    <2>3. CASE WorkerWake(w) \/ WorkerNext(w) \/ WorkerEmpty(w) \/ WorkerIdle(w)
      BY <2>3, SamePhase DEF WorkerWake, WorkerNext, WorkerEmpty, WorkerIdle,
         callerVars, blockVars, mboxVars
    <2> QED BY <2>1, <2>2, <2>3 DEF WorkerStep
  <1>7. CASE \E h \in Handlers : HandlerStep(h)
    <2>1. PICK h \in Handlers : HandlerStep(h)
      BY <1>7
    <2>2. CASE HandlerGiveback(h)
      <3>1. /\ hcur[h] \in Block /\ Holds("handler", h, hcur[h])
            /\ h \in Index /\ "handler" \in ToDo
        BY <2>2 DEF HandlerGiveback, IInv, TypeOK, Holds, Index, ToDo
      <3>2. resp' = [resp EXCEPT ![hcur[h]] = TRUE] /\ UNCHANGED <<pool, cblk, cpu2>>
        BY <2>2 DEF HandlerGiveback, Submit, callerVars, mboxVars
      <3> QED BY <3>1, <3>2, GivebackStep
    <2>3. CASE HandlerGet(h)
      BY <2>3, SamePhase DEF HandlerGet, callerVars, blockVars, mboxVars
    <2> QED BY <2>1, <2>2, <2>3 DEF HandlerStep
  <1>8. CASE UNCHANGED vars
    BY <1>8, SamePhase DEF vars, callerVars, blockVars, mboxVars
  <1> QED BY <1>1, <1>2, <1>3, <1>4, <1>5, <1>6, <1>7, <1>8 DEF Next

(* Requests are answered once, completed after their answer, and a waiting *)
(* caller returns with the answer to its own request.                      *)
THEOREM MicprotoImplementsLifecycle == Spec => ImplementsLifecycle
  <1>1. Init => Lifecycle!Init
    BY DEF Init, Lifecycle!Init, PhaseOf, Block
  <1>2. IInv /\ [Next]_vars => [Lifecycle!Next]_(Lifecycle!vars)
    BY LifecycleStep
  <1> QED BY <1>1, <1>2, Invariance, PTL DEF Spec, ImplementsLifecycle, Lifecycle!Spec

-----------------------------------------------------------------------------
(* The order of requests.  In list q, b is ahead of c; list r keeps the    *)
(* requests of q in their order, but for the first, which may be gone.     *)
AheadIn(q, b, c) ==
    \E j \in DOMAIN q : \E i \in 1 .. j - 1 : q[i] = b /\ q[j] = c
KeepsOrder(q, r) ==
    \A b, c \in Local : c \in Range(q) =>
        /\ AheadIn(r, b, c) => AheadIn(q, b, c)
        /\ c \in Range(r) \/ ~ AheadIn(q, b, c)

(* A list keeps its own order ... *)
LEMMA KeptSame == \A q : KeepsOrder(q, q)
  BY DEF KeepsOrder

(* ... a new element behind all others disturbs it not ... *)
LEMMA KeptAppend ==
    ASSUME NEW q \in Seq(Block), NEW e \in Block, e \notin Range(q)
    PROVE  KeepsOrder(q, Append(q, e))
  <1>1. PICK n \in Nat : n = Len(q)
    BY LenProperties
  <1>2. PICK r \in Seq(Block) : r = Append(q, e)
    BY AppendProperties
  <1>3. /\ DOMAIN q = 1 .. n /\ DOMAIN r = 1 .. n + 1
        /\ \A i \in 1 .. n : r[i] = q[i]
        /\ r[n + 1] = e
    BY <1>1, <1>2, AppendProperties, LenProperties
  <1>4. ASSUME NEW b \in Local, NEW c \in Local, c \in Range(q), AheadIn(r, b, c)
        PROVE  AheadIn(q, b, c)
    <2>1. PICK j \in 1 .. n + 1 : \E i \in 1 .. j - 1 : r[i] = b /\ r[j] = c
      BY <1>3, <1>4 DEF AheadIn
    <2>2. PICK i \in 1 .. j - 1 : r[i] = b /\ r[j] = c
      BY <2>1
    <2>3. j # n + 1
      BY <1>3, <1>4, <2>2
    <2>4. j \in 1 .. n /\ i \in 1 .. n
      BY <2>3
    <2> QED BY <1>3, <2>2, <2>4 DEF AheadIn
  <1>5. ASSUME NEW c \in Range(q)
        PROVE  c \in Range(r)
    BY <1>2, ListAddTail
  <1> QED BY <1>2, <1>4, <1>5 DEF KeepsOrder

(* ... nor does an element that is no request ... *)
LEMMA KeptInsert ==
    ASSUME NEW s \in Seq(Block), NEW t \in Seq(Block), NEW e \in Block \ Local
    PROVE  KeepsOrder(s \o t, (s \o <<e>>) \o t)
  <1>1. PICK m \in Nat, n \in Nat : m = Len(s) /\ n = Len(t)
    BY LenProperties
  <1>2. PICK q \in Seq(Block) : q = s \o t
    BY ConcatProperties
  <1>3. PICK se \in Seq(Block) : se = s \o <<e>>
    <2>1. <<e>> \in Seq(Block)
      OBVIOUS
    <2> QED BY <2>1, ConcatProperties
  <1>4. PICK r \in Seq(Block) : r = se \o t
    BY ConcatProperties
  <1>5. /\ DOMAIN q = 1 .. m + n
        /\ \A i \in 1 .. m + n : q[i] = IF i <= m THEN s[i] ELSE t[i - m]
    BY <1>1, <1>2, ConcatProperties, LenProperties
  <1>6. /\ Len(se) = m + 1
        /\ \A i \in 1 .. m : se[i] = s[i]
        /\ se[m + 1] = e
    <2>1. <<e>> \in Seq(Block) /\ Len(<<e>>) = 1 /\ <<e>>[1] = e
      OBVIOUS
    <2>2. /\ Len(se) = m + 1
          /\ \A i \in 1 .. m + 1 : se[i] = IF i <= m THEN s[i] ELSE <<e>>[i - m]
      BY <1>1, <1>3, <2>1, ConcatProperties
    <2> QED BY <2>1, <2>2
  <1>7. /\ DOMAIN r = 1 .. m + 1 + n
        /\ \A i \in 1 .. m + 1 + n : r[i] = IF i <= m + 1 THEN se[i] ELSE t[i - (m + 1)]
    <2>1. /\ Len(r) = Len(se) + Len(t)
          /\ \A i \in 1 .. Len(se) + Len(t) :
                r[i] = IF i <= Len(se) THEN se[i] ELSE t[i - Len(se)]
      BY <1>4, ConcatProperties
    <2>2. Len(se) = m + 1 /\ Len(t) = n
      BY <1>1, <1>6
    <2>3. DOMAIN r = 1 .. Len(r)
      BY LenProperties
    <2> QED BY <2>1, <2>2, <2>3
  <1>8. /\ \A i \in 1 .. m : r[i] = q[i]
        /\ r[m + 1] = e
        /\ \A i \in m + 1 .. m + n : r[i + 1] = q[i]
    <2>1. ASSUME NEW i \in 1 .. m
          PROVE  r[i] = q[i]
      <3>1. i \in 1 .. m + 1 + n /\ i <= m + 1 /\ i \in 1 .. m + n /\ i <= m
        OBVIOUS
      <3> QED BY <1>5, <1>6, <1>7, <3>1
    <2>2. ASSUME NEW i \in m + 1 .. m + n
          PROVE  r[i + 1] = q[i]
      <3>1. /\ i + 1 \in 1 .. m + 1 + n /\ ~ i + 1 <= m + 1 /\ i \in 1 .. m + n /\ ~ i <= m
            /\ (i + 1) - (m + 1) = i - m
        OBVIOUS
      <3>2. r[i + 1] = t[(i + 1) - (m + 1)] /\ q[i] = t[i - m]
        BY <1>5, <1>7, <3>1
      <3> QED BY <3>1, <3>2
    <2>3. r[m + 1] = e
      BY <1>6, <1>7
    <2> QED BY <2>1, <2>2, <2>3
  <1> DEFINE Old(i) == IF i <= m THEN i ELSE i - 1
  <1>9. \A i \in 1 .. m + 1 + n : i # m + 1 => Old(i) \in 1 .. m + n /\ r[i] = q[Old(i)]
    <2>1. ASSUME NEW i \in 1 .. m + 1 + n, i # m + 1, ~ i <= m
          PROVE  i - 1 \in m + 1 .. m + n /\ r[i] = q[i - 1]
      <3>1. i - 1 \in m + 1 .. m + n /\ (i - 1) + 1 = i
        BY <2>1
      <3> QED BY <1>8, <3>1
    <2>2. \A i \in 1 .. m + 1 + n : i <= m => i \in 1 .. m /\ i \in 1 .. m + n
      OBVIOUS
    <2>3. \A i \in m + 1 .. m + n : i \in 1 .. m + n
      OBVIOUS
    <2> QED BY <1>8, <2>1, <2>2, <2>3
  <1>10. ASSUME NEW b \in Local, NEW c \in Local, AheadIn(r, b, c)
         PROVE  AheadIn(q, b, c)
    <2>1. PICK j \in 1 .. m + 1 + n : \E i \in 1 .. j - 1 : r[i] = b /\ r[j] = c
      BY <1>7, <1>10 DEF AheadIn
    <2>2. PICK i \in 1 .. j - 1 : r[i] = b /\ r[j] = c
      BY <2>1
    <2>3. i # m + 1 /\ j # m + 1 /\ i \in 1 .. m + 1 + n
      <3>1. r[m + 1] \notin Local
        BY <1>8
      <3>2. r[i] \in Local /\ r[j] \in Local
        BY <2>2, Zenon
      <3>3. i # m + 1
        BY <3>1, <3>2, Zenon
      <3>4. j # m + 1
        BY <3>1, <3>2, Zenon
      <3>5. i \in 1 .. m + 1 + n
        OBVIOUS
      <3> QED BY <3>3, <3>4, <3>5, Zenon
    <2>4. Old(i) \in 1 .. Old(j) - 1
      BY <1>9, <2>3
    <2>5. q[Old(i)] = b /\ q[Old(j)] = c /\ Old(j) \in DOMAIN q
      BY <1>5, <1>9, <2>2, <2>3
    <2> HIDE DEF Old
    <2> QED BY <2>4, <2>5 DEF AheadIn
  <1>11. ASSUME NEW c \in Range(q)
         PROVE  c \in Range(r)
    <2>1. PICK i \in 1 .. m + n : c = q[i]
      BY <1>5 DEF Range
    <2>2. CASE i <= m
      <3>1. i \in 1 .. m /\ i \in 1 .. m + 1 + n
        BY <2>2
      <3> QED BY <1>7, <1>8, <2>1, <3>1 DEF Range
    <2>3. CASE ~ i <= m
      <3>1. i \in m + 1 .. m + n /\ i + 1 \in 1 .. m + 1 + n
        BY <2>3
      <3> QED BY <1>7, <1>8, <2>1, <3>1 DEF Range
    <2> QED BY <2>2, <2>3
  <1>12. KeepsOrder(q, r)
    BY <1>10, <1>11 DEF KeepsOrder
  <1> QED BY <1>2, <1>3, <1>4, <1>12

(* ... and the first leaves with none ahead of it. *)
LEMMA KeptTail ==
    ASSUME NEW q \in Seq(Block), q # <<>>
    PROVE  KeepsOrder(q, Tail(q))
  <1>1. PICK n \in Nat : n = Len(q) /\ n > 0
    BY LenProperties, EmptyList
  <1>2. PICK r \in Seq(Block) : r = Tail(q)
    BY HeadTailProperties
  <1>3. /\ DOMAIN q = 1 .. n /\ DOMAIN r = 1 .. n - 1
        /\ \A i \in 1 .. n - 1 : r[i] = q[i + 1]
    BY <1>1, <1>2, HeadTailProperties, LenProperties
  <1>4. ASSUME NEW b \in Local, NEW c \in Local, AheadIn(r, b, c)
        PROVE  AheadIn(q, b, c)
    <2>1. PICK j \in 1 .. n - 1 : \E i \in 1 .. j - 1 : r[i] = b /\ r[j] = c
      BY <1>3, <1>4 DEF AheadIn
    <2>2. PICK i \in 1 .. j - 1 : r[i] = b /\ r[j] = c
      BY <2>1
    <2>3. /\ i \in 1 .. n - 1 /\ i + 1 \in 1 .. (j + 1) - 1 /\ j + 1 \in 1 .. n
      OBVIOUS
    <2>4. q[i + 1] = b /\ q[j + 1] = c
      BY <1>3, <2>2, <2>3
    <2> QED BY <1>3, <2>3, <2>4 DEF AheadIn
  <1>5. ASSUME NEW b \in Local, NEW c \in Local, AheadIn(q, b, c)
        PROVE  c \in Range(r)
    <2>1. PICK j \in 1 .. n : \E i \in 1 .. j - 1 : q[i] = b /\ q[j] = c
      BY <1>3, <1>5 DEF AheadIn
    <2>2. j - 1 \in 1 .. n - 1 /\ (j - 1) + 1 = j /\ q[j] = c
      BY <2>1
    <2>3. r[j - 1] = c
      BY <1>3, <2>2
    <2> QED BY <1>3, <2>2, <2>3 DEF Range
  <1> QED BY <1>2, <1>4, <1>5 DEF KeepsOrder

(* What is on the way to CPU2, list by list. *)
LEMMA ThreeLists ==
    ASSUME NEW s \in Seq(Block), NEW t \in Seq(Block), NEW u \in Seq(Block)
    PROVE  /\ (s \o t) \o u \in Seq(Block)
           /\ Range((s \o t) \o u) = Range(s) \cup Range(t) \cup Range(u)
  <1>1. PICK st \in Seq(Block) : st = s \o t
    BY ConcatProperties
  <1>2. Range(st) = Range(s) \cup Range(t)
    BY <1>1, ConcatInjective
  <1>3. /\ st \o u \in Seq(Block)
        /\ Range(st \o u) = Range(st) \cup Range(u)
    BY ConcatInjective
  <1> QED BY <1>1, <1>2, <1>3

(* The three lists of the way to CPU2, when a block is put into the last   *)
(* one, or moves from one to the next.                                     *)
LEMMA WayToCpu2 ==
    ASSUME NEW s \in Seq(Block), NEW t \in Seq(Block), NEW u \in Seq(Block)
    PROVE  /\ \A e \in Block : (s \o t) \o Append(u, e) = Append((s \o t) \o u, e)
           /\ \A e \in Block : (s \o t) \o (<<e>> \o u) = ((s \o t) \o <<e>>) \o u
           /\ t = <<>> => (s \o u) \o <<>> = (s \o t) \o u
           /\ t # <<>> => (Append(s, Head(t)) \o Tail(t)) \o u = (s \o t) \o u
           /\ s # <<>> => (Tail(s) \o t) \o u = Tail((s \o t) \o u)
  <1>1. PICK st \in Seq(Block) : st = s \o t
    BY ConcatProperties
  <1>3. ASSUME NEW e \in Block
        PROVE  /\ st \o Append(u, e) = Append(st \o u, e)
               /\ st \o (<<e>> \o u) = (st \o <<e>>) \o u
    <2>3. st \o (<<e>> \o u) = (st \o <<e>>) \o u
      BY ConcatOne
    <2>4. st \o Append(u, e) = Append(st \o u, e)
      BY ConcatEnds
    <2> QED BY <2>3, <2>4, Zenon
  <1>4. ASSUME t = <<>>
        PROVE  (s \o u) \o <<>> = st \o u
    BY <1>1, <1>4, ConcatEmptySeq, ConcatProperties
  <1>5. ASSUME t # <<>>
        PROVE  (Append(s, Head(t)) \o Tail(t)) \o u = st \o u
    <2>1. PICK h \in Block : h = Head(t)
      BY <1>5, HeadTailProperties
    <2>2. PICK r \in Seq(Block) : r = Tail(t)
      BY <1>5, HeadTailProperties
    <2>3. PICK d \in Seq(Block) : d = <<h>>
      <3>1. <<h>> \in Seq(Block)
        OBVIOUS
      <3> QED BY <3>1, Zenon
    <2>4. t = d \o r
      BY <1>5, <2>1, <2>2, <2>3
    <2>5. Append(s, h) = s \o d
      BY <2>3, AppendIsConcat
    <2>6. (s \o d) \o r = s \o (d \o r)
      BY ConcatAssociative
    <2> QED BY <1>1, <2>1, <2>2, <2>4, <2>5, <2>6, Zenon
  <1>6. ASSUME s # <<>>
        PROVE  (Tail(s) \o t) \o u = Tail(st \o u)
    <2>1. st # <<>> /\ Tail(st) = Tail(s) \o t
      BY <1>1, <1>6, ConcatEnds
    <2>2. Tail(st \o u) = Tail(st) \o u
      BY <2>1, ConcatEnds
    <2> QED BY <2>1, <2>2, Zenon
  <1> QED BY <1>1, <1>3, <1>4, <1>5, <1>6

(* Only three kinds of steps touch the way to CPU2: what they put in, move *)
(* and take out keeps the order of the requests.                           *)
LEMMA OrderStep ==
    ASSUME IInv, [Next]_vars
    PROVE  KeepsOrder(Outgoing, Outgoing')
  <1>0. /\ outbox \in Seq(Block) /\ batch \in Seq(Block)
        /\ output_pending \in Seq(Block)
    BY DEF IInv, TypeOK
  <1>1. /\ Outgoing \in Seq(Block)
        /\ Range(Outgoing) = Range(outbox) \cup Range(batch) \cup Range(output_pending)
    BY <1>0, ThreeLists DEF Outgoing
  <1>2. ASSUME UNCHANGED <<outbox, batch, output_pending>>
        PROVE  KeepsOrder(Outgoing, Outgoing')
    BY <1>2, KeptSame DEF Outgoing
  <1>3. ASSUME NEW b \in Local, b \in pool, UNCHANGED <<outbox, batch>>,
               output_pending' = Append(output_pending, b)
        PROVE  KeepsOrder(Outgoing, Outgoing')
    <2>1. b \in Block /\ Holds("pool", NULL, b) /\ NULL \in Index
      BY <1>3 DEF Block, Holds, Index
    <2>2. HeldOnlyBy("pool", NULL, b)
      BY <2>1, OnlyHolder DEF IInv, OneOwner, Kind, Out, In, ForUs, ToDo
    <2>3. /\ b \notin Range(outbox) /\ b \notin Range(batch)
          /\ b \notin Range(output_pending)
      BY <2>1, <2>2 DEF HeldOnlyBy, Holds, Kind, Out, In, ForUs, ToDo
    <2>4. b \notin Range(Outgoing)
      BY <1>1, <2>3
    <2>5. Outgoing' = Append(Outgoing, b)
      BY <1>0, <1>3, <2>1, WayToCpu2 DEF Outgoing
    <2> QED BY <1>1, <2>1, <2>4, <2>5, KeptAppend
  <1>4. ASSUME NEW b \in Remote, UNCHANGED <<outbox, batch>>,
               output_pending' = <<b>> \o output_pending
        PROVE  KeepsOrder(Outgoing, Outgoing')
    <2>1. b \in Block \ Local
      BY BlockAssumption DEF Block
    <2>2. outbox \o batch \in Seq(Block)
      BY <1>0, ConcatProperties
    <2>3. Outgoing' = ((outbox \o batch) \o <<b>>) \o output_pending
      BY <1>0, <1>4, <2>1, WayToCpu2 DEF Outgoing
    <2> QED BY <1>0, <2>1, <2>2, <2>3, KeptInsert DEF Outgoing
  <1>5. ASSUME NEW c \in Callers, CallerStep(c)
        PROVE  KeepsOrder(Outgoing, Outgoing')
    <2>1. ASSUME NEW b \in Local, SubmitAsync(c, b) \/ SubmitAndWait(c, b)
          PROVE  KeepsOrder(Outgoing, Outgoing')
      BY <1>3, <2>1 DEF SubmitAsync, SubmitAndWait, Submit, Insert, outputVars, mboxVars
    <2>2. CASE WaitDone(c)
      BY <1>2, <2>2 DEF WaitDone, submitVars, outputVars, mboxVars
    <2> QED BY <1>5, <2>1, <2>2 DEF CallerStep
  <1>6. CASE OutputTake
    <2>1. batch = <<>> /\ batch' = output_pending /\ output_pending' = <<>>
          /\ outbox' = outbox
      BY <1>6 DEF OutputTake, IInv, PcInv, OutputInv, mboxVars
    <2>2. Outgoing' = Outgoing
      BY <1>0, <2>1, WayToCpu2 DEF Outgoing
    <2> QED BY <2>2, KeptSame
  <1>7. CASE OutputPush
    <2>1. /\ batch # <<>> /\ batch' = Tail(batch)
          /\ outbox' = Append(outbox, Head(batch)) /\ output_pending' = output_pending
      BY <1>7 DEF OutputPush, IInv, PcInv, OutputInv, submitVars
    <2>2. Outgoing' = Outgoing
      BY <1>0, <2>1, WayToCpu2 DEF Outgoing
    <2> QED BY <2>2, KeptSame
  <1>8. CASE Cpu2Get
    <2>1. /\ outbox # <<>> /\ outbox' = Tail(outbox)
          /\ batch' = batch /\ output_pending' = output_pending
      BY <1>8 DEF Cpu2Get, outputVars, submitVars
    <2>2. Outgoing' = Tail(Outgoing)
      BY <1>0, <2>1, WayToCpu2 DEF Outgoing
    <2>3. Outgoing # <<>>
      BY <1>0, <2>1, WayToCpu2, ConcatEnds DEF Outgoing
    <2> QED BY <1>1, <2>2, <2>3, KeptTail
  <1>9. CASE InputGiveback
    <2>1. icur \in Remote
      BY <1>9 DEF InputGiveback, IInv, PcInv, InputInv
    <2> QED BY <1>4, <1>9, <2>1
            DEF InputGiveback, Submit, Insert, outputVars, mboxVars
  <1>10. ASSUME NEW h \in Handlers, HandlerGiveback(h)
         PROVE  KeepsOrder(Outgoing, Outgoing')
    <2>1. hcur[h] \in Block /\ Holds("handler", h, hcur[h]) /\ h \in Index
      BY <1>10 DEF HandlerGiveback, IInv, TypeOK, Holds, Index
    <2>2. hcur[h] \in Remote
      BY <2>1 DEF IInv, Direction, Fits, Kind, Out, In, ForUs, ToDo
    <2> QED BY <1>4, <1>10, <2>2
            DEF HandlerGiveback, Submit, Insert, outputVars, mboxVars
  <1>11. CASE (\E t \in Submitter : Signal(t)) \/ (\E b \in Block : Cpu2Put(b))
              \/ Cpu2PutInvalid \/ OutputIdle \/ OutputWake
    BY <1>2, <1>11 DEF Signal, Cpu2Put, Cpu2PutInvalid, OutputIdle, OutputWake, submitVars,
       outputVars, mboxVars
  <1>12. CASE InputInvalid \/ InputGet \/ InputSkip \/ InputDispatch \/ InputPend
              \/ \E h \in Handlers : InputDefer(h)
    BY <1>2, <1>12 DEF InputInvalid, InputGet, InputSkip, InputDispatch, InputPend, InputDefer,
       submitVars, outputVars, mboxVars
  <1>13. CASE \E w \in Worker : WorkerStep(w)
    BY <1>2, <1>13 DEF WorkerStep, WorkerWake, WorkerComplete, WorkerNext,
       WorkerEmpty, WorkerIdle, submitVars, outputVars, mboxVars
  <1>14. CASE (\E h \in Handlers : HandlerGet(h)) \/ UNCHANGED vars
    BY <1>2, <1>14 DEF HandlerGet, vars, submitVars, outputVars, mboxVars
  <1> QED BY <1>5, <1>6, <1>7, <1>8, <1>9, <1>10, <1>11, <1>12, <1>13, <1>14
          DEF Next, OutputStep, InputStep, HandlerStep

(* Requests reach CPU2 in the order of their insertion: of the requests on *)
(* their way to CPU2, none overtakes another, and only the first leaves.   *)
THEOREM RequestsKeepOrder == Spec => RequestsInOrder
  <1>1. IInv /\ [Next]_vars =>
            [\A b, c \in Local : c \in Range(Outgoing) =>
                /\ Ahead(b, c)' => Ahead(b, c)
                /\ c \in Range(Outgoing)' \/ ~ Ahead(b, c)]_vars
    BY OrderStep DEF KeepsOrder, AheadIn, Ahead
  <1> QED BY <1>1, Invariance, PTL DEF Spec, RequestsInOrder

=============================================================================
