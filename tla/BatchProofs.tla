----------------------------- MODULE BatchProofs -----------------------------
(***************************************************************************)
(* Proofs about what a batch executes and what its client learns of it, for*)
(* batches of any length and clients of any number.                        *)
(***************************************************************************)
EXTENDS Executor, AthanorProofs, FiniteSetTheorems

\* The packet a run stopped at, or is about to look at.
Stop(c) == IF f[c].mode = "azoth" \/ f[c].status # "OK" THEN f[c].errpkt ELSE f[c].i

\* A batch is being run, or what is left of it undone.
InBatch == InHandler \ {"ioctl"}

\* What has run: the packets before the stop, each intact, and those of them
\* that are neither rollback nor dry-run packets counted.
Prefix(s, n, executed) ==
  /\ n \in 1 .. Len(s) + 1
  /\ \A j \in 1 .. n - 1 : s[j].crcok
  /\ executed = Cardinality(ForwardBefore(s, n))

\* The result names the packet the batch failed at, once it has failed; until
\* then a packet is handed over only if it is intact and to be run.
Progress(c) ==
  LET s == req[c].pkts IN
  /\ s # << >> /\ req[c].cmd \in {"EXECUTE", "EXECUTE_SAFE"}
  /\ Prefix(s, Stop(c), f[c].executed)
  /\ f[c].status # "OK" => Stop(c) <= Len(s)
  /\ f[c].mode = "azoth" => f[c].status # "OK" /\ req[c].cmd = "EXECUTE_SAFE"
  /\ f[c].mode = "forward" /\ f[c].status # "OK" => pc[c] = "fin"
  /\ f[c].mode = "forward" /\ pc[c] \in InPacket => s[f[c].i].crcok /\ Forward(s[f[c].i])
  /\ pc[c] = "fin" /\ f[c].status = "OK" => f[c].i = Len(s) + 1

\* The answer of a batch is its result.
Answered(c) ==
  LET a == ans[c]  s == req[c].pkts IN
  ExecAnswered(c) =>
    /\ s # << >>
    /\ a.ret = "0" <=> a.status = "OK"
    /\ a.status \in Status
    /\ \E n \in 1 .. Len(s) + 1 :
         Prefix(s, n, a.executed) /\ n = IF a.status = "OK" THEN Len(s) + 1 ELSE a.errpkt
    /\ a.status # "OK" => a.errpkt <= Len(s)
    /\ a.status \in {"THERMAL", "CRC_FAIL"} => req[c].cmd = "EXECUTE" \/ req[c].azoth = << >>

Batched(c) ==
  /\ pc[c] \in InBatch => Progress(c)
  /\ pc[c] \notin InBatch => f[c].mode = "forward"
  /\ Answered(c)

BatchInv == \A c \in Clients : Batched(c)

-----------------------------------------------------------------------------
(* Prefixes of a batch. *)

LEMMA EmptyPrefix ==
  ASSUME NEW s \in Seq(Packet)
  PROVE  Prefix(s, 1, 0)
  <1>1. ForwardBefore(s, 1) = {}
    BY DEF ForwardBefore
  <1>2. 1 \in 1 .. Len(s) + 1 /\ 1 .. 1 - 1 = {}
    OBVIOUS
  <1>3. Cardinality(ForwardBefore(s, 1)) = 0
    BY <1>1, FS_EmptySet
  <1>. QED
    BY <1>2, <1>3 DEF Prefix

LEMMA LongerPrefix ==
  ASSUME NEW s \in Seq(Packet), NEW n \in 1 .. Len(s), NEW e, Prefix(s, n, e), s[n].crcok
  PROVE  /\ Forward(s[n]) => Prefix(s, n + 1, e + 1)
         /\ ~Forward(s[n]) => Prefix(s, n + 1, e)
  <1>1. IsFiniteSet(ForwardBefore(s, n))
    <2>1. ForwardBefore(s, n) \in SUBSET (1 .. n - 1)
      BY DEF ForwardBefore
    <2>2. IsFiniteSet(1 .. n - 1)
      BY FS_Interval
    <2>. QED
      BY <2>1, <2>2, FS_Subset
  <1>2. ForwardBefore(s, n + 1) =
          IF Forward(s[n]) THEN ForwardBefore(s, n) \cup {n} ELSE ForwardBefore(s, n)
    BY DEF ForwardBefore
  <1>3. n \notin ForwardBefore(s, n)
    BY DEF ForwardBefore
  <1>4. Cardinality(ForwardBefore(s, n) \cup {n}) = Cardinality(ForwardBefore(s, n)) + 1
    BY <1>1, <1>3, FS_AddElement
  <1>5. n + 1 \in 1 .. Len(s) + 1 /\ \A j \in 1 .. (n + 1) - 1 : s[j].crcok
    BY DEF Prefix
  <1>. QED
    BY <1>2, <1>4, <1>5 DEF Prefix

-----------------------------------------------------------------------------
(* The steps of a handler inside one packet. *)

\* Inside a packet, or stopped in it for good.
Busy == InPacket \cup {"oops"}

\* The handler goes on with its packet: what a run has counted stays.
Keeps(c) ==
  /\ pc'[c] \in Busy
  /\ UNCHANGED <<req, ans>>
  /\ f'[c].mode = f[c].mode /\ f'[c].i = f[c].i /\ f'[c].status = f[c].status
  /\ f'[c].executed = f[c].executed /\ f'[c].errpkt = f[c].errpkt

LEMMA GoKeeps ==
  ASSUME CallTypeOK, NEW c \in Clients, NEW p \in Busy, Goto(c, p),
         \/ f' = f
         \/ \E n : \/ f' = [f EXCEPT ![c].polls = n]
                   \/ f' = [f EXCEPT ![c].off = n]
                   \/ f' = [f EXCEPT ![c].drop = n]
  PROVE  Keeps(c)
  BY DEF Goto, Keeps, CallTypeOK, Frame

LEMMA StayKeeps ==
  ASSUME CallTypeOK, NEW c \in Clients, pc[c] \in InPacket, UNCHANGED <<pc, req, ans>>,
         \E n : f' = [f EXCEPT ![c].polls = n] \/ f' = [f EXCEPT ![c].drop = n]
  PROVE  Keeps(c)
  BY DEF Keeps, Busy, CallTypeOK, Frame

LEMMA OpKeepsOrReturns ==
  ASSUME IInv, NEW c \in Clients, OpStep(c)
  PROVE  pc[c] \in InPacket /\ (Keeps(c) \/ \E ok \in BOOLEAN : Return(c, ok))
  <1>. USE DEF IInv, TypeOK
  <1>1. pc[c] \in InPacket
    BY DEF OpStep, Running, OpClaim, OpShift, OpSense, OpLimit, OpGuard, OpConfig, Config,
           OpReadOnly, OpNoop, OpState, OpPipe, OpEcho, OpAudit, OpFence, OpFlow, OpSlice, InPacket
  <1>2. {"config", "oops", "fence", "dma", "slice"} \subseteq Busy
    BY DEF Busy, InPacket
  <1>3. /\ initialized \in BOOLEAN /\ bar0 \in BOOLEAN /\ bar1 \in BOOLEAN
        /\ (Pkt(c).size # 0) \in BOOLEAN
        /\ \A clean \in BOOLEAN : (bar0 /\ clean) \in BOOLEAN
        /\ (initialized /\ bar1) \in BOOLEAN /\ \A h : (h = "op_occupy") \in BOOLEAN
    BY DEF DeviceTypeOK
  <1>4. CASE OpClaim(c)
    <2>1. PICK ok0 \in BOOLEAN : Return(c, bar0') /\ bar0' = (bar0 \/ ok0)
      BY <1>4 DEF OpClaim
    <2>. QED
      BY <1>1, <2>1
  <1>5. CASE OpShift(c)
    BY <1>1, <1>3, <1>5 DEF OpShift
  <1>6. CASE OpSense(c) \/ OpLimit(c) \/ OpGuard(c)
    BY <1>1, <1>6 DEF OpSense, OpLimit, OpGuard
  <1>7. CASE OpConfig(c)
    BY <1>1, <1>2, <1>3, <1>7, GoKeeps DEF OpConfig
  <1>8. CASE Config(c)
    BY <1>1, <1>2, <1>8, GoKeeps DEF Config
  <1>9. CASE OpReadOnly(c)
    BY <1>1, <1>3, <1>9 DEF OpReadOnly, OpNoop, OpState, OpPipe, OpEcho, OpAudit
  <1>10. CASE OpFence(c)
    BY <1>1, <1>2, <1>10, GoKeeps DEF OpFence
  <1>11. CASE OpFlow(c)
    BY <1>1, <1>2, <1>11, GoKeeps DEF OpFlow
  <1>12. CASE OpSlice(c)
    BY <1>1, <1>2, <1>12, GoKeeps DEF OpSlice
  <1>. QED
    BY <1>4, <1>5, <1>6, <1>7, <1>8, <1>9, <1>10, <1>11, <1>12 DEF OpStep

LEMMA DmaKeepsOrReturns ==
  ASSUME IInv, NEW c \in Clients, DmaStep(c)
  PROVE  pc[c] \in InPacket /\ (Keeps(c) \/ \E ok \in BOOLEAN : Return(c, ok))
  <1>. USE DEF IInv, TypeOK
  <1>1. pc[c] \in InPacket
    BY DEF DmaStep, FencePoll, FenceTimeout, SliceDrop, SliceEnd, DmaChunk, DmaDone,
           DmaCopy, Signal, InPacket
  <1>2. {"oops", "dma", "slice", "copy", "signal"} \subseteq Busy
    BY DEF Busy, InPacket
  <1>3. ASSUME NEW ok \in BOOLEAN, DmaReturn(c, ok)
        PROVE  Keeps(c) \/ Return(c, FALSE)
    BY <1>2, <1>3, GoKeeps DEF DmaReturn
  <1>4. CASE FencePoll(c)
    BY <1>1, <1>4, StayKeeps DEF FencePoll
  <1>5. CASE FenceTimeout(c)
    BY <1>1, <1>5 DEF FenceTimeout
  <1>6. CASE SliceDrop(c)
    BY <1>1, <1>2, <1>6, GoKeeps, StayKeeps DEF SliceDrop
  <1>7. CASE SliceEnd(c)
    BY <1>1, <1>2, <1>7, GoKeeps DEF SliceEnd
  <1>8. CASE DmaChunk(c)
    BY <1>1, <1>2, <1>3, <1>8, GoKeeps DEF DmaChunk
  <1>9. CASE DmaDone(c)
    BY <1>1, <1>3, <1>9 DEF DmaDone
  <1>10. CASE DmaCopy(c)
    BY <1>1, <1>2, <1>10, GoKeeps DEF DmaCopy
  <1>11. CASE Signal(c)
    BY <1>1, <1>11 DEF Signal
  <1>. QED
    BY <1>4, <1>5, <1>6, <1>7, <1>8, <1>9, <1>10, <1>11 DEF DmaStep

-----------------------------------------------------------------------------
(* One lemma per way a batch can go on: Batched holds again for the client  *)
(* that moved.                                                              *)

LEMMA KeepsBatched ==
  ASSUME IInv, NEW c \in Clients, Batched(c), pc[c] \in InPacket, Keeps(c)
  PROVE  Batched(c)'
  <1>1. /\ pc[c] \in InBatch /\ pc[c] # "fin"
        /\ pc'[c] \in InBatch /\ pc'[c] # "idle" /\ pc'[c] # "fin"
    BY DEF InBatch, InHandler, InPacket, Busy, Keeps
  <1>2. Progress(c)'
    BY <1>1 DEF Batched, Progress, Stop, Keeps
  <1>. QED
    BY <1>1, <1>2 DEF Batched, Answered, ExecAnswered, InBatch, InHandler, InPacket

LEMMA BreakBatched ==
  ASSUME IInv, NEW c \in Clients, NEW s \in Status \ {"OK"}, Break(c, s), Progress(c),
         f[c].mode = "forward", f[c].status = "OK", f[c].i <= Len(req[c].pkts)
  PROVE  Batched(c)'
  <1>1. /\ pc'[c] = "fin" /\ req'[c] = req[c]
        /\ f'[c].status = s /\ f'[c].errpkt = f[c].i /\ f'[c].mode = "forward"
        /\ f'[c].executed = f[c].executed
    BY DEF IInv, TypeOK, CallTypeOK, Frame, Break, Goto
  <1>2. Progress(c)'
    BY <1>1 DEF Progress, Stop, InPacket
  <1>. QED
    BY <1>1, <1>2 DEF Batched, Answered, ExecAnswered, InBatch, InHandler

LEMMA ReturnBatched ==
  ASSUME IInv, NEW c \in Clients, Batched(c), pc[c] \in InPacket,
         NEW ok \in BOOLEAN, Return(c, ok)
  PROVE  Batched(c)'
  <1>. USE DEF IInv, TypeOK
  <1>1. Progress(c) /\ f[c].i \in 1 .. Len(Batch(c)) /\ f[c] \in Frame
        /\ f[c].mode \in {"forward", "azoth"}
    BY FrameTyped DEF Batched, InBatch, InHandler, InPacket, Local
  <1>2. CASE f[c].mode = "azoth"
    <2>1. /\ pc'[c] = "azoth" /\ req'[c] = req[c]
          /\ f'[c].status = f[c].status /\ f'[c].errpkt = f[c].errpkt /\ f'[c].mode = "azoth"
          /\ f'[c].executed = f[c].executed
      BY <1>2 DEF CallTypeOK, Frame, Return, Goto
    <2>2. Progress(c)'
      BY <1>1, <1>2, <2>1 DEF Progress, Stop, InPacket
    <2>. QED
      BY <2>1, <2>2 DEF Batched, Answered, ExecAnswered, InBatch, InHandler
  <1>3. ASSUME f[c].mode = "forward"
        PROVE  f[c].status = "OK" /\ f[c].i <= Len(req[c].pkts) /\ Stop(c) = f[c].i
               /\ f[c].i \in 1 .. Len(req[c].pkts)
               /\ req[c].pkts[f[c].i].crcok /\ Forward(req[c].pkts[f[c].i])
    BY <1>1, <1>3 DEF Progress, InPacket, Batch, Stop
  <1>4. CASE f[c].mode = "forward" /\ ok
    <2>1. /\ pc'[c] = "fwd" /\ req'[c] = req[c]
          /\ f'[c].status = f[c].status /\ f'[c].mode = "forward"
          /\ f'[c].i = f[c].i + 1 /\ f'[c].executed = f[c].executed + 1
      BY <1>4 DEF CallTypeOK, Frame, Return, Goto
    <2>2. Prefix(req[c].pkts, f[c].i + 1, f[c].executed + 1)
      <3>1. req[c].pkts \in Seq(Packet)
        BY RequestTyped DEF CallTypeOK
      <3>2. Prefix(req[c].pkts, f[c].i, f[c].executed)
        BY <1>1, <1>3, <1>4 DEF Progress
      <3>. QED
        BY <1>3, <1>4, <3>1, <3>2, LongerPrefix
    <2>3. Progress(c)'
      BY <1>1, <1>3, <1>4, <2>1, <2>2 DEF Progress, Stop, InPacket
    <2>. QED
      BY <2>1, <2>3 DEF Batched, Answered, ExecAnswered, InBatch, InHandler
  <1>5. CASE f[c].mode = "forward" /\ ~ok
    BY <1>1, <1>3, <1>5, BreakBatched DEF Return, Status
  <1>. QED
    BY <1>1, <1>2, <1>4, <1>5

\* An ioctl that is no batch, or gives up before it begins, answers with
\* nothing that counts as a result.
LEMMA IoctlBatched ==
  ASSUME IInv, NEW c \in Clients, Batched(c), IoctlStep(c)
  PROVE  Batched(c)'
  <1>. USE DEF IInv, TypeOK
  <1>1. req[c].pkts \in Seq(Packet) /\ req'[c] = req[c]
    BY RequestTyped DEF CallTypeOK, IoctlStep, LoadVial, SetSafety, ReadThermal, GetState,
       OtherIoctl, ArgumentFault, Execute, Finish, Goto
  <1>2. ASSUME NEW r \in {"EFAULT", "EINVAL"}, Finish(c, Plain(r))
        PROVE  Batched(c)'
    <2>1. pc'[c] = "idle" /\ ans'[c].ret = r /\ f'[c].mode = "forward"
      BY <1>2 DEF Finish, Plain, NoAnswer, Frame0, CallTypeOK
    <2>. QED
      BY <2>1 DEF Batched, Answered, ExecAnswered, InBatch, InHandler
  <1>3. ASSUME req[c].cmd \notin {"EXECUTE", "EXECUTE_SAFE"}, pc'[c] = "idle",
               f'[c].mode = "forward"
        PROVE  Batched(c)'
    BY <1>1, <1>3 DEF Batched, Answered, ExecAnswered, InBatch, InHandler
  <1>4. CASE ArgumentFault(c)
    BY <1>2, <1>4 DEF ArgumentFault
  <1>5. CASE Execute(c)
    <2>1. CASE Malformed(req[c])
      BY <1>2, <1>5, <2>1 DEF Execute
    <2>2. CASE ~Malformed(req[c])
      <3>0. req[c].pkts # << >>
        BY <2>2 DEF Malformed
      <3>1. /\ pc'[c] \in {"fwd", "oops"} /\ f'[c].mode = "forward" /\ f'[c].status = "OK"
            /\ f'[c].i = 1 /\ f'[c].executed = 0 /\ req[c].cmd \in {"EXECUTE", "EXECUTE_SAFE"}
        BY <1>5, <2>2 DEF Execute, Frame0, CallTypeOK
      <3>2. Progress(c)'
        BY <1>1, <3>0, <3>1, EmptyPrefix DEF Progress, Stop, InPacket
      <3>. QED
        BY <3>1, <3>2 DEF Batched, Answered, ExecAnswered, InBatch, InHandler
    <2>. QED
      BY <2>1, <2>2
  <1>6. CASE LoadVial(c) \/ SetSafety(c) \/ ReadThermal(c) \/ GetState(c) \/ OtherIoctl(c)
    <2>1. pc'[c] = "idle" /\ f'[c].mode = "forward" /\ req[c].cmd \notin {"EXECUTE", "EXECUTE_SAFE"}
      BY <1>6 DEF LoadVial, SetSafety, ReadThermal, GetState, OtherIoctl, Finish, Frame0, CallTypeOK
    <2>. QED
      BY <1>3, <2>1
  <1>. QED
    BY <1>4, <1>5, <1>6 DEF IoctlStep

\* The result as ExecAnswer copies it is what the run counted.
LEMMA AnswerBatched ==
  ASSUME IInv, NEW c \in Clients, Progress(c), NEW s \in Status, NEW p,
         Finish(c, ExecAnswer(c, s, p)),
         s = "OK" <=> f[c].status = "OK",
         s = "OK" => f[c].i = Len(req[c].pkts) + 1 /\ f[c].mode = "forward",
         s \in {"THERMAL", "CRC_FAIL"} => req[c].cmd = "EXECUTE" \/ req[c].azoth = << >>
  PROVE  Batched(c)'
  <1>. USE DEF IInv, TypeOK
  <1>1. /\ pc'[c] = "idle" /\ req'[c] = req[c] /\ f'[c].mode = "forward"
        /\ ans'[c].ret = (IF s = "OK" THEN "0" ELSE "EIO") /\ ans'[c].status = s
        /\ ans'[c].executed = f[c].executed /\ ans'[c].errpkt = f[c].errpkt
    BY DEF Finish, ExecAnswer, Frame0, CallTypeOK
  <1>2. Stop(c) = IF s = "OK" THEN Len(req[c].pkts) + 1 ELSE f[c].errpkt
    BY DEF Stop
  <1>3. /\ Stop(c) \in 1 .. Len(req[c].pkts) + 1
        /\ Prefix(req[c].pkts, Stop(c), f[c].executed)
        /\ s # "OK" => f[c].errpkt <= Len(req[c].pkts)
    BY <1>2 DEF Progress, Prefix
  <1>4. Answered(c)'
    BY <1>1, <1>2, <1>3 DEF Progress, Answered
  <1>. QED
    BY <1>1, <1>4 DEF Batched, InBatch, InHandler

LEMMA LoopBatched ==
  ASSUME IInv, NEW c \in Clients, Batched(c), LoopStep(c)
  PROVE  Batched(c)'
  <1>. USE DEF IInv, TypeOK
  <1>0. /\ f[c] \in Frame /\ f[c].mode \in {"forward", "azoth"} /\ f[c].status \in Status
        /\ f[c].i \in Nat \ {0} /\ req[c].pkts \in Seq(Packet) /\ Local(c)
    BY FrameTyped, RequestTyped DEF CallTypeOK
  <1>1. pc[c] \in {"fwd", "fin", "azoth"} /\ Progress(c)
    BY DEF Batched, InBatch, InHandler, LoopStep, CrcFail, SkipPacket, Dispatch, EndOfBatch,
       ExecuteReturn, StartRollback, RollbackStep, RollbackEnd, AtPacket
  <1>2. ASSUME pc[c] = "fwd"
        PROVE  f[c].mode = "forward" /\ f[c].status = "OK" /\ Stop(c) = f[c].i
               /\ Prefix(req[c].pkts, f[c].i, f[c].executed)
    BY <1>0, <1>1, <1>2 DEF Local, Progress, Stop
  <1>3. ASSUME AtPacket(c)
        PROVE  pc[c] = "fwd" /\ f[c].i <= Len(req[c].pkts) /\ f[c].i \in 1 .. Len(req[c].pkts)
               /\ Pkt(c) = req[c].pkts[f[c].i]
    BY <1>0, <1>2, <1>3 DEF AtPacket, Pkt, Batch
  <1>4. CASE CrcFail(c)
    BY <1>1, <1>2, <1>3, <1>4, BreakBatched DEF CrcFail, Status
  <1>5. CASE SkipPacket(c)
    <2>1. /\ pc'[c] = "fwd" /\ req'[c] = req[c] /\ f'[c].i = f[c].i + 1
          /\ f'[c].status = f[c].status /\ f'[c].mode = f[c].mode
          /\ f'[c].executed = f[c].executed
      BY <1>0, <1>3, <1>5 DEF SkipPacket, CallTypeOK, Frame
    <2>2. Prefix(req[c].pkts, f[c].i + 1, f[c].executed)
      BY <1>0, <1>2, <1>3, <1>5, LongerPrefix DEF SkipPacket
    <2>3. Progress(c)'
      BY <1>1, <1>2, <1>3, <1>5, <2>1, <2>2 DEF SkipPacket, Progress, Stop, InPacket
    <2>. QED
      BY <2>1, <2>3 DEF Batched, Answered, ExecAnswered, InBatch, InHandler
  <1>6. CASE Dispatch(c)
    <2>1. AtPacket(c) /\ Pkt(c).crcok /\ Forward(Pkt(c))
          /\ (Break(c, "THERMAL") \/ Break(c, "ERROR") \/ (Goto(c, "op") /\ f' = f))
      BY <1>6 DEF Dispatch
    <2>2. CASE Break(c, "THERMAL") \/ Break(c, "ERROR")
      BY <1>1, <1>2, <1>3, <2>1, <2>2, BreakBatched DEF Status
    <2>3. CASE Goto(c, "op") /\ f' = f
      <3>1. pc'[c] = "op" /\ req'[c] = req[c] /\ f'[c] = f[c]
        BY <2>3 DEF Goto, CallTypeOK
      <3>2. Progress(c)'
        BY <1>1, <1>2, <1>3, <2>1, <3>1 DEF Progress, Stop
      <3>. QED
        BY <3>1, <3>2 DEF Batched, Answered, ExecAnswered, InBatch, InHandler
    <2>. QED
      BY <2>1, <2>2, <2>3
  <1>7. CASE EndOfBatch(c)
    <2>1. pc'[c] = "fin" /\ req'[c] = req[c] /\ f'[c] = f[c] /\ pc[c] = "fwd"
          /\ f[c].i > Len(req[c].pkts)
      BY <1>7 DEF EndOfBatch, Goto, CallTypeOK
    <2>2. f[c].i = Len(req[c].pkts) + 1
      BY <1>0, <1>2, <2>1 DEF Prefix
    <2>3. Progress(c)'
      BY <1>1, <1>2, <2>1, <2>2 DEF Progress, Stop, InPacket
    <2>. QED
      BY <2>1, <2>3 DEF Batched, Answered, ExecAnswered, InBatch, InHandler
  <1>8. CASE ExecuteReturn(c)
    <2>1. f[c].mode = "forward" /\ (f[c].status = "OK" => f[c].i = Len(req[c].pkts) + 1)
      BY <1>0, <1>1, <1>8 DEF ExecuteReturn, Local, Progress
    <2>2. f[c].status # "OK" => req[c].cmd = "EXECUTE" \/ req[c].azoth = << >>
      BY <1>1, <1>8 DEF ExecuteReturn, NeedsRollback, Progress
    <2>. QED
      BY <1>0, <1>1, <1>8, <2>1, <2>2, AnswerBatched DEF ExecuteReturn
  <1>9. CASE StartRollback(c)
    <2>1. /\ pc'[c] = "azoth" /\ req'[c] = req[c] /\ f'[c].mode = "azoth"
          /\ f'[c].status = f[c].status /\ f'[c].errpkt = f[c].errpkt
          /\ f'[c].executed = f[c].executed
      BY <1>0, <1>9 DEF StartRollback, Goto, CallTypeOK, Frame
    <2>2. f[c].status # "OK" /\ req[c].cmd = "EXECUTE_SAFE"
      BY <1>9 DEF StartRollback, NeedsRollback
    <2>3. Progress(c)'
      BY <1>1, <2>1, <2>2 DEF Progress, Stop, InPacket
    <2>. QED
      BY <2>1, <2>3 DEF Batched, Answered, ExecAnswered, InBatch, InHandler
  <1>10. CASE RollbackStep(c)
    <2>1. f[c].mode = "azoth"
      BY <1>0, <1>10 DEF RollbackStep, Local
    <2>2. /\ pc'[c] \in {"op", "azoth"} /\ req'[c] = req[c] /\ f'[c].mode = "azoth"
          /\ f'[c].status = f[c].status /\ f'[c].errpkt = f[c].errpkt
          /\ f'[c].executed = f[c].executed
      <3>1. CASE Goto(c, "op") /\ f' = f
        BY <2>1, <3>1 DEF Goto, CallTypeOK
      <3>2. CASE f' = [f EXCEPT ![c].i = @ + 1] /\ UNCHANGED <<lock, pc, req, ans>>
        BY <1>10, <2>1, <3>2 DEF RollbackStep, CallTypeOK, Frame
      <3>. QED
        BY <1>10, <3>1, <3>2 DEF RollbackStep
    <2>3. Progress(c)'
      BY <1>1, <2>1, <2>2 DEF Progress, Stop
    <2>. QED
      BY <2>2, <2>3 DEF Batched, Answered, ExecAnswered, InBatch, InHandler
  <1>11. CASE RollbackEnd(c)
    <2>1. f[c].mode = "azoth" /\ f[c].status # "OK"
      BY <1>0, <1>1, <1>11 DEF RollbackEnd, Local, Progress
    <2>. QED
      BY <1>1, <1>11, <2>1, AnswerBatched DEF RollbackEnd, Status
  <1>. QED
    BY <1>4, <1>5, <1>6, <1>7, <1>8, <1>9, <1>10, <1>11 DEF LoopStep

LEMMA HandlerBatched ==
  ASSUME IInv, NEW c \in Clients, Batched(c), HandlerStep(c)
  PROVE  Batched(c)'
  BY IoctlBatched, LoopBatched, OpKeepsOrReturns, DmaKeepsOrReturns, KeepsBatched, ReturnBatched
  DEF HandlerStep

-----------------------------------------------------------------------------
(* The invariant. *)

LEMMA BatchInitInv == Init => BatchInv
  <1>. SUFFICES ASSUME Init, NEW c \in Clients PROVE Batched(c)
    BY DEF BatchInv
  <1>1. pc[c] = "idle" /\ f[c].mode = "forward" /\ ans[c].ret = "none"
    BY DEF Init, Frame0, NoAnswer
  <1>. QED
    BY <1>1 DEF Batched, Answered, ExecAnswered, InBatch, InHandler

LEMMA BatchNextInv == IInv /\ BatchInv /\ [Next]_vars => BatchInv'
  <1>. SUFFICES ASSUME IInv, BatchInv, [Next]_vars, NEW d \in Clients PROVE Batched(d)'
    BY DEF BatchInv
  <1>. USE DEF IInv, TypeOK, BatchInv
  <1>1. ASSUME pc'[d] = pc[d], req'[d] = req[d], f'[d] = f[d], ans'[d] = ans[d]
        PROVE  Batched(d)'
    BY <1>1 DEF Batched, Progress, Stop, Answered, ExecAnswered
  <1>2. ASSUME NEW c \in Clients, HandlerStep(c)
        PROVE  Batched(d)'
    <2>1. CASE c = d
      BY <1>2, <2>1, HandlerBatched
    <2>2. CASE c # d
      <3>1. Moves(c)
        BY <1>2, HandlerMoves
      <3>2. pc'[d] = pc[d] /\ req'[d] = req[d] /\ f'[d] = f[d] /\ ans'[d] = ans[d]
        BY <2>2, <3>1 DEF Moves, CallTypeOK
      <3>. QED
        BY <1>1, <3>2
    <2>. QED
      BY <2>1, <2>2
  <1>3. ASSUME NEW c \in Clients, NEW r \in Requests, Call(c, r) \/ Acquire(c)
        PROVE  Batched(d)'
    <2>1. CASE c = d
      <3>1. pc'[d] \in {"wait", "ioctl"} /\ pc[d] \in {"idle", "wait"} /\ f'[d] = f[d]
        BY <1>3, <2>1 DEF Call, Acquire, CallTypeOK
      <3>. QED
        BY <3>1 DEF Batched, Answered, ExecAnswered, InBatch, InHandler
    <2>2. CASE c # d
      <3>1. pc'[d] = pc[d] /\ req'[d] = req[d] /\ f'[d] = f[d] /\ ans'[d] = ans[d]
        BY <1>3, <2>2 DEF Call, Acquire, CallTypeOK
      <3>. QED
        BY <1>1, <3>1
    <2>. QED
      BY <2>1, <2>2
  <1>4. CASE BusStep
    BY <1>1, <1>4, BusTyped DEF callvars
  <1>5. CASE UNCHANGED vars
    BY <1>1, <1>5 DEF vars, callvars
  <1>. QED
    BY <1>2, <1>3, <1>4, <1>5, RequestsAssumption DEF Next

LEMMA BatchInvariance == Spec => []BatchInv
  BY BatchInitInv, BatchNextInv, Invariance, PTL DEF Spec

\* For batches of any length, what has run is exactly the packets before the
\* current one that are to be run (execute_packets).
THEOREM PrefixAlways == Spec => []PrefixExecuted
  <1>1. BatchInv => PrefixExecuted
    BY DEF BatchInv, Batched, Progress, Stop, Prefix, InBatch, PrefixExecuted
  <1>. QED
    BY <1>1, BatchInvariance, PTL

\* What execute reports is what happened, whatever other clients did meanwhile.
THEOREM AnswersAreSound == Spec => []AnswerSound
  <1>1. IInv /\ BatchInv => AnswerSound
    <2>. SUFFICES ASSUME IInv, BatchInv, NEW c \in Clients, ExecAnswered(c)
                  PROVE  LET a == ans[c]  s == req[c].pkts IN
                         /\ a.ret = "0" <=> a.status = "OK"
                         /\ a.status = "OK" =>
                              /\ \A j \in DOMAIN s : s[j].crcok
                              /\ a.executed = Cardinality(ForwardBefore(s, Len(s) + 1))
                         /\ a.status # "OK" =>
                              /\ a.errpkt \in DOMAIN s
                              /\ \A j \in 1 .. a.errpkt - 1 : s[j].crcok
                              /\ a.executed = Cardinality(ForwardBefore(s, a.errpkt))
                         /\ a.status \in {"THERMAL", "CRC_FAIL"} =>
                              req[c].cmd = "EXECUTE" \/ req[c].azoth = << >>
      BY DEF AnswerSound
    <2>1. Answered(c) /\ req[c].pkts \in Seq(Packet)
      BY RequestTyped DEF BatchInv, Batched, IInv, TypeOK, CallTypeOK
    <2>2. DOMAIN req[c].pkts = 1 .. Len(req[c].pkts) /\ Len(req[c].pkts) \in Nat
      BY <2>1
    <2>. QED
      BY <2>1, <2>2 DEF Answered, Prefix
  <1>. QED
    BY <1>1, Invariance, BatchInvariance, PTL

\* A program is told "done" only of batches that ran whole (alka_run.zig).
THEOREM DoneAlways == Spec => []DoneIsDone
  <1>1. IInv /\ BatchInv => DoneIsDone
    <2>. SUFFICES ASSUME IInv, BatchInv, NEW c \in Clients,
                         pc[c] = "idle", ans[c].ret # "none", Told(ans[c]) = "done",
                         req[c].cmd \in {"EXECUTE", "EXECUTE_SAFE"}
                  PROVE  LET s == req[c].pkts IN
                         /\ s # << >> /\ \A j \in DOMAIN s : s[j].crcok
                         /\ ans[c].executed = Cardinality(ForwardBefore(s, Len(s) + 1))
      BY DEF DoneIsDone
    <2>1. Answered(c) /\ req[c].pkts \in Seq(Packet)
      BY RequestTyped DEF BatchInv, Batched, IInv, TypeOK, CallTypeOK
    <2>2. DOMAIN req[c].pkts = 1 .. Len(req[c].pkts) /\ Len(req[c].pkts) \in Nat
      BY <2>1
    <2>3. ans[c].ret = "0"
      BY DEF Told
    <2>. QED
      BY <2>1, <2>2, <2>3 DEF Answered, ExecAnswered, Prefix
  <1>. QED
    BY <1>1, Invariance, BatchInvariance, PTL

-----------------------------------------------------------------------------
(* The two phases of a safe run. *)

\* Client c enters and leaves its rollback only where it may.
Phases(c) ==
  /\ f[c].mode = "forward" /\ f'[c].mode = "azoth"
       => f[c].status # "OK" /\ req[c].cmd = "EXECUTE_SAFE"
  /\ f[c].mode = "azoth" /\ f'[c].mode = "forward" => pc'[c] = "idle"

LEMMA FinishPhases ==
  ASSUME CallTypeOK, NEW c \in Clients, NEW a, Finish(c, a)
  PROVE  Phases(c)
  BY DEF Finish, Frame0, CallTypeOK, Phases

LEMMA BreakPhases ==
  ASSUME CallTypeOK, NEW c \in Clients, NEW s, Break(c, s)
  PROVE  Phases(c)
  BY DEF Break, CallTypeOK, Frame, Phases

LEMMA ReturnPhases ==
  ASSUME CallTypeOK, NEW c \in Clients, NEW ok \in BOOLEAN, Return(c, ok)
  PROVE  Phases(c)
  <1>1. CASE f[c].mode = "azoth" \/ ok
    BY <1>1 DEF Return, CallTypeOK, Frame, Phases
  <1>2. CASE f[c].mode # "azoth" /\ ~ok
    BY <1>2, BreakPhases DEF Return
  <1>. QED
    BY <1>1, <1>2

LEMMA HandlerPhases ==
  ASSUME IInv, NEW c \in Clients, Batched(c), HandlerStep(c)
  PROVE  Phases(c)
  <1>. USE DEF IInv, TypeOK
  <1>1. CASE IoctlStep(c)
    <2>1. pc[c] = "ioctl"
      BY <1>1 DEF IoctlStep, LoadVial, SetSafety, ReadThermal, GetState, OtherIoctl,
         ArgumentFault, Execute
    <2>2. f[c].mode = "forward"
      BY <2>1 DEF Batched, InBatch, InHandler
    <2>3. f'[c].mode = "forward"
      BY <1>1 DEF IoctlStep, LoadVial, SetSafety, ReadThermal, GetState, OtherIoctl,
         ArgumentFault, Execute, Finish, Frame0, CallTypeOK
    <2>. QED
      BY <2>2, <2>3 DEF Phases
  <1>2. CASE LoopStep(c)
    <2>1. CASE CrcFail(c)
      BY <2>1, BreakPhases DEF CrcFail
    <2>2. CASE SkipPacket(c)
      BY <2>2 DEF SkipPacket, CallTypeOK, Frame, Phases
    <2>3. CASE Dispatch(c)
      BY <2>3, BreakPhases DEF Dispatch, Phases
    <2>4. CASE EndOfBatch(c)
      BY <2>4 DEF EndOfBatch, Phases
    <2>5. CASE ExecuteReturn(c)
      BY <2>5, FinishPhases DEF ExecuteReturn
    <2>6. CASE StartRollback(c)
      BY <2>6 DEF StartRollback, NeedsRollback, CallTypeOK, Frame, Phases
    <2>7. CASE RollbackStep(c)
      <3>1. CASE f' = f
        BY <3>1 DEF Phases
      <3>2. CASE f' = [f EXCEPT ![c].i = @ + 1]
        BY <3>2 DEF CallTypeOK, Frame, Phases
      <3>. QED
        BY <2>7, <3>1, <3>2 DEF RollbackStep
    <2>8. CASE RollbackEnd(c)
      BY <2>8, FinishPhases DEF RollbackEnd
    <2>. QED
      BY <1>2, <2>1, <2>2, <2>3, <2>4, <2>5, <2>6, <2>7, <2>8 DEF LoopStep
  <1>3. CASE OpStep(c) \/ DmaStep(c)
    <2>1. CASE Keeps(c)
      BY <2>1 DEF Keeps, Phases
    <2>. QED
      BY <1>3, <2>1, OpKeepsOrReturns, DmaKeepsOrReturns, ReturnPhases
  <1>. QED
    BY <1>1, <1>2, <1>3 DEF HandlerStep

\* A rollback follows a failure of the safe ioctl and ends with it
\* (vitriol_ioctl_execute_safe).
THEOREM RollbacksAreLast == Spec => RollbackAfterFailure
  <1>1. IInv /\ BatchInv /\ [Next]_vars => [\A c \in Clients : Phases(c)]_vars
    <2>. SUFFICES ASSUME IInv, BatchInv, Next, NEW d \in Clients PROVE Phases(d)
      OBVIOUS
    <2>. USE DEF IInv, TypeOK, BatchInv
    <2>1. CASE f'[d] = f[d]
      BY <2>1 DEF Phases
    <2>2. ASSUME NEW c \in Clients, HandlerStep(c)
          PROVE  Phases(d)
      <3>1. CASE c = d
        BY <2>2, <3>1, HandlerPhases
      <3>2. CASE c # d
        <4>1. Moves(c)
          BY <2>2, HandlerMoves
        <4>2. f'[d] = f[d]
          BY <3>2, <4>1 DEF Moves, CallTypeOK
        <4>. QED
          BY <2>1, <4>2
      <3>. QED
        BY <3>1, <3>2
    <2>3. CASE f' = f
      BY <2>1, <2>3
    <2>. QED
      BY <2>2, <2>3, BusTyped DEF Next, Call, Acquire, callvars
  <1>. QED
    BY <1>1, Invariance, BatchInvariance, PTL DEF Spec, RollbackAfterFailure, Phases
=============================================================================
