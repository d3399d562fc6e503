---------------------------- MODULE AthanorProofs ----------------------------
(***************************************************************************)
(* Proofs about the driver, for any set of clients, any set of requests,   *)
(* any dispatch table and any card.                                        *)
(***************************************************************************)
EXTENDS AthanorProps, TLAPS

\* Where a client's thread is agrees with the array its handler walks.
Local(c) ==
  /\ pc[c] \in InPacket => f[c].i \in 1 .. Len(Batch(c))
  /\ pc[c] \in {"fwd", "fin"} => f[c].mode = "forward"
  /\ pc[c] = "azoth" => f[c].mode = "azoth"

\* The inductive invariant.
IInv == TypeOK /\ LockHeld /\ \A c \in Clients : Local(c)

\* What every step of a handler does to the call: it goes on inside the
\* handler with the mutex, or it answers and lets the mutex go.
Moves(c) ==
  /\ pc[c] \in InHandler
  /\ req' = req
  /\ \E g \in Frame : f' = [f EXCEPT ![c] = g]
  /\ \/ /\ lock' = lock /\ ans' = ans
        /\ \E p \in InHandler : pc' = [pc EXCEPT ![c] = p]
     \/ /\ lock' = NoClient /\ pc' = [pc EXCEPT ![c] = "idle"]
        /\ \E a \in Answer : ans' = [ans EXCEPT ![c] = a]
  /\ Local(c)'

-----------------------------------------------------------------------------
(* The types of what a request and a frame hold. *)

LEMMA RequestTyped ==
  ASSUME NEW r \in Requests
  PROVE  /\ r \in Request
         /\ r.cmd \in Commands
         /\ r.pkts \in Seq(Packet) /\ r.azoth \in Seq(Packet) /\ r.psize \in Nat
         /\ r.vessels \in Nat /\ r.halt \in Nat /\ r.throttle \in Nat /\ r.level \in Nat
  BY RequestsAssumption DEF Request

LEMMA PacketTyped ==
  ASSUME NEW p \in Packet
  PROVE  p.src \in Nat /\ p.dst \in Nat /\ p.size \in Nat /\ p.vessel \in Nat
  <1>1. p.vessel \in U16 /\ p.src \in Nat /\ p.dst \in Nat /\ p.size \in Nat
    BY DEF Packet
  <1>2. U16 \subseteq Nat
    BY DEF U16
  <1> QED
    BY <1>1, <1>2

LEMMA PktTyped ==
  ASSUME CallTypeOK, NEW c \in Clients, f[c].i \in 1 .. Len(Batch(c))
  PROVE  /\ Pkt(c) \in Packet
         /\ Pkt(c).src \in Nat /\ Pkt(c).dst \in Nat /\ Pkt(c).size \in Nat
         /\ Pkt(c).vessel \in Nat
  <1>1. Batch(c) \in Seq(Packet)
    BY RequestTyped DEF CallTypeOK, Batch
  <1>2. Pkt(c) \in Packet
    BY <1>1 DEF Pkt
  <1> QED
    BY <1>2, PacketTyped

LEMMA FrameTyped ==
  ASSUME CallTypeOK, NEW c \in Clients
  PROVE  /\ f[c] \in Frame
         /\ f[c].mode \in {"forward", "azoth"} /\ f[c].status \in Status
         /\ f[c].i \in Nat \ {0} /\ f[c].drop \in Nat /\ f[c].off \in Nat /\ f[c].polls \in Nat
         /\ f[c].executed \in Nat /\ f[c].errpkt \in Nat /\ f[c].peak \in Nat
  BY DEF CallTypeOK, Frame

LEMMA FrameStepped ==
  ASSUME NEW g \in Frame
  PROVE  [g EXCEPT !.i = g.i + 1, !.executed = g.executed + 1] \in Frame
  <1>1. [g EXCEPT !.i = g.i + 1] \in Frame
    BY DEF Frame
  <1>2. ASSUME NEW h \in Frame, NEW n \in Nat
        PROVE  [h EXCEPT !.executed = n] \in Frame
    BY DEF Frame
  <1>3. g.executed + 1 \in Nat
    BY DEF Frame
  <1>4. [[g EXCEPT !.i = g.i + 1] EXCEPT !.executed = g.executed + 1] \in Frame
    BY <1>1, <1>2, <1>3
  <1> QED
    BY <1>4

LEMMA FrameCounted ==
  ASSUME NEW g \in Frame, NEW n \in Nat
  PROVE  /\ n # 0 => [g EXCEPT !.i = n] \in Frame
         /\ [g EXCEPT !.drop = n] \in Frame
         /\ [g EXCEPT !.off = n] \in Frame /\ [g EXCEPT !.polls = n] \in Frame
  BY DEF Frame

LEMMA Frame0Typed == Frame0 \in Frame
  BY DEF Frame, Frame0, Status

LEMMA ThermalTyped ==
  ASSUME temp \in Nat, NEW hot \in BOOLEAN, CheckThermal(hot)
  PROVE  temp' \in Nat
  BY NumberAssumption DEF CheckThermal

LEMMA AnswersTyped ==
  ASSUME CallTypeOK, NEW c \in Clients
  PROVE  /\ \A r \in Errnos : Plain(r) \in Answer
         /\ \A s \in Status, p \in Nat : ExecAnswer(c, s, p) \in Answer
  <1>1. ASSUME NEW r \in Errnos
        PROVE  Plain(r) \in Answer
    BY DEF Plain, NoAnswer, Answer, Errnos
  <1>2. ASSUME NEW s \in Status, NEW p \in Nat
        PROVE  ExecAnswer(c, s, p) \in Answer
    BY FrameTyped DEF ExecAnswer, Answer, Errnos, Status
  <1> QED
    BY <1>1, <1>2

LEMMA AlignNat ==
  ASSUME bars \in Bars, bars.bar1.len # 0, NEW v \in Nat
  PROVE  Align(v) \in Nat
  BY DEF Align, Bars, BarRange

LEMMA ClaimTyped ==
  ASSUME DeviceTypeOK, NEW p, ClaimBars(p)
  PROVE  bars' \in Bars /\ (bars.bar1.len # 0 \/ ~bar1 => bars'.bar1.len # 0)
  <1> DEFINE b == IF p.src = KnownId THEN KnownBars ELSE IF pdev' THEN CardBars ELSE DefaultBars
  <1>1. b \in {CardBars, KnownBars, DefaultBars}
    OBVIOUS
  <1>2. b \in Bars /\ b.bar1.len # 0
    BY <1>1, BarsAssumption
  <1>3. bars' = [bar0 |-> IF bar0 THEN bars.bar0 ELSE b.bar0,
                 bar1 |-> IF bar1 THEN bars.bar1 ELSE b.bar1]
    BY DEF ClaimBars
  <1> HIDE DEF b
  <1> QED
    BY <1>2, <1>3 DEF DeviceTypeOK, Bars, BarRange

-----------------------------------------------------------------------------
(* The helpers the handlers end with. *)

LEMMA GotoMoves ==
  ASSUME CallTypeOK, NEW c \in Clients, pc[c] \in InHandler,
         NEW p \in InHandler, NEW g \in Frame,
         Goto(c, p), f' = [f EXCEPT ![c] = g],
         p \in InPacket =>
           g.i \in 1 .. Len(IF g.mode = "azoth" THEN req[c].azoth ELSE req[c].pkts),
         p \in {"fwd", "fin"} => g.mode = "forward",
         p = "azoth" => g.mode = "azoth"
  PROVE  Moves(c)
  <1>1. pc'[c] = p /\ f'[c] = g /\ req' = req
    BY DEF Goto, CallTypeOK
  <1>2. Local(c)'
    BY <1>1 DEF Local, Batch
  <1> QED
    BY <1>2 DEF Goto, Moves

\* A step that leaves the frame alone.
LEMMA GoMoves ==
  ASSUME CallTypeOK, NEW c \in Clients, pc[c] \in InHandler, Local(c),
         NEW p \in InHandler, Goto(c, p), f' = f,
         p \in InPacket => pc[c] \in InPacket \/ f[c].i \in 1 .. Len(Batch(c)),
         p \in {"fwd", "fin"} => f[c].mode = "forward",
         p = "azoth" => f[c].mode = "azoth"
  PROVE  Moves(c)
  <1>1. f' = [f EXCEPT ![c] = f[c]]
    BY DEF CallTypeOK
  <1>2. p \in InPacket =>
          f[c].i \in 1 .. Len(IF f[c].mode = "azoth" THEN req[c].azoth ELSE req[c].pkts)
    BY DEF Local, Batch
  <1> QED
    BY <1>1, <1>2, FrameTyped, GotoMoves

\* A step that stays where it is and changes only counters of the frame.
LEMMA StayMoves ==
  ASSUME CallTypeOK, NEW c \in Clients, pc[c] \in InHandler, Local(c), NEW g \in Frame,
         UNCHANGED <<lock, pc, req, ans>>, f' = [f EXCEPT ![c] = g],
         g.mode = f[c].mode, pc[c] \in InPacket => g.i = f[c].i
  PROVE  Moves(c)
  <1>1. pc' = [pc EXCEPT ![c] = pc[c]]
    BY DEF CallTypeOK
  <1>2. Goto(c, pc[c])
    BY <1>1 DEF Goto
  <1>3. pc[c] \in InPacket =>
          g.i \in 1 .. Len(IF g.mode = "azoth" THEN req[c].azoth ELSE req[c].pkts)
    BY DEF Local, Batch
  <1> QED
    BY <1>2, <1>3, GotoMoves DEF Local

LEMMA FinishMoves ==
  ASSUME CallTypeOK, NEW c \in Clients, pc[c] \in InHandler, NEW a \in Answer, Finish(c, a)
  PROVE  Moves(c)
  <1>1. pc'[c] = "idle" /\ f' = [f EXCEPT ![c] = Frame0]
    BY DEF Finish, CallTypeOK
  <1>2. Local(c)'
    BY <1>1 DEF Local, InPacket
  <1> QED
    BY <1>1, <1>2, Frame0Typed DEF Finish, Moves

LEMMA BreakMoves ==
  ASSUME CallTypeOK, NEW c \in Clients, pc[c] \in InHandler, NEW s \in Status, Break(c, s),
         f[c].mode = "forward"
  PROVE  Moves(c)
  <1> DEFINE g == [f[c] EXCEPT !.status = s, !.errpkt = f[c].i]
  <1>1. g \in Frame /\ g.mode = "forward"
    BY FrameTyped DEF Frame
  <1>2. f' = [f EXCEPT ![c] = g]
    BY DEF Break, CallTypeOK
  <1> QED
    BY <1>1, <1>2, GotoMoves DEF Break, InPacket, InHandler

LEMMA ReturnMoves ==
  ASSUME CallTypeOK, NEW c \in Clients, pc[c] \in InHandler, NEW ok \in BOOLEAN, Return(c, ok)
  PROVE  Moves(c)
  <1>1. CASE f[c].mode = "azoth"
    <2> DEFINE g == [f[c] EXCEPT !.i = @ + 1]
    <2>1. g \in Frame /\ g.mode = "azoth"
      BY <1>1, FrameTyped DEF Frame
    <2>2. f' = [f EXCEPT ![c] = g] /\ Goto(c, "azoth")
      BY <1>1 DEF Return, CallTypeOK
    <2> QED
      BY <2>1, <2>2, GotoMoves DEF InPacket, InHandler
  <1>2. CASE f[c].mode # "azoth" /\ ok
    <2> DEFINE g == [f[c] EXCEPT !.i = @ + 1, !.executed = @ + 1]
    <2>1. g \in Frame
      BY FrameTyped, FrameStepped
    <2>2. g.mode = "forward"
      BY <1>2, FrameTyped DEF Frame
    <2>3. f' = [f EXCEPT ![c] = g] /\ Goto(c, "fwd")
      BY <1>2 DEF Return, CallTypeOK
    <2> QED
      BY <2>1, <2>2, <2>3, GotoMoves DEF InPacket, InHandler
  <1>3. CASE f[c].mode # "azoth" /\ ~ok
    <2>1. Break(c, "ERROR") /\ f[c].mode = "forward"
      BY <1>3, FrameTyped DEF Return
    <2> QED
      BY <2>1, BreakMoves DEF Status
  <1> QED
    BY <1>1, <1>2, <1>3

-----------------------------------------------------------------------------
(* One step per action: every handler step is a Moves and keeps the types  *)
(* of the device structure.                                                *)

LEMMA IoctlMoves ==
  ASSUME IInv, NEW c \in Clients, IoctlStep(c)
  PROVE  Moves(c) /\ DeviceTypeOK'
  <1> USE DEF IInv, TypeOK
  <1>0. pc[c] = "ioctl" => pc[c] \in InHandler
    BY DEF InHandler
  <1>1. req[c] \in Requests
    BY DEF CallTypeOK
  <1>2. Plain("0") \in Answer /\ Plain("EFAULT") \in Answer /\ Plain("ENOTTY") \in Answer
        /\ Plain("EINVAL") \in Answer
    BY AnswersTyped DEF Errnos
  <1>3. CASE LoadVial(c)
    <2>1. Moves(c)
      BY <1>0, <1>2, <1>3, FinishMoves DEF LoadVial
    <2>2. DeviceTypeOK'
      BY <1>1, <1>3, RequestTyped DEF LoadVial, DeviceTypeOK, mapvars, memvars, busvars
    <2> QED
      BY <2>1, <2>2
  <1>4. CASE SetSafety(c)
    <2>1. Moves(c)
      BY <1>0, <1>2, <1>4, FinishMoves DEF SetSafety
    <2>2. DeviceTypeOK'
      BY <1>1, <1>4, RequestTyped DEF SetSafety, DeviceTypeOK, mapvars, memvars, busvars
    <2> QED
      BY <2>1, <2>2
  <1>5. CASE ReadThermal(c)
    <2>1. Moves(c)
      BY <1>0, <1>2, <1>5, FinishMoves DEF ReadThermal
    <2>2. DeviceTypeOK'
      BY <1>5, NumberAssumption
      DEF ReadThermal, DeviceTypeOK, mapvars, memvars, limvars, busvars
    <2> QED
      BY <2>1, <2>2
  <1>6. CASE GetState(c)
    <2> DEFINE a == [ret |-> "0", status |-> IF initialized THEN "OK" ELSE "ERROR",
                     executed |-> 0, errpkt |-> 0, peak |-> temp]
    <2>1. a \in Answer
      BY DEF Answer, Errnos, Status, DeviceTypeOK
    <2>2. Moves(c)
      BY <1>0, <1>6, <2>1, FinishMoves DEF GetState
    <2>3. DeviceTypeOK'
      BY <1>6 DEF GetState, DeviceTypeOK, devvars, mapvars, memvars, limvars, busvars
    <2> QED
      BY <2>2, <2>3
  <1>7. CASE OtherIoctl(c)
    <2>1. Moves(c)
      BY <1>0, <1>2, <1>7, FinishMoves DEF OtherIoctl
    <2>2. DeviceTypeOK'
      BY <1>7 DEF OtherIoctl, DeviceTypeOK, devvars, mapvars, memvars, limvars, busvars
    <2> QED
      BY <2>1, <2>2
  <1>8. CASE ArgumentFault(c)
    <2>1. Moves(c)
      BY <1>0, <1>2, <1>8, FinishMoves DEF ArgumentFault
    <2>2. DeviceTypeOK'
      BY <1>8 DEF ArgumentFault, DeviceTypeOK, devvars, mapvars, memvars, limvars, busvars
    <2> QED
      BY <2>1, <2>2
  <1>9. CASE Execute(c)
    <2>1. DeviceTypeOK'
      BY <1>9 DEF Execute, DeviceTypeOK, devvars, mapvars, memvars, limvars, busvars
    <2>2. CASE Malformed(req[c])
      <3>1. Finish(c, Plain("EINVAL"))
        BY <1>9, <2>2 DEF Execute
      <3> QED
        BY <1>0, <1>2, <1>9, <2>1, <3>1, FinishMoves DEF Execute
    <2>3. CASE ~Malformed(req[c])
      <3> DEFINE g == [Frame0 EXCEPT !.peak = temp]
                 p == IF req[c].psize = 0 THEN "oops" ELSE "fwd"
      <3>1. g \in Frame /\ g.mode = "forward"
        BY DEF Frame, Frame0, Status, DeviceTypeOK
      <3>2. Goto(c, p) /\ f' = [f EXCEPT ![c] = g] /\ pc[c] = "ioctl"
        BY <1>9, <2>3 DEF Execute, Goto
      <3>3. p \in InHandler /\ p \notin InPacket /\ p # "azoth"
        BY DEF InHandler, InPacket
      <3>4. Moves(c)
        BY <1>0, <3>1, <3>2, <3>3, GotoMoves
      <3> QED
        BY <2>1, <3>4
    <2> QED
      BY <2>2, <2>3
  <1> QED
    BY <1>3, <1>4, <1>5, <1>6, <1>7, <1>8, <1>9 DEF IoctlStep

LEMMA LoopMoves ==
  ASSUME IInv, NEW c \in Clients, LoopStep(c)
  PROVE  Moves(c) /\ DeviceTypeOK'
  <1> USE DEF IInv, TypeOK
  <1>0. Local(c) /\ f[c] \in Frame /\ f[c].i \in Nat \ {0}
    BY FrameTyped
  <1>1. pc[c] \in {"fwd", "fin", "azoth"} => pc[c] \in InHandler
    BY DEF InHandler
  <1>2. UNCHANGED devvars => DeviceTypeOK'
    BY DEF DeviceTypeOK, devvars, mapvars, memvars, limvars, busvars
  <1>3. AtPacket(c) => /\ pc[c] = "fwd" /\ f[c].mode = "forward"
                       /\ f[c].i <= Len(req[c].pkts)
    BY <1>0 DEF AtPacket, Local
  <1>4. CASE CrcFail(c)
    BY <1>1, <1>2, <1>3, <1>4, BreakMoves DEF CrcFail, Status
  <1>5. CASE SkipPacket(c)
    <2> DEFINE g == [f[c] EXCEPT !.i = f[c].i + 1]
    <2>1. g \in Frame /\ g.mode = f[c].mode
      BY <1>0, FrameCounted DEF Frame
    <2>2. f' = [f EXCEPT ![c] = g]
      BY <1>5 DEF SkipPacket
    <2>3. pc[c] \notin InPacket
      BY <1>3, <1>5 DEF SkipPacket, InPacket
    <2> QED
      BY <1>0, <1>1, <1>2, <1>3, <1>5, <2>1, <2>2, <2>3, StayMoves DEF SkipPacket
  <1>6. CASE Dispatch(c)
    <2>1. PICK hot \in BOOLEAN :
            /\ (CheckThermal(hot) \/ UNCHANGED temp)
            /\ Break(c, "THERMAL") \/ Break(c, "ERROR") \/ (Goto(c, "op") /\ f' = f)
      BY <1>6 DEF Dispatch
    <2>2. DeviceTypeOK'
      <3>1. temp' \in Nat
        BY <2>1, ThermalTyped DEF DeviceTypeOK
      <3> QED
        BY <1>6, <3>1 DEF Dispatch, DeviceTypeOK, mapvars, memvars, limvars, busvars
    <2>3. f[c].i \in 1 .. Len(Batch(c)) /\ pc[c] = "fwd" /\ f[c].mode = "forward"
      <3>1. AtPacket(c)
        BY <1>6 DEF Dispatch
      <3> QED
        BY <1>0, <1>3, <3>1 DEF Batch
    <2>4. CASE Break(c, "THERMAL") \/ Break(c, "ERROR")
      BY <1>1, <2>2, <2>3, <2>4, BreakMoves DEF Status
    <2>5. CASE Goto(c, "op") /\ f' = f
      BY <1>0, <1>1, <2>2, <2>3, <2>5, GoMoves DEF InHandler
    <2> QED
      BY <2>1, <2>4, <2>5
  <1>7. CASE EndOfBatch(c)
    <2>1. "fin" \in InHandler /\ "fin" \notin InPacket /\ pc[c] = "fwd"
      BY <1>7 DEF InHandler, InPacket, EndOfBatch
    <2> QED
      BY <1>0, <1>1, <1>2, <1>7, <2>1, GoMoves DEF EndOfBatch, Local
  <1>8. PeakAtEnd(c) \in Nat /\ f[c].status \in Status /\ f[c].peak \in Nat
    BY FrameTyped DEF PeakAtEnd, Larger, DeviceTypeOK
  <1>9. CASE ExecuteReturn(c)
    <2>1. ExecAnswer(c, f[c].status, PeakAtEnd(c)) \in Answer
      BY <1>8, AnswersTyped
    <2> QED
      BY <1>1, <1>2, <1>9, <2>1, FinishMoves DEF ExecuteReturn
  <1>10. CASE StartRollback(c)
    <2> DEFINE g == [f[c] EXCEPT !.mode = "azoth", !.i = 1, !.peak = PeakAtEnd(c)]
    <2>1. g \in Frame /\ g.mode = "azoth"
      <3>1. ASSUME NEW h \in Frame
            PROVE  /\ [h EXCEPT !.mode = "azoth"] \in Frame
                   /\ [h EXCEPT !.i = 1] \in Frame
                   /\ \A n \in Nat : [h EXCEPT !.peak = n] \in Frame
        BY DEF Frame
      <3>2. [[[f[c] EXCEPT !.mode = "azoth"] EXCEPT !.i = 1] EXCEPT !.peak = PeakAtEnd(c)]
              \in Frame
        BY <1>0, <1>8, <3>1
      <3>3. g = [[[f[c] EXCEPT !.mode = "azoth"] EXCEPT !.i = 1] EXCEPT !.peak = PeakAtEnd(c)]
        OBVIOUS
      <3> QED
        BY <1>0, <3>2, <3>3 DEF Frame
    <2>2. f' = [f EXCEPT ![c] = g] /\ Goto(c, "azoth") /\ pc[c] = "fin" /\ UNCHANGED devvars
      BY <1>10 DEF StartRollback
    <2>3. "azoth" \in InHandler /\ "azoth" \notin InPacket
      BY DEF InHandler, InPacket
    <2> QED
      BY <1>1, <1>2, <2>1, <2>2, <2>3, GotoMoves
  <1>11. CASE RollbackStep(c)
    <2>1. /\ pc[c] = "azoth" /\ f[c].mode = "azoth" /\ UNCHANGED devvars
          /\ f[c].i \in 1 .. Len(Batch(c))
      <3>1. pc[c] = "azoth" /\ f[c].i <= Len(req[c].azoth) /\ UNCHANGED devvars
        BY <1>11 DEF RollbackStep
      <3>2. f[c].mode = "azoth"
        BY <1>0, <3>1 DEF Local
      <3> QED
        BY <1>0, <3>1, <3>2 DEF Batch
    <2>2. CASE Goto(c, "op") /\ f' = f
      BY <1>0, <1>1, <1>2, <2>1, <2>2, GoMoves DEF InHandler
    <2>3. CASE f' = [f EXCEPT ![c].i = @ + 1] /\ UNCHANGED <<lock, pc, req, ans>>
      <3> DEFINE g == [f[c] EXCEPT !.i = f[c].i + 1]
      <3>1. g \in Frame /\ g.mode = f[c].mode
        BY <1>0, FrameCounted DEF Frame
      <3>2. f' = [f EXCEPT ![c] = g]
        BY <2>3
      <3>3. pc[c] \notin InPacket
        BY <2>1 DEF InPacket
      <3> QED
        BY <1>0, <1>1, <1>2, <2>1, <2>3, <3>1, <3>2, <3>3, StayMoves
    <2> QED
      BY <1>11, <2>2, <2>3 DEF RollbackStep
  <1>12. CASE RollbackEnd(c)
    <2>1. ExecAnswer(c, "ERROR", f[c].peak) \in Answer
      BY <1>8, AnswersTyped DEF Status
    <2> QED
      BY <1>1, <1>2, <1>12, <2>1, FinishMoves DEF RollbackEnd
  <1> QED
    BY <1>4, <1>5, <1>6, <1>7, <1>9, <1>10, <1>11, <1>12 DEF LoopStep

LEMMA OpMoves ==
  ASSUME IInv, NEW c \in Clients, OpStep(c)
  PROVE  Moves(c) /\ DeviceTypeOK'
  <1> USE DEF IInv, TypeOK
  <1>0. Local(c) /\ f[c] \in Frame
    BY FrameTyped
  <1>1. pc[c] \in {"op", "config"}
    BY DEF OpStep, Running, OpClaim, OpShift, OpSense, OpLimit, OpGuard, OpConfig, Config,
           OpReadOnly, OpNoop, OpState, OpPipe, OpEcho, OpAudit, OpFence, OpFlow, OpSlice
  <1>2. pc[c] \in InHandler /\ pc[c] \in InPacket
    BY <1>1 DEF InHandler, InPacket
  <1>3. /\ Pkt(c).src \in Nat /\ Pkt(c).dst \in Nat
        /\ Pkt(c).size \in Nat /\ Pkt(c).vessel \in Nat
    BY <1>0, <1>2, PktTyped DEF Local
  <1>4. UNCHANGED devvars => DeviceTypeOK'
    BY DEF DeviceTypeOK, devvars, mapvars, memvars, limvars, busvars
  <1>5. ASSUME NEW ok \in BOOLEAN, Return(c, ok)
        PROVE  Moves(c)
    BY <1>2, <1>5, ReturnMoves
  \* The handler goes on at another point, with counters set.
  <1>6. ASSUME NEW p \in InHandler \ {"fwd", "fin", "azoth"}, Goto(c, p), NEW g \in Frame,
               f' = [f EXCEPT ![c] = g], g.i = f[c].i, g.mode = f[c].mode
        PROVE  Moves(c)
    <2>1. g.i \in 1 .. Len(IF g.mode = "azoth" THEN req[c].azoth ELSE req[c].pkts)
      BY <1>0, <1>2, <1>6 DEF Local, Batch
    <2> QED
      BY <1>2, <1>6, <2>1, GotoMoves
  <1>7. /\ [f[c] EXCEPT !.polls = 0] \in Frame /\ [f[c] EXCEPT !.off = 0] \in Frame
        /\ [f[c] EXCEPT !.drop = 0] \in Frame
    BY <1>0, FrameCounted
  <1>8. f' = f => f' = [f EXCEPT ![c] = f[c]]
    BY DEF CallTypeOK
  <1>9. {"config", "oops", "fence", "dma", "slice"} \subseteq InHandler \ {"fwd", "fin", "azoth"}
    BY DEF InHandler
  <1>10. CASE OpClaim(c)
    <2>1. PICK found \in BOOLEAN, ok0 \in BOOLEAN, ok1 \in Bar1Maps :
            /\ pdev' = (pdev \/ (Pkt(c).src # 0 /\ found))
            /\ bar0' = (bar0 \/ ok0)
            /\ IF bar0'
               THEN /\ bar1' = (bar1 \/ ok1) /\ win' = 0 /\ initialized' = TRUE
                    /\ ClaimBars(Pkt(c))
               ELSE UNCHANGED <<bars, bar1, win, initialized>>
            /\ Return(c, bar0')
      BY <1>10 DEF OpClaim
    <2>2. bar0' \in BOOLEAN
      BY <2>1
    <2>3. Moves(c)
      BY <1>5, <2>1, <2>2
    <2>4. /\ pdev' \in BOOLEAN /\ bar1' \in BOOLEAN /\ initialized' \in BOOLEAN /\ win' \in Nat
          /\ bars' \in Bars /\ (bar1' => bars'.bar1.len # 0)
      <3>1. pdev' \in BOOLEAN
        BY <2>1
      <3>2. CASE bar0'
        <4>1. bar1' \in BOOLEAN
          BY <2>1, <3>2
        <4>2. win' = 0
          BY <2>1, <3>2
        <4>3. initialized' \in BOOLEAN
          BY <2>1, <3>2
        <4>4. bars' \in Bars /\ bars'.bar1.len # 0
          BY <2>1, <3>2, ClaimTyped DEF DeviceTypeOK
        <4> QED
          BY <3>1, <4>1, <4>2, <4>3, <4>4
      <3>3. CASE ~bar0'
        BY <2>1, <3>1, <3>3 DEF DeviceTypeOK
      <3> QED
        BY <3>2, <3>3
    <2>5. DeviceTypeOK'
      BY <1>10, <2>2, <2>4 DEF OpClaim, DeviceTypeOK, memvars, limvars
    <2> QED
      BY <2>3, <2>5
  <1>11. CASE OpShift(c)
    <2> DEFINE ok == initialized /\ bar1
    <2>1. Return(c, ok) /\ win' = IF ok THEN Align(Pkt(c).src) ELSE win
      BY <1>11 DEF OpShift
    <2>2. ok \in BOOLEAN
      OBVIOUS
    <2>3. Moves(c)
      BY <1>5, <2>1, <2>2
    <2>4. win' \in Nat
      <3>1. ok => bars \in Bars /\ bars.bar1.len # 0
        BY DEF DeviceTypeOK
      <3> QED
        BY <1>3, <2>1, <3>1, AlignNat DEF DeviceTypeOK
    <2>5. DeviceTypeOK'
      BY <1>11, <2>4 DEF OpShift, DeviceTypeOK, memvars, limvars, busvars
    <2> QED
      BY <2>3, <2>5
  <1>12. CASE OpSense(c)
    <2>1. Moves(c)
      BY <1>5, <1>12 DEF OpSense
    <2>2. DeviceTypeOK'
      BY <1>12, NumberAssumption
      DEF OpSense, DeviceTypeOK, mapvars, memvars, limvars, busvars
    <2> QED
      BY <2>1, <2>2
  <1>13. CASE OpLimit(c)
    <2>1. Moves(c)
      BY <1>5, <1>13 DEF OpLimit
    <2>2. DeviceTypeOK'
      BY <1>3, <1>13 DEF OpLimit, DeviceTypeOK, mapvars, memvars, busvars
    <2> QED
      BY <2>1, <2>2
  <1>14. CASE OpGuard(c)
    <2>1. Moves(c)
      BY <1>5, <1>14 DEF OpGuard
    <2>2. DeviceTypeOK'
      BY <1>3, <1>14 DEF OpGuard, DeviceTypeOK, mapvars, memvars, busvars
    <2> QED
      BY <2>1, <2>2
  <1>15. CASE OpConfig(c)
    <2>1. CASE Goto(c, "config") /\ f' = f
      BY <1>0, <1>4, <1>6, <1>8, <1>9, <1>15, <2>1 DEF OpConfig
    <2>2. CASE \E ok \in BOOLEAN : Return(c, ok)
      BY <1>4, <1>5, <1>15, <2>2 DEF OpConfig
    <2>3. \A h : (h = "op_occupy") \in BOOLEAN
      OBVIOUS
    <2> QED
      BY <1>15, <2>1, <2>2, <2>3 DEF OpConfig
  <1>16. CASE Config(c)
    <2>1. Return(c, TRUE) => Moves(c)
      BY <1>5
    <2>2. Goto(c, "oops") /\ f' = f => Moves(c)
      BY <1>0, <1>6, <1>8, <1>9
    <2>3. Moves(c)
      BY <1>16, <2>1, <2>2 DEF Config
    <2>4. cmd' \in SUBSET {"MEMORY", "MASTER"} /\ d3' \in BOOLEAN
      BY <1>16 DEF Config, DeviceTypeOK
    <2>5. DeviceTypeOK'
      BY <1>16, <2>4 DEF Config, DeviceTypeOK, mapvars, memvars, limvars
    <2> QED
      BY <2>3, <2>5
  <1>17. CASE OpReadOnly(c)
    <2>1. \E ok \in BOOLEAN : Return(c, ok)
      <3>1. /\ initialized \in BOOLEAN /\ bar0 \in BOOLEAN /\ (Pkt(c).size # 0) \in BOOLEAN
            /\ \A clean \in BOOLEAN : (bar0 /\ clean) \in BOOLEAN
        BY DEF DeviceTypeOK
      <3> QED
        BY <1>17, <3>1 DEF OpReadOnly, OpNoop, OpState, OpPipe, OpEcho, OpAudit
    <2>2. UNCHANGED devvars
      BY <1>17 DEF OpReadOnly, OpNoop, OpState, OpPipe, OpEcho, OpAudit
    <2> QED
      BY <1>4, <1>5, <2>1, <2>2
  <1>18. CASE OpFence(c)
    <2>1. CASE Return(c, FALSE)
      BY <1>4, <1>5, <1>18, <2>1 DEF OpFence
    <2>2. CASE f' = [f EXCEPT ![c].polls = 0] /\ Goto(c, "fence")
      <3> DEFINE g == [f[c] EXCEPT !.polls = 0]
      <3>1. g \in Frame /\ g.i = f[c].i /\ g.mode = f[c].mode /\ f' = [f EXCEPT ![c] = g]
        BY <1>0, <1>7, <2>2 DEF Frame
      <3> QED
        BY <1>4, <1>6, <1>9, <1>18, <2>2, <3>1 DEF OpFence
    <2> QED
      BY <1>18, <2>1, <2>2 DEF OpFence
  <1>19. CASE OpFlow(c)
    <2>1. PICK hot \in BOOLEAN :
            /\ CheckThermal(hot)
            /\ Return(c, FALSE) \/ (f' = [f EXCEPT ![c].off = 0] /\ Goto(c, "dma"))
      BY <1>19 DEF OpFlow
    <2>2. temp' \in Nat
      BY <2>1, ThermalTyped DEF DeviceTypeOK
    <2>3. DeviceTypeOK'
      BY <1>19, <2>2 DEF OpFlow, DeviceTypeOK, mapvars, memvars, limvars, busvars
    <2>4. CASE Return(c, FALSE)
      BY <1>5, <2>3, <2>4
    <2>5. CASE f' = [f EXCEPT ![c].off = 0] /\ Goto(c, "dma")
      <3> DEFINE g == [f[c] EXCEPT !.off = 0]
      <3>1. g \in Frame /\ g.i = f[c].i /\ g.mode = f[c].mode /\ f' = [f EXCEPT ![c] = g]
        BY <1>0, <1>7, <2>5 DEF Frame
      <3> QED
        BY <1>6, <1>9, <2>3, <2>5, <3>1
    <2> QED
      BY <2>1, <2>4, <2>5
  <1>20. CASE OpSlice(c)
    <2> DEFINE g == [f[c] EXCEPT !.drop = 0]
    <2>1. g \in Frame /\ g.i = f[c].i /\ g.mode = f[c].mode /\ f' = [f EXCEPT ![c] = g]
      BY <1>0, <1>7, <1>20 DEF Frame, OpSlice
    <2> QED
      BY <1>4, <1>6, <1>9, <1>20, <2>1 DEF OpSlice
  <1> QED
    BY <1>10, <1>11, <1>12, <1>13, <1>14, <1>15, <1>16, <1>17, <1>18, <1>19, <1>20 DEF OpStep

LEMMA DmaMoves ==
  ASSUME IInv, NEW c \in Clients, DmaStep(c)
  PROVE  Moves(c) /\ DeviceTypeOK'
  <1> USE DEF IInv, TypeOK
  <1>0. Local(c) /\ f[c] \in Frame /\ f[c].polls \in Nat /\ f[c].drop \in Nat
        /\ f[c].off \in Nat
    BY FrameTyped
  <1>1. pc[c] \in {"fence", "slice", "dma", "copy", "signal"}
    BY DEF DmaStep, FencePoll, FenceTimeout, SliceDrop, SliceEnd, DmaChunk, DmaDone,
           DmaCopy, Signal
  <1>2. pc[c] \in InHandler /\ pc[c] \in InPacket
    BY <1>1 DEF InHandler, InPacket
  <1>3. /\ Pkt(c).src \in Nat /\ Pkt(c).dst \in Nat
        /\ Pkt(c).size \in Nat /\ Pkt(c).vessel \in Nat
    BY <1>0, <1>2, PktTyped DEF Local
  <1>4. UNCHANGED devvars => DeviceTypeOK'
    BY DEF DeviceTypeOK, devvars, mapvars, memvars, limvars, busvars
  <1>5. ASSUME NEW ok \in BOOLEAN, Return(c, ok)
        PROVE  Moves(c)
    BY <1>2, <1>5, ReturnMoves
  \* The transfer goes on at another point, with counters set.
  <1>6. ASSUME NEW p \in InHandler \ {"fwd", "fin", "azoth"}, Goto(c, p), NEW g \in Frame,
               f' = [f EXCEPT ![c] = g], g.i = f[c].i, g.mode = f[c].mode
        PROVE  Moves(c)
    <2>1. g.i \in 1 .. Len(IF g.mode = "azoth" THEN req[c].azoth ELSE req[c].pkts)
      BY <1>0, <1>2, <1>6 DEF Local, Batch
    <2> QED
      BY <1>2, <1>6, <2>1, GotoMoves
  <1>7. f' = f => f' = [f EXCEPT ![c] = f[c]]
    BY DEF CallTypeOK
  <1>8. {"oops", "dma", "slice", "copy", "signal"} \subseteq InHandler \ {"fwd", "fin", "azoth"}
    BY DEF InHandler
  <1>9. ASSUME NEW p \in {"oops", "dma", "slice", "copy", "signal"}, Goto(c, p), f' = f
        PROVE  Moves(c)
    BY <1>0, <1>6, <1>7, <1>8, <1>9
  <1>10. /\ [f[c] EXCEPT !.polls = f[c].polls + 1] \in Frame
         /\ [f[c] EXCEPT !.off = 0] \in Frame /\ [f[c] EXCEPT !.off = f[c].off + 1] \in Frame
         /\ [f[c] EXCEPT !.drop = f[c].drop + 1] \in Frame
    <2>1. f[c].polls + 1 \in Nat /\ f[c].off + 1 \in Nat /\ f[c].drop + 1 \in Nat /\ 0 \in Nat
      BY <1>0
    <2> QED
      BY <1>0, <2>1, FrameCounted
  <1>11. DmaReturn(c, TRUE) \/ DmaReturn(c, FALSE) => Moves(c)
    <2>1. CASE f' = [f EXCEPT ![c].drop = @ + 1] /\ Goto(c, "slice")
      <3> DEFINE g == [f[c] EXCEPT !.drop = f[c].drop + 1]
      <3>1. g \in Frame /\ g.i = f[c].i /\ g.mode = f[c].mode /\ f' = [f EXCEPT ![c] = g]
        BY <1>0, <1>10, <2>1 DEF Frame
      <3> QED
        BY <1>6, <1>8, <2>1, <3>1
    <2>2. CASE f' = f /\ Goto(c, "signal")
      BY <1>9, <2>2
    <2>3. CASE Return(c, FALSE)
      BY <1>5, <2>3
    <2> QED
      BY <2>1, <2>2, <2>3 DEF DmaReturn
  <1>12. bars.bar1.len # 0 => \A v \in Nat : Align(v) \in Nat
    BY AlignNat DEF DeviceTypeOK
  <1>13. CASE FencePoll(c)
    <2>1. temp' \in Nat
      BY <1>13, ThermalTyped DEF FencePoll, DeviceTypeOK
    <2>2. DeviceTypeOK'
      BY <1>13, <2>1 DEF FencePoll, DeviceTypeOK, mapvars, memvars, limvars, busvars
    <2>3. Return(c, TRUE) \/ Return(c, FALSE) => Moves(c)
      BY <1>5
    <2>4. f' = [f EXCEPT ![c].polls = @ + 1] /\ UNCHANGED <<lock, pc, req, ans>> => Moves(c)
      <3> DEFINE g == [f[c] EXCEPT !.polls = f[c].polls + 1]
      <3>1. g \in Frame /\ g.i = f[c].i /\ g.mode = f[c].mode
        BY <1>0, <1>10 DEF Frame
      <3> QED
        BY <1>0, <1>2, <3>1, StayMoves
    <2> QED
      BY <1>13, <2>2, <2>3, <2>4 DEF FencePoll
  <1>14. CASE FenceTimeout(c)
    BY <1>4, <1>5, <1>14 DEF FenceTimeout
  <1>15. CASE SliceDrop(c)
    <2>1. win' \in Nat
      <3>1. SliceChunk(Pkt(c)) \in Nat
        BY <1>3, NumberAssumption DEF SliceChunk
      <3>2. f[c].drop * SliceChunk(Pkt(c)) \in Nat
        BY <1>0, <3>1
      <3> QED
        BY <1>12, <1>15, <3>2 DEF SliceDrop, DeviceTypeOK
    <2>2. DeviceTypeOK'
      BY <1>15, <2>1 DEF SliceDrop, DeviceTypeOK, memvars, limvars, busvars
    <2>3. f' = [f EXCEPT ![c].off = 0] /\ Goto(c, "dma") => Moves(c)
      <3> DEFINE g == [f[c] EXCEPT !.off = 0]
      <3>1. g \in Frame /\ g.i = f[c].i /\ g.mode = f[c].mode
        BY <1>0, <1>10 DEF Frame
      <3> QED
        BY <1>6, <1>8, <3>1
    <2>4. f' = [f EXCEPT ![c].drop = @ + 1] /\ UNCHANGED <<lock, pc, req, ans>> => Moves(c)
      <3> DEFINE g == [f[c] EXCEPT !.drop = f[c].drop + 1]
      <3>1. g \in Frame /\ g.i = f[c].i /\ g.mode = f[c].mode
        BY <1>0, <1>10 DEF Frame
      <3> QED
        BY <1>0, <1>2, <3>1, StayMoves
    <2> QED
      BY <1>15, <2>2, <2>3, <2>4 DEF SliceDrop
  <1>16. CASE SliceEnd(c)
    BY <1>4, <1>9, <1>16 DEF SliceEnd
  <1>17. CASE DmaChunk(c)
    <2>1. PICK hot \in BOOLEAN :
            /\ CheckThermal(hot)
            /\ DmaReturn(c, FALSE) \/ (f' = f /\ Goto(c, "copy"))
      BY <1>17 DEF DmaChunk
    <2>2. temp' \in Nat
      BY <2>1, ThermalTyped DEF DeviceTypeOK
    <2>3. DeviceTypeOK'
      BY <1>17, <2>2 DEF DmaChunk, DeviceTypeOK, mapvars, memvars, limvars, busvars
    <2>4. Moves(c)
      BY <1>9, <1>11, <2>1
    <2> QED
      BY <2>3, <2>4
  <1>18. CASE DmaDone(c)
    BY <1>4, <1>11, <1>18 DEF DmaDone
  <1>19. CASE DmaCopy(c)
    <2>1. \A a, o, w \in Nat : /\ Touch(FromBar1(a), a, o, w) \in Nat
                              /\ Touch(ToBar1(a), a, o, w) \in Nat
      <3> SUFFICES ASSUME NEW a \in Nat, NEW o \in Nat, NEW w \in Nat
                   PROVE  /\ Touch(FromBar1(a), a, o, w) \in Nat
                          /\ Touch(ToBar1(a), a, o, w) \in Nat
        OBVIOUS
      <3>1. Inside(a, bars.bar1) => bars.bar1.len # 0 /\ VramAt(a, o, w) \in Nat
        BY DEF Inside, VramAt, DeviceTypeOK, Bars, BarRange
      <3> QED
        BY <1>12, <3>1 DEF Touch, FromBar1, ToBar1
    <2>2. XferSrc(c) \in Nat /\ XferDst(c) \in Nat
      <3>1. SliceChunk(Pkt(c)) \in Nat
        BY <1>3, NumberAssumption DEF SliceChunk
      <3>2. f[c].drop * SliceChunk(Pkt(c)) \in Nat
        BY <1>0, <3>1
      <3> QED
        BY <1>3, <3>2 DEF XferSrc, XferDst
    <2>3. win' \in Nat
      <3>1. WinRead(c) \in Nat
        BY <1>0, <2>1, <2>2 DEF WinRead, DeviceTypeOK
      <3>2. Touch(ToBar1(XferDst(c)), XferDst(c), f[c].off, WinRead(c)) \in Nat
        BY <1>0, <2>1, <2>2, <3>1
      <3> QED
        BY <1>19, <3>2 DEF DmaCopy, DeviceTypeOK
    <2>4. DeviceTypeOK'
      BY <1>19, <2>3 DEF DmaCopy, DeviceTypeOK, memvars, limvars, busvars
    <2>5. f' = [f EXCEPT ![c].off = @ + 1] /\ Goto(c, "dma") => Moves(c)
      <3> DEFINE g == [f[c] EXCEPT !.off = f[c].off + 1]
      <3>1. g \in Frame /\ g.i = f[c].i /\ g.mode = f[c].mode
        BY <1>0, <1>10 DEF Frame
      <3> QED
        BY <1>6, <1>8, <3>1
    <2>6. f' = f /\ Goto(c, "oops") => Moves(c)
      BY <1>9
    <2> QED
      BY <1>19, <2>4, <2>5, <2>6 DEF DmaCopy
  <1>20. CASE Signal(c)
    <2>1. Moves(c)
      BY <1>5, <1>20 DEF Signal
    <2>2. DeviceTypeOK'
      BY <1>3, <1>20 DEF Signal, DeviceTypeOK, mapvars, memvars, limvars, busvars
    <2> QED
      BY <2>1, <2>2
  <1> QED
    BY <1>13, <1>14, <1>15, <1>16, <1>17, <1>18, <1>19, <1>20 DEF DmaStep

LEMMA HandlerMoves ==
  ASSUME IInv, NEW c \in Clients, HandlerStep(c)
  PROVE  Moves(c) /\ DeviceTypeOK'
  BY IoctlMoves, LoopMoves, OpMoves, DmaMoves DEF HandlerStep

\* probe and remove touch neither the calls nor the limits.
LEMMA BusTyped ==
  ASSUME DeviceTypeOK, BusStep
  PROVE  DeviceTypeOK' /\ UNCHANGED <<callvars, limvars, temp>>
  <1> USE DEF DeviceTypeOK, callvars, mapvars, memvars, limvars, ProbeFails
  <1>1. CASE ProbeDevice
    BY <1>1, BarsAssumption DEF ProbeDevice
  <1>2. CASE ProbeBuffer
    BY <1>2 DEF ProbeBuffer
  <1>3. CASE ProbePage
    BY <1>3 DEF ProbePage
  <1>4. CASE ProbeDone
    BY <1>4 DEF ProbeDone
  <1>5. CASE RemovePage
    BY <1>5 DEF RemovePage
  <1>6. CASE RemoveBuffer
    BY <1>6 DEF RemoveBuffer
  <1>7. CASE RemoveDevice
    BY <1>7 DEF RemoveDevice
  <1>8. CASE RemoveDone
    BY <1>8 DEF RemoveDone
  <1> QED
    BY <1>1, <1>2, <1>3, <1>4, <1>5, <1>6, <1>7, <1>8 DEF BusStep

-----------------------------------------------------------------------------
(* The invariant. *)

LEMMA InitInv == Init => IInv
  <1> SUFFICES ASSUME Init PROVE IInv
    OBVIOUS
  <1>1. CallTypeOK
    BY RequestsAssumption, Frame0Typed
    DEF Init, CallTypeOK, Points, Answer, NoAnswer
  <1>2. DeviceTypeOK
    BY DEF Init, DeviceTypeOK, Bars, BarRange
  <1>3. LockHeld
    BY ClientsAssumption DEF Init, LockHeld, InHandler
  <1>4. \A c \in Clients : Local(c)
    BY DEF Init, Local, InPacket
  <1> QED
    BY <1>1, <1>2, <1>3, <1>4 DEF IInv, TypeOK

\* A handler step keeps the types of the calls, the mutex and every client's place.
LEMMA MovesInv ==
  ASSUME IInv, NEW c \in Clients, Moves(c)
  PROVE  CallTypeOK' /\ LockHeld' /\ \A d \in Clients : Local(d)'
  <1> USE DEF IInv, TypeOK
  <1>1. PICK g \in Frame : f' = [f EXCEPT ![c] = g]
    BY DEF Moves
  <1>2. req' = req /\ pc[c] \in InHandler /\ lock = c
    BY DEF Moves, LockHeld
  <1>3. /\ lock' \in Clients \cup {NoClient} /\ pc' \in [Clients -> Points]
        /\ ans' \in [Clients -> Answer]
    BY DEF Moves, CallTypeOK, Points
  <1>4. CallTypeOK'
    BY <1>1, <1>2, <1>3 DEF CallTypeOK
  <1>5. LockHeld'
    <2>1. CASE lock' = lock /\ \E p \in InHandler : pc' = [pc EXCEPT ![c] = p]
      BY <1>2, <2>1 DEF LockHeld, CallTypeOK
    <2>2. CASE lock' = NoClient /\ pc' = [pc EXCEPT ![c] = "idle"]
      BY <1>2, <2>2, ClientsAssumption DEF LockHeld, CallTypeOK, InHandler
    <2> QED
      BY <2>1, <2>2 DEF Moves
  <1>6. ASSUME NEW d \in Clients
        PROVE  Local(d)'
    <2>1. CASE d = c
      BY <2>1 DEF Moves
    <2>2. CASE d # c
      <3>1. pc'[d] = pc[d] /\ f'[d] = f[d]
        BY <1>1, <2>2 DEF Moves, CallTypeOK
      <3> QED
        BY <1>2, <3>1 DEF Local, Batch
    <2> QED
      BY <2>1, <2>2
  <1> QED
    BY <1>4, <1>5, <1>6

LEMMA NextInv == IInv /\ [Next]_vars => IInv'
  <1> SUFFICES ASSUME IInv, [Next]_vars PROVE IInv'
    OBVIOUS
  <1> USE DEF IInv, TypeOK
  <1>0. UNCHANGED devvars => DeviceTypeOK'
    BY DEF DeviceTypeOK, devvars, mapvars, memvars, limvars, busvars
  <1>1. UNCHANGED callvars => CallTypeOK' /\ LockHeld' /\ \A d \in Clients : Local(d)'
    BY DEF callvars, CallTypeOK, LockHeld, Local, Batch
  <1>2. ASSUME NEW c \in Clients, NEW r \in Requests, Call(c, r)
        PROVE  IInv'
    <2>1. /\ pc[c] = "idle" /\ pc' = [pc EXCEPT ![c] = "wait"]
          /\ req' = [req EXCEPT ![c] = r] /\ ans' = [ans EXCEPT ![c] = NoAnswer]
          /\ lock' = lock /\ f' = f /\ UNCHANGED devvars
      BY <1>2 DEF Call
    <2>2. CallTypeOK'
      BY <2>1 DEF CallTypeOK, Points, NoAnswer, Answer
    <2>3. LockHeld'
      BY <2>1 DEF LockHeld, CallTypeOK, InHandler
    <2>4. ASSUME NEW d \in Clients
          PROVE  Local(d)'
      <3>1. CASE d = c
        BY <2>1, <3>1 DEF Local, CallTypeOK, InPacket
      <3>2. CASE d # c
        BY <2>1, <3>2 DEF Local, CallTypeOK, Batch
      <3> QED
        BY <3>1, <3>2
    <2> QED
      BY <1>0, <2>1, <2>2, <2>3, <2>4
  <1>3. ASSUME NEW c \in Clients, Acquire(c)
        PROVE  IInv'
    <2>1. /\ pc[c] = "wait" /\ lock = NoClient /\ lock' = c
          /\ pc' = [pc EXCEPT ![c] = "ioctl"] /\ UNCHANGED <<req, f, ans, devvars>>
      BY <1>3 DEF Acquire
    <2>2. CallTypeOK'
      BY <2>1 DEF CallTypeOK, Points, InHandler
    <2>3. LockHeld'
      BY <2>1, ClientsAssumption DEF LockHeld, CallTypeOK, InHandler
    <2>4. \A d \in Clients : Local(d)'
      BY <2>1 DEF Local, CallTypeOK, Batch, InPacket
    <2> QED
      BY <1>0, <2>1, <2>2, <2>3, <2>4
  <1>4. ASSUME NEW c \in Clients, HandlerStep(c)
        PROVE  IInv'
    <2>1. Moves(c) /\ DeviceTypeOK'
      BY <1>4, HandlerMoves
    <2> QED
      BY <2>1, MovesInv
  <1>5. CASE BusStep
    BY <1>1, <1>5, BusTyped
  <1>6. CASE UNCHANGED vars
    BY <1>0, <1>1, <1>6 DEF vars
  <1> QED
    BY <1>2, <1>3, <1>4, <1>5, <1>6 DEF Next

LEMMA Invariance == Spec => []IInv
  BY InitInv, NextInv, PTL DEF Spec

\* Every variable keeps its type: the driver's state is always one that TypeOK
\* describes, whatever the clients ask for.
THEOREM TypeCorrect == Spec => []TypeOK
  <1>1. IInv => TypeOK
    BY DEF IInv
  <1> QED
    BY <1>1, Invariance, PTL

\* The mutex of vitriol_ioctl is held by the one client inside a handler, so no
\* two handlers interleave.
THEOREM MutualExclusion == Spec => []LockHeld
  <1>1. IInv => LockHeld
    BY DEF IInv
  <1> QED
    BY <1>1, Invariance, PTL

\* What EXECUTE walks has the packet size it asks for.
Sized(c) == pc[c] \in InHandler \ {"ioctl"} => req[c].cmd # "EXECUTE" \/ req[c].psize >= DropSize

LEMMA IoctlSized ==
  ASSUME IInv, NEW c \in Clients, HandlerStep(c), pc[c] = "ioctl"
  PROVE  Sized(c)'
  <1>0. pc \in [Clients -> Points]
    BY DEF IInv, TypeOK, CallTypeOK
  <1>1. IoctlStep(c)
    BY DEF HandlerStep, LoopStep, OpStep, DmaStep, CrcFail, SkipPacket, Dispatch, EndOfBatch, AtPacket,
           ExecuteReturn, StartRollback, RollbackStep, RollbackEnd, Running, OpClaim, OpShift, OpSense,
           OpLimit, OpGuard, OpConfig, Config, OpReadOnly, OpNoop, OpState, OpPipe, OpEcho, OpAudit,
           OpFence, OpFlow, OpSlice, FencePoll, FenceTimeout, SliceDrop, SliceEnd, DmaChunk, DmaDone,
           DmaCopy, Signal
  <1>2. CASE \E a : Finish(c, a)
    BY <1>0, <1>2 DEF Finish, Sized, InHandler
  <1>3. CASE Execute(c)
    <2>1. CASE Malformed(req[c])
      BY <1>2, <1>3, <2>1 DEF Execute
    <2>2. CASE ~Malformed(req[c])
      <3>1. req' = req
        BY <1>3, <2>2 DEF Execute
      <3>2. req[c].cmd = "EXECUTE" => ~(req[c].psize < DropSize)
        BY <2>2 DEF Malformed
      <3>3. req[c].psize \in Nat
        BY RequestTyped DEF IInv, TypeOK, CallTypeOK
      <3> QED
        BY <3>1, <3>2, <3>3 DEF Sized, DropSize
    <2> QED
      BY <2>1, <2>2
  <1> QED
    BY <1>1, <1>2, <1>3
    DEF IoctlStep, LoadVial, SetSafety, ReadThermal, GetState, OtherIoctl, ArgumentFault

LEMMA SizedNext ==
  ASSUME IInv, [Next]_vars, \A c \in Clients : Sized(c)
  PROVE  \A c \in Clients : Sized(c)'
  <1> USE DEF Sized
  <1>0. pc \in [Clients -> Points] /\ req \in [Clients -> Requests]
    BY DEF IInv, TypeOK, CallTypeOK
  <1>1. ASSUME NEW c \in Clients, NEW r \in Requests, Call(c, r)
        PROVE  \A d \in Clients : Sized(d)'
    BY <1>0, <1>1 DEF Call, InHandler
  <1>2. ASSUME NEW c \in Clients, Acquire(c)
        PROVE  \A d \in Clients : Sized(d)'
    BY <1>0, <1>2 DEF Acquire
  <1>3. ASSUME NEW c \in Clients, HandlerStep(c), NEW d \in Clients
        PROVE  Sized(d)'
    <2>1. Moves(c)
      BY <1>3, HandlerMoves
    <2>2. req' = req /\ (d # c => pc'[d] = pc[d]) /\ pc[c] \in InHandler
      BY <1>0, <2>1 DEF Moves
    <2>3. CASE pc[c] = "ioctl" /\ d = c
      BY <1>3, <2>3, IoctlSized
    <2> QED
      BY <2>2, <2>3
  <1>4. CASE BusStep
    <2>1. UNCHANGED callvars
      BY <1>4, BusTyped DEF IInv, TypeOK
    <2> QED
      BY <2>1 DEF callvars
  <1>5. CASE UNCHANGED vars
    BY <1>5 DEF vars, callvars
  <1> QED
    BY <1>1, <1>2, <1>3, <1>4, <1>5 DEF Next

\* No handler is given a packet that is not within the memory allocated for its
\* batch, in a forward run or in a rollback, for batches of any length: always
\* in EXECUTE, and in EXECUTE_SAFE for packet sizes of DropSize and more.
THEOREM NoOverrun == Spec => []InsideBatch
  <1>1. Init => \A c \in Clients : Sized(c)
    BY DEF Init, Sized, InHandler
  <1>2. IInv /\ (\A c \in Clients : Sized(c)) => InsideBatch
    <2> SUFFICES ASSUME IInv, \A c \in Clients : Sized(c), NEW c \in Clients, pc[c] \in InPacket,
                        req[c].cmd = "EXECUTE" \/ req[c].psize >= DropSize
                 PROVE  f[c].i >= 1 /\ f[c].i * DropSize <= Len(Batch(c)) * req[c].psize
      BY DEF InsideBatch
    <2>1. req[c].psize \in Nat /\ req[c].pkts \in Seq(Packet) /\ req[c].azoth \in Seq(Packet)
      BY RequestTyped DEF IInv, TypeOK, CallTypeOK
    <2>2. req[c].psize >= DropSize
      BY DEF Sized, InPacket, InHandler
    <2>3. f[c].i \in 1 .. Len(Batch(c)) /\ Len(Batch(c)) \in Nat
      BY <2>1 DEF IInv, Local, Batch
    <2>4. \A i, n, p \in Nat : i <= n /\ DropSize <= p => i * DropSize <= n * p
      <3> SUFFICES ASSUME NEW i \in Nat, NEW n \in Nat, NEW p \in Nat, i <= n, DropSize <= p
                   PROVE  i * DropSize <= n * p
        OBVIOUS
      <3>1. PICK k \in Nat : p = DropSize + k
        BY DEF DropSize
      <3>2. n * p = n * DropSize + n * k /\ n * k \in Nat
        BY <3>1 DEF DropSize
      <3> QED
        BY <3>2 DEF DropSize
    <2> QED
      BY <2>1, <2>2, <2>3, <2>4
  <1>3. IInv /\ (\A c \in Clients : Sized(c)) /\ [Next]_vars => (\A c \in Clients : Sized(c))'
    BY SizedNext
  <1> QED
    BY <1>1, <1>2, <1>3, Invariance, PTL DEF Spec

-----------------------------------------------------------------------------
(* What only the owner of the mutex can do. *)

LEMMA OnlyOwner ==
  ASSUME IInv, NEW c \in Clients, pc[c] \in InHandler, NEW d \in Clients, HandlerStep(d)
  PROVE  d = c
  BY HandlerMoves DEF IInv, Moves, LockHeld

\* A copy is reached from the thermal check of its chunk, and from nowhere else.
LEMMA CopyAfterCheck ==
  ASSUME IInv, NEW c \in Clients, HandlerStep(c), pc'[c] = "copy"
  PROVE  DmaChunk(c) /\ CheckThermal(FALSE)
  <1> USE DEF IInv, TypeOK, CallTypeOK
  <1>1. ~IoctlStep(c)
    BY DEF IoctlStep, LoadVial, SetSafety, ReadThermal, GetState, OtherIoctl, ArgumentFault,
           Execute, Finish
  <1>2. ~LoopStep(c)
    BY DEF LoopStep, CrcFail, SkipPacket, Dispatch, EndOfBatch, ExecuteReturn, StartRollback,
           RollbackStep, RollbackEnd, Finish, Goto, Break, AtPacket
  <1>3. \A ok : Return(c, ok) => pc'[c] # "copy"
    BY DEF Return, Goto, Break
  <1>4. ~OpStep(c)
    BY <1>3 DEF OpStep, Running, OpClaim, OpShift, OpSense, OpLimit, OpGuard, OpConfig, Config,
                OpReadOnly, OpNoop, OpState, OpPipe, OpEcho, OpAudit, OpFence, OpFlow, OpSlice, Goto
  <1>5. \A ok : DmaReturn(c, ok) => pc'[c] # "copy"
    BY <1>3 DEF DmaReturn, Goto
  <1>6. DmaStep(c) => DmaChunk(c)
    BY <1>3, <1>5 DEF DmaStep, FencePoll, FenceTimeout, SliceDrop, SliceEnd, DmaDone, DmaCopy,
                Signal, Goto
  <1>7. DmaChunk(c)
    BY <1>1, <1>2, <1>4, <1>6 DEF HandlerStep
  <1>8. PICK hot \in BOOLEAN : CheckThermal(hot) /\ (hot => DmaReturn(c, FALSE))
    BY <1>7 DEF DmaChunk
  <1>9. hot = FALSE
    BY <1>5, <1>8
  <1> QED
    BY <1>7, <1>8, <1>9

\* The safety level, the limits and the temperature change only under the mutex.
LEMMA LimitsUnderMutex ==
  ASSUME IInv, [Next]_vars, ~\E c \in Clients : HandlerStep(c)
  PROVE  UNCHANGED <<safety, halt, throttle, temp, metaval>> \/ BusStep
  BY DEF Next, Call, Acquire, vars, devvars, limvars

\* The temperature on record is below the limit in force whenever a bounce
\* buffer copy is about to start (vitriol_dma_transfer).
THEOREM CopiesAreCool == Spec => []CoolCopy
  <1>1. Init => CoolCopy
    BY DEF Init, CoolCopy
  <1>2. IInv /\ CoolCopy /\ [Next]_vars => CoolCopy'
    <2> SUFFICES ASSUME IInv, CoolCopy, [Next]_vars, NEW c \in Clients, pc'[c] = "copy"
                 PROVE  (safety = 0 \/ halt = 0 \/ temp < halt)'
      BY DEF CoolCopy
    <2> USE DEF IInv, TypeOK
    <2>1. CASE \E d \in Clients : HandlerStep(d)
      <3>1. PICK d \in Clients : HandlerStep(d)
        BY <2>1
      <3>2. Moves(d)
        BY <3>1, HandlerMoves
      <3>3. d = c
        <4>1. d # c => pc'[c] = pc[c]
          BY <3>2 DEF Moves, CallTypeOK
        <4>2. "copy" \in InHandler
          BY DEF InHandler
        <4> QED
          BY <3>1, <4>1, <4>2, OnlyOwner
      <3>4. DmaChunk(c) /\ CheckThermal(FALSE)
        BY <3>1, <3>3, CopyAfterCheck
      <3>5. UNCHANGED limvars
        BY <3>4 DEF DmaChunk
      <3> QED
        BY <3>4, <3>5, NumberAssumption DEF CheckThermal, limvars, DeviceTypeOK
    <2>2. CASE ~\E d \in Clients : HandlerStep(d)
      <3>1. UNCHANGED <<safety, halt, temp>>
        BY <2>2, LimitsUnderMutex, BusTyped DEF limvars
      <3>2. pc[c] = "copy"
        <4>1. CASE UNCHANGED pc
          BY <4>1
        <4>2. CASE \E d \in Clients : Acquire(d) \/ \E r \in Requests : Call(d, r)
          BY <4>2 DEF Acquire, Call, CallTypeOK
        <4> QED
          BY <2>2, <4>1, <4>2, BusTyped DEF Next, vars, callvars
      <3> QED
        BY <3>1, <3>2 DEF CoolCopy
    <2> QED
      BY <2>1, <2>2
  <1> QED
    BY <1>1, <1>2, Invariance, PTL DEF Spec

\* Under a FENCE that polls, the fence value changes only when probe resets it:
\* no packet of another client can signal it (op_fence under the mutex).
THEOREM FenceKeepsSignalsOut == Spec => FenceWokenByProbeOnly
  <1> DEFINE Fencing == \E c \in Clients : pc[c] = "fence"
             Woken   == Fencing /\ metaval' # metaval => drv = "page" /\ drv' = "bound"
  <1>1. IInv /\ [Next]_vars => [Woken]_vars
    <2> SUFFICES ASSUME IInv, [Next]_vars, NEW c \in Clients, pc[c] = "fence",
                        metaval' # metaval
                 PROVE  drv = "page" /\ drv' = "bound"
      OBVIOUS
    <2>1. CASE \E d \in Clients : HandlerStep(d)
      <3>1. HandlerStep(c)
        <4>1. "fence" \in InHandler
          BY DEF InHandler
        <4> QED
          BY <2>1, <4>1, OnlyOwner
      <3>2. FencePoll(c) \/ FenceTimeout(c)
        BY <3>1 DEF HandlerStep, IoctlStep, LoadVial, SetSafety, ReadThermal, GetState,
          OtherIoctl, ArgumentFault, Execute, LoopStep, CrcFail, SkipPacket, Dispatch,
          EndOfBatch, ExecuteReturn, StartRollback, RollbackStep, RollbackEnd, AtPacket,
          OpStep, Running, OpClaim, OpShift, OpSense, OpLimit, OpGuard, OpConfig, Config,
          OpReadOnly, OpNoop, OpState, OpPipe, OpEcho, OpAudit, OpFence, OpFlow, OpSlice,
          DmaStep, SliceDrop, SliceEnd, DmaChunk,
          DmaDone, DmaCopy, Signal
      <3> QED
        BY <3>2 DEF FencePoll, FenceTimeout, devvars
    <2>2. CASE ~\E d \in Clients : HandlerStep(d)
      <3>1. BusStep
        BY <2>2, LimitsUnderMutex
      <3> QED
        BY <3>1 DEF BusStep, ProbeDevice, ProbeBuffer, ProbePage, ProbeDone, RemovePage,
                    RemoveBuffer, RemoveDevice, RemoveDone
    <2> QED
      BY <2>1, <2>2
  <1> QED
    BY <1>1, Invariance, PTL DEF Spec, FenceWokenByProbeOnly

-----------------------------------------------------------------------------
(* probe, remove and CLAIM. *)

\* Handlers write neither the pages nor the state of the driver core.
LEMMA HandlersKeepPages ==
  ASSUME NEW c \in Clients, HandlerStep(c)
  PROVE  UNCHANGED <<memvars, drv>>
  BY DEF HandlerStep, IoctlStep, LoadVial, SetSafety, ReadThermal, GetState,
     OtherIoctl, ArgumentFault, Execute, LoopStep, CrcFail, SkipPacket, Dispatch,
     EndOfBatch, ExecuteReturn, StartRollback, RollbackStep, RollbackEnd,
     OpStep, OpClaim, OpShift, OpSense, OpLimit, OpGuard, OpConfig, Config,
     OpReadOnly, OpNoop, OpState, OpPipe, OpEcho, OpAudit,
     OpFence, OpFlow, OpSlice, DmaStep, FencePoll, FenceTimeout, SliceDrop, SliceEnd,
     DmaChunk, DmaDone, DmaCopy, Signal, devvars, memvars, busvars

\* While the driver is bound its two pages are live, and remove never frees
\* the metapage twice, whatever mix of failing and succeeding probes came first.
THEOREM PagesOfABoundDriver == Spec => []BoundHasPages
  <1>1. Init => BoundHasPages
    BY DEF Init, BoundHasPages
  <1>2. BoundHasPages /\ [Next]_vars => BoundHasPages'
    <2> SUFFICES ASSUME BoundHasPages, [Next]_vars PROVE BoundHasPages'
      OBVIOUS
    <2>1. CASE BusStep
      <3> USE DEF BoundHasPages, ProbeFails, memvars
      <3>1. CASE ProbeDevice
        BY <3>1 DEF ProbeDevice
      <3>2. CASE ProbeBuffer
        BY <3>2 DEF ProbeBuffer
      <3>3. CASE ProbePage
        BY <3>3 DEF ProbePage
      <3>4. CASE ProbeDone
        BY <3>4 DEF ProbeDone
      <3>5. CASE RemovePage
        BY <3>5 DEF RemovePage
      <3>6. CASE RemoveBuffer
        BY <3>6 DEF RemoveBuffer
      <3>7. CASE RemoveDevice
        BY <3>7 DEF RemoveDevice
      <3>8. CASE RemoveDone
        BY <3>8 DEF RemoveDone
      <3> QED
        BY <2>1, <3>1, <3>2, <3>3, <3>4, <3>5, <3>6, <3>7, <3>8 DEF BusStep
    <2>2. CASE ~BusStep
      <3>1. UNCHANGED <<memvars, drv>>
        BY <2>2, HandlersKeepPages
        DEF Next, Call, Acquire, vars, devvars, memvars, busvars
      <3> QED
        BY <3>1 DEF memvars, BoundHasPages
    <2> QED
      BY <2>1, <2>2
  <1> QED
    BY <1>1, <1>2, PTL DEF Spec

\* A device that counts as claimed has its control registers mapped (op_claim).
THEOREM ClaimedIsMapped == Spec => []InitializedMapped
  <1>1. Init => InitializedMapped
    BY DEF Init, InitializedMapped
  <1>2. InitializedMapped /\ [Next]_vars => InitializedMapped'
    <2> SUFFICES ASSUME InitializedMapped, [Next]_vars, initialized' PROVE bar0'
      BY DEF InitializedMapped
    <2>1. CASE \E c \in Clients : OpClaim(c)
      <3>1. PICK c \in Clients : OpClaim(c)
        BY <2>1
      <3>2. CASE bar0'
        BY <3>2
      <3>3. CASE ~bar0'
        <4>1. initialized' = initialized /\ (bar0 => bar0')
          BY <3>1, <3>3 DEF OpClaim
        <4> QED
          BY <3>3, <4>1 DEF InitializedMapped
      <3> QED
        BY <3>2, <3>3
    <2>2. ASSUME NEW c \in Clients, HandlerStep(c), ~OpClaim(c)
          PROVE  UNCHANGED <<bar0, initialized>>
      BY <2>2 DEF HandlerStep, IoctlStep, LoadVial, SetSafety, ReadThermal, GetState,
         OtherIoctl, ArgumentFault, Execute, LoopStep, CrcFail, SkipPacket, Dispatch,
         EndOfBatch, ExecuteReturn, StartRollback, RollbackStep, RollbackEnd,
         OpStep, OpShift, OpSense, OpLimit, OpGuard, OpConfig, Config,
     OpReadOnly, OpNoop, OpState, OpPipe, OpEcho, OpAudit,
         OpFence, OpFlow, OpSlice, DmaStep, FencePoll, FenceTimeout, SliceDrop, SliceEnd,
         DmaChunk, DmaDone, DmaCopy, Signal, devvars, mapvars
    <2>3. CASE BusStep
      BY <2>3 DEF BusStep, ProbeDevice, ProbeBuffer, ProbePage, ProbeDone, RemovePage,
         RemoveBuffer, RemoveDevice, RemoveDone, mapvars, InitializedMapped
    <2>4. CASE UNCHANGED <<bar0, initialized>>
      BY <2>4 DEF InitializedMapped
    <2> QED
      BY <2>1, <2>2, <2>3, <2>4 DEF Next, Call, Acquire, vars, devvars, mapvars
  <1> QED
    BY <1>1, <1>2, PTL DEF Spec

-----------------------------------------------------------------------------
(* Null pointers. *)

\* What a transfer and a config space write found in place: BAR1 is mapped on a
\* claimed device, and a handler is past its test only if the test succeeded.
Tested(c) ==
  /\ pc[c] \in {"dma", "copy"} => initialized /\ buf # "null"
  /\ pc[c] = "config" => pdev
  /\ pc[c] # "oops"

PointerInv ==
  /\ initialized => bar1
  /\ drv \notin {"unpaged", "unbuffered", "forgotten"}
  /\ "page" \notin Shortages /\ drv \in {"none", "device"} => buf = "null"
  /\ \A c \in Clients : Tested(c)

\* A pointer or a flag that is set stays set.
Stays ==
  /\ initialized => initialized'
  /\ bar1 => bar1'
  /\ pdev => pdev'
  /\ buf # "null" => buf' # "null"

LEMMA HandlersKeepDevice ==
  ASSUME NEW c \in Clients, HandlerStep(c), ~OpClaim(c)
  PROVE  UNCHANGED <<initialized, bar1, pdev>>
  BY DEF HandlerStep, IoctlStep, LoadVial, SetSafety, ReadThermal, GetState,
     OtherIoctl, ArgumentFault, Execute, LoopStep, CrcFail, SkipPacket, Dispatch,
     EndOfBatch, ExecuteReturn, StartRollback, RollbackStep, RollbackEnd,
     OpStep, OpShift, OpSense, OpLimit, OpGuard, OpConfig, Config,
     OpReadOnly, OpNoop, OpState, OpPipe, OpEcho, OpAudit,
     OpFence, OpFlow, OpSlice, DmaStep, FencePoll, FenceTimeout, SliceDrop, SliceEnd,
     DmaChunk, DmaDone, DmaCopy, Signal, devvars, mapvars, busvars

\* Where a packet goes on without a test.
LEMMA ReturnTested ==
  ASSUME CallTypeOK, NEW c \in Clients, NEW ok \in BOOLEAN, Return(c, ok)
  PROVE  pc'[c] \in {"fwd", "fin", "azoth"}
  BY DEF CallTypeOK, Return, Break, Goto

LEMMA GotoThere ==
  ASSUME CallTypeOK, NEW c \in Clients, NEW p, Goto(c, p)
  PROVE  pc'[c] = p
  BY DEF CallTypeOK, Goto

LEMMA DmaReturnTested ==
  ASSUME CallTypeOK, NEW c \in Clients, NEW ok \in BOOLEAN, DmaReturn(c, ok)
  PROVE  pc'[c] \in {"slice", "signal", "fwd", "fin", "azoth"}
  BY GotoThere, ReturnTested DEF DmaReturn

LEMMA HandlerTested ==
  ASSUME IInv, PointerInv, NEW c \in Clients, HandlerStep(c), Stays,
         \A r \in Requests : r.psize # 0
  PROVE  Tested(c)'
  <1> USE DEF IInv, TypeOK
  <1>0. Tested(c)
    BY DEF PointerInv
  <1>1. ASSUME pc'[c] \notin {"dma", "copy", "config", "oops"}
        PROVE  Tested(c)'
    BY <1>1 DEF Tested
  <1>2. CASE IoctlStep(c)
    <2>1. CASE Execute(c)
      BY <1>1, <2>1 DEF Execute, Finish, CallTypeOK
    <2>2. CASE ~Execute(c)
      BY <1>1, <1>2, <2>2 DEF IoctlStep, LoadVial, SetSafety, ReadThermal, GetState, OtherIoctl,
         ArgumentFault, Finish, CallTypeOK
    <2> QED
      BY <2>1, <2>2
  <1>3. CASE LoopStep(c)
    <2>1. \/ pc'[c] \in {"fwd", "fin", "op", "azoth", "idle"}
      BY <1>3 DEF LoopStep, CrcFail, SkipPacket, Dispatch, EndOfBatch, ExecuteReturn,
         StartRollback, RollbackStep, RollbackEnd, AtPacket, Break, Goto, Finish, CallTypeOK
    <2> QED
      BY <1>1, <2>1
  <1>4. CASE OpStep(c)
    <2>1. CASE OpFlow(c)
      <3>1. CASE \E ok \in BOOLEAN : Return(c, ok)
        BY <1>1, <3>1, ReturnTested
      <3>2. CASE DmaReady /\ Goto(c, "dma")
        BY <3>2, GotoThere DEF DmaReady, Tested, Stays
      <3> QED
        BY <2>1, <3>1, <3>2 DEF OpFlow
    <2>2. CASE OpConfig(c)
      <3>1. CASE \E ok \in BOOLEAN : Return(c, ok)
        BY <1>1, <3>1, ReturnTested
      <3>2. CASE pdev /\ Goto(c, "config")
        BY <3>2, GotoThere DEF Tested, Stays
      <3>3. \A h : (h = "op_occupy") \in BOOLEAN
        OBVIOUS
      <3> QED
        BY <2>2, <3>1, <3>2, <3>3 DEF OpConfig
    <2>3. CASE Config(c)
      BY <1>0, <1>1, <2>3, ReturnTested DEF Config, Tested
    <2>4. CASE OpFence(c)
      BY <1>1, <2>4, ReturnTested, GotoThere DEF OpFence
    <2>5. CASE OpSlice(c)
      BY <1>1, <2>5, GotoThere DEF OpSlice
    <2>6. CASE OpClaim(c)
      <3>1. PICK ok0 \in BOOLEAN : Return(c, bar0') /\ bar0' = (bar0 \/ ok0)
        BY <2>6 DEF OpClaim
      <3>2. bar0' \in BOOLEAN
        BY <3>1
      <3> QED
        BY <1>1, <3>1, <3>2, ReturnTested
    <2>7. CASE OpShift(c) \/ OpSense(c) \/ OpLimit(c) \/ OpGuard(c) \/ OpReadOnly(c)
      <3>1. \E ok \in BOOLEAN : Return(c, ok)
        <4>1. /\ (initialized /\ bar1) \in BOOLEAN /\ (Pkt(c).size # 0) \in BOOLEAN
              /\ \A clean \in BOOLEAN : (bar0 /\ clean) \in BOOLEAN
              /\ initialized \in BOOLEAN /\ bar0 \in BOOLEAN
          BY DEF DeviceTypeOK
        <4> QED
          BY <2>7, <4>1 DEF OpShift, OpSense, OpLimit, OpGuard, OpReadOnly, OpNoop, OpState, OpPipe,
             OpEcho, OpAudit
      <3> QED
        BY <1>1, <3>1, ReturnTested
    <2> QED
      BY <1>4, <2>1, <2>2, <2>3, <2>4, <2>5, <2>6, <2>7 DEF OpStep
  <1>5. CASE DmaStep(c)
    <2>1. CASE FencePoll(c) \/ FenceTimeout(c) \/ Signal(c)
      <3>1. (\E ok \in BOOLEAN : Return(c, ok)) \/ (pc'[c] = pc[c] /\ pc[c] = "fence")
        BY <2>1 DEF FencePoll, FenceTimeout, Signal
      <3> QED
        BY <1>1, <3>1, ReturnTested
    <2>2. CASE SliceDrop(c)
      <3>1. CASE DmaReady /\ Goto(c, "dma")
        BY <3>1, GotoThere DEF DmaReady, Tested, Stays
      <3>2. CASE pc' = pc
        BY <1>1, <2>2, <3>2 DEF SliceDrop
      <3> QED
        BY <2>2, <3>1, <3>2 DEF SliceDrop
    <2>3. CASE SliceEnd(c)
      BY <1>1, <2>3, GotoThere DEF SliceEnd
    <2>4. CASE DmaChunk(c)
      <3>1. pc[c] = "dma" /\ (DmaReturn(c, FALSE) \/ Goto(c, "copy"))
        BY <2>4 DEF DmaChunk
      <3> QED
        BY <1>0, <1>1, <3>1, GotoThere, DmaReturnTested DEF Tested, Stays
    <2>5. CASE DmaDone(c)
      BY <1>1, <2>5, DmaReturnTested DEF DmaDone
    <2>6. CASE DmaCopy(c)
      <3>1. pc[c] = "copy" /\ initialized /\ bar1 /\ buf # "null"
        BY <1>0, <2>6 DEF DmaCopy, Tested, PointerInv
      <3>2. Goto(c, "dma")
        BY <2>6, <3>1 DEF DmaCopy
      <3> QED
        BY <3>1, <3>2, GotoThere DEF Tested, Stays
    <2> QED
      BY <1>5, <2>1, <2>2, <2>3, <2>4, <2>5, <2>6 DEF DmaStep
  <1> QED
    BY <1>2, <1>3, <1>4, <1>5 DEF HandlerStep

\* If BAR1 can always be mapped, the card stays, probes fail at one of the two
\* allocations only and no packet size is zero, no handler ever uses a null
\* pointer, with any number of clients and probes that fail in between.
THEOREM NoNullPointer ==
  ASSUME Bar1Maps = {TRUE}, ~Unplug, Shortages # {"buffer", "page"},
         \A r \in Requests : r.psize # 0
  PROVE  Spec => []NoOops
  <1>1. Init => PointerInv
    BY DEF Init, PointerInv, Tested
  <1>2. IInv /\ PointerInv /\ [Next]_vars => PointerInv'
    <2> SUFFICES ASSUME IInv, PointerInv, [Next]_vars PROVE PointerInv'
      OBVIOUS
    <2> USE DEF IInv, TypeOK
    <2>1. ASSUME NEW c \in Clients, HandlerStep(c)
          PROVE  PointerInv'
      <3>2. drv' = drv /\ buf' = buf
        BY <2>1, HandlersKeepPages DEF memvars
      <3>1. Stays /\ (initialized' => bar1')
        <4>1. CASE OpClaim(c)
          <5>1. pdev => pdev'
            BY <4>1 DEF OpClaim
          <5>2. CASE bar0'
            <6>1. bar1' /\ initialized'
              BY <4>1, <5>2 DEF OpClaim
            <6> QED
              BY <3>2, <5>1, <6>1 DEF Stays
          <5>3. CASE ~bar0'
            <6>1. bar1' = bar1 /\ initialized' = initialized
              BY <4>1, <5>3 DEF OpClaim
            <6> QED
              BY <3>2, <5>1, <6>1 DEF PointerInv, Stays
          <5> QED
            BY <5>2, <5>3
        <4>2. CASE ~OpClaim(c)
          BY <2>1, <3>2, <4>2, HandlersKeepDevice DEF PointerInv, Stays
        <4> QED
          BY <4>1, <4>2
      <3>3. ASSUME NEW d \in Clients
            PROVE  Tested(d)'
        <4>1. CASE d = c
          BY <2>1, <3>1, <4>1, HandlerTested
        <4>2. CASE d # c
          <5>1. pc'[d] = pc[d]
            BY <2>1, <4>2, HandlerMoves DEF Moves, CallTypeOK
          <5> QED
            BY <3>1, <5>1 DEF PointerInv, Tested, Stays
        <4> QED
          BY <4>1, <4>2
      <3> QED
        BY <3>1, <3>2, <3>3 DEF PointerInv
    <2>2. CASE BusStep
      <3> DEFINE Kept == /\ UNCHANGED <<pc, initialized, bar1>> /\ (pdev => pdev')
                         /\ buf # "null" => buf' # "null"
                         /\ drv' \notin {"unpaged", "unbuffered", "forgotten"}
                         /\ "page" \notin Shortages /\ drv' \in {"none", "device"} => buf' = "null"
      <3>1. Kept
        <4>0. drv \notin {"unpaged", "unbuffered", "forgotten"}
          BY DEF PointerInv
        <4>1. CASE ProbeDevice
          BY <4>1 DEF ProbeDevice, callvars, mapvars, memvars, PointerInv
        <4>2. CASE ProbeBuffer
          <5>1. buf # "null" => "page" \in Shortages \/ drv # "device"
            BY DEF PointerInv
          <5>2. buf # "null" => "buffer" \notin Shortages
            BY <4>2, <5>1, OutcomeAssumption DEF ProbeBuffer
          <5> QED
            BY <4>2, <5>2 DEF ProbeBuffer, ProbeFails, callvars, mapvars
        <4>3. CASE ProbePage
          BY <4>3 DEF ProbePage, ProbeFails, callvars, mapvars
        <4>4. CASE ProbeDone
          BY <4>4 DEF ProbeDone, callvars, mapvars, memvars
        <4> QED
          BY <2>2, <4>0, <4>1, <4>2, <4>3, <4>4
          DEF BusStep, RemovePage, RemoveBuffer, RemoveDevice, RemoveDone
      <3> QED
        BY <3>1 DEF PointerInv, Tested
    <2>3. ASSUME NEW c \in Clients, NEW r \in Requests, Call(c, r) \/ Acquire(c)
          PROVE  PointerInv'
      <3>1. UNCHANGED <<initialized, bar1, pdev, drv, buf>>
        BY <2>3 DEF Call, Acquire, devvars, mapvars, memvars, busvars
      <3>2. \A d \in Clients : pc'[d] = pc[d] \/ pc'[d] \in {"wait", "ioctl"}
        BY <2>3 DEF Call, Acquire, CallTypeOK
      <3> QED
        BY <3>1, <3>2 DEF PointerInv, Tested
    <2>4. CASE UNCHANGED vars
      BY <2>4 DEF vars, callvars, devvars, mapvars, memvars, busvars, PointerInv, Tested
    <2> QED
      BY <2>1, <2>2, <2>3, <2>4, RequestsAssumption DEF Next
  <1>3. PointerInv => NoOops
    BY DEF PointerInv, Tested, NoOops
  <1> QED
    BY <1>1, <1>2, <1>3, Invariance, PTL DEF Spec
=============================================================================
