---- MODULE HistoryProofs ----
EXTENDS AthanorHistory, BatchProofs, Inductions

LimitsType == [safety : Nat, halt : Nat, throttle : Nat]

LEMMA EffectTyped ==
  ASSUME NEW l \in LimitsType, NEW p \in Packet
  PROVE  Serial!Effect(l, p) \in LimitsType
  BY PacketTyped DEF Serial!Effect, LimitsType

LEMMA RunSteps ==
  ASSUME NEW l \in LimitsType, NEW s \in Seq(Packet), NEW K
  PROVE  /\ Serial!Run(l, s, K) \in [0 .. Len(s) -> LimitsType]
         /\ Serial!Run(l, s, K)[0] = l
         /\ \A k \in 1 .. Len(s) :
              Serial!Run(l, s, K)[k] =
                IF k \in K THEN Serial!Effect(Serial!Run(l, s, K)[k - 1], s[k]) ELSE Serial!Run(l, s, K)[k - 1]
  <1>. DEFINE g == [k \in 1 .. Len(s) |-> [x \in LimitsType |-> IF k \in K THEN Serial!Effect(x, s[k]) ELSE x]]
              Def(h) == h = [k \in 0 .. Len(s) |-> IF k = 0 THEN l
                               ELSE IF k \in K THEN Serial!Effect(h[k - 1], s[k]) ELSE h[k - 1]]
  <1>1. Len(s) \in Nat /\ g \in [1 .. Len(s) -> [LimitsType -> LimitsType]]
    BY EffectTyped
  <1>2. PICK w : Recurs(w, Len(s), LimitsType, l, g)
    <2>. HIDE DEF g
    <2>. QED
      BY <1>1, RecursionExists
  <1>3. Def(w)
    BY <1>2 DEF Recurs
  <1>. DEFINE r == Serial!Run(l, s, K)
  <1>4. r = CHOOSE h : Def(h)
    BY DEF Serial!Run
  <1>5. Def(r)
    BY <1>3, <1>4
  <1>. HIDE DEF r
  <1>6. /\ r = [k \in 0 .. Len(s) |-> r[k]] /\ r[0] = l
        /\ \A k \in 1 .. Len(s) :
             r[k] = IF k \in K THEN Serial!Effect(r[k - 1], s[k]) ELSE r[k - 1]
    <2>1. r = [k \in 0 .. Len(s) |-> IF k = 0 THEN l
                 ELSE IF k \in K THEN Serial!Effect(r[k - 1], s[k]) ELSE r[k - 1]]
      BY <1>5
    <2>2. 0 \in 0 .. Len(s) /\ \A k \in 1 .. Len(s) : k \in 0 .. Len(s) /\ k # 0
      BY <1>1
    <2>. QED
      BY <2>1, <2>2
  <1>7. \A k \in 1 .. Len(s) : r[k - 1] \in LimitsType => r[k] \in LimitsType
    <2>1. ASSUME NEW k \in 1 .. Len(s), r[k - 1] \in LimitsType
          PROVE  r[k] \in LimitsType
      <3>1. s[k] \in Packet
        BY <1>1
      <3>2. Serial!Effect(r[k - 1], s[k]) \in LimitsType
        BY <2>1, <3>1, EffectTyped
      <3>. QED
        BY <1>6, <2>1, <3>2
    <2>. QED
      BY <2>1
  <1>8. r \in [0 .. Len(s) -> LimitsType]
    BY <1>1, <1>6, <1>7, RecursionTyped
  <1>. QED
    BY <1>6, <1>8 DEF r

-----------------------------------------------------------------------------
(* Where the bounce buffers land. *)

\* A copy is inside its transfer.  Only a probe changes the ranges under one, to
\* those of the card; a transfer that keeps them and stays in the window never
\* moves it.
Placed(c) ==
  pc[c] \in {"dma", "copy"} =>
    /\ bars \in {base.bars, CardBars}
    /\ Steady /\ KeepsToWindow(c) => win = base.win
    /\ pc[c] = "copy" => f[c].off < XferSize(c)

WindowInv == \A c \in Clients : Placed(c)

\* An access in the window, whose place in VRAM the window already covers.
LEMMA TouchInside ==
  ASSUME bars \in Bars, NEW vram \in BOOLEAN, NEW a \in Nat, NEW o \in Nat, NEW n \in Int,
         NEW w \in Nat, vram => Inside(a, bars.bar1), EndsInWindow(vram, a, n),
         o < n, w % bars.bar1.len = 0
  PROVE  Touch(vram, a, o, w) = w
  <1>1. CASE vram
    <2>. DEFINE len == bars.bar1.len
                phys == bars.bar1.phys
                r == a + o - phys
    <2>1. len \in Nat /\ phys \in Nat
      BY DEF Bars, BarRange
    <2>2. phys <= a /\ a < phys + len /\ a + n <= phys + len
      BY <1>1 DEF Inside, EndsInWindow
    <2>3. VramAt(a, o, w) = a + o - phys + w /\ w % len = 0
      BY DEF VramAt
    <2>4. Align(w + r) = (w + r) - ((w + r) % len)
      BY DEF Align
    <2>. HIDE DEF len, phys
    <2>5. len \in Nat \ {0} /\ r \in 0 .. len - 1 /\ a + o - phys + w = w + r
      BY <2>1, <2>2
    <2>. HIDE DEF r
    <2>6. Align(w + r) = w
      BY <2>3, <2>4, <2>5, RoundedBack
    <2>. QED
      BY <1>1, <2>3, <2>5, <2>6 DEF Touch
  <1>2. CASE ~vram
    BY <1>2 DEF Touch
  <1>. QED
    BY <1>1, <1>2

\* The ranges of a transfer are those of its packet and its drop.
LEMMA SameTransfer ==
  ASSUME NEW c \in Clients, Pkt(c)' = Pkt(c), f'[c].drop = f[c].drop, bars' = bars
  PROVE  /\ XferSrc(c)' = XferSrc(c) /\ XferDst(c)' = XferDst(c) /\ XferSize(c)' = XferSize(c)
         /\ KeepsToWindow(c)' = KeepsToWindow(c)
  <1>1. XferSrc(c)' = XferSrc(c) /\ XferDst(c)' = XferDst(c) /\ XferSize(c)' = XferSize(c)
    BY DEF XferSrc, XferDst, XferSize, IsSlice
  <1>. QED
    BY <1>1 DEF KeepsToWindow, EndsInWindow, FromBar1, ToBar1, Inside

LEMMA TransferTyped ==
  ASSUME IInv, NEW c \in Clients, pc[c] \in InPacket
  PROVE  XferSrc(c) \in Nat /\ XferDst(c) \in Nat /\ XferSize(c) \in Int /\ f[c].off \in Nat
  <1>1. Pkt(c).src \in Nat /\ Pkt(c).dst \in Nat /\ Pkt(c).size \in Nat
        /\ f[c].drop \in Nat /\ f[c].off \in Nat
    BY PktTyped, FrameTyped DEF IInv, TypeOK, Local
  <1>2. SliceChunk(Pkt(c)) \in Nat
    BY <1>1, NumberAssumption DEF SliceChunk
  <1>3. f[c].drop * SliceChunk(Pkt(c)) \in Nat
    BY <1>1, <1>2
  <1>. QED
    BY <1>1, <1>2, <1>3 DEF XferSrc, XferDst, XferSize

\* Neither half of a chunk moves a window it stays in.
LEMMA CopyInPlace ==
  ASSUME IInv, NEW c \in Clients, pc[c] = "copy", KeepsToWindow(c),
         f[c].off < XferSize(c), win % bars.bar1.len = 0
  PROVE  /\ WinRead(c) = win
         /\ Touch(ToBar1(XferDst(c)), XferDst(c), f[c].off, win) = win
  <1>1. /\ XferSrc(c) \in Nat /\ XferDst(c) \in Nat /\ XferSize(c) \in Int /\ f[c].off \in Nat
        /\ win \in Nat /\ bars \in Bars
    BY TransferTyped DEF InPacket, IInv, TypeOK, DeviceTypeOK
  <1>2. /\ FromBar1(XferSrc(c)) \in BOOLEAN /\ ToBar1(XferDst(c)) \in BOOLEAN
        /\ FromBar1(XferSrc(c)) => Inside(XferSrc(c), bars.bar1)
        /\ ToBar1(XferDst(c)) => Inside(XferDst(c), bars.bar1)
    BY DEF FromBar1, ToBar1, Inside
  <1>3. /\ EndsInWindow(FromBar1(XferSrc(c)), XferSrc(c), XferSize(c))
        /\ EndsInWindow(ToBar1(XferDst(c)), XferDst(c), XferSize(c))
    BY DEF KeepsToWindow
  <1>. QED
    BY <1>1, <1>2, <1>3, TouchInside DEF WinRead

\* A thread is in a transfer that it entered, checked a chunk of or copied one.
LEMMA TransferSteps ==
  ASSUME IInv, NEW c \in Clients, HandlerStep(c), pc'[c] \in {"dma", "copy"}
  PROVE  \/ pc[c] \notin {"dma", "copy"} /\ pc'[c] = "dma"
         \/ DmaChunk(c) /\ pc'[c] = "copy" /\ f' = f
         \/ DmaCopy(c) /\ pc'[c] = "dma"
  <1>. USE DEF IInv, TypeOK
  <1>1. pc'[c] = "copy" => DmaChunk(c)
    BY CopyAfterCheck
  <1>2. ASSUME DmaChunk(c)
        PROVE  f' = f /\ pc'[c] = "copy"
    <2>1. \A ok \in BOOLEAN : ~DmaReturn(c, ok)
      BY DmaReturnTested
    <2>. QED
      BY <1>2, <2>1, GotoThere DEF DmaChunk
  <1>3. ASSUME pc[c] \in {"dma", "copy"}
        PROVE  DmaChunk(c) \/ DmaDone(c) \/ DmaCopy(c)
    BY <1>3 DEF HandlerStep, IoctlStep, LoadVial, SetSafety, ReadThermal, GetState,
       OtherIoctl, ArgumentFault, Execute, LoopStep, CrcFail, SkipPacket, Dispatch,
       EndOfBatch, ExecuteReturn, StartRollback, RollbackStep, RollbackEnd, AtPacket,
       OpStep, Running, OpClaim, OpShift, OpSense, OpLimit, OpGuard, OpConfig, Config,
       OpReadOnly, OpNoop, OpState, OpPipe, OpEcho, OpAudit,
       OpFence, OpFlow, OpSlice, DmaStep, FencePoll, FenceTimeout, SliceDrop, SliceEnd, Signal
  <1>4. ~DmaDone(c)
    BY DmaReturnTested DEF DmaDone
  <1>. QED
    BY <1>1, <1>2, <1>3, <1>4

LEMMA PlacedNext ==
  ASSUME IInv, WindowInv, [Next]_vars, Observe, NEW c \in Clients
  PROVE  Placed(c)'
  <1>. USE DEF IInv, TypeOK
  <1>. SUFFICES ASSUME pc'[c] \in {"dma", "copy"} PROVE Placed(c)'
    BY DEF Placed
  <1>1. InTransfer' /\ Placed(c) /\ (pc[c] \in {"dma", "copy"} => base' = base)
    BY DEF InTransfer, WindowInv, Observe
  <1>2. ASSUME pc'[c] = pc[c], req'[c] = req[c], f'[c] = f[c], win' = win, bars' = bars
        PROVE  Placed(c)'
    <2>1. base' = base /\ Pkt(c)' = Pkt(c)
      BY <1>1, <1>2 DEF Pkt, Batch
    <2>2. Steady' = Steady /\ KeepsToWindow(c)' = KeepsToWindow(c) /\ XferSize(c)' = XferSize(c)
      BY <1>2, <2>1, SameTransfer DEF Steady
    <2>. QED
      BY <1>1, <1>2, <2>1, <2>2 DEF Placed
  <1>3. ASSUME NEW d \in Clients, HandlerStep(d)
        PROVE  Placed(c)'
    <2>1. Moves(d) /\ \A b \in Clients : b # d => pc[b] \notin InHandler /\ pc'[b] = pc[b]
      BY <1>3, HandlerMoves, OnlyOwner DEF Moves, CallTypeOK
    <2>2. d = c /\ HandlerStep(c)
      BY <1>3, <2>1 DEF InHandler
    <2>3. CASE pc[c] \notin {"dma", "copy"} /\ pc'[c] = "dma"
      <3>1. ~InTransfer
        BY <2>1, <2>2, <2>3 DEF InTransfer, InHandler
      <3>2. base' = [win |-> win', bars |-> bars']
        BY <3>1 DEF Observe, Seen
      <3>. QED
        BY <2>3, <3>2 DEF Placed
    <2>4. CASE DmaChunk(c) /\ pc'[c] = "copy" /\ f' = f
      <3>1. /\ pc[c] = "dma" /\ f[c].off < XferSize(c) /\ win' = win /\ bars' = bars
            /\ req' = req /\ base' = base
        BY <1>1, <2>1, <2>2, <2>4 DEF DmaChunk, Moves, mapvars
      <3>2. Pkt(c)' = Pkt(c)
        BY <2>4, <3>1 DEF Pkt, Batch
      <3>3. Steady' = Steady /\ KeepsToWindow(c)' = KeepsToWindow(c) /\ XferSize(c)' = XferSize(c)
        BY <2>4, <3>1, <3>2, SameTransfer DEF Steady
      <3>. QED
        BY <1>1, <2>4, <3>1, <3>3 DEF Placed
    <2>5. CASE DmaCopy(c) /\ pc'[c] = "dma"
      <3>1. /\ pc[c] = "copy" /\ req' = req /\ base' = base /\ bars' = bars
            /\ win' = Touch(ToBar1(XferDst(c)), XferDst(c), f[c].off, WinRead(c))
            /\ f' = [f EXCEPT ![c].off = @ + 1]
        <4>1. ~Goto(c, "oops")
          BY <2>5, GotoThere
        <4>. QED
          BY <1>1, <2>1, <2>2, <2>5, <4>1 DEF DmaCopy, Moves
      <3>2. f'[c].drop = f[c].drop /\ f'[c].i = f[c].i /\ f'[c].mode = f[c].mode
        BY <3>1 DEF CallTypeOK, Frame
      <3>3. Pkt(c)' = Pkt(c)
        BY <3>1, <3>2 DEF Pkt, Batch
      <3>4. Steady' = Steady /\ KeepsToWindow(c)' = KeepsToWindow(c)
        BY <3>1, <3>2, <3>3, SameTransfer DEF Steady
      <3>5. ASSUME Steady, KeepsToWindow(c)
            PROVE  win' = base'.win
        <4>1. win = base.win /\ f[c].off < XferSize(c) /\ win % bars.bar1.len = 0
          BY <1>1, <3>1, <3>5 DEF Placed, Steady
        <4>2. WinRead(c) = win
          BY <3>1, <3>5, <4>1, CopyInPlace
        <4>3. Touch(ToBar1(XferDst(c)), XferDst(c), f[c].off, win) = win
          BY <3>1, <3>5, <4>1, CopyInPlace
        <4>. QED
          BY <3>1, <4>1, <4>2, <4>3
      <3>. QED
        BY <1>1, <2>5, <3>1, <3>4, <3>5 DEF Placed
    <2>. QED
      BY <2>2, <2>3, <2>4, <2>5, TransferSteps
  <1>4. ASSUME NEW d \in Clients, NEW r \in Requests, Call(d, r) \/ Acquire(d)
        PROVE  Placed(c)'
    <2>1. d # c
      BY <1>4 DEF Call, Acquire, CallTypeOK
    <2>2. pc'[c] = pc[c] /\ req'[c] = req[c] /\ f'[c] = f[c] /\ win' = win /\ bars' = bars
      BY <1>4, <2>1 DEF Call, Acquire, CallTypeOK, devvars, mapvars
    <2>. QED
      BY <1>2, <2>2
  <1>5. CASE BusStep
    <2>1. UNCHANGED <<pc, req, f, win>> /\ (bars' = bars \/ bars' = CardBars)
      BY <1>5, BusTyped DEF callvars, BusStep, ProbeDevice, ProbeBuffer, ProbePage, ProbeDone,
         RemovePage, RemoveBuffer, RemoveDevice, RemoveDone, mapvars
    <2>2. CASE bars' = bars
      BY <1>2, <2>1, <2>2
    <2>3. CASE bars' = CardBars /\ bars' # bars
      <3>1. base' = base /\ bars = base.bars /\ Pkt(c)' = Pkt(c)
        BY <1>1, <2>1, <2>3 DEF Placed, Pkt, Batch
      <3>2. ~Steady'
        BY <2>3, <3>1 DEF Steady
      <3>3. XferSize(c)' = XferSize(c)
        BY <2>1, <3>1 DEF XferSize, IsSlice
      <3>. QED
        BY <1>1, <2>1, <2>3, <3>1, <3>2, <3>3 DEF Placed
    <2>. QED
      BY <2>1, <2>2, <2>3
  <1>6. CASE UNCHANGED vars
    BY <1>2, <1>6 DEF vars, callvars, devvars, mapvars
  <1>. QED
    BY <1>3, <1>4, <1>5, <1>6, RequestsAssumption DEF Next

\* The history variables watch the driver and change nothing in it.
LEMMA HistoryImplements == HSpec => Spec
  <1>1. HInit => Init
    BY DEF HInit
  <1>2. [HNext]_<<vars, histvars>> => [Next]_vars
    BY DEF HNext
  <1>. QED
    BY <1>1, <1>2, PTL DEF HSpec, Spec

\* Every chunk of a transfer whose ranges stay and keep to the window it started
\* with is copied to where the start of the transfer puts it, whatever a probe
\* made of the ranges before (vitriol_dma_transfer).
THEOREM TransfersLandInPlace == HSpec => []LandsInPlace
  <1>1. HInit => WindowInv
    BY DEF HInit, Init, WindowInv, Placed
  <1>2. IInv /\ WindowInv /\ [HNext]_<<vars, histvars>> => WindowInv'
    <2>. SUFFICES ASSUME IInv, WindowInv, [HNext]_<<vars, histvars>> PROVE WindowInv'
      OBVIOUS
    <2>1. CASE HNext
      BY <2>1, PlacedNext DEF HNext, WindowInv
    <2>2. CASE UNCHANGED <<vars, histvars>>
      <3>1. UNCHANGED <<pc, req, f, win, bars, base>>
        BY <2>2 DEF vars, callvars, devvars, mapvars, histvars
      <3>2. ASSUME NEW c \in Clients
            PROVE  Placed(c)'
        <4>1. Pkt(c)' = Pkt(c)
          BY <3>1 DEF Pkt, Batch
        <4>2. KeepsToWindow(c)' = KeepsToWindow(c) /\ XferSize(c)' = XferSize(c)
          BY <3>1, <4>1, SameTransfer
        <4>. QED
          BY <3>1, <4>2 DEF WindowInv, Placed, Steady
      <3>. QED
        BY <3>2 DEF WindowInv
    <2>. QED
      BY <2>1, <2>2
  <1>3. IInv /\ WindowInv => LandsInPlace
    <2>. SUFFICES ASSUME IInv, WindowInv, NEW c \in Clients, pc[c] = "copy", Steady,
                         KeepsToWindow(c)
                  PROVE  ChunkInPlace(c)
      BY DEF LandsInPlace
    <2>1. win = base.win /\ f[c].off < XferSize(c) /\ win % bars.bar1.len = 0
      BY DEF WindowInv, Placed, Steady
    <2>2. WinRead(c) = win
      BY <2>1, CopyInPlace
    <2>. QED
      BY <2>1, <2>2 DEF ChunkInPlace, InPlace
  <1>. QED
    BY <1>1, <1>2, <1>3, HistoryImplements, Invariance, PTL DEF HSpec

-----------------------------------------------------------------------------
(* The limits, which the ioctls change as if each were one step. *)

LimitOps == {"op_limit", "op_guard"}
Marked(s) == { k \in DOMAIN s : "AZOTH" \in s[k].flags }

\* What a rollback has undone so far.
Undoing(c) ==
  LET r == req[c] IN
  /\ r.azoth # << >> /\ f[c].i \in 1 .. Len(r.azoth) + 1
  /\ Limits = Serial!Run(Serial!After(before, r.pkts, f[c].errpkt - 1), r.azoth,
                         Marked(r.azoth))[f[c].i - 1]
  /\ pc[c] \in InPacket => "AZOTH" \in Pkt(c).flags

\* How far an ioctl has taken the limits it found.
Served(c) ==
  /\ pc[c] = "ioctl" => Limits = before
  /\ pc[c] \in InBatch /\ f[c].mode = "forward" =>
       Limits = Serial!After(before, req[c].pkts, Stop(c) - 1)
  /\ f[c].mode = "azoth" => Undoing(c)
  /\ pc[c] \in InPacket \ {"op"} => Handler[Pkt(c).op] \notin LimitOps

LimitInv ==
  /\ before \in LimitsType
  /\ lock = NoClient => Limits = before
  /\ \A c \in Clients : Served(c)

LEMMA LimitsTyped ==
  ASSUME DeviceTypeOK
  PROVE  Limits \in LimitsType
  BY DEF DeviceTypeOK, Limits, LimitsType

\* The prefixes of a batch, packet by packet.
LEMMA AfterSteps ==
  ASSUME NEW l \in LimitsType, NEW s \in Seq(Packet)
  PROVE  /\ Serial!After(l, s, 0) = l
         /\ \A n \in 0 .. Len(s) : Serial!After(l, s, n) \in LimitsType
         /\ \A n \in 1 .. Len(s) :
              Serial!After(l, s, n) =
                IF Forward(s[n]) THEN Serial!Effect(Serial!After(l, s, n - 1), s[n])
                ELSE Serial!After(l, s, n - 1)
  <1>. DEFINE K == { k \in DOMAIN s : s[k].flags \cap {"AZOTH", "DRY_RUN"} = {} }
  <1>1. \A n : Serial!After(l, s, n) = Serial!Run(l, s, K)[n]
    BY DEF Serial!After
  <1>2. \A n \in 1 .. Len(s) : n \in K <=> Forward(s[n])
    BY DEF Forward
  <1>. HIDE DEF K
  <1>. QED
    BY <1>1, <1>2, RunSteps

LEMMA UndoneSteps ==
  ASSUME NEW l \in LimitsType, NEW s \in Seq(Packet), NEW n \in 1 .. Len(s)
  PROVE  Serial!Run(l, s, Marked(s))[n] =
           IF "AZOTH" \in s[n].flags
           THEN Serial!Effect(Serial!Run(l, s, Marked(s))[n - 1], s[n])
           ELSE Serial!Run(l, s, Marked(s))[n - 1]
  <1>1. n \in Marked(s) <=> "AZOTH" \in s[n].flags
    BY DEF Marked
  <1>. QED
    BY <1>1, RunSteps

\* A packet whose handler is another leaves the limits alone.
LEMMA OtherEffect ==
  ASSUME NEW l, NEW p, Handler[p.op] \notin LimitOps
  PROVE  Serial!Effect(l, p) = l
  BY DEF Serial!Effect, LimitOps

\* What a handler step inside a packet does to the limits.
LEMMA PacketLimits ==
  ASSUME IInv, NEW c \in Clients, Served(c), OpStep(c) \/ DmaStep(c)
  PROVE  \/ /\ Handler[Pkt(c).op] \in LimitOps /\ Return(c, TRUE)
            /\ Limits' = Serial!Effect(Limits, Pkt(c))
         \/ /\ Handler[Pkt(c).op] \notin LimitOps /\ Limits' = Limits
            /\ Keeps(c) \/ \E ok \in BOOLEAN : Return(c, ok)
  <1>1. Keeps(c) \/ \E ok \in BOOLEAN : Return(c, ok)
    BY OpKeepsOrReturns, DmaKeepsOrReturns
  <1>2. CASE OpLimit(c)
    BY <1>2 DEF OpLimit, Running, LimitOps, Limits, Serial!Effect
  <1>3. CASE OpGuard(c)
    BY <1>3 DEF OpGuard, Running, LimitOps, Limits, Serial!Effect
  <1>4. CASE OpStep(c) /\ ~OpLimit(c) /\ ~OpGuard(c)
    <2>1. Limits' = Limits
      BY <1>4 DEF OpStep, OpClaim, OpShift, OpSense, OpConfig, Config,
         OpReadOnly, OpNoop, OpState, OpPipe, OpEcho, OpAudit, OpFence, OpFlow, OpSlice,
         devvars, limvars, Limits
    <2>2. pc[c] = "op" => Handler[Pkt(c).op] \notin LimitOps
      BY <1>4 DEF OpStep, OpClaim, OpShift, OpSense, OpConfig, Config, Running,
         OpReadOnly, OpNoop, OpState, OpPipe, OpEcho, OpAudit, OpFence, OpFlow, OpSlice,
         LimitOps
    <2>3. pc[c] \in InPacket
      BY <1>4, OpKeepsOrReturns
    <2>. QED
      BY <1>1, <2>1, <2>2, <2>3 DEF Served
  <1>5. CASE DmaStep(c)
    <2>1. Limits' = Limits /\ pc[c] # "op"
      BY <1>5 DEF DmaStep, FencePoll, FenceTimeout, SliceDrop, SliceEnd,
         DmaChunk, DmaDone, DmaCopy, Signal, devvars, limvars, Limits
    <2>2. pc[c] \in InPacket
      BY <1>5, DmaKeepsOrReturns
    <2>. QED
      BY <1>1, <2>1, <2>2 DEF Served
  <1>. QED
    BY <1>2, <1>3, <1>4, <1>5

\* A running batch is typed, and its stop is a place in it.
LEMMA RunningTyped ==
  ASSUME IInv, NEW c \in Clients, Batched(c), pc[c] \in InBatch
  PROVE  /\ Progress(c) /\ f[c] \in Frame /\ f[c].mode \in {"forward", "azoth"}
         /\ req[c] \in Requests /\ req[c].pkts \in Seq(Packet) /\ req[c].azoth \in Seq(Packet)
         /\ Stop(c) - 1 \in 0 .. Len(req[c].pkts) /\ f[c].i \in Nat \ {0}
         /\ f[c].status # "OK" => Stop(c) - 1 \in 0 .. Len(req[c].pkts) - 1
  <1>1. Progress(c)
    BY DEF Batched
  <1>2. /\ f[c] \in Frame /\ f[c].mode \in {"forward", "azoth"} /\ f[c].i \in Nat \ {0}
        /\ req[c] \in Requests /\ req[c].pkts \in Seq(Packet) /\ req[c].azoth \in Seq(Packet)
    BY FrameTyped, RequestTyped DEF IInv, TypeOK, CallTypeOK
  <1>3. Stop(c) \in 1 .. Len(req[c].pkts) + 1
    BY <1>1 DEF Progress, Prefix
  <1>. QED
    BY <1>1, <1>2, <1>3 DEF Progress

\* The packet under way has its effect, and the batch goes on or breaks.
LEMMA ReturnServed ==
  ASSUME IInv, NEW c \in Clients, Batched(c), Served(c), before \in LimitsType, before' = before,
         pc[c] \in InPacket, NEW ok \in BOOLEAN, Return(c, ok),
         Limits' = Serial!Effect(Limits, Pkt(c)), ok \/ Limits' = Limits
  PROVE  Served(c)'
  <1>. USE DEF IInv, TypeOK
  <1>1. /\ Progress(c) /\ f[c] \in Frame /\ f[c].mode \in {"forward", "azoth"}
        /\ req[c].pkts \in Seq(Packet) /\ req[c].azoth \in Seq(Packet)
        /\ Stop(c) - 1 \in 0 .. Len(req[c].pkts) /\ f[c].i \in Nat \ {0}
        /\ pc[c] \in InBatch
    BY RunningTyped DEF InPacket, InBatch, InHandler
  <1>2. f[c].i \in 1 .. Len(Batch(c))
    BY DEF Local
  <1>3. CASE f[c].mode = "azoth"
    <2>1. /\ pc'[c] = "azoth" /\ req'[c] = req[c] /\ f'[c].i = f[c].i + 1
          /\ f'[c].errpkt = f[c].errpkt /\ f'[c].mode = "azoth"
      BY <1>3 DEF CallTypeOK, Frame, Return, Goto
    <2>. DEFINE s == req[c].azoth
                l == Serial!After(before, req[c].pkts, f[c].errpkt - 1)
                i == f[c].i
    <2>2. l \in LimitsType
      BY <1>1, <1>3, AfterSteps DEF Stop
    <2>3. /\ Limits = Serial!Run(l, s, Marked(s))[i - 1] /\ "AZOTH" \in s[i].flags
          /\ i \in 1 .. Len(s) /\ Pkt(c) = s[i] /\ s # << >>
      BY <1>2, <1>3 DEF Served, Undoing, Pkt, Batch
    <2>4. Limits' = Serial!Run(l, s, Marked(s))[i]
      <3>. HIDE DEF l, s, i
      <3>1. s \in Seq(Packet)
        BY <1>1 DEF s
      <3>. QED
        BY <2>2, <2>3, <3>1, UndoneSteps
    <2>5. (i + 1) - 1 = i /\ i + 1 \in 1 .. Len(s) + 1
      <3>1. Len(s) \in Nat /\ i \in 1 .. Len(s)
        BY <1>1, <2>3
      <3>. HIDE DEF l, s, i
      <3>. QED
        BY <3>1
    <2>6. Undoing(c)'
      BY <2>1, <2>3, <2>4, <2>5 DEF Undoing, InPacket
    <2>. QED
      BY <2>1, <2>6 DEF Served, InPacket
  <1>4. ASSUME f[c].mode = "forward"
        PROVE  /\ f[c].status = "OK" /\ Stop(c) = f[c].i /\ f[c].i \in 1 .. Len(req[c].pkts)
               /\ Pkt(c) = req[c].pkts[f[c].i] /\ Forward(Pkt(c))
               /\ Limits = Serial!After(before, req[c].pkts, f[c].i - 1)
    BY <1>1, <1>2, <1>4 DEF Progress, InPacket, Pkt, Batch, Stop, Served
  <1>5. CASE f[c].mode = "forward" /\ ok
    <2>1. /\ pc'[c] = "fwd" /\ req'[c] = req[c] /\ f'[c].i = f[c].i + 1
          /\ f'[c].status = f[c].status /\ f'[c].mode = f[c].mode
      BY <1>5 DEF CallTypeOK, Frame, Return, Goto
    <2>2. Limits' = Serial!After(before, req[c].pkts, f[c].i)
      BY <1>1, <1>4, <1>5, AfterSteps
    <2>3. Stop(c)' - 1 = f[c].i
      BY <1>1, <1>4, <1>5, <2>1 DEF Stop
    <2>. QED
      BY <1>4, <1>5, <2>1, <2>2, <2>3 DEF Served, InPacket
  <1>6. CASE f[c].mode = "forward" /\ ~ok
    <2>1. /\ pc'[c] = "fin" /\ req'[c] = req[c] /\ f'[c].errpkt = f[c].i
          /\ f'[c].status = "ERROR" /\ f'[c].mode = "forward"
      BY <1>1, <1>6 DEF CallTypeOK, Frame, Return, Break, Goto
    <2>2. Stop(c)' = f[c].i /\ Limits' = Limits
      BY <1>6, <2>1 DEF Stop
    <2>. QED
      BY <1>4, <1>6, <2>1, <2>2 DEF Served, InPacket
  <1>. QED
    BY <1>1, <1>3, <1>5, <1>6

LEMMA KeepsServed ==
  ASSUME IInv, NEW c \in Clients, Batched(c), Served(c), before' = before,
         pc[c] \in InPacket, Keeps(c), Limits' = Limits, Handler[Pkt(c).op] \notin LimitOps
  PROVE  Served(c)'
  <1>1. /\ pc'[c] \in Busy /\ req'[c] = req[c]
        /\ f'[c].mode = f[c].mode /\ f'[c].i = f[c].i /\ f'[c].status = f[c].status
        /\ f'[c].errpkt = f[c].errpkt
    BY DEF Keeps
  <1>2. Pkt(c)' = Pkt(c) /\ Stop(c)' = Stop(c)
    BY <1>1 DEF Pkt, Batch, Stop
  <1>3. pc'[c] # "ioctl" /\ pc[c] \in InBatch
    BY <1>1 DEF Busy, InPacket, InBatch, InHandler
  <1>4. Undoing(c) => Undoing(c)'
    BY <1>1, <1>2 DEF Undoing
  <1>. QED
    BY <1>1, <1>2, <1>3, <1>4 DEF Served

LEMMA PacketServed ==
  ASSUME IInv, NEW c \in Clients, Batched(c), Served(c), before \in LimitsType, before' = before,
         OpStep(c) \/ DmaStep(c)
  PROVE  Served(c)'
  <1>1. pc[c] \in InPacket
    BY OpKeepsOrReturns, DmaKeepsOrReturns
  <1>2. CASE /\ Handler[Pkt(c).op] \in LimitOps /\ Return(c, TRUE)
             /\ Limits' = Serial!Effect(Limits, Pkt(c))
    BY <1>1, <1>2, ReturnServed
  <1>3. CASE /\ Handler[Pkt(c).op] \notin LimitOps /\ Limits' = Limits
             /\ Keeps(c) \/ \E ok \in BOOLEAN : Return(c, ok)
    <2>1. Limits' = Serial!Effect(Limits, Pkt(c))
      BY <1>3, OtherEffect
    <2>. QED
      BY <1>1, <1>3, <2>1, ReturnServed, KeepsServed
  <1>. QED
    BY <1>2, <1>3, PacketLimits

\* The steps of the loops: a packet passed over or refused has no effect.
LEMMA LoopServed ==
  ASSUME IInv, NEW c \in Clients, Batched(c), Served(c), before \in LimitsType, before' = before,
         LoopStep(c), lock' # NoClient
  PROVE  Served(c)'
  <1>. USE DEF IInv, TypeOK
  <1>1. Limits' = Limits
    BY DEF LoopStep, CrcFail, SkipPacket, Dispatch, EndOfBatch, ExecuteReturn, StartRollback,
       RollbackStep, RollbackEnd, devvars, limvars, Limits
  <1>2. pc[c] \in InBatch
    BY DEF InBatch, InHandler, LoopStep, CrcFail, SkipPacket, Dispatch, EndOfBatch,
       ExecuteReturn, StartRollback, RollbackStep, RollbackEnd, AtPacket
  <1>3. /\ Progress(c) /\ f[c] \in Frame /\ f[c].mode \in {"forward", "azoth"}
        /\ req[c].pkts \in Seq(Packet) /\ req[c].azoth \in Seq(Packet)
        /\ Stop(c) - 1 \in 0 .. Len(req[c].pkts) /\ f[c].i \in Nat \ {0}
    BY <1>2, RunningTyped
  <1>4. ASSUME pc[c] = "fwd"
        PROVE  /\ f[c].mode = "forward" /\ f[c].status = "OK" /\ Stop(c) = f[c].i
               /\ Limits = Serial!After(before, req[c].pkts, f[c].i - 1)
               /\ Batch(c) = req[c].pkts
    BY <1>2, <1>3, <1>4 DEF Local, Progress, Stop, Served, Batch
  <1>5. ASSUME NEW s \in Status \ {"OK"}, pc[c] = "fwd", Break(c, s)
        PROVE  Served(c)'
    <2>1. /\ pc'[c] = "fin" /\ req'[c] = req[c] /\ f'[c].errpkt = f[c].i
          /\ f'[c].status = s /\ f'[c].mode = "forward"
      BY <1>3, <1>4, <1>5 DEF CallTypeOK, Frame, Break, Goto
    <2>2. Stop(c)' = f[c].i
      BY <2>1 DEF Stop
    <2>. QED
      BY <1>1, <1>4, <1>5, <2>1, <2>2 DEF Served, InPacket
  <1>6. CASE CrcFail(c)
    BY <1>5, <1>6 DEF CrcFail, AtPacket, Status
  <1>7. CASE SkipPacket(c)
    <2>1. /\ pc[c] = "fwd" /\ f[c].i \in 1 .. Len(req[c].pkts)
          /\ ~Forward(req[c].pkts[f[c].i])
      BY <1>3, <1>4, <1>7 DEF SkipPacket, AtPacket, Pkt
    <2>2. /\ pc'[c] = "fwd" /\ req'[c] = req[c] /\ f'[c].i = f[c].i + 1
          /\ f'[c].status = f[c].status /\ f'[c].mode = f[c].mode
      BY <1>3, <1>7, <2>1 DEF SkipPacket, CallTypeOK, Frame
    <2>3. Limits' = Serial!After(before, req[c].pkts, f[c].i)
      BY <1>1, <1>3, <1>4, <2>1, AfterSteps
    <2>4. Stop(c)' - 1 = f[c].i
      BY <1>3, <1>4, <2>1, <2>2 DEF Stop
    <2>. QED
      BY <1>4, <2>1, <2>2, <2>3, <2>4 DEF Served, InPacket
  <1>8. CASE Dispatch(c)
    <2>1. pc[c] = "fwd" /\ (Break(c, "THERMAL") \/ Break(c, "ERROR") \/ (Goto(c, "op") /\ f' = f))
      BY <1>8 DEF Dispatch, AtPacket
    <2>2. CASE Goto(c, "op") /\ f' = f
      <3>1. pc'[c] = "op" /\ req'[c] = req[c] /\ f'[c] = f[c]
        BY <2>2 DEF Goto, CallTypeOK
      <3>2. Stop(c)' = Stop(c)
        BY <3>1 DEF Stop
      <3>. QED
        BY <1>1, <1>4, <2>1, <3>1, <3>2 DEF Served
    <2>. QED
      BY <1>5, <2>1, <2>2 DEF Status
  <1>9. CASE EndOfBatch(c)
    <2>1. pc[c] = "fwd" /\ pc'[c] = "fin" /\ req'[c] = req[c] /\ f'[c] = f[c]
      BY <1>9 DEF EndOfBatch, Goto, CallTypeOK
    <2>2. Stop(c)' = Stop(c)
      BY <2>1 DEF Stop
    <2>. QED
      BY <1>1, <1>4, <2>1, <2>2 DEF Served, InPacket
  <1>10. CASE StartRollback(c)
    <2>1. /\ pc[c] = "fin" /\ f[c].mode = "forward" /\ f[c].status # "OK" /\ req[c].azoth # << >>
      BY <1>10 DEF StartRollback, NeedsRollback, Local
    <2>2. /\ pc'[c] = "azoth" /\ req'[c] = req[c] /\ f'[c].mode = "azoth"
          /\ f'[c].i = 1 /\ f'[c].errpkt = f[c].errpkt
      BY <1>3, <1>10 DEF StartRollback, Goto, CallTypeOK, Frame
    <2>. DEFINE l == Serial!After(before, req[c].pkts, f[c].errpkt - 1)
    <2>3. l \in LimitsType /\ Limits = l
      BY <1>2, <1>3, <2>1, AfterSteps DEF Stop, Served
    <2>4. Serial!Run(l, req[c].azoth, Marked(req[c].azoth))[0] = l
      <3>. HIDE DEF l
      <3>. QED
        BY <1>3, <2>3, RunSteps
    <2>5. 1 - 1 = 0 /\ 1 \in 1 .. Len(req[c].azoth) + 1
      BY <1>3
    <2>6. Undoing(c)'
      BY <1>1, <2>1, <2>2, <2>3, <2>4, <2>5 DEF Undoing, InPacket
    <2>. QED
      BY <2>2, <2>6 DEF Served, InPacket
  <1>11. CASE RollbackStep(c)
    <2>1. f[c].mode = "azoth" /\ pc[c] = "azoth" /\ Undoing(c) /\ Pkt(c) = req[c].azoth[f[c].i]
          /\ f[c].i \in 1 .. Len(req[c].azoth)
      BY <1>3, <1>11 DEF RollbackStep, Local, Served, Pkt, Batch
    <2>. DEFINE s == req[c].azoth
                l == Serial!After(before, req[c].pkts, f[c].errpkt - 1)
                i == f[c].i
    <2>2. l \in LimitsType
      BY <1>3, <2>1, AfterSteps DEF Stop
    <2>3. CASE "AZOTH" \in Pkt(c).flags /\ Handler[Pkt(c).op] # "NULL"
      <3>1. pc'[c] = "op" /\ req'[c] = req[c] /\ f'[c] = f[c]
        BY <1>11, <2>3 DEF RollbackStep, Goto, CallTypeOK
      <3>2. Pkt(c)' = Pkt(c)
        BY <3>1 DEF Pkt, Batch
      <3>3. Undoing(c)'
        BY <1>1, <2>1, <2>3, <3>1, <3>2 DEF Undoing
      <3>. QED
        BY <2>1, <3>1, <3>3 DEF Served
    <2>4. CASE ~("AZOTH" \in Pkt(c).flags /\ Handler[Pkt(c).op] # "NULL")
      <3>1. /\ pc'[c] = "azoth" /\ req'[c] = req[c] /\ f'[c].mode = "azoth"
            /\ f'[c].i = f[c].i + 1 /\ f'[c].errpkt = f[c].errpkt
        BY <1>3, <1>11, <2>1, <2>4 DEF RollbackStep, CallTypeOK, Frame
      <3>2. Limits = Serial!Run(l, s, Marked(s))[i - 1] /\ s \in Seq(Packet) /\ i \in 1 .. Len(s)
        BY <1>3, <2>1 DEF Undoing
      <3>3. "AZOTH" \notin s[i].flags \/ Serial!Effect(Limits, s[i]) = Limits
        BY <2>1, <2>4, OtherEffect DEF LimitOps
      <3>4. Limits' = Serial!Run(l, s, Marked(s))[i]
        <4>. HIDE DEF l, s, i
        <4>. QED
          BY <1>1, <2>2, <3>2, <3>3, UndoneSteps
      <3>5. (i + 1) - 1 = i /\ i + 1 \in 1 .. Len(s) + 1
        BY <1>3, <2>1
      <3>6. Undoing(c)'
        BY <2>1, <3>1, <3>4, <3>5 DEF Undoing, InPacket
      <3>. QED
        BY <3>1, <3>6 DEF Served, InPacket
    <2>. QED
      BY <2>3, <2>4
  <1>12. ~ExecuteReturn(c) /\ ~RollbackEnd(c)
    BY DEF ExecuteReturn, RollbackEnd, Finish
  <1>. QED
    BY <1>6, <1>7, <1>8, <1>9, <1>10, <1>11, <1>12 DEF LoopStep

\* Two ways an ioctl can end: with the limits it found or left in place by one
\* request, or with nothing changed.
LEMMA IoctlServed ==
  ASSUME IInv, NEW c \in Clients, Served(c), before \in LimitsType, IoctlStep(c), Observe
  PROVE  /\ lock' # NoClient => Served(c)'
         /\ before' = before \/ Serial!Serve(req[c])
  <1>. USE DEF IInv, TypeOK
  <1>1. pc[c] = "ioctl" /\ Limits = before
    BY DEF Served, IoctlStep, LoadVial, SetSafety, ReadThermal, GetState, OtherIoctl,
       ArgumentFault, Execute
  <1>2. ASSUME lock' = NoClient
        PROVE  before' = Limits'
    BY <1>2 DEF Observe
  <1>3. CASE LoadVial(c)
    <2>. DEFINE h == IF req[c].vessels > 0 /\ req[c].halt > 0 THEN req[c].halt ELSE halt
                t == IF req[c].vessels > 0 /\ req[c].throttle > 0
                     THEN req[c].throttle ELSE throttle
    <2>1. lock' = NoClient /\ safety' = safety /\ halt' = h /\ throttle' = t
          /\ req[c].cmd = "LOAD_VIAL"
      BY <1>3 DEF LoadVial, Finish
    <2>2. before = [safety |-> safety, halt |-> halt, throttle |-> throttle]
      BY <1>1 DEF Limits
    <2>3. before' = [safety |-> safety, halt |-> h, throttle |-> t]
      <3>. HIDE DEF h, t
      <3>. QED
        BY <1>2, <2>1 DEF Limits
    <2>4. CASE req[c].vessels > 0
      <3>1. /\ h = IF req[c].halt > 0 THEN req[c].halt ELSE before.halt
            /\ t = IF req[c].throttle > 0 THEN req[c].throttle ELSE before.throttle
            /\ safety = before.safety
        BY <2>2, <2>4
      <3>. HIDE DEF h, t
      <3>. QED
        BY <2>1, <2>3, <2>4, <3>1 DEF Serial!Serve
    <2>5. CASE ~(req[c].vessels > 0)
      <3>1. h = halt /\ t = throttle
        BY <2>5
      <3>. QED
        BY <2>1, <2>2, <2>3, <3>1
    <2>. QED
      BY <2>1, <2>4, <2>5
  <1>4. CASE SetSafety(c)
    <2>1. lock' = NoClient /\ Limits' = [before EXCEPT !.safety = req[c].level]
      BY <1>1, <1>4 DEF SetSafety, Finish, Limits
    <2>. QED
      BY <1>2, <1>4, <2>1 DEF SetSafety, Serial!Serve
  <1>5. CASE ReadThermal(c) \/ GetState(c) \/ OtherIoctl(c) \/ ArgumentFault(c)
    <2>1. lock' = NoClient /\ Limits' = Limits
      BY <1>5 DEF ReadThermal, GetState, OtherIoctl, ArgumentFault, Finish, devvars, limvars, Limits
    <2>. QED
      BY <1>1, <1>2, <2>1
  <1>6. CASE Execute(c)
    <2>1. Limits' = Limits
      BY <1>6 DEF Execute, devvars, limvars, Limits
    <2>2. CASE Malformed(req[c])
      BY <1>1, <1>2, <1>6, <2>1, <2>2 DEF Execute, Finish
    <2>3. CASE ~Malformed(req[c])
      <3>1. /\ pc'[c] \in {"fwd", "oops"} /\ f'[c].mode = "forward" /\ f'[c].status = "OK" /\ f'[c].i = 1
            /\ req' = req /\ lock' = lock
        BY <1>6, <2>3 DEF Execute, Frame0, CallTypeOK
      <3>2. lock # NoClient
        BY <1>1, ClientsAssumption DEF LockHeld, InHandler
      <3>3. before' = before
        BY <3>1, <3>2 DEF Observe
      <3>4. Stop(c)' - 1 = 0
        BY <3>1 DEF Stop
      <3>5. Serial!After(before, req[c].pkts, 0) = before
        BY AfterSteps, RequestTyped DEF CallTypeOK
      <3>. QED
        BY <1>1, <2>1, <3>1, <3>3, <3>4, <3>5 DEF Served, InPacket
    <2>. QED
      BY <2>2, <2>3
  <1>. QED
    BY <1>3, <1>4, <1>5, <1>6 DEF IoctlStep

\* The end of a batch hands over what its packets, and its rollback, made of
\* the limits.
LEMMA BatchServed ==
  ASSUME IInv, NEW c \in Clients, Batched(c), Served(c), before \in LimitsType, LoopStep(c),
         Observe, lock' = NoClient
  PROVE  Serial!Serve(req[c])
  <1>. USE DEF IInv, TypeOK
  <1>1. pc[c] \in InBatch
    BY DEF InBatch, InHandler, LoopStep, CrcFail, SkipPacket, Dispatch, EndOfBatch,
       ExecuteReturn, StartRollback, RollbackStep, RollbackEnd, AtPacket
  <1>2. /\ Progress(c) /\ f[c].mode \in {"forward", "azoth"}
        /\ req[c].pkts \in Seq(Packet) /\ req[c].azoth \in Seq(Packet)
        /\ Stop(c) - 1 \in 0 .. Len(req[c].pkts) /\ f[c].i \in Nat \ {0}
        /\ f[c].status # "OK" => Stop(c) - 1 \in 0 .. Len(req[c].pkts) - 1
    BY <1>1, RunningTyped
  <1>3. lock = c /\ c # NoClient
    BY <1>1, ClientsAssumption DEF LockHeld, InBatch
  <1>4. ExecuteReturn(c) \/ RollbackEnd(c)
    BY <1>3 DEF LoopStep, CrcFail, SkipPacket, Dispatch, EndOfBatch, StartRollback, RollbackStep,
       Break, Goto
  <1>5. before' = Limits
    BY <1>4 DEF Observe, ExecuteReturn, RollbackEnd, devvars, limvars, Limits
  <1>6. CASE ExecuteReturn(c)
    <2>1. f[c].mode = "forward"
      BY <1>6 DEF ExecuteReturn, Local
    <2>2. Limits = Serial!After(before, req[c].pkts, Stop(c) - 1)
      BY <1>1, <2>1 DEF Served
    <2>. QED
      BY <1>2, <1>5, <2>2 DEF Progress, Serial!Serve
  <1>7. CASE RollbackEnd(c)
    <2>1. f[c].mode = "azoth"
      BY <1>7 DEF RollbackEnd, Local
    <2>2. /\ req[c].cmd = "EXECUTE_SAFE" /\ Stop(c) = f[c].errpkt
          /\ f[c].errpkt - 1 \in 0 .. Len(req[c].pkts) - 1
      BY <1>2, <2>1 DEF Progress, Stop
    <2>3. Undoing(c) /\ f[c].i > Len(req[c].azoth)
      BY <1>7, <2>1 DEF RollbackEnd, Served
    <2>4. f[c].i - 1 = Len(req[c].azoth)
      <3>1. Len(req[c].azoth) \in Nat /\ f[c].i \in 1 .. Len(req[c].azoth) + 1
            /\ f[c].i > Len(req[c].azoth)
        BY <1>2, <2>3 DEF Undoing
      <3>. QED
        BY <3>1
    <2>5. Limits = Serial!Undone(Serial!After(before, req[c].pkts, f[c].errpkt - 1), req[c].azoth)
      BY <2>3, <2>4 DEF Undoing, Serial!Undone, Marked
    <2>. QED
      BY <1>5, <2>2, <2>3, <2>5 DEF Undoing, Serial!Serve
  <1>. QED
    BY <1>4, <1>6, <1>7

LEMMA LimitNext ==
  ASSUME IInv, BatchInv, LimitInv, [Next]_vars, Observe
  PROVE  LimitInv' /\ (before' = before \/ \E r \in Requests : Serial!Serve(r))
  <1>. USE DEF IInv, TypeOK
  <1>0. IInv'
    BY NextInv
  <1>1. before' \in LimitsType /\ (lock' = NoClient => Limits' = before')
    <2>1. Limits' \in LimitsType
      BY <1>0 DEF DeviceTypeOK, Limits, LimitsType
    <2>. QED
      BY <2>1 DEF Observe, LimitInv
  <1>2. ASSUME NEW c \in Clients, pc[c] \notin InHandler, pc'[c] = pc[c], f'[c] = f[c]
        PROVE  Served(c)'
    <2>1. f[c].mode = "forward" /\ pc[c] # "ioctl" /\ pc[c] \notin InBatch /\ pc[c] \notin InPacket
      BY <1>2 DEF BatchInv, Batched, InBatch, InHandler, InPacket
    <2>. QED
      BY <1>2, <2>1 DEF Served
  <1>4. ASSUME NEW c \in Clients, HandlerStep(c)
        PROVE  LimitInv' /\ (before' = before \/ Serial!Serve(req[c]))
    <2>1. Moves(c) /\ \A d \in Clients : d # c => pc[d] \notin InHandler
      BY <1>4, HandlerMoves, OnlyOwner DEF Moves
    <2>2. \A d \in Clients : d # c => pc'[d] = pc[d] /\ f'[d] = f[d]
      BY <2>1 DEF Moves, CallTypeOK
    <2>3. Batched(c) /\ Served(c) /\ before \in LimitsType
      BY DEF BatchInv, LimitInv
    <2>4. lock' # NoClient => before' = before
      BY DEF Observe
    <2>5. CASE lock' # NoClient
      <3>1. Served(c)'
        BY <1>4, <2>3, <2>4, <2>5, IoctlServed, LoopServed, PacketServed DEF HandlerStep
      <3>2. \A d \in Clients : Served(d)'
        BY <1>2, <2>1, <2>2, <3>1
      <3>. QED
        BY <1>1, <2>4, <2>5, <3>2 DEF LimitInv
    <2>6. CASE lock' = NoClient
      <3>1. pc'[c] = "idle" /\ IInv'
        BY <1>0, <2>1, <2>6, ClientsAssumption DEF Moves, LockHeld, CallTypeOK
      <3>2. f'[c].mode = "forward"
        BY <1>4, <2>3, <3>1, HandlerBatched DEF Batched, InBatch, InHandler
      <3>3. Served(c)'
        BY <3>1, <3>2 DEF Served, InBatch, InHandler, InPacket
      <3>4. \A d \in Clients : Served(d)'
        BY <1>2, <2>1, <2>2, <3>3
      <3>5. before' = before \/ Serial!Serve(req[c])
        <4>1. CASE IoctlStep(c)
          BY <2>3, <4>1, IoctlServed
        <4>2. CASE LoopStep(c)
          BY <2>3, <2>6, <4>2, BatchServed
        <4>3. CASE OpStep(c) \/ DmaStep(c)
          BY <3>1, <4>3, OpKeepsOrReturns, DmaKeepsOrReturns, ReturnTested DEF Keeps, Busy, InPacket
        <4>. QED
          BY <1>4, <4>1, <4>2, <4>3 DEF HandlerStep
      <3>. QED
        BY <1>1, <3>4, <3>5 DEF LimitInv
    <2>. QED
      BY <2>5, <2>6
  <1>5. ASSUME UNCHANGED <<lock, pc, req, f, safety, halt, throttle>>
        PROVE  LimitInv' /\ before' = before
    <2>1. Limits' = Limits /\ before' = before
      BY <1>5 DEF Limits, Observe, LimitInv
    <2>2. ASSUME NEW c \in Clients
          PROVE  Served(c)'
      BY <1>5, <2>1 DEF LimitInv, Served, Undoing, Stop, Pkt, Batch
    <2>. QED
      BY <1>1, <2>1, <2>2 DEF LimitInv
  <1>6. ASSUME NEW c \in Clients, NEW r \in Requests, Call(c, r) \/ Acquire(c)
        PROVE  LimitInv' /\ before' = before
    <2>1. Limits' = Limits
      BY <1>6 DEF Call, Acquire, devvars, limvars, Limits
    <2>2. before' = before
      <3>1. Acquire(c) => lock' = c /\ c # NoClient
        BY ClientsAssumption DEF Acquire
      <3>2. Call(c, r) => lock' = lock
        BY DEF Call
      <3>. QED
        BY <1>6, <2>1, <3>1, <3>2 DEF Observe, LimitInv
    <2>3. ASSUME NEW d \in Clients
          PROVE  Served(d)'
      <3>1. CASE d = c
        <4>1. pc[d] \in {"idle", "wait"} /\ pc'[d] \in {"wait", "ioctl"} /\ f'[d] = f[d]
              /\ (pc'[d] = "ioctl" => lock = NoClient)
          BY <1>6, <3>1 DEF Call, Acquire, CallTypeOK
        <4>2. f[d].mode = "forward"
          BY <4>1 DEF BatchInv, Batched, InBatch, InHandler
        <4>. QED
          BY <2>1, <2>2, <4>1, <4>2 DEF LimitInv, Served, InBatch, InHandler, InPacket
      <3>2. CASE d # c
        <4>1. pc'[d] = pc[d] /\ f'[d] = f[d] /\ req'[d] = req[d]
          BY <1>6, <3>2 DEF Call, Acquire, CallTypeOK
        <4>. QED
          BY <2>1, <2>2, <4>1 DEF LimitInv, Served, Undoing, Stop, Pkt, Batch
      <3>. QED
        BY <3>1, <3>2
    <2>. QED
      BY <1>1, <2>2, <2>3 DEF LimitInv
  <1>7. CASE BusStep
    BY <1>5, <1>7, BusTyped DEF callvars, limvars
  <1>8. CASE UNCHANGED vars
    BY <1>5, <1>8 DEF vars, callvars, devvars, limvars
  <1>. QED
    BY <1>4, <1>6, <1>7, <1>8, RequestsAssumption DEF Next, CallTypeOK

\* In what they do to the limits the ioctls are as good as atomic, however the
\* threads interleave and however long their batches are (vitriol_ioctl).
THEOREM LimitsSerialise == HSpec => LimitsAreSerial
  <1>1. HInit => LimitInv /\ Serial!Init
    <2>. SUFFICES ASSUME HInit PROVE LimitInv /\ Serial!Init
      OBVIOUS
    <2>1. /\ before = [safety |-> 1, halt |-> 0, throttle |-> 0] /\ before = Limits
          /\ \A c \in Clients : pc[c] = "idle" /\ f[c].mode = "forward"
      BY DEF HInit, Init, Limits, Frame0
    <2>2. \A c \in Clients : Served(c)
      BY <2>1 DEF Served, InBatch, InHandler, InPacket
    <2>. QED
      BY <2>1, <2>2 DEF LimitInv, LimitsType, Serial!Init, Serial!Limits0
  <1>2. IInv /\ BatchInv /\ LimitInv /\ [HNext]_<<vars, histvars>>
          => LimitInv' /\ [Serial!Next]_before
    <2>. SUFFICES ASSUME IInv, BatchInv, LimitInv, [HNext]_<<vars, histvars>>
                  PROVE  LimitInv' /\ [Serial!Next]_before
      OBVIOUS
    <2>1. CASE HNext
      BY <2>1, LimitNext DEF HNext, Serial!Next
    <2>2. CASE UNCHANGED <<vars, histvars>>
      <3>1. UNCHANGED <<lock, pc, req, f, safety, halt, throttle, before>>
        BY <2>2 DEF vars, callvars, devvars, limvars, histvars
      <3>2. ASSUME NEW c \in Clients
            PROVE  Served(c)'
        BY <3>1 DEF LimitInv, Served, Undoing, Stop, Pkt, Batch, Limits
      <3>. QED
        BY <3>1, <3>2 DEF LimitInv, Limits
    <2>. QED
      BY <2>1, <2>2
  <1>. QED
    BY <1>1, <1>2, HistoryImplements, Invariance, BatchInvariance, PTL
    DEF HSpec, LimitsAreSerial, Serial!Spec
====
