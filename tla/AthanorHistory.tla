--------------------------- MODULE AthanorHistory ---------------------------
(***************************************************************************)
(* Athanor with history variables, for the properties that relate the end  *)
(* of an ioctl to its start.  They are observers: no guard of the driver   *)
(* reads them.                                                             *)
(***************************************************************************)
EXTENDS AthanorProps

VARIABLES
  before,   \* the limits when the mutex was last free
  base      \* the VRAM window and the ranges the running transfer started with

histvars == <<before, base>>

Limits == [safety |-> safety, halt |-> halt, throttle |-> throttle]

Seen == [win |-> win, bars |-> bars]

HInit == Init /\ before = Limits /\ base = Seen

InTransfer == \E c \in Clients : pc[c] \in {"dma", "copy"}

Observe ==
  /\ before' = IF lock' = NoClient THEN Limits' ELSE before
  /\ base' = IF InTransfer /\ InTransfer' THEN base ELSE Seen'

HNext == Next /\ Observe
HSpec == HInit /\ [][HNext]_<<vars, histvars>>

\* The ioctls are serialisable in what they do to the limits: a thermal limit
\* another client set is neither lost nor seen half way through a batch.
Serial == INSTANCE SerialLimits WITH limits <- before
LimitsAreSerial == Serial!Spec

\* The ranges are the ones the transfer began with, and its window is a multiple
\* of the aperture: a probe in between, or before with another aperture, can
\* break either.
Steady == bars = base.bars /\ base.win % bars.bar1.len = 0

\* Both halves of a chunk reach the VRAM they would through the first window.
InPlace(vram, a, o, w) == vram => VramAt(a, o, w) = VramAt(a, o, base.win)
ChunkInPlace(c) ==
  /\ InPlace(FromBar1(XferSrc(c)), XferSrc(c), f[c].off, win)
  /\ InPlace(ToBar1(XferDst(c)), XferDst(c), f[c].off, WinRead(c))

\* The k-th bounce buffer of a transfer goes from the k-th place after the
\* source to the k-th place after the destination, VRAM seen through the window
\* the transfer started with, as long as the ranges stay and one that starts in
\* the window ends in it: a shift on behalf of one side never moves the other
\* (vitriol_dma_transfer).
EndsInWindow(vram, a, n) == vram => a + n <= bars.bar1.phys + bars.bar1.len
KeepsToWindow(c) ==
  /\ EndsInWindow(FromBar1(XferSrc(c)), XferSrc(c), XferSize(c))
  /\ EndsInWindow(ToBar1(XferDst(c)), XferDst(c), XferSize(c))

LandsInPlace ==
  \A c \in Clients : pc[c] = "copy" /\ Steady /\ KeepsToWindow(c) => ChunkInPlace(c)

\* The same of a transfer that runs past the end of the window, for which the
\* window slides (the comment of op_flow).
WindowSlides == \A c \in Clients : pc[c] = "copy" /\ Steady => ChunkInPlace(c)

\* A rollback leaves the limits as the batch found them.
RollbackRestoresLimits ==
  [][\A c \in Clients : pc[c] = "azoth" /\ pc'[c] = "idle" => Limits = before]_<<vars, histvars>>

\* A batch never stops at a CLAIM for want of a handler.
ClaimIsKnown ==
  \A c \in Clients :
    pc[c] = "fin" /\ f[c].status = "ERROR" => Handler[Pkt(c).op] # "NULL" \/ Pkt(c).op # 1
=============================================================================
