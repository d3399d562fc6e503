------------------------------- MODULE Athanor -------------------------------
(***************************************************************************)
(* The kernel driver: src/athanor.  Client threads issue ioctls on         *)
(* /dev/vitriol; the handler of each runs under one mutex and walks its    *)
(* batch of packets, packet by packet, through the opcode handlers.  The   *)
(* PCI core calls probe and remove at any moment, and neither takes that   *)
(* mutex.                                                                  *)
(*                                                                         *)
(* A step is what runs between two points where another thread's access to *)
(* the device structure can matter: a thermal check, one bounce buffer     *)
(* copy, one poll of a FENCE, one store of probe or remove.                *)
(*                                                                         *)
(* Sizes and addresses are counted in bounce buffers (DMA_BUFFER_SIZE).    *)
(***************************************************************************)
EXTENDS Naturals, Sequences, FiniteSets

CONSTANTS
  Clients,        \* threads with /dev/vitriol open
  NoClient,       \* the mutex is free
  Requests,       \* the ioctl arguments the clients may pass
  Handler,        \* opcode_handlers: opcode -> handler name or "NULL"
  Readings,       \* what the hwmon sensor can say; 0 is "no sensor"
  MaxPolls,       \* timeout_ms of op_fence: the number of polls it makes
  CardBars,       \* pci_resource_start and _len of BAR0 and BAR1 of the card
  KnownId, KnownBars,   \* 10de:1401 and the ranges op_claim knows for it
  DefaultBars,    \* the ranges it takes without id and device
  SliceDefault,   \* the 256MB chunk of a SLICE without a size
  Bar1Maps,       \* outcomes of mapping BAR1 the environment can produce
  Shortages,      \* the allocations of probe that may fail
  Unplug          \* whether the driver can be unbound from the card

Flags == {"AZOTH", "DRY_RUN", "THERMAL_CHECK"}

HandlerNames ==
  {"op_claim", "op_flow", "op_shift", "op_fence", "op_sense", "op_snap",
   "op_revert", "op_molt", "op_limit", "op_guard", "op_veil", "op_quench",
   "op_isolate", "op_occupy", "op_echo", "op_audit", "op_pipe", "op_refract",
   "op_noop"}

U16 == 0 .. 65535

\* struct alka_drop: crcok stands for compute_crc(pkt) = pkt->crc.  The 64 bit
\* fields hold values below 2^32, so no u32 conversion in the driver cuts them.
Packet == [op : 0 .. 255, flags : SUBSET Flags, vessel : U16,
           src : Nat, dst : Nat, size : Nat, crcok : BOOLEAN]

Commands == {"LOAD_VIAL", "EXECUTE", "EXECUTE_SAFE", "GET_STATE", "SET_SAFETY",
             "READ_THERMAL", "OTHER"}

\* sizeof(struct alka_drop), the stride of every walk over packets
DropSize == 32

\* An ioctl and what its argument points to.  vessels, halt and throttle are
\* the vial's, level is SET_SAFETY's.  pkts and azoth are what a walk by
\* DropSize finds; psize is the packet_size the arrays are allocated by, so
\* with a smaller one the last packets are whatever lies behind the array.
Request == [cmd : Commands, pkts : Seq(Packet), azoth : Seq(Packet), psize : Nat,
            vessels : Nat, halt : Nat, throttle : Nat, level : Nat]

\* The ranges of BAR0 and BAR1 in the physical address space.
BarRange == [phys : Nat, len : Nat]
Bars  == [bar0 : BarRange, bar1 : BarRange]

ASSUME ClientsAssumption  == Clients # {} /\ NoClient \notin Clients
ASSUME RequestsAssumption == Requests # {} /\ Requests \subseteq Request
ASSUME HandlerAssumption  == Handler \in [0 .. 255 -> HandlerNames \cup {"NULL"}]
ASSUME NumberAssumption   ==
  /\ MaxPolls \in Nat /\ Readings \subseteq Nat /\ Readings # {}
  /\ SliceDefault \in Nat \ {0}
ASSUME BarsAssumption    ==
  \A b \in {CardBars, KnownBars, DefaultBars} : b \in Bars /\ b.bar1.len # 0
ASSUME OutcomeAssumption  ==
  /\ Bar1Maps \subseteq BOOLEAN /\ Bar1Maps # {}
  /\ Shortages \subseteq {"buffer", "page"}
  /\ Unplug \in BOOLEAN

VARIABLES
  lock,         \* vdev->lock: its owner
  pc,           \* where each client's thread is
  req,          \* the client's current (or last) ioctl
  f,            \* the locals of its handler: struct exec_result and loop counters
  ans,          \* what the last ioctl gave back
  \* struct vitriol_device
  pdev,
  bars,         \* bar0_phys, bar0_len, bar1_phys, bar1_len
  bar0, bar1, win, initialized, buf, page, metaval,
  safety, halt, throttle, temp,
  \* the card and the driver core
  cmd, d3, drv

callvars == <<lock, pc, req, f, ans>>
mapvars  == <<bars, bar0, bar1, win, initialized>>
memvars  == <<buf, page>>
limvars  == <<safety, halt, throttle>>
busvars  == <<pdev, cmd, d3, drv>>
devvars  == <<mapvars, memvars, limvars, busvars, metaval, temp>>
vars     == <<callvars, devvars>>

Status  == {"OK", "ERROR", "THERMAL", "CRC_FAIL"}
Errnos  == {"0", "EIO", "EINVAL", "EFAULT", "ENOTTY"}
Frame   == [mode : {"forward", "azoth"}, i : Nat \ {0}, drop : Nat, off : Nat, polls : Nat,
            status : Status, executed : Nat, errpkt : Nat, peak : Nat]
Answer  == [ret : Errnos \cup {"none"}, status : Status \cup {"none"},
            executed : Nat, errpkt : Nat, peak : Nat]

Frame0   == [mode |-> "forward", i |-> 1, drop |-> 0, off |-> 0, polls |-> 0,
             status |-> "OK", executed |-> 0, errpkt |-> 0, peak |-> 0]
NoAnswer == [ret |-> "none", status |-> "none", executed |-> 0, errpkt |-> 0, peak |-> 0]

\* Points of the code between mutex_lock and mutex_unlock.
InHandler == {"ioctl", "fwd", "op", "config", "dma", "copy", "slice", "signal",
              "fence", "fin", "azoth", "oops"}
Points    == {"idle", "wait"} \cup InHandler

\* The packets the client's handler walks, and the one it is at.
Batch(c) == IF f[c].mode = "azoth" THEN req[c].azoth ELSE req[c].pkts
Pkt(c)   == Batch(c)[f[c].i]
Running(c, h) == pc[c] = "op" /\ Handler[Pkt(c).op] = h

\* A packet execute_packets hands to its handler.
Forward(p) == p.flags \cap {"AZOTH", "DRY_RUN"} = {}

Larger(x, y) == IF x >= y THEN x ELSE y

-----------------------------------------------------------------------------
(* vitriol_init: kzalloc, and safety_level = 1.  The card is found decoding, *)
(* as its firmware or another driver left it.                              *)
Init ==
  /\ lock = NoClient
  /\ pc = [c \in Clients |-> "idle"]
  /\ req = [c \in Clients |-> CHOOSE r \in Requests : TRUE]
  /\ f = [c \in Clients |-> Frame0]
  /\ ans = [c \in Clients |-> NoAnswer]
  /\ bars = [bar0 |-> [phys |-> 0, len |-> 0], bar1 |-> [phys |-> 0, len |-> 0]]
  /\ pdev = FALSE /\ bar0 = FALSE /\ bar1 = FALSE /\ win = 0 /\ initialized = FALSE
  /\ buf = "null" /\ page = "null" /\ metaval = 0
  /\ safety = 1 /\ halt = 0 /\ throttle = 0 /\ temp = 0
  /\ cmd = {"MEMORY", "MASTER"} /\ d3 = FALSE /\ drv = "none"

-----------------------------------------------------------------------------
(* vitriol_ioctl: the mutex is held over the whole handler. *)

Call(c, r) ==
  /\ pc[c] = "idle"
  /\ pc' = [pc EXCEPT ![c] = "wait"]
  /\ req' = [req EXCEPT ![c] = r]
  /\ ans' = [ans EXCEPT ![c] = NoAnswer]
  /\ UNCHANGED <<lock, f, devvars>>

\* Mutant: the handler is entered without waiting for the mutex.
AcquireUnlocked(c) ==
  /\ pc[c] = "wait"
  /\ lock' = c
  /\ pc' = [pc EXCEPT ![c] = "ioctl"]
  /\ UNCHANGED <<req, f, ans, devvars>>

Acquire(c) ==
  /\ pc[c] = "wait" /\ lock = NoClient
  /\ lock' = c
  /\ pc' = [pc EXCEPT ![c] = "ioctl"]
  /\ UNCHANGED <<req, f, ans, devvars>>

\* Mutant: a return path that misses its mutex_unlock.
FinishLocked(c, a) ==
  /\ UNCHANGED <<lock, req>>
  /\ pc' = [pc EXCEPT ![c] = "idle"]
  /\ f' = [f EXCEPT ![c] = Frame0]
  /\ ans' = [ans EXCEPT ![c] = a]

\* The handler's return value reaches the client and the mutex is released.
Finish(c, a) ==
  /\ lock' = NoClient
  /\ pc' = [pc EXCEPT ![c] = "idle"]
  /\ f' = [f EXCEPT ![c] = Frame0]
  /\ ans' = [ans EXCEPT ![c] = a]
  /\ UNCHANGED req

Plain(r) == [NoAnswer EXCEPT !.ret = r]

\* vitriol_ioctl_load_vial: a zero limit leaves the old one in force.
LoadVial(c) ==
  /\ pc[c] = "ioctl" /\ req[c].cmd = "LOAD_VIAL"
  /\ halt' = IF req[c].vessels > 0 /\ req[c].halt > 0 THEN req[c].halt ELSE halt
  /\ throttle' = IF req[c].vessels > 0 /\ req[c].throttle > 0
                 THEN req[c].throttle ELSE throttle
  /\ Finish(c, Plain("0"))
  /\ UNCHANGED <<safety, mapvars, memvars, busvars, metaval, temp>>

SetSafety(c) ==
  /\ pc[c] = "ioctl" /\ req[c].cmd = "SET_SAFETY"
  /\ safety' = req[c].level
  /\ Finish(c, Plain("0"))
  /\ UNCHANGED <<halt, throttle, mapvars, memvars, busvars, metaval, temp>>

\* The sensor is read, and remembered, before put_user can fail.
ReadThermal(c) ==
  /\ pc[c] = "ioctl" /\ req[c].cmd = "READ_THERMAL"
  /\ temp' \in Readings
  /\ \E r \in {"0", "EFAULT"} : Finish(c, Plain(r))
  /\ UNCHANGED <<mapvars, memvars, limvars, busvars, metaval>>

\* last_result is never written, so the packet count is always 0.
GetState(c) ==
  /\ pc[c] = "ioctl" /\ req[c].cmd = "GET_STATE"
  /\ Finish(c, [ret |-> "0", status |-> IF initialized THEN "OK" ELSE "ERROR",
                executed |-> 0, errpkt |-> 0, peak |-> temp])
  /\ UNCHANGED devvars

\* MAP_BAR, UNMAP_BAR, HEARTBEAT, QUERY_OPS and unknown commands leave the
\* state modelled here alone.
OtherIoctl(c) ==
  /\ pc[c] = "ioctl" /\ req[c].cmd = "OTHER"
  /\ \E r \in {"0", "ENOTTY"} : Finish(c, Plain(r))
  /\ UNCHANGED devvars

\* A user copy or kmalloc_array fails before anything is done; one errno stands
\* for both.
ArgumentFault(c) ==
  /\ pc[c] = "ioctl" /\ req[c].cmd # "READ_THERMAL"
  /\ Finish(c, Plain("EFAULT"))
  /\ UNCHANGED devvars

\* Mutant: neither ioctl looks at the packet size.
MalformedCountOnly(r) == r.pkts = << >>

\* What is refused with EINVAL.  The safe ioctl does not look at the packet size.
Malformed(r) == r.pkts = << >> \/ (r.cmd = "EXECUTE" /\ r.psize < DropSize)

\* vitriol_ioctl_execute and _safe up to the loop of execute_packets.  An array
\* of no size is kmalloc's ZERO_SIZE_PTR, and its first packet a page fault.
Execute(c) ==
  /\ pc[c] = "ioctl" /\ req[c].cmd \in {"EXECUTE", "EXECUTE_SAFE"}
  /\ IF Malformed(req[c])
     THEN Finish(c, Plain("EINVAL"))
     ELSE /\ pc' = [pc EXCEPT ![c] = IF req[c].psize = 0 THEN "oops" ELSE "fwd"]
          /\ f' = [f EXCEPT ![c] = [Frame0 EXCEPT !.peak = temp]]
          /\ UNCHANGED <<lock, req, ans>>
  /\ UNCHANGED devvars

-----------------------------------------------------------------------------
(* vitriol_check_thermal: hot is its -EHWPOISON.  The throttle limit only  *)
(* sleeps.                                                                 *)

\* Mutant: the limit is compared with the temperature of the last check.
CheckThermalStale(hot) ==
  IF safety < 1 THEN hot = FALSE /\ UNCHANGED temp
  ELSE temp' \in Readings /\ hot = (halt > 0 /\ temp >= halt)

CheckThermal(hot) ==
  IF safety < 1 THEN hot = FALSE /\ UNCHANGED temp
  ELSE \E t \in Readings : temp' = t /\ hot = (halt > 0 /\ t >= halt)

(* execute_packets: one iteration of its loop. *)

AtPacket(c) == pc[c] = "fwd" /\ f[c].i <= Len(req[c].pkts)

Goto(c, p) == pc' = [pc EXCEPT ![c] = p] /\ UNCHANGED <<lock, req, ans>>

\* Mutant: error_packet is not assigned.
BreakUnnamed(c, s) ==
  /\ f' = [f EXCEPT ![c].status = s]
  /\ Goto(c, "fin")

\* The break out of the loop: the failing index is remembered.
Break(c, s) ==
  /\ f' = [f EXCEPT ![c].status = s, ![c].errpkt = f[c].i]
  /\ Goto(c, "fin")

CrcFail(c) ==
  /\ AtPacket(c) /\ ~Pkt(c).crcok
  /\ Break(c, "CRC_FAIL")
  /\ UNCHANGED devvars

\* Mutant: a packet that is passed over counts as executed.
SkipPacketCounted(c) ==
  /\ AtPacket(c) /\ Pkt(c).crcok /\ ~Forward(Pkt(c))
  /\ f' = [f EXCEPT ![c].i = @ + 1, ![c].executed = @ + 1]
  /\ UNCHANGED <<lock, pc, req, ans, devvars>>

SkipPacket(c) ==
  /\ AtPacket(c) /\ Pkt(c).crcok /\ ~Forward(Pkt(c))
  /\ f' = [f EXCEPT ![c].i = @ + 1]
  /\ UNCHANGED <<lock, pc, req, ans, devvars>>

Dispatch(c) ==
  /\ AtPacket(c) /\ Pkt(c).crcok /\ Forward(Pkt(c))
  /\ \E hot \in BOOLEAN :
       /\ IF "THERMAL_CHECK" \in Pkt(c).flags
          THEN CheckThermal(hot) ELSE hot = FALSE /\ UNCHANGED temp
       /\ IF hot THEN Break(c, "THERMAL")
          ELSE IF Handler[Pkt(c).op] = "NULL" THEN Break(c, "ERROR")
          ELSE Goto(c, "op") /\ UNCHANGED f
  /\ UNCHANGED <<mapvars, memvars, limvars, busvars, metaval>>

EndOfBatch(c) ==
  /\ pc[c] = "fwd" /\ f[c].i > Len(req[c].pkts)
  /\ Goto(c, "fin")
  /\ UNCHANGED <<f, devvars>>

\* Mutant: the next rollback packet is taken without asking whether there is one.
ReturnUnbounded(c, ok) ==
  IF f[c].mode = "azoth"
  THEN f' = [f EXCEPT ![c].i = @ + 1] /\ Goto(c, "op")
  ELSE IF ok
  THEN f' = [f EXCEPT ![c].i = @ + 1, ![c].executed = @ + 1] /\ Goto(c, "fwd")
  ELSE Break(c, "ERROR")

\* A handler returns: in the forward run an error breaks the loop, in a
\* rollback the result is dropped.
Return(c, ok) ==
  IF f[c].mode = "azoth"
  THEN f' = [f EXCEPT ![c].i = @ + 1] /\ Goto(c, "azoth")
  ELSE IF ok
  THEN f' = [f EXCEPT ![c].i = @ + 1, ![c].executed = @ + 1] /\ Goto(c, "fwd")
  ELSE Break(c, "ERROR")

-----------------------------------------------------------------------------
(* The opcode handlers of vitriol_alka_ops.c that complete in one step. *)

\* The ranges op_claim maps what is not mapped yet at.  BAR1's are stored before
\* the mapping can fail.
ClaimBars(p) ==
  LET b == IF p.src = KnownId THEN KnownBars ELSE IF pdev' THEN CardBars ELSE DefaultBars
  IN  bars' = [bar0 |-> IF bar0 THEN bars.bar0 ELSE b.bar0,
               bar1 |-> IF bar1 THEN bars.bar1 ELSE b.bar1]

\* Mutant: initialized is set before the mapping is known to have succeeded.
OpClaimEarly(c) ==
  /\ Running(c, "op_claim")
  /\ \E found \in BOOLEAN, ok0 \in BOOLEAN, ok1 \in Bar1Maps :
       /\ pdev' = (pdev \/ (Pkt(c).src # 0 /\ found))
       /\ bar0' = (bar0 \/ ok0)
       /\ bar1' = (bar1 \/ (bar0' /\ ok1))
       /\ win' = 0 /\ initialized' = TRUE
       /\ ClaimBars(Pkt(c))
       /\ Return(c, bar0')
  /\ UNCHANGED <<memvars, limvars, cmd, d3, drv, metaval, temp>>

\* src is the PCI id of the vessel; 0 names none.  The id is looked up, BAR0
\* is mapped or the claim fails, BAR1 is mapped or the claim goes on.
OpClaim(c) ==
  /\ Running(c, "op_claim")
  /\ \E found \in BOOLEAN, ok0 \in BOOLEAN, ok1 \in Bar1Maps :
       /\ pdev' = (pdev \/ (Pkt(c).src # 0 /\ found))
       /\ bar0' = (bar0 \/ ok0)
       /\ IF bar0'
          THEN /\ bar1' = (bar1 \/ ok1) /\ win' = 0 /\ initialized' = TRUE
               /\ ClaimBars(Pkt(c))
          ELSE UNCHANGED <<bars, bar1, win, initialized>>
       /\ Return(c, bar0')
  /\ UNCHANGED <<memvars, limvars, cmd, d3, drv, metaval, temp>>

\* shift_bar1_window
Align(v) == v - (v % bars.bar1.len)

OpShift(c) ==
  /\ Running(c, "op_shift")
  /\ LET ok == initialized /\ bar1
     IN  win' = (IF ok THEN Align(Pkt(c).src) ELSE win) /\ Return(c, ok)
  /\ UNCHANGED <<bars, bar0, bar1, initialized, memvars, limvars, busvars, metaval, temp>>

OpSense(c) ==
  /\ Running(c, "op_sense")
  /\ temp' \in Readings
  /\ Return(c, TRUE)
  /\ UNCHANGED <<mapvars, memvars, limvars, busvars, metaval>>

\* The property selector is the low byte of src, the value is size.
OpLimit(c) ==
  /\ Running(c, "op_limit")
  /\ halt' = IF Pkt(c).src % 256 = 0 THEN Pkt(c).size ELSE halt
  /\ Return(c, TRUE)
  /\ UNCHANGED <<safety, throttle, mapvars, memvars, busvars, metaval, temp>>

OpGuard(c) ==
  /\ Running(c, "op_guard")
  /\ throttle' = IF 0 < Pkt(c).size /\ Pkt(c).size < halt THEN Pkt(c).size ELSE throttle
  /\ Return(c, TRUE)
  /\ UNCHANGED <<safety, halt, mapvars, memvars, busvars, metaval, temp>>

\* CLAIM (0x0F), RESET and ISOLATE need a device, BIND does without one.  The
\* pointer is tested here and used in the next step.
OpConfig(c) ==
  /\ \E h \in {"op_veil", "op_isolate", "op_quench", "op_occupy"} :
       /\ Running(c, h)
       /\ IF pdev THEN Goto(c, "config") /\ UNCHANGED f ELSE Return(c, h = "op_occupy")
  /\ UNCHANGED devvars

\* The config space writes.  A device that remove took away in between is a
\* null pointer, unless the compiler kept the tested one.
Config(c) ==
  LET h == Handler[Pkt(c).op]
  IN  /\ pc[c] = "config"
      /\ \/ /\ cmd' = CASE h = "op_veil"    -> cmd \ {"MEMORY"}
                        [] h = "op_isolate" -> {}
                        [] h = "op_occupy"  -> cmd \ {"MASTER"}
                        [] OTHER            -> cmd
            /\ d3' = (d3 \/ h = "op_quench")
            /\ Return(c, TRUE)
         \/ ~pdev /\ Goto(c, "oops") /\ UNCHANGED <<f, cmd, d3>>
      /\ UNCHANGED <<pdev, drv, mapvars, memvars, limvars, metaval, temp>>

(* Handlers that test something and change nothing. *)

\* The handlers that log and return 0.
OpNoop(c) == Running(c, "op_noop") /\ Return(c, TRUE) /\ UNCHANGED devvars

OpState(c) ==
  /\ \E h \in {"op_snap", "op_revert", "op_molt"} : Running(c, h)
  /\ Return(c, initialized)
  /\ UNCHANGED devvars

OpPipe(c) == Running(c, "op_pipe") /\ Return(c, Pkt(c).size # 0) /\ UNCHANGED devvars
OpEcho(c) == Running(c, "op_echo") /\ Return(c, bar0) /\ UNCHANGED devvars

\* The register AUDIT reads is all ones when the card no longer decodes memory
\* accesses.
OpAudit(c) ==
  /\ Running(c, "op_audit")
  /\ \E clean \in BOOLEAN :
       /\ clean => "MEMORY" \in cmd /\ ~d3
       /\ Return(c, bar0 /\ clean)
  /\ UNCHANGED devvars

OpReadOnly(c) == OpNoop(c) \/ OpState(c) \/ OpPipe(c) \/ OpEcho(c) \/ OpAudit(c)

-----------------------------------------------------------------------------
(* FENCE *)

OpFence(c) ==
  /\ Running(c, "op_fence")
  /\ IF initialized
     THEN f' = [f EXCEPT ![c].polls = 0] /\ Goto(c, "fence")
     ELSE Return(c, FALSE)
  /\ UNCHANGED devvars

\* Mutant: elapsed is not advanced.
FencePollForever(c) ==
  /\ pc[c] = "fence" /\ f[c].polls < MaxPolls
  /\ IF metaval = Pkt(c).dst
     THEN Return(c, TRUE) /\ UNCHANGED temp
     ELSE \E hot \in BOOLEAN :
            /\ CheckThermal(hot)
            /\ IF hot THEN Return(c, FALSE) ELSE UNCHANGED callvars
  /\ UNCHANGED <<mapvars, memvars, limvars, busvars, metaval>>

\* One turn of the polling loop: the match, or the sleep and the thermal check.
FencePoll(c) ==
  /\ pc[c] = "fence" /\ f[c].polls < MaxPolls
  /\ IF metaval = Pkt(c).dst
     THEN Return(c, TRUE) /\ UNCHANGED temp
     ELSE \E hot \in BOOLEAN :
            /\ CheckThermal(hot)
            /\ IF hot THEN Return(c, FALSE)
               ELSE /\ f' = [f EXCEPT ![c].polls = @ + 1]
                    /\ UNCHANGED <<lock, pc, req, ans>>
  /\ UNCHANGED <<mapvars, memvars, limvars, busvars, metaval>>

FenceTimeout(c) ==
  /\ pc[c] = "fence" /\ f[c].polls = MaxPolls
  /\ Return(c, FALSE)
  /\ UNCHANGED devvars

-----------------------------------------------------------------------------
(* FLOW and SLICE: both go through vitriol_dma_transfer. *)

IsSlice(c)   == Handler[Pkt(c).op] = "op_refract"
SliceChunk(p) == IF p.size > 0 THEN p.size ELSE SliceDefault
SliceDrops(p) == (p.dst + SliceChunk(p) - 1) \div SliceChunk(p)

\* The arguments of the transfer in progress.
XferSrc(c)  == IF IsSlice(c) THEN Pkt(c).src + f[c].drop * SliceChunk(Pkt(c)) ELSE Pkt(c).src
XferDst(c)  == IF IsSlice(c) THEN 0 ELSE Pkt(c).dst
XferSize(c) ==
  IF ~IsSlice(c) THEN Pkt(c).size
  ELSE LET o == f[c].drop * SliceChunk(Pkt(c))
       IN  IF o + SliceChunk(Pkt(c)) > Pkt(c).dst THEN Pkt(c).dst - o ELSE SliceChunk(Pkt(c))

\* Mutant: a transfer without a bounce buffer is let through.
DmaReadyUnbuffered == initialized

DmaReady == initialized /\ buf # "null"

OpFlow(c) ==
  /\ Running(c, "op_flow")
  /\ \E hot \in BOOLEAN :
       /\ CheckThermal(hot)
       /\ IF hot \/ ~DmaReady THEN Return(c, FALSE)
          ELSE f' = [f EXCEPT ![c].off = 0] /\ Goto(c, "dma")
  /\ UNCHANGED <<mapvars, memvars, limvars, busvars, metaval>>

OpSlice(c) ==
  /\ Running(c, "op_refract")
  /\ f' = [f EXCEPT ![c].drop = 0]
  /\ Goto(c, "slice")
  /\ UNCHANGED devvars

\* One drop: shift the window, start the transfer.  Both results are dropped,
\* so a transfer refused at its entry is followed by the next one.
SliceDrop(c) ==
  /\ pc[c] = "slice" /\ f[c].drop < SliceDrops(Pkt(c))
  /\ win' = IF bar1 THEN Align(f[c].drop * SliceChunk(Pkt(c))) ELSE win
  /\ IF DmaReady
     THEN f' = [f EXCEPT ![c].off = 0] /\ Goto(c, "dma")
     ELSE f' = [f EXCEPT ![c].drop = @ + 1] /\ UNCHANGED <<lock, pc, req, ans>>
  /\ UNCHANGED <<bars, bar0, bar1, initialized, memvars, limvars, busvars, metaval, temp>>

SliceEnd(c) ==
  /\ pc[c] = "slice" /\ f[c].drop = SliceDrops(Pkt(c))
  /\ Goto(c, "signal")
  /\ UNCHANGED <<f, devvars>>

\* vitriol_dma_transfer returns to op_flow, or to op_refract, which ignores ok.
DmaReturn(c, ok) ==
  IF IsSlice(c) THEN f' = [f EXCEPT ![c].drop = @ + 1] /\ Goto(c, "slice")
  ELSE IF ok THEN UNCHANGED f /\ Goto(c, "signal")
  ELSE Return(c, FALSE)

DmaChunk(c) ==
  /\ pc[c] = "dma" /\ f[c].off < XferSize(c)
  /\ \E hot \in BOOLEAN :
       /\ CheckThermal(hot)
       /\ IF hot THEN DmaReturn(c, FALSE) ELSE UNCHANGED f /\ Goto(c, "copy")
  /\ UNCHANGED <<mapvars, memvars, limvars, busvars, metaval>>

DmaDone(c) ==
  /\ pc[c] = "dma" /\ f[c].off = XferSize(c)
  /\ DmaReturn(c, TRUE)
  /\ UNCHANGED devvars

Inside(a, r) == r.phys <= a /\ a < r.phys + r.len

\* The branches a transfer takes.  The range is chosen by its first address; a
\* source is looked up in BAR0 first, a destination in BAR1.
FromBar1(a) == Inside(a, bars.bar1) /\ ~Inside(a, bars.bar0)
ToBar1(a)   == Inside(a, bars.bar1)

\* The VRAM address of offset o in a range that starts at a, through window w.
\* The current window is added to the distance into the range.
VramAt(a, o, w) == a + o - bars.bar1.phys + w

\* Mutant: the window follows the access without being aligned.
TouchUnaligned(vram, a, o, w) == IF vram THEN VramAt(a, o, w) ELSE w

\* The window after an access at offset o of a range that starts at a.
Touch(vram, a, o, w) == IF vram THEN Align(VramAt(a, o, w)) ELSE w

\* The window between the two memcpys of a chunk.
WinRead(c) == Touch(FromBar1(XferSrc(c)), XferSrc(c), f[c].off, win)

\* Both memcpys of a chunk.  dma_buffer was looked at when the transfer began,
\* and is null if a second probe has failed since; a BAR1 that was never mapped
\* is null as well.
DmaCopy(c) ==
  /\ pc[c] = "copy"
  /\ IF buf = "null" \/ (~bar1 /\ (FromBar1(XferSrc(c)) \/ ToBar1(XferDst(c))))
     THEN Goto(c, "oops") /\ UNCHANGED <<f, win>>
     ELSE /\ win' = Touch(ToBar1(XferDst(c)), XferDst(c), f[c].off, WinRead(c))
          /\ f' = [f EXCEPT ![c].off = @ + 1]
          /\ Goto(c, "dma")
  /\ UNCHANGED <<bars, bar0, bar1, initialized, memvars, limvars, busvars, metaval, temp>>

\* vitriol_signal_metapage, the last thing FLOW and SLICE do.  The copy it stores
\* in the metapage, which remove may have freed, is read by no handler.
Signal(c) ==
  /\ pc[c] = "signal"
  /\ metaval' = IF IsSlice(c) THEN 1 ELSE Pkt(c).vessel
  /\ Return(c, TRUE)
  /\ UNCHANGED <<mapvars, memvars, limvars, busvars, temp>>

-----------------------------------------------------------------------------
(* The end of execute_packets, and execute_azoth_rollback. *)

\* result->thermal_peak as the loop left it, against the last temperature.
PeakAtEnd(c) == IF f[c].status = "THERMAL" THEN temp ELSE Larger(f[c].peak, temp)

\* Mutant: the result of the forward batch is not looked at.
NeedsRollbackAlways(c) == req[c].cmd = "EXECUTE_SAFE" /\ req[c].azoth # << >>

NeedsRollback(c) ==
  f[c].status # "OK" /\ req[c].cmd = "EXECUTE_SAFE" /\ req[c].azoth # << >>

\* Mutant: the internal error of the loop is returned as it is.
ExecAnswerRaw(c, s, p) ==
  [ret |-> CASE s = "OK" -> "0" [] s = "THERMAL" -> "EHWPOISON" [] OTHER -> "EIO",
   status |-> s, executed |-> f[c].executed, errpkt |-> f[c].errpkt, peak |-> p]

ExecAnswer(c, s, p) ==
  [ret |-> IF s = "OK" THEN "0" ELSE "EIO", status |-> s,
   executed |-> f[c].executed, errpkt |-> f[c].errpkt, peak |-> p]

ExecuteReturn(c) ==
  /\ pc[c] = "fin" /\ ~NeedsRollback(c)
  /\ Finish(c, ExecAnswer(c, f[c].status, PeakAtEnd(c)))
  /\ UNCHANGED devvars

StartRollback(c) ==
  /\ pc[c] = "fin" /\ NeedsRollback(c)
  /\ f' = [f EXCEPT ![c].mode = "azoth", ![c].i = 1, ![c].peak = PeakAtEnd(c)]
  /\ Goto(c, "azoth")
  /\ UNCHANGED devvars

\* One iteration of the rollback: no CRC, no thermal check, and a packet that
\* is not marked or has no handler is passed over.
RollbackStep(c) ==
  /\ pc[c] = "azoth" /\ f[c].i <= Len(req[c].azoth)
  /\ IF "AZOTH" \in Pkt(c).flags /\ Handler[Pkt(c).op] # "NULL"
     THEN UNCHANGED f /\ Goto(c, "op")
     ELSE f' = [f EXCEPT ![c].i = @ + 1] /\ UNCHANGED <<lock, pc, req, ans>>
  /\ UNCHANGED devvars

RollbackEnd(c) ==
  /\ pc[c] = "azoth" /\ f[c].i > Len(req[c].azoth)
  /\ Finish(c, ExecAnswer(c, "ERROR", f[c].peak))
  /\ UNCHANGED devvars

-----------------------------------------------------------------------------
(* vitriol_pci_probe and vitriol_pci_remove, store by store, without the   *)
(* mutex; the stores of the device and of the ranges of its BARs count as   *)
(* one.  A probe that fails before the device is stored has no effect here. *)

ProbeDevice ==
  /\ drv = "none"
  /\ pdev' = TRUE /\ cmd' = {"MEMORY", "MASTER"} /\ d3' = FALSE /\ drv' = "device"
  /\ bars' = CardBars
  /\ UNCHANGED <<callvars, bar0, bar1, win, initialized, memvars, limvars, metaval, temp>>

\* err_regions and err_disable: pdev keeps pointing at the device.
ProbeFails == cmd' = cmd \ {"MASTER"} /\ drv' = "none" /\ UNCHANGED <<pdev, d3>>

ProbeBuffer ==
  /\ drv = "device"
  /\ \/ buf' = "live" /\ drv' = "buffer" /\ UNCHANGED <<pdev, cmd, d3>>
     \/ "buffer" \in Shortages /\ buf' = "null" /\ ProbeFails
  /\ UNCHANGED <<callvars, mapvars, page, limvars, metaval, temp>>

\* Mutant: the metapage allocation is not checked.
ProbePageUnchecked ==
  /\ drv = "buffer"
  /\ page' \in {"live", "null"} /\ drv' = "page"
  /\ UNCHANGED <<callvars, mapvars, buf, limvars, pdev, cmd, d3, metaval, temp>>

\* err_dma frees the bounce buffer and leaves the pointer.
ProbePage ==
  /\ drv = "buffer"
  /\ \/ page' = "live" /\ drv' = "page" /\ UNCHANGED <<buf, pdev, cmd, d3>>
     \/ "page" \in Shortages /\ page' = "null" /\ buf' = "freed" /\ ProbeFails
  /\ UNCHANGED <<callvars, mapvars, limvars, metaval, temp>>

ProbeDone ==
  /\ drv = "page"
  /\ metaval' = 0 /\ drv' = "bound"
  /\ UNCHANGED <<callvars, mapvars, memvars, limvars, pdev, cmd, d3, temp>>

RemovePage ==
  /\ Unplug /\ drv = "bound"
  /\ page' = IF page = "null" THEN page ELSE "freed"
  /\ drv' = "unpaged"
  /\ UNCHANGED <<callvars, mapvars, buf, limvars, pdev, cmd, d3, metaval, temp>>

RemoveBuffer ==
  /\ drv = "unpaged"
  /\ buf' = IF buf = "null" THEN buf ELSE "freed"
  /\ cmd' = cmd \ {"MASTER"}
  /\ drv' = "unbuffered"
  /\ UNCHANGED <<callvars, mapvars, page, limvars, pdev, d3, metaval, temp>>

RemoveDevice ==
  /\ drv = "unbuffered"
  /\ pdev' = FALSE /\ drv' = "forgotten"
  /\ UNCHANGED <<callvars, mapvars, memvars, limvars, cmd, d3, metaval, temp>>

RemoveDone ==
  /\ drv = "forgotten"
  /\ initialized' = FALSE /\ drv' = "none"
  /\ UNCHANGED <<callvars, bars, bar0, bar1, win, memvars, limvars, pdev, cmd, d3, metaval, temp>>

-----------------------------------------------------------------------------
IoctlStep(c) ==
  LoadVial(c) \/ SetSafety(c) \/ ReadThermal(c) \/ GetState(c) \/ OtherIoctl(c)
    \/ ArgumentFault(c) \/ Execute(c)

LoopStep(c) ==
  CrcFail(c) \/ SkipPacket(c) \/ Dispatch(c) \/ EndOfBatch(c) \/ ExecuteReturn(c)
    \/ StartRollback(c) \/ RollbackStep(c) \/ RollbackEnd(c)

OpStep(c) ==
  OpClaim(c) \/ OpShift(c) \/ OpSense(c) \/ OpLimit(c) \/ OpGuard(c) \/ OpConfig(c)
    \/ Config(c) \/ OpReadOnly(c) \/ OpFence(c) \/ OpFlow(c) \/ OpSlice(c)

DmaStep(c) ==
  FencePoll(c) \/ FenceTimeout(c) \/ SliceDrop(c) \/ SliceEnd(c)
    \/ DmaChunk(c) \/ DmaDone(c) \/ DmaCopy(c) \/ Signal(c)

\* Everything a thread does while it owns the mutex.
HandlerStep(c) == IoctlStep(c) \/ LoopStep(c) \/ OpStep(c) \/ DmaStep(c)

BusStep ==
  ProbeDevice \/ ProbeBuffer \/ ProbePage \/ ProbeDone
    \/ RemovePage \/ RemoveBuffer \/ RemoveDevice \/ RemoveDone

Next ==
  \/ \E c \in Clients : (\E r \in Requests : Call(c, r)) \/ Acquire(c) \/ HandlerStep(c)
  \/ BusStep

Spec == Init /\ [][Next]_vars

\* A thread in the kernel keeps running, and the mutex hands itself over to a
\* waiter that was overtaken; nothing makes a client call or a card appear.
FairSpec ==
  Spec /\ \A c \in Clients : WF_vars(HandlerStep(c)) /\ SF_vars(Acquire(c))
=============================================================================
