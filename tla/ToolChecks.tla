----------------------------- MODULE ToolChecks -----------------------------
(***************************************************************************)
(* The validate function of each instruction's tool, src/tools and, for    *)
(* five of them, src/spark.  v is the sequence of (at most three) operand  *)
(* values, c the ToolContext of the vial.                                  *)
(***************************************************************************)
EXTENDS Naturals, Sequences

CONSTANTS
  Page,           \* 4 KB
  MaxAperture,    \* vitriol_types: 256 MB
  W32, W64,       \* 2^32 and 2^64
  FenceMax,       \* 10 s, in microseconds
  KernelBase,     \* 0xFFFF800000000000
  HoldDefault, HoldMax,   \* SUSPEND
  SensorMax       \* 255

ASSUME ScaleAssumption ==
  /\ {Page, MaxAperture, W32, W64, FenceMax, KernelBase, HoldDefault, HoldMax, SensorMax} \subseteq Nat
  /\ Page > 0 /\ W32 > 0 /\ W64 > 0

\* No limit stated in the vial is a limit of 0.
UnderLimit(x, limit) == limit > 0 => x <= limit

-----------------------------------------------------------------------------
(* The SPARK bodies. *)
\* Mutant: a size that is zero after its truncation is let through.
SparkFlowEmpty(src, dst, size, c) ==
  size <= c.apertureMax /\ (src + size) % W64 >= src /\ (dst + size) % W64 >= dst

SparkFlow(src, dst, size, c) ==
  /\ size > 0 /\ size <= c.apertureMax
  /\ (src + size) % W64 >= src
  /\ (dst + size) % W64 >= dst
SparkShift(offset)   == offset <= MaxAperture /\ offset % Page = 0
SparkFence(timeout)  == timeout > 0 /\ timeout <= FenceMax
SparkSignal(id)      == id > 0 /\ id < W32
ChunkCount(total, chunk) == (total - 1) \div chunk + 1
SparkSlice(total, size, c) ==
  LET chunk == IF size > 0 THEN size ELSE MaxAperture
  IN  /\ total > 0 /\ chunk > 0 /\ chunk <= c.apertureMax
      /\ (ChunkCount(total, chunk) * chunk) % W64 >= total

(* Their callers: the size of a packet is 32 bits wide. *)
FlowTool(v, c)   == Len(v) >= 3 /\ SparkFlow(v[1], v[2], v[3] % W32, c)
ShiftTool(v, c)  == Len(v) >= 1 /\ SparkShift(v[1])
FenceTool(v, c)  == Len(v) >= 1 /\ SparkFence(v[1])
SignalTool(v, c) == Len(v) >= 1 /\ SparkSignal(v[1])
SliceTool(v, c)  == Len(v) >= 2 /\ SparkSlice(v[2], IF Len(v) >= 3 THEN v[3] % W32 ELSE 0, c)

-----------------------------------------------------------------------------
(* core *)
ClaimTool(v, c)  == Len(v) >= 1
EchoTool(v, c)   == Len(v) >= 1
LimitTool(v, c)  == Len(v) >= 2 /\ UnderLimit(v[2], c.thermalLimit)
PipeTool(v, c)   == Len(v) >= 3 /\ v[3] > 0 /\ UnderLimit(v[3], c.apertureSize)
RevertTool(v, c) == Len(v) >= 2
SnapTool(v, c)   == Len(v) >= 1
StakeTool(v, c)  == Len(v) >= 2 /\ v[1] > 0 /\ v[2] > 0 /\ v[1] < KernelBase
SyncTool(v, c)   == TRUE
YieldTool(v, c)  == TRUE
(* substrate *)
AffinityTool(v, c)   == Len(v) >= 1 /\ v[1] <= 3
BindTool(v, c)       == Len(v) >= 1
CoordinateTool(v, c) == Len(v) >= 3 /\ v[3] <= 2
DirectTool(v, c)     == Len(v) >= 1
PokeTool(v, c)       == Len(v) >= 2 /\ v[1] > 0 /\ v[2] < W32
SuspendTool(v, c)    == Len(v) >= 1 /\ (IF Len(v) > 1 THEN v[2] ELSE HoldDefault) <= HoldMax
TunnelTool(v, c)     == Len(v) >= 3 /\ v[3] <= c.apertureSize
(* forging, pulse, transmutation *)
InjectTool(v, c) == Len(v) >= 2
RecastTool(v, c) == Len(v) >= 2
WipeTool(v, c)   == Len(v) >= 2 /\ v[1] > 0 /\ v[2] > 0
PulseTool(v, c)  == Len(v) >= 2 /\ v[2] > 0
RhythmTool(v, c) == Len(v) >= 2 /\ v[2] > 0
SenseTool(v, c)  == Len(v) >= 1 /\ v[1] <= SensorMax
StasisTool(v, c) == Len(v) >= 1
FluxTool(v, c)   == Len(v) >= 1
(* safety, testing, solidification, calcination, monitoring *)
GuardTool(v, c)   == Len(v) >= 3 /\ UnderLimit(v[3], c.thermalLimit)
IsolateTool(v, c) == Len(v) >= 1
VerifyTool(v, c)  == Len(v) >= 2
AuditTool(v, c)   == Len(v) >= 1
DryRunTool(v, c)  == Len(v) >= 1
MockTool(v, c)    == Len(v) >= 1
ProveTool(v, c)   == Len(v) >= 1
PersistTool(v, c) == Len(v) >= 2
ResetTool(v, c)   == Len(v) >= 1
TraceTool(v, c)   == Len(v) >= 1
WatchTool(v, c)   == Len(v) >= 2

-----------------------------------------------------------------------------
\* tools.getTool: the dispatch table the build generates from pharmacopia.json.
Validate(name, v, c) ==
  CASE name = "CLAIM"   -> ClaimTool(v, c)   [] name = "STAKE"   -> StakeTool(v, c)
    [] name = "FLOW"    -> FlowTool(v, c)    [] name = "SHIFT"   -> ShiftTool(v, c)
    [] name = "FENCE"   -> FenceTool(v, c)   [] name = "SYNC"    -> SyncTool(v, c)
    [] name = "SENSE"   -> SenseTool(v, c)   [] name = "PULSE"   -> PulseTool(v, c)
    [] name = "SIGNAL"  -> SignalTool(v, c)  [] name = "YIELD"   -> YieldTool(v, c)
    [] name = "RECAST"  -> RecastTool(v, c)  [] name = "SNAP"    -> SnapTool(v, c)
    [] name = "REVERT"  -> RevertTool(v, c)  [] name = "LIMIT"   -> LimitTool(v, c)
    [] name = "RHYTHM"  -> RhythmTool(v, c)  [] name = "ECHO"    -> EchoTool(v, c)
    [] name = "STASIS"  -> StasisTool(v, c)  [] name = "PERSIST" -> PersistTool(v, c)
    [] name = "POKE"    -> PokeTool(v, c)    [] name = "RESET"   -> ResetTool(v, c)
    [] name = "INJECT"  -> InjectTool(v, c)  [] name = "WIPE"    -> WipeTool(v, c)
    [] name = "FLUX"    -> FluxTool(v, c)    [] name = "AUDIT"   -> AuditTool(v, c)
    [] name = "DRY_RUN" -> DryRunTool(v, c)  [] name = "MOCK"    -> MockTool(v, c)
    [] name = "PROVE"   -> ProveTool(v, c)   [] name = "WATCH"   -> WatchTool(v, c)
    [] name = "TRACE"   -> TraceTool(v, c)   [] name = "GUARD"   -> GuardTool(v, c)
    [] name = "ISOLATE" -> IsolateTool(v, c) [] name = "VERIFY"  -> VerifyTool(v, c)
    [] name = "AFFINITY" -> AffinityTool(v, c) [] name = "TUNNEL" -> TunnelTool(v, c)
    [] name = "SUSPEND" -> SuspendTool(v, c) [] name = "COORDINATE" -> CoordinateTool(v, c)
    [] name = "DIRECT"  -> DirectTool(v, c)  [] name = "BIND"    -> BindTool(v, c)
    [] name = "SLICE"   -> SliceTool(v, c)   [] name = "PIPE"    -> PipeTool(v, c)
=============================================================================
