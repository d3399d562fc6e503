SPECIFICATION Spec
CONSTANTS
  Page = 2
  MaxAperture = 8
  W32 = 16
  W64 = 64
  FenceMax = 5
  KernelBase = 60
  HoldDefault = 2
  HoldMax = 3
  SensorMax = 9
  Vram = 8
  TempStart = 3
  TempCap = 16
  HaltDefault = 14
  Warm = 1
  WarmDma = 4
  Opcode <- InstructionSet
  NameHash <- Hashes
  Rules <- ChainTable
  Sessions <- ProveSessions
INVARIANT ProvedFlowsFit
CHECK_DEADLOCK FALSE
