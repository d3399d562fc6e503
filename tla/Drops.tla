------------------------------- MODULE Drops -------------------------------
(***************************************************************************)
(* The instruction set of src/instructions/mod.zig, the packets emitPacket *)
(* of src/compiler/alkac.zig makes of it, and the filter of the welder.    *)
(***************************************************************************)
EXTENDS Recipe, Vial, ToolChecks

CONSTANTS
  Opcode,         \* instruction_set: name -> number
  NameHash        \* the djb2 hash of a signal's name

ASSUME OpcodeAssumption ==
  /\ Opcode \in [DOMAIN Opcode -> 0 .. 255]
  /\ \A m, n \in DOMAIN Opcode : Opcode[m] = Opcode[n] => m = n

InstructionNumbers == <<
  <<"CLAIM", 1>>, <<"STAKE", 2>>, <<"FLOW", 3>>, <<"SHIFT", 4>>,
  <<"FENCE", 5>>, <<"SYNC", 6>>, <<"SENSE", 7>>, <<"PULSE", 8>>,
  <<"SIGNAL", 9>>, <<"YIELD", 10>>, <<"RECAST", 11>>, <<"SNAP", 12>>,
  <<"REVERT", 13>>, <<"LIMIT", 14>>, <<"RHYTHM", 17>>, <<"ECHO", 23>>,
  <<"STASIS", 24>>, <<"PERSIST", 27>>, <<"POKE", 28>>, <<"RESET", 29>>,
  <<"INJECT", 30>>, <<"WIPE", 31>>, <<"FLUX", 42>>, <<"AUDIT", 43>>,
  <<"DRY_RUN", 44>>, <<"MOCK", 45>>, <<"PROVE", 46>>, <<"WATCH", 47>>,
  <<"TRACE", 48>>, <<"GUARD", 49>>, <<"ISOLATE", 50>>, <<"VERIFY", 51>>,
  <<"AFFINITY", 52>>, <<"TUNNEL", 53>>, <<"SUSPEND", 54>>,
  <<"COORDINATE", 55>>, <<"DIRECT", 57>>, <<"BIND", 58>>, <<"SLICE", 59>>,
  <<"PIPE", 60>> >>

\* getInstructionByName: the opcode of a name that is an instruction's.
InstructionSet ==
  [n \in { p[1] : p \in ToSet(InstructionNumbers) } |->
     InstructionNumbers[SelectInSeq(InstructionNumbers, LAMBDA p : p[1] = n)][2]]

Claims  == {1, 58}      \* CLAIM, BIND: the operand is a vessel
Limits  == {14, 5}      \* LIMIT, FENCE: it may be one
SIGNAL  == 9
SYNC    == 6

First(operands)   == Head(operands)
Names(operands)   == operands # <<>> /\ First(operands).tok = "word"

\* CLAIM and BIND of a name need a vessel with a PCI id.
Resolves(op, operands, vial) ==
  op \in Claims /\ Names(operands) => PciOf(vial, First(operands).id) # {}

\* The PCI id of a vessel, 0 if the name has none.
PciId(vial, n) == IF PciOf(vial, n) = {} THEN 0 ELSE CHOOSE p \in PciOf(vial, n) : TRUE

SrcAddr(op, operands, vial) ==
  CASE operands = <<>> -> 0
    [] operands # <<>> /\ ~Names(operands) -> First(operands).val
    [] Names(operands) /\ op \in Claims \cup Limits -> PciId(vial, First(operands).id)
    [] Names(operands) /\ op = SIGNAL -> NameHash[First(operands).id]
    [] OTHER -> 0

DstAddr(op, operands) ==
  IF Len(operands) < 2 \/ op \in Claims \cup {SIGNAL} THEN 0 ELSE operands[2].val

\* Mutant: the third operand is not truncated to 32 bits.
SizeWide(op, operands) ==
  IF Len(operands) < 3 \/ op \in Claims \cup Limits \cup {SIGNAL} THEN 0 ELSE operands[3].val

Size(op, operands) ==
  IF Len(operands) < 3 \/ op \in Claims \cup Limits \cup {SIGNAL}
  THEN 0 ELSE operands[3].val % W32

\* emitPacket, with the force flag and the checksum compile adds.
EmitPacket(instr, vial) ==
  LET op == Opcode[instr.name]
      operands == instr.operands
  IN  [op     |-> op,
       flags  |-> IF instr.force THEN {"FORCE"} ELSE {},
       vessel |-> IF op = 58 /\ Names(operands) THEN 1 ELSE 0,
       src    |-> SrcAddr(op, operands, vial),
       dst    |-> DstAddr(op, operands),
       size   |-> Size(op, operands),
       crcok  |-> TRUE]

-----------------------------------------------------------------------------
\* refineBinary: DRY_RUN and MOCK are stripped, and a SYNC right after a SYNC.
Stripped == {44, 45}

Kept(p, prevSync) == p.crcok /\ p.op \notin Stripped /\ ~(p.op = SYNC /\ prevSync)

\* Mutant: prev_was_sync is not cleared.
SyncAfterSticky(p, prevSync) == prevSync \/ p.op = SYNC

\* prev_was_sync after p: packets that are skipped do not touch it.
SyncAfter(p, prevSync) ==
  IF p.crcok /\ p.op \notin Stripped THEN p.op = SYNC ELSE prevSync
=============================================================================
