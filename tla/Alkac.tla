-------------------------------- MODULE Alkac --------------------------------
(***************************************************************************)
(* The command line: src/main.zig (compile, --override, --inject, --prove  *)
(* and --mock) over src/compiler/alkac.zig.  A run that compiles reads a   *)
(* recipe and a vial, passes the program through the chain validator, the  *)
(* tools, the welder and the rollback generator, and overwrites two files  *)
(* in place.  It may be killed between any two steps, and a write may fail; *)
(* the next run, of another version of the recipe perhaps, or the mock,    *)
(* finds what the last one left.                                           *)
(***************************************************************************)
EXTENDS Naturals, Sequences, Prover, SafetyInjector, MockExecutor, Azoth

CONSTANTS
  Rules,          \* chain_rules: a sequence of rules
  Sessions        \* the runs a user may ask for, one after the other

\* --override only silences warnings, so it is the mode "compile" here.
\* --mock is given the binary or the rollback file.
Modes == {"compile", "inject", "prove", "mock", "mock azoth"}

\* One rule per instruction that has one, under the instruction's own number.
ASSUME RulesAssumption ==
  \A k \in DOMAIN Rules :
    /\ Rules[k].name \in DOMAIN Opcode /\ Rules[k].opcode = Opcode[Rules[k].name]
    /\ Rules[k].pre \cup Rules[k].post \subseteq STRING
    /\ \A l \in DOMAIN Rules : Rules[l].name = Rules[k].name => l = k
ASSUME StrippedAssumption ==
  \A k \in DOMAIN Rules : Rules[k].opcode \in Stripped => Rules[k].post = {}
Job == [src : Seq(Statement), vial : Seq(VialText), mode : Modes]
ASSUME SessionsAssumption == Sessions # {} /\ Sessions \subseteq Seq(Job)

VARIABLES
  stage,          \* where the run is; "idle" between runs
  todo,           \* the runs still to be asked for
  src, vial, mode,  \* its inputs: the statements, the parsed vial
  i,              \* the index of the loop it is in
  prog, pending,  \* parseProgram: instructions so far, pending_override
  states, broken, \* validateChain: active_states, whether there is an error
  raw,            \* the packets emitted
  out, prevSync,  \* the packets refined, prev_was_sync
  az,             \* the rollback packets generated
  gpu,            \* the card the mock simulates
  alkas, azoth,   \* the two files; a missing file is an empty one
  writing         \* history: the files are being rewritten, or that was cut short

inputs == <<src, vial, mode>>
locals == <<prog, pending, states, broken, raw, out, prevSync, az>>
disk   == <<alkas, azoth, writing>>
vars   == <<stage, todo, inputs, gpu, i, locals, disk>>

Compiling == {"parse", "inject", "prove", "chain", "emit", "weld", "azoth"}
Writing   == {"create", "fill", "create azoth", "fill azoth"}
Ended     == {"rejected", "failed", "done", "proved", "refuted", "mocked"}
Stages    == {"idle", "mock"} \cup Compiling \cup Writing \cup Ended

-----------------------------------------------------------------------------
Init ==
  /\ stage = "idle" /\ todo \in Sessions
  /\ src = <<>> /\ vial = VialStart /\ mode = "compile" /\ i = 1
  /\ prog = <<>> /\ pending = FALSE
  /\ states = {} /\ broken = FALSE
  /\ raw = <<>> /\ out = <<>> /\ prevSync = FALSE /\ az = <<>> /\ gpu = GpuStart
  /\ alkas = <<>> /\ azoth = <<>> /\ writing = FALSE

\* The next stage, its loop at the first element.
Enter(s) == stage' = s /\ i' = 1

\* The end of the process: what it had in memory is gone.
Gone ==
  /\ Enter("idle")
  /\ src' = <<>> /\ vial' = VialStart /\ mode' = "compile"
  /\ prog' = <<>> /\ pending' = FALSE /\ states' = {} /\ broken' = FALSE
  /\ raw' = <<>> /\ out' = <<>> /\ prevSync' = FALSE /\ az' = <<>> /\ gpu' = GpuStart
  /\ UNCHANGED todo

\* The files are read and the vial is parsed.
Start ==
  /\ stage = "idle" /\ todo # <<>>
  /\ src' = Head(todo).src /\ vial' = ParseVial(Head(todo).vial) /\ mode' = Head(todo).mode
  /\ todo' = Tail(todo)
  /\ Enter(IF mode' \in {"mock", "mock azoth"} THEN "mock" ELSE "parse")
  /\ UNCHANGED <<gpu, locals, disk>>

\* parseProgram, one statement.
ParseStmt ==
  /\ stage = "parse" /\ i \in DOMAIN src
  /\ prog' = prog \o Parsed(src[i], pending)
  /\ pending' = PendingAfter(src[i], pending)
  /\ i' = i + 1
  /\ UNCHANGED <<stage, todo, inputs, gpu, states, broken, raw, out, prevSync, az, disk>>

ParseDone ==
  /\ stage = "parse" /\ i \notin DOMAIN src
  /\ Enter(IF mode \in {"inject", "prove"} THEN mode ELSE "chain")
  /\ UNCHANGED <<todo, inputs, gpu, locals, disk>>

Inject ==
  /\ stage = "inject"
  /\ prog' = InjectThermal(InjectRules(prog), vial)
  /\ Enter("chain")
  /\ UNCHANGED <<todo, inputs, gpu, pending, states, broken, raw, out, prevSync, az, disk>>

\* --prove ends with the verdict, or with Z3 missing.
Prove ==
  /\ stage = "prove"
  /\ \/ Enter(IF Proved(prog, vial) THEN "proved" ELSE "refuted")
     \/ Enter("failed")
  /\ UNCHANGED <<todo, inputs, gpu, locals, disk>>

-----------------------------------------------------------------------------
(* validateChain, one instruction: a missing state is an error, recorded    *)
(* while the pass goes on.  An instruction without a rule is passed over.   *)
RulesFor(instr) == { k \in DOMAIN Rules : Rules[k].name = instr.name }
ChainError(instr, active) == \E k \in RulesFor(instr) : ~(Rules[k].pre \subseteq active)
Establishes(instr) == UNION { Rules[k].post : k \in RulesFor(instr) }

\* Mutant: an instruction in order makes up for an earlier one that is not.
ChainInstrLast ==
  /\ stage = "chain" /\ i \in DOMAIN prog
  /\ broken' = ChainError(prog[i], states)
  /\ states' = states \cup Establishes(prog[i])
  /\ i' = i + 1
  /\ UNCHANGED <<stage, todo, inputs, gpu, prog, pending, raw, out, prevSync, az, disk>>

ChainInstr ==
  /\ stage = "chain" /\ i \in DOMAIN prog
  /\ broken' = (broken \/ ChainError(prog[i], states))
  /\ states' = states \cup Establishes(prog[i])
  /\ i' = i + 1
  /\ UNCHANGED <<stage, todo, inputs, gpu, prog, pending, raw, out, prevSync, az, disk>>

ChainDone ==
  /\ stage = "chain" /\ i \notin DOMAIN prog
  /\ Enter(IF broken THEN "rejected" ELSE "emit")
  /\ UNCHANGED <<todo, inputs, gpu, locals, disk>>

-----------------------------------------------------------------------------
\* validateWithTools: an overridden instruction is not looked at, nor is one
\* with an identifier among its operands.
ToolAccepts(instr, v) ==
  LET unresolved == \E k \in DOMAIN instr.operands : instr.operands[k].tok = "word"
      count  == IF Len(instr.operands) > 3 THEN 3 ELSE Len(instr.operands)
      values == [k \in 1 .. count |-> instr.operands[k].val]
  IN  instr.override \/ unresolved \/ Validate(instr.name, values, ToolContext(v))

Accepted(instr, v) ==
  /\ instr.name \in DOMAIN Opcode
  /\ ToolAccepts(instr, v)
  /\ Resolves(Opcode[instr.name], instr.operands, v)

EmitInstr ==
  /\ stage = "emit" /\ i \in DOMAIN prog /\ Accepted(prog[i], vial)
  /\ raw' = Append(raw, EmitPacket(prog[i], vial))
  /\ i' = i + 1
  /\ UNCHANGED <<stage, todo, inputs, gpu, prog, pending, states, broken, out, prevSync, az, disk>>

\* Mutant: an instruction that is refused is left out of the binary.
EmitSkips ==
  /\ stage = "emit" /\ i \in DOMAIN prog /\ ~Accepted(prog[i], vial)
  /\ i' = i + 1
  /\ UNCHANGED <<stage, todo, inputs, gpu, locals, disk>>

\* UnknownInstruction, ParseError of a tool, UnknownVessel.
EmitRejects ==
  /\ stage = "emit" /\ i \in DOMAIN prog /\ ~Accepted(prog[i], vial)
  /\ Enter("rejected")
  /\ UNCHANGED <<todo, inputs, gpu, locals, disk>>

EmitDone ==
  /\ stage = "emit" /\ i \notin DOMAIN prog
  /\ Enter("weld")
  /\ UNCHANGED <<todo, inputs, gpu, locals, disk>>

\* refineBinary, one packet.
WeldPacket ==
  /\ stage = "weld" /\ i \in DOMAIN raw
  /\ out' = IF Kept(raw[i], prevSync) THEN Append(out, raw[i]) ELSE out
  /\ prevSync' = SyncAfter(raw[i], prevSync)
  /\ i' = i + 1
  /\ UNCHANGED <<stage, todo, inputs, gpu, prog, pending, states, broken, raw, az, disk>>

WeldDone ==
  /\ stage = "weld" /\ i \notin DOMAIN raw
  /\ Enter("azoth")
  /\ UNCHANGED <<todo, inputs, gpu, locals, disk>>

\* generateAzothBinary, one packet, from the last one backwards.
\* Mutant: the rollback is generated in the order of the packets.
Forwards(s, k) == s[k]

Backwards(s, k) == s[Len(s) + 1 - k]

AzothStep ==
  /\ stage = "azoth" /\ i \in DOMAIN out
  /\ LET p == Backwards(out, i)
     IN  az' = IF p.op \in NotRolledBack THEN az ELSE Append(az, AzothPacket(p))
  /\ i' = i + 1
  /\ UNCHANGED <<stage, todo, inputs, gpu, prog, pending, states, broken, raw, out, prevSync, disk>>

AzothDone ==
  /\ stage = "azoth" /\ i \notin DOMAIN out
  /\ Enter("create")
  /\ UNCHANGED <<todo, inputs, gpu, locals, disk>>

-----------------------------------------------------------------------------
(* --mock: no recipe, the file as it is on disk. *)
MockFile == IF mode = "mock" THEN alkas ELSE azoth

\* A rollback packet is passed over.  An error ends the simulation, which is
\* reported all the same.
MockStep ==
  /\ stage = "mock" /\ i \in DOMAIN MockFile
  /\ LET p == MockFile[i]
     IN  IF "AZOTH" \in p.flags THEN i' = i + 1 /\ UNCHANGED <<stage, gpu>>
         ELSE IF MockRefuses(gpu, p) THEN Enter("mocked") /\ UNCHANGED gpu
         ELSE /\ gpu' = MockRun(gpu, p)
              /\ IF Hot(gpu') THEN Enter("mocked") ELSE i' = i + 1 /\ UNCHANGED stage
  /\ UNCHANGED <<todo, inputs, locals, disk>>

MockDone ==
  /\ stage = "mock" /\ i \notin DOMAIN MockFile
  /\ Enter("mocked")
  /\ UNCHANGED <<todo, inputs, gpu, locals, disk>>

-----------------------------------------------------------------------------
(* writeFile creates, which truncates, and then writes.                    *)
CreateAlkas ==
  /\ stage = "create" /\ Enter("fill")
  /\ alkas' = <<>> /\ writing' = TRUE
  /\ UNCHANGED <<todo, inputs, gpu, locals, azoth>>

FillAlkas ==
  /\ stage = "fill" /\ Enter("create azoth")
  /\ alkas' = out
  /\ UNCHANGED <<todo, inputs, gpu, locals, azoth, writing>>

CreateAzoth ==
  /\ stage = "create azoth" /\ Enter("fill azoth")
  /\ azoth' = <<>>
  /\ UNCHANGED <<todo, inputs, gpu, locals, alkas, writing>>

FillAzoth ==
  /\ stage = "fill azoth" /\ Enter("done")
  /\ azoth' = az /\ writing' = FALSE
  /\ UNCHANGED <<todo, inputs, gpu, locals, alkas>>

\* A file that cannot be created, or that takes only some of its packets.
CreateFails ==
  /\ stage \in {"create", "create azoth"} /\ Enter("failed")
  /\ UNCHANGED <<todo, inputs, gpu, locals, disk>>

FillFails ==
  /\ stage \in {"fill", "fill azoth"} /\ Enter("failed")
  /\ \/ /\ stage = "fill"
        /\ \E n \in 0 .. Len(out) : alkas' = SubSeq(out, 1, n)
        /\ UNCHANGED azoth
     \/ /\ stage = "fill azoth"
        /\ \E n \in 0 .. Len(az) : azoth' = SubSeq(az, 1, n)
        /\ UNCHANGED alkas
  /\ UNCHANGED <<todo, inputs, gpu, locals, writing>>

\* The process returns, with or without an error, or is killed.
Exit == stage \in Ended /\ Gone /\ UNCHANGED disk
Kill == stage \in {"mock"} \cup Compiling \cup Writing /\ Gone /\ UNCHANGED disk

FrontEnd == ParseStmt \/ ParseDone \/ Inject \/ Prove \/ ChainInstr \/ ChainDone
BackEnd  == EmitInstr \/ EmitRejects \/ EmitDone \/ WeldPacket \/ WeldDone \/ AzothStep \/ AzothDone
Mock == MockStep \/ MockDone
WriteFiles == CreateAlkas \/ FillAlkas \/ CreateAzoth \/ FillAzoth \/ CreateFails \/ FillFails

Next == Start \/ FrontEnd \/ BackEnd \/ Mock \/ WriteFiles \/ Exit \/ Kill

Spec == Init /\ [][Next]_vars
=============================================================================
