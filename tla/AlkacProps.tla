----------------------------- MODULE AlkacProps -----------------------------
(* What the compiler promises about the files it leaves behind. *)
EXTENDS Alkac, FiniteSets

\* An optional field is a set of at most one value.
Optional(S) == { s \in SUBSET S : \A x, y \in s : x = y }
VesselType  == [pci : Optional(Nat),
                apertures : Seq([max : Optional(Nat), size : Optional(Nat)]),
                thermal : Optional([halt : Optional(Nat), throttle : Optional(Nat)])]
VialType    == [names : Seq(STRING), vessels : Seq(VesselType),
                cur : Optional(STRING), block : {"none", "aperture", "thermal"}]
DropType    == [op : 0 .. 255, flags : SUBSET {"FORCE", "AZOTH"}, vessel : 0 .. 1,
                src : Nat, dst : Nat, size : 0 .. W32 - 1, crcok : BOOLEAN]

\* The type invariant.
CompilerTypeOK ==
  /\ stage \in Stages /\ todo \in Seq(Job) /\ i \in Nat \ {0}
  /\ src \in Seq(Statement) /\ vial \in VialType /\ mode \in Modes
  /\ prog \in Seq(Instruction) /\ pending \in BOOLEAN
  /\ states \in SUBSET STRING /\ broken \in BOOLEAN
  /\ {raw, out, az, alkas, azoth} \subseteq Seq(DropType)
  /\ prevSync \in BOOLEAN /\ gpu \in Gpu /\ writing \in BOOLEAN

\* mod.zig: the numbers of the instructions the properties call by their names.
ASSUME NumbersAssumption ==
  /\ {"CLAIM", "FLOW", "SHIFT", "FENCE", "SIGNAL", "LIMIT", "GUARD", "SLICE"} \subseteq DOMAIN Opcode
  /\ Opcode["CLAIM"] = 1 /\ Opcode["FLOW"] = 3 /\ Opcode["SHIFT"] = 4 /\ Opcode["FENCE"] = 5
  /\ Opcode["SIGNAL"] = SIGNAL /\ Opcode["LIMIT"] = 14 /\ Opcode["GUARD"] = 49
  /\ Opcode["SLICE"] = 59

-----------------------------------------------------------------------------
(* The states the packets of an opcode require and establish. *)
RulesOf(op) == { k \in DOMAIN Rules : Rules[k].opcode = op }
Pre(op)     == UNION { Rules[k].pre : k \in RulesOf(op) }
Post(op)    == UNION { Rules[k].post : k \in RulesOf(op) }

Ordered(s) ==
  \A k \in DOMAIN s : \A st \in Pre(s[k].op) :
     \E j \in 1 .. k - 1 : st \in Post(s[j].op)

\* A binary on disk is in chain order: whatever state a packet's rule requires,
\* a packet before it establishes, although the chain is validated on the
\* instructions, before the tools, the welder and the disk had a say in which
\* packets there are.
BinaryOrdered == Ordered(alkas)

\* The packets of s from the k-th on that have a counterpart.
RolledFrom(s, k) == { j \in k .. Len(s) : s[j].op \notin NotRolledBack }

\* t holds the counterparts of those packets of s, the last one first.
Undoes(t, s) ==
  /\ Len(t) = Cardinality(RolledFrom(s, 1))
  /\ \A k \in RolledFrom(s, 1) : t[Cardinality(RolledFrom(s, k))] = AzothPacket(s[k])

\* The two files belong together: unless a run was cut short while it rewrote
\* them, the rollback file holds the counterparts of exactly the packets in the
\* binary, last one first.
PairedFiles == ~writing => Undoes(azoth, alkas)

-----------------------------------------------------------------------------
(* What the welder may remove. *)
Access(p)   == p.op \notin Stripped \cup {SYNC}
Rank(s, k)  == Cardinality({ j \in 1 .. k : Access(s[j]) })

\* The n-th access of one is the n-th of the other.
SameAccesses(s, t) ==
  /\ Rank(s, Len(s)) = Rank(t, Len(t))
  /\ \A k \in DOMAIN s, l \in DOMAIN t :
       Access(s[k]) /\ Access(t[l]) /\ Rank(s, k) = Rank(t, l) => s[k] = t[l]

Syncs(s)     == { k \in DOMAIN s : s[k].op = SYNC }
\* The barriers of s, each as the number of accesses before it.
Barriers(s)  == { Rank(s, k) : k \in Syncs(s) }
Redundant(s) == \E k, l \in Syncs(s) : k # l /\ Rank(s, k) = Rank(s, l)

\* The welder keeps every access in its order and a barrier wherever there was
\* one, and leaves no barrier that another makes redundant.
WeldKeepsBarriers ==
  stage \in {"azoth"} \cup Writing =>
    SameAccesses(out, raw) /\ Barriers(out) = Barriers(raw) /\ ~Redundant(out)

-----------------------------------------------------------------------------
(* What "!!" reaches. *)
Yields(st) == st.form # "skip" /\ ~Announces(st)
InlineOverride(st) == st.form \in {"marker", "glued"} /\ Yields(st)
Overridden(p) ==
  \/ InlineOverride(src[p])
  \/ \E q \in 1 .. p - 1 : Announces(src[q]) /\ \A r \in q + 1 .. p - 1 : src[r].form = "skip"

\* An instruction escapes its tool exactly when a "!!" stands before it, on its
\* line or above it with nothing but comments in between: an override never
\* reaches further than the next instruction and is never lost.
OverrideScope ==
  stage = "parse" =>
    \A p \in 1 .. i - 1 :
      Yields(src[p]) =>
        LET n == Cardinality({ q \in 1 .. p : Yields(src[q]) })
        IN  n \in DOMAIN prog /\ (prog[n].override <=> Overridden(p))

-----------------------------------------------------------------------------
(* What the vial allows: some aperture's window, some vessel's limit. *)
Checked(instr) ==
  /\ ~instr.override
  /\ \A k \in DOMAIN instr.operands : instr.operands[k].tok # "word"

AllApertures == UNION { Range(vial.vessels[k].apertures) : k \in DOMAIN vial.vessels }
InSomeWindow(size) ==
  \E a \in AllApertures : \E w \in IF a.max = {} THEN a.size ELSE a.max : size <= w
Limit0 == UNION { UNION { t.halt : t \in vial.vessels[k].thermal } : k \in DOMAIN vial.vessels }
InSomeLimit(temp) == Limit0 = {} \/ 0 \in Limit0 \/ \E h \in Limit0 : temp <= h

Fits(p) ==
  /\ p.op = Opcode["FLOW"]  => p.size > 0 /\ InSomeWindow(p.size)
  /\ p.op = Opcode["SLICE"] => p.dst > 0 /\ InSomeWindow(IF p.size = 0 THEN MaxAperture ELSE p.size)
  /\ p.op = Opcode["SHIFT"] => p.src % Page = 0 /\ p.src <= MaxAperture
  /\ p.op = Opcode["LIMIT"] => InSomeLimit(p.dst)
  /\ p.op = Opcode["GUARD"] => InSomeLimit(p.size)
  /\ p.op = Opcode["FENCE"] => p.src \in 1 .. FenceMax

\* A packet whose instruction was neither overridden nor left unresolved asks
\* the driver for no more than the vial, as parsed, allows: the operands the
\* tool looked at are the ones in the packet, after every conversion.
WithinVial ==
  stage \in {"weld", "azoth"} =>
    \A k \in DOMAIN raw : Checked(prog[k]) => Fits(raw[k])

-----------------------------------------------------------------------------
(* What the prover says of a recipe is true of the binary made of it. *)
PacketsOf(s, n) == { k \in DOMAIN s : s[k].op = Opcode[n] }

ProvedOrder(s) ==
  /\ \A j, k \in PacketsOf(s, "CLAIM") : j = k
  /\ \A k \in PacketsOf(s, "FENCE") : \E j \in PacketsOf(s, "SIGNAL") : k < j
  /\ \A k \in PacketsOf(s, "FLOW") :
       s[k].size > 0 => \E j \in PacketsOf(s, "LIMIT") : j < k

ProvedSize(s) ==
  \A k \in PacketsOf(s, "FLOW") :
    Len(prog[k].operands) >= 3 /\ prog[k].operands[3].val < W32 =>
      \A w \in FirstWindow(vial) : s[k].size <= w

\* The constraints are checked on the instructions; the packets the tools and
\* the welder let through still obey them: one CLAIM, a LIMIT before a FLOW, a
\* SIGNAL after a FENCE, a FLOW of 32 bits within the window.
ProofCarriesOver ==
  /\ stage = "weld" /\ Proved(prog, vial) => ProvedOrder(raw) /\ ProvedSize(raw)
  /\ stage \in {"azoth"} \cup Writing /\ Proved(prog, vial) => ProvedOrder(out)

-----------------------------------------------------------------------------
(* The mock. *)

\* No packet starts on a simulated card at or over the limit in force, whichever
\* packet heated the card, cooled it or moved the limit.
MockRunsCool == stage = "mock" => gpu.temp < gpu.halt

\* The compiler emits no packet the mock would have to call unknown: the
\* instruction set and the cases of executePacket are two lists kept by hand.
MockKnowsBinary == \A k \in DOMAIN alkas : alkas[k].op \in MockOpcodes

\* A rollback file that is run in place of its binary does nothing: all the
\* rollback generator writes is marked, and what is marked is passed over.
RollbackAloneRunsNothing == mode = "mock azoth" => gpu.count = 0

-----------------------------------------------------------------------------
(* What the texts say that the code does not do. *)

\* A recipe that was proved makes no FLOW larger than the aperture's window.
ProvedFlowsFit ==
  stage = "weld" /\ Proved(prog, vial) =>
    \A k \in PacketsOf(raw, "FLOW") : \A w \in FirstWindow(vial) : raw[k].size <= w

\* The chain validator and emitPacket let all instructions of a program pass.
Compiles(p, v) ==
  \A k \in DOMAIN p :
    /\ Accepted(p[k], v)
    /\ ~ChainError(p[k], UNION { Establishes(p[l]) : l \in 1 .. k - 1 })

\* Injecting safety into a program that compiles gives one that compiles.
InjectionCompiles == [][Inject /\ Compiles(prog, vial) => Compiles(prog', vial)]_vars
=============================================================================
