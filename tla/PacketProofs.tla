---------------------------- MODULE PacketProofs ----------------------------
(***************************************************************************)
(* Proofs about the packets an instruction becomes: what the prover says   *)
(* of the instructions and what the vial allows holds of the packets, the  *)
(* mock runs them on a card that stays cool, and the files hold exactly    *)
(* what their recipe is compiled to.  For every instruction set, recipe    *)
(* and vial, and any number of runs, killed or failed anywhere.            *)
(***************************************************************************)
EXTENDS RecipeProofs, Compilation

-----------------------------------------------------------------------------
(* From the instructions to the packets. *)

\* raw[k] is the packet of prog[k], which its tool accepted.
PacketsAreOf(n) ==
  \A k \in 1 .. n : k \in DOMAIN prog /\ Accepted(prog[k], vial) /\ raw[k] = EmitPacket(prog[k], vial)

\* The packets are those of the first instructions, in the end of all of them.
EmitInv ==
  /\ stage = "emit" => PacketsAreOf(Len(raw))
  /\ stage \in {"weld", "azoth"} \cup Writing =>
       IsSequence(raw) /\ Len(raw) = Len(prog) /\ PacketsAreOf(Len(raw))

LEMMA EmitInstrPackets == ChainInv /\ EmitInv /\ EmitInstr => EmitInv'
  <1> SUFFICES ASSUME ChainInv, EmitInv, EmitInstr PROVE EmitInv'
    OBVIOUS
  <1>1. /\ stage = "emit" /\ stage' = "emit" /\ i \in DOMAIN prog /\ Accepted(prog[i], vial)
        /\ raw' = Append(raw, EmitPacket(prog[i], vial)) /\ UNCHANGED <<prog, vial>>
    BY DEF EmitInstr, inputs
  <1>2. IsSequence(raw) /\ i = Len(raw) + 1 /\ PacketsAreOf(Len(raw))
    BY <1>1 DEF ChainInv, Emitted, InEmit, EmitInv
  <1>3. /\ Len(raw) \in Nat /\ Len(raw') = Len(raw) + 1 /\ raw'[Len(raw) + 1] = EmitPacket(prog[i], vial)
        /\ \A k \in 1 .. Len(raw) : raw'[k] = raw[k]
    BY <1>1, <1>2, Appended
  <1>4. \A k \in 1 .. Len(raw') : k \in 1 .. Len(raw) \/ k = i
    BY <1>2, <1>3
  <1>5. \A k \in 1 .. Len(raw') :
          k \in DOMAIN prog /\ Accepted(prog[k], vial) /\ raw'[k] = EmitPacket(prog[k], vial)
    BY <1>1, <1>2, <1>3, <1>4 DEF PacketsAreOf
  <1>6. PacketsAreOf(Len(raw))'
    BY <1>1, <1>5 DEF PacketsAreOf, Accepted, ToolAccepts
  <1> QED
    BY <1>1, <1>6 DEF EmitInv, Writing

LEMMA EmitNext == ChainInv /\ TypeInv /\ EmitInv /\ [Next]_vars => EmitInv'
  <1> SUFFICES ASSUME ChainInv, TypeInv, EmitInv, [Next]_vars PROVE EmitInv'
    OBVIOUS
  <1>0. UNCHANGED <<prog, vial, raw>> => (PacketsAreOf(Len(raw))' <=> PacketsAreOf(Len(raw)))
    BY DEF PacketsAreOf, Accepted, ToolAccepts
  <1>1. CASE ChainDone
    <2>1. stage = "chain" /\ raw' = <<>> /\ stage' \in {"rejected", "emit"}
      BY <1>1 DEF ChainDone, Enter, locals, ChainInv, Fresh
    <2>2. PacketsAreOf(Len(raw))'
      BY <2>1 DEF PacketsAreOf
    <2> QED
      BY <2>1, <2>2 DEF EmitInv, Writing
  <1>2. CASE EmitDone
    <2>1. /\ stage = "emit" /\ stage' = "weld" /\ UNCHANGED <<prog, vial, raw>> /\ i \notin DOMAIN prog
      BY <1>2 DEF EmitDone, Enter, locals, inputs
    <2>2. /\ IsSequence(raw) /\ i = Len(raw) + 1 /\ 1 .. i - 1 \subseteq DOMAIN prog
          /\ prog \in Seq(Instruction) /\ PacketsAreOf(Len(raw))
      BY <2>1 DEF ChainInv, Emitted, InEmit, TypeInv, CompilerTypeOK, EmitInv
    <2>3. Len(raw) \in Nat /\ Len(prog) \in Nat /\ DOMAIN prog = 1 .. Len(prog)
      BY <2>2, Appended, LenProperties
    <2>4. Len(raw) = Len(prog)
      <3>1. Len(raw) + 1 \notin 1 .. Len(prog)
        BY <2>1, <2>2, <2>3
      <3>2. Len(raw) > 0 => Len(raw) \in 1 .. Len(prog)
        BY <2>2, <2>3
      <3> QED
        BY <2>3, <3>1, <3>2
    <2>5. IsSequence(raw')
      BY <2>1, <2>2
    <2> QED
      BY <1>0, <2>1, <2>2, <2>4, <2>5 DEF EmitInv, IsSequence
  <1>3. CASE EmitRejects \/ WeldPacket \/ WeldDone \/ AzothStep \/ AzothDone \/ WriteFiles
    <2>1. /\ stage \in {"emit", "weld", "azoth"} \cup Writing /\ UNCHANGED <<prog, vial, raw>>
          /\ stage' # "emit" /\ (stage = "emit" => stage' = "rejected")
      BY <1>3 DEF EmitRejects, WeldPacket, WeldDone, AzothStep, AzothDone, WriteFiles, CreateAlkas,
         FillAlkas, CreateAzoth, FillAzoth, CreateFails, FillFails, Enter, Writing, locals, inputs
    <2> QED
      BY <1>0, <2>1 DEF EmitInv, IsSequence, Writing
  <1>4. CASE UNCHANGED vars
    <2>1. UNCHANGED <<stage, prog, vial, raw>>
      BY <1>4 DEF vars, locals, inputs
    <2> QED
      BY <1>0, <2>1 DEF EmitInv, IsSequence, Writing
  <1>5. CASE Start \/ ParseStmt \/ ParseDone \/ Inject \/ Prove \/ ChainInstr \/ Mock \/ Exit \/ Kill
    <2>1. stage' \notin {"emit", "weld", "azoth"} \cup Writing
      BY <1>5 DEF Start, ParseStmt, ParseDone, Inject, Prove, ChainInstr, Mock, MockStep, MockDone,
         Exit, Kill, Gone, Enter, Writing
    <2> QED
      BY <2>1 DEF EmitInv, Writing
  <1> QED
    BY <1>1, <1>2, <1>3, <1>4, <1>5, EmitInstrPackets DEF Next, FrontEnd, BackEnd

-----------------------------------------------------------------------------
(* What the prover says of the instructions. *)

\* Ranks follow the order of the packets.
LEMMA RankOrders ==
  ASSUME NEW s, NEW j \in Nat, NEW k \in Nat \ {0}, Access(s[k])
  PROVE  /\ j < k => Rank(s, j) < Rank(s, k)
         /\ Access(s[j]) /\ j # 0 /\ Rank(s, j) = Rank(s, k) => j = k
         /\ Rank(s, j) < Rank(s, k) => j < k
  <1>1. ASSUME NEW a \in Nat, NEW b \in Nat \ {0}, Access(s[b]), a < b
        PROVE  Rank(s, a) < Rank(s, b)
    <2>1. b - 1 \in Nat /\ (b - 1) + 1 = b /\ a \in 0 .. b - 1
      BY <1>1
    <2>2. Rank(s, b) = Rank(s, b - 1) + 1 /\ Rank(s, b - 1) \in Nat /\ Rank(s, a) <= Rank(s, b - 1)
      BY <1>1, <2>1, RankCounts
    <2>3. Rank(s, a) \in Nat
      BY RankCounts
    <2> QED
      BY <2>2, <2>3
  <1>2. Rank(s, j) \in Nat /\ Rank(s, k) \in Nat
    BY RankCounts
  <1>3. ASSUME Access(s[j]), j # 0, Rank(s, j) = Rank(s, k) PROVE j = k
    <2>1. ~(j < k) /\ ~(k < j)
      <3>1. j < k => Rank(s, j) < Rank(s, k)
        BY <1>1
      <3>2. k < j => Rank(s, k) < Rank(s, j)
        BY <1>1, <1>3
      <3> QED
        BY <1>2, <1>3, <3>1, <3>2
    <2> QED
      BY <2>1
  <1>4. ASSUME Rank(s, j) < Rank(s, k) PROVE j < k
    <2>1. k \in 0 .. j => Rank(s, k) <= Rank(s, j)
      BY RankCounts
    <2>2. k \notin 0 .. j
      BY <1>2, <1>4, <2>1
    <2> QED
      BY <2>2
  <1> QED
    BY <1>1, <1>3, <1>4

\* Every rank up to that of the last packet is some access's.
LEMMA RankReached ==
  ASSUME NEW s
  PROVE  \A n \in Nat : \A r \in 1 .. Rank(s, n) :
           \E k \in 1 .. n : Access(s[k]) /\ Rank(s, k) = r
  <1> DEFINE P(n) == \A r \in 1 .. Rank(s, n) :
                       \E k \in 1 .. n : Access(s[k]) /\ Rank(s, k) = r
             Z == { n \in Nat : P(n) }
  <1>1. P(0)
    BY RankCounts
  <1>2. ASSUME NEW n \in Nat, P(n) PROVE P(n + 1)
    <2> SUFFICES ASSUME NEW r \in 1 .. Rank(s, n + 1)
                 PROVE  \E k \in 1 .. n + 1 : Access(s[k]) /\ Rank(s, k) = r
      OBVIOUS
    <2>1. /\ Rank(s, n) \in Nat
          /\ Rank(s, n + 1) = IF Access(s[n + 1]) THEN Rank(s, n) + 1 ELSE Rank(s, n)
      BY RankCounts
    <2>2. r \in 1 .. Rank(s, n) \/ (Access(s[n + 1]) /\ Rank(s, n + 1) = r)
      BY <2>1
    <2>3. \A k \in 1 .. n : k \in 1 .. n + 1
      OBVIOUS
    <2> QED
      BY <1>2, <2>2, <2>3
  <1>3. Nat \subseteq Z
    <2> HIDE DEF P
    <2>1. 0 \in Z /\ \A n \in Nat : n \in Z => n + 1 \in Z
      BY <1>1, <1>2
    <2> HIDE DEF Z
    <2> QED
      BY <2>1, NatInd
  <1> QED
    BY <1>3

\* An access of s has a counterpart in a t that has the same accesses.
LEMMA Counterpart ==
  ASSUME NEW s, IsSequence(s), NEW t, IsSequence(t), SameAccesses(t, s) \/ SameAccesses(s, t),
         NEW k \in DOMAIN s, Access(s[k])
  PROVE  \E l \in DOMAIN t : Access(t[l]) /\ t[l] = s[k] /\ Rank(t, l) = Rank(s, k)
  <1>1. /\ Len(s) \in Nat /\ Len(t) \in Nat /\ DOMAIN s = 1 .. Len(s) /\ DOMAIN t = 1 .. Len(t)
        /\ Rank(t, Len(t)) = Rank(s, Len(s))
    BY Appended DEF SameAccesses
  <1>2. Rank(s, k) \in 1 .. Rank(t, Len(t))
    <2>1. k \in Nat \ {0} /\ 0 < k /\ k \in 0 .. Len(s)
      BY <1>1
    <2>2. Rank(s, 0) = 0 /\ Rank(s, k) \in Nat /\ Rank(s, Len(s)) \in Nat /\ Rank(s, k) <= Rank(s, Len(s))
      BY <1>1, <2>1, RankCounts
    <2>3. Rank(s, 0) < Rank(s, k)
      BY <2>1, RankOrders
    <2> QED
      BY <1>1, <2>2, <2>3
  <1>3. PICK l \in 1 .. Len(t) : Access(t[l]) /\ Rank(t, l) = Rank(s, k)
    BY <1>1, <1>2, RankReached
  <1>4. t[l] = s[k]
    BY <1>1, <1>3 DEF SameAccesses
  <1> QED
    BY <1>1, <1>3, <1>4

\* No instruction the prover knows is one the welder may leave out.
LEMMA ProvedAreAccesses ==
  ASSUME NEW s, NEW n \in {"CLAIM", "FLOW", "FENCE", "SIGNAL", "LIMIT"}
  PROVE  \A k \in PacketsOf(s, n) : k \in DOMAIN s /\ Access(s[k]) /\ s[k].op = Opcode[n]
  <1>1. Opcode[n] \notin Stripped \cup {SYNC}
    BY NumbersAssumption DEF Stripped, SYNC, SIGNAL
  <1> QED
    BY <1>1 DEF PacketsOf, Access

\* The order the prover asked for is that of any sequence with the same accesses.
LEMMA OrderWelded ==
  ASSUME NEW s, IsSequence(s), NEW t, IsSequence(t), SameAccesses(t, s), ProvedOrder(s)
  PROVE  ProvedOrder(t)
  <1> DEFINE Twin(k, l) == Access(t[k]) /\ Access(s[l]) /\ t[k] = s[l] /\ Rank(t, k) = Rank(s, l)
             Known == {"CLAIM", "FLOW", "FENCE", "SIGNAL", "LIMIT"}
  <1>1. /\ DOMAIN s = 1 .. Len(s) /\ DOMAIN t = 1 .. Len(t)
        /\ \A k \in DOMAIN s : k \in Nat \ {0}
        /\ \A k \in DOMAIN t : k \in Nat \ {0}
    BY Appended
  <1>2. ASSUME NEW n \in Known, NEW k \in PacketsOf(t, n)
        PROVE  k \in DOMAIN t /\ \E l \in PacketsOf(s, n) : l \in DOMAIN s /\ Twin(k, l)
    <2>1. k \in DOMAIN t /\ Access(t[k]) /\ t[k].op = Opcode[n]
      BY <1>2, ProvedAreAccesses
    <2>2. PICK l \in DOMAIN s : Access(s[l]) /\ s[l] = t[k] /\ Rank(s, l) = Rank(t, k)
      BY <2>1, Counterpart
    <2> QED
      BY <2>1, <2>2 DEF PacketsOf
  <1>3. ASSUME NEW n \in Known, NEW l \in PacketsOf(s, n)
        PROVE  \E k \in PacketsOf(t, n) : k \in DOMAIN t /\ Twin(k, l)
    <2>1. l \in DOMAIN s /\ Access(s[l]) /\ s[l].op = Opcode[n]
      BY <1>3, ProvedAreAccesses
    <2>2. PICK k \in DOMAIN t : Access(t[k]) /\ t[k] = s[l] /\ Rank(t, k) = Rank(s, l)
      BY <2>1, Counterpart
    <2> QED
      BY <2>1, <2>2 DEF PacketsOf
  <1>4. ASSUME NEW j \in DOMAIN t, NEW k \in DOMAIN t, NEW a \in DOMAIN s, NEW b \in DOMAIN s,
               Twin(j, a), Twin(k, b)
        PROVE  (a < b => j < k) /\ (a = b => j = k)
    <2>1. a < b => Rank(s, a) < Rank(s, b)
      BY <1>1, <1>4, RankOrders
    <2>2. (Rank(t, j) < Rank(t, k) => j < k) /\ (Rank(t, j) = Rank(t, k) => j = k)
      BY <1>1, <1>4, RankOrders
    <2> QED
      BY <1>4, <2>1, <2>2
  <1>5. \A j, k \in PacketsOf(t, "CLAIM") : j = k
    <2> SUFFICES ASSUME NEW j \in PacketsOf(t, "CLAIM"), NEW k \in PacketsOf(t, "CLAIM") PROVE j = k
      OBVIOUS
    <2>1. PICK a \in PacketsOf(s, "CLAIM") : j \in DOMAIN t /\ a \in DOMAIN s /\ Twin(j, a)
      BY <1>2
    <2>2. PICK b \in PacketsOf(s, "CLAIM") : k \in DOMAIN t /\ b \in DOMAIN s /\ Twin(k, b)
      BY <1>2
    <2>3. a = b
      BY DEF ProvedOrder
    <2> HIDE DEF Twin
    <2> QED
      BY <1>4, <2>1, <2>2, <2>3
  <1>6. \A k \in PacketsOf(t, "FENCE") : \E j \in PacketsOf(t, "SIGNAL") : k < j
    <2> SUFFICES ASSUME NEW k \in PacketsOf(t, "FENCE")
                 PROVE  \E j \in PacketsOf(t, "SIGNAL") : k < j
      OBVIOUS
    <2>1. PICK b \in PacketsOf(s, "FENCE") : k \in DOMAIN t /\ b \in DOMAIN s /\ Twin(k, b)
      BY <1>2
    <2>2. PICK a \in PacketsOf(s, "SIGNAL") : b < a
      BY DEF ProvedOrder
    <2>3. a \in DOMAIN s
      BY DEF PacketsOf
    <2>4. PICK j \in PacketsOf(t, "SIGNAL") : j \in DOMAIN t /\ Twin(j, a)
      BY <1>3
    <2> HIDE DEF Twin
    <2> QED
      BY <1>4, <2>1, <2>2, <2>3, <2>4
  <1>7. \A k \in PacketsOf(t, "FLOW") :
          t[k].size > 0 => \E j \in PacketsOf(t, "LIMIT") : j < k
    <2> SUFFICES ASSUME NEW k \in PacketsOf(t, "FLOW"), t[k].size > 0
                 PROVE  \E j \in PacketsOf(t, "LIMIT") : j < k
      OBVIOUS
    <2>1. PICK b \in PacketsOf(s, "FLOW") : k \in DOMAIN t /\ b \in DOMAIN s /\ Twin(k, b)
      BY <1>2
    <2>2. PICK a \in PacketsOf(s, "LIMIT") : a < b
      BY <2>1 DEF ProvedOrder
    <2>3. a \in DOMAIN s
      BY DEF PacketsOf
    <2>4. PICK j \in PacketsOf(t, "LIMIT") : j \in DOMAIN t /\ Twin(j, a)
      BY <1>3
    <2> HIDE DEF Twin
    <2> QED
      BY <1>4, <2>1, <2>2, <2>3, <2>4
  <1> QED
    BY <1>5, <1>6, <1>7 DEF ProvedOrder

\* The packet and its instruction have the same name.
LEMMA NamedPackets ==
  ASSUME IsSequence(raw), PacketsAreOf(Len(raw)), NEW n \in DOMAIN Opcode
  PROVE  \A k \in DOMAIN raw :
           /\ k \in 1 .. Len(raw) /\ k \in DOMAIN prog
           /\ raw[k] = EmitPacket(prog[k], vial)
           /\ k \in PacketsOf(raw, n) <=> prog[k].name = n
  <1> SUFFICES ASSUME NEW k \in DOMAIN raw
               PROVE  /\ k \in 1 .. Len(raw) /\ k \in DOMAIN prog
                      /\ raw[k] = EmitPacket(prog[k], vial)
                      /\ k \in PacketsOf(raw, n) <=> prog[k].name = n
    OBVIOUS
  <1>1. k \in 1 .. Len(raw)
    BY Appended
  <1>2. k \in DOMAIN prog /\ Accepted(prog[k], vial) /\ raw[k] = EmitPacket(prog[k], vial)
    BY <1>1 DEF PacketsAreOf
  <1>3. raw[k].op = Opcode[prog[k].name] /\ prog[k].name \in DOMAIN Opcode
    BY <1>2 DEF EmitPacket, Accepted
  <1>4. raw[k].op = Opcode[n] <=> prog[k].name = n
    BY <1>3, OpcodeAssumption
  <1> QED
    BY <1>1, <1>2, <1>4 DEF PacketsOf

\* The window the prover knows is a number.
LEMMA FirstWindowTyped ==
  ASSUME NEW v \in VialType
  PROVE  FirstWindow(v) \subseteq Nat
  <1> SUFFICES ASSUME v.vessels # <<>>, Head(v.vessels).apertures # <<>> PROVE FirstWindow(v) \subseteq Nat
    BY DEF FirstWindow
  <1>1. v.vessels \in Seq(VesselType)
    BY DEF VialType
  <1>2. Head(v.vessels) \in VesselType
    BY <1>1, HeadTailProperties
  <1>3. Head(v.vessels).apertures \in Seq(ApertureType)
    BY <1>2, VesselFields
  <1>4. Head(Head(v.vessels).apertures) \in ApertureType
    BY <1>3, HeadTailProperties
  <1>5. \A a \in ApertureType : a.max \subseteq Nat /\ a.size \subseteq Nat
    BY OptionalTyped DEF ApertureType
  <1> QED
    BY <1>4, <1>5 DEF FirstWindow

\* Z3's verdict is on the packets, too.
LEMMA ProvedPackets ==
  ASSUME TypeInv, IsSequence(raw), PacketsAreOf(Len(raw)), Len(raw) = Len(prog), Proved(prog, vial)
  PROVE  ProvedOrder(raw) /\ ProvedSize(raw)
  <1>1. /\ DOMAIN raw = 1 .. Len(raw) /\ DOMAIN prog = 1 .. Len(raw) /\ Len(raw) \in Nat
        /\ \A k \in DOMAIN prog : prog[k] \in Instruction
    BY Appended, LenProperties, ElementOfSeq DEF TypeInv, CompilerTypeOK
  <1>2. ASSUME NEW n \in {"CLAIM", "FLOW", "FENCE", "SIGNAL", "LIMIT"}
        PROVE  \A k \in DOMAIN raw : k \in PacketsOf(raw, n) <=> prog[k].name = n
    BY <1>2, NamedPackets, NumbersAssumption
  <1>3. \A k \in DOMAIN raw : ~Refuted(prog, k, vial)
    BY <1>1 DEF Proved
  <1>4. \A j, k \in PacketsOf(raw, "CLAIM") : j = k
    <2>1. ASSUME NEW j \in PacketsOf(raw, "CLAIM"), NEW k \in PacketsOf(raw, "CLAIM"), j < k
          PROVE  FALSE
      <3>1. j \in DOMAIN raw /\ k \in DOMAIN raw
        BY DEF PacketsOf
      <3>2. j \in 1 .. k - 1
        BY <1>1, <2>1, <3>1
      <3> QED
        BY <1>2, <1>3, <3>1, <3>2 DEF Refuted, NoneNamed
    <2>2. \A j \in PacketsOf(raw, "CLAIM") : j \in Nat
      BY <1>1 DEF PacketsOf
    <2> QED
      BY <2>1, <2>2
  <1>5. \A k \in PacketsOf(raw, "FENCE") : \E j \in PacketsOf(raw, "SIGNAL") : k < j
    <2> SUFFICES ASSUME NEW k \in PacketsOf(raw, "FENCE")
                 PROVE  \E j \in PacketsOf(raw, "SIGNAL") : k < j
      OBVIOUS
    <2>1. k \in DOMAIN raw
      BY DEF PacketsOf
    <2>2. PICK j \in k + 1 .. Len(prog) : prog[j].name = "SIGNAL"
      BY <1>2, <1>3, <2>1 DEF Refuted, NoneNamed
    <2>3. j \in DOMAIN raw /\ k < j
      BY <1>1, <2>1
    <2> QED
      BY <1>2, <2>2, <2>3
  <1>6. ASSUME NEW k \in PacketsOf(raw, "FLOW")
        PROVE  /\ k \in DOMAIN raw /\ prog[k].name = "FLOW"
               /\ raw[k].size = Size(3, prog[k].operands)
    <2>1. k \in DOMAIN raw
      BY DEF PacketsOf
    <2>2. prog[k].name = "FLOW"
      BY <1>2, <2>1
    <2>3. raw[k] = EmitPacket(prog[k], vial)
      BY <2>1, NamedPackets, NumbersAssumption
    <2> QED
      BY <2>1, <2>2, <2>3, NumbersAssumption DEF EmitPacket
  <1>7. \A k \in PacketsOf(raw, "FLOW") :
          raw[k].size > 0 => \E j \in PacketsOf(raw, "LIMIT") : j < k
    <2> SUFFICES ASSUME NEW k \in PacketsOf(raw, "FLOW"), raw[k].size > 0
                 PROVE  \E j \in PacketsOf(raw, "LIMIT") : j < k
      OBVIOUS
    <2>1. k \in DOMAIN raw /\ prog[k].name = "FLOW" /\ raw[k].size = Size(3, prog[k].operands)
      BY <1>6
    <2>2. ~(Len(prog[k].operands) < 3)
      BY <2>1 DEF Size
    <2>3. Len(prog[k].operands) >= 3
      <3>1. Len(prog[k].operands) \in Nat
        BY <1>1, <2>1, LenProperties DEF Instruction
      <3> QED
        BY <2>2, <3>1
    <2>4. PICK j \in 1 .. k - 1 : prog[j].name = "LIMIT"
      BY <1>3, <2>1, <2>3 DEF Refuted, NoneNamed
    <2>5. j \in DOMAIN raw /\ j < k
      BY <1>1, <2>1
    <2> QED
      BY <1>2, <2>4, <2>5
  <1>8. ProvedSize(raw)
    <2> SUFFICES ASSUME NEW k \in PacketsOf(raw, "FLOW"), Len(prog[k].operands) >= 3,
                        prog[k].operands[3].val < W32, NEW w \in FirstWindow(vial)
                 PROVE  raw[k].size <= w
      BY DEF ProvedSize
    <2>1. k \in DOMAIN raw /\ prog[k].name = "FLOW" /\ raw[k].size = Size(3, prog[k].operands)
      BY <1>6
    <2> DEFINE v == prog[k].operands[3].val
    <2>2. v \in Nat /\ Len(prog[k].operands) \in Nat
      <3>1. prog[k].operands \in Seq(Token) /\ Len(prog[k].operands) \in Nat
        BY <1>1, <2>1, LenProperties DEF Instruction
      <3>2. 3 \in 1 .. Len(prog[k].operands)
        BY <3>1
      <3>3. prog[k].operands[3] \in Token
        BY <3>1, <3>2, ElementOfSeq
      <3> QED
        BY <3>1, <3>3 DEF Token
    <2>3. ~(v > w)
      BY <1>3, <2>1 DEF Refuted, TooWide
    <2>4. w \in Nat
      BY FirstWindowTyped DEF TypeInv, CompilerTypeOK
    <2>5. raw[k].size = v % W32
      <3>1. ~(Len(prog[k].operands) < 3) /\ 3 \notin Claims \cup Limits \cup {SIGNAL}
        BY <2>2 DEF Claims, Limits, SIGNAL
      <3> QED
        BY <2>1, <3>1 DEF Size
    <2>6. v % W32 = v
      <3>1. W32 \in Nat \ {0} /\ v < W32
        BY ScaleAssumption
      <3> HIDE DEF v
      <3>2. v \in 0 .. W32 - 1
        BY <2>2, <3>1, ScaleAssumption
      <3>3. (W32 * 0 + v) % W32 = v
        BY <3>1, <3>2, ModUnique
      <3>4. W32 * 0 + v = v
        BY <2>2, <3>1
      <3> QED
        BY <3>3, <3>4
    <2> HIDE DEF v
    <2> QED
      BY <2>2, <2>3, <2>4, <2>5, <2>6
  <1> QED
    BY <1>4, <1>5, <1>7, <1>8 DEF ProvedOrder

\* What the prover says of a recipe is true of the packets the compiler emits
\* for it, and of those the welder leaves.
THEOREM VerdictCarriesOver ==
  ASSUME HashesTyped
  PROVE  Spec => []ProofCarriesOver
  <1>1. Init => EmitInv
    BY DEF Init, EmitInv, Writing
  <1>2. ChainInv /\ TypeInv /\ EmitInv /\ WeldKeepsBarriers => ProofCarriesOver
    <2> SUFFICES ASSUME ChainInv, TypeInv, EmitInv, WeldKeepsBarriers, Proved(prog, vial),
                        stage \in {"weld", "azoth"} \cup Writing
                 PROVE  /\ ProvedOrder(raw) /\ ProvedSize(raw)
                        /\ stage # "weld" => ProvedOrder(out)
      BY DEF ProofCarriesOver, Writing
    <2>1. /\ IsSequence(raw) /\ IsSequence(out) /\ Len(raw) = Len(prog) /\ PacketsAreOf(Len(raw))
      BY DEF EmitInv, ChainInv, Welded
    <2>2. ProvedOrder(raw) /\ ProvedSize(raw)
      BY <2>1, ProvedPackets
    <2>3. stage # "weld" => SameAccesses(out, raw)
      BY DEF WeldKeepsBarriers
    <2> QED
      BY <2>1, <2>2, <2>3, OrderWelded
  <1> QED
    BY <1>1, <1>2, InitInv, NextInv, TypeInit, TypeNext, EmitNext, BarriersAreKept, PTL DEF Spec

-----------------------------------------------------------------------------
(* What the tools are told of the vial. *)

\* The windows of a vial's apertures.
Window(a)  == IF a.max = {} THEN a.size ELSE a.max
Windows(v) == UNION { Window(a) : a \in Apertures(v) }

LEMMA WindowsTyped ==
  ASSUME NEW v \in VialType
  PROVE  Windows(v) \subseteq Nat /\ IsFiniteSet(Windows(v))
  <1> DEFINE N == Len(v.vessels)
             M(k) == Len(v.vessels[k].apertures)
             g(k) == [j \in 1 .. M(k) |-> Window(v.vessels[k].apertures[j])]
             f == [k \in 1 .. N |-> UNION { g(k)[j] : j \in 1 .. M(k) }]
  <1>1. N \in Nat /\ DOMAIN v.vessels = 1 .. N /\ \A k \in 1 .. N : v.vessels[k] \in VesselType
    BY LenProperties, ElementOfSeq DEF VialType
  <1>2. ASSUME NEW k \in 1 .. N
        PROVE  /\ M(k) \in Nat /\ DOMAIN v.vessels[k].apertures = 1 .. M(k)
               /\ \A j \in 1 .. M(k) : v.vessels[k].apertures[j] \in ApertureType
    <2>1. v.vessels[k].apertures \in Seq(ApertureType)
      BY <1>1, VesselFields
    <2> QED
      BY <2>1, LenProperties, ElementOfSeq
  <1>3. \A a \in ApertureType : Window(a) \subseteq Nat /\ IsFiniteSet(Window(a))
    <2>1. \A a \in ApertureType : a.max \in Optional(Nat) /\ a.size \in Optional(Nat)
      BY DEF ApertureType
    <2>2. ASSUME NEW o \in Optional(Nat) PROVE IsFiniteSet(o)
      <3>1. o = {} \/ \E x : o = {x}
        <4>1. \A x \in o : o = {x}
          BY OptionalTyped
        <4> QED
          BY <4>1
      <3> QED
        BY <3>1, FS_EmptySet, FS_Singleton
    <2> QED
      BY <2>1, <2>2, OptionalTyped DEF Window
  <1>4. ASSUME NEW k \in 1 .. N PROVE IsFiniteSet(f[k])
    <2>1. \A j \in 1 .. M(k) : g(k)[j] = Window(v.vessels[k].apertures[j])
      OBVIOUS
    <2>2. \A j \in 1 .. M(k) : IsFiniteSet(g(k)[j])
      BY <1>2, <1>3, <2>1
    <2>3. M(k) \in Nat
      BY <1>2
    <2> DEFINE c == g(k)
               m == M(k)
    <2>4. f[k] = UNION { c[j] : j \in 1 .. m }
      OBVIOUS
    <2>5. \A j \in 1 .. m : IsFiniteSet(c[j])
      BY <2>2
    <2>6. m \in Nat
      BY <2>3
    <2> HIDE DEF c, f, m
    <2>7. IsFiniteSet(UNION { c[j] : j \in 1 .. m })
      BY <2>5, <2>6, FiniteUnion
    <2> QED
      BY <2>4, <2>7
  <1>5. IsFiniteSet(UNION { f[k] : k \in 1 .. N })
    <2> HIDE DEF f
    <2> QED
      BY <1>1, <1>4, FiniteUnion
  <1>6. ASSUME NEW a \in Apertures(v)
        PROVE  a \in ApertureType /\ \E k \in 1 .. N : \E j \in 1 .. M(k) : a = v.vessels[k].apertures[j]
    <2>1. PICK k \in 1 .. N : a \in ToSet(v.vessels[k].apertures)
      BY <1>1 DEF Apertures
    <2>2. PICK j \in 1 .. M(k) : a = v.vessels[k].apertures[j]
      BY <1>2, <2>1 DEF ToSet
    <2> QED
      BY <1>2, <2>2
  <1>7. Windows(v) \subseteq UNION { f[k] : k \in 1 .. N }
    <2> SUFFICES ASSUME NEW a \in Apertures(v), NEW w \in Window(a)
                 PROVE  \E k \in 1 .. N : w \in f[k]
      BY DEF Windows
    <2>1. PICK k \in 1 .. N : \E j \in 1 .. M(k) : a = v.vessels[k].apertures[j]
      BY <1>6
    <2>2. PICK j \in 1 .. M(k) : a = v.vessels[k].apertures[j]
      BY <2>1
    <2>3. w \in g(k)[j]
      BY <2>2
    <2>4. f[k] = UNION { g(k)[x] : x \in 1 .. M(k) }
      OBVIOUS
    <2> HIDE DEF g, f, M
    <2> QED
      BY <2>3, <2>4
  <1>8. Windows(v) \subseteq Nat
    BY <1>3, <1>6 DEF Windows
  <1> HIDE DEF f
  <1> QED
    BY <1>5, <1>7, <1>8, FS_Subset

\* validateWithTools: what is no wider than the figure the tools are given is
\* no wider than some window.
LEMMA ApertureMaxIsAWindow ==
  ASSUME NEW size \in Nat, size > 0, vial \in VialType, size <= ApertureMax(vial)
  PROVE  InSomeWindow(size)
  <1> DEFINE S == {0} \cup Windows(vial)
  <1>1. ApertureMax(vial) = Max(S)
    BY DEF ApertureMax, Windows, Window
  <1>2. S \in SUBSET Nat /\ S # {} /\ IsFiniteSet(S)
    <2>1. Windows(vial) \subseteq Nat /\ IsFiniteSet(Windows(vial))
      BY WindowsTyped
    <2>2. IsFiniteSet({0})
      BY FS_Singleton
    <2> QED
      BY <2>1, <2>2, TwoFiniteSets
  <1>3. Max(S) \in S
    <2> HIDE DEF S
    <2> QED
      BY <1>2, MaxIsMember
  <1>4. Max(S) # 0
    <2>1. size <= Max(S) /\ size > 0 /\ size \in Nat
      BY <1>1
    <2> HIDE DEF S
    <2> QED
      BY <2>1
  <1>5. Max(S) \in Windows(vial)
    BY <1>3, <1>4
  <1>6. PICK a \in Apertures(vial) : Max(S) \in Window(a)
    BY <1>5 DEF Windows
  <1>7. a \in AllApertures
    BY DEF Apertures, AllApertures, ToSet, Range
  <1> QED
    BY <1>1, <1>6, <1>7 DEF InSomeWindow, Window

\* A limit of 0 is none, a vial without one has none, and any other the tools
\* are given is that of some vessel.
LEMMA ThermalHaltIsALimit ==
  ASSUME NEW temp \in Nat, NEW given \in Nat, temp <= given, vial \in VialType,
         UnderLimit(given, ThermalHalt(vial))
  PROVE  InSomeLimit(temp)
  <1> DEFINE N == Len(vial.vessels)
             I == { k \in 1 .. N : Halts(vial.vessels[k]) # {} }
             at == SelectLastInSeq(vial.vessels, LAMBDA v : Halts(v) # {})
             h == CHOOSE x \in Halts(vial.vessels[at]) : TRUE
  <1>1. N \in Nat /\ DOMAIN vial.vessels = 1 .. N /\ \A k \in 1 .. N : vial.vessels[k] \in VesselType
    BY LenProperties, ElementOfSeq DEF VialType
  <1>2. Limit0 = UNION { Halts(vial.vessels[k]) : k \in 1 .. N }
    BY <1>1 DEF Limit0, Halts
  <1>3. at = IF I # {} THEN Max(I) ELSE 0
    BY DEF SelectLastInSeq
  <1>4. ThermalHalt(vial) = IF at = 0 THEN 0 ELSE h
    BY DEF ThermalHalt
  <1>5. CASE I = {}
    <2>1. \A k \in 1 .. N : Halts(vial.vessels[k]) = {}
      BY <1>5
    <2>2. Limit0 = {}
      BY <1>2, <2>1
    <2> QED
      BY <2>2 DEF InSomeLimit
  <1>6. CASE I # {}
    <2>1. I \in SUBSET Nat /\ IsFiniteSet(I)
      <3>1. IsFiniteSet(1 .. N) /\ I \in SUBSET (1 .. N)
        BY <1>1, FS_Interval
      <3>2. 1 .. N \subseteq Nat
        BY <1>1
      <3> HIDE DEF I, N
      <3> QED
        BY <3>1, <3>2, FS_Subset
    <2>2. at \in I
      <3>1. Max(I) \in I
        <4> HIDE DEF I
        <4> QED
          BY <1>6, <2>1, MaxIsMember
      <3> HIDE DEF I, at
      <3> QED
        BY <1>3, <1>6, <3>1
    <2> HIDE DEF at
    <2>3. at \in 1 .. N /\ at # 0 /\ Halts(vial.vessels[at]) # {}
      BY <1>1, <2>2
    <2>4. h \in Halts(vial.vessels[at])
      BY <2>3
    <2> HIDE DEF h
    <2>5. h \in Nat /\ h \in Limit0
      BY <1>1, <1>2, <2>3, <2>4, VesselFields
    <2>6. h > 0 => given <= h
      BY <1>4, <2>3 DEF UnderLimit
    <2> HIDE DEF N
    <2>7. h = 0 \/ temp <= h
      BY <2>5, <2>6
    <2> QED
      BY <2>5, <2>7 DEF InSomeLimit
  <1> QED
    BY <1>5, <1>6

-----------------------------------------------------------------------------
(* What the tools look at is what is emitted. *)

\* The values a tool is given, the first three.
Values(instr) ==
  LET count == IF Len(instr.operands) > 3 THEN 3 ELSE Len(instr.operands)
  IN  [k \in 1 .. count |-> instr.operands[k].val]

LEMMA ValuesTyped ==
  ASSUME NEW instr \in Instruction
  PROVE  /\ Len(instr.operands) \in Nat /\ Len(Values(instr)) \in Nat
         /\ \A k \in 1 .. 3 : Len(Values(instr)) >= k <=> Len(instr.operands) >= k
         /\ \A k \in 1 .. 3 : Len(instr.operands) >= k =>
              /\ instr.operands[k] \in Token /\ Values(instr)[k] = instr.operands[k].val
              /\ instr.operands[k].val \in Nat
  <1> DEFINE o == instr.operands
             L == Len(o)
             n == IF L > 3 THEN 3 ELSE L
             e(k) == o[k].val
  <1>1. L \in Nat /\ DOMAIN o = 1 .. L /\ \A k \in 1 .. L : o[k] \in Token
    BY LenProperties, ElementOfSeq DEF Instruction
  <1>2. n \in Nat /\ n <= L /\ n <= 3 /\ \A k \in 1 .. 3 : n >= k <=> L >= k
    <2> HIDE DEF L
    <2> QED
      BY <1>1
  <1>3. Values(instr) = [k \in 1 .. n |-> e(k)]
    BY DEF Values
  <1>4. \A k \in 1 .. n : e(k) \in Nat
    <2>1. \A k \in 1 .. n : k \in 1 .. L
      <3> HIDE DEF L, n
      <3> QED
        BY <1>1, <1>2
    <2> QED
      BY <1>1, <2>1 DEF Token
  <1>5. [k \in 1 .. n |-> e(k)] \in Seq(Nat)
    <2> HIDE DEF e, n
    <2> QED
      BY <1>2, <1>4, IsASeq
  <1>6. Len(Values(instr)) = n
    <2> DEFINE s == [k \in 1 .. n |-> e(k)]
    <2>1. DOMAIN s = 1 .. n
      OBVIOUS
    <2>2. s \in Seq(Nat)
      BY <1>5
    <2> HIDE DEF s, n
    <2>3. Len(s) \in Nat /\ DOMAIN s = 1 .. Len(s)
      BY <2>2, LenProperties
    <2>4. Len(s) = n
      BY <1>2, <2>1, <2>3
    <2> QED
      BY <1>3, <2>4 DEF s
  <1>7. ASSUME NEW k \in 1 .. 3, L >= k
        PROVE  o[k] \in Token /\ Values(instr)[k] = o[k].val /\ o[k].val \in Nat
    <2>1. k \in 1 .. n /\ k \in 1 .. L
      <3> HIDE DEF L
      <3> QED
        BY <1>1, <1>7
    <2>2. o[k] \in Token
      BY <1>1, <2>1
    <2>3. Values(instr)[k] = o[k].val
      <3> HIDE DEF n
      <3> QED
        BY <1>3, <2>1
    <2> QED
      BY <2>2, <2>3 DEF Token
  <1> HIDE DEF n
  <1> QED
    BY <1>1, <1>2, <1>6, <1>7

\* A packet of an instruction whose operands are all known.
LEMMA PlainPacket ==
  ASSUME NEW instr \in Instruction, Checked(instr), NEW op, op = Opcode[instr.name]
  PROVE  LET p == EmitPacket(instr, vial)
             v == Values(instr)
         IN  /\ p.op = op
             /\ Len(v) >= 1 => p.src = v[1] /\ v[1] \in Nat
             /\ Len(v) >= 2 /\ op \notin Claims \cup {SIGNAL} => p.dst = v[2] /\ v[2] \in Nat
             /\ op \notin Claims \cup Limits \cup {SIGNAL} =>
                  p.size = IF Len(v) >= 3 THEN v[3] % W32 ELSE 0
             /\ Len(v) >= 3 => v[3] \in Nat
  <1> DEFINE o == instr.operands
             v == Values(instr)
             p == EmitPacket(instr, vial)
  <1>1. /\ p.op = op /\ p.src = SrcAddr(op, o, vial) /\ p.dst = DstAddr(op, o)
        /\ p.size = Size(op, o)
    BY DEF EmitPacket
  <1>2. /\ Len(o) \in Nat /\ Len(v) \in Nat
        /\ \A k \in 1 .. 3 : Len(v) >= k <=> Len(o) >= k
        /\ \A k \in 1 .. 3 : Len(o) >= k => v[k] = o[k].val /\ o[k].val \in Nat
    BY ValuesTyped
  <1>3. Len(v) >= 1 => p.src = v[1]
    <2> SUFFICES ASSUME Len(v) >= 1 PROVE p.src = v[1]
      OBVIOUS
    <2>1. o \in Seq(Token) /\ DOMAIN o = 1 .. Len(o) /\ Len(o) >= 1
      BY <1>2, LenProperties DEF Instruction
    <2>2. o # <<>> /\ Head(o) = o[1] /\ 1 \in DOMAIN o
      <3>1. Len(o) # 0
        BY <1>2, <2>1
      <3>2. o # <<>>
        BY <2>1, <3>1, EmptySeq
      <3>3. 1 \in DOMAIN o
        BY <1>2, <2>1
      <3> QED
        BY <2>1, <3>2, <3>3, HeadTailProperties
    <2>3. ~Names(o)
      BY <2>2 DEF Names, First, Checked
    <2>4. SrcAddr(op, o, vial) = o[1].val
      BY <2>2, <2>3 DEF SrcAddr, First
    <2> QED
      BY <1>1, <1>2, <2>1, <2>4
  <1>4. Len(v) >= 2 /\ op \notin Claims \cup {SIGNAL} => p.dst = v[2]
    <2>1. Len(v) >= 2 => ~(Len(o) < 2) /\ v[2] = o[2].val
      BY <1>2
    <2> HIDE DEF v, o
    <2> QED
      BY <1>1, <2>1 DEF DstAddr
  <1>5. op \notin Claims \cup Limits \cup {SIGNAL} => p.size = IF Len(v) >= 3 THEN v[3] % W32 ELSE 0
    <2>1. (Len(v) >= 3 <=> ~(Len(o) < 3)) /\ (Len(v) >= 3 => v[3] = o[3].val)
      BY <1>2
    <2> HIDE DEF v, o
    <2> QED
      BY <1>1, <2>1 DEF Size
  <1>6. \A k \in 1 .. 3 : Len(v) >= k => v[k] \in Nat
    BY <1>2
  <1> QED
    BY <1>1, <1>3, <1>4, <1>5, <1>6

\* validateWithTools, for an instruction that is looked at.
LEMMA ToolLooked ==
  ASSUME NEW instr, Accepted(instr, vial), Checked(instr)
  PROVE  Validate(instr.name, Values(instr), ToolContext(vial))
  BY DEF Accepted, Checked, ToolAccepts, Values

LEMMA ToolsOf ==
  ASSUME NEW v, NEW c
  PROVE  /\ Validate("FLOW", v, c) = FlowTool(v, c)
         /\ Validate("SHIFT", v, c) = ShiftTool(v, c)
         /\ Validate("FENCE", v, c) = FenceTool(v, c)
         /\ Validate("LIMIT", v, c) = LimitTool(v, c)
         /\ Validate("GUARD", v, c) = GuardTool(v, c)
         /\ Validate("SLICE", v, c) = SliceTool(v, c)
  <1>1. Validate("FLOW", v, c) = FlowTool(v, c)
    BY DEF Validate
  <1>2. Validate("SHIFT", v, c) = ShiftTool(v, c)
    BY DEF Validate
  <1>3. Validate("FENCE", v, c) = FenceTool(v, c)
    BY DEF Validate
  <1>4. Validate("LIMIT", v, c) = LimitTool(v, c)
    BY DEF Validate
  <1>5. Validate("GUARD", v, c) = GuardTool(v, c)
    BY DEF Validate
  <1>6. Validate("SLICE", v, c) = SliceTool(v, c)
    BY DEF Validate
  <1> QED
    BY <1>1, <1>2, <1>3, <1>4, <1>5, <1>6

\* The packet of an instruction its tool looked at and let pass asks for no
\* more than the vial allows.
LEMMA AcceptedFits ==
  ASSUME NEW instr \in Instruction, vial \in VialType, Accepted(instr, vial), Checked(instr)
  PROVE  Fits(EmitPacket(instr, vial))
  <1> DEFINE p == EmitPacket(instr, vial)
             v == Values(instr)
             c == ToolContext(vial)
             op == Opcode[instr.name]
  <1>1. /\ p.op = op
        /\ Len(v) >= 1 => p.src = v[1] /\ v[1] \in Nat
        /\ Len(v) >= 2 /\ op \notin Claims \cup {SIGNAL} => p.dst = v[2] /\ v[2] \in Nat
        /\ op \notin Claims \cup Limits \cup {SIGNAL} => p.size = IF Len(v) >= 3 THEN v[3] % W32 ELSE 0
        /\ Len(v) >= 3 => v[3] \in Nat
    <2> HIDE DEF p, v
    <2> QED
      BY PlainPacket DEF p, v
  <1>2. Validate(instr.name, v, c) /\ instr.name \in DOMAIN Opcode
    BY ToolLooked DEF Accepted
  <1>3. ASSUME NEW n \in {"FLOW", "SHIFT", "FENCE", "LIMIT", "GUARD", "SLICE"}, op = Opcode[n]
        PROVE  instr.name = n
    BY <1>2, <1>3, OpcodeAssumption, NumbersAssumption
  <1>4. c.apertureMax = ApertureMax(vial) /\ c.thermalLimit = ThermalHalt(vial)
    BY DEF ToolContext
  <1>5. \A x \in Nat : x % W32 \in Nat /\ x % W32 <= x
    <2>1. W32 \in Nat \ {0}
      BY ScaleAssumption
    <2> QED
      BY <2>1, ModDef
  <1> HIDE DEF p, v, c, op
  <1>6. CASE op = Opcode["FLOW"]
    <2>1. FlowTool(v, c)
      BY <1>2, <1>3, <1>6, ToolsOf
    <2>2. op \notin Claims \cup Limits \cup {SIGNAL}
      BY <1>6, NumbersAssumption DEF Claims, Limits, SIGNAL
    <2>3. Len(v) >= 3 /\ p.size = v[3] % W32 /\ p.size > 0 /\ p.size <= ApertureMax(vial)
      BY <1>1, <1>4, <2>1, <2>2 DEF FlowTool, SparkFlow
    <2>4. p.size \in Nat
      BY <1>1, <1>5, <2>3
    <2>5. InSomeWindow(p.size)
      BY <2>3, <2>4, ApertureMaxIsAWindow
    <2>6. /\ p.op = Opcode["FLOW"]
          /\ p.op \notin {Opcode["SLICE"], Opcode["SHIFT"], Opcode["LIMIT"], Opcode["GUARD"], Opcode["FENCE"]}
      BY <1>1, <1>6, NumbersAssumption
    <2>7. Fits(p)
      BY <2>3, <2>5, <2>6 DEF Fits
    <2> QED
      BY <2>7 DEF p
  <1>7. CASE op = Opcode["SLICE"]
    <2>1. SliceTool(v, c)
      BY <1>2, <1>3, <1>7, ToolsOf
    <2>2. op \notin Claims \cup Limits \cup {SIGNAL}
      BY <1>7, NumbersAssumption DEF Claims, Limits, SIGNAL
    <2> DEFINE chunk == IF p.size > 0 THEN p.size ELSE MaxAperture
    <2>3. p.size = IF Len(v) >= 3 THEN v[3] % W32 ELSE 0
      BY <1>1, <2>2
    <2>4. p.size \in Nat
      BY <1>1, <1>5, <2>3
    <2>5. Len(v) >= 2 /\ v[2] > 0 /\ chunk > 0 /\ chunk <= ApertureMax(vial)
      BY <1>4, <2>1, <2>3 DEF SliceTool, SparkSlice
    <2>6. p.dst > 0
      BY <1>1, <2>2, <2>5
    <2>7. chunk \in Nat /\ chunk = IF p.size = 0 THEN MaxAperture ELSE p.size
      BY <2>4, ScaleAssumption
    <2> HIDE DEF chunk
    <2>8. InSomeWindow(chunk)
      BY <2>5, <2>7, ApertureMaxIsAWindow
    <2>9. /\ p.op = Opcode["SLICE"]
          /\ p.op \notin {Opcode["FLOW"], Opcode["SHIFT"], Opcode["LIMIT"], Opcode["GUARD"], Opcode["FENCE"]}
      BY <1>1, <1>7, NumbersAssumption
    <2>10. Fits(p)
      BY <2>6, <2>7, <2>8, <2>9 DEF Fits
    <2> QED
      BY <2>10 DEF p
  <1>8. CASE op = Opcode["SHIFT"]
    <2>1. ShiftTool(v, c)
      BY <1>2, <1>3, <1>8, ToolsOf
    <2>2. p.src % Page = 0 /\ p.src <= MaxAperture
      BY <1>1, <2>1 DEF ShiftTool, SparkShift
    <2>3. /\ p.op = Opcode["SHIFT"]
          /\ p.op \notin {Opcode["FLOW"], Opcode["SLICE"], Opcode["LIMIT"], Opcode["GUARD"], Opcode["FENCE"]}
      BY <1>1, <1>8, NumbersAssumption
    <2>4. Fits(p)
      BY <2>2, <2>3 DEF Fits
    <2> QED
      BY <2>4 DEF p
  <1>9. CASE op = Opcode["LIMIT"]
    <2>1. LimitTool(v, c)
      BY <1>2, <1>3, <1>9, ToolsOf
    <2>2. op \notin Claims \cup {SIGNAL}
      BY <1>9, NumbersAssumption DEF Claims, SIGNAL
    <2>3. p.dst \in Nat /\ UnderLimit(p.dst, ThermalHalt(vial))
      BY <1>1, <1>4, <2>1, <2>2 DEF LimitTool
    <2>4. InSomeLimit(p.dst)
      BY <2>3, ThermalHaltIsALimit
    <2>5. /\ p.op = Opcode["LIMIT"]
          /\ p.op \notin {Opcode["FLOW"], Opcode["SLICE"], Opcode["SHIFT"], Opcode["GUARD"], Opcode["FENCE"]}
      BY <1>1, <1>9, NumbersAssumption
    <2>6. Fits(p)
      BY <2>4, <2>5 DEF Fits
    <2> QED
      BY <2>6 DEF p
  <1>10. CASE op = Opcode["GUARD"]
    <2>1. GuardTool(v, c)
      BY <1>2, <1>3, <1>10, ToolsOf
    <2>2. op \notin Claims \cup Limits \cup {SIGNAL}
      BY <1>10, NumbersAssumption DEF Claims, Limits, SIGNAL
    <2>3. v[3] \in Nat /\ UnderLimit(v[3], ThermalHalt(vial)) /\ p.size = v[3] % W32
      BY <1>1, <1>4, <2>1, <2>2 DEF GuardTool
    <2>4. p.size \in Nat /\ p.size <= v[3]
      BY <1>5, <2>3
    <2>5. InSomeLimit(p.size)
      BY <2>3, <2>4, ThermalHaltIsALimit
    <2>6. /\ p.op = Opcode["GUARD"]
          /\ p.op \notin {Opcode["FLOW"], Opcode["SLICE"], Opcode["SHIFT"], Opcode["LIMIT"], Opcode["FENCE"]}
      BY <1>1, <1>10, NumbersAssumption
    <2>7. Fits(p)
      BY <2>5, <2>6 DEF Fits
    <2> QED
      BY <2>7 DEF p
  <1>11. CASE op = Opcode["FENCE"]
    <2>1. FenceTool(v, c)
      BY <1>2, <1>3, <1>11, ToolsOf
    <2>2. p.src \in 1 .. FenceMax
      BY <1>1, <2>1, ScaleAssumption DEF FenceTool, SparkFence
    <2>3. /\ p.op = Opcode["FENCE"]
          /\ p.op \notin {Opcode["FLOW"], Opcode["SLICE"], Opcode["SHIFT"], Opcode["LIMIT"], Opcode["GUARD"]}
      BY <1>1, <1>11, NumbersAssumption
    <2>4. Fits(p)
      BY <2>2, <2>3 DEF Fits
    <2> QED
      BY <2>4 DEF p
  <1>12. CASE op \notin { Opcode[n] : n \in {"FLOW", "SHIFT", "FENCE", "LIMIT", "GUARD", "SLICE"} }
    <2>1. p.op \notin {Opcode["FLOW"], Opcode["SLICE"], Opcode["SHIFT"], Opcode["LIMIT"],
                       Opcode["GUARD"], Opcode["FENCE"]}
      BY <1>1, <1>12
    <2>2. Fits(p)
      BY <2>1 DEF Fits
    <2> QED
      BY <2>2 DEF p
  <1> QED
    BY <1>6, <1>7, <1>8, <1>9, <1>10, <1>11, <1>12

\* No packet of an instruction that was checked asks the driver for more than
\* the vial allows: the figures a tool compares are those of the packet, after
\* its size has lost all but 32 bits (validateWithTools and emitPacket).
THEOREM PacketsAreWithinVial ==
  ASSUME HashesTyped
  PROVE  Spec => []WithinVial
  <1>1. Init => EmitInv
    BY DEF Init, EmitInv, Writing
  <1>2. TypeInv /\ EmitInv => WithinVial
    <2> SUFFICES ASSUME TypeInv, EmitInv, stage \in {"weld", "azoth"}, NEW k \in DOMAIN raw, Checked(prog[k])
                 PROVE  Fits(raw[k])
      BY DEF WithinVial
    <2>1. k \in 1 .. Len(raw) /\ PacketsAreOf(Len(raw)) /\ Len(raw) = Len(prog)
      BY Appended DEF EmitInv
    <2>2. Accepted(prog[k], vial) /\ raw[k] = EmitPacket(prog[k], vial)
      BY <2>1 DEF PacketsAreOf
    <2>3. vial \in VialType /\ prog[k] \in Instruction
      BY <2>1, ElementOfSeq DEF TypeInv, CompilerTypeOK
    <2> QED
      BY <2>2, <2>3, AcceptedFits
  <1> QED
    BY <1>1, <1>2, InitInv, NextInv, TypeInit, TypeNext, EmitNext, PTL DEF Spec

-----------------------------------------------------------------------------
(* The simulated card. *)

\* MockRunsCool only speaks of a card that is being simulated: that of a run
\* which has not begun is a fresh one.
CoolInv ==
  /\ stage \notin {"mock", "mocked"} => gpu = GpuStart
  /\ MockRunsCool

LEMMA FreshIsCool == GpuStart.temp < GpuStart.halt
  BY MockAssumption DEF GpuStart

\* checkThermal, after every packet: what goes on is under the limit in force.
LEMMA MockStepCool == TypeInv /\ TypeInv' /\ CoolInv /\ MockStep => CoolInv'
  <1> SUFFICES ASSUME TypeInv, TypeInv', CoolInv, MockStep PROVE CoolInv'
    OBVIOUS
  <1>1. stage = "mock" /\ stage' \in {"mock", "mocked"}
    BY DEF MockStep, Enter
  <1>2. gpu.temp < gpu.halt
    BY <1>1 DEF CoolInv, MockRunsCool
  <1>3. gpu'.temp \in Nat /\ gpu'.halt \in Nat
    BY DEF TypeInv, CompilerTypeOK, Gpu
  <1>4. stage' = "mock" => gpu' = gpu \/ ~Hot(gpu')
    BY DEF MockStep, Enter
  <1>5. stage' = "mock" => gpu'.temp < gpu'.halt
    BY <1>2, <1>3, <1>4 DEF Hot
  <1> QED
    BY <1>1, <1>5 DEF CoolInv, MockRunsCool

LEMMA CoolNext == TypeInv /\ TypeInv' /\ CoolInv /\ [Next]_vars => CoolInv'
  <1> SUFFICES ASSUME TypeInv, TypeInv', CoolInv, [Next]_vars PROVE CoolInv'
    OBVIOUS
  <1>1. CASE Start \/ FrontEnd \/ BackEnd \/ WriteFiles
    <2>1. stage \notin {"mock", "mocked"} /\ gpu' = gpu
      BY <1>1 DEF Start, FrontEnd, ParseStmt, ParseDone, Inject, Prove, ChainInstr, ChainDone,
         BackEnd, EmitInstr, EmitRejects, EmitDone, WeldPacket, WeldDone, AzothStep, AzothDone,
         WriteFiles, CreateAlkas, FillAlkas, CreateAzoth, FillAzoth, CreateFails, FillFails, Writing
    <2> QED
      BY <2>1, FreshIsCool DEF CoolInv, MockRunsCool
  <1>2. CASE Exit \/ Kill
    BY <1>2, FreshIsCool DEF Exit, Kill, Gone, Enter, CoolInv, MockRunsCool
  <1>3. CASE MockDone
    BY <1>3 DEF MockDone, Enter, CoolInv, MockRunsCool
  <1>4. CASE UNCHANGED vars
    BY <1>4 DEF vars, CoolInv, MockRunsCool
  <1> QED
    BY <1>1, <1>2, <1>3, <1>4, MockStepCool DEF Next, Mock

\* Whatever a binary holds, a packet never starts on a simulated card that is
\* at its limit or over it, wherever a LIMIT has put the limit (checkThermal,
\* which executeDrop calls after every packet).
THEOREM MockStaysCool ==
  ASSUME HashesTyped
  PROVE  Spec => []MockRunsCool
  <1>1. Init => CoolInv
    BY FreshIsCool DEF Init, CoolInv, MockRunsCool
  <1>2. CoolInv => MockRunsCool
    BY DEF CoolInv
  <1> QED
    BY <1>1, <1>2, TypeInit, TypeNext, CoolNext, PTL DEF Spec

-----------------------------------------------------------------------------
(* What a recipe is compiled to, pass by pass. *)

Request == [src |-> src, vial |-> vial, mode |-> mode]

\* The counterparts of the last n packets.
Undone(s, n) ==
  FlattenSeq([k \in 1 .. n |-> IF s[Len(s) + 1 - k].op \in NotRolledBack THEN <<>>
                               ELSE <<AzothPacket(s[Len(s) + 1 - k])>>])

\* What each pass has made of what it was given; the packets are in EmitInv and
\* what the validator found in ChainInv.
CompileInv ==
  /\ stage = "parse" =>
       /\ mode \in {"compile", "inject", "prove"}
       /\ i \in 1 .. Len(src) + 1 /\ prog = Instructions(src, i - 1)
       /\ pending = Awaited(src, i)
  /\ stage \in {"inject", "prove"} => mode = stage /\ prog = Instructions(src, Len(src))
  /\ stage \in {"chain", "emit", "weld", "azoth"} \cup Writing =>
       mode \in {"compile", "inject"} /\ prog = Program(Request)
  /\ stage \in {"emit", "weld", "azoth"} \cup Writing => \A k \in DOMAIN prog : InOrder(k)
  /\ stage = "weld" => out = Refined(raw, i - 1) /\ prevSync = ~Apart(raw, i)
  /\ stage \in {"azoth"} \cup Writing => out = Refined(raw, Len(raw))
  /\ stage = "azoth" => i \in 1 .. Len(out) + 1 /\ az = Undone(out, i - 1)
  /\ stage \in Writing => az = AzothBatch(out)

LEMMA InstructionsMore ==
  ASSUME NEW s \in Seq(Statement), NEW n \in Nat, n < Len(s)
  PROVE  Instructions(s, n + 1) = Instructions(s, n) \o Parsed(s[n + 1], Awaited(s, n + 1))
  <1> DEFINE e == [p \in 1 .. n + 1 |-> Parsed(s[p], Awaited(s, p))]
  <1>1. ASSUME NEW p \in 1 .. n + 1
        PROVE  e[p] \in Seq(Instruction)
    <2>1. s[p] \in Statement
      BY ElementOfSeq, LenProperties
    <2>2. Awaited(s, p) \in BOOLEAN
      BY DEF Awaited
    <2> QED
      BY <2>1, <2>2, ParsedTyped
  <1>2. /\ n + 1 \in 1 .. n + 1 /\ e[n + 1] = Parsed(s[n + 1], Awaited(s, n + 1))
        /\ Instructions(s, n + 1) = FlattenSeq([p \in 1 .. n + 1 |-> e[p]])
    BY DEF Instructions
  <1>3. Instructions(s, n) = FlattenSeq([p \in 1 .. n |-> e[p]])
    <2>1. \A p \in 1 .. n : p \in 1 .. n + 1
      OBVIOUS
    <2>2. \A p \in 1 .. n : e[p] = Parsed(s[p], Awaited(s, p))
      BY <2>1
    <2> HIDE DEF e
    <2> QED
      BY <2>2 DEF Instructions
  <1> HIDE DEF e
  <1> QED
    BY <1>1, <1>2, <1>3, FlattenNext

LEMMA RefinedMore ==
  ASSUME NEW s \in Seq(DropType), NEW n \in Nat, n < Len(s)
  PROVE  Refined(s, n + 1) =
           IF Access(s[n + 1]) \/ (s[n + 1].op = SYNC /\ Apart(s, n + 1)) THEN Append(Refined(s, n), s[n + 1])
           ELSE Refined(s, n)
  <1> DEFINE Left(k) == Access(s[k]) \/ (s[k].op = SYNC /\ Apart(s, k))
             e == [k \in 1 .. n + 1 |-> IF Left(k) THEN <<s[k]>> ELSE <<>>]
  <1>1. ASSUME NEW k \in 1 .. n + 1
        PROVE  e[k] \in Seq(DropType)
    <2>1. s[k] \in DropType
      BY ElementOfSeq, LenProperties
    <2>2. e[k] = <<s[k]>> \/ e[k] = <<>>
      OBVIOUS
    <2> HIDE DEF e
    <2> QED
      BY <2>1, <2>2, ShortSequences
  <1>2. /\ n + 1 \in 1 .. n + 1 /\ e[n + 1] = IF Left(n + 1) THEN <<s[n + 1]>> ELSE <<>>
        /\ Refined(s, n + 1) = FlattenSeq([k \in 1 .. n + 1 |-> e[k]])
    BY DEF Refined
  <1>3. Refined(s, n) = FlattenSeq([k \in 1 .. n |-> e[k]])
    <2>1. \A k \in 1 .. n : k \in 1 .. n + 1
      OBVIOUS
    <2>2. \A k \in 1 .. n : e[k] = IF Left(k) THEN <<s[k]>> ELSE <<>>
      BY <2>1
    <2> HIDE DEF e
    <2> QED
      BY <2>2 DEF Refined
  <1> HIDE DEF e
  <1>4. Refined(s, n + 1) = Refined(s, n) \o e[n + 1]
    BY <1>1, <1>2, <1>3, FlattenNext
  <1>5. Refined(s, n) \in Seq(DropType)
    <2>1. [k \in 1 .. n |-> e[k]] \in Seq(Seq(DropType))
      <3>1. \A k \in 1 .. n : e[k] \in Seq(DropType)
        BY <1>1
      <3> QED
        BY <3>1, IsASeq
    <2> QED
      BY <1>3, <2>1, FlattenTyped
  <1>6. s[n + 1] \in DropType
    BY ElementOfSeq, LenProperties
  <1>7. CASE Left(n + 1)
    <2>1. Refined(s, n + 1) = Append(Refined(s, n), s[n + 1])
      <3>1. e[n + 1] = <<s[n + 1]>>
        BY <1>2, <1>7
      <3> HIDE DEF Left
      <3> QED
        BY <1>4, <1>5, <1>6, <3>1, AppendIsConcat
    <2> QED
      BY <1>7, <2>1
  <1>8. CASE ~Left(n + 1)
    <2>1. Refined(s, n + 1) = Refined(s, n)
      <3>1. e[n + 1] = <<>>
        BY <1>2, <1>8
      <3> HIDE DEF Left
      <3> QED
        BY <1>4, <1>5, <3>1, ConcatEmptySeq
    <2> QED
      BY <1>8, <2>1
  <1> QED
    BY <1>7, <1>8

LEMMA UndoneMore ==
  ASSUME NEW s \in Seq(DropType), NEW n \in Nat, n < Len(s)
  PROVE  Undone(s, n + 1) =
           LET p == s[Len(s) - n] IN IF p.op \in NotRolledBack THEN Undone(s, n) ELSE Append(Undone(s, n), AzothPacket(p))
  <1> DEFINE C(k) == IF s[Len(s) + 1 - k].op \in NotRolledBack THEN <<>> ELSE <<AzothPacket(s[Len(s) + 1 - k])>>
             e == [k \in 1 .. n + 1 |-> C(k)]
  <1>0. Len(s) \in Nat
    BY LenProperties
  <1>1. ASSUME NEW k \in 1 .. n + 1
        PROVE  e[k] \in Seq(DropType)
    <2>1. Len(s) + 1 - k \in 1 .. Len(s)
      BY <1>0
    <2>2. AzothPacket(s[Len(s) + 1 - k]) \in DropType
      BY <2>1, ElementOfSeq, AzothPacketTyped
    <2>3. e[k] = <<AzothPacket(s[Len(s) + 1 - k])>> \/ e[k] = <<>>
      OBVIOUS
    <2> HIDE DEF e
    <2> QED
      BY <2>2, <2>3, ShortSequences
  <1>2. /\ n + 1 \in 1 .. n + 1 /\ e[n + 1] = C(n + 1)
        /\ Undone(s, n + 1) = FlattenSeq([k \in 1 .. n + 1 |-> e[k]])
    <2>1. \A k \in 1 .. n + 1 : e[k] = C(k)
      OBVIOUS
    <2>2. n + 1 \in 1 .. n + 1
      OBVIOUS
    <2> HIDE DEF e
    <2> QED
      BY <2>1, <2>2 DEF Undone
  <1>3. Undone(s, n) = FlattenSeq([k \in 1 .. n |-> e[k]])
    <2>1. \A k \in 1 .. n : k \in 1 .. n + 1
      OBVIOUS
    <2>2. \A k \in 1 .. n : e[k] = C(k)
      BY <2>1
    <2> HIDE DEF e
    <2> QED
      BY <2>2 DEF Undone
  <1> HIDE DEF e
  <1>4. Undone(s, n + 1) = Undone(s, n) \o e[n + 1]
    BY <1>1, <1>2, <1>3, FlattenNext
  <1>5. Undone(s, n) \in Seq(DropType)
    <2>1. [k \in 1 .. n |-> e[k]] \in Seq(Seq(DropType))
      <3>1. \A k \in 1 .. n : e[k] \in Seq(DropType)
        BY <1>1
      <3> QED
        BY <3>1, IsASeq
    <2> QED
      BY <1>3, <2>1, FlattenTyped
  <1>6. /\ Len(s) + 1 - (n + 1) = Len(s) - n /\ Len(s) - n \in 1 .. Len(s)
        /\ AzothPacket(s[Len(s) - n]) \in DropType
    <2>1. Len(s) + 1 - (n + 1) = Len(s) - n /\ Len(s) - n \in 1 .. Len(s)
      BY <1>0
    <2> QED
      BY <2>1, ElementOfSeq, AzothPacketTyped
  <1>7. e[n + 1] = IF s[Len(s) - n].op \in NotRolledBack THEN <<>> ELSE <<AzothPacket(s[Len(s) - n])>>
    BY <1>2, <1>6
  <1>8. CASE s[Len(s) - n].op \in NotRolledBack
    <2>1. Undone(s, n + 1) = Undone(s, n)
      BY <1>4, <1>5, <1>7, <1>8, ConcatEmptySeq
    <2> QED
      BY <1>8, <2>1
  <1>9. CASE s[Len(s) - n].op \notin NotRolledBack
    <2>1. Undone(s, n + 1) = Append(Undone(s, n), AzothPacket(s[Len(s) - n]))
      BY <1>4, <1>5, <1>6, <1>7, <1>9, AppendIsConcat
    <2> QED
      BY <1>9, <2>1
  <1> QED
    BY <1>8, <1>9

\* The loops start from nothing.
LEMMA NothingYet ==
  /\ \A s : Instructions(s, 0) = <<>>
  /\ \A s : Refined(s, 0) = <<>>
  /\ \A s : Undone(s, 0) = <<>>
  <1>1. \A e : FlattenSeq([k \in 1 .. 0 |-> e[k]]) = <<>>
    <2>1. \A e : [k \in 1 .. 0 |-> e[k]] = <<>>
      OBVIOUS
    <2>2. FlattenSeq(<<>>) = <<>>
      BY DEF FlattenSeq
    <2> QED
      BY <2>1, <2>2
  <1> QED
    BY <1>1 DEF Instructions, Refined, Undone

LEMMA ApartNext ==
  ASSUME NEW s, NEW n \in Nat \ {0}
  PROVE  Apart(s, n + 1) <=> Access(s[n]) \/ (Apart(s, n) /\ s[n].op # SYNC)
  <1>1. ASSUME Access(s[n])
        PROVE  Apart(s, n + 1)
    <2>1. s[n].op # SYNC
      BY <1>1 DEF Access
    <2>2. ASSUME NEW l \in 1 .. (n + 1) - 1, s[l].op = SYNC
          PROVE  n \in l + 1 .. (n + 1) - 1
      BY <2>1, <2>2
    <2> QED
      BY <1>1, <2>2 DEF Apart
  <1>2. ASSUME ~Access(s[n]), Apart(s, n + 1)
        PROVE  Apart(s, n) /\ s[n].op # SYNC
    <2>1. s[n].op # SYNC
      <3>1. n \in 1 .. (n + 1) - 1 /\ n + 1 .. (n + 1) - 1 = {}
        OBVIOUS
      <3> QED
        BY <1>2, <3>1 DEF Apart
    <2>2. ASSUME NEW l \in 1 .. n - 1, s[l].op = SYNC
          PROVE  \E m \in l + 1 .. n - 1 : Access(s[m])
      <3>1. l \in 1 .. (n + 1) - 1
        OBVIOUS
      <3>2. PICK m \in l + 1 .. (n + 1) - 1 : Access(s[m])
        BY <1>2, <2>2, <3>1 DEF Apart
      <3>3. m # n
        BY <1>2, <3>2
      <3> QED
        BY <3>2, <3>3
    <2> QED
      BY <2>1, <2>2 DEF Apart
  <1>3. ASSUME Apart(s, n), s[n].op # SYNC
        PROVE  Apart(s, n + 1)
    <2>1. ASSUME NEW l \in 1 .. (n + 1) - 1, s[l].op = SYNC
          PROVE  \E m \in l + 1 .. (n + 1) - 1 : Access(s[m])
      <3>1. l \in 1 .. n - 1
        BY <1>3, <2>1
      <3>2. PICK m \in l + 1 .. n - 1 : Access(s[m])
        BY <1>3, <2>1, <3>1 DEF Apart
      <3>3. m \in l + 1 .. (n + 1) - 1
        OBVIOUS
      <3> QED
        BY <3>2, <3>3
    <2> QED
      BY <2>1 DEF Apart
  <1> QED
    BY <1>1, <1>2, <1>3

-----------------------------------------------------------------------------
(* The passes. *)

LEMMA AwaitedNext ==
  ASSUME NEW s, NEW p \in Nat \ {0}
  PROVE  Awaited(s, p + 1) = PendingAfter(s[p], Awaited(s, p))
  <1>1. ASSUME Announces(s[p])
        PROVE  Awaited(s, p + 1)
    BY <1>1 DEF Awaited
  <1>2. ASSUME s[p].form = "skip", Awaited(s, p)
        PROVE  Awaited(s, p + 1)
    <2>1. PICK q \in 1 .. p - 1 : Announces(s[q]) /\ \A r \in q + 1 .. p - 1 : s[r].form = "skip"
      BY <1>2 DEF Awaited
    <2>2. \A r \in q + 1 .. (p + 1) - 1 : s[r].form = "skip"
      BY <1>2, <2>1
    <2> QED
      BY <2>1, <2>2 DEF Awaited
  <1>3. ASSUME Awaited(s, p + 1), ~Announces(s[p])
        PROVE  s[p].form = "skip" /\ Awaited(s, p)
    <2>1. PICK q \in 1 .. p : Announces(s[q]) /\ \A r \in q + 1 .. p : s[r].form = "skip"
      BY <1>3 DEF Awaited
    <2>2. q \in 1 .. p - 1
      BY <1>3, <2>1
    <2> QED
      BY <2>1, <2>2 DEF Awaited
  <1>4. Awaited(s, p + 1) <=> PendingAfter(s[p], Awaited(s, p))
    BY <1>1, <1>2, <1>3 DEF PendingAfter
  <1>5. Awaited(s, p + 1) \in BOOLEAN /\ PendingAfter(s[p], Awaited(s, p)) \in BOOLEAN
    BY DEF Awaited, PendingAfter
  <1> QED
    BY <1>4, <1>5

LEMMA StartCompile == TypeInv /\ ParseInv /\ CompileInv /\ Start => CompileInv'
  <1> SUFFICES ASSUME TypeInv, ParseInv, Start PROVE CompileInv'
    OBVIOUS
  <1>1. /\ stage' \in {"mock", "parse"} /\ i' = 1 /\ prog' = <<>> /\ pending' = FALSE
        /\ stage' = "parse" => mode' \in {"compile", "inject", "prove"}
    <2>1. Head(todo) \in Job
      BY HeadTailProperties DEF Start, TypeInv, CompilerTypeOK
    <2>2. mode' \in Modes
      BY <2>1 DEF Start, Job
    <2> QED
      BY <2>2 DEF Start, ParseInv, Enter, locals, Modes
  <1>2. src' \in Seq(Statement)
    <2>1. Head(todo) \in Job
      BY HeadTailProperties DEF Start, TypeInv, CompilerTypeOK
    <2> QED
      BY <2>1 DEF Start, Job
  <1>3. i' \in 1 .. Len(src') + 1
    BY <1>1, <1>2, LenProperties
  <1>4. prog' = Instructions(src', i' - 1)
    <2>1. i' - 1 = 0
      BY <1>1
    <2> QED
      BY <1>1, <2>1, NothingYet
  <1>5. pending' = Awaited(src', i')
    <2>1. Awaited(src', 1) = FALSE
      BY DEF Awaited
    <2> QED
      BY <1>1, <2>1
  <1> QED
    BY <1>1, <1>3, <1>4, <1>5 DEF CompileInv, Writing

LEMMA ParseStmtCompile == TypeInv /\ CompileInv /\ ParseStmt => CompileInv'
  <1> SUFFICES ASSUME TypeInv, CompileInv, ParseStmt PROVE CompileInv'
    OBVIOUS
  <1>1. /\ stage = "parse" /\ stage' = "parse" /\ UNCHANGED <<src, mode>> /\ i' = i + 1
        /\ prog' = prog \o Parsed(src[i], pending) /\ pending' = PendingAfter(src[i], pending)
    BY DEF ParseStmt, inputs
  <1>2. src \in Seq(Statement) /\ Len(src) \in Nat /\ i \in 1 .. Len(src)
    BY LenProperties DEF ParseStmt, TypeInv, CompilerTypeOK
  <1>3. /\ mode \in {"compile", "inject", "prove"} /\ prog = Instructions(src, i - 1)
        /\ pending = Awaited(src, i)
    BY <1>1 DEF CompileInv
  <1>4. i - 1 \in Nat /\ i - 1 < Len(src) /\ (i - 1) + 1 = i /\ (i + 1) - 1 = i /\ i \in Nat \ {0}
        /\ i + 1 \in 1 .. Len(src) + 1
    BY <1>2
  <1>5. prog' = Instructions(src, (i + 1) - 1)
    BY <1>1, <1>2, <1>3, <1>4, InstructionsMore
  <1>6. pending' = Awaited(src, i + 1)
    BY <1>1, <1>3, <1>4, AwaitedNext
  <1> QED
    BY <1>1, <1>3, <1>4, <1>5, <1>6 DEF CompileInv, Writing

LEMMA ParseDoneCompile == TypeInv /\ CompileInv /\ (ParseDone \/ Inject) => CompileInv'
  <1> SUFFICES ASSUME TypeInv, CompileInv, ParseDone \/ Inject PROVE CompileInv'
    OBVIOUS
  <1>1. CASE ParseDone
    <2>1. /\ stage = "parse" /\ stage' = (IF mode \in {"inject", "prove"} THEN mode ELSE "chain")
          /\ UNCHANGED <<src, vial, mode, prog>> /\ i \notin DOMAIN src
      BY <1>1 DEF ParseDone, Enter, inputs, locals
    <2>2. src \in Seq(Statement) /\ Len(src) \in Nat /\ DOMAIN src = 1 .. Len(src)
      BY LenProperties DEF TypeInv, CompilerTypeOK
    <2>3. /\ mode \in {"compile", "inject", "prove"} /\ i \in 1 .. Len(src) + 1
          /\ prog = Instructions(src, i - 1)
      BY <2>1 DEF CompileInv
    <2>4. i - 1 = Len(src)
      BY <2>1, <2>2, <2>3
    <2>5. prog' = Instructions(src', Len(src'))
      BY <2>1, <2>3, <2>4
    <2>6. mode = "compile" => prog' = Program(Request)'
      BY <2>1, <2>5 DEF Program, Request
    <2> QED
      BY <2>1, <2>3, <2>5, <2>6 DEF CompileInv, Writing
  <1>2. CASE Inject
    <2>1. /\ stage = "inject" /\ stage' = "chain" /\ UNCHANGED <<src, vial, mode>>
          /\ prog' = InjectThermal(InjectRules(prog), vial)
      BY <1>2 DEF Inject, Enter, inputs
    <2>2. mode = "inject" /\ prog = Instructions(src, Len(src))
      BY <2>1 DEF CompileInv
    <2>3. prog' = Program(Request)'
      BY <2>1, <2>2 DEF Program, Request
    <2> QED
      BY <2>1, <2>2, <2>3 DEF CompileInv, Writing
  <1> QED
    BY <1>1, <1>2

LEMMA ChainCompile ==
  TypeInv /\ ChainInv' /\ CompileInv /\ (ChainInstr \/ ChainDone) => CompileInv'
  <1> SUFFICES ASSUME TypeInv, ChainInv', CompileInv, ChainInstr \/ ChainDone PROVE CompileInv'
    OBVIOUS
  <1>1. /\ stage = "chain" /\ stage' \in {"chain", "rejected", "emit"}
        /\ UNCHANGED <<src, vial, mode, prog>> /\ (stage' = "emit" => ChainDone)
    BY DEF ChainInstr, ChainDone, Enter, inputs, locals
  <1>2. mode' \in {"compile", "inject"} /\ prog' = Program(Request)'
    <2>1. Request' = Request
      BY <1>1 DEF Request
    <2> QED
      BY <1>1, <2>1 DEF CompileInv
  <1>3. stage' = "emit" => (\A k \in DOMAIN prog : InOrder(k))'
    <2> SUFFICES ASSUME stage' = "emit", NEW k \in DOMAIN prog' PROVE InOrder(k)'
      OBVIOUS
    <2>1. PICK n \in Nat : n + 1 \notin DOMAIN prog' /\ \A l \in 1 .. n : InOrder(l)'
      BY DEF ChainInv, InEmit
    <2>2. Len(prog) \in Nat /\ DOMAIN prog = 1 .. Len(prog) /\ prog' = prog
      BY <1>1, LenProperties DEF TypeInv, CompilerTypeOK
    <2>3. k \in 1 .. n
      BY <2>1, <2>2
    <2> QED
      BY <2>1, <2>3
  <1> QED
    BY <1>1, <1>2, <1>3 DEF CompileInv, Writing

\* The passes after the validator leave the program as it is.
LEMMA ProgramKept ==
  ASSUME CompileInv, stage \in {"emit", "weld", "azoth"} \cup Writing, UNCHANGED <<src, vial, mode, prog>>
  PROVE  /\ mode' \in {"compile", "inject"} /\ prog' = Program(Request)'
         /\ (\A k \in DOMAIN prog : InOrder(k))'
  <1>1. Request' = Request
    BY DEF Request
  <1>2. mode \in {"compile", "inject"} /\ prog = Program(Request) /\ \A k \in DOMAIN prog : InOrder(k)
    BY DEF CompileInv
  <1>3. \A k : InOrder(k)' <=> InOrder(k)
    BY DEF InOrder
  <1> QED
    BY <1>1, <1>2, <1>3

LEMMA EmitCompile ==
  ChainInv /\ CompileInv /\ (EmitInstr \/ EmitRejects \/ EmitDone) => CompileInv'
  <1> SUFFICES ASSUME ChainInv, CompileInv, EmitInstr \/ EmitRejects \/ EmitDone PROVE CompileInv'
    OBVIOUS
  <1>1. /\ stage = "emit" /\ UNCHANGED <<src, vial, mode, prog, out, prevSync>>
        /\ \/ stage' \in {"emit", "rejected"}
           \/ stage' = "weld" /\ i' = 1 /\ raw' = raw
    BY DEF EmitInstr, EmitRejects, EmitDone, Enter, inputs, locals
  <1>2. out = <<>> /\ prevSync = FALSE
    BY <1>1 DEF ChainInv, Fresh
  <1>3. stage' = "weld" => out' = Refined(raw', i' - 1) /\ prevSync' = ~Apart(raw', i')
    <2> SUFFICES ASSUME stage' = "weld" PROVE out' = Refined(raw', i' - 1) /\ prevSync' = ~Apart(raw', i')
      OBVIOUS
    <2>1. i' = 1 /\ i' - 1 = 0
      BY <1>1
    <2>2. Apart(raw', 1)
      BY DEF Apart
    <2> QED
      BY <1>1, <1>2, <2>1, <2>2, NothingYet
  <1>4. mode' \in {"compile", "inject"} /\ prog' = Program(Request)' /\ (\A k \in DOMAIN prog : InOrder(k))'
    BY <1>1, ProgramKept
  <1> QED
    BY <1>1, <1>3, <1>4 DEF CompileInv, Writing

LEMMA WeldCompile ==
  TypeInv /\ ChainInv /\ PairInv /\ CompileInv /\ (WeldPacket \/ WeldDone) => CompileInv'
  <1> SUFFICES ASSUME TypeInv, ChainInv, PairInv, CompileInv, WeldPacket \/ WeldDone PROVE CompileInv'
    OBVIOUS
  <1>1. /\ stage = "weld" /\ stage' \in {"weld", "azoth"} /\ UNCHANGED <<src, vial, mode, prog, raw, az>>
    BY DEF WeldPacket, WeldDone, Enter, inputs, locals
  <1>2. mode' \in {"compile", "inject"} /\ prog' = Program(Request)' /\ (\A k \in DOMAIN prog : InOrder(k))'
    BY <1>1, ProgramKept
  <1>3. /\ raw \in Seq(DropType) /\ Len(raw) \in Nat /\ DOMAIN raw = 1 .. Len(raw) /\ i \in 1 .. Len(raw) + 1
        /\ \A k \in DOMAIN raw : raw[k].crcok
    BY <1>1, LenProperties DEF TypeInv, CompilerTypeOK, ChainInv, Emitted, InWeld
  <1>4. out = Refined(raw, i - 1) /\ prevSync = ~Apart(raw, i)
    BY <1>1 DEF CompileInv
  <1>5. CASE WeldPacket
    <2>1. /\ i \in DOMAIN raw /\ i' = i + 1 /\ stage' = "weld"
          /\ out' = IF Kept(raw[i], prevSync) THEN Append(out, raw[i]) ELSE out
          /\ prevSync' = SyncAfter(raw[i], prevSync)
      BY <1>5 DEF WeldPacket
    <2>2. i - 1 \in Nat /\ i - 1 < Len(raw) /\ (i - 1) + 1 = i /\ (i + 1) - 1 = i /\ i \in Nat \ {0}
      BY <1>3, <2>1
    <2>3. Access(raw[i]) <=> raw[i].op \notin Stripped /\ raw[i].op # SYNC
      BY DEF Access
    <2>4. SYNC \notin Stripped
      BY DEF SYNC, Stripped
    <2>5. Kept(raw[i], prevSync) <=> Access(raw[i]) \/ (raw[i].op = SYNC /\ Apart(raw, i))
      BY <1>3, <1>4, <2>1, <2>3, <2>4 DEF Kept
    <2>6. out' = Refined(raw, (i + 1) - 1)
      BY <1>3, <1>4, <2>1, <2>2, <2>5, RefinedMore
    <2>7. prevSync' = ~Apart(raw, i + 1)
      <3>1. Apart(raw, i + 1) <=> Access(raw[i]) \/ (Apart(raw, i) /\ raw[i].op # SYNC)
        BY <2>2, ApartNext
      <3>2. CASE raw[i].op \notin Stripped
        <4>1. prevSync' = (raw[i].op = SYNC)
          BY <1>3, <2>1, <3>2 DEF SyncAfter
        <4>2. Apart(raw, i + 1) <=> raw[i].op # SYNC
          BY <2>3, <3>1, <3>2
        <4> QED
          BY <4>1, <4>2
      <3>3. CASE raw[i].op \in Stripped
        <4>1. prevSync' = prevSync
          BY <2>1, <3>3 DEF SyncAfter
        <4>2. Apart(raw, i + 1) <=> Apart(raw, i)
          BY <2>3, <2>4, <3>1, <3>3
        <4> QED
          BY <1>4, <4>1, <4>2
      <3> QED
        BY <3>2, <3>3
    <2> QED
      BY <1>1, <1>2, <2>1, <2>6, <2>7 DEF CompileInv, Writing
  <1>6. CASE WeldDone
    <2>1. i \notin DOMAIN raw /\ i' = 1 /\ stage' = "azoth" /\ out' = out
      BY <1>6 DEF WeldDone, Enter, locals
    <2>2. i - 1 = Len(raw)
      BY <1>3, <2>1
    <2>3. out' = Refined(raw', Len(raw'))
      BY <1>1, <1>4, <2>1, <2>2
    <2>4. az = <<>>
      BY <1>1 DEF PairInv, Compiling
    <2>5. i' \in 1 .. Len(out') + 1 /\ az' = Undone(out', i' - 1)
      <3>1. out' \in Seq(DropType) /\ i' - 1 = 0
        BY <2>1 DEF TypeInv, CompilerTypeOK
      <3>2. Len(out') \in Nat
        BY <3>1, LenProperties
      <3> QED
        BY <1>1, <2>1, <2>4, <3>1, <3>2, NothingYet
    <2> QED
      BY <1>1, <1>2, <2>1, <2>3, <2>5 DEF CompileInv, Writing
  <1> QED
    BY <1>5, <1>6

LEMMA AzothCompile == TypeInv /\ CompileInv /\ (AzothStep \/ AzothDone) => CompileInv'
  <1> SUFFICES ASSUME TypeInv, CompileInv, AzothStep \/ AzothDone PROVE CompileInv'
    OBVIOUS
  <1>1. /\ stage = "azoth" /\ stage' \in {"azoth", "create"} /\ UNCHANGED <<src, vial, mode, prog, raw, out>>
    BY DEF AzothStep, AzothDone, Enter, inputs, locals
  <1>2. mode' \in {"compile", "inject"} /\ prog' = Program(Request)' /\ (\A k \in DOMAIN prog : InOrder(k))'
    BY <1>1, ProgramKept
  <1>3. out \in Seq(DropType) /\ Len(out) \in Nat /\ DOMAIN out = 1 .. Len(out)
    BY LenProperties DEF TypeInv, CompilerTypeOK
  <1>4. i \in 1 .. Len(out) + 1 /\ az = Undone(out, i - 1) /\ out = Refined(raw, Len(raw))
    BY <1>1 DEF CompileInv
  <1>5. CASE AzothStep
    <2> DEFINE p == out[Len(out) + 1 - i]
    <2>1. /\ i \in 1 .. Len(out) /\ i' = i + 1 /\ stage' = "azoth"
          /\ az' = IF p.op \in NotRolledBack THEN az ELSE Append(az, AzothPacket(p))
      BY <1>3, <1>5 DEF AzothStep, Backwards
    <2>2. /\ i - 1 \in Nat /\ i - 1 < Len(out) /\ (i - 1) + 1 = i /\ (i + 1) - 1 = i
          /\ Len(out) - (i - 1) = Len(out) + 1 - i /\ i + 1 \in 1 .. Len(out) + 1
      BY <1>3, <2>1
    <2>3. az' = Undone(out, (i + 1) - 1)
      <3> HIDE DEF p
      <3>1. Undone(out, i) = IF p.op \in NotRolledBack THEN Undone(out, i - 1)
                             ELSE Append(Undone(out, i - 1), AzothPacket(p))
        BY <1>3, <2>2, UndoneMore DEF p
      <3> QED
        BY <1>4, <2>1, <2>2, <3>1
    <2> QED
      BY <1>1, <1>2, <1>4, <2>1, <2>2, <2>3 DEF CompileInv, Writing
  <1>6. CASE AzothDone
    <2>1. i \notin DOMAIN out /\ stage' = "create" /\ az' = az
      BY <1>6 DEF AzothDone, Enter, locals
    <2>2. i - 1 = Len(out)
      BY <1>3, <1>4, <2>1
    <2>3. Undone(out, Len(out)) = AzothBatch(out)
      BY <1>3 DEF Undone, AzothBatch
    <2>4. az' = AzothBatch(out')
      BY <1>1, <1>4, <2>1, <2>2, <2>3
    <2> QED
      BY <1>1, <1>2, <1>4, <2>1, <2>4 DEF CompileInv, Writing
  <1> QED
    BY <1>5, <1>6

LEMMA CompileNext ==
  TypeInv /\ ParseInv /\ ChainInv /\ ChainInv' /\ PairInv /\ CompileInv /\ [Next]_vars => CompileInv'
  <1> SUFFICES ASSUME TypeInv, ParseInv, ChainInv, ChainInv', PairInv, CompileInv, [Next]_vars
               PROVE  CompileInv'
    OBVIOUS
  <1>1. CASE WriteFiles
    <2>1. /\ stage \in Writing /\ stage' \in (Writing \ {"create"}) \cup {"done", "failed"}
          /\ UNCHANGED <<src, vial, mode, prog, raw, out, az>>
      BY <1>1 DEF WriteFiles, CreateAlkas, FillAlkas, CreateAzoth, FillAzoth, CreateFails, FillFails,
         Enter, Writing, inputs, locals
    <2>2. mode' \in {"compile", "inject"} /\ prog' = Program(Request)' /\ (\A k \in DOMAIN prog : InOrder(k))'
      BY <2>1, ProgramKept
    <2>3. out' = Refined(raw', Len(raw')) /\ az' = AzothBatch(out')
      BY <2>1 DEF CompileInv
    <2> QED
      BY <2>1, <2>2, <2>3 DEF CompileInv, Writing
  <1>2. CASE Prove \/ Mock \/ Exit \/ Kill
    <2>1. stage' \in {"idle", "mock"} \cup Ended
      BY <1>2 DEF Prove, Mock, MockStep, MockDone, Exit, Kill, Gone, Enter, Ended
    <2> QED
      BY <2>1 DEF CompileInv, Writing, Ended
  <1>3. CASE UNCHANGED vars
    <2>1. UNCHANGED <<stage, src, vial, mode, i, prog, pending, raw, out, prevSync, az>>
      BY <1>3 DEF vars, inputs, locals
    <2>2. Request' = Request /\ \A k : InOrder(k)' <=> InOrder(k)
      BY <2>1 DEF Request, InOrder
    <2> QED
      BY <2>1, <2>2 DEF CompileInv
  <1> QED
    BY <1>1, <1>2, <1>3, StartCompile, ParseStmtCompile, ParseDoneCompile, ChainCompile, EmitCompile,
       WeldCompile, AzothCompile DEF Next, FrontEnd, BackEnd

-----------------------------------------------------------------------------
(* The files. *)

\* What is about to be written is what the recipe is compiled to.
LEMMA WrittenIsCompiled ==
  TypeInv /\ EmitInv /\ CompileInv /\ stage \in Writing => IsCompiled(Request) /\ <<out, az>> = Files(Request)
  <1> SUFFICES ASSUME TypeInv, EmitInv, CompileInv, stage \in Writing
               PROVE  IsCompiled(Request) /\ <<out, az>> = Files(Request)
    OBVIOUS
  <1> DEFINE s == [k \in DOMAIN prog |-> EmitPacket(prog[k], vial)]
  <1>1. /\ Request.mode = mode /\ Request.vial = vial
        /\ mode \in {"compile", "inject"} /\ prog = Program(Request)
        /\ \A k \in DOMAIN prog : InOrder(k)
        /\ out = Refined(raw, Len(raw)) /\ az = AzothBatch(out)
    BY DEF CompileInv, Request
  <1>2. /\ raw \in Seq(DropType) /\ DOMAIN raw = 1 .. Len(raw) /\ Len(raw) \in Nat
        /\ DOMAIN prog = 1 .. Len(prog) /\ Len(raw) = Len(prog) /\ PacketsAreOf(Len(raw))
    BY LenProperties DEF TypeInv, CompilerTypeOK, EmitInv
  <1>3. raw = s
    <2>1. \A k \in DOMAIN raw : raw[k] = s[k]
      BY <1>2 DEF PacketsAreOf
    <2>2. raw = [k \in DOMAIN raw |-> raw[k]]
      BY <1>2
    <2> HIDE DEF s
    <2>3. DOMAIN s = DOMAIN prog /\ s = [k \in DOMAIN s |-> s[k]]
      BY DEF s
    <2> QED
      BY <1>2, <2>1, <2>2, <2>3
  <1>4. out = BinaryOf(Request)
    <2>1. BinaryOf(Request) = Refined(s, Len(s))
      BY <1>1 DEF BinaryOf
    <2> HIDE DEF s
    <2> QED
      BY <1>1, <1>3, <2>1
  <1>5. ASSUME NEW k \in DOMAIN prog
        PROVE  /\ Accepted(prog[k], vial)
               /\ ~ChainError(prog[k], UNION { Establishes(prog[l]) : l \in 1 .. k - 1 })
    <2>1. Accepted(prog[k], vial)
      BY <1>2 DEF PacketsAreOf
    <2>2. \A st \in Requires(prog[k]) : st \in UNION { Establishes(prog[l]) : l \in 1 .. k - 1 }
      BY <1>1 DEF InOrder
    <2> QED
      BY <2>1, <2>2 DEF ChainError, Requires
  <1>6. IsCompiled(Request)
    BY <1>1, <1>5 DEF IsCompiled, Compiles
  <1> QED
    BY <1>1, <1>4, <1>6 DEF Files

\* The job that is served, whose files they will be.
PairJob == IF stage = "idle" THEN {} ELSE {Request}
PairOf  == IF writing THEN {} ELSE {<<alkas, azoth>>}

LEMMA PairStarts == Init => Pair!Init
  BY DEF Init, Pair!Init

LEMMA AskStep == TypeInv /\ Start => Pair!Ask
  <1> SUFFICES ASSUME TypeInv, Start PROVE Pair!Ask
    OBVIOUS
  <1>1. /\ stage = "idle" /\ stage' \in {"mock", "parse"} /\ todo # <<>> /\ todo' = Tail(todo)
        /\ src' = Head(todo).src /\ vial' = ParseVial(Head(todo).vial) /\ mode' = Head(todo).mode
        /\ UNCHANGED <<alkas, azoth, writing>>
    BY DEF Start, Enter, disk
  <1>2. [src |-> src', vial |-> vial', mode |-> mode'] = ReadRequest(Head(todo))
    BY <1>1 DEF ReadRequest
  <1> QED
    BY <1>1, <1>2 DEF Pair!Ask

LEMMA LeaveStep == Exit \/ Kill => Pair!Leave
  <1> SUFFICES ASSUME Exit \/ Kill PROVE Pair!Leave
    OBVIOUS
  <1>1. stage # "idle" /\ stage' = "idle" /\ UNCHANGED <<todo, alkas, azoth, writing>>
    BY DEF Exit, Kill, Gone, Enter, disk, Compiling, Writing, Ended
  <1> QED
    BY <1>1 DEF Pair!Leave

LEMMA WriteStep ==
  TypeInv /\ EmitInv /\ PairInv /\ CompileInv /\ WriteFiles => [Pair!Next]_(Pair!vars)
  <1> SUFFICES ASSUME TypeInv, EmitInv, PairInv, CompileInv, WriteFiles PROVE [Pair!Next]_(Pair!vars)
    OBVIOUS
  <1>1. /\ stage \in Writing /\ UNCHANGED <<todo, src, vial, mode, out, az>>
    BY DEF WriteFiles, CreateAlkas, FillAlkas, CreateAzoth, FillAzoth, CreateFails, FillFails, Writing,
       inputs, locals
  <1>2. IsCompiled(Request) /\ <<out, az>> = Files(Request)
    BY <1>1, WrittenIsCompiled
  <1>3. Request = [src |-> src, vial |-> vial, mode |-> mode] /\ stage # "idle" /\ stage # "done"
    BY <1>1 DEF Request, Writing
  <1>4. CASE FillAzoth
    <2>1. stage = "fill azoth" /\ stage' = "done" /\ azoth' = az /\ writing' = FALSE /\ alkas' = alkas
      BY <1>4 DEF FillAzoth, Enter
    <2>2. writing /\ alkas = out
      BY <2>1 DEF PairInv, Writing
    <2>3. <<alkas', azoth'>> = Files(Request)
      BY <1>2, <2>1, <2>2
    <2>4. Pair!Finish
      BY <1>1, <1>2, <1>3, <2>1, <2>2, <2>3 DEF Pair!Finish
    <2> QED
      BY <2>4 DEF Pair!Next
  <1>5. CASE CreateAlkas
    <2>1. stage' = "fill" /\ writing' = TRUE
      BY <1>5 DEF CreateAlkas, Enter
    <2>2. CASE writing
      <3>1. UNCHANGED Pair!vars
        BY <1>1, <1>3, <2>1, <2>2 DEF Pair!vars
      <3> QED
        BY <3>1
    <2>3. CASE ~writing
      <3>1. Pair!Tear
        BY <1>1, <1>2, <1>3, <2>1, <2>3 DEF Pair!Tear
      <3> QED
        BY <3>1 DEF Pair!Next
    <2> QED
      BY <2>2, <2>3
  <1>6. CASE ~FillAzoth /\ ~CreateAlkas
    <2>1. stage' \notin {"idle", "done"} /\ writing' = writing
      BY <1>6 DEF WriteFiles, FillAlkas, CreateAzoth, CreateFails, FillFails, Enter, disk
    <2>2. writing \/ UNCHANGED <<alkas, azoth>>
      BY <1>6 DEF WriteFiles, FillAlkas, CreateAzoth, CreateFails, FillFails, PairInv, Writing, disk
    <2>3. UNCHANGED Pair!vars
      BY <1>1, <1>3, <2>1, <2>2 DEF Pair!vars
    <2> QED
      BY <2>3
  <1> QED
    BY <1>4, <1>5, <1>6

LEMMA OtherStep == FrontEnd \/ BackEnd \/ Mock \/ UNCHANGED vars => UNCHANGED Pair!vars
  <1> SUFFICES ASSUME FrontEnd \/ BackEnd \/ Mock \/ UNCHANGED vars PROVE UNCHANGED Pair!vars
    OBVIOUS
  <1>1. UNCHANGED <<todo, src, vial, mode, alkas, azoth, writing>>
    BY DEF FrontEnd, ParseStmt, ParseDone, Inject, Prove, ChainInstr, ChainDone, BackEnd, EmitInstr, EmitRejects,
       EmitDone, WeldPacket, WeldDone, AzothStep, AzothDone, Mock, MockStep, MockDone, vars, inputs, locals, disk
  <1>2. \/ stage \in Compiling \cup {"mock"} /\ stage' \in (Compiling \cup {"create", "mock"} \cup Ended) \ {"done"}
        \/ stage' = stage
    BY DEF FrontEnd, ParseStmt, ParseDone, Inject, Prove, ChainInstr, ChainDone, BackEnd, EmitInstr, EmitRejects,
       EmitDone, WeldPacket, WeldDone, AzothStep, AzothDone, Mock, MockStep, MockDone, vars, Enter,
       Compiling, Ended
  <1>3. (stage = "idle") = (stage' = "idle") /\ (stage = "done") = (stage' = "done")
    BY <1>2 DEF Compiling, Ended
  <1> QED
    BY <1>1, <1>3 DEF Pair!vars

\* What the loops of the compiler leave in the two files is what the recipe
\* says as a whole: they change only for a recipe every part of which passes,
\* and then to its binary and that binary's rollback (compile of main.zig over
\* parseProgram, validateChain, emitPacket, refineBinary, generateAzothBinary).
THEOREM CompilerImplementsFilePair ==
  ASSUME HashesTyped
  PROVE  Spec => FilesAreCompiled
  <1>1. Init => CompileInv /\ EmitInv /\ ParseInv
    BY DEF Init, CompileInv, EmitInv, ParseInv, Writing
  <1>2. TypeInv /\ EmitInv /\ PairInv /\ CompileInv /\ [Next]_vars => [Pair!Next]_(Pair!vars)
    BY AskStep, LeaveStep, WriteStep, OtherStep DEF Next, Pair!Next
  <1>3. Spec => []TypeInv
    BY TypeInit, TypeNext, PTL DEF Spec
  <1> QED
    BY <1>1, <1>2, <1>3, PairStarts, InitInv, NextInv, EmitNext, ParseNextInv, FilesInit, FilesNext, PairInit, PairNext,
       CompileNext, PTL DEF Spec, FilesAreCompiled, Pair!Spec
=============================================================================
