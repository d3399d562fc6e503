---------------------------- MODULE RecipeProofs ----------------------------
(***************************************************************************)
(* Proofs about what becomes of a recipe, of any length and form, and of   *)
(* the vial it is compiled with: how far a "!!" reaches, and the types of  *)
(* everything the parser, the injector, the emitter and the mock make.     *)
(***************************************************************************)
EXTENDS AlkacProofs, Inductions

\* The statements among the first p that yield an instruction.
Yielding(p) == { q \in 1 .. p : Yields(src[q]) }

\* A "!!" stands before statement p with nothing but comments in between.
Announced(p) ==
  \E q \in 1 .. p - 1 : Announces(src[q]) /\ \A r \in q + 1 .. p - 1 : src[r].form = "skip"

\* The n-th instruction is that of the n-th statement that yields one.
ScopeOf(p) ==
  LET n == Cardinality(Yielding(p))
  IN  n \in 1 .. Len(prog) /\ (prog[n].override <=> Overridden(p))

\* OverrideScope says nothing of the "!!" that is still pending, nor that there
\* are no other instructions.
ParseInv ==
  /\ stage = "idle" => prog = <<>> /\ pending = FALSE
  /\ stage = "parse" =>
       /\ i \in Nat \ {0} /\ pending \in BOOLEAN /\ (pending <=> Announced(i))
       /\ IsSequence(prog) /\ Len(prog) = Cardinality(Yielding(i - 1))
       /\ \A p \in 1 .. i - 1 : Yields(src[p]) => ScopeOf(p)

-----------------------------------------------------------------------------
LEMMA YieldingCounts ==
  ASSUME NEW p \in Nat \ {0}
  PROVE  Cardinality(Yielding(p)) =
           IF Yields(src[p]) THEN Cardinality(Yielding(p - 1)) + 1 ELSE Cardinality(Yielding(p - 1))
  <1>1. Yielding(p) = IF Yields(src[p]) THEN Yielding(p - 1) \cup {p} ELSE Yielding(p - 1)
    BY DEF Yielding
  <1>2. Yielding(p - 1) \in SUBSET (1 .. p - 1) /\ p \notin Yielding(p - 1)
    BY DEF Yielding
  <1>3. IsFiniteSet(Yielding(p - 1))
    <2>1. IsFiniteSet(1 .. p - 1)
      BY FS_Interval
    <2> QED
      BY <1>2, <2>1, FS_Subset
  <1> QED
    BY <1>1, <1>2, <1>3, FS_AddElement

\* What a statement adds, and when what it adds escapes its tool.
LEMMA ParsedOne ==
  ASSUME NEW st, NEW pend \in BOOLEAN
  PROVE  /\ ~Yields(st) => Parsed(st, pend) = <<>>
         /\ Yields(st) => \E e : Parsed(st, pend) = <<e>> /\ (e.override <=> InlineOverride(st) \/ pend)
  <1>1. CASE ~Yields(st)
    <2>1. st.form = "skip" \/ Announces(st)
      BY <1>1 DEF Yields
    <2> QED
      BY <1>1, <2>1 DEF Parsed, Announces
  <1>2. CASE Yields(st) /\ st.form = "marker"
    BY <1>2 DEF Yields, Parsed, InlineOverride, Instr
  <1>3. CASE Yields(st) /\ st.form = "glued"
    BY <1>3 DEF Yields, Parsed, InlineOverride, Instr, Announces
  <1>4. CASE Yields(st) /\ st.form \notin {"marker", "glued"}
    <2> DEFINE e == Instr(st.name, Operands(st.args), st.form = "forced", pend)
    <2>1. Parsed(st, pend) = <<e>>
      BY <1>4 DEF Yields, Parsed
    <2>2. e.override = pend /\ ~InlineOverride(st)
      BY <1>4 DEF Instr, InlineOverride
    <2> QED
      BY <1>4, <2>1, <2>2
  <1> QED
    BY <1>1, <1>2, <1>3, <1>4

LEMMA AnnouncedNext ==
  ASSUME NEW p \in Nat \ {0}
  PROVE  Announced(p + 1) <=> Announces(src[p]) \/ (src[p].form = "skip" /\ Announced(p))
  <1>1. ASSUME Announces(src[p])
        PROVE  Announced(p + 1)
    BY <1>1 DEF Announced
  <1>2. ASSUME src[p].form = "skip", Announced(p)
        PROVE  Announced(p + 1)
    <2>1. PICK q \in 1 .. p - 1 : Announces(src[q]) /\ \A r \in q + 1 .. p - 1 : src[r].form = "skip"
      BY <1>2 DEF Announced
    <2>2. \A r \in q + 1 .. (p + 1) - 1 : src[r].form = "skip"
      BY <1>2, <2>1
    <2> QED
      BY <2>1, <2>2 DEF Announced
  <1>3. ASSUME Announced(p + 1), ~Announces(src[p])
        PROVE  src[p].form = "skip" /\ Announced(p)
    <2>1. PICK q \in 1 .. p : Announces(src[q]) /\ \A r \in q + 1 .. p : src[r].form = "skip"
      BY <1>3 DEF Announced
    <2>2. q \in 1 .. p - 1
      BY <1>3, <2>1
    <2> QED
      BY <2>1, <2>2 DEF Announced
  <1> QED
    BY <1>1, <1>2, <1>3

\* One statement: what was parsed keeps its place, what is added comes last.
LEMMA ParseStmtInv == ParseInv /\ ParseStmt => ParseInv'
  <1> SUFFICES ASSUME ParseInv, ParseStmt PROVE ParseInv'
    OBVIOUS
  <1> DEFINE st == src[i]
             added == Parsed(st, pending)
  <1>1. /\ stage = "parse" /\ stage' = "parse" /\ src' = src /\ i' = i + 1 /\ i \in Nat \ {0}
        /\ prog' = prog \o added /\ pending' = PendingAfter(st, pending)
        /\ pending \in BOOLEAN /\ (pending <=> Announced(i)) /\ IsSequence(prog)
        /\ Len(prog) = Cardinality(Yielding(i - 1))
        /\ \A p \in 1 .. i - 1 : Yields(src[p]) => ScopeOf(p)
    BY DEF ParseInv, ParseStmt, inputs
  <1>2. pending' \in BOOLEAN /\ (pending' <=> Announced(i + 1))
    BY <1>1, AnnouncedNext DEF PendingAfter
  <1>3. \A p : /\ Announced(p)' <=> Announced(p)
               /\ Yielding(p)' = Yielding(p) /\ (Overridden(p)' <=> Overridden(p))
    BY <1>1 DEF Announced, Yielding, Overridden
  <1>4. /\ IsSequence(prog') /\ Len(prog) \in Nat
        /\ Len(prog') = IF Yields(st) THEN Len(prog) + 1 ELSE Len(prog)
        /\ \A n \in 1 .. Len(prog) : prog'[n] = prog[n]
        /\ Yields(st) => (prog'[Len(prog) + 1].override <=> Overridden(i))
    <2>1. CASE ~Yields(st)
      <3>1. prog' = prog
        BY <1>1, <2>1, ParsedOne, ConcatEmptySeq DEF IsSequence
      <3> QED
        BY <1>1, <2>1, <3>1, Appended
    <2>2. CASE Yields(st)
      <3>1. PICK e : added = <<e>> /\ (e.override <=> InlineOverride(st) \/ pending)
        BY <1>1, <2>2, ParsedOne
      <3>2. prog' = Append(prog, e)
        BY <1>1, <3>1, AppendIsConcat DEF IsSequence
      <3>3. e.override <=> Overridden(i)
        BY <1>1, <3>1 DEF Overridden, Announced
      <3> QED
        BY <1>1, <2>2, <3>2, <3>3, Appended
    <2> QED
      BY <2>1, <2>2
  <1>5. Len(prog') = Cardinality(Yielding(i))
    BY <1>1, <1>4, YieldingCounts
  <1>6. ASSUME NEW p \in 1 .. i, Yields(src[p])
        PROVE  LET n == Cardinality(Yielding(p))
               IN  n \in 1 .. Len(prog') /\ (prog'[n].override <=> Overridden(p))
    <2>1. CASE p = i
      BY <1>4, <1>5, <1>6, <2>1
    <2>2. CASE p # i
      BY <1>1, <1>4, <1>6, <2>2 DEF ScopeOf
    <2> QED
      BY <2>1, <2>2
  <1>7. \A p \in 1 .. i : Yields(src'[p]) => ScopeOf(p)'
    BY <1>1, <1>3, <1>6 DEF ScopeOf
  <1>8. i' - 1 = i
    BY <1>1
  <1> QED
    BY <1>1, <1>2, <1>3, <1>4, <1>5, <1>7, <1>8 DEF ParseInv, IsSequence

LEMMA StartInv == ParseInv /\ Start => ParseInv'
  <1> SUFFICES ASSUME ParseInv, Start PROVE ParseInv'
    OBVIOUS
  <1>1. stage' # "idle" /\ i' = 1 /\ prog' = <<>> /\ pending' = FALSE
    BY DEF ParseInv, Start, Enter, locals
  <1>2. ~Announced(i)' /\ Yielding(i - 1)' = {} /\ (1 .. i - 1)' = {}
    BY <1>1 DEF Announced, Yielding
  <1>3. IsSequence(<<>>) /\ Len(<<>>) = 0 /\ Cardinality({}) = 0
    BY EmptyOrdered, FS_EmptySet
  <1>4. IsSequence(prog)' /\ Len(prog') = Cardinality(Yielding(i - 1)')
    BY <1>1, <1>2, <1>3 DEF IsSequence
  <1>5. \A p \in (1 .. i - 1)' : (Yields(src[p]) => ScopeOf(p))'
    BY <1>2
  <1>6. i' \in Nat \ {0}
    BY <1>1
  <1>7. pending' \in BOOLEAN /\ (pending' <=> Announced(i)')
    <2>1. ~pending' /\ pending' \in BOOLEAN
      BY <1>1
    <2>2. ~Announced(i)'
      BY <1>2
    <2> QED
      BY <2>1, <2>2
  <1> QED
    BY <1>1, <1>4, <1>5, <1>6, <1>7 DEF ParseInv

LEMMA ParseNextInv == ParseInv /\ [Next]_vars => ParseInv'
  <1> SUFFICES ASSUME ParseInv, [Next]_vars PROVE ParseInv'
    OBVIOUS
  <1>1. CASE UNCHANGED vars
    <2>1. UNCHANGED <<stage, src, i, prog, pending>>
      BY <1>1 DEF vars, inputs, locals
    <2>2. \A p : /\ Announced(p)' <=> Announced(p)
                 /\ Yielding(p)' = Yielding(p) /\ (Overridden(p)' <=> Overridden(p))
      BY <2>1 DEF Announced, Yielding, Overridden
    <2>3. \A p : ScopeOf(p)' <=> ScopeOf(p)
      BY <2>1, <2>2 DEF ScopeOf
    <2> QED
      BY <2>1, <2>2, <2>3 DEF ParseInv, IsSequence
  <1>2. CASE Exit \/ Kill
    BY <1>2 DEF Exit, Kill, Gone, Enter, ParseInv
  <1>3. CASE ParseDone \/ Inject \/ Prove \/ ChainInstr \/ ChainDone \/ BackEnd \/ Mock \/ WriteFiles
    <2>1. stage' \notin {"idle", "parse"}
      BY <1>3 DEF ParseDone, Inject, Prove, ChainInstr, ChainDone, BackEnd, EmitInstr, EmitRejects,
         EmitDone, WeldPacket, WeldDone, AzothStep, AzothDone, Mock, MockStep, MockDone, WriteFiles,
         CreateAlkas, FillAlkas, CreateAzoth, FillAzoth, CreateFails, FillFails, Enter
    <2> QED
      BY <2>1 DEF ParseInv
  <1> QED
    BY <1>1, <1>2, <1>3, ParseStmtInv, StartInv DEF Next, FrontEnd

-----------------------------------------------------------------------------
\* An instruction escapes its tool exactly when a "!!" stands before it, however
\* the recipe is written (parseProgram).
THEOREM OverridesAreScoped == Spec => []OverrideScope
  <1>1. Init => ParseInv
    BY DEF Init, ParseInv
  <1>2. ParseInv => OverrideScope
    <2> SUFFICES ASSUME ParseInv, stage = "parse", NEW p \in 1 .. i - 1, Yields(src[p])
                 PROVE  LET n == Cardinality({ q \in 1 .. p : Yields(src[q]) })
                        IN  n \in DOMAIN prog /\ (prog[n].override <=> Overridden(p))
      BY DEF OverrideScope
    <2>1. ScopeOf(p) /\ DOMAIN prog = 1 .. Len(prog)
      BY Appended DEF ParseInv
    <2> QED
      BY <2>1 DEF ScopeOf, Yielding
  <1> QED
    BY <1>1, <1>2, ParseNextInv, PTL DEF Spec

-----------------------------------------------------------------------------
(* What the parser makes of words is of the right type. *)

\* Sequences of at most two.
LEMMA ShortSequences ==
  ASSUME NEW S
  PROVE  /\ <<>> \in Seq(S)
         /\ \A a \in S : <<a>> \in Seq(S)
         /\ \A a, b \in S : <<a, b>> \in Seq(S)
  OBVIOUS

LEMMA OperandsTyped ==
  ASSUME NEW words \in Seq(Token)
  PROVE  Operands(words) \in Seq(Token)
  <1> DEFINE e(k) == IF words[k].tok = "arrow" THEN <<>> ELSE <<Operand(words[k])>>
  <1>1. Len(words) \in Nat /\ DOMAIN words = 1 .. Len(words) /\ \A k \in 1 .. Len(words) : words[k] \in Token
    BY LenProperties, ElementOfSeq
  <1>2. \A t \in Token : Operand(t) \in Token
    BY DEF Operand, Token, Word, WordKinds
  <1>3. \A k \in 1 .. Len(words) : e(k) \in Seq(Token)
    BY <1>1, <1>2, ShortSequences
  <1>4. [k \in 1 .. Len(words) |-> e(k)] \in Seq(Seq(Token))
    <2> HIDE DEF e
    <2> QED
      BY <1>1, <1>3, IsASeq
  <1>5. FlattenSeq([k \in 1 .. Len(words) |-> e(k)]) \in Seq(Token)
    <2> HIDE DEF e
    <2> QED
      BY <1>4, FlattenTyped
  <1> QED
    BY <1>1, <1>5 DEF Operands

LEMMA BeforeCommentTyped ==
  ASSUME NEW words \in Seq(Token)
  PROVE  BeforeComment(words) \in Seq(Token)
  <1> DEFINE I == { k \in 1 .. Len(words) : words[k].tok = "slashes" }
             m == CHOOSE x \in I : \A y \in I : x <= y
  <1>1. Len(words) \in Nat /\ \A k \in 1 .. Len(words) : words[k] \in Token
    BY LenProperties, ElementOfSeq
  <1>2. CASE I = {}
    BY <1>2 DEF BeforeComment, SelectInSeq
  <1>3. CASE I # {}
    <2>1. I \in SUBSET Nat
      BY <1>1
    <2>2. \E x \in I : \A y \in I : x <= y
      <3> HIDE DEF I
      <3> QED
        BY <1>3, <2>1, NatLeast
    <2>3. m \in I
      <3> HIDE DEF I
      <3> QED
        BY <2>2
    <2>4. SelectInSeq(words, LAMBDA t : t.tok = "slashes") = m
      BY <1>3 DEF SelectInSeq, Min
    <2>5. m \in 1 .. Len(words)
      <3> HIDE DEF m
      <3> QED
        BY <2>3
    <2> HIDE DEF m, I
    <2>6. BeforeComment(words) = SubSeq(words, 1, m - 1)
      BY <2>4, <2>5, <1>1 DEF BeforeComment
    <2>7. m - 1 \in Int /\ \A k \in 1 .. m - 1 : words[k] \in Token
      BY <1>1, <2>5
    <2> QED
      BY <2>6, <2>7, SubSeqProperties
  <1> QED
    BY <1>2, <1>3

LEMMA InstrTyped ==
  ASSUME NEW n \in STRING, NEW o \in Seq(Token), NEW f \in BOOLEAN, NEW v \in BOOLEAN
  PROVE  Instr(n, o, f, v) \in Instruction
  BY DEF Instr, Instruction

LEMMA ParsedTyped ==
  ASSUME NEW st \in Statement, NEW pend \in BOOLEAN
  PROVE  Parsed(st, pend) \in Seq(Instruction)
  <1>1. st.form \in Forms /\ st.name \in STRING /\ st.args \in Seq(Token)
    BY DEF Statement
  <1>2. CASE st.form = "skip" \/ Announces(st)
    <2>1. Parsed(st, pend) = <<>>
      BY <1>2 DEF Parsed, Announces
    <2> QED
      BY <2>1, ShortSequences
  <1>3. CASE st.form = "marker" /\ ~Announces(st)
    <2>1. st.args # <<>>
      BY <1>3 DEF Announces
    <2>2. Head(st.args) \in Token /\ Tail(st.args) \in Seq(Token)
      BY <1>1, <2>1, HeadTailProperties
    <2>3. Head(st.args).id \in STRING /\ Operands(BeforeComment(Tail(st.args))) \in Seq(Token)
      BY <2>2, BeforeCommentTyped, OperandsTyped DEF Token
    <2>4. Parsed(st, pend) = <<Instr(Head(st.args).id, Operands(BeforeComment(Tail(st.args))), FALSE, TRUE)>>
      BY <1>3 DEF Parsed
    <2> QED
      BY <2>3, <2>4, InstrTyped, ShortSequences
  <1>4. CASE st.form = "glued" /\ ~Announces(st)
    <2>1. Operands(BeforeComment(st.args)) \in Seq(Token)
      BY <1>1, BeforeCommentTyped, OperandsTyped
    <2>2. Parsed(st, pend) = <<Instr(st.name, Operands(BeforeComment(st.args)), FALSE, TRUE)>>
      BY <1>4 DEF Parsed
    <2> QED
      BY <1>1, <2>1, <2>2, InstrTyped, ShortSequences
  <1>5. CASE st.form \notin {"skip", "marker", "glued"} /\ ~Announces(st)
    <2>1. Operands(st.args) \in Seq(Token)
      BY <1>1, OperandsTyped
    <2>2. Parsed(st, pend) = <<Instr(st.name, Operands(st.args), st.form = "forced", pend)>>
      BY <1>5 DEF Parsed
    <2>3. (st.form = "forced") \in BOOLEAN
      OBVIOUS
    <2>4. Instr(st.name, Operands(st.args), st.form = "forced", pend) \in Instruction
      BY <1>1, <2>1, <2>3, InstrTyped
    <2> QED
      BY <2>2, <2>4, ShortSequences
  <1> QED
    BY <1>2, <1>3, <1>4, <1>5

-----------------------------------------------------------------------------
(* The vial. *)

VialOK(v) == v \in VialType /\ Len(v.names) = Len(v.vessels)

\* Nothing, or one value.
LEMMA OptionalTyped ==
  ASSUME NEW S
  PROVE  /\ {} \in Optional(S) /\ \A x \in S : {x} \in Optional(S)
         /\ \A o \in Optional(S) : o \subseteq S /\ \A x, y \in o : x = y
  BY DEF Optional

\* SelectInSeq finds an index, or 0.
LEMMA FirstOf ==
  ASSUME NEW s, Len(s) \in Nat, NEW I, I \subseteq 1 .. Len(s)
  PROVE  (IF I # {} THEN Min(I) ELSE 0) \in 0 .. Len(s)
  <1>1. CASE I # {}
    <2>1. I \in SUBSET Nat
      OBVIOUS
    <2>2. \E x \in I : \A y \in I : x <= y
      BY <1>1, <2>1, NatLeast
    <2>3. Min(I) \in I
      BY <2>2 DEF Min
    <2>4. Min(I) \in 1 .. Len(s)
      BY <2>3
    <2> HIDE DEF Min
    <2>5. Min(I) \in 0 .. Len(s)
      BY <2>4
    <2> QED
      BY <1>1, <2>5
  <1> QED
    BY <1>1

LEMMA ValueTyped ==
  ASSUME NEW l \in VialText
  PROVE  ValueOf(l) \in Nat
  BY DEF ValueOf, VialText

LEMMA NoVesselTyped == NoVessel \in VesselType
  BY OptionalTyped DEF NoVessel, VesselType

LEMMA PutVesselTyped ==
  ASSUME NEW s, VialOK(s), NEW n \in STRING
  PROVE  VialOK(PutVessel(s, n))
  <1> DEFINE at == SelectInSeq(s.names, LAMBDA m : m = n)
  <1>1. /\ s.names \in Seq(STRING) /\ s.vessels \in Seq(VesselType) /\ s.cur \in Optional(STRING)
        /\ s.block \in {"none", "aperture", "thermal"} /\ Len(s.names) = Len(s.vessels)
        /\ s = [names |-> s.names, vessels |-> s.vessels, cur |-> s.cur, block |-> s.block]
    BY DEF VialOK, VialType
  <1>2. at \in 0 .. Len(s.names)
    <2>1. Len(s.names) \in Nat
      BY <1>1, LenProperties
    <2> QED
      BY <2>1, FirstOf DEF SelectInSeq
  <1> HIDE DEF at
  <1>3. CASE at = 0
    <2>1. PutVessel(s, n) = [names |-> Append(s.names, n), vessels |-> Append(s.vessels, NoVessel),
                             cur |-> {n}, block |-> s.block]
      BY <1>1, <1>3 DEF PutVessel, at
    <2>2. Append(s.names, n) \in Seq(STRING) /\ Len(Append(s.names, n)) = Len(s.names) + 1
      BY <1>1, AppendProperties
    <2>3. Append(s.vessels, NoVessel) \in Seq(VesselType) /\ Len(Append(s.vessels, NoVessel)) = Len(s.vessels) + 1
      BY <1>1, NoVesselTyped, AppendProperties
    <2> QED
      BY <1>1, <2>1, <2>2, <2>3, OptionalTyped DEF VialOK, VialType
  <1>4. CASE at # 0
    <2>1. PutVessel(s, n) = [names |-> s.names, vessels |-> [s.vessels EXCEPT ![at] = NoVessel],
                             cur |-> {n}, block |-> s.block]
      BY <1>1, <1>4 DEF PutVessel, at
    <2>2. at \in 1 .. Len(s.vessels)
      BY <1>1, <1>2, <1>4
    <2>3. /\ [s.vessels EXCEPT ![at] = NoVessel] \in Seq(VesselType)
          /\ Len([s.vessels EXCEPT ![at] = NoVessel]) = Len(s.vessels)
      BY <1>1, <2>2, NoVesselTyped, ExceptSeq
    <2> QED
      BY <1>1, <2>1, <2>3, OptionalTyped DEF VialOK, VialType
  <1> QED
    BY <1>3, <1>4

ApertureType == [max : Optional(Nat), size : Optional(Nat)]
ThermalType  == [halt : Optional(Nat), throttle : Optional(Nat)]

\* What the fields of a vessel hold.
LEMMA VesselFields ==
  ASSUME NEW v \in VesselType
  PROVE  /\ v.pci \subseteq Nat /\ v.thermal \subseteq ThermalType
         /\ v.apertures \in Seq(ApertureType)
         /\ Throttle(v) \subseteq Nat /\ Halts(v) \subseteq Nat
  <1>1. v.pci \in Optional(Nat) /\ v.thermal \in Optional(ThermalType) /\ v.apertures \in Seq(ApertureType)
    BY DEF VesselType, ThermalType, ApertureType
  <1>2. v.pci \subseteq Nat /\ v.thermal \subseteq ThermalType
    BY <1>1, OptionalTyped
  <1>3. \A t \in v.thermal : t.throttle \subseteq Nat /\ t.halt \subseteq Nat
    <2>1. \A t \in ThermalType : t.throttle \in Optional(Nat) /\ t.halt \in Optional(Nat)
      BY DEF ThermalType
    <2> QED
      BY <1>2, <2>1, OptionalTyped
  <1> QED
    BY <1>1, <1>2, <1>3 DEF Throttle, Halts

LEMMA ThermalLineTyped ==
  ASSUME NEW v \in VesselType, NEW l \in VialText
  PROVE  ThermalLine(v, l) \in VesselType
  <1> DEFINE t == IF v.thermal = {} THEN [halt |-> {}, throttle |-> {}]
                                    ELSE CHOOSE u \in v.thermal : TRUE
             x == CASE l.key = "HALT_AT"     -> [t EXCEPT !.halt = {ValueOf(l)}]
                    [] l.key = "THROTTLE_AT" -> [t EXCEPT !.throttle = {ValueOf(l)}]
                    [] OTHER -> t
  <1>1. t \in ThermalType
    <2>1. v.thermal \subseteq ThermalType
      BY VesselFields
    <2> QED
      BY <2>1, OptionalTyped DEF ThermalType
  <1>2. x \in ThermalType
    <2> HIDE DEF t
    <2>1. ValueOf(l) \in Nat
      BY ValueTyped
    <2> QED
      BY <1>1, <2>1, OptionalTyped DEF ThermalType
  <1>3. ThermalLine(v, l) = [v EXCEPT !.thermal = {x}]
    BY DEF ThermalLine
  <1> HIDE DEF x
  <1>4. {x} \in Optional(ThermalType)
    BY <1>2, OptionalTyped
  <1> QED
    BY <1>3, <1>4 DEF VesselType, ThermalType

\* An aperture of the sequence is replaced by a typed one.
LEMMA ApertureReplaced ==
  ASSUME NEW v \in VesselType, NEW k \in 1 .. Len(v.apertures), NEW a \in ApertureType
  PROVE  [v EXCEPT !.apertures = [v.apertures EXCEPT ![k] = a]] \in VesselType
  <1>1. v.apertures \in Seq(ApertureType)
    BY DEF VesselType, ApertureType
  <1>2. [v.apertures EXCEPT ![k] = a] \in Seq(ApertureType)
    BY <1>1, ExceptSeq
  <1> DEFINE s == [v.apertures EXCEPT ![k] = a]
  <1> HIDE DEF s
  <1>3. [v EXCEPT !.apertures = s] \in VesselType
    BY <1>2 DEF VesselType, ApertureType, s
  <1> QED
    BY <1>3 DEF s

LEMMA ApertureLineTyped ==
  ASSUME NEW v \in VesselType, NEW l \in VialText
  PROVE  ApertureLine(v, l) \in VesselType
  <1> DEFINE last == Len(v.apertures)
  <1>1. v.apertures \in Seq(ApertureType) /\ last \in Nat
    BY LenProperties DEF VesselType, ApertureType
  <1>2. CASE l.key = "BAR"
    <2> DEFINE s == Append(v.apertures, [max |-> {}, size |-> {}])
    <2>1. s \in Seq(ApertureType)
      BY <1>1, OptionalTyped, AppendProperties DEF ApertureType
    <2> HIDE DEF s
    <2>2. [v EXCEPT !.apertures = s] \in VesselType
      BY <2>1 DEF VesselType, ApertureType
    <2> QED
      BY <1>2, <2>2 DEF ApertureLine, s
  <1>3. CASE l.key = "SIZE" /\ last > 0
    <2> DEFINE a == [v.apertures[last] EXCEPT !.size = {ValueOf(l)}]
    <2>1. last \in 1 .. Len(v.apertures) /\ v.apertures[last] \in ApertureType
      BY <1>1, <1>3, ElementOfSeq
    <2>2. a \in ApertureType
      <3> HIDE DEF last
      <3> QED
        BY <2>1, ValueTyped, OptionalTyped DEF ApertureType
    <2>3. [v EXCEPT !.apertures = [v.apertures EXCEPT ![last] = a]] \in VesselType
      <3> HIDE DEF a, last
      <3> QED
        BY <2>1, <2>2, ApertureReplaced DEF last
    <2>4. ApertureLine(v, l) = [v EXCEPT !.apertures = [v.apertures EXCEPT ![last] = a]]
      BY <1>3 DEF ApertureLine
    <2> QED
      BY <2>3, <2>4
  <1>4. CASE l.key # "BAR" /\ ~(l.key = "SIZE" /\ last > 0)
    BY <1>4 DEF ApertureLine
  <1> QED
    BY <1>2, <1>3, <1>4

LEMMA VesselLineTyped ==
  ASSUME NEW v \in VesselType, NEW l \in VialText
  PROVE  VesselLine(v, l) \in VesselType
  <1> DEFINE last == Len(v.apertures)
  <1>1. v.apertures \in Seq(ApertureType) /\ last \in Nat
    BY LenProperties DEF VesselType, ApertureType
  <1>2. CASE l.key = "PCI_ID"
    BY <1>2, ValueTyped, OptionalTyped DEF VesselLine, VesselType
  <1>3. CASE l.key = "MAX_WINDOW" /\ last > 0
    <2> DEFINE a == [v.apertures[last] EXCEPT !.max = {ValueOf(l)}]
    <2>1. last \in 1 .. Len(v.apertures) /\ v.apertures[last] \in ApertureType
      BY <1>1, <1>3, ElementOfSeq
    <2>2. a \in ApertureType
      <3> HIDE DEF last
      <3> QED
        BY <2>1, ValueTyped, OptionalTyped DEF ApertureType
    <2>3. [v EXCEPT !.apertures = [v.apertures EXCEPT ![last] = a]] \in VesselType
      <3> HIDE DEF a, last
      <3> QED
        BY <2>1, <2>2, ApertureReplaced DEF last
    <2>4. VesselLine(v, l) = [v EXCEPT !.apertures = [v.apertures EXCEPT ![last] = a]]
      BY <1>3 DEF VesselLine
    <2> QED
      BY <2>3, <2>4
  <1>4. CASE l.key # "PCI_ID" /\ ~(l.key = "MAX_WINDOW" /\ last > 0)
    BY <1>4 DEF VesselLine
  <1> QED
    BY <1>2, <1>3, <1>4

LEMMA VialLineTyped ==
  ASSUME NEW s, VialOK(s), NEW l \in VialText
  PROVE  VialOK(VialLine(s, l))
  <1> DEFINE at == SelectInSeq(s.names, LAMBDA m : m \in s.cur)
  <1>1. /\ s.names \in Seq(STRING) /\ s.vessels \in Seq(VesselType) /\ s.cur \in Optional(STRING)
        /\ s.block \in {"none", "aperture", "thermal"} /\ Len(s.names) = Len(s.vessels)
        /\ s = [names |-> s.names, vessels |-> s.vessels, cur |-> s.cur, block |-> s.block]
    BY DEF VialOK, VialType
  <1>2. at \in 0 .. Len(s.names)
    <2>1. Len(s.names) \in Nat
      BY <1>1, LenProperties
    <2> QED
      BY <2>1, FirstOf DEF SelectInSeq
  <1> HIDE DEF at
  <1>3. CASE l.key = "Vessel"
    <2>1. l.name \in STRING
      BY DEF VialText
    <2>2. VialLine(s, l) = PutVessel(s, l.name)
      BY <1>3 DEF VialLine
    <2> QED
      BY <2>1, <2>2, PutVesselTyped
  <1>4. CASE l.key \in {"Aperture", "Thermal", "}"}
    BY <1>1, <1>4, OptionalTyped DEF VialLine, Close, VialOK, VialType
  <1>5. CASE l.key \notin {"Vessel", "Aperture", "Thermal", "}"} /\ (l.key = "comment" \/ at = 0)
    <2>1. VialLine(s, l) = s
      BY <1>5 DEF VialLine, at
    <2> QED
      BY <2>1
  <1>6. CASE l.key \notin {"Vessel", "Aperture", "Thermal", "}"} /\ ~(l.key = "comment" \/ at = 0)
    <2> DEFINE v == s.vessels[at]
               w == CASE s.block = "thermal"  -> ThermalLine(v, l)
                      [] s.block = "aperture" -> ApertureLine(v, l)
                      [] OTHER -> VesselLine(v, l)
    <2>1. at \in 1 .. Len(s.vessels) /\ v \in VesselType
      <3>1. at \in 1 .. Len(s.vessels)
        <4>1. at # 0 /\ at \in 0 .. Len(s.vessels)
          BY <1>1, <1>2, <1>6
        <4> QED
          BY <4>1
      <3> QED
        BY <1>1, <3>1, ElementOfSeq
    <2>2. w \in VesselType
      <3> HIDE DEF v
      <3>1. ThermalLine(v, l) \in VesselType /\ ApertureLine(v, l) \in VesselType /\ VesselLine(v, l) \in VesselType
        BY <2>1, ThermalLineTyped, ApertureLineTyped, VesselLineTyped
      <3> QED
        BY <3>1
    <2>3. VialLine(s, l) = [names |-> s.names, vessels |-> [s.vessels EXCEPT ![at] = w],
                            cur |-> s.cur, block |-> s.block]
      BY <1>1, <1>6 DEF VialLine, at
    <2> HIDE DEF w
    <2>4. /\ [s.vessels EXCEPT ![at] = w] \in Seq(VesselType)
          /\ Len([s.vessels EXCEPT ![at] = w]) = Len(s.vessels)
      BY <1>1, <2>1, <2>2, ExceptSeq
    <2> QED
      BY <1>1, <2>3, <2>4 DEF VialOK, VialType
  <1> QED
    BY <1>3, <1>4, <1>5, <1>6

LEMMA VialStartTyped == VialOK(VialStart)
  BY OptionalTyped DEF VialOK, VialType, VialStart

LEMMA ParseVialTyped ==
  ASSUME NEW lines \in Seq(VialText)
  PROVE  VialOK(ParseVial(lines))
  <1> DEFINE N == Len(lines)
             X == { v \in VialType : VialOK(v) }
             g == [k \in 1 .. N |-> [s \in X |-> VialLine(s, lines[k])]]
             Def(f) == f = [n \in 0 .. N |-> IF n = 0 THEN VialStart ELSE VialLine(f[n - 1], lines[n])]
             read == CHOOSE f : Def(f)
  <1>1. N \in Nat /\ \A k \in 1 .. N : lines[k] \in VialText
    BY LenProperties, ElementOfSeq
  <1>2. \A v : VialOK(v) <=> v \in X
    BY DEF VialOK
  <1>3. VialStart \in X /\ \A k \in 1 .. N, s \in X : VialLine(s, lines[k]) \in X
    <2> HIDE DEF X
    <2> QED
      BY <1>1, <1>2, VialStartTyped, VialLineTyped
  <1>4. g \in [1 .. N -> [X -> X]]
    <2> HIDE DEF X
    <2> QED
      BY <1>3
  <1> HIDE DEF g, X
  <1>5. PICK h : Recurs(h, N, X, VialStart, g)
    BY <1>1, <1>3, <1>4, RecursionExists
  <1>6. h \in [0 .. N -> X] /\ h[0] = VialStart /\ \A k \in 1 .. N : h[k] = VialLine(h[k - 1], lines[k])
    <2>1. \A k \in 1 .. N : k - 1 \in 0 .. N
      BY <1>1
    <2> QED
      BY <1>5, <2>1 DEF Recurs, g
  <1>7. Def(h)
    <2>1. \A n \in 0 .. N : n # 0 => n \in 1 .. N
      BY <1>1
    <2> QED
      BY <1>6, <2>1
  <1>8. Def(read)
    <2> HIDE DEF Def
    <2> QED
      BY <1>7
  <1>9. ParseVial(lines) = read[N]
    BY DEF ParseVial
  <1> HIDE DEF read
  <1>10. read = [n \in 0 .. N |-> read[n]] /\ read[0] = VialStart
         /\ \A n \in 1 .. N : read[n] = VialLine(read[n - 1], lines[n])
    <2>1. 0 \in 0 .. N /\ \A n \in 1 .. N : n \in 0 .. N /\ n # 0
      BY <1>1
    <2> QED
      BY <1>8, <2>1
  <1> HIDE DEF Def
  <1>11. read \in [0 .. N -> X]
    <2>1. read[0] \in X /\ \A n \in 1 .. N : read[n - 1] \in X => read[n] \in X
      BY <1>3, <1>10
    <2> HIDE DEF N
    <2> QED
      BY <1>1, <1>10, <2>1, RecursionTyped
  <1> QED
    BY <1>1, <1>2, <1>9, <1>11

-----------------------------------------------------------------------------
(* The injector. *)

LEMMA InjectedTyped ==
  ASSUME NEW n \in STRING, NEW values \in Seq(Nat)
  PROVE  Injected(n, values) \in Instruction
  <1>1. Len(values) \in Nat /\ DOMAIN values = 1 .. Len(values) /\ \A k \in 1 .. Len(values) : values[k] \in Nat
    BY LenProperties, ElementOfSeq
  <1>2. \A v \in Nat : Num(v) \in Token
    BY LiteralsAssumption DEF Num, Token, WordKinds
  <1>3. [k \in 1 .. Len(values) |-> Num(values[k])] \in Seq(Token)
    <2>1. \A k \in 1 .. Len(values) : Num(values[k]) \in Token
      BY <1>1, <1>2
    <2> QED
      BY <1>1, <2>1, IsASeq
  <1> QED
    BY <1>1, <1>3, InstrTyped DEF Injected

RuleType == [on : STRING, before : STRING, after : STRING, operands : Seq(Nat)]

LEMMA InjectionRulesTyped == InjectionRules \in Seq(RuleType)
  <1>1. \A a, b, c \in STRING, o \in Seq(Nat) : InjectionRule(a, b, c, o) \in RuleType
    BY DEF InjectionRule, RuleType
  <1>2. /\ <<>> \in Seq(Nat) /\ <<1>> \in Seq(Nat) /\ <<2>> \in Seq(Nat)
        /\ <<3>> \in Seq(Nat) /\ <<4>> \in Seq(Nat)
    OBVIOUS
  <1> HIDE DEF InjectionRule
  <1>3. /\ InjectionRule("CLAIM",  "GUARD",   "",       <<1>>) \in RuleType
        /\ InjectionRule("FLOW",   "FENCE",   "SYNC",   <<>>) \in RuleType
        /\ InjectionRule("FLOW",   "",        "SYNC",   <<>>) \in RuleType
    BY <1>1, <1>2, LiteralsAssumption
  <1>4. /\ InjectionRule("OCCUPY", "ISOLATE", "",       <<>>) \in RuleType
        /\ InjectionRule("STAKE",  "LIMIT",   "",       <<2>>) \in RuleType
        /\ InjectionRule("FORGE",  "GUARD",   "",       <<3>>) \in RuleType
    BY <1>1, <1>2, LiteralsAssumption
  <1>5. /\ InjectionRule("STRIKE", "GUARD",   "AUDIT",  <<4>>) \in RuleType
        /\ InjectionRule("BOND",   "FENCE",   "",       <<>>) \in RuleType
        /\ InjectionRule("BOND",   "",        "VERIFY", <<>>) \in RuleType
    BY <1>1, <1>2, LiteralsAssumption
  <1>6. \A a, b, c, d, e, f, g, h, k \in RuleType : <<a, b, c, d, e, f, g, h, k>> \in Seq(RuleType)
    <2> HIDE DEF RuleType
    <2> QED
      OBVIOUS
  <1> QED
    BY <1>3, <1>4, <1>5, <1>6 DEF InjectionRules

LEMMA AroundTyped ==
  ASSUME NEW n \in STRING, NEW side \in {"before", "after"}
  PROVE  Around(n, side) \in Seq(Instruction)
  <1> DEFINE N == Len(InjectionRules)
             e(k) == IF InjectionRules[k].on = n /\ InjectionRules[k][side] # ""
                     THEN <<Injected(InjectionRules[k][side], InjectionRules[k].operands)>> ELSE <<>>
  <1>1. N \in Nat /\ DOMAIN InjectionRules = 1 .. N /\ \A k \in 1 .. N : InjectionRules[k] \in RuleType
    BY InjectionRulesTyped, LenProperties, ElementOfSeq
  <1>2. \A r \in RuleType : r[side] \in STRING /\ r.operands \in Seq(Nat)
    BY DEF RuleType
  <1>3. \A k \in 1 .. N : e(k) \in Seq(Instruction)
    <2>1. \A k \in 1 .. N : Injected(InjectionRules[k][side], InjectionRules[k].operands) \in Instruction
      BY <1>1, <1>2, InjectedTyped
    <2> QED
      BY <2>1, ShortSequences
  <1>4. [k \in 1 .. N |-> e(k)] \in Seq(Seq(Instruction))
    <2> HIDE DEF e, N
    <2> QED
      BY <1>1, <1>3, IsASeq
  <1>5. FlattenSeq([k \in 1 .. N |-> e(k)]) \in Seq(Instruction)
    <2> HIDE DEF e, N
    <2> QED
      BY <1>4, FlattenTyped
  <1>6. Around(n, side) = FlattenSeq([k \in 1 .. N |-> e(k)])
    BY <1>1 DEF Around
  <1> QED
    BY <1>5, <1>6

LEMMA WithRulesTyped ==
  ASSUME NEW instr \in Instruction
  PROVE  WithRules(instr) \in Seq(Instruction)
  <1>1. /\ Around(instr.name, "before") \in Seq(Instruction)
        /\ Around(instr.name, "after") \in Seq(Instruction)
    BY AroundTyped DEF Instruction
  <1>2. [instr EXCEPT !.force = FALSE, !.override = FALSE] \in Instruction
    BY DEF Instruction
  <1>3. <<[instr EXCEPT !.force = FALSE, !.override = FALSE]>> \in Seq(Instruction)
    BY <1>2, ShortSequences
  <1> QED
    BY <1>1, <1>3, ConcatProperties DEF WithRules

LEMMA InjectRulesTyped ==
  ASSUME NEW p \in Seq(Instruction)
  PROVE  InjectRules(p) \in Seq(Instruction)
  <1>1. Len(p) \in Nat /\ DOMAIN p = 1 .. Len(p) /\ \A k \in 1 .. Len(p) : p[k] \in Instruction
    BY LenProperties, ElementOfSeq
  <1>2. \A k \in 1 .. Len(p) : WithRules(p[k]) \in Seq(Instruction)
    BY <1>1, WithRulesTyped
  <1>3. [k \in 1 .. Len(p) |-> WithRules(p[k])] \in Seq(Seq(Instruction))
    BY <1>1, <1>2, IsASeq
  <1> QED
    BY <1>1, <1>3, FlattenTyped DEF InjectRules

LEMMA InjectThermalTyped ==
  ASSUME NEW p \in Seq(Instruction), NEW v, VialOK(v)
  PROVE  InjectThermal(p, v) \in Seq(Instruction)
  <1> DEFINE N == Len(v.vessels)
             e(k) == Checks(v.vessels[N + 1 - k])
  <1>1. /\ N \in Nat /\ DOMAIN v.vessels = 1 .. N
        /\ \A k \in 1 .. N : v.vessels[k] \in VesselType
    BY LenProperties, ElementOfSeq DEF VialOK, VialType
  <1>2. ASSUME NEW w \in VesselType
        PROVE  Checks(w) \in Seq(Instruction)
    <2>1. CASE Throttle(w) = {}
      BY <2>1, ShortSequences DEF Checks
    <2>2. CASE Throttle(w) # {}
      <3> DEFINE h == CHOOSE x \in Throttle(w) : TRUE
      <3>1. Throttle(w) \subseteq Nat
        BY VesselFields
      <3>2. h \in Nat
        BY <2>2, <3>1
      <3> HIDE DEF h
      <3>3. <<7>> \in Seq(Nat) /\ <<h>> \in Seq(Nat)
        BY <3>2
      <3>a. "SENSE" \in STRING /\ "LIMIT" \in STRING
        BY LiteralsAssumption
      <3>4. Injected("SENSE", <<7>>) \in Instruction /\ Injected("LIMIT", <<h>>) \in Instruction
        BY <3>3, <3>a, InjectedTyped
      <3>5. Checks(w) = <<Injected("SENSE", <<7>>), Injected("LIMIT", <<h>>)>>
        BY <2>2 DEF Checks, h
      <3> QED
        BY <3>4, <3>5, ShortSequences
    <2> QED
      BY <2>1, <2>2
  <1>3. \A k \in 1 .. N : e(k) \in Seq(Instruction)
    <2>1. \A k \in 1 .. N : N + 1 - k \in 1 .. N
      BY <1>1
    <2> QED
      BY <1>1, <1>2, <2>1
  <1>4. [k \in 1 .. N |-> e(k)] \in Seq(Seq(Instruction))
    <2> HIDE DEF e, N
    <2> QED
      BY <1>1, <1>3, IsASeq
  <1>5. FlattenSeq([k \in 1 .. N |-> e(k)]) \in Seq(Instruction)
    <2> HIDE DEF e, N
    <2> QED
      BY <1>4, FlattenTyped
  <1>6. InjectThermal(p, v) = FlattenSeq([k \in 1 .. N |-> e(k)]) \o p
    BY <1>1 DEF InjectThermal
  <1> QED
    BY <1>5, <1>6, ConcatProperties

-----------------------------------------------------------------------------
(* Packets. *)

LEMMA EmitPacketTyped ==
  ASSUME \A n \in STRING : NameHash[n] \in Nat,
         NEW instr \in Instruction, instr.name \in DOMAIN Opcode, NEW v, VialOK(v)
  PROVE  EmitPacket(instr, v) \in DropType
  <1> DEFINE op == Opcode[instr.name]
             o  == instr.operands
  <1>1. op \in 0 .. 255
    BY OpcodeAssumption
  <1>2. o \in Seq(Token) /\ Len(o) \in Nat /\ \A k \in 1 .. Len(o) : o[k] \in Token
    BY LenProperties, ElementOfSeq DEF Instruction
  <1> HIDE DEF op, o
  <1>3. o # <<>> => First(o).val \in Nat /\ First(o).id \in STRING
    <2>1. o # <<>> => Head(o) \in Token
      BY <1>2, HeadTailProperties
    <2> QED
      BY <2>1 DEF First, Token
  <1>4. \A n \in STRING : PciId(v, n) \in Nat
    <2>1. ASSUME NEW n \in STRING PROVE PciOf(v, n) \subseteq Nat
      <3> DEFINE at == SelectInSeq(v.names, LAMBDA m : m = n)
      <3>1. /\ v.names \in Seq(STRING) /\ v.vessels \in Seq(VesselType)
            /\ Len(v.names) = Len(v.vessels) /\ Len(v.names) \in Nat
        BY LenProperties DEF VialOK, VialType
      <3>2. at \in 0 .. Len(v.names)
        BY <3>1, FirstOf DEF SelectInSeq
      <3> HIDE DEF at
      <3>3. at # 0 => at \in 1 .. Len(v.vessels)
        BY <3>1, <3>2
      <3>4. at # 0 => v.vessels[at] \in VesselType
        BY <3>1, <3>3, ElementOfSeq
      <3>5. PciOf(v, n) = IF at = 0 THEN {} ELSE v.vessels[at].pci
        BY DEF PciOf, at
      <3> QED
        BY <3>4, <3>5, VesselFields
    <2> QED
      BY <2>1 DEF PciId
  <1>5. SrcAddr(op, o, v) \in Nat
    <2> HIDE DEF First
    <2>1. CASE o = <<>>
      BY <2>1 DEF SrcAddr, Names
    <2>2. CASE o # <<>> /\ ~Names(o)
      BY <1>3, <2>2 DEF SrcAddr
    <2>3. CASE Names(o) /\ op \in Claims \cup Limits
      BY <1>3, <1>4, <2>3 DEF SrcAddr, Names
    <2>4. CASE Names(o) /\ op \notin Claims \cup Limits /\ op = SIGNAL
      BY <1>3, <2>4 DEF SrcAddr, Names
    <2>5. CASE Names(o) /\ op \notin Claims \cup Limits /\ op # SIGNAL
      BY <2>5 DEF SrcAddr, Names
    <2> QED
      BY <2>1, <2>2, <2>3, <2>4, <2>5
  <1>6. DstAddr(op, o) \in Nat
    <2>1. Len(o) >= 2 => o[2].val \in Nat
      BY <1>2 DEF Token
    <2> QED
      BY <1>2, <2>1 DEF DstAddr
  <1>7. Size(op, o) \in 0 .. W32 - 1
    <2>1. Len(o) >= 3 => o[3].val \in Nat
      BY <1>2 DEF Token
    <2>2. W32 \in Nat \ {0}
      BY ScaleAssumption
    <2>3. Len(o) >= 3 => o[3].val % W32 \in 0 .. W32 - 1
      BY <2>1, <2>2, ModDef
    <2>4. 0 \in 0 .. W32 - 1
      BY <2>2
    <2> QED
      BY <1>2, <2>3, <2>4 DEF Size
  <1>8. EmitPacket(instr, v) =
          [op |-> op, flags |-> IF instr.force THEN {"FORCE"} ELSE {},
           vessel |-> IF op = 58 /\ Names(o) THEN 1 ELSE 0,
           src |-> SrcAddr(op, o, v), dst |-> DstAddr(op, o), size |-> Size(op, o), crcok |-> TRUE]
    BY DEF EmitPacket, op, o
  <1> QED
    BY <1>1, <1>5, <1>6, <1>7, <1>8 DEF DropType

LEMMA AzothPacketTyped ==
  ASSUME NEW p \in DropType
  PROVE  AzothPacket(p) \in DropType
  <1>1. AzothOp(p.op) \in 0 .. 255
    BY DEF AzothOp, DropType
  <1> DEFINE q == [p EXCEPT !.op = AzothOp(p.op), !.flags = @ \cup {"AZOTH"}, !.crcok = TRUE]
  <1>2. q \in DropType
    BY <1>1 DEF DropType
  <1> HIDE DEF q
  <1>3. [q EXCEPT !.src = p.dst, !.dst = p.src] \in DropType
    BY <1>2 DEF DropType
  <1>4. AzothPacket(p) = IF p.op = 4 THEN [q EXCEPT !.src = p.dst, !.dst = p.src] ELSE q
    BY DEF AzothPacket, q
  <1> QED
    BY <1>2, <1>3, <1>4

LEMMA MockRunTyped ==
  ASSUME NEW g \in Gpu, NEW p \in DropType
  PROVE  MockRun(g, p) \in Gpu /\ MockPacket(g, p) \in Gpu
  <1>1. {TempStart, TempCap, HaltDefault, Warm, WarmDma} \subseteq Nat /\ W32 \in Nat \ {0}
    BY MockAssumption, ScaleAssumption
  <1>2. LimitValue(p) \in Nat
    <2>1. p.size \in Nat /\ p.dst \in Nat
      BY <1>1 DEF DropType
    <2>2. p.dst % W32 \in Nat
      BY <1>1, <2>1, ModDef
    <2> QED
      BY <1>1, <2>1, <2>2 DEF LimitValue
  <1>3. MockPacket(g, p) \in Gpu
    <2>1. CASE p.op = 3
      <3>1. p.vessel \in Nat
        BY DEF DropType
      <3>2. MockPacket(g, p) = [g EXCEPT !.moved = TRUE, !.meta = p.vessel]
        BY <2>1 DEF MockPacket
      <3> QED
        BY <3>1, <3>2 DEF Gpu
    <2>2. CASE p.op = 5 /\ g.meta # p.dst % W32
      BY <2>2 DEF MockPacket, Gpu
    <2>3. CASE p.op = 14
      BY <1>2, <2>3 DEF MockPacket, Gpu
    <2>4. CASE p.op = 29
      BY <1>1, <2>4 DEF MockPacket, Gpu
    <2>5. CASE p.op \notin {3, 14, 29} /\ ~(p.op = 5 /\ g.meta # p.dst % W32)
      BY <2>5 DEF MockPacket
    <2> QED
      BY <2>1, <2>2, <2>3, <2>4, <2>5
  <1>4. ASSUME NEW r \in Gpu
        PROVE  Ramp([r EXCEPT !.count = @ + 1]) \in Gpu
    <2> DEFINE c == [r EXCEPT !.count = @ + 1]
    <2>1. c \in Gpu
      BY DEF Gpu
    <2> HIDE DEF c
    <2> DEFINE t == c.temp + IF c.moved THEN WarmDma ELSE Warm
               t2 == IF t > TempCap THEN TempCap ELSE t
    <2>2. c.temp \in Nat
      BY <2>1 DEF Gpu
    <2>3. t2 \in Nat
      BY <1>1, <2>2
    <2>4. Ramp(c) = [c EXCEPT !.temp = t2]
      BY DEF Ramp
    <2> HIDE DEF t, t2
    <2>5. Ramp(c) \in Gpu
      BY <2>1, <2>3, <2>4 DEF Gpu
    <2> QED
      BY <2>5 DEF c
  <1> QED
    BY <1>3, <1>4 DEF MockRun

-----------------------------------------------------------------------------
(* Every step keeps the types. *)

\* CompilerTypeOK does not say that a vial has a name for every vessel, without
\* which a vessel found by its name need not exist.
TypeInv == CompilerTypeOK /\ VialOK(vial)

HashesTyped == \A n \in STRING : NameHash[n] \in Nat

LEMMA TypeInit == Init => TypeInv
  <1> SUFFICES ASSUME Init PROVE TypeInv
    OBVIOUS
  <1>1. GpuStart \in Gpu
    BY MockAssumption DEF GpuStart, Gpu
  <1>2. todo \in Seq(Job)
    BY SessionsAssumption DEF Init
  <1>3. VialOK(VialStart) /\ VialStart \in VialType
    BY VialStartTyped DEF VialOK
  <1>4. <<>> \in Seq(Statement) /\ <<>> \in Seq(Instruction) /\ <<>> \in Seq(DropType)
    BY EmptySeq
  <1>5. stage \in Stages /\ mode \in Modes /\ i \in Nat \ {0}
    BY DEF Init, Stages, Modes
  <1>6. /\ src \in Seq(Statement) /\ prog \in Seq(Instruction) /\ gpu \in Gpu
        /\ {raw, out, az, alkas, azoth} \subseteq Seq(DropType)
    BY <1>1, <1>4 DEF Init
  <1>7. VialOK(vial) /\ vial \in VialType
    BY <1>3 DEF Init
  <1>8. /\ pending \in BOOLEAN /\ states \in SUBSET STRING /\ broken \in BOOLEAN
        /\ prevSync \in BOOLEAN /\ writing \in BOOLEAN
    BY DEF Init
  <1> QED
    BY <1>2, <1>5, <1>6, <1>7, <1>8 DEF TypeInv, CompilerTypeOK

LEMMA StartType == TypeInv /\ Start => TypeInv'
  <1> SUFFICES ASSUME TypeInv, Start PROVE TypeInv'
    OBVIOUS
  <1>1. Head(todo) \in Job /\ Tail(todo) \in Seq(Job)
    BY HeadTailProperties DEF TypeInv, CompilerTypeOK, Start
  <1>2. /\ Head(todo).src \in Seq(Statement) /\ Head(todo).vial \in Seq(VialText)
        /\ Head(todo).mode \in Modes
    BY <1>1 DEF Job
  <1>3. VialOK(vial') /\ vial' \in VialType
    <2>1. VialOK(ParseVial(Head(todo).vial))
      BY <1>2, ParseVialTyped
    <2>2. VialOK(vial')
      BY <2>1 DEF Start
    <2> QED
      BY <2>2 DEF VialOK
  <1>4. stage' \in {"mock", "parse"} /\ i' = 1 /\ src' = Head(todo).src /\ mode' = Head(todo).mode
        /\ todo' = Tail(todo)
        /\ UNCHANGED <<prog, pending, states, broken, raw, out, prevSync, az, gpu, alkas, azoth, writing>>
    BY DEF Start, Enter, locals, disk
  <1>5. (VialOK(vial))'
    BY <1>3 DEF VialOK
  <1> QED
    BY <1>1, <1>2, <1>3, <1>4, <1>5 DEF TypeInv, CompilerTypeOK, Stages, Compiling

LEMMA FrontEndType == TypeInv /\ FrontEnd => TypeInv'
  <1> SUFFICES ASSUME TypeInv, FrontEnd PROVE TypeInv'
    OBVIOUS
  <1>0. i \in Nat \ {0} /\ mode \in Modes
    BY DEF TypeInv, CompilerTypeOK
  <1>1. /\ UNCHANGED <<todo, src, vial, mode, gpu, raw, out, prevSync, az, alkas, azoth, writing>>
        /\ stage' \in Stages /\ i' \in Nat \ {0}
    <2>1. UNCHANGED <<todo, src, vial, mode, gpu, raw, out, prevSync, az, alkas, azoth, writing>>
      BY DEF FrontEnd, ParseStmt, ParseDone, Inject, Prove, ChainInstr, ChainDone, inputs, locals, disk
    <2>2. i' \in {1, i + 1}
      BY DEF FrontEnd, ParseStmt, ParseDone, Inject, Prove, ChainInstr, ChainDone, Enter
    <2>3. stage' \in {"parse", "inject", "prove", "chain", "emit", "rejected", "proved", "refuted", "failed"}
      BY <1>0 DEF FrontEnd, ParseStmt, ParseDone, Inject, Prove, ChainInstr, ChainDone, Enter
    <2> QED
      BY <1>0, <2>1, <2>2, <2>3 DEF Stages, Compiling, Ended
  <1>2. prog' \in Seq(Instruction) /\ pending' \in BOOLEAN
    <2>1. CASE ParseStmt
      <3>1. i \in 1 .. Len(src) /\ src[i] \in Statement
        BY <2>1, LenProperties, ElementOfSeq DEF ParseStmt, TypeInv, CompilerTypeOK
      <3>2. Parsed(src[i], pending) \in Seq(Instruction)
        BY <3>1, ParsedTyped DEF TypeInv, CompilerTypeOK
      <3>3. prog' \in Seq(Instruction)
        BY <2>1, <3>2, ConcatProperties DEF ParseStmt, TypeInv, CompilerTypeOK
      <3>4. PendingAfter(src[i], pending) \in BOOLEAN
        BY DEF PendingAfter
      <3> QED
        BY <2>1, <3>3, <3>4 DEF ParseStmt
    <2>2. CASE Inject
      <3>1. InjectThermal(InjectRules(prog), vial) \in Seq(Instruction)
        BY InjectRulesTyped, InjectThermalTyped DEF TypeInv, CompilerTypeOK
      <3> QED
        BY <2>2, <3>1 DEF Inject, TypeInv, CompilerTypeOK
    <2>3. CASE ~ParseStmt /\ ~Inject
      BY <2>3 DEF FrontEnd, ParseDone, Prove, ChainInstr, ChainDone, locals, TypeInv, CompilerTypeOK
    <2> QED
      BY <2>1, <2>2, <2>3
  <1>3. states' \in SUBSET STRING /\ broken' \in BOOLEAN
    <2>1. CASE ChainInstr
      <3>1. Establishes(prog[i]) \subseteq STRING
        BY RulesAssumption DEF Establishes, RulesFor
      <3>2. (broken \/ ChainError(prog[i], states)) \in BOOLEAN
        OBVIOUS
      <3> QED
        BY <2>1, <3>1, <3>2 DEF ChainInstr, TypeInv, CompilerTypeOK
    <2>2. CASE ~ChainInstr
      BY <2>2 DEF FrontEnd, ParseStmt, ParseDone, Inject, Prove, ChainDone, locals, TypeInv, CompilerTypeOK
    <2> QED
      BY <2>1, <2>2
  <1>4. (VialOK(vial))'
    BY <1>1 DEF VialOK, TypeInv
  <1> QED
    BY <1>1, <1>2, <1>3, <1>4 DEF TypeInv, CompilerTypeOK

LEMMA BackEndType ==
  ASSUME HashesTyped
  PROVE  TypeInv /\ BackEnd => TypeInv'
  <1> SUFFICES ASSUME TypeInv, BackEnd PROVE TypeInv'
    OBVIOUS
  <1>1. /\ UNCHANGED <<todo, src, vial, mode, gpu, prog, pending, states, broken, alkas, azoth, writing>>
        /\ stage' \in Stages /\ i' \in Nat \ {0}
    <2>1. UNCHANGED <<todo, src, vial, mode, gpu, prog, pending, states, broken, alkas, azoth, writing>>
      BY DEF BackEnd, EmitInstr, EmitRejects, EmitDone, WeldPacket, WeldDone, AzothStep, AzothDone,
         inputs, locals, disk
    <2>2. i' \in {1, i + 1} /\ stage' \in {"emit", "rejected", "weld", "azoth", "create"}
      BY DEF BackEnd, EmitInstr, EmitRejects, EmitDone, WeldPacket, WeldDone, AzothStep, AzothDone, Enter
    <2>3. i \in Nat \ {0}
      BY DEF TypeInv, CompilerTypeOK
    <2>4. i' \in Nat \ {0}
      BY <2>2, <2>3
    <2>5. stage' \in Stages
      BY <2>2 DEF Stages, Compiling, Ended, Writing
    <2> QED
      BY <2>1, <2>4, <2>5
  <1>2. {raw', out', az'} \subseteq Seq(DropType) /\ prevSync' \in BOOLEAN
    <2>0. raw \in Seq(DropType) /\ out \in Seq(DropType) /\ az \in Seq(DropType) /\ prevSync \in BOOLEAN
          /\ prog \in Seq(Instruction) /\ VialOK(vial)
      BY DEF TypeInv, CompilerTypeOK
    <2>1. CASE EmitInstr
      <3>1. prog[i] \in Instruction /\ prog[i].name \in DOMAIN Opcode
        BY <2>0, <2>1, LenProperties, ElementOfSeq DEF EmitInstr, Accepted
      <3>2. EmitPacket(prog[i], vial) \in DropType
        BY <2>0, <3>1, EmitPacketTyped DEF HashesTyped
      <3>3. raw' \in Seq(DropType)
        BY <2>0, <2>1, <3>2, AppendProperties DEF EmitInstr
      <3> QED
        BY <2>0, <2>1, <3>3 DEF EmitInstr
    <2>2. CASE WeldPacket
      <3>1. raw[i] \in DropType
        BY <2>0, <2>2, LenProperties, ElementOfSeq DEF WeldPacket
      <3>2. out' \in Seq(DropType)
        BY <2>0, <2>2, <3>1, AppendProperties DEF WeldPacket
      <3>3. prevSync' \in BOOLEAN
        BY <2>0, <2>2 DEF WeldPacket, SyncAfter
      <3> QED
        BY <2>0, <2>2, <3>2, <3>3 DEF WeldPacket
    <2>3. CASE AzothStep
      <3>1. Len(out) \in Nat /\ i \in 1 .. Len(out)
        BY <2>0, <2>3, LenProperties DEF AzothStep
      <3>2. Len(out) + 1 - i \in 1 .. Len(out)
        BY <3>1
      <3>3. Backwards(out, i) \in DropType
        BY <2>0, <3>2, ElementOfSeq DEF Backwards
      <3>4. az' \in Seq(DropType)
        BY <2>0, <2>3, <3>3, AzothPacketTyped, AppendProperties DEF AzothStep
      <3> QED
        BY <2>0, <2>3, <3>4 DEF AzothStep
    <2>4. CASE ~EmitInstr /\ ~WeldPacket /\ ~AzothStep
      BY <2>0, <2>4 DEF BackEnd, EmitRejects, EmitDone, WeldDone, AzothDone, locals
    <2> QED
      BY <2>1, <2>2, <2>3, <2>4
  <1>3. (VialOK(vial))'
    BY <1>1 DEF VialOK, TypeInv
  <1> QED
    BY <1>1, <1>2, <1>3 DEF TypeInv, CompilerTypeOK

LEMMA MockType == TypeInv /\ Mock => TypeInv'
  <1> SUFFICES ASSUME TypeInv, Mock PROVE TypeInv'
    OBVIOUS
  <1>1. /\ UNCHANGED <<todo, src, vial, mode, prog, pending, states, broken, raw, out, prevSync, az,
                       alkas, azoth, writing>>
        /\ stage' \in Stages /\ i' \in Nat \ {0}
    BY DEF Mock, MockStep, MockDone, Enter, inputs, locals, disk, TypeInv, CompilerTypeOK, Stages, Ended
  <1>2. gpu' \in Gpu
    <2>1. gpu \in Gpu /\ MockFile \in Seq(DropType)
      BY DEF TypeInv, CompilerTypeOK, MockFile
    <2>2. i \in DOMAIN MockFile => MockFile[i] \in DropType
      BY <2>1, LenProperties, ElementOfSeq
    <2>3. i \in DOMAIN MockFile => MockRun(gpu, MockFile[i]) \in Gpu
      BY <2>1, <2>2, MockRunTyped
    <2> QED
      BY <2>1, <2>3 DEF Mock, MockStep, MockDone
  <1>3. (VialOK(vial))'
    BY <1>1 DEF VialOK, TypeInv
  <1> QED
    BY <1>1, <1>2, <1>3 DEF TypeInv, CompilerTypeOK

LEMMA PrefixTyped ==
  ASSUME NEW s \in Seq(DropType), NEW n \in 0 .. Len(s)
  PROVE  SubSeq(s, 1, n) \in Seq(DropType)
  <1>1. Len(s) \in Nat /\ \A k \in 1 .. Len(s) : s[k] \in DropType
    BY LenProperties, ElementOfSeq
  <1>2. n \in Int /\ 1 \in Int /\ \A k \in 1 .. n : s[k] \in DropType
    BY <1>1
  <1> QED
    BY <1>2, SubSeqProperties

LEMMA WriteFilesType == TypeInv /\ WriteFiles => TypeInv'
  <1> SUFFICES ASSUME TypeInv, WriteFiles PROVE TypeInv'
    OBVIOUS
  <1>1. /\ UNCHANGED <<todo, src, vial, mode, gpu, prog, pending, states, broken, raw, out, prevSync, az>>
        /\ stage' \in Stages /\ i' \in Nat \ {0} /\ writing' \in BOOLEAN
    <2>1. UNCHANGED <<todo, src, vial, mode, gpu, prog, pending, states, broken, raw, out, prevSync, az>>
      BY DEF WriteFiles, CreateAlkas, FillAlkas, CreateAzoth, FillAzoth, CreateFails, FillFails,
         inputs, locals
    <2>2. i' = 1 /\ stage' \in Writing \cup {"done", "failed"}
      BY DEF WriteFiles, CreateAlkas, FillAlkas, CreateAzoth, FillAzoth, CreateFails, FillFails, Enter, Writing
    <2>3. writing' \in {writing, TRUE, FALSE}
      BY DEF WriteFiles, CreateAlkas, FillAlkas, CreateAzoth, FillAzoth, CreateFails, FillFails, disk
    <2>4. writing \in BOOLEAN
      BY DEF TypeInv, CompilerTypeOK
    <2>5. stage' \in Stages
      BY <2>2 DEF Stages, Ended, Writing
    <2>6. writing' \in BOOLEAN
      BY <2>3, <2>4
    <2> QED
      BY <2>1, <2>2, <2>5, <2>6
  <1>2. alkas' \in Seq(DropType) /\ azoth' \in Seq(DropType)
    <2>0. /\ out \in Seq(DropType) /\ az \in Seq(DropType) /\ alkas \in Seq(DropType)
          /\ azoth \in Seq(DropType) /\ <<>> \in Seq(DropType)
      BY EmptySeq DEF TypeInv, CompilerTypeOK
    <2>1. CASE FillFails
      <3>1. /\ alkas' = alkas \/ \E n \in 0 .. Len(out) : alkas' = SubSeq(out, 1, n)
            /\ azoth' = azoth \/ \E n \in 0 .. Len(az) : azoth' = SubSeq(az, 1, n)
        BY <2>1 DEF FillFails
      <3> QED
        BY <2>0, <3>1, PrefixTyped
    <2>2. CASE ~FillFails
      BY <2>0, <2>2 DEF WriteFiles, CreateAlkas, FillAlkas, CreateAzoth, FillAzoth, CreateFails, disk
    <2> QED
      BY <2>1, <2>2
  <1>3. (VialOK(vial))'
    BY <1>1 DEF VialOK, TypeInv
  <1> QED
    BY <1>1, <1>2, <1>3 DEF TypeInv, CompilerTypeOK

LEMMA TypeNext ==
  ASSUME HashesTyped
  PROVE  TypeInv /\ [Next]_vars => TypeInv'
  <1> SUFFICES ASSUME TypeInv, [Next]_vars PROVE TypeInv'
    OBVIOUS
  <1>1. CASE Exit \/ Kill
    <2>1. /\ stage' = "idle" /\ i' = 1 /\ src' = <<>> /\ vial' = VialStart /\ mode' = "compile"
          /\ prog' = <<>> /\ pending' = FALSE /\ states' = {} /\ broken' = FALSE
          /\ raw' = <<>> /\ out' = <<>> /\ prevSync' = FALSE /\ az' = <<>> /\ gpu' = GpuStart
          /\ UNCHANGED <<todo, alkas, azoth, writing>>
      BY <1>1 DEF Exit, Kill, Gone, Enter, disk
    <2>2. GpuStart \in Gpu
      BY MockAssumption DEF GpuStart, Gpu
    <2>3. (VialOK(vial))' /\ vial' \in VialType
      BY <2>1, VialStartTyped DEF VialOK
    <2>4. <<>> \in Seq(Statement) /\ <<>> \in Seq(Instruction) /\ <<>> \in Seq(DropType)
      BY EmptySeq
    <2>a. todo \in Seq(Job)
      BY DEF TypeInv, CompilerTypeOK
    <2>5. stage' \in Stages /\ mode' \in Modes /\ i' \in Nat \ {0} /\ todo' \in Seq(Job)
      BY <2>1, <2>a DEF Stages, Modes
    <2>6. /\ src' \in Seq(Statement) /\ prog' \in Seq(Instruction) /\ gpu' \in Gpu
          /\ {raw', out', az', alkas', azoth'} \subseteq Seq(DropType)
      BY <2>1, <2>2, <2>4 DEF TypeInv, CompilerTypeOK
    <2>7. /\ pending' \in BOOLEAN /\ states' \in SUBSET STRING /\ broken' \in BOOLEAN
          /\ prevSync' \in BOOLEAN /\ writing' \in BOOLEAN
      BY <2>1 DEF TypeInv, CompilerTypeOK
    <2> QED
      BY <2>3, <2>5, <2>6, <2>7 DEF TypeInv, CompilerTypeOK
  <1>2. CASE UNCHANGED vars
    <2>1. UNCHANGED <<stage, todo, src, vial, mode, gpu, i, prog, pending, states, broken, raw, out,
                      prevSync, az, alkas, azoth, writing>>
      BY <1>2 DEF vars, inputs, locals, disk
    <2> QED
      BY <2>1 DEF TypeInv, CompilerTypeOK, VialOK
  <1> QED
    BY <1>1, <1>2, StartType, FrontEndType, BackEndType, MockType, WriteFilesType DEF Next

\* Every variable of the compiler has its type, whatever it is given to read.
THEOREM CompilerTyped ==
  ASSUME HashesTyped
  PROVE  Spec => []CompilerTypeOK
  <1>1. TypeInv => CompilerTypeOK
    BY DEF TypeInv
  <1> QED
    BY <1>1, TypeInit, TypeNext, PTL DEF Spec
=============================================================================
