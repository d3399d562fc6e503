----------------------------- MODULE AlkacProofs -----------------------------
(***************************************************************************)
(* Proofs that a compiled binary is in chain order, that the welder takes  *)
(* no barrier away, and that the two files hold what they should and       *)
(* belong together, for every instruction set, every chain table, every    *)
(* recipe and vial, and any number of runs, killed or failed anywhere.     *)
(***************************************************************************)
EXTENDS AlkacProps, FiniteSetTheorems, SequenceTheorems, TLAPS

IsSequence(s) == s \in Seq(Range(s))

\* What the rules of an instruction require.
Requires(instr) == UNION { Rules[k].pre : k \in RulesFor(instr) }

\* An instruction before the k-th establishes whatever it requires.
InOrder(k) ==
  \A st \in Requires(prog[k]) : \E l \in 1 .. k - 1 : st \in Establishes(prog[l])

\* What the loops find when they start.
Fresh ==
  /\ stage \in {"idle", "parse", "inject"} => states = {} /\ broken = FALSE
  /\ stage \in {"idle", "parse", "inject", "chain"} => raw = <<>>
  /\ stage \in {"idle", "parse", "inject", "chain", "emit"} => out = <<>> /\ prevSync = FALSE

\* The chain validator has looked at the instructions up to i.
InChain ==
  stage = "chain" =>
    /\ i \in Nat \ {0} /\ 1 .. i - 1 \subseteq DOMAIN prog
    /\ \A st \in states : \E l \in 1 .. i - 1 : st \in Establishes(prog[l])
    /\ ~broken => \A k \in 1 .. i - 1 : InOrder(k)

\* It looked at all of them, there being no instruction at n + 1, and each
\* packet emitted has the opcode of its instruction.
InEmit ==
  stage = "emit" =>
    /\ i = Len(raw) + 1 /\ 1 .. i - 1 \subseteq DOMAIN prog
    /\ \E n \in Nat : n + 1 \notin DOMAIN prog /\ \A k \in 1 .. n : InOrder(k)
    /\ \A k \in DOMAIN raw : /\ prog[k].name \in DOMAIN Opcode
                             /\ raw[k].op = Opcode[prog[k].name]

Emitted ==
  stage \in {"emit", "weld"} =>
    IsSequence(raw) /\ Ordered(raw) /\ \A k \in DOMAIN raw : raw[k].crcok

\* Of the packets the welder has seen, those it left out are stripped ones or
\* have another of their opcode in the output.
InWeld ==
  stage = "weld" =>
    /\ i \in 1 .. Len(raw) + 1
    /\ \A k \in 1 .. i - 1 :
         raw[k].op \in Stripped \/ \E j \in DOMAIN out : out[j].op = raw[k].op
    /\ prevSync => \E j \in DOMAIN out : out[j].op = SYNC

Welded ==
  stage \in {"weld", "azoth"} \cup Writing => IsSequence(out) /\ Ordered(out)

\* The inductive invariant: BinaryOrdered alone says nothing of the packets
\* that are not yet in the file.
ChainInv == Fresh /\ InChain /\ InEmit /\ Emitted /\ InWeld /\ Welded /\ Ordered(alkas)

-----------------------------------------------------------------------------
(* Sequences in chain order. *)

\* The empty sequence is in order.
LEMMA EmptyOrdered == IsSequence(<<>>) /\ Ordered(<<>>) /\ DOMAIN <<>> = {}
  BY DEF IsSequence, Ordered

\* What Append does to a sequence of any elements.
LEMMA Appended ==
  ASSUME NEW s, NEW e, IsSequence(s)
  PROVE  /\ IsSequence(Append(s, e))
         /\ Len(s) \in Nat /\ DOMAIN s = 1 .. Len(s)
         /\ Len(Append(s, e)) = Len(s) + 1
         /\ DOMAIN Append(s, e) = 1 .. Len(s) + 1
         /\ \A k \in 1 .. Len(s) : Append(s, e)[k] = s[k]
         /\ Append(s, e)[Len(s) + 1] = e
  <1> DEFINE S == Range(s) \cup {e}
  <1>1. s \in Seq(S)
    BY SeqMonotonic DEF IsSequence
  <1>2. Append(s, e) \in Seq(S)
    BY <1>1, AppendProperties
  <1>3. IsSequence(Append(s, e))
    BY <1>2, SeqOfRange DEF IsSequence
  <1> QED
    BY <1>1, <1>2, <1>3, AppendProperties, LenProperties

\* A sequence stays in order when what is appended requires only what its
\* packets establish.
LEMMA AppendOrdered ==
  ASSUME NEW s, NEW e, IsSequence(s), Ordered(s),
         \A st \in Pre(e.op) : \E j \in DOMAIN s : st \in Post(s[j].op)
  PROVE  Ordered(Append(s, e))
  <1> DEFINE t == Append(s, e)
  <1>1. SUFFICES ASSUME NEW k \in DOMAIN t, NEW st \in Pre(t[k].op)
                 PROVE  \E j \in 1 .. k - 1 : st \in Post(t[j].op)
    BY DEF Ordered
  <1>2. CASE k \in 1 .. Len(s)
    <2>1. t[k] = s[k] /\ \A j \in 1 .. k - 1 : t[j] = s[j] /\ j \in DOMAIN s
      BY <1>2, Appended
    <2>2. PICK j \in 1 .. k - 1 : st \in Post(s[j].op)
      BY <1>1, <1>2, <2>1, Appended DEF Ordered
    <2> QED
      BY <2>1, <2>2
  <1>3. CASE k = Len(s) + 1
    <2>1. t[k] = e
      BY <1>3, Appended
    <2>2. PICK j \in DOMAIN s : st \in Post(s[j].op)
      BY <1>1, <2>1
    <2>3. j \in 1 .. k - 1 /\ t[j] = s[j]
      BY <1>3, Appended
    <2> QED
      BY <2>2, <2>3
  <1> QED
    BY <1>1, <1>2, <1>3, Appended

\* A prefix of a sequence in order is in order.
LEMMA PrefixOrdered ==
  ASSUME NEW s, IsSequence(s), Ordered(s), NEW n \in 0 .. Len(s)
  PROVE  Ordered(SubSeq(s, 1, n))
  <1> DEFINE t == SubSeq(s, 1, n)
  <1>1. Len(s) \in Nat /\ DOMAIN s = 1 .. Len(s) /\ \A k \in 1 .. Len(s) : s[k] \in Range(s)
    BY LenProperties, ElementOfSeq DEF IsSequence
  <1>2. \A k \in 1 .. n : s[k] \in Range(s)
    BY <1>1
  <1>3. t \in Seq(Range(s)) /\ Len(t) = n /\ \A k \in 1 .. n : t[k] = s[k]
    BY <1>1, <1>2, SubSeqProperties
  <1>4. DOMAIN t = 1 .. n
    BY <1>3, LenProperties
  <1>5. SUFFICES ASSUME NEW k \in 1 .. n, NEW st \in Pre(t[k].op)
                 PROVE  \E j \in 1 .. k - 1 : st \in Post(t[j].op)
    BY <1>4 DEF Ordered
  <1>6. PICK j \in 1 .. k - 1 : st \in Post(s[j].op)
    BY <1>1, <1>3, <1>5 DEF Ordered
  <1> QED
    BY <1>1, <1>3, <1>6

-----------------------------------------------------------------------------
(* The chain validator goes by names, the binary by opcodes. *)

\* They agree because no two instructions share an opcode.
LEMMA NamesAndOpcodes ==
  ASSUME NEW instr, instr.name \in DOMAIN Opcode
  PROVE  /\ Requires(instr) = Pre(Opcode[instr.name])
         /\ Establishes(instr) = Post(Opcode[instr.name])
  <1>1. RulesFor(instr) = RulesOf(Opcode[instr.name])
    BY RulesAssumption, OpcodeAssumption DEF RulesFor, RulesOf
  <1> QED
    BY <1>1 DEF Requires, Establishes, Pre, Post

\* What the welder strips establishes nothing.
LEMMA StrippedEstablishNothing ==
  ASSUME NEW op \in Stripped
  PROVE  Post(op) = {}
  BY StrippedAssumption DEF Post, RulesOf

-----------------------------------------------------------------------------
(* One lemma per action that does the work, one for the others together.   *)

LEMMA InitInv == Init => ChainInv
  BY EmptyOrdered DEF Init, ChainInv, Fresh, InChain, InEmit, Emitted, InWeld, Welded, Writing

\* The validator: an instruction is in order unless it makes the program broken.
LEMMA ChainInstrInv == ChainInv /\ ChainInstr => ChainInv'
  <1> SUFFICES ASSUME ChainInv, ChainInstr
               PROVE  ChainInv'
    OBVIOUS
  <1> USE DEF ChainInstr
  <1>1. /\ i \in Nat \ {0} /\ 1 .. i - 1 \subseteq DOMAIN prog /\ i \in DOMAIN prog
        /\ stage = "chain" /\ stage' = "chain" /\ i' = i + 1 /\ prog' = prog
        /\ \A st \in states : \E l \in 1 .. i - 1 : st \in Establishes(prog[l])
        /\ ~broken => \A k \in 1 .. i - 1 : InOrder(k)
        /\ UNCHANGED <<raw, out, prevSync, alkas>>
    BY DEF ChainInv, InChain, disk
  <1>2. \A instr : (Establishes(instr))' = Establishes(instr) /\ (Requires(instr))' = Requires(instr)
    BY DEF Establishes, Requires, RulesFor
  <1>3. \A st \in states' : \E l \in 1 .. i : st \in Establishes(prog[l])
    BY <1>1
  <1>4. ASSUME ~broken'
        PROVE  \A k \in 1 .. i : InOrder(k)
    <2>1. ~broken /\ ~ChainError(prog[i], states)
      BY <1>4, Zenon
    <2>2. Requires(prog[i]) \subseteq states
      BY <2>1 DEF ChainError, Requires
    <2>3. InOrder(i)
      BY <2>2, <1>1 DEF InOrder
    <2>4. \A k \in 1 .. i - 1 : InOrder(k)
      BY <2>1, <1>1, Zenon
    <2> QED
      BY <1>1, <2>3, <2>4
  <1>5. \A k : InOrder(k)' <=> InOrder(k)
    BY <1>1, <1>2 DEF InOrder
  <1>6. InChain'
    BY <1>1, <1>2, <1>3, <1>4, <1>5 DEF InChain
  <1>7. Fresh' /\ InEmit' /\ Emitted' /\ InWeld' /\ Welded' /\ Ordered(alkas)'
    BY <1>1 DEF ChainInv, Fresh, InEmit, Emitted, InWeld, Welded, Writing, Ordered, Pre, Post, RulesOf
  <1> QED
    BY <1>6, <1>7 DEF ChainInv

\* At its end, a program that is not broken is in order up to its last
\* instruction.
LEMMA ChainDoneInv == ChainInv /\ ChainDone => ChainInv'
  <1> SUFFICES ASSUME ChainInv, ChainDone
               PROVE  ChainInv'
    OBVIOUS
  <1>1. /\ stage = "chain" /\ raw = <<>> /\ out = <<>> /\ prevSync = FALSE
        /\ UNCHANGED <<prog, raw, out, prevSync, alkas>> /\ i' = 1
        /\ stage' = IF broken THEN "rejected" ELSE "emit"
    BY DEF ChainInv, Fresh, ChainDone, Enter, locals, disk
  <1>2. CASE broken
    BY <1>1, <1>2 DEF ChainInv, Fresh, InChain, InEmit, Emitted, InWeld, Welded, Writing,
                      Ordered, Pre, Post, RulesOf
  <1>3. CASE ~broken
    <2>1. i - 1 \in Nat /\ (i - 1) + 1 \notin DOMAIN prog /\ \A k \in 1 .. i - 1 : InOrder(k)
      BY <1>1, <1>3 DEF ChainInv, InChain, ChainDone
    <2>2. \A k : InOrder(k)' <=> InOrder(k)
      BY <1>1 DEF InOrder, Requires, Establishes, RulesFor
    <2>3. InEmit'
      BY <1>1, <1>3, <2>1, <2>2, EmptyOrdered DEF InEmit
    <2>4. Emitted'
      BY <1>1, <1>3, EmptyOrdered DEF Emitted, Ordered, Pre, Post, RulesOf, IsSequence
    <2>5. Fresh' /\ InChain' /\ InWeld' /\ Welded' /\ Ordered(alkas)'
      BY <1>1, <1>3 DEF ChainInv, Fresh, InChain, InWeld, Welded, Writing, Ordered, Pre, Post, RulesOf
    <2> QED
      BY <2>3, <2>4, <2>5 DEF ChainInv
  <1> QED
    BY <1>2, <1>3

\* emitPacket: the k-th packet stands for the k-th instruction, which the
\* validator has seen.
LEMMA EmitInstrInv == ChainInv /\ EmitInstr => ChainInv'
  <1> SUFFICES ASSUME ChainInv, EmitInstr
               PROVE  ChainInv'
    OBVIOUS
  <1> DEFINE p == EmitPacket(prog[i], vial)
  <1>1. /\ stage = "emit" /\ stage' = "emit" /\ i' = i + 1
        /\ i \in DOMAIN prog /\ prog[i].name \in DOMAIN Opcode
        /\ raw' = Append(raw, p)
        /\ UNCHANGED <<prog, out, prevSync, alkas>>
    BY DEF EmitInstr, Accepted, disk
  <1>2. /\ i = Len(raw) + 1 /\ 1 .. i - 1 \subseteq DOMAIN prog
        /\ IsSequence(raw) /\ Ordered(raw) /\ \A k \in DOMAIN raw : raw[k].crcok
        /\ \A k \in DOMAIN raw : /\ prog[k].name \in DOMAIN Opcode
                                 /\ raw[k].op = Opcode[prog[k].name]
    BY <1>1 DEF ChainInv, InEmit, Emitted
  <1>3. PICK n \in Nat : n + 1 \notin DOMAIN prog /\ \A k \in 1 .. n : InOrder(k)
    BY <1>1 DEF ChainInv, InEmit
  <1>4. p.op = Opcode[prog[i].name] /\ p.crcok
    BY DEF EmitPacket
  <1>5. /\ IsSequence(raw') /\ Len(raw) \in Nat /\ Len(raw') = Len(raw) + 1
        /\ DOMAIN raw = 1 .. Len(raw) /\ DOMAIN raw' = 1 .. Len(raw) + 1
        /\ \A k \in 1 .. Len(raw) : raw'[k] = raw[k]
        /\ raw'[Len(raw) + 1] = p
    BY <1>1, <1>2, Appended
  <1>6. i <= n
    BY <1>1, <1>2, <1>3, <1>5
  <1>7. \A st \in Pre(p.op) : \E j \in DOMAIN raw : st \in Post(raw[j].op)
    <2>1. SUFFICES ASSUME NEW st \in Pre(p.op)
                   PROVE  \E j \in DOMAIN raw : st \in Post(raw[j].op)
      OBVIOUS
    <2>2. st \in Requires(prog[i])
      BY <1>1, <1>4, <2>1, NamesAndOpcodes
    <2>3. InOrder(i)
      BY <1>2, <1>3, <1>5, <1>6
    <2>4. PICK l \in 1 .. i - 1 : st \in Establishes(prog[l])
      BY <2>2, <2>3 DEF InOrder
    <2>5. l \in DOMAIN raw
      BY <1>2, <1>5
    <2>6. prog[l].name \in DOMAIN Opcode /\ raw[l].op = Opcode[prog[l].name]
      BY <1>2, <2>5
    <2>7. st \in Post(raw[l].op)
      BY <2>4, <2>6, NamesAndOpcodes
    <2> QED
      BY <2>5, <2>7
  <1>8. Ordered(raw')
    BY <1>1, <1>2, <1>7, AppendOrdered
  <1>9. Emitted'
    <2>1. \A k \in DOMAIN raw' : raw'[k].crcok
      BY <1>2, <1>4, <1>5
    <2>2. (Ordered(raw))' <=> Ordered(raw')
      BY DEF Ordered, Pre, Post, RulesOf
    <2> QED
      BY <1>5, <1>8, <2>1, <2>2 DEF Emitted, IsSequence
  <1>10. InEmit'
    <2>1. \A k : InOrder(k)' <=> InOrder(k)
      BY <1>1 DEF InOrder, Requires, Establishes, RulesFor
    <2>2. \A k \in DOMAIN raw' : /\ prog[k].name \in DOMAIN Opcode
                                 /\ raw'[k].op = Opcode[prog[k].name]
      BY <1>1, <1>2, <1>4, <1>5
    <2>3. i' = Len(raw') + 1 /\ 1 .. i' - 1 \subseteq DOMAIN prog
      BY <1>1, <1>2, <1>5
    <2> QED
      BY <1>1, <1>3, <2>1, <2>2, <2>3 DEF InEmit
  <1>11. Fresh' /\ InChain' /\ InWeld' /\ Welded' /\ Ordered(alkas)'
    BY <1>1 DEF ChainInv, Fresh, InChain, InWeld, Welded, Writing, Ordered, Pre, Post, RulesOf
  <1> QED
    BY <1>9, <1>10, <1>11 DEF ChainInv

\* The welder starts with an empty output.
LEMMA EmitDoneInv == ChainInv /\ EmitDone => ChainInv'
  <1> SUFFICES ASSUME ChainInv, EmitDone
               PROVE  ChainInv'
    OBVIOUS
  <1>1. /\ stage = "emit" /\ stage' = "weld" /\ i' = 1
        /\ UNCHANGED <<prog, raw, out, prevSync, alkas>>
        /\ out = <<>> /\ prevSync = FALSE
    BY DEF ChainInv, Fresh, EmitDone, Enter, locals, disk
  <1>2. IsSequence(raw) /\ Ordered(raw) /\ Len(raw) \in Nat /\ \A k \in DOMAIN raw : raw[k].crcok
    BY <1>1, Appended DEF ChainInv, Emitted
  <1>3. InWeld'
    BY <1>1, <1>2 DEF InWeld
  <1>4. Welded'
    BY <1>1, EmptyOrdered DEF Welded, Ordered, IsSequence, Pre, Post, RulesOf
  <1>5. Fresh' /\ InChain' /\ InEmit' /\ Emitted' /\ Ordered(alkas)'
    BY <1>1, <1>2 DEF ChainInv, Fresh, InChain, InEmit, Emitted, IsSequence, Ordered, Pre, Post, RulesOf
  <1> QED
    BY <1>3, <1>4, <1>5 DEF ChainInv

\* refineBinary: whatever the i-th packet requires was established by a packet
\* before it that was not stripped, so by one of the output.
LEMMA WeldPacketInv == ChainInv /\ WeldPacket => ChainInv'
  <1> SUFFICES ASSUME ChainInv, WeldPacket
               PROVE  ChainInv'
    OBVIOUS
  <1> DEFINE Grown ==
        /\ IsSequence(out') /\ Ordered(out')
        /\ prevSync' => \E j \in DOMAIN out' : out'[j].op = SYNC
        /\ \A k \in 1 .. i : raw[k].op \in Stripped \/ \E j \in DOMAIN out' : out'[j].op = raw[k].op
  <1>1. /\ stage = "weld" /\ stage' = "weld" /\ i' = i + 1 /\ i \in DOMAIN raw
        /\ out' = IF Kept(raw[i], prevSync) THEN Append(out, raw[i]) ELSE out
        /\ prevSync' = SyncAfter(raw[i], prevSync)
        /\ UNCHANGED <<raw, alkas>>
    BY DEF WeldPacket, disk
  <1>2. /\ IsSequence(raw) /\ Ordered(raw) /\ raw[i].crcok
        /\ IsSequence(out) /\ Ordered(out)
        /\ i \in 1 .. Len(raw) + 1
        /\ \A k \in 1 .. i - 1 :
             raw[k].op \in Stripped \/ \E j \in DOMAIN out : out[j].op = raw[k].op
        /\ prevSync => \E j \in DOMAIN out : out[j].op = SYNC
    BY <1>1 DEF ChainInv, Emitted, InWeld, Welded
  <1>3. /\ Len(raw) \in Nat /\ DOMAIN raw = 1 .. Len(raw)
        /\ Len(out) \in Nat /\ DOMAIN out = 1 .. Len(out)
    BY <1>2, Appended
  <1>4. \A st \in Pre(raw[i].op) : \E j \in DOMAIN out : st \in Post(out[j].op)
    <2>1. SUFFICES ASSUME NEW st \in Pre(raw[i].op)
                   PROVE  \E j \in DOMAIN out : st \in Post(out[j].op)
      OBVIOUS
    <2>2. PICK k \in 1 .. i - 1 : st \in Post(raw[k].op)
      BY <1>1, <1>2, <2>1 DEF Ordered
    <2>3. raw[k].op \notin Stripped
      BY <2>2, StrippedEstablishNothing
    <2>4. PICK j \in DOMAIN out : out[j].op = raw[k].op
      BY <1>2, <2>3
    <2> QED
      BY <2>2, <2>4
  <1>5. ASSUME Kept(raw[i], prevSync)
        PROVE  Grown
    <2>1. /\ out' = Append(out, raw[i])
          /\ IsSequence(out') /\ DOMAIN out' = 1 .. Len(out) + 1
          /\ \A k \in 1 .. Len(out) : out'[k] = out[k]
          /\ out'[Len(out) + 1] = raw[i]
      BY <1>1, <1>2, <1>5, Appended
    <2>2. Ordered(out')
      BY <1>2, <1>4, <2>1, AppendOrdered
    <2>3. \A op : (\E j \in DOMAIN out : out[j].op = op) => \E j \in DOMAIN out' : out'[j].op = op
      BY <1>3, <2>1
    <2>4. \E j \in DOMAIN out' : out'[j].op = raw[i].op
      BY <1>3, <2>1
    <2>5. prevSync' => \E j \in DOMAIN out' : out'[j].op = SYNC
      BY <1>1, <1>2, <2>3, <2>4 DEF SyncAfter
    <2>6. \A k \in 1 .. i : raw[k].op \in Stripped \/ \E j \in DOMAIN out' : out'[j].op = raw[k].op
      BY <1>1, <1>2, <1>3, <2>3, <2>4
    <2> QED
      BY <2>1, <2>2, <2>5, <2>6
  <1>6. ASSUME ~Kept(raw[i], prevSync)
        PROVE  Grown
    <2>1. out' = out
      BY <1>1, <1>6
    <2>2. raw[i].op \in Stripped \/ (raw[i].op = SYNC /\ prevSync)
      BY <1>2, <1>6 DEF Kept
    <2>3. prevSync' => prevSync
      BY <1>1, <2>2 DEF SyncAfter
    <2>4. raw[i].op \in Stripped \/ \E j \in DOMAIN out : out[j].op = raw[i].op
      BY <1>2, <2>2
    <2>5. \A k \in 1 .. i : raw[k].op \in Stripped \/ \E j \in DOMAIN out : out[j].op = raw[k].op
      BY <1>1, <1>2, <1>3, <2>4
    <2> QED
      BY <1>2, <2>1, <2>3, <2>5
  <1>7. Grown
    BY <1>5, <1>6
  <1>8. InWeld'
    BY <1>1, <1>3, <1>7 DEF InWeld
  <1>9. Welded'
    <2>1. (Ordered(out))' <=> Ordered(out')
      BY DEF Ordered, Pre, Post, RulesOf
    <2> QED
      BY <1>7, <2>1 DEF Welded, IsSequence
  <1>10. Fresh' /\ InChain' /\ InEmit' /\ Emitted' /\ Ordered(alkas)'
    BY <1>1 DEF ChainInv, Fresh, InChain, InEmit, Emitted, IsSequence, Ordered, Pre, Post, RulesOf
  <1> QED
    BY <1>8, <1>9, <1>10 DEF ChainInv

\* Writing the file: all of the output, some of it, or nothing yet.
LEMMA WriteFilesInv == ChainInv /\ WriteFiles => ChainInv'
  <1> SUFFICES ASSUME ChainInv, WriteFiles
               PROVE  ChainInv'
    OBVIOUS
  <1>1. /\ stage \in Writing /\ stage' \in Writing \cup {"done", "failed"}
        /\ UNCHANGED locals
    BY DEF WriteFiles, CreateAlkas, FillAlkas, CreateAzoth, FillAzoth, CreateFails, FillFails, Enter, Writing
  <1>2. IsSequence(out) /\ Ordered(out)
    BY <1>1 DEF ChainInv, Welded
  <1>3. Ordered(alkas')
    <2>1. CASE CreateAlkas
      BY <2>1, EmptyOrdered DEF CreateAlkas
    <2>2. CASE FillAlkas
      BY <2>2, <1>2 DEF FillAlkas
    <2>3. CASE FillFails
      <3>1. alkas' = alkas \/ \E n \in 0 .. Len(out) : alkas' = SubSeq(out, 1, n)
        BY <2>3 DEF FillFails
      <3> QED
        BY <3>1, <1>2, PrefixOrdered DEF ChainInv
    <2>4. CASE CreateAzoth \/ FillAzoth \/ CreateFails
      BY <2>4 DEF CreateAzoth, FillAzoth, CreateFails, ChainInv, disk
    <2> QED
      BY <2>1, <2>2, <2>3, <2>4 DEF WriteFiles
  <1>4. Ordered(alkas)' /\ Welded'
    BY <1>1, <1>2, <1>3 DEF Welded, IsSequence, Ordered, Pre, Post, RulesOf, locals
  <1>5. Fresh' /\ InChain' /\ InEmit' /\ Emitted' /\ InWeld'
    BY <1>1 DEF Fresh, InChain, InEmit, Emitted, InWeld, Writing
  <1> QED
    BY <1>4, <1>5 DEF ChainInv

\* The other steps hand on what they find, or start from nothing.
LEMMA OtherStepsInv ==
  ChainInv /\ (\/ Start \/ ParseStmt \/ ParseDone \/ Inject \/ Prove \/ Mock \/ EmitRejects \/ WeldDone
               \/ AzothStep \/ AzothDone \/ Exit \/ Kill) => ChainInv'
  <1> SUFFICES ASSUME ChainInv,
                      \/ Start \/ ParseStmt \/ ParseDone \/ Inject \/ Prove \/ Mock \/ EmitRejects \/ WeldDone
                      \/ AzothStep \/ AzothDone \/ Exit \/ Kill
               PROVE  ChainInv'
    OBVIOUS
  <1>1. alkas' = alkas /\ Ordered(alkas)
    BY DEF ChainInv, Start, ParseStmt, ParseDone, Inject, Prove, Mock, MockStep, MockDone,
           EmitRejects, WeldDone, AzothStep, AzothDone, Exit, Kill, disk
  <1>2. Ordered(alkas)'
    BY <1>1 DEF Ordered, Pre, Post, RulesOf
  <1>3. CASE Start \/ ParseStmt \/ ParseDone \/ Inject
    <2>1. /\ stage' \in {"mock", "parse", "inject", "prove", "chain"}
          /\ states = {} /\ broken = FALSE /\ raw = <<>> /\ out = <<>> /\ prevSync = FALSE
          /\ UNCHANGED <<states, broken, raw, out, prevSync>>
          /\ stage' = "chain" => i' = 1
      BY <1>3 DEF ChainInv, Fresh, Start, ParseStmt, ParseDone, Inject, Enter, locals
    <2>2. InChain'
      BY <2>1 DEF InChain
    <2>3. Fresh' /\ InEmit' /\ Emitted' /\ InWeld' /\ Welded'
      BY <2>1 DEF Fresh, InEmit, Emitted, InWeld, Welded, Writing
    <2> QED
      BY <1>2, <2>2, <2>3 DEF ChainInv
  <1>4. CASE EmitRejects \/ WeldDone \/ AzothStep \/ AzothDone
    <2>1. /\ stage' \in {"rejected", "azoth", "create"}
          /\ stage' # "rejected" => stage \in {"weld", "azoth"} /\ out' = out
      BY <1>4 DEF EmitRejects, WeldDone, AzothStep, AzothDone, Enter, locals
    <2>2. Welded'
      <3>1. stage' # "rejected" => IsSequence(out) /\ Ordered(out)
        BY <2>1 DEF ChainInv, Welded
      <3>2. stage' # "rejected" => (IsSequence(out) /\ Ordered(out))'
        BY <2>1, <3>1 DEF IsSequence, Ordered, Pre, Post, RulesOf
      <3> QED
        BY <2>1, <3>2 DEF Welded, Writing
    <2> QED
      BY <1>2, <2>1, <2>2 DEF ChainInv, Fresh, InChain, InEmit, Emitted, InWeld
  <1>5. CASE Prove \/ Mock
    <2>1. stage' \in {"proved", "refuted", "failed", "mock", "mocked"} /\ UNCHANGED locals
      <3>1. CASE Prove
        BY <3>1 DEF Prove, Enter
      <3>2. CASE MockStep
        BY <3>2 DEF MockStep, Enter
      <3>3. CASE MockDone
        BY <3>3 DEF MockDone, Enter
      <3> QED
        BY <1>5, <3>1, <3>2, <3>3 DEF Mock
    <2> QED
      BY <1>2, <2>1 DEF ChainInv, Fresh, InChain, InEmit, Emitted, InWeld, Welded, Writing
  <1>6. CASE Exit \/ Kill
    BY <1>2, <1>6 DEF ChainInv, Fresh, InChain, InEmit, Emitted, InWeld, Welded, Writing,
                      Exit, Kill, Gone, Enter
  <1> QED
    BY <1>3, <1>4, <1>5, <1>6

LEMMA NextInv == ChainInv /\ [Next]_vars => ChainInv'
  <1> SUFFICES ASSUME ChainInv, [Next]_vars
               PROVE  ChainInv'
    OBVIOUS
  <1>1. CASE UNCHANGED vars
    <2>1. UNCHANGED <<stage, i, prog, states, broken, raw, out, prevSync, alkas>>
      BY <1>1 DEF vars, locals, disk
    <2>2. Fresh' /\ InWeld'
      BY <2>1 DEF ChainInv, Fresh, InWeld
    <2>3. InChain' /\ InEmit'
      <3>1. /\ \A k : InOrder(k)' <=> InOrder(k)
            /\ \A l : Establishes(prog[l])' = Establishes(prog[l])
        BY <2>1 DEF InOrder, Requires, Establishes, RulesFor
      <3>2. InChain'
        BY <2>1, <3>1 DEF ChainInv, InChain
      <3> QED
        BY <2>1, <3>1, <3>2 DEF ChainInv, InEmit
    <2>4. /\ (Ordered(raw))' <=> Ordered(raw)
          /\ (Ordered(out))' <=> Ordered(out)
          /\ (Ordered(alkas))' <=> Ordered(alkas)
      BY <2>1 DEF Ordered, Pre, Post, RulesOf
    <2>5. Emitted' /\ Welded' /\ Ordered(alkas)'
      BY <2>1, <2>4 DEF ChainInv, Emitted, Welded, Writing, IsSequence
    <2> QED
      BY <2>2, <2>3, <2>5 DEF ChainInv
  <1>2. CASE Next
    BY <1>2, ChainInstrInv, ChainDoneInv, EmitInstrInv, EmitDoneInv, WeldPacketInv,
       WriteFilesInv, OtherStepsInv DEF Next, FrontEnd, BackEnd
  <1> QED
    BY <1>1, <1>2

-----------------------------------------------------------------------------
\* The binary a compiler leaves, whatever it was given and wherever it was
\* stopped, requires nothing of the card that a packet before does not provide.
THEOREM BinaryInOrder == Spec => []BinaryOrdered
  <1>1. ChainInv => BinaryOrdered
    BY DEF ChainInv, BinaryOrdered
  <1> QED
    BY InitInv, NextInv, <1>1, PTL DEF Spec

-----------------------------------------------------------------------------
(* What the welder removes. *)

\* t is what the welder makes of the first n packets of s, sync its memory.
WeldedTo(s, n, t, sync) ==
  /\ Rank(t, Len(t)) = Rank(s, n)
  /\ \A k \in 1 .. Len(t), l \in 1 .. n :
       Access(t[k]) /\ Access(s[l]) /\ Rank(t, k) = Rank(s, l) => t[k] = s[l]
  /\ Barriers(t) = { Rank(s, l) : l \in { k \in 1 .. n : s[k].op = SYNC } }
  /\ ~Redundant(t)
  /\ \A k \in 1 .. Len(t) : t[k].op \notin Stripped
  /\ sync <=> Len(t) > 0 /\ t[Len(t)].op = SYNC

\* WeldKeepsBarriers speaks of the end of the loop, this of every packet of it.
BarrierInv ==
  /\ stage = "weld" => WeldedTo(raw, i - 1, out, prevSync)
  /\ WeldKeepsBarriers

\* Accesses are counted one by one.
LEMMA RankCounts ==
  ASSUME NEW s, NEW n \in Nat
  PROVE  /\ Rank(s, 0) = 0 /\ Rank(s, n) \in Nat
         /\ Rank(s, n + 1) = IF Access(s[n + 1]) THEN Rank(s, n) + 1 ELSE Rank(s, n)
         /\ \A k \in 0 .. n : Rank(s, k) <= Rank(s, n)
  <1> DEFINE A(k) == { j \in 1 .. k : Access(s[j]) }
  <1>1. ASSUME NEW k \in Nat
        PROVE  IsFiniteSet(A(k)) /\ Cardinality(A(k)) \in Nat
    <2>1. IsFiniteSet(1 .. k) /\ A(k) \in SUBSET (1 .. k)
      BY FS_Interval
    <2> HIDE DEF A
    <2> QED
      BY <2>1, FS_Subset, FS_CardinalityType
  <1>2. A(n + 1) = IF Access(s[n + 1]) THEN A(n) \cup {n + 1} ELSE A(n)
    OBVIOUS
  <1>3. n + 1 \notin A(n) /\ A(0) = {} /\ \A k \in 0 .. n : k \in Nat /\ A(k) \in SUBSET A(n)
    OBVIOUS
  <1>4. \A k : Rank(s, k) = Cardinality(A(k))
    BY DEF Rank
  <1> HIDE DEF A
  <1>5. Cardinality(A(n + 1)) = IF Access(s[n + 1]) THEN Cardinality(A(n)) + 1 ELSE Cardinality(A(n))
    BY <1>1, <1>2, <1>3, FS_AddElement
  <1>6. \A k \in 0 .. n : Cardinality(A(k)) <= Cardinality(A(n))
    BY <1>1, <1>3, FS_Subset
  <1> QED
    BY <1>1, <1>3, <1>4, <1>5, <1>6, FS_EmptySet

\* They are the same in sequences that agree.
LEMMA RankAgrees ==
  ASSUME NEW s, NEW t, NEW n \in Nat, \A k \in 1 .. n : s[k] = t[k]
  PROVE  \A k \in 0 .. n : Rank(s, k) = Rank(t, k)
  <1>1. ASSUME NEW k \in 0 .. n
        PROVE  { j \in 1 .. k : Access(s[j]) } = { j \in 1 .. k : Access(t[j]) }
    <2>1. \A j \in 1 .. k : s[j] = t[j]
      OBVIOUS
    <2> QED
      BY <2>1, Zenon
  <1> QED
    BY <1>1 DEF Rank

\* refineBinary, a packet that is left out: a stripped one, or a SYNC after a
\* SYNC, which has the same accesses before it.
LEMMA WeldLeaves ==
  ASSUME NEW s, NEW n \in Nat, NEW t, IsSequence(t), NEW sync,
         WeldedTo(s, n, t, sync), s[n + 1].crcok, ~Kept(s[n + 1], sync)
  PROVE  WeldedTo(s, n + 1, t, SyncAfter(s[n + 1], sync))
  <1> DEFINE p == s[n + 1]
             B(m) == { Rank(s, l) : l \in { k \in 1 .. m : s[k].op = SYNC } }
  <1>1. ~Access(p) /\ (SyncAfter(p, sync) <=> sync)
    BY DEF Kept, Access, SyncAfter
  <1>2. Rank(s, n + 1) = Rank(s, n)
    BY <1>1, RankCounts
  <1>3. Len(t) \in Nat /\ DOMAIN t = 1 .. Len(t)
    BY Appended
  <1>4. B(n + 1) = B(n)
    <2>1. CASE p.op # SYNC
      <3>1. \A k \in 1 .. n + 1 : s[k].op = SYNC => k \in 1 .. n
        BY <2>1
      <3>2. \A k \in 1 .. n : k \in 1 .. n + 1
        OBVIOUS
      <3> QED
        BY <3>1, <3>2
    <2>2. CASE p.op = SYNC
      <3>1. sync
        BY <2>2 DEF Kept, SYNC, Stripped
      <3>2. Len(t) \in Syncs(t) /\ Rank(t, Len(t)) = Rank(s, n + 1)
        BY <1>2, <1>3, <3>1 DEF WeldedTo, Syncs
      <3>3. Rank(s, n + 1) \in B(n)
        BY <3>2 DEF WeldedTo, Barriers
      <3>4. \A k \in 1 .. n + 1 : k \in 1 .. n \/ k = n + 1
        OBVIOUS
      <3>5. \A k \in 1 .. n : k \in 1 .. n + 1
        OBVIOUS
      <3> QED
        BY <3>3, <3>4, <3>5
    <2> QED
      BY <2>1, <2>2
  <1>5. \A k \in 1 .. Len(t), l \in 1 .. n + 1 :
          Access(t[k]) /\ Access(s[l]) /\ Rank(t, k) = Rank(s, l) => t[k] = s[l]
    <2>1. \A l \in 1 .. n + 1 : l \in 1 .. n \/ l = n + 1
      OBVIOUS
    <2> QED
      BY <1>1, <2>1 DEF WeldedTo
  <1> QED
    BY <1>1, <1>2, <1>4, <1>5 DEF WeldedTo

\* A packet that is kept: the next access, or a SYNC behind an access.
LEMMA WeldKeeps ==
  ASSUME NEW s, NEW n \in Nat, NEW t, IsSequence(t), NEW sync,
         WeldedTo(s, n, t, sync), Kept(s[n + 1], sync)
  PROVE  WeldedTo(s, n + 1, Append(t, s[n + 1]), SyncAfter(s[n + 1], sync))
  <1> DEFINE p == s[n + 1]
             u == Append(t, p)
             m == Len(t) + 1
  <1>1. p.op \notin Stripped /\ p.crcok /\ (Access(p) <=> p.op # SYNC) /\ (p.op = SYNC => ~sync)
        /\ (SyncAfter(p, sync) <=> p.op = SYNC)
    BY DEF Kept, Access, SyncAfter
  <1>2. /\ Len(t) \in Nat /\ DOMAIN t = 1 .. Len(t) /\ DOMAIN u = 1 .. m /\ Len(u) = m
        /\ \A k \in 1 .. Len(t) : u[k] = t[k]
        /\ u[m] = p
    BY Appended
  <1> HIDE DEF u
  <1>3. /\ \A k \in 0 .. Len(t) : Rank(u, k) = Rank(t, k)
        /\ \A k \in 0 .. Len(t) : Rank(t, k) <= Rank(t, Len(t))
        /\ \A k \in 1 .. n : Rank(s, k) <= Rank(s, n)
        /\ Rank(t, Len(t)) \in Nat /\ Rank(t, Len(t)) = Rank(s, n)
    <2>1. \A k \in 1 .. n : k \in 0 .. n
      OBVIOUS
    <2>2. \A k \in 1 .. Len(t) : t[k] = u[k]
      BY <1>2
    <2>3. \A k \in 0 .. Len(t) : Rank(t, k) = Rank(u, k)
      BY <1>2, <2>2, RankAgrees
    <2>4. /\ Rank(t, Len(t)) \in Nat
          /\ \A k \in 0 .. Len(t) : Rank(t, k) <= Rank(t, Len(t))
          /\ \A k \in 0 .. n : Rank(s, k) <= Rank(s, n)
      BY <1>2, RankCounts
    <2>5. Rank(t, Len(t)) = Rank(s, n)
      BY DEF WeldedTo
    <2> QED
      BY <2>1, <2>3, <2>4, <2>5
  <1>4. /\ Rank(u, m) = IF Access(p) THEN Rank(t, Len(t)) + 1 ELSE Rank(t, Len(t))
        /\ Rank(s, n + 1) = Rank(u, m)
    <2>1. Len(t) \in 0 .. Len(t)
      BY <1>2
    <2>2. Rank(u, Len(t)) = Rank(t, Len(t))
      BY <2>1, <1>3
    <2>3. Rank(u, Len(t) + 1) = IF Access(u[Len(t) + 1]) THEN Rank(u, Len(t)) + 1 ELSE Rank(u, Len(t))
      BY <1>2, RankCounts
    <2>4. Rank(s, n + 1) = IF Access(p) THEN Rank(s, n) + 1 ELSE Rank(s, n)
      BY RankCounts
    <2> QED
      BY <1>2, <1>3, <2>2, <2>3, <2>4
  <1>5. ASSUME NEW k \in 1 .. m, NEW l \in 1 .. n + 1, Access(u[k]), Access(s[l]), Rank(u, k) = Rank(s, l)
        PROVE  u[k] = s[l]
    <2>1. \/ k = m /\ l = n + 1
          \/ k = m /\ l \in 1 .. n
          \/ k \in 1 .. Len(t) /\ l = n + 1
          \/ k \in 1 .. Len(t) /\ l \in 1 .. n
      BY <1>2
    <2>2. ASSUME k = m, l \in 1 .. n
          PROVE  FALSE
      <3>1. Rank(u, m) = Rank(s, n) + 1 /\ Rank(s, l) <= Rank(s, n) /\ Rank(s, n) \in Nat
        BY <1>2, <1>3, <1>4, <1>5, <2>2
      <3>2. Rank(s, l) \in Nat
        BY RankCounts
      <3> QED
        BY <3>1, <3>2, <1>5, <2>2
    <2>3. ASSUME k \in 1 .. Len(t), l = n + 1
          PROVE  FALSE
      <3>1. k \in 0 .. Len(t)
        BY <1>2, <2>3
      <3>2. /\ Rank(s, n + 1) = Rank(t, Len(t)) + 1 /\ Rank(u, k) <= Rank(t, Len(t))
            /\ Rank(t, Len(t)) \in Nat
        BY <1>3, <1>4, <1>5, <2>3, <3>1
      <3>3. Rank(u, k) \in Nat
        BY <2>3, RankCounts
      <3> QED
        BY <3>2, <3>3, <1>5, <2>3
    <2>4. ASSUME k \in 1 .. Len(t), l \in 1 .. n
          PROVE  u[k] = s[l]
      <3>1. u[k] = t[k] /\ Rank(u, k) = Rank(t, k)
        BY <1>2, <1>3, <2>4
      <3> QED
        BY <3>1, <1>5, <2>4 DEF WeldedTo
    <2> QED
      BY <1>2, <2>1, <2>2, <2>3, <2>4
  <1>6. Syncs(u) = IF p.op = SYNC THEN Syncs(t) \cup {m} ELSE Syncs(t)
    <2>1. \A k \in 1 .. m : k \in 1 .. Len(t) \/ k = m
      BY <1>2
    <2>2. \A k \in 1 .. Len(t) : k \in 1 .. m
      BY <1>2
    <2>3. m \in 1 .. m /\ m \notin 1 .. Len(t)
      BY <1>2
    <2> HIDE DEF m
    <2> QED
      BY <1>2, <2>1, <2>2, <2>3 DEF Syncs
  <1>7. \A k \in Syncs(t) : k \in 1 .. Len(t) /\ Rank(u, k) = Rank(t, k)
    BY <1>2, <1>3 DEF Syncs
  <1>8. Barriers(u) = { Rank(s, l) : l \in { k \in 1 .. n + 1 : s[k].op = SYNC } }
    <2>1. Barriers(u) = IF p.op = SYNC THEN Barriers(t) \cup {Rank(u, m)} ELSE Barriers(t)
      BY <1>6, <1>7 DEF Barriers
    <2>2. { k \in 1 .. n + 1 : s[k].op = SYNC }
            = IF p.op = SYNC THEN { k \in 1 .. n : s[k].op = SYNC } \cup {n + 1}
                             ELSE { k \in 1 .. n : s[k].op = SYNC }
      <3>1. \A k \in 1 .. n + 1 : k \in 1 .. n \/ k = n + 1
        OBVIOUS
      <3>2. \A k \in 1 .. n : k \in 1 .. n + 1
        OBVIOUS
      <3>3. n + 1 \in 1 .. n + 1
        OBVIOUS
      <3> QED
        BY <3>1, <3>2, <3>3
    <2>3. Barriers(t) = { Rank(s, l) : l \in { k \in 1 .. n : s[k].op = SYNC } }
      BY DEF WeldedTo
    <2> QED
      BY <1>4, <2>1, <2>2, <2>3
  <1>9. ~Redundant(u)
    <2>1. SUFFICES ASSUME NEW k \in Syncs(u), NEW l \in Syncs(u), k # l, Rank(u, k) = Rank(u, l)
                   PROVE  FALSE
      BY DEF Redundant
    <2>2. ASSUME NEW x \in Syncs(t), p.op = SYNC, Rank(u, x) = Rank(u, m)
          PROVE  FALSE
      <3>1. x \in 1 .. Len(t) /\ t[x].op = SYNC /\ Rank(t, x) = Rank(t, Len(t))
        BY <1>1, <1>4, <1>7, <2>2 DEF Syncs
      <3>2. ~sync /\ Len(t) > 0
        BY <1>1, <1>2, <2>2, <3>1
      <3>3. Access(t[Len(t)]) /\ x # Len(t)
        <4>1. Len(t) \in 1 .. Len(t)
          BY <1>2, <3>2
        <4> QED
          BY <3>1, <3>2, <4>1 DEF WeldedTo, Access
      <3>4. Len(t) - 1 \in Nat /\ x \in 0 .. Len(t) - 1 /\ (Len(t) - 1) + 1 = Len(t)
        <4>1. Len(t) \in Nat /\ Len(t) > 0 /\ x \in 1 .. Len(t) /\ x # Len(t)
          BY <1>2, <3>1, <3>2, <3>3
        <4> QED
          BY <4>1
      <3>5. Rank(t, Len(t)) = Rank(t, Len(t) - 1) + 1 /\ Rank(t, x) <= Rank(t, Len(t) - 1)
            /\ Rank(t, Len(t) - 1) \in Nat
        BY <3>3, <3>4, RankCounts
      <3>6. Rank(t, x) \in Nat
        BY <3>4, RankCounts
      <3> QED
        BY <3>1, <3>5, <3>6
    <2>3. CASE k \in Syncs(t) /\ l \in Syncs(t)
      BY <1>7, <2>1, <2>3 DEF WeldedTo, Redundant
    <2>4. CASE k \notin Syncs(t) \/ l \notin Syncs(t)
      <3> HIDE DEF m
      <3> QED
        BY <1>6, <2>1, <2>2, <2>4
    <2> QED
      BY <2>3, <2>4
  <1>10. \A k \in 1 .. m : u[k].op \notin Stripped
    <2>1. \A k \in 1 .. m : k \in 1 .. Len(t) \/ k = m
      BY <1>2
    <2> HIDE DEF m
    <2> QED
      BY <1>1, <1>2, <2>1 DEF WeldedTo
  <1>11. SyncAfter(p, sync) <=> Len(u) > 0 /\ u[Len(u)].op = SYNC
    BY <1>1, <1>2
  <1>12. WeldedTo(s, n + 1, u, SyncAfter(p, sync))
    <2> HIDE DEF p
    <2> QED
      BY <1>2, <1>4, <1>5, <1>8, <1>9, <1>10, <1>11 DEF WeldedTo
  <1> QED
    BY <1>12 DEF u

\* Nothing in, nothing out.
LEMMA WeldStarts ==
  ASSUME NEW s
  PROVE  WeldedTo(s, 0, <<>>, FALSE)
  <1>1. Len(<<>>) = 0 /\ DOMAIN <<>> = {} /\ Rank(s, 0) = 0 /\ Rank(<<>>, 0) = 0
    BY RankCounts
  <1>2. Syncs(<<>>) = {} /\ { k \in 1 .. 0 : s[k].op = SYNC } = {}
    BY <1>1 DEF Syncs
  <1> QED
    BY <1>1, <1>2 DEF WeldedTo, Barriers, Redundant

\* Once all the packets are welded.
LEMMA WeldEnds ==
  ASSUME NEW s, IsSequence(s), NEW t, IsSequence(t), NEW sync, WeldedTo(s, Len(s), t, sync)
  PROVE  SameAccesses(t, s) /\ Barriers(t) = Barriers(s) /\ ~Redundant(t)
  <1>1. DOMAIN s = 1 .. Len(s) /\ DOMAIN t = 1 .. Len(t)
    BY Appended
  <1> QED
    BY <1>1 DEF WeldedTo, SameAccesses, Barriers, Syncs

LEMMA BarrierNext == ChainInv /\ BarrierInv /\ [Next]_vars => BarrierInv'
  <1> SUFFICES ASSUME ChainInv, BarrierInv, [Next]_vars PROVE BarrierInv'
    OBVIOUS
  <1>b. WeldedTo(raw, i - 1, out, prevSync)' <=> WeldedTo(raw', i' - 1, out', prevSync')
    BY DEF WeldedTo, Rank, Access, Barriers, Syncs, Redundant
  <1>a. WeldKeepsBarriers' <=>
           (stage' \in {"azoth"} \cup Writing =>
             SameAccesses(out', raw') /\ Barriers(out') = Barriers(raw') /\ ~Redundant(out'))
    BY DEF WeldKeepsBarriers, SameAccesses, Rank, Access, Barriers, Syncs, Redundant, Writing
  <1>1. CASE EmitDone
    <2>1. stage' = "weld" /\ i' = 1 /\ out' = <<>> /\ prevSync' = FALSE
      BY <1>1 DEF EmitDone, Enter, locals, ChainInv, Fresh
    <2>2. i' - 1 = 0
      BY <2>1
    <2>3. WeldedTo(raw', i' - 1, out', prevSync')
      BY <2>1, <2>2, WeldStarts
    <2>4. WeldedTo(raw, i - 1, out, prevSync)'
      BY <1>b, <2>3
    <2> QED
      BY <2>1, <2>4 DEF BarrierInv, WeldKeepsBarriers, Writing
  <1>2. CASE WeldPacket
    <2>1. /\ stage = "weld" /\ stage' = "weld" /\ i' = i + 1 /\ i \in DOMAIN raw /\ raw' = raw
          /\ out' = IF Kept(raw[i], prevSync) THEN Append(out, raw[i]) ELSE out
          /\ prevSync' = SyncAfter(raw[i], prevSync)
      BY <1>2 DEF WeldPacket
    <2>2. /\ IsSequence(raw) /\ IsSequence(out) /\ raw[i].crcok
          /\ WeldedTo(raw, i - 1, out, prevSync)
      BY <2>1 DEF ChainInv, Emitted, Welded, BarrierInv
    <2>3. i - 1 \in Nat /\ (i - 1) + 1 = i /\ (i + 1) - 1 = i
      <3>1. i \in 1 .. Len(raw) /\ Len(raw) \in Nat
        BY <2>1, <2>2, Appended
      <3> QED
        BY <3>1
    <2>4. raw[(i - 1) + 1] = raw[i] /\ raw[(i - 1) + 1].crcok
      BY <2>2, <2>3
    <2>5. WeldedTo(raw, (i - 1) + 1, out', prevSync')
      <3>1. CASE Kept(raw[i], prevSync)
        BY <2>1, <2>2, <2>3, <2>4, <3>1, WeldKeeps
      <3>2. CASE ~Kept(raw[i], prevSync)
        BY <2>1, <2>2, <2>3, <2>4, <3>2, WeldLeaves
      <3> QED
        BY <3>1, <3>2
    <2>6. WeldedTo(raw, i - 1, out, prevSync)'
      BY <1>b, <2>1, <2>3, <2>5
    <2> QED
      BY <2>1, <2>6 DEF BarrierInv, WeldKeepsBarriers, Writing
  <1>3. CASE WeldDone
    <2>1. stage = "weld" /\ stage' = "azoth" /\ UNCHANGED <<raw, out>> /\ i \notin DOMAIN raw
      BY <1>3 DEF WeldDone, Enter, locals
    <2>2. /\ IsSequence(raw) /\ IsSequence(out) /\ i \in 1 .. Len(raw) + 1
          /\ WeldedTo(raw, i - 1, out, prevSync)
      BY <2>1 DEF ChainInv, Emitted, Welded, InWeld, BarrierInv
    <2>3. i - 1 = Len(raw)
      BY <2>1, <2>2, Appended
    <2>4. SameAccesses(out, raw) /\ Barriers(out) = Barriers(raw) /\ ~Redundant(out)
      BY <2>2, <2>3, WeldEnds
    <2>5. WeldKeepsBarriers'
      BY <1>a, <2>1, <2>4
    <2> QED
      BY <2>1, <2>5 DEF BarrierInv
  <1>4. CASE AzothStep \/ AzothDone \/ WriteFiles
    <2>1. /\ stage \in {"azoth"} \cup Writing /\ stage' # "weld" /\ UNCHANGED <<raw, out>>
      BY <1>4 DEF AzothStep, AzothDone, WriteFiles, CreateAlkas, FillAlkas, CreateAzoth, FillAzoth,
         CreateFails, FillFails, Enter, Writing, locals
    <2>2. SameAccesses(out, raw) /\ Barriers(out) = Barriers(raw) /\ ~Redundant(out)
      BY <2>1 DEF BarrierInv, WeldKeepsBarriers
    <2>3. WeldKeepsBarriers'
      BY <1>a, <2>1, <2>2
    <2> QED
      BY <2>1, <2>3 DEF BarrierInv
  <1>5. CASE UNCHANGED vars
    <2>1. UNCHANGED <<stage, i, raw, out, prevSync>>
      BY <1>5 DEF vars, locals
    <2>2. /\ (WeldedTo(raw, i - 1, out, prevSync))' <=> WeldedTo(raw, i - 1, out, prevSync)
          /\ WeldKeepsBarriers' <=> WeldKeepsBarriers
      BY <1>b, <1>a, <2>1 DEF WeldKeepsBarriers
    <2> QED
      BY <2>1, <2>2 DEF BarrierInv
  <1>6. CASE Start \/ FrontEnd \/ EmitInstr \/ EmitRejects \/ Mock \/ Exit \/ Kill
    <2>1. stage' \notin {"weld", "azoth"} \cup Writing
      BY <1>6 DEF Start, FrontEnd, ParseStmt, ParseDone, Inject, Prove, ChainInstr, ChainDone,
         EmitInstr, EmitRejects, Mock, MockStep, MockDone, Exit, Kill, Gone, Enter, Writing
    <2> QED
      BY <2>1 DEF BarrierInv, WeldKeepsBarriers
  <1> QED
    BY <1>1, <1>2, <1>3, <1>4, <1>5, <1>6 DEF Next, BackEnd

\* The welder leaves every access and every barrier it must, for any program
\* (refineBinary).
THEOREM BarriersAreKept == Spec => []WeldKeepsBarriers
  <1>1. Init => BarrierInv
    BY DEF Init, BarrierInv, WeldKeepsBarriers, Writing
  <1>2. BarrierInv => WeldKeepsBarriers
    BY DEF BarrierInv
  <1> QED
    BY InitInv, NextInv, <1>1, <1>2, BarrierNext, PTL DEF Spec

-----------------------------------------------------------------------------
(* What the two files hold, and what the mock is given of it. *)

\* A packet of an instruction, with flags.
Emittable(p) == p.op \in { Opcode[n] : n \in DOMAIN Opcode } /\ "flags" \in DOMAIN p

\* What the welder lets through, and what the rollback generator makes of it.
Binary(s)   == IsSequence(s) /\ \A k \in DOMAIN s : Emittable(s[k]) /\ s[k].op \notin Stripped
Rollback(s) == IsSequence(s) /\ \A k \in DOMAIN s : "AZOTH" \in s[k].flags

\* A card that is not being simulated is a fresh one.
Resting == stage \notin {"mock", "mocked"} \/ mode = "mock azoth" => gpu = GpuStart

FilesInv ==
  /\ stage \in {"emit", "weld"} => IsSequence(raw) /\ \A k \in DOMAIN raw : Emittable(raw[k])
  /\ stage \in {"weld", "azoth"} \cup Writing => Binary(out)
  /\ Rollback(az) /\ Binary(alkas) /\ Rollback(azoth)
  /\ Resting

-----------------------------------------------------------------------------
LEMMA EmptyFiles == Binary(<<>>) /\ Rollback(<<>>)
  BY EmptyOrdered DEF Binary, Rollback

LEMMA CutShort ==
  ASSUME NEW s, NEW n \in 0 .. Len(s)
  PROVE  /\ Binary(s) => Binary(SubSeq(s, 1, n))
         /\ Rollback(s) => Rollback(SubSeq(s, 1, n))
  <1> DEFINE t == SubSeq(s, 1, n)
  <1>1. IsSequence(s) => IsSequence(t) /\ \A k \in DOMAIN t : k \in DOMAIN s /\ t[k] = s[k]
    <2> SUFFICES ASSUME IsSequence(s)
                 PROVE  IsSequence(t) /\ \A k \in DOMAIN t : k \in DOMAIN s /\ t[k] = s[k]
      OBVIOUS
    <2>1. Len(s) \in Nat /\ DOMAIN s = 1 .. Len(s) /\ \A k \in 1 .. Len(s) : s[k] \in Range(s)
      BY LenProperties, ElementOfSeq DEF IsSequence
    <2>2. t \in Seq(Range(s)) /\ Len(t) = n /\ \A k \in 1 .. n : t[k] = s[k]
      BY <2>1, SubSeqProperties
    <2>3. DOMAIN t = 1 .. n
      BY <2>2, LenProperties
    <2>4. IsSequence(t)
      BY <2>2, SeqOfRange DEF IsSequence
    <2> QED
      BY <2>1, <2>2, <2>3, <2>4
  <1> QED
    BY <1>1 DEF Binary, Rollback

LEMMA GrownBinary ==
  ASSUME NEW s, Binary(s), NEW p, Emittable(p), p.op \notin Stripped
  PROVE  Binary(Append(s, p))
  BY Appended DEF Binary

\* generateAzothPacket marks what it makes.
LEMMA Marks ==
  ASSUME NEW p, "flags" \in DOMAIN p
  PROVE  "AZOTH" \in AzothPacket(p).flags
  BY DEF AzothPacket

LEMMA GrownRollback ==
  ASSUME NEW s, Rollback(s), NEW p, "AZOTH" \in p.flags
  PROVE  Rollback(Append(s, p))
  BY Appended DEF Rollback

-----------------------------------------------------------------------------
LEMMA FilesInit == Init => FilesInv
  BY EmptyFiles DEF Init, FilesInv, Resting, Writing

LEMMA FrontEndFiles == ChainInv /\ FilesInv /\ (Start \/ FrontEnd) => FilesInv'
  <1> SUFFICES ASSUME ChainInv, FilesInv, Start \/ FrontEnd PROVE FilesInv'
    OBVIOUS
  <1>1. /\ UNCHANGED <<raw, out, az, alkas, azoth, gpu>>
        /\ stage' = "emit" => raw = <<>>
        /\ stage' \in {"mock", "parse", "inject", "prove", "chain", "emit", "rejected", "proved",
                       "refuted", "failed"}
    BY DEF ChainInv, Fresh, Start, FrontEnd, ParseStmt, ParseDone, Inject, Prove, ChainInstr,
       ChainDone, Enter, locals, disk
  <1>2. gpu = GpuStart
    BY DEF FilesInv, Resting, Start, FrontEnd, ParseStmt, ParseDone, Inject, Prove, ChainInstr,
       ChainDone
  <1> QED
    BY <1>1, <1>2, EmptyOrdered DEF FilesInv, Resting, Writing, Binary, Rollback, IsSequence, Emittable

LEMMA BackEndFiles == ChainInv /\ FilesInv /\ BackEnd => FilesInv'
  <1> SUFFICES ASSUME ChainInv, FilesInv, BackEnd PROVE FilesInv'
    OBVIOUS
  <1>1. /\ UNCHANGED <<gpu, mode, alkas, azoth>> /\ stage \in {"emit", "weld", "azoth"}
        /\ stage' \in {"emit", "rejected", "weld", "azoth", "create"}
    BY DEF BackEnd, EmitInstr, EmitRejects, EmitDone, WeldPacket, WeldDone, AzothStep, AzothDone,
       Enter, inputs, disk
  <1>2. Resting' /\ Binary(alkas)' /\ Rollback(azoth)'
    BY <1>1 DEF FilesInv, Resting, Binary, Rollback, IsSequence, Emittable
  <1>3. CASE EmitInstr
    <2> DEFINE p == EmitPacket(prog[i], vial)
    <2>1. Emittable(p)
      BY <1>3 DEF EmitInstr, Accepted, EmitPacket, Emittable
    <2>2. IsSequence(raw) /\ raw' = Append(raw, p) /\ stage' = "emit" /\ UNCHANGED <<out, az>>
      BY <1>3 DEF EmitInstr, FilesInv
    <2>3. IsSequence(raw') /\ \A k \in DOMAIN raw' : Emittable(raw'[k])
      BY <1>3, <2>1, <2>2, Appended DEF EmitInstr, FilesInv
    <2> QED
      BY <1>2, <2>2, <2>3 DEF FilesInv, Writing, Rollback, IsSequence, Emittable
  <1>4. CASE WeldPacket
    <2>1. /\ stage = "weld" /\ stage' = "weld" /\ UNCHANGED <<raw, az>> /\ i \in DOMAIN raw
          /\ Emittable(raw[i])
          /\ out' = IF Kept(raw[i], prevSync) THEN Append(out, raw[i]) ELSE out
      BY <1>4 DEF WeldPacket, FilesInv
    <2>2. Binary(out')
      BY <2>1, GrownBinary DEF Kept, FilesInv
    <2> QED
      BY <1>2, <2>1, <2>2 DEF FilesInv, Writing, Binary, Rollback, IsSequence, Emittable
  <1>5. CASE AzothStep
    <2>1. /\ stage = "azoth" /\ stage' = "azoth" /\ out' = out /\ i \in DOMAIN out /\ Binary(out)
      BY <1>5 DEF AzothStep, FilesInv
    <2>2. Emittable(Backwards(out, i))
      <3>1. Len(out) + 1 - i \in DOMAIN out
        BY <2>1, LenProperties DEF Binary, IsSequence
      <3> QED
        BY <2>1, <3>1 DEF Backwards, Binary
    <2>3. Rollback(az')
      BY <1>5, <2>2, Marks, GrownRollback DEF AzothStep, Emittable, FilesInv
    <2> QED
      BY <1>2, <2>1, <2>3 DEF FilesInv, Writing, Binary, Rollback, IsSequence, Emittable
  <1>6. CASE EmitDone
    <2>1. out = <<>> /\ UNCHANGED <<raw, out, az>> /\ stage = "emit" /\ stage' = "weld"
      BY <1>6 DEF EmitDone, Enter, ChainInv, Fresh, locals
    <2> QED
      BY <1>2, <2>1, EmptyFiles DEF FilesInv, Writing, Binary, Rollback, IsSequence, Emittable
  <1>7. CASE EmitRejects \/ WeldDone \/ AzothDone
    <2>1. UNCHANGED <<raw, out, az>> /\ stage' \in {"rejected", "azoth", "create"}
          /\ (stage' # "rejected" => stage \in {"weld", "azoth"})
      BY <1>7 DEF EmitRejects, WeldDone, AzothDone, Enter, locals
    <2> QED
      BY <1>2, <2>1 DEF FilesInv, Writing, Binary, Rollback, IsSequence, Emittable
  <1> QED
    BY <1>3, <1>4, <1>5, <1>6, <1>7 DEF BackEnd

\* A rollback file has nothing for the mock to run.
LEMMA MockFiles == FilesInv /\ Mock => FilesInv'
  <1> SUFFICES ASSUME FilesInv, Mock PROVE FilesInv'
    OBVIOUS
  <1>1. /\ UNCHANGED <<mode, az, alkas, azoth>> /\ stage' \in {"mock", "mocked"}
    BY DEF Mock, MockStep, MockDone, Enter, inputs, locals, disk
  <1>2. mode = "mock azoth" => gpu' = gpu
    BY DEF Mock, MockStep, MockDone, MockFile, FilesInv, Rollback
  <1> QED
    BY <1>1, <1>2 DEF FilesInv, Resting, Writing, Binary, Rollback, IsSequence, Emittable

LEMMA WriteFilesFiles == FilesInv /\ WriteFiles => FilesInv'
  <1> SUFFICES ASSUME FilesInv, WriteFiles PROVE FilesInv'
    OBVIOUS
  <1>1. /\ stage \in Writing /\ stage' \in Writing \cup {"done", "failed"}
        /\ UNCHANGED <<mode, gpu, out, az>>
    BY DEF WriteFiles, CreateAlkas, FillAlkas, CreateAzoth, FillAzoth, CreateFails, FillFails,
       Enter, Writing, inputs, locals
  <1>2. Binary(out) /\ Rollback(az) /\ Binary(alkas) /\ Rollback(azoth)
    BY <1>1 DEF FilesInv
  <1>3. Binary(alkas') /\ Rollback(azoth')
    <2>1. CASE FillFails
      <3>1. /\ alkas' = alkas \/ \E n \in 0 .. Len(out) : alkas' = SubSeq(out, 1, n)
            /\ azoth' = azoth \/ \E n \in 0 .. Len(az) : azoth' = SubSeq(az, 1, n)
        BY <2>1 DEF FillFails
      <3> QED
        BY <1>2, <3>1, CutShort
    <2>2. CASE ~FillFails
      BY <1>2, <2>2, EmptyFiles DEF WriteFiles, CreateAlkas, FillAlkas, CreateAzoth, FillAzoth,
         CreateFails, disk
    <2> QED
      BY <2>1, <2>2
  <1> QED
    BY <1>1, <1>2, <1>3 DEF FilesInv, Resting, Writing, Binary, Rollback, IsSequence, Emittable

LEMMA FilesNext == ChainInv /\ FilesInv /\ [Next]_vars => FilesInv'
  <1> SUFFICES ASSUME ChainInv, FilesInv, [Next]_vars PROVE FilesInv'
    OBVIOUS
  <1>1. CASE Exit \/ Kill
    <2>1. /\ stage' = "idle" /\ gpu' = GpuStart /\ az' = <<>> /\ UNCHANGED <<alkas, azoth>>
      BY <1>1 DEF Exit, Kill, Gone, Enter, disk
    <2> QED
      BY <2>1, EmptyFiles DEF FilesInv, Resting, Writing, Binary, Rollback, IsSequence, Emittable
  <1>2. CASE UNCHANGED vars
    BY <1>2 DEF vars, inputs, locals, disk, FilesInv, Resting, Binary, Rollback, IsSequence, Emittable
  <1> QED
    BY <1>1, <1>2, FrontEndFiles, BackEndFiles, MockFiles, WriteFilesFiles DEF Next

LEMMA FilesInvariance == Spec => []FilesInv
  BY InitInv, NextInv, FilesInit, FilesNext, PTL DEF Spec

-----------------------------------------------------------------------------
\* If every instruction but those the welder strips is a case of executePacket,
\* no binary, whole or cut short, has a packet the mock calls unknown.
THEOREM BinaryIsKnown ==
  ASSUME \A n \in DOMAIN Opcode : Opcode[n] \in MockOpcodes \cup Stripped
  PROVE  Spec => []MockKnowsBinary
  <1>1. FilesInv => MockKnowsBinary
    BY DEF FilesInv, Binary, Emittable, MockKnowsBinary
  <1> QED
    BY <1>1, FilesInvariance, PTL

\* A rollback file, of whichever run, executes nothing on a card (--mock).
THEOREM RollbackRunsNothing == Spec => []RollbackAloneRunsNothing
  <1>1. FilesInv => RollbackAloneRunsNothing
    <2>1. GpuStart.count = 0
      BY DEF GpuStart
    <2> QED
      BY <2>1 DEF FilesInv, Resting, RollbackAloneRunsNothing
  <1> QED
    BY <1>1, FilesInvariance, PTL

-----------------------------------------------------------------------------
(* The two files belong together. *)

\* t undoes the packets of s from the n-th on.
UndoesFrom(t, s, n) ==
  /\ Len(t) = Cardinality(RolledFrom(s, n))
  /\ \A k \in RolledFrom(s, n) : t[Cardinality(RolledFrom(s, k))] = AzothPacket(s[k])

\* PairedFiles says nothing of the rollback that is being generated, backwards,
\* nor of a binary whose rollback file is still to be written.
PairInv ==
  /\ stage \in ({"idle"} \cup Compiling) \ {"azoth"} => az = <<>>
  /\ stage = "azoth" => i \in 1 .. Len(out) + 1 /\ UndoesFrom(az, out, Len(out) + 2 - i)
  /\ stage \in Writing => Undoes(az, out)
  /\ stage \in Writing \ {"create"} => writing
  /\ stage \in {"create azoth", "fill azoth"} => alkas = out
  /\ PairedFiles

\* The packets from the n-th on are the n-th and those from the next on.
LEMMA RolledCounts ==
  ASSUME NEW s, IsSequence(s), NEW n \in 1 .. Len(s) + 1
  PROVE  /\ IsFiniteSet(RolledFrom(s, n)) /\ Cardinality(RolledFrom(s, n)) \in Nat
         /\ n = Len(s) + 1 => RolledFrom(s, n) = {} /\ Cardinality(RolledFrom(s, n)) = 0
         /\ \A k \in RolledFrom(s, n) : Cardinality(RolledFrom(s, k)) \in 1 .. Cardinality(RolledFrom(s, n))
  <1>1. Len(s) \in Nat /\ n \in Nat
    BY Appended
  <1>2. ASSUME NEW k \in 1 .. Len(s) + 1
        PROVE  IsFiniteSet(RolledFrom(s, k)) /\ Cardinality(RolledFrom(s, k)) \in Nat
    <2>1. IsFiniteSet(k .. Len(s))
      BY <1>1, FS_Interval
    <2>2. RolledFrom(s, k) \in SUBSET (k .. Len(s))
      BY DEF RolledFrom
    <2> QED
      BY <2>1, <2>2, FS_Subset, FS_CardinalityType
  <1>3. n = Len(s) + 1 => RolledFrom(s, n) = {} /\ Cardinality(RolledFrom(s, n)) = 0
    <2>1. n = Len(s) + 1 => RolledFrom(s, n) = {}
      BY <1>1 DEF RolledFrom
    <2> QED
      BY <2>1, FS_EmptySet
  <1>4. ASSUME NEW k \in RolledFrom(s, n)
        PROVE  Cardinality(RolledFrom(s, k)) \in 1 .. Cardinality(RolledFrom(s, n))
    <2>1. k \in n .. Len(s) /\ k \in 1 .. Len(s) + 1
      BY <1>1 DEF RolledFrom
    <2>2. RolledFrom(s, k) \in SUBSET RolledFrom(s, n) /\ k \in RolledFrom(s, k)
      BY <1>1, <2>1 DEF RolledFrom
    <2>3. Cardinality(RolledFrom(s, k)) <= Cardinality(RolledFrom(s, n))
      BY <1>2, <2>2, FS_Subset
    <2>4. Cardinality(RolledFrom(s, k)) # 0
      BY <1>2, <2>1, <2>2, FS_EmptySet
    <2> QED
      BY <1>2, <2>1, <2>3, <2>4
  <1> QED
    BY <1>2, <1>3, <1>4

\* generateAzothBinary, one packet: its counterpart comes last.
LEMMA UndoesMore ==
  ASSUME NEW s, IsSequence(s), NEW t, IsSequence(t), NEW n \in 1 .. Len(s),
         UndoesFrom(t, s, n + 1)
  PROVE  UndoesFrom(IF s[n].op \in NotRolledBack THEN t ELSE Append(t, AzothPacket(s[n])), s, n)
  <1>1. Len(s) \in Nat /\ n \in Nat /\ n + 1 \in 1 .. Len(s) + 1 /\ n \in 1 .. Len(s) + 1
    BY Appended
  <1>2. /\ IsFiniteSet(RolledFrom(s, n + 1))
        /\ \A k \in RolledFrom(s, n + 1) : Cardinality(RolledFrom(s, k)) \in 1 .. Cardinality(RolledFrom(s, n + 1))
    BY <1>1, RolledCounts
  <1>3. CASE s[n].op \in NotRolledBack
    <2>1. RolledFrom(s, n) = RolledFrom(s, n + 1)
      BY <1>1, <1>3 DEF RolledFrom
    <2> QED
      BY <1>3, <2>1 DEF UndoesFrom
  <1>4. CASE s[n].op \notin NotRolledBack
    <2> DEFINE u == Append(t, AzothPacket(s[n]))
    <2>1. RolledFrom(s, n) = RolledFrom(s, n + 1) \cup {n} /\ n \notin RolledFrom(s, n + 1)
      BY <1>1, <1>4 DEF RolledFrom
    <2>2. Cardinality(RolledFrom(s, n)) = Len(t) + 1
      BY <1>2, <2>1, FS_AddElement DEF UndoesFrom
    <2>3. Len(u) = Len(t) + 1 /\ u[Len(t) + 1] = AzothPacket(s[n]) /\ \A m \in 1 .. Len(t) : u[m] = t[m]
      BY Appended
    <2>4. \A k \in RolledFrom(s, n + 1) : u[Cardinality(RolledFrom(s, k))] = AzothPacket(s[k])
      BY <1>2, <2>3 DEF UndoesFrom
    <2> HIDE DEF u
    <2>5. UndoesFrom(u, s, n)
      BY <2>1, <2>2, <2>3, <2>4 DEF UndoesFrom
    <2> QED
      BY <1>4, <2>5 DEF u
  <1> QED
    BY <1>3, <1>4

LEMMA NothingToUndo ==
  ASSUME NEW s, IsSequence(s)
  PROVE  UndoesFrom(<<>>, s, Len(s) + 1) /\ Undoes(<<>>, <<>>)
  <1>1. Len(s) \in Nat /\ Len(s) + 1 \in 1 .. Len(s) + 1
    BY Appended
  <1>2. RolledFrom(s, Len(s) + 1) = {} /\ RolledFrom(<<>>, 1) = {} /\ Cardinality({}) = 0
    BY <1>1, FS_EmptySet DEF RolledFrom
  <1> QED
    BY <1>2 DEF UndoesFrom, Undoes

LEMMA PairInit == Init => PairInv
  BY NothingToUndo, EmptyOrdered DEF Init, PairInv, PairedFiles, Writing, Compiling

LEMMA FrontEndPair == PairInv /\ (Start \/ FrontEnd) => PairInv'
  <1> SUFFICES ASSUME PairInv, Start \/ FrontEnd PROVE PairInv'
    OBVIOUS
  <1>1. /\ UNCHANGED <<az, alkas, azoth, writing>> /\ stage \in ({"idle"} \cup Compiling) \ {"azoth"}
        /\ stage' \in {"mock", "parse", "inject", "prove", "chain", "emit", "rejected", "proved",
                       "refuted", "failed"}
    BY DEF Start, FrontEnd, ParseStmt, ParseDone, Inject, Prove, ChainInstr,
       ChainDone, Enter, locals, disk, Compiling
  <1>2. az = <<>> /\ PairedFiles
    BY <1>1 DEF PairInv
  <1> QED
    BY <1>1, <1>2 DEF PairInv, PairedFiles, Undoes, RolledFrom, Writing, Compiling

LEMMA AzothStepPair == FilesInv /\ PairInv /\ AzothStep => PairInv'
  <1> SUFFICES ASSUME FilesInv, PairInv, AzothStep PROVE PairInv'
    OBVIOUS
  <1> DEFINE n == Len(out) + 1 - i
  <1>1. /\ stage = "azoth" /\ stage' = "azoth" /\ UNCHANGED <<out, alkas, azoth, writing>>
        /\ i' = i + 1 /\ i \in DOMAIN out
        /\ az' = IF out[n].op \in NotRolledBack THEN az ELSE Append(az, AzothPacket(out[n]))
    BY DEF AzothStep, Backwards, disk
  <1>2. /\ IsSequence(out) /\ IsSequence(az) /\ PairedFiles
        /\ UndoesFrom(az, out, Len(out) + 2 - i)
    BY <1>1 DEF FilesInv, PairInv, Binary, Rollback, Writing
  <1>3. Len(out) \in Nat /\ i \in 1 .. Len(out)
    BY <1>1, <1>2, Appended
  <1>4. n \in 1 .. Len(out) /\ Len(out) + 2 - i = n + 1 /\ Len(out) + 2 - (i + 1) = n
        /\ i + 1 \in 1 .. Len(out) + 1
    BY <1>3
  <1>5. UndoesFrom(az', out, n)
    <2> HIDE DEF n
    <2> QED
      BY <1>1, <1>2, <1>4, UndoesMore
  <1>6. UndoesFrom(az, out, Len(out) + 2 - i)'
    BY <1>1, <1>4, <1>5 DEF UndoesFrom, RolledFrom
  <1> QED
    BY <1>1, <1>2, <1>4, <1>6 DEF PairInv, PairedFiles, Undoes, RolledFrom, Writing, Compiling

LEMMA BackEndPair == FilesInv /\ PairInv /\ BackEnd => PairInv'
  <1> SUFFICES ASSUME FilesInv, PairInv, BackEnd PROVE PairInv'
    OBVIOUS
  <1>1. CASE EmitInstr \/ EmitRejects \/ EmitDone \/ WeldPacket
    <2>1. /\ stage \in {"emit", "weld"} /\ stage' \in {"emit", "rejected", "weld"}
          /\ UNCHANGED <<az, alkas, azoth, writing>>
      BY <1>1 DEF EmitInstr, EmitRejects, EmitDone, WeldPacket, Enter, locals, disk
    <2> QED
      BY <2>1 DEF PairInv, PairedFiles, Undoes, RolledFrom, Writing, Compiling
  <1>2. CASE WeldDone
    <2>1. /\ stage = "weld" /\ stage' = "azoth" /\ i' = 1 /\ IsSequence(out) /\ az = <<>>
          /\ UNCHANGED <<az, alkas, azoth, writing, out>>
      BY <1>2 DEF WeldDone, Enter, locals, disk, FilesInv, PairInv, Binary, Compiling
    <2>2. Len(out) \in Nat /\ Len(out) + 2 - 1 = Len(out) + 1
      BY <2>1, Appended
    <2>3. UndoesFrom(az, out, Len(out) + 2 - i)'
      BY <2>1, <2>2, NothingToUndo DEF UndoesFrom, RolledFrom
    <2> QED
      BY <2>1, <2>2, <2>3 DEF PairInv, PairedFiles, Undoes, RolledFrom, Writing, Compiling
  <1>3. CASE AzothDone
    <2>1. /\ stage = "azoth" /\ stage' = "create" /\ i \in 1 .. Len(out) + 1 /\ i \notin DOMAIN out
          /\ IsSequence(out) /\ UndoesFrom(az, out, Len(out) + 2 - i)
          /\ UNCHANGED <<az, alkas, azoth, writing, out>>
      BY <1>3 DEF AzothDone, Enter, locals, disk, FilesInv, PairInv, Binary, Writing
    <2>2. Len(out) + 2 - i = 1
      BY <2>1, Appended
    <2>3. Undoes(az, out)
      BY <2>1, <2>2 DEF UndoesFrom, Undoes
    <2> QED
      BY <2>1, <2>3 DEF PairInv, PairedFiles, Undoes, RolledFrom, Writing, Compiling
  <1> QED
    BY <1>1, <1>2, <1>3, AzothStepPair DEF BackEnd

LEMMA WriteFilesPair == PairInv /\ WriteFiles => PairInv'
  <1> SUFFICES ASSUME PairInv, WriteFiles PROVE PairInv'
    OBVIOUS
  <1>1. stage \in Writing /\ UNCHANGED <<out, az>> /\ Undoes(az, out) /\ (Undoes(az, out))'
    BY DEF PairInv, WriteFiles, CreateAlkas, FillAlkas, CreateAzoth, FillAzoth, CreateFails, FillFails,
       Enter, Writing, locals, Undoes, RolledFrom
  <1>2. CASE CreateAlkas
    BY <1>1, <1>2 DEF CreateAlkas, Enter, PairInv, PairedFiles, Writing, Compiling
  <1>3. CASE FillAlkas
    BY <1>1, <1>3 DEF FillAlkas, Enter, PairInv, PairedFiles, Writing, Compiling
  <1>4. CASE CreateAzoth
    BY <1>1, <1>4 DEF CreateAzoth, Enter, PairInv, PairedFiles, Writing, Compiling
  <1>5. CASE FillAzoth
    <2>1. stage' = "done" /\ alkas' = out /\ azoth' = az
      BY <1>5 DEF FillAzoth, Enter, PairInv
    <2>2. PairedFiles'
      BY <1>1, <2>1 DEF PairedFiles, Undoes, RolledFrom
    <2> QED
      BY <2>1, <2>2 DEF PairInv, Writing, Compiling
  <1>6. CASE FillFails
    <2>1. stage' = "failed" /\ writing' = writing /\ writing
      BY <1>6 DEF FillFails, Enter, PairInv, Writing
    <2> QED
      BY <2>1 DEF PairInv, PairedFiles, Writing, Compiling
  <1>7. CASE CreateFails
    <2>1. stage' = "failed" /\ UNCHANGED <<alkas, azoth, writing>>
      BY <1>7 DEF CreateFails, Enter, disk
    <2> QED
      BY <2>1 DEF PairInv, PairedFiles, Undoes, RolledFrom, Writing, Compiling
  <1> QED
    BY <1>2, <1>3, <1>4, <1>5, <1>6, <1>7 DEF WriteFiles

LEMMA PairNext == FilesInv /\ PairInv /\ [Next]_vars => PairInv'
  <1> SUFFICES ASSUME FilesInv, PairInv, [Next]_vars PROVE PairInv'
    OBVIOUS
  <1>1. CASE Exit \/ Kill
    <2>1. /\ stage' = "idle" /\ az' = <<>> /\ UNCHANGED <<alkas, azoth, writing>>
      BY <1>1 DEF Exit, Kill, Gone, Enter, disk
    <2> QED
      BY <2>1 DEF PairInv, PairedFiles, Undoes, RolledFrom, Writing, Compiling
  <1>2. CASE Mock
    <2>1. stage' \in {"mock", "mocked"} /\ UNCHANGED <<alkas, azoth, writing>>
      BY <1>2 DEF Mock, MockStep, MockDone, Enter, disk
    <2> QED
      BY <2>1 DEF PairInv, PairedFiles, Undoes, RolledFrom, Writing, Compiling
  <1>3. CASE UNCHANGED vars
    <2>1. UNCHANGED <<stage, i, out, az, alkas, azoth, writing>>
      BY <1>3 DEF vars, locals, disk
    <2>2. /\ (UndoesFrom(az, out, Len(out) + 2 - i))' <=> UndoesFrom(az, out, Len(out) + 2 - i)
          /\ (Undoes(az, out))' <=> Undoes(az, out)
          /\ PairedFiles' <=> PairedFiles
      BY <2>1 DEF UndoesFrom, PairedFiles, Undoes, RolledFrom
    <2> QED
      BY <2>1, <2>2 DEF PairInv
  <1> QED
    BY <1>1, <1>2, <1>3, FrontEndPair, BackEndPair, WriteFilesPair DEF Next

\* Unless a run was cut short while it rewrote them, the rollback file undoes
\* exactly the binary beside it, last packet first (generateAzothBinary and the
\* order of the two writes in compile).
THEOREM FilesArePaired == Spec => []PairedFiles
  <1>1. PairInv => PairedFiles
    BY DEF PairInv
  <1> QED
    BY <1>1, InitInv, NextInv, FilesInit, FilesNext, PairInit, PairNext, PTL DEF Spec
=============================================================================
