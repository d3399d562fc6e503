----------------------------- MODULE Compilation -----------------------------
(***************************************************************************)
(* What a recipe is compiled to, said of the whole recipe at once, without *)
(* loops or state, and the claim that Alkac compiles to just that.         *)
(***************************************************************************)
EXTENDS AlkacProps

\* A "!!" stands above the p-th statement with nothing but comments between.
Awaited(s, p) ==
  \E q \in 1 .. p - 1 : Announces(s[q]) /\ \A r \in q + 1 .. p - 1 : s[r].form = "skip"

\* The instructions of the first n statements.
Instructions(s, n) == FlattenSeq([p \in 1 .. n |-> Parsed(s[p], Awaited(s, p))])

Program(j) ==
  LET p == Instructions(j.src, Len(j.src))
  IN  IF j.mode = "inject" THEN InjectThermal(InjectRules(p), j.vial) ELSE p

\* The k-th packet does not follow a SYNC, but for packets that are stripped.
Apart(s, k) == \A l \in 1 .. k - 1 : s[l].op = SYNC => \E m \in l + 1 .. k - 1 : Access(s[m])

\* What is left of the first n packets.
Refined(s, n) ==
  LET Left(k) == Access(s[k]) \/ (s[k].op = SYNC /\ Apart(s, k))
  IN  FlattenSeq([k \in 1 .. n |-> IF Left(k) THEN <<s[k]>> ELSE <<>>])

BinaryOf(j) ==
  LET p == Program(j)
      s == [k \in DOMAIN p |-> EmitPacket(p[k], j.vial)]
  IN  Refined(s, Len(s))

-----------------------------------------------------------------------------
ReadRequest(r) == [src |-> r.src, vial |-> ParseVial(r.vial), mode |-> r.mode]
IsCompiled(j)  == j.mode \in {"compile", "inject"} /\ Compiles(Program(j), j.vial)
Files(j)       == <<BinaryOf(j), AzothBatch(BinaryOf(j))>>

Pair == INSTANCE FilePair WITH
  Read <- ReadRequest, Passes <- IsCompiled, Result <- Files,
  job  <- IF stage = "idle" THEN {} ELSE {[src |-> src, vial |-> vial, mode |-> mode]},
  done <- stage = "done",
  pair <- IF writing THEN {} ELSE {<<alkas, azoth>>}

\* The passes, each a loop over what the one before it left, come to what the
\* recipe says: the files change only for a recipe every part of which passes,
\* to the binary and rollback of that recipe, and success is reported only then.
FilesAreCompiled == Pair!Spec
=============================================================================
