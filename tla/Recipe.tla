------------------------------- MODULE Recipe -------------------------------
(***************************************************************************)
(* parseProgram of src/compiler/alkac.zig: from the statements of a recipe *)
(* to instructions.  A statement is what stands between two newlines or    *)
(* semicolons, as the words the parser tells apart; the spelling of names  *)
(* and numbers is left out.                                                *)
(***************************************************************************)
EXTENDS Naturals, Sequences, SequencesExt

\* The words after the first one.  A member is ".BAR1"; a number is a literal
\* or a memory size, already multiplied by its unit.
Num(v)  == [tok |-> "num",    val |-> v, id |-> ""]
Word(s) == [tok |-> "word",   val |-> 0, id |-> s]
Member  == [tok |-> "member", val |-> 0, id |-> ""]
Arrow   == [tok |-> "arrow",  val |-> 0, id |-> "->"]
Slashes == [tok |-> "slashes", val |-> 0, id |-> "//"]

WordKinds == {"num", "word", "member", "arrow", "slashes"}
Token     == [tok : WordKinds, val : Nat, id : STRING]

\* Statements: a comment or REQUIRE; "!!" followed by words; "!!NAME ...";
\* "NAME ..."; "NAME! ...".
Comment         == [form |-> "skip",   name |-> "",   args |-> <<>>]
Marker(args)    == [form |-> "marker", name |-> "!!", args |-> args]
Glued(n, args)  == [form |-> "glued",  name |-> n,    args |-> args]
Plain(n, args)  == [form |-> "plain",  name |-> n,    args |-> args]
Forced(n, args) == [form |-> "forced", name |-> n,    args |-> args]

Forms     == {"skip", "marker", "glued", "plain", "forced"}
Statement == [form : Forms, name : STRING, args : Seq(Token)]

\* parseOperand: what is not a member and not a number is an identifier, a
\* "//" included.  evalOperand of an operand o is o.val.
Operand(t) == IF t.tok = "slashes" THEN Word(t.id) ELSE t

Operands(words) ==
  FlattenSeq([k \in DOMAIN words |->
    IF words[k].tok = "arrow" THEN <<>> ELSE <<Operand(words[k])>>])

\* An inline override reads its operands up to a comment.
BeforeComment(words) ==
  LET k == SelectInSeq(words, LAMBDA t : t.tok = "slashes")
  IN  IF k = 0 THEN words ELSE SubSeq(words, 1, k - 1)

Instruction == [name : STRING, operands : Seq(Token), force : BOOLEAN, override : BOOLEAN]
Instr(name, operands, force, override) ==
  [name |-> name, operands |-> operands, force |-> force, override |-> override]

\* "!!" alone, or with nothing but a comment, is for the next instruction.
Announces(st) == st.form = "marker" /\ (st.args = <<>> \/ Head(st.args).tok = "slashes")

\* What a statement adds to the program, given whether a "!!" is pending.
Parsed(st, pending) ==
  CASE st.form = "skip" \/ Announces(st) -> <<>>
    [] st.form = "marker" /\ ~Announces(st) ->
         <<Instr(Head(st.args).id, Operands(BeforeComment(Tail(st.args))), FALSE, TRUE)>>
    [] st.form = "glued" ->
         <<Instr(st.name, Operands(BeforeComment(st.args)), FALSE, TRUE)>>
    [] OTHER ->
         <<Instr(st.name, Operands(st.args), st.form = "forced", pending)>>

\* Mutant: pending_override is not cleared by the instruction it is for.
PendingAfterSticky(st, pending) == Announces(st) \/ pending

\* Whether a "!!" is pending after the statement.
PendingAfter(st, pending) ==
  \/ Announces(st)
  \/ st.form = "skip" /\ pending
=============================================================================
