------------------------------- MODULE Prover -------------------------------
(***************************************************************************)
(* src/prover/smt.zig: the constraints --prove writes for Z3, and what Z3  *)
(* makes of them.  A constraint that is not well-sorted is an error Z3     *)
(* reports before it goes on without it.                                   *)
(***************************************************************************)
EXTENDS Drops

\* WIN_0_0: the first aperture of the first vessel.  A figure of more than 32
\* bits is written with more than eight digits, so the constant is not defined.
FirstWindow(vial) ==
  IF vial.vessels = <<>> \/ Head(vial.vessels).apertures = <<>> THEN {}
  ELSE LET a == Head(Head(vial.vessels).apertures)
       IN  { w \in IF a.max = {} THEN a.size ELSE a.max : w < W32 }

\* (assert (bvule size WIN_0_0)), for a size of 32 bits and a window.
TooWide(operands, vial) ==
  operands[3].val < W32 /\ \E w \in FirstWindow(vial) : operands[3].val > w

NoneNamed(prog, n, S) == \A j \in S : prog[j].name # n

\* Mutant: a SIGNAL anywhere will do for a FENCE.
RefutedAnySignal(prog, k, vial) ==
  LET o == prog[k].operands
      n == prog[k].name
  IN  \/ n = "CLAIM" /\ ~NoneNamed(prog, "CLAIM", 1 .. k - 1)
      \/ n = "FLOW" /\ Len(o) >= 3 /\ (TooWide(o, vial) \/ NoneNamed(prog, "LIMIT", 1 .. k - 1))
      \/ n = "REFRACT" /\ Len(o) >= 3 /\ TooWide(o, vial)
      \/ n = "FENCE" /\ NoneNamed(prog, "SIGNAL", DOMAIN prog)

\* An assertion that fails at the k-th instruction.  No instruction is called
\* REFRACT any more.
Refuted(prog, k, vial) ==
  LET o == prog[k].operands
      n == prog[k].name
  IN  \/ n = "CLAIM" /\ ~NoneNamed(prog, "CLAIM", 1 .. k - 1)
      \/ n = "FLOW" /\ Len(o) >= 3 /\ (TooWide(o, vial) \/ NoneNamed(prog, "LIMIT", 1 .. k - 1))
      \/ n = "REFRACT" /\ Len(o) >= 3 /\ TooWide(o, vial)
      \/ n = "FENCE" /\ NoneNamed(prog, "SIGNAL", k + 1 .. Len(prog))

\* "PASSED - All safety constraints satisfied"
Proved(prog, vial) == \A k \in DOMAIN prog : ~Refuted(prog, k, vial)
=============================================================================
