----------------------------- MODULE AlkaOpcodes -----------------------------
(***************************************************************************)
(* The opcode numbers of vitriol_alka.h and the dispatch table             *)
(* opcode_handlers of vitriol_alka_ioctls.c.                               *)
(*                                                                         *)
(* Both files name three opcodes twice.  The preprocessor keeps the last   *)
(* #define of a macro, and C keeps the last designated initialiser of an   *)
(* array element, so what the driver dispatches is computed here from the  *)
(* two lists in source order, not copied from the comments beside them.    *)
(***************************************************************************)
EXTENDS Naturals, Sequences

Opcodes == 0 .. 255

\* A table entry the initialiser does not mention.
NULL == "NULL"

\* The #defines of vitriol_alka.h, in order, that the driver or the rollback
\* generator refers to.  (The others are names without a handler.)
OpcodeDefines == <<
  <<"CLAIM",    1>>, <<"STAKE",    2>>, <<"FLOW",     3>>, <<"SHIFT",   4>>,
  <<"FENCE",    5>>, <<"SYNC",     6>>, <<"SENSE",    7>>, <<"PULSE",   8>>,
  <<"SIGNAL",   9>>, <<"YIELD",   10>>, <<"RECAST",  11>>, <<"SNAP",   12>>,
  <<"REVERT",  13>>, <<"LIMIT",   14>>, <<"CLAIM",   15>>, <<"RHYTHM", 17>>,
  <<"SNAP",    20>>, <<"ECHO",    23>>, <<"STASIS",  24>>, <<"PERSIST",27>>,
  <<"POKE",    28>>, <<"RESET",   29>>, <<"INJECT",  30>>, <<"WIPE",   31>>,
  <<"ABDUCT",  32>>, <<"GHOST",   36>>, <<"FLUX",    42>>, <<"AUDIT",  43>>,
  <<"DRY_RUN", 44>>, <<"MOCK",    45>>, <<"PROVE",   46>>, <<"WATCH",  47>>,
  <<"TRACE",   48>>, <<"GUARD",   49>>, <<"ISOLATE", 50>>, <<"VERIFY", 51>>,
  <<"AFFINITY",52>>, <<"TUNNEL",  53>>, <<"SUSPEND", 54>>, <<"COORDINATE",55>>,
  <<"COORDINATE",56>>, <<"DIRECT",57>>, <<"BIND",    58>>, <<"SLICE",  59>>,
  <<"PIPE",    60>> >>

\* The designated initialisers of opcode_handlers, in order.  Every handler
\* that logs and returns 0 is op_noop: stake, sync, pulse, signal, yield,
\* recast, stasis, fossilize, strike, forge, void, flux, dry_run, mock, prove,
\* watch, trace, verify, ossify, bond, still, resonate, oscillate, imc_hijack
\* and rhythm.
Initialisers == <<
  <<"CLAIM",  "op_claim">>,  <<"STAKE",   "op_noop">>,  <<"FLOW",   "op_flow">>,
  <<"SHIFT",  "op_shift">>,  <<"FENCE",   "op_fence">>, <<"SYNC",   "op_noop">>,
  <<"SENSE",  "op_sense">>,  <<"PULSE",   "op_noop">>,  <<"SIGNAL", "op_noop">>,
  <<"YIELD",  "op_noop">>,   <<"RECAST",  "op_noop">>,  <<"SNAP",   "op_snap">>,
  <<"REVERT", "op_revert">>, <<"LIMIT",   "op_limit">>, <<"CLAIM",  "op_veil">>,
  <<"SNAP",   "op_molt">>,   <<"ECHO",    "op_echo">>,  <<"STASIS", "op_noop">>,
  <<"PERSIST","op_noop">>,   <<"POKE",    "op_noop">>,  <<"RESET",  "op_quench">>,
  <<"INJECT", "op_noop">>,   <<"WIPE",    "op_noop">>,  <<"FLUX",   "op_noop">>,
  <<"AUDIT",  "op_audit">>,  <<"DRY_RUN", "op_noop">>,  <<"MOCK",   "op_noop">>,
  <<"PROVE",  "op_noop">>,   <<"WATCH",   "op_noop">>,  <<"TRACE",  "op_noop">>,
  <<"GUARD",  "op_guard">>,  <<"ISOLATE", "op_isolate">>, <<"VERIFY", "op_noop">>,
  <<"AFFINITY","op_noop">>,  <<"TUNNEL",  "op_noop">>,  <<"SUSPEND","op_noop">>,
  <<"COORDINATE","op_noop">>, <<"COORDINATE","op_noop">>, <<"DIRECT","op_noop">>,
  <<"BIND",   "op_occupy">>, <<"SLICE",   "op_refract">>, <<"PIPE", "op_pipe">> >>

\* The value a macro has once the header is read: its last #define.
MacroValue(m) ==
  LET at == { i \in DOMAIN OpcodeDefines : OpcodeDefines[i][1] = m }
  IN  OpcodeDefines[CHOOSE i \in at : \A j \in at : j <= i][2]

\* opcode_handlers as the compiler builds it: the last initialiser of op.
HandlersAsBuilt ==
  [op \in Opcodes |->
     LET at == { i \in DOMAIN Initialisers : MacroValue(Initialisers[i][1]) = op }
     IN  IF at = {} THEN NULL
         ELSE Initialisers[CHOOSE i \in at : \A j \in at : j <= i][2]]

\* The table the comments above the handlers in vitriol_alka_ops.c describe:
\* CLAIM (0x01), SNAP (0x0C) and COORDINATE (0x37) each keep their own number,
\* which is also the number alka_bin.zig emits.
HandlersAsNumbered ==
  [HandlersAsBuilt EXCEPT ![1] = "op_claim", ![12] = "op_snap", ![55] = "op_noop"]

Handlers == { Initialisers[i][2] : i \in DOMAIN Initialisers } \cup { NULL }
=============================================================================
