--------------------------- MODULE SafetyInjector ---------------------------
(***************************************************************************)
(* src/compiler/safety_injector.zig: the instructions --inject adds.       *)
(***************************************************************************)
EXTENDS Recipe, Vial

\* The rules Injector.init appends, in order; "" is null.
InjectionRule(on, before, after, operands) ==
  [on |-> on, before |-> before, after |-> after, operands |-> operands]

InjectionRules == <<
  InjectionRule("CLAIM",  "GUARD",   "",       <<1>>),
  InjectionRule("FLOW",   "FENCE",   "SYNC",   <<>>),
  InjectionRule("FLOW",   "",        "SYNC",   <<>>),
  InjectionRule("OCCUPY", "ISOLATE", "",       <<>>),
  InjectionRule("STAKE",  "LIMIT",   "",       <<2>>),
  InjectionRule("FORGE",  "GUARD",   "",       <<3>>),
  InjectionRule("STRIKE", "GUARD",   "AUDIT",  <<4>>),
  InjectionRule("BOND",   "FENCE",   "",       <<>>),
  InjectionRule("BOND",   "",        "VERIFY", <<>>) >>

\* What is injected has the name of an instruction: the literals are strings,
\* which the provers are not told otherwise.
ASSUME LiteralsAssumption ==
  {"", "CLAIM", "FLOW", "OCCUPY", "STAKE", "FORGE", "STRIKE", "BOND",
   "GUARD", "FENCE", "SYNC", "ISOLATE", "LIMIT", "AUDIT", "VERIFY", "SENSE"} \subseteq STRING

Injected(name, values) ==
  Instr(name, [k \in DOMAIN values |-> Num(values[k])], FALSE, FALSE)

\* The instructions the matching rules put on a side ("before" or "after").
Around(name, side) ==
  LET Of(r) == IF r.on = name /\ r[side] # "" THEN <<Injected(r[side], r.operands)>> ELSE <<>>
  IN  FlattenSeq([k \in DOMAIN InjectionRules |-> Of(InjectionRules[k])])

\* inject, for one instruction: its own copy loses "!" and "!!".
WithRules(instr) ==
  Around(instr.name, "before")
    \o <<[instr EXCEPT !.force = FALSE, !.override = FALSE]>>
    \o Around(instr.name, "after")

InjectRules(prog) == FlattenSeq([k \in DOMAIN prog |-> WithRules(prog[k])])

Throttle(v) == UNION { t.throttle : t \in v.thermal }
Checks(v) ==
  IF Throttle(v) = {} THEN <<>>
  ELSE <<Injected("SENSE", <<7>>), Injected("LIMIT", <<CHOOSE h \in Throttle(v) : TRUE>>)>>

\* injectThermalChecks: per vessel with a THROTTLE_AT, a SENSE and a LIMIT at
\* the very start, so those of the last vessel come first.
InjectThermal(prog, vial) ==
  FlattenSeq([k \in DOMAIN vial.vessels |-> Checks(vial.vessels[Len(vial.vessels) + 1 - k])])
    \o prog
=============================================================================
