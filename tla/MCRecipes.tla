------------------------------ MODULE MCRecipes ------------------------------
(* Recipes, vials and jobs for the runs of the compiler.  Scale: a page is 2,  *)
(* the largest aperture 8, 32 bits hold 16 values and 64 bits hold 64.  The    *)
(* mock has 8 units of VRAM and goes from temperature 3 to 16, its limit 14.   *)
EXTENDS Recipe, Vial, Drops, ChainRules

N(v) == Num(v)
Hashes == [n \in {"GPU", "CARD", "DISK", "DONE", "//", "text", "0"} |-> 7]

\* A card with one aperture; the MAX_WINDOW inside its block is not read.
CardVial ==
  << NameLine("Vessel", "GPU"), ValueLine("PCI_ID", 5), ValueLine("comment", 0),
     Line("Aperture"), ValueLine("SIZE", 1), ValueLine("BAR", 1), ValueLine("SIZE", 4),
     ValueLine("MAX_WINDOW", 2), Line("}"),
     Line("Thermal"), ValueLine("HALT_AT", 6), Line("}"), Line("}") >>

\* Two vessels: a window wider than the aperture, a limit that does not parse,
\* a throttle limit, a Memory block that ends its vessel.
PairVial ==
  << NameLine("Vessel", "GPU"), ValueLine("MAX_WINDOW", 3), ValueLine("PCI_ID", 5),
     Line("Aperture"), ValueLine("BAR", 0), ValueLine("SIZE", 2), Line("}"),
     Line("Aperture"), ValueLine("BAR", 1), ValueLine("SIZE", 4), Line("}"),
     ValueLine("MAX_WINDOW", 8),
     Line("Thermal"), ValueLine("HALT_AT", 4), ValueLine("THROTTLE_AT", 3), Line("}"), Line("}"),
     NameLine("Vessel", "DISK"), Line("Memory"), Line("}"), ValueLine("PCI_ID", 9), Line("}"),
     NameLine("Vessel", "CARD"), ValueLine("PCI_ID", 6),
     Line("Thermal"), BadLine("HALT_AT"), Line("}"), Line("}") >>

\* The same vessel twice: the second block replaces the first.
TwiceVial ==
  << NameLine("Vessel", "GPU"), Line("Aperture"), ValueLine("BAR", 1), ValueLine("SIZE", 8),
     Line("}"), Line("}"),
     NameLine("Vessel", "GPU"), ValueLine("PCI_ID", 5), Line("Thermal"), BadLine("HALT_AT"),
     Line("Memory"), Line("}"), Line("}") >>

Run(s, v, m) == [src |-> s, vial |-> v, mode |-> m]

ClaimGpu == Plain("CLAIM", <<Word("GPU")>>)
BindGpu  == Forced("BIND", <<Word("GPU")>>)
Shift0   == Plain("SHIFT", <<N(0)>>)
Flow(s)  == Plain("FLOW", <<N(0), Arrow, N(0), N(s)>>)
Sync     == Plain("SYNC", <<>>)

\* Every order of the instructions that require or establish a state, and of
\* what the welder strips, after a CLAIM or not.
OrderWords ==
  { ClaimGpu, Shift0, Flow(2), Sync, Plain("DRY_RUN", <<N(1)>>), Plain("SNAP", <<N(1)>>),
    Plain("REVERT", <<N(1), N(1)>>), Plain("FENCE", <<N(1)>>) }
OrderJobs ==
  { Run(s, CardVial, "compile") : s \in BoundedSeq(OrderWords, 3) }
  \cup { Run(<<ClaimGpu, Shift0>> \o s, CardVial, "compile") : s \in TupleOf(OrderWords, 3) }

\* Every way to write an override, over transfers the window does not admit.
OverrideWords ==
  { Comment, Marker(<<>>), Marker(<<Slashes, Word("text")>>),
    Marker(<<Word("FLOW"), N(0), N(0), N(9), Slashes, Word("text")>>),
    Glued("FLOW", <<N(0), N(0), N(9)>>), Flow(9), Flow(2), Flow(17),
    Plain("FLOW", <<N(0), N(0), N(9), Slashes, Word("text")>>), Plain("SYNC", <<N(9)>>) }
OverrideJobs ==
  { Run(<<BindGpu, Shift0>> \o s, CardVial, "compile") : s \in BoundedSeq(OverrideWords, 3) }

\* Each tool at the edges of what it accepts.
Edges(n, S) == { Plain(n, s) : s \in S }
Ns(S) == { <<N(v)>> : v \in S }
Third(S) == { <<N(0), N(0), N(v)>> : v \in S }
Second(S) == { <<N(1), N(v)>> : v \in S }
Short == { <<>>, <<N(1)>>, <<N(1), N(1)>>, <<N(1), N(1), N(1)>> }
EdgeWords ==
  UNION { Edges(n, Short) : n \in DOMAIN InstructionSet }
  \cup Edges("FLOW", Third({0, 1, 4, 5, 8, 16, 18}) \cup { <<N(61), N(0), N(4)>>, <<N(0), N(62), N(2)>> })
  \cup Edges("SLICE", { <<N(0), N(t), N(s)>> : t \in {0, 1, 63}, s \in {0, 2, 4, 5, 16, 20} } \cup Second({5, 63}))
  \cup Edges("SHIFT", Ns({1, 4, 8, 10}) \cup { <<Member, N(4), N(4)>> })
  \cup Edges("FENCE", Ns({0, 5, 6}) \cup { <<Word("GPU"), N(1)>> })
  \cup Edges("SIGNAL", Ns({0, 15, 16}) \cup { <<Word("DONE")>> })
  \cup Edges("LIMIT", Second({4, 5, 6, 7, 17}) \cup { <<Word("GPU"), N(9)>>, <<Word("text"), N(9)>> })
  \cup Edges("GUARD", Third({4, 5, 6, 7, 17}))
  \cup Edges("PIPE", Third({0, 4, 5, 16}))
  \cup Edges("TUNNEL", Third({0, 4, 5, 8}))
  \cup Edges("STAKE", { <<N(59), N(1)>>, <<N(60), N(1)>>, <<N(1), N(0)>>, <<N(0), N(1)>> })
  \cup Edges("WIPE", { <<N(1), N(0)>>, <<N(0), N(1)>> })
  \cup Edges("POKE", { <<N(0), N(1)>>, <<N(1), N(15)>>, <<N(1), N(16)>> })
  \cup Edges("AFFINITY", Ns({3, 4})) \cup Edges("COORDINATE", Third({2, 3}))
  \cup Edges("SUSPEND", Second({3, 4})) \cup Edges("SENSE", Ns({9, 10}))
  \cup Edges("PULSE", Second({0})) \cup Edges("RHYTHM", Second({0}))
  \cup Edges("CLAIM", { <<Word("DISK")>>, <<Word("CARD")>> }) \cup Edges("BIND", { <<Word("DISK")>> })
  \cup Edges("TRANSMUTE", Short)
EdgeJobs ==
  { Run(<<ClaimGpu, Shift0, Plain("SNAP", <<N(1)>>), w>>, v, "compile")
      : w \in EdgeWords, v \in {CardVial, PairVial, TwiceVial} }

InjectJobs ==
  { Run(s, v, "inject") :
      s \in { <<BindGpu, Shift0, Sync>>, <<BindGpu, Shift0, Flow(2)>>, <<ClaimGpu>>,
              <<Plain("STAKE", <<N(1), N(1)>>)>>, <<Plain("SNAP", <<N(1)>>)>> },
      v \in {CardVial, PairVial} }

\* What the prover looks at, in every order, and a FLOW beyond 32 bits.
ProveWords ==
  { ClaimGpu, Plain("LIMIT", <<N(0), N(4)>>), Flow(2), Flow(4), Glued("FLOW", <<N(0), N(0), N(25)>>),
    Plain("FENCE", <<N(1)>>), Plain("SIGNAL", <<N(1)>>), Plain("REFRACT", <<N(0), N(1), N(9)>>) }
ProveJobs ==
  { Run(<<BindGpu, Shift0>> \o s, v, "compile") : s \in TupleOf(ProveWords, 3), v \in {CardVial, PairVial} }
  \cup { Run(s, CardVial, "prove") : s \in BoundedSeq(ProveWords, 2) }

AllJobs == ProveJobs \cup OrderJobs \cup OverrideJobs \cup EdgeJobs \cup InjectJobs

\* The user corrects the recipe and compiles again, over the old files.
Versions ==
  { Run(<<ClaimGpu, Shift0, Flow(2), Sync>>, CardVial, "compile"),
    Run(<<ClaimGpu, Flow(2)>>, CardVial, "compile"),
    Run(<<BindGpu, Plain("PROVE", <<N(1)>>)>>, CardVial, "compile"),
    Run(<<>>, CardVial, "compile") }

\* What the mock's card reacts to, compiled and simulated.
MockRun0(m) == Run(<<>>, <<>>, m)
MockWords ==
  { Flow(2), Plain("FLOW", <<N(0), N(7), N(2)>>), Plain("LIMIT", <<N(0), N(4)>>),
    Plain("LIMIT", <<N(0), N(6)>>), Plain("RESET", <<N(1)>>), Sync,
    Plain("FENCE", <<Word("GPU"), N(1)>>) }
MockSessions ==
  { <<Run(<<BindGpu, Shift0>> \o s, CardVial, "compile"), MockRun0("mock")>> :
      s \in TupleOf(MockWords, 3) }
  \cup { <<Run(<<BindGpu, Shift0, w>>, CardVial, "compile"), MockRun0("mock azoth")>> : w \in MockWords }

AllSessions == { <<j>> : j \in AllJobs } \cup TupleOf(Versions, 3) \cup MockSessions

\* The handbook's second chunk, and a recipe with a transfer to be made safe.
ProveSessions  ==
  { <<Run(<<BindGpu, Shift0, Plain("LIMIT", <<N(0), N(4)>>), Glued("FLOW", <<N(0), N(0), N(25)>>)>>,
          CardVial, "compile")>> }
InjectSessions == { <<Run(<<BindGpu, Shift0, Flow(2)>>, CardVial, "inject")>> }
=============================================================================
