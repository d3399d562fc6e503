-------------------------------- MODULE Vial --------------------------------
(***************************************************************************)
(* parseVial of src/compiler/alkac.zig, line by line, and what             *)
(* validateWithTools makes of the result.  An optional field of the code   *)
(* is a set with at most one member.                                       *)
(***************************************************************************)
EXTENDS Naturals, Sequences, SequencesExt, FiniteSetsExt

\* A line: its keyword, the name or the number that follows, and whether
\* parseInt accepts the number ("85" but not "85C").
Line(k)          == [key |-> k, name |-> "", val |-> 0, ok |-> TRUE]
NameLine(k, n)   == [key |-> k, name |-> n,  val |-> 0, ok |-> TRUE]
ValueLine(k, v)  == [key |-> k, name |-> "", val |-> v, ok |-> TRUE]
BadLine(k)       == [key |-> k, name |-> "", val |-> 0, ok |-> FALSE]

Keys == {"Vessel", "Aperture", "Thermal", "Memory", "}", "BAR", "SIZE", "HALT_AT",
         "THROTTLE_AT", "PCI_ID", "MAX_WINDOW", "comment"}
VialText == [key : Keys, name : STRING, val : Nat, ok : BOOLEAN]

\* std.fmt.parseInt(...) catch 0, with the unit applied.
ValueOf(l) == IF l.ok THEN l.val ELSE 0

\* DMA_CAPABLE and BLOCK_DEVICE are left out: nothing is done with them.
NoVessel == [pci |-> {}, apertures |-> <<>>, thermal |-> {}]

\* The state of the parser: vessels in the order of their first line, the
\* vessel and the block it is in.
VialStart == [names |-> <<>>, vessels |-> <<>>, cur |-> {}, block |-> "none"]

\* StringArrayHashMap.put: a second vessel of a name replaces the first in place.
PutVessel(s, n) ==
  LET at == SelectInSeq(s.names, LAMBDA m : m = n)
  IN  IF at = 0
      THEN [s EXCEPT !.names = Append(@, n), !.vessels = Append(@, NoVessel), !.cur = {n}]
      ELSE [s EXCEPT !.vessels[at] = NoVessel, !.cur = {n}]

\* "}": it closes the aperture or thermal block; any other block's brace
\* (Memory) ends the vessel.
Close(s) == IF s.block = "none" THEN [s EXCEPT !.cur = {}] ELSE [s EXCEPT !.block = "none"]

ThermalLine(v, l) ==
  LET t == IF v.thermal = {} THEN [halt |-> {}, throttle |-> {}]
                             ELSE CHOOSE u \in v.thermal : TRUE
  IN  [v EXCEPT !.thermal =
         { CASE l.key = "HALT_AT"     -> [t EXCEPT !.halt = {ValueOf(l)}]
             [] l.key = "THROTTLE_AT" -> [t EXCEPT !.throttle = {ValueOf(l)}]
             [] OTHER -> t }]

\* BAR starts the aperture; a SIZE before it goes to the one before.
ApertureLine(v, l) ==
  LET last == Len(v.apertures)
  IN  CASE l.key = "BAR" ->
             [v EXCEPT !.apertures = Append(@, [max |-> {}, size |-> {}])]
        [] l.key = "SIZE" /\ last > 0 ->
             [v EXCEPT !.apertures[last].size = {ValueOf(l)}]
        [] OTHER -> v

\* MAX_WINDOW is only read here, outside the block of its aperture.
VesselLine(v, l) ==
  LET last == Len(v.apertures)
  IN  CASE l.key = "PCI_ID" -> [v EXCEPT !.pci = {ValueOf(l)}]
        [] l.key = "MAX_WINDOW" /\ last > 0 ->
             [v EXCEPT !.apertures[last].max = {ValueOf(l)}]
        [] OTHER -> v

VialLine(s, l) ==
  LET at == SelectInSeq(s.names, LAMBDA m : m \in s.cur)
  IN  CASE l.key = "Vessel"   -> PutVessel(s, l.name)
        [] l.key = "Aperture" -> [s EXCEPT !.block = "aperture"]
        [] l.key = "Thermal"  -> [s EXCEPT !.block = "thermal"]
        [] l.key = "}"        -> Close(s)
        [] OTHER ->
             IF l.key = "comment" \/ at = 0 THEN s ELSE
             [s EXCEPT !.vessels[at] =
                CASE s.block = "thermal"  -> ThermalLine(@, l)
                  [] s.block = "aperture" -> ApertureLine(@, l)
                  [] OTHER -> VesselLine(@, l)]

ParseVial(lines) ==
  LET read[n \in 0 .. Len(lines)] ==
        IF n = 0 THEN VialStart ELSE VialLine(read[n - 1], lines[n])
  IN  read[Len(lines)]

-----------------------------------------------------------------------------
(* What the tools are told of the vial: one figure over all its vessels,   *)
(* and the limit of the last vessel that states one.                       *)
Apertures(vial) == UNION { ToSet(vial.vessels[i].apertures) : i \in DOMAIN vial.vessels }

ApertureSize(vial) == Max({0} \cup UNION { a.size : a \in Apertures(vial) })

\* An aperture's window is its MAX_WINDOW, or its size.
ApertureMax(vial) ==
  Max({0} \cup UNION { IF a.max = {} THEN a.size ELSE a.max : a \in Apertures(vial) })

Halts(v) == UNION { t.halt : t \in v.thermal }

ThermalHalt(vial) ==
  LET at == SelectLastInSeq(vial.vessels, LAMBDA v : Halts(v) # {})
  IN  IF at = 0 THEN 0 ELSE CHOOSE h \in Halts(vial.vessels[at]) : TRUE

ToolContext(vial) ==
  [apertureSize |-> ApertureSize(vial), apertureMax |-> ApertureMax(vial),
   thermalLimit |-> ThermalHalt(vial)]

\* The PCI id of the vessel of a name: {} when there is no such vessel, or none.
PciOf(vial, n) ==
  LET at == SelectInSeq(vial.names, LAMBDA m : m = n)
  IN  IF at = 0 THEN {} ELSE vial.vessels[at].pci
=============================================================================
