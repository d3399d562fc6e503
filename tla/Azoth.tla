-------------------------------- MODULE Azoth --------------------------------
(***************************************************************************)
(* The rollback batch of src/codegen/alka_bin.zig: the compiler derives it *)
(* from the forward batch, packet by packet, last packet first.            *)
(***************************************************************************)
EXTENDS Naturals, Sequences, SequencesExt

\* DRY_RUN, MOCK and PROVE have no counterpart.
NotRolledBack == {44, 45, 46}

\* generateAzothPacket: the counterpart of an opcode, by number.  An opcode
\* that is not listed is its own counterpart.
AzothOp(op) ==
  CASE op = 1  -> 13      \* CLAIM    -> REVERT
    [] op = 2  -> 32      \* STAKE    -> ABDUCT
    [] op = 3  -> 31      \* FLOW     -> WIPE
    [] op = 15 -> 36      \* VEIL     -> GHOST
    [] op = 28 -> 31      \* POKE     -> WIPE
    [] op = 29 -> 11      \* RESET    -> RECAST
    [] op = 52 -> 10      \* AFFINITY -> YIELD
    [] op = 53 -> 42      \* TUNNEL   -> FLUX
    [] op = 58 -> 1       \* BIND     -> CLAIM
    [] OTHER   -> op

\* Mutant: the counterpart is not marked as a rollback packet.
AzothPacketUnmarked(p) ==
  LET q == [p EXCEPT !.op = AzothOp(p.op), !.crcok = TRUE]
  IN  IF p.op = 4 THEN [q EXCEPT !.src = p.dst, !.dst = p.src] ELSE q

\* The counterpart of a packet: flagged, a SHIFT with its addresses swapped,
\* its CRC recomputed.
AzothPacket(p) ==
  LET q == [p EXCEPT !.op = AzothOp(p.op), !.flags = @ \cup {"AZOTH"}, !.crcok = TRUE]
  IN  IF p.op = 4 THEN [q EXCEPT !.src = p.dst, !.dst = p.src] ELSE q

\* generateAzothBinary
AzothBatch(s) ==
  LET Counterpart(p) == IF p.op \in NotRolledBack THEN <<>> ELSE <<AzothPacket(p)>>
  IN  FlattenSeq([k \in DOMAIN s |-> Counterpart(s[Len(s) + 1 - k])])
=============================================================================
