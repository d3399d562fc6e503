---------------------------- MODULE MockExecutor ----------------------------
(***************************************************************************)
(* src/executor/mock_executor.zig: the simulated card --mock runs a binary *)
(* on, packet by packet.  What is only printed is left out: the window,    *)
(* the cycles, the bytes, and which of claimed, veiled and isolated it is. *)
(***************************************************************************)
EXTENDS Drops

CONSTANTS
  Vram,           \* vram_mb
  TempStart, TempCap, HaltDefault,  \* 35000, 100000 and 85000 mC
  Warm, WarmDma   \* rampTemperature: 50 mC a packet, 200 once data has moved

ASSUME MockAssumption ==
  /\ Vram \in Nat \ {0} /\ {TempStart, TempCap, HaltDefault, Warm, WarmDma} \subseteq Nat
  /\ TempStart < HaltDefault

Gpu == [temp : Nat, halt : Nat, meta : Nat, moved : BOOLEAN, count : Nat, late : SUBSET Nat]

\* late is error_packet: the packet_count at the last FENCE that was not met.
GpuStart == [temp |-> TempStart, halt |-> HaltDefault, meta |-> 0, moved |-> FALSE,
             count |-> 0, late |-> {}]

\* Mutant: the ring buffer, the latest instruction, is not known to the mock.
MockOpcodesOld == (1 .. 15) \cup {17, 20, 23, 24, 27, 28, 29, 30, 31} \cup (42 .. 59)

\* The cases of executePacket; any other opcode is logged as UNKNOWN.
MockOpcodes == (1 .. 15) \cup {17, 20, 23, 24, 27, 28, 29, 30, 31} \cup (42 .. 60)

\* Mutant: the limit itself is not hot.
HotAbove(g) == g.temp > g.halt

\* checkThermal; what it does at the throttle limit has no effect.
Hot(g) == g.temp >= g.halt

\* A FLOW on a hot card, or past the end of VRAM.
MockRefuses(g, p) ==
  p.op = 3 /\ (Hot(g) \/ (p.size > 0 /\ (p.dst % Vram) + p.size > Vram))

\* LIMIT takes its value from the size, or the destination, or by default.
LimitValue(p) ==
  LET v == IF p.size > 0 THEN p.size ELSE p.dst % W32
  IN  IF v = 0 THEN HaltDefault ELSE v

\* executePacket
MockPacket(g, p) ==
  CASE p.op = 3  -> [g EXCEPT !.moved = TRUE, !.meta = p.vessel]
    [] p.op = 5 /\ g.meta # p.dst % W32 -> [g EXCEPT !.late = {g.count}]
    [] p.op = 14 -> [g EXCEPT !.halt = LimitValue(p)]
    [] p.op = 29 -> [g EXCEPT !.temp = TempStart]
    [] OTHER -> g

\* rampTemperature
Ramp(g) ==
  LET t == g.temp + IF g.moved THEN WarmDma ELSE Warm
  IN  [g EXCEPT !.temp = IF t > TempCap THEN TempCap ELSE t]

\* A packet that is executed, and the heating after it.
MockRun(g, p) ==
  LET ran == MockPacket(g, p)
  IN  Ramp([ran EXCEPT !.count = @ + 1])
=============================================================================
