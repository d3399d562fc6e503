----------------------------- MODULE ChainRules -----------------------------
(***************************************************************************)
(* chain_rules of src/compiler/chain_rules.zig, in its order: the states   *)
(* an instruction requires and the states it establishes.  What a rule     *)
(* says beyond that only reaches the terminal.  The opcode beside it is    *)
(* the table's own, the one the compiler emits is InstructionSet of Drops.    *)
(***************************************************************************)
EXTENDS Naturals, Sequences

Rule(name, op, pre, post) == [name |-> name, opcode |-> op, pre |-> pre, post |-> post]

CoreRules ==
  << Rule("CLAIM",       1, {}, {"vessel_claimed"}),
     Rule("STAKE",       2, {}, {"memory_reserved"}),
     Rule("FLOW",        3, {"vessel_claimed", "aperture_mapped"},
          {"data_transferred", "operation_pending"}),
     Rule("SHIFT",       4, {"vessel_claimed"}, {"aperture_mapped"}),
     Rule("FENCE",       5, {}, {"condition_met"}),
     Rule("SYNC",        6, {}, {"memory_visible"}),
     Rule("SIGNAL",      9, {}, {"event_triggered"}),
     Rule("YIELD",      10, {}, {}),
     Rule("LIMIT",      14, {"vessel_claimed"}, {"constraint_set"}),
     Rule("SLICE",      59, {"vessel_claimed", "aperture_mapped"},
          {"data_chunked", "operation_pending"}),
     Rule("PIPE",       60, {"vessel_claimed"}, {"pipe_established"}) >>

CheckingRules ==
  << Rule("RHYTHM",     17, {"vessel_claimed"}, {"timing_set"}),
     Rule("ECHO",       23, {}, {}),
     Rule("STASIS",     24, {"vessel_claimed"}, {"bus_locked"}),
     Rule("FLUX",       42, {}, {"cache_invalidated"}),
     Rule("AUDIT",      43, {}, {"residue_checked"}),
     Rule("DRY_RUN",    44, {}, {}),
     Rule("MOCK",       45, {}, {}),
     Rule("PROVE",      46, {}, {}),
     Rule("WATCH",      47, {}, {}),
     Rule("TRACE",      48, {}, {}),
     Rule("GUARD",      49, {}, {"guard_armed"}),
     Rule("ISOLATE",    50, {"vessel_claimed"}, {"isolated"}),
     Rule("VERIFY",     51, {}, {"state_verified"}) >>

SubstrateRules ==
  << Rule("AFFINITY",   52, {"vessel_claimed"}, {"resource_pinned"}),
     Rule("TUNNEL",     53, {"vessel_claimed"}, {"tunnel_established"}),
     Rule("SUSPEND",    54, {"vessel_claimed"}, {"subsystem_suspended"}),
     Rule("COORDINATE", 55, {"vessel_claimed"}, {"devices_coordinated"}),
     Rule("DIRECT",     57, {"vessel_claimed"}, {"controller_access"}),
     Rule("BIND",       58, {}, {"device_bound", "vessel_claimed"}),
     Rule("PERSIST",    27, {"vessel_claimed"}, {"data_persisted"}),
     Rule("POKE",       28, {"vessel_claimed"}, {"bits_modified"}),
     Rule("RESET",      29, {"vessel_claimed"}, {"subsystem_reset"}),
     Rule("INJECT",     30, {"vessel_claimed"}, {"firmware_loaded"}) >>

DeviceRules ==
  << Rule("WIPE",       31, {"vessel_claimed"}, {"data_erased"}),
     Rule("SENSE",       7, {}, {"sensor_read"}),
     Rule("PULSE",       8, {}, {"signal_emitted"}),
     Rule("RECAST",     11, {"vessel_claimed"}, {"device_reconfigured"}),
     Rule("SNAP",       12, {"vessel_claimed"}, {"state_serialized"}),
     Rule("REVERT",     13, {"state_serialized"}, {"state_restored"}) >>

ChainTable == CoreRules \o CheckingRules \o SubstrateRules \o DeviceRules
=============================================================================
