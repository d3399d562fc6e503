------------------------------ MODULE MCBatches ------------------------------
(***************************************************************************)
(* Small batches for the driver.  The address space, in bounce buffers:    *)
(* 0..5 RAM, 6..7 BAR0, 8..11 the BAR1 window of the card, of which        *)
(* op_claim takes 8..9 for a known id and 9..10 if it knows no better.     *)
(* Temperatures: 0 (cool, or no sensor) and 90, over the halt limit of 80. *)
(***************************************************************************)
EXTENDS AlkaOpcodes, Azoth

BarsAt(phys_, len_) ==
  [bar0 |-> [phys |-> 6, len |-> 2], bar1 |-> [phys |-> phys_, len |-> len_]]
Card  == BarsAt(8, 4)
Known == BarsAt(8, 2)
Guess == BarsAt(9, 2)

Drop(op, flags, vessel, src, dst, size) ==
  [op |-> op, flags |-> flags, vessel |-> vessel, src |-> src, dst |-> dst,
   size |-> size, crcok |-> TRUE]

Claim   == Drop(1, {}, 0, 1, 0, 0)
Veil    == Drop(15, {}, 0, 0, 0, 0)
Shift(o) == Drop(4, {}, 0, o, 0, 0)
Flow    == Drop(3, {}, 2, 0, 8, 2)       \* RAM to VRAM, two bounce buffers
FlowVram == Drop(3, {}, 1, 9, 10, 2)     \* inside VRAM, from a place to the next
FlowBack == Drop(3, {}, 0, 9, 1, 1)      \* VRAM to RAM
FlowUp  == Drop(3, {}, 0, 6, 9, 1)       \* BAR0 to VRAM
FlowLong == Drop(3, {}, 0, 0, 8, 6)      \* RAM to VRAM, past the end of the window
FlowHot == Drop(3, {"THERMAL_CHECK"}, 1, 1, 2, 1)
Slice   == Drop(59, {}, 0, 0, 2, 1)      \* two drops of one bounce buffer
Fence   == Drop(5, {}, 0, 0, 2, 0)
Limit   == Drop(14, {}, 0, 0, 0, 80)
Guard   == Drop(49, {}, 0, 0, 0, 70)
Sense   == Drop(7, {}, 0, 0, 0, 0)
Snap    == Drop(20, {}, 0, 0, 0, 0)
Audit   == Drop(43, {}, 0, 0, 0, 0)
Isolate == Drop(50, {}, 0, 0, 0, 0)
Echo    == Drop(23, {}, 0, 0, 0, 0)
Yield   == Drop(10, {}, 0, 0, 0, 0)
Pipe    == Drop(60, {}, 0, 0, 0, 0)      \* a ring of no size
Reset   == Drop(29, {}, 0, 0, 0, 0)
Bind    == Drop(58, {}, 0, 0, 0, 0)
Dry     == Drop(3, {"DRY_RUN"}, 0, 0, 8, 1)
Stray   == Drop(36, {}, 0, 0, 0, 0)      \* GHOST: no handler
Torn    == [Sense EXCEPT !.crcok = FALSE]
Undo(p) == [p EXCEPT !.flags = {"AZOTH"}]

Ioctl(cmd_, pkts, azoth) ==
  [cmd |-> cmd_, pkts |-> pkts, azoth |-> azoth, psize |-> 32, vessels |-> 0, halt |-> 0,
   throttle |-> 0, level |-> 0]
Run(pkts)         == Ioctl("EXECUTE", pkts, << >>)
Safe(pkts, azoth) == Ioctl("EXECUTE_SAFE", pkts, azoth)
\* A request that says its packets are smaller than they are.
Sized(r, n) == [r EXCEPT !.psize = n]
\* A safe run with the rollback batch the compiler writes.
SafeCompiled(pkts) == Safe(pkts, AzothBatch(pkts))
Vial(h, t)        == [Ioctl("LOAD_VIAL", << >>, << >>)
                        EXCEPT !.vessels = 1, !.halt = h, !.throttle = t]
Level(n)          == [Ioctl("SET_SAFETY", << >>, << >>) EXCEPT !.level = n]
Bare(cmd_)        == Ioctl(cmd_, << >>, << >>)

\* Batches that fail at every place they can, with and without a rollback.
BatchRequests ==
  { Run(<<Claim, Snap, Yield, Pipe>>), Run(<<Sense, Torn>>), Safe(<<Dry, Undo(Sense), Audit>>, <<Undo(Guard)>>),
    Safe(<<Limit, Snap, Stray>>, <<Undo(Guard), Sense, Undo(Stray), Undo(Flow)>>),
    Safe(<<Dry, FlowHot>>, << >>), Safe(<<FlowHot, Torn>>, <<Undo(Shift(5)), Undo(Torn)>>),
    Run(<< >>), Sized(Run(<<Sense, Snap>>), 31), Sized(Safe(<<Sense, Torn>>, << >>), 16),
    Bare("GET_STATE"), Bare("OTHER") }

\* The packets that use the card, while it comes and goes.
CardRequests ==
  { Run(<<Claim, Shift(5), Flow>>), Run(<<Reset, Veil, Audit>>), Run(<<Isolate, Bind, Echo>>),
    Sized(Safe(<<Sense>>, << >>), 0), Vial(0, 0), Level(1), Bare("READ_THERMAL") }

\* One client waits for the other's transfer.
FenceRequests ==
  { Run(<<Claim>>), Run(<<Flow>>), Run(<<Fence>>), Run(<<Slice, Fence>>),
    Safe(<<Flow, Stray>>, <<Undo(Fence)>>) }

\* Limits set and lifted by one client while another transfers, inside VRAM, out
\* of it and into it, through a shifted window: by a vial, by a batch that gets
\* half way, by a rollback that undoes what it must not.
LimitRequests ==
  { Run(<<Claim, Shift(6), FlowVram, FlowBack, FlowUp>>),
    Run(<<[Limit EXCEPT !.flags = {"DRY_RUN"}], Limit, FlowHot>>),
    SafeCompiled(<<[Limit EXCEPT !.size = 90], Guard, Stray>>), Vial(60, 50), Level(0) }

\* What the findings need, one small set each.
ClaimRequests    == { Run(<<Claim, Flow>>) }
UndoLimitRequests == { SafeCompiled(<<Sense, Limit, Stray>>) }
WindowRequests    == { Run(<<Claim, FlowLong>>) }
=============================================================================
