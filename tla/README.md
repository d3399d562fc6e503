# Alka / Athanor in TLA+

Alka is a small language for driving hardware (GPU windows, DMA, fences, thermal
limits).  A program is compiled by `src/` (Zig) to a sequence of 32 byte packets
("drops") with a generated rollback sequence ("Azoth"); the kernel driver
*Athanor* (`src/athanor`, C) executes the packets for the programs that have
`/dev/vitriol` open.  Paths below are relative to the repository root; the sources
of the driver are under `src/athanor/`, those of the compiler under `src/compiler`,
`src/codegen` and so on.

## Inventory

| Component | State | Operations | Interacts with | What is hard | What makes it correct |
|---|---|---|---|---|---|
| ioctl layer, packet executor (`vitriol_alka_ioctls.c`, `vitriol_alka_core.c`) | the device mutex, the running batch, `struct exec_result` | ten ioctls, `execute_packets`, `execute_azoth_rollback` | handlers (calls), clients (ioctl), PCI core (shared structure) | clients interleave; a batch fails in the middle; a rollback follows | mutual exclusion; a prefix is executed and reported; a rollback only after a failure; ioctls are serialisable |
| opcode handlers (`vitriol_alka_ops.c`) | `struct vitriol_device` | 41 handlers | DMA engine, thermal monitor, PCI config space | pointers shared with probe and remove; partial CLAIM | no null or freed pointer is used; limits are obeyed |
| dispatch table (`vitriol_alka.h`, `vitriol_alka_ioctls.c`) | constant | lookup | compiler (numbers) | opcodes defined twice | each number reaches the handler its comment names |
| DMA engine (`vitriol_alka_dma.c`) | window offset, bounce buffer, metapage | shift, transfer, signal, nvme stream (no caller) | handlers, thermal monitor | checks and copies alternate; window arithmetic; short reads | a copy never starts over the limit; data lands where asked |
| thermal monitor (`vitriol_alka_thermal.c`) | last temperature, limits | read, check | sensor | stale readings | as above |
| PCI probe/remove (`vitriol_alka_core.c`) | device pointer, buffers | probe, remove | PCI core; handlers, without the mutex | interleaving, partial failure | buffers of a bound driver are live, freed once |
| module load and unload, files (`vitriol_alka_core.c`) | what `vitriol_init` has acquired, open files | six acquisitions, each with its error path; the releases; open, close | PCI core, clients | failure in the middle; files and cards while it fails | nothing is left behind; an open file leads to a device |
| heartbeat (`vitriol_alka_core.c`) | a thread per bound card | started by probe, stopped by remove, writes a timestamp into `g_dev` | the device; nothing reads the timestamp | its end against that of the card and of the module | it never beats into a device that is gone |
| compiler and its command line (`main.zig`, `alkac.zig`): two parsers, chain validator, safety injector, emission, welder, rollback generator | the program, the vial, packets, two output files | passes over a sequence, two file writes | instruction tools, driver and mock (files) | the passes check one form of the program and change another; the files are rewritten in place, any write may fail or be cut short | the binary, not just the program, is in chain order and within the vial; a removed barrier was redundant; the two files belong together |
| prover (`smt.zig`) | none | writes assertions, reads Z3's answer | compiler | it sees instructions, the packets come later | what is proved of a recipe holds of its binary |
| userspace executor (`alka_run.zig`) | open device | open, ioctls and their error mapping, close | driver | errno hides the status; the result may never have been filled in | "done" is said only of batches that ran whole |
| mock executor (`mock_executor.zig`) | a simulated device | one case per opcode | files of the compiler | a second hand-written list of opcodes; heat and limits change packet by packet | it stops at the limit; it knows every packet the compiler emits |
| binder (`binder.zig`, `vitriol_bind.zig`) | driver bindings of the cards | sequence of sysfs writes | PCI core, the driver's probe and remove, other programs | failure or kill between writes; others bind the same card | a card it leaves without a driver is one its user was told of, a forced rebind aside; it ends |
| substrate scanner (`scanner.zig`) | none | reads sysfs, writes a vial | compiler (vials) | numbers are text with a prefix | the vial describes the card it was made for |
| GGUF reader, SPARK tools, instruction tools, LSP | none across calls | pure checks and conversions | compiler | boundaries | agree with a reference definition |

## Modules

The driver and the command line meet in the files: the command line writes packets,
the driver and the mock run them.  `Azoth` belongs to both sides.  `Athanor` and
`AthanorLife` are two views of one driver: the first has what a batch does to one card,
packet by packet, with probe and remove beside it; the second has where the card, the
device structure and the module come from and go to.  They share the steps of probe
and remove; no packet of the table as built writes what the second one is about.

| Module | Models |
|---|---|
| `AlkaOpcodes` | the opcode `#define`s and the designated initialisers of `opcode_handlers`, both in source order, and the table that follows: the last `#define` of a macro and the last initialiser of an element win |
| `Athanor` | the driver: clients, mutex, ioctls, packet loop, rollback loop, every handler, the bounce buffer loop, probe and remove |
| `AthanorProps` | type invariant and properties over that state |
| `SerialLimits` | abstract specification: the safety level and the limits change in one step per ioctl |
| `AthanorHistory` | `Athanor` with observers (limits when the mutex was last free, the window and the ranges a transfer started with), the refinement of `SerialLimits` and the properties that relate the end of an operation to its start |
| `MCBatches`, `MCAthanor`, `MCAthanorHistory` | packets, batches and request sets of the driver's runs; instances for TLC |
| `Executor` | what the userspace executor makes of an answer of the driver |
| `AthanorProofs`, `BatchProofs`, `HistoryProofs` | theorems about the driver; about what a batch executes and its client learns; about where its data lands and what becomes of the limits |
| `MooreStream` | `vitriol_nvme_to_gpu`, from a file to VRAM |
| `AthanorLife` | the driver around its ioctls: loading and unloading, files, the heartbeat, probe and remove for several cards on one `g_dev`, other drivers |
| `Binder` | the programs that move cards between drivers and run files on them, composed with `AthanorLife`, which they implement the environment of |
| `LifeProps`, `MCLife` | type invariant and properties over both; instance for TLC |
| `LifeProofs` | theorems about both |
| `Azoth` | the rollback generator of `alka_bin.zig` |
| `Recipe` | `parseProgram`: statements to instructions, and how far a `!!` reaches |
| `Vial` | `parseVial`: the line automaton for hardware descriptions, and what `validateWithTools` derives from the result |
| `ToolChecks` | the validate function of all 40 instruction tools, and the five SPARK tools some of them call |
| `ChainRules` | the table of `chain_rules.zig`, in its order |
| `Drops` | the instruction set, `emitPacket`, and the filter of the welder |
| `SafetyInjector` | both passes of `--inject` |
| `Prover` | the assertions of `--prove` and the verdict |
| `MockExecutor` | the simulated card of `--mock` |
| `Alkac` | the command line: the loops over the operators above, the writes and their failures, the kill, one run after another over the same files |
| `AlkacProps` | type invariant and properties over that state |
| `FilePair` | abstract specification: what the command line promises about the two files, whatever the passes do |
| `Compilation` | what a recipe is compiled to, said of the whole recipe without loops or state, and the claim that `Alkac` implements `FilePair` with it |
| `MCRecipes`, `MCAlkac` | recipes, vials and sessions of the compiler's runs; instance for TLC |
| `AlkacProofs` | theorems about the chain order, the welder and the two files |
| `RecipeProofs` | theorems about the reach of a `!!` and the types of all the compiler keeps |
| `PacketProofs` | theorems about packets beside their instructions and the vial, about the mock, and that `Alkac` implements `FilePair` |
| `Inductions` | lemmas about natural numbers, finite sets, functions defined by recursion, and flattening |

### How `Athanor` corresponds to the code

* `lock`, `pc`, `req`, `f`, `ans`: the mutex; where each client's thread is; the
  ioctl and the arrays it passed; the locals of its handler (`struct exec_result`,
  the index `i`, `offset`, `elapsed`, the drop number); what the ioctl returned.
* `pdev` ... `temp` are the fields of `struct vitriol_device` of the same meaning:
  `bars` are the four fields with the ranges of the BARs, which CLAIM and, without the
  mutex, probe store; `bar0`/`bar1` say that the mapping exists, `win` is `bar1_offset`,
  `buf`/`page` are the bounce buffer and the metapage (`null`, `live`, or `freed` and still
  pointed to), `metaval` is `metapage_value`.
* `cmd`, `d3`, `drv`: the card's command register and power state, and how far
  probe or remove has come.
* `Call` is a client entering the kernel and `Acquire` is `mutex_lock`.  Each
  further action is what a thread does up to the next point at which another
  thread's access can matter.  Handlers that run under the mutex and touch nothing
  that probe and remove write are one step; a transfer is a step per thermal check
  and a step per copy, a FENCE is a step per poll, the config space packets are a
  test and a use, probe and remove are a step per store, those of the device and of
  the ranges of its BARs counting as one.
* The handlers that only log or read are separate actions (`OpNoop`, `OpState`,
  `OpPipe`, `OpEcho`, `OpAudit`): they test different things.
* Sizes and addresses are counted in bounce buffers (`DMA_BUFFER_SIZE`).
  The copies record where a bounce buffer lands (`VramAt`), which `AthanorHistory`
  compares with the window and the ranges the transfer began with (`base`).
  `crcok` stands for `compute_crc(pkt) == pkt->crc`.  The sensor reading is any
  member of `Readings` (0 when no hwmon file can be read, as in
  `vitriol_read_thermal`).  A failing user copy and a failing `kmalloc_array` are one
  action and one errno.
* `pkts` and `azoth` are what a walk by 32 bytes finds, `psize` the packet size the arrays
  are allocated by.  EXECUTE refuses one below 32 (`vitriol_alka_ioctls.c:312`),
  EXECUTE_SAFE does not look at it (`Malformed`): its last packets may lie behind the
  array, and an array of size 0 cannot be read at all.
* `CardBars` are the ranges of the card, `KnownBars` those `op_claim` has for one id
  (`KnownId`), `DefaultBars` those it takes when it knows neither.  `Shortages` are the
  allocations of probe that may fail.
* `Signal` does not store the copy of `metapage_value` in the metapage, which no handler
  reads (the page may be freed by then, see the divergences).
* `Handler`, the dispatch table, is a constant: `HandlersAsBuilt` is the table the
  compiler builds.  In it entry 0x01 is null, so no client could ever claim the card
  by its documented opcode; the runs that are about the rest of the driver use
  `HandlersAsNumbered`, the table the handlers' comments and the compiler's numbers
  describe.  The theorems hold for any table.

### How `AthanorLife`, `Binder`, `Executor` and `MooreStream` correspond to the code

* `mod` is the state the kernel keeps of the module, `held` how many of the six things
  `vitriol_init` acquires there are (`Acquired` lists them in its order; each error path,
  and `vitriol_exit`, releases them in the opposite one), `file` the file each process has
  of `/dev/vitriol`; a file is "dangling" once `g_dev` is freed under it.
* `owner` is the driver a card is bound to, `at` where probe or remove is for it,
  `hot` whether it leaves the bus.  `pdev`, `dma_buffer`, `metapage` and
  `heartbeat_thread` are the fields of the one `g_dev`, each the card it was last set
  for: with two cards the second probe overwrites what the first one stored.  `heap` is
  what was allocated and not freed, `beating` the threads that run.
* A step is one acquisition, allocation, store or release: between any two a file can be
  opened, another card probed, another program act.  What probe does before it stores the
  device fails without effect here.
* `misfreed`, `overlap`, `late` and `early` only remember what happened; no guard reads
  them.
* In `Binder` a step of a program is one system call (`step` says which is next), and
  each may fail; a write that makes the kernel call probe or remove returns when that
  has ended (`Waiting`), one to a `bind` file with what its own probe came to (`Told`),
  one to `rescan` whatever it came to; and `Kill` may end a program between any two.  A
  `driver` link that cannot be read counts as none (`FindDriver`; `catch null`).  `loser`
  remembers who took a card from its driver, until a driver has it.  `job` is one of
  plain bind, `--force`, `--restore` and neither, with or without a file to run then;
  `report` is what the user was told.
* `Executor` is `ioctlReadWrite` and `checkResult` of `alka_run.zig` on the answers of
  `Athanor`: the errno first (`Told`), then the status of a result that was zeroed before the
  call (`SeenStatus`, `Checked`).
* In `MooreStream` a unit is what one read may return at least; `ret` is the variable
  that holds the length of the read and the result of the shift in turn.

### How `Alkac` corresponds to the code

* A process of `alka` is a passage of `stage` from "idle" through one stage per pass
  back to "idle".  `todo` holds the runs the user will still ask for.  What a process
  has in memory (`prog`, `pending`, `states`, `broken`, `raw`, `out`, `prevSync`, `az`,
  `gpu`) is gone when it ends (`Gone`); the two files `alkas` and `azoth` stay, and a
  missing file reads as an empty one.
* One action per loop body and one per loop end: `ParseStmt`/`ParseDone`
  (`parseProgram`), `ChainInstr`/`ChainDone` (`validateChain`, whose errors are
  collected and tested at the end), `EmitInstr`/`EmitRejects`/`EmitDone` (tool
  validation and `emitPacket`; an unknown name, a tool that refuses and an unknown
  vessel end the run alike), `WeldPacket`/`WeldDone` (`refineBinary`),
  `AzothStep`/`AzothDone`, `MockStep`/`MockDone`.  `Inject` and `Prove` are one step:
  they loop over a program nothing else changes.
* `writeFile` truncates and then writes.  `CreateAlkas`, `FillAlkas`, `CreateAzoth`,
  `FillAzoth` are those four system calls; `CreateFails` and `FillFails` are their
  errors, a partial write included, and `Kill` may end a process between any two steps.
* A statement is a list of words of the kinds the parser tells apart (number, word,
  `.MEMBER`, `->`, `//`); spelling is left out, memory sizes are numbers already.  A
  line of a vial is its keyword, its name or number, and whether `parseInt` accepts
  the number.  Optional fields are sets with at most one member.
* `Page`, `MaxAperture`, `W32`, `W64`, `FenceMax` and so on are the constants of the code
  (4096, 256 MB of `tool_shift.ads:17`, 2^32, 2^64, ...) brought to a scale at which TLC can reach both sides of
  each: the definitions use the name, the theorem holds for any value.
* The mock keeps what something depends on: temperature, limit, metapage, whether data has
  moved, how many packets ran and which FENCE was last not met.

## Runs

### The driver

Two clients in every run: interleavings at the mutex and against probe and remove
need two, and the driver treats all alike (symmetry is used where no liveness
property is checked).  Batches have at most four packets, enough for a skip, a
success, a failure and what follows; a transfer has one or two bounce buffers (six in `FWindow`), a SLICE two
drops, a FENCE two polls (`MaxPolls`; the code makes 5000), so that each loop is
entered, repeated and left.  Of the address space there are six bounce buffers of RAM, two
of BAR0 (6, 7) and the window of BAR1: four (8 to 11) as the card has it, two as `op_claim`
has it for a known id (from 8) or by default (from 9), so that a claim and a probe can
disagree.  There are two temperatures, one on each side of the halt limit.  `MCBatch` has
requests with a packet size below 32 for both ioctls.

| Run | Question | Result |
|---|---|---|
| `MCBatch` | what is executed, reported and told to the user when a batch fails at any place, with and without a rollback? | `TypeOK`, `InsideBatch`, `PrefixExecuted`, `AnswerSound`, `RollbackAfterFailure` hold, and the executor of the host says "done" only of what ran whole (`DoneIsDone`; 627,649 states) |
| `MCCard` | do probe, remove and CLAIM keep the buffers and mappings in order under any mix of failures? | `BoundHasPages`, `InitializedMapped` hold (893,064 states) |
| `MCFence` | does every call return, who can wake a FENCE, and is a pointer ever null when used? | `NoOops` (under the proviso below), `FenceWokenByProbeOnly`, `EveryCallReturns` hold (52,912 states) |
| `MCLimits` | while limits are set and lifted, and claims and failing probes store other ranges: does the mutex exclude, does a copy ever start over the limit in force, are the ioctls serialisable in their effect on the limits, does each bounce buffer land in its place, inside VRAM, into and out of it, through a shifted window? | `LockHeld`, `CoolCopy`, `LandsInPlace` hold, `Athanor` implements `SerialLimits` (1,755,191 states) |
| `FClaim`, `FRollbackLimits`, `FWindow`, `FStream` | statements of the documentation and the comments that the code does not keep | violated, see below |

`InsideBatch` says nothing of a safe run with a packet size below 32, since
`vitriol_ioctl_execute_safe` lets it through and then walks beyond its arrays; it holds of
whatever EXECUTE lets through, and of the switch from one array to the other.

`NoOops` is stated where the code can keep it, each condition being one without which it
does not: BAR1 maps (`Bar1Maps = {TRUE}`; CLAIM goes on without), the card stays
(`Unplug = FALSE`; remove clears `pdev` between a test and its use), `Shortages` has one
of the two allocations only (a probe that fails at the metapage leaves the pointer to the
buffer it freed, with which a transfer can start, and a second probe that fails at the
buffer stores null, which the next chunk of the transfer then uses: `dma_buffer` is looked
at only when the transfer begins, `vitriol_alka_dma.c:83`), and a packet size that is not 0.

`LandsInPlace` compares each copy with the window its transfer began with.  It speaks of a
transfer as long as the ranges of the BARs are those it began with and its window is a
multiple of the aperture (`Steady`: a probe that fails late stores other ranges in the
middle of one), and whose ranges, where they begin in the window, also end in it.  A
transfer that runs past the end is what `WindowSlides` and its run `FWindow` are about.

Fairness (`FairSpec`, only in `MCFence`): a thread inside a handler keeps running
(weak fairness of `HandlerStep`; the kernel schedules it, nothing in a handler waits
for another client), and a waiter is not overtaken for ever at the mutex (strong
fairness of `Acquire`; the kernel's mutex hands itself over to a starving waiter).
Nothing makes a client call, or a card appear or go away.

### The life of the driver

One instance, `MCLife` (190,700 states): one card, one other driver (vfio-pci), two
programs, each of which binds and then runs a file, forces, or restores the card to Athanor;
the module is loaded once, may fail at any acquisition, and is unloaded at any time.  Two
programs are the least that can take a card from each other, and one load has every
failure and every release in it.  More cards add what `overlap` excludes from the
properties that two cards break (see the divergences); the theorems hold for any number of
cards, programs and loads.  Deadlock is not checked: programs end and the module stays out.

| Property | States |
|---|---|
| `BinderTypeOK` | the type invariant |
| `FilesKeepDevice` | an open file leads to a device, unless it was opened while `vitriol_init` was at work and that failed |
| `HeartbeatHasDevice` | a heartbeat beats only for a bound card and into a device that is there (unless cards overlap) |
| `FreesItsOwn` | what probe allocates is freed once and for its own card, though no path clears the pointers (unless cards overlap) |
| `NothingLeft` | a module that is out leaves no bound card and, unless cards overlapped, no page and no thread |
| `PdevIsBound` | `g_dev->pdev` is a card of this driver, or one whose last probe failed late |
| `LostCardIsReported` | a card that a program took from its driver, and that no driver has had since, is one whose program is still at work, or told its user, or was killed: no error is swallowed on the way to the user.  Excepted is a `--force` run whose card is back on the bus |
| `ModuleSettles` | loading, failing and unloading come to an end |
| `ProgramsEnd` | every program ends, whatever others do to its card meanwhile |

The exception of `LostCardIsReported` is what the code does: `bindDevice` with `force` is
done when the card is back on the bus, whether or not a driver wants it; such a loss is
silent, and is listed with the divergences below.

Fairness (`FairSpec`): `vitriol_init` and `vitriol_exit` run on, and so do probe and
remove (weak fairness of `ModuleRuns` and `KernelStep`: nothing they wait for is a
program's to withhold, but `pci_unregister_driver`, which waits for probe and remove); a
program runs on (strong fairness of `HostStep`, because others may hold the device lock
of its card again and again, and the kernel's lock is handed to who waits).  No program is
made to start, and nothing makes the module load, unload, or a card be found.

### The command line

One instance, `MCAlkac` (175,658 states), asks one question after the other of the same
specification; its sessions are the union of:

* every order of up to three of eight instructions that the chain rules relate, or that the
  welder or the rollback generator treats specially, alone and after `CLAIM; SHIFT`;
* every sequence of up to three of ten ways to write a statement with or without `!!`;
* every instruction with none to three operands, and every tool at the edges of what
  it accepts, each under three vials (one vessel; two vessels with a wide window and a
  limit that does not parse; a vessel that is defined twice);
* five recipes with `--inject` under two vials; the words the prover looks at in every order,
  compiled, and proved;
* every order of three of the packets the mock's card reacts to, compiled and then
  simulated, and rollback files given to the mock in place of their binaries;
* any three of four versions of a recipe compiled one after the other over the same
  two files, each killed anywhere or failing at any write.

The scale: a page is 2, the largest aperture 8, 32 bits hold 16 values and 64 bits 64,
a FENCE may wait 5; the mock has 8 units of VRAM and goes from temperature 3 to 16 with the
limit at 14.  Three instructions after a prefix are enough for a state that is
established, used and used again, for two barriers with a stripped packet between them,
and for a `!!` separated from its instruction; the passes look back only through sets
and one flag, so longer recipes repeat these cases (and `BinaryInOrder` is proved for all
of them).  Deadlock is not checked: the user may stop asking.  Nothing is fair: there
is no liveness to state of a process that may be killed.

| Property | States |
|---|---|
| `CompilerTypeOK` | the type invariant |
| `BinaryOrdered` | the binary on disk, also one cut short by a failing write, has before each packet packets that establish what its rule requires, though the check was made on instructions and packets are removed after it |
| `PairedFiles` | unless a run was cut short while rewriting them, the rollback file is that of the binary beside it |
| `WeldKeepsBarriers` | the welder removes no access and reorders none, keeps a barrier wherever there was one, and leaves no redundant one |
| `OverrideScope` | an instruction escapes its tool exactly if a `!!` stands before it on its line, or above it with only comments between |
| `WithinVial` | a packet whose instruction was looked at by its tool carries, after every conversion, operands within some aperture and some limit of the vial |
| `ProofCarriesOver` | what `--prove` asserts of the instructions is true of the packets |
| `MockRunsCool` | no packet starts on a simulated card at or over the limit in force |
| `MockKnowsBinary` | no packet of a binary is unknown to the mock |
| `RollbackAloneRunsNothing` | a rollback file given to `--mock` executes nothing |
| `FilesAreCompiled` | `Alkac` implements `FilePair`: the files change only for a recipe every part of which passes, to its binary and rollback as `Compilation` defines them for the whole recipe, and success is reported only then |

`FInject` and `FProve` check one statement each that the code does not keep.

### Findings

| Run | The code | The text |
|---|---|---|
| `FClaim` | `ALKA_OP_CLAIM`, `SNAP`, `COORDINATE` are defined and initialised twice; entries 0x01, 0x0C, 0x37 are null | "the first instruction in any Recipe" (`vitriol_alka_ops.c:23`) |
| `FRollbackLimits` | LIMIT is its own counterpart, and counterparts of packets that never ran are run too | "restore the machine to its pre-execution state" (`docs/SPECv5.md:979`) |
| `FWindow` | a transfer adds the current window to each address and then moves the window there, so that after the first slide its chunks land a window too far (`vitriol_alka_dma.c:106`, `:121`).  The run asks it of a claimed card, with `HandlersAsNumbered`; in the table as built CLAIM is null (`FClaim`) and every transfer is refused | "sliding window for transfers > 256MB" (`vitriol_alka_ops.c:129`) |
| `FStream` | the result of `shift_bar1_window` overwrites the length that was read, so nothing is copied (`vitriol_alka_dma.c:207`) | "3. Copy from page cache → DMA buffer → GPU VRAM via BAR1" (`vitriol_alka_dma.c:150`) |
| `FInject` | the injected GUARD and FENCE carry fewer operands than their tools ask for, so a recipe with a CLAIM or a FLOW no longer compiles (`safety_injector.zig:58`) | "Compile with safety injection" (`main.zig:53`) |
| `FProve` | a size beyond 32 bits is an assertion Z3 reports and drops, and the recipe is PASSED (`smt.zig:91`) | "Checks: ... FLOW <= aperture" (`smt.zig:4`) |

Divergences that were met while modelling and have no run of their own:

* driver: remove, and a probe that fails at the metapage, free the bounce buffer without the
  mutex and leave the pointer (`vitriol_alka_core.c:275`, `:256`), and remove the metapage, so
  that a transfer under way would use freed memory and `vitriol_signal_metapage` store into
  it; a probe stores the ranges of the BARs without the mutex (`:209`) under a transfer that
  reads them; EXECUTE_SAFE lets a packet size below 32 through
  (`vitriol_alka_ioctls.c:369`); SLICE always writes to address 0, ignores what its transfers return and signals
  all the same (`vitriol_alka_ioctls.c:56`; `docs/SPECv5.md:720`: "Signals metapage on
  completion"); the counterpart of SHIFT swaps operands
  that hold no previous offset (`docs/ALKA_INTEGRATION.md:221` has it shift "back to
  original offset"); the peak reported is the larger of the first and the last reading
  (`vitriol_alka.h:125`: "Peak temperature during execution"); a CLAIM that could not map
  BAR1 succeeds although the transfers use the mapping, which is why `NoOops` is
  checked with `Bar1Maps = {TRUE}`; FENCE polls with the mutex held, so only a probe can
  wake it (`FenceWokenByProbeOnly`), while `vitriol_alka_ops.c:193` calls it "the
  completion synchronization mechanism"; remove clears `pdev` between a handler's test of
  it and its access to the config space (`vitriol_alka_ops.c:328`), which then has no
  device, which is why `NoOops` is checked with a card that stays; with the table as built
  no packet reaches `op_claim`, so `initialized` is never set and every transfer is
  refused;
* life of the driver: `vitriol_pci_ids` names several cards and there is one `g_dev`.  A
  second card that is probed while the first is bound overwrites its pointers: its blocks
  and its thread are lost, the remove of the first frees those of the second for the wrong
  device, and the remove of the second frees them again.  Hence the proviso `~overlap`.
  A `vitriol_init` that fails after `/dev/vitriol` is there frees `g_dev` under a file opened
  meanwhile (`early`).  A probe that fails after it stored the device leaves `pdev` pointing
  at a card nobody holds (`late`).  The mappings of BAR0 and BAR1, their regions
  and the reference of `pci_get_device` are never given back, and a mapping survives the
  card it was made for;
* binder: `vitriol-bind <bdf>` alone prints its usage (`vitriol_bind.zig:10`), although
  `:13` describes it as binding; the id it writes for vfio-pci is "0x0000 0x0000"
  (`binder.zig:61`), of no card; the driver that is reported as the previous one is read
  before and apart from the one that is unbound (`binder.zig:110`, `:45`); a failed vfio
  binding leaves the card without a driver, and tells its user; a forced one says
  "Force-bound" (`main.zig:271`) as soon as the writes to `remove` and `rescan` have
  succeeded, and runs the file, whether or not a driver took the card (`binder.zig:107`);
* executor: `--execute` and `--safe` that fail end with exit status 0 (`main.zig:291`); the
  status of a batch that failed is never seen, since its errno is tested first, so a user
  is told of a failing ioctl and not of heat or of a broken packet (`alka_run.zig:229`);
* compiler: a vessel member as first operand is 0 in `src_addr`, so `SHIFT .BAR1 256MB 256MB`
  shifts to 0 (`alkac.zig:405`; `docs/HANDBOOK.md:58` writes it so, and
  `vitriol_alka_ops.c:167` reads "src_addr = new VRAM offset"); `!!` does not suppress
  the chain validator (`docs/SPECv5.md:186`); `HALT_AT: 85C` reads as 0, no limit, although the examples are written so
  (`examples/ivyb_pascal.alkavl:21`); a `MAX_WINDOW` inside its aperture's block, as in
  the same example, is never read; the limit of the last vessel replaces all others;
  `LIMIT GPU 85000` puts the value in `dst_addr` while `op_limit` reads `size` and
  `src_addr`; a trailing `// comment` is parsed as an operand and so switches the tool
  off; a PIPE ring of 2^32 is emitted as 0; `DMA_CAPABLE` reaches no tool; a crash
  between the writes leaves the new binary with an old or empty rollback file (`writing`
  in `PairedFiles`);
* prover: it checks REFRACT, a name no instruction has any more, so SLICE is unchecked;
  with a vial whose first vessel has no aperture the size of a FLOW is unchecked; two
  provers at once write the same `/tmp/alka_proof.smt2`;
* mock: it goes on after a FENCE that is not met and does not signal for SLICE, while
  `docs/FINDINGS.md:7` says it "Fully validates recipes";
* between parts: `--execute --bind` hands the card to vfio-pci, taking it from Athanor, and
  then runs through `/dev/vitriol` (`main.zig:48`); the scanner, which is not modelled,
  (`--probe`, `--generate-vial`) parses sysfs ids with `parseInt(u16, ..., 16)`, which
  refuses their `0x`, so no device is ever found (`scanner.zig:196`).

## What is proved

Eight modules, for every value of the constants; the assumptions are those named in the
modules, which TLC evaluates for the tables of the source, or stand in the theorem.

### The driver

`AthanorProofs`, for any set of clients and requests, any dispatch table, card and
sensor:

| Theorem | States |
|---|---|
| `TypeCorrect` | `Spec => []TypeOK` |
| `MutualExclusion` | `Spec => []LockHeld` |
| `NoOverrun` | `Spec => []InsideBatch` |
| `CopiesAreCool` | `Spec => []CoolCopy` |
| `FenceKeepsSignalsOut` | `Spec => FenceWokenByProbeOnly` |
| `PagesOfABoundDriver` | `Spec => []BoundHasPages` |
| `ClaimedIsMapped` | `Spec => []InitializedMapped` |
| `NoNullPointer` | `Spec => []NoOops`, if BAR1 can always be mapped, the card stays, not both allocations of probe fail and no packet size is 0 |

The inductive invariant `IInv` is `TypeOK`, `LockHeld` and, for each client, `Local`:
the index is inside the array its mode selects, and the mode agrees with the place in
the code.  `Local` is needed because a packet's fields have types only inside the
array, and because the index of the forward run is reused by the rollback.  The proof
goes through one notion, `Moves(c)`: every handler step either stays inside the handler
with the mutex, or answers and releases it.  One lemma per helper (`GotoMoves`,
`ReturnMoves`, `FinishMoves`, ...) and one case per action show that the steps are such
moves and keep the types of the device; `MovesInv` then gives the invariant once for
all of them.  `CopiesAreCool` and `FenceKeepsSignalsOut` use mutual exclusion: between
the check and the copy, and during a poll, only the owner could write (`OnlyOwner`).
`NoNullPointer` needs more than its property says: `PointerInv` adds that a claimed device
has BAR1 mapped, that remove is never under way, and that a thread past its tests still
finds what it tested (`Tested`), the bounce buffer included: a probe that fails in between
sets `pdev`, and either leaves the pointer to the buffer or makes it null before any
transfer could have found one, depending on which of its allocations may fail.

`BatchProofs`, on top of it, for batches of any length:

| Theorem | States |
|---|---|
| `PrefixAlways` | `Spec => []PrefixExecuted` |
| `AnswersAreSound` | `Spec => []AnswerSound` |
| `DoneAlways` | `Spec => []DoneIsDone` |
| `RollbacksAreLast` | `Spec => RollbackAfterFailure` |

The properties look at single moments: a packet about to run, an answer, an ended call.
`BatchInv` is what connects them: for each client whose batch is under way (`Progress`),
the packets before the place where it stands or stopped (`Stop`) are intact and those of
them to be run are counted (`Prefix`), after a failure that place is inside the batch and
stays, and the rollback, which reuses the index, is reached only so; for each
client that was answered, the answer is the result of such a batch (`Answered`).  The one step
from data to number is `LongerPrefix`: passing a packet adds it to the count exactly if
it runs.

`HistoryProofs`, on top of both, for windows, transfers and batches of any size:

| Theorem | States |
|---|---|
| `TransfersLandInPlace` | `HSpec => []LandsInPlace` |
| `LimitsSerialise` | `HSpec => LimitsAreSerial` |

`LandsInPlace` compares a copy with the window its transfer began with, many steps before.
`WindowInv` is why that window is still there: while a transfer both of whose ranges end in
the window is under way, and the ranges of the BARs are those it began with, `win` is
what it was (`Placed`).  The arithmetic is in `TouchInside`: the place of an access in the window, aligned
down, is the window.  No other thread shifts, by mutual exclusion.

`LimitsSerialise` is the refinement of `SerialLimits`, whose only step applies a whole
ioctl to the limits, by the driver, which applies it packet by packet and then perhaps
part of its rollback.  `LimitInv` says how far each ioctl has come (`Served`): in the
forward run the limits are those before it, changed by the packets before the place where
it stands (`Serial!After`); in the rollback, those changed back by the counterparts
already run (`Undoing`).  While the mutex is free they are the limits of the last ioctl that
ended (`before`).  Hence a step that frees the mutex is a step of `SerialLimits`, any other a
stutter.  `After` and `Undone` are recursive functions; one packet more is one application more
(`AfterSteps`), by `RecursionExists`.

### The life of the driver

`LifeProofs`, for any cards, other drivers, programs, jobs and number of loads:

| Theorem | States |
|---|---|
| `LifeKeepsInv` | `LifeSpec => []LifeInv` |
| `FilesKeepDeviceAlways` | `Spec => []FilesKeepDevice` |
| `HeartbeatAlways` | `Spec => []HeartbeatHasDevice` |
| `FreesItsOwnAlways` | `Spec => []FreesItsOwn` |
| `NothingLeftAlways` | `Spec => []NothingLeft` |
| `PdevIsBoundAlways` | `Spec => []PdevIsBound` |
| `TypesAlways` | `Spec => []BinderTypeOK` |
| `LostCardIsReportedAlways` | `Spec => []LostCardIsReported` |

The invariant is stated of `AthanorLife` alone: what is acquired in each state of the
module (`ModuleInv`); a card of the driver keeps the driver registered (`BoundInv`);
unless cards overlapped, one card at most is bound, exactly the blocks its probe or remove
has come to are allocated, the pointers lead to them and the thread is its own
(`OneCardInv`); a file is open only of a module that cannot go, or early (`FileInv`).
`FreesItsOwn` needs all of `OneCardInv`, for a pointer is followed long after it was set.
The steps of `Binder` are written with those of `AthanorLife`, so the lemma that the one
implements the other (`BinderImplementsLife`) is only the bridge over which the invariant
reaches the programs (`BinderKeepsInv`).  What is left to prove there is what they say:
`LoserInv` has, for whoever took a card that no driver has had since, the places where it
may be (`Without`): on its way to the next driver, waiting for a probe or told that it
failed, ended with an error, or, past a rescan, with a card that is on the bus and not
leaving it.  The last needs that only forced jobs remove a card (`ForceInv`) and that a card leaves the
bus only while remove is at work on it (`HotInv`).

### The command line

`AlkacProofs`, for any instruction set, chain table, recipes, vials and number of runs, from
`OpcodeAssumption` (instructions have different numbers), `RulesAssumption` (an instruction has
at most one rule, under its own number) and `StrippedAssumption` (no rule establishes a
state by a packet the welder strips):

| Theorem | States |
|---|---|
| `BinaryInOrder` | `Spec => []BinaryOrdered` |
| `BarriersAreKept` | `Spec => []WeldKeepsBarriers` |
| `BinaryIsKnown` | `Spec => []MockKnowsBinary`, if each instruction is a case of the mock or stripped |
| `RollbackRunsNothing` | `Spec => []RollbackAloneRunsNothing` |
| `FilesArePaired` | `Spec => []PairedFiles` |

`BinaryOrdered` speaks of the file alone; the inductive invariant `ChainInv` carries it
from pass to pass: what the loops find when they start (`Fresh`), each state the
validator holds active was established by an earlier instruction and, as long as there
is no error, each instruction so far is in order (`InChain`), each packet has the number
of its instruction, in place (`InEmit`), hence the packets are ordered (`Emitted`), and a
packet the welder leaves out is one that establishes nothing or has another of its opcode
before it (`InWeld`, `Welded`).  A file cut short by a failing write is a prefix, and
prefixes of ordered sequences are ordered.  The assumptions are evaluated by TLC for the
tables of the source in `MCAlkac`, and they are what a new rule or opcode has to keep.

For the welder, whose property speaks of the end of its loop, `BarrierInv` says the same
of every packet of it (`WeldedTo`).  Accesses are counted (`Rank`): a kept packet is the one of
the same rank, and a barrier stands at a rank in the output exactly if one stood there
in the input.  `prevSync` need only say that the last packet kept is a barrier, for the
output to have no two without an access between.

What the mock meets was made by an earlier run, so `FilesInv` follows each packet from the
emission through the welder and the generator into the files, whole or cut short, and
`Resting` says that the simulated card is fresh whenever a simulation begins.  `PairInv`
follows the pair: the generator goes through the binary backwards, so what it has
written undoes the packets from some place on (`UndoesFrom`); the new binary is on disk
before its rollback file, and until that is there, `writing` is true and the property
silent, which is why a run that ends in between leaves it true.

`RecipeProofs`, on top of it:

| Theorem | States |
|---|---|
| `OverridesAreScoped` | `Spec => []OverrideScope` |
| `CompilerTyped` | `Spec => []CompilerTypeOK`, if every name has a hash |

For `OverridesAreScoped` the property, which speaks of the instructions so far, lacks the
`!!` that is still to be used and the number of instructions: `ParseInv` says that
`pending` is true exactly if a `!!` stands above with only comments between (`Announced`),
and that there are as many instructions as statements that yield one.

`CompilerTyped` is a theorem about the operators more than about the steps: `parseVial`
over any lines gives a vial, a statement an instruction, the injector a program,
`emitPacket` a packet all of whose fields have their widths, the mock a card.  The type invariant
is not inductive alone, since a vessel found by its name must exist: `TypeInv` adds that a
vial has as many names as vessels.  Two assumptions are for the provers: `HashesTyped`, that
`NameHash` gives a number for every string (in the code djb2 does; the run has a table of
the names it uses), and `LiteralsAssumption`, that the names written in the code are strings.

`PacketProofs`, on top of that:

| Theorem | States |
|---|---|
| `VerdictCarriesOver` | `Spec => []ProofCarriesOver` |
| `PacketsAreWithinVial` | `Spec => []WithinVial` |
| `MockStaysCool` | `Spec => []MockRunsCool` |
| `CompilerImplementsFilePair` | `Spec => FilesAreCompiled` |

`EmitInv` ties the two forms of the program together: `raw[k]` is the packet of `prog[k]`,
whose tool accepted it.  With it, `PacketsAreWithinVial` needs no step of the machine any
more: for each of the six tools that compare an operand with the vial, what it accepts fits
a window or a limit after the conversion to the field's width (`AcceptedFits`), because the
largest aperture and the limit the tools are given are those of some vessel
(`ApertureMaxIsAWindow`, `ThermalHaltIsALimit`).  For `VerdictCarriesOver` a pair of
instructions is followed twice: to the packets in the same places, and from those through
the welder to the packets of the same rank (`Counterpart`), whose order and barriers
`BarriersAreKept` gives (`OrderWelded`).  All take the hypothesis of `CompilerTyped`, and
the first two `NumbersAssumption`, that the instructions named have the numbers of `mod.zig`.

`CompilerImplementsFilePair` is the whole of the command line in one statement.  `FilePair`
knows requests, whether one passes, and the pair of files it results in: a request for a
recipe that does not pass leaves the pair alone, one that does replaces it whole, and
between the truncation of the first file and the last write, or after that was cut short,
there is no pair.  `Compilation` says what that result is without the machine: an
instruction is overridden if a `!!` is awaited at its statement (`Awaited`), a SYNC stays
if an access lies between it and any earlier one (`Apart`), the rollback is the
counterparts in reverse.  None of these looks at a flag or an index, so each pass has its own
induction: `CompileInv` says at each element what the flag of the pass stands for and that
its output is the result of the elements so far; `AwaitedNext`, `ApartNext`,
`InstructionsMore`, `RefinedMore` and `UndoneMore` are the steps, the last three from
`FlattenNext` of `Inductions`.  At the end of the passes, `WrittenIsCompiled`: what is
about to be written is the result of the request, and the request passes, since
the validator found each instruction in order (`ChainInv`) and no tool refused (`EmitInv`).
`PairInv` gives the last write a first file that is the new one.  Each step of the machine
is then a step of `FilePair` (`AskStep`, `WriteStep`, `LeaveStep`) or leaves what it speaks of
alone (`OtherStep`).

### Induction

A statement about what a recursive function computes for every input needs an induction, and
the library's induction theorems, which have an operator as a parameter, cannot be used.
`Inductions` gets it from a theorem without one: finite sets ordered by inclusion are well-founded
(`FS_StrictSubsetOrderingWellFounded`).  A number stands for the set of those up to it,
so a non-empty set of numbers has a least member (`NatLeast`); `NatInd` is induction over a set
of numbers, and `RecursionExists` says that a function defined by recursion over an
interval exists and satisfies its equation.  That is why the models that are proved about write
loops as recursive functions, `FlattenSeq` of a function or sets of indices where a fold, a
filter of a sequence or a recursive operator would do for TLC alone.

### What is only model-checked

`EveryCallReturns`, `ModuleSettles` and `ProgramsEnd`: liveness under fairness is out of the
prover's reach.  Every other property of a passing run is a theorem.

## What is not modelled

* the value of the heartbeat's timestamp, which nothing reads, and its ioctl;
* a last chunk smaller than the bounce buffer: sizes are multiples of it; what a copy does to
  memory, BAR0 and VRAM beyond the place it goes to;
* the mapping of a BAR as such: the ranges may change under it, and only the addresses
  computed from them are followed;
* u64 to u32 conversions in the driver: values are below 2^32 (`Drops` models the
  compiler's);
* fields of `struct exec_result` that are stack garbage on success
  (`error_packet`, `error_msg`), which read as 0 here;
* failures of probe before it stores the device: no effect on the state here;
* `vitriol_alka_legacy.c`: `Kbuild` does not list it, and it does not compile (it uses
  `struct vetriol_device` at line 639);
* the layouts of the ioctls' structures and their numbers: they agree between
  `alka_run.zig` and `vitriol_alka.h`, and nothing depends on them here; the methods of the
  executor that have no caller (`mapBar`, `queryOps` and so on);
* the wording and the exit status of the programs;
* two processes of `alka` at once, which share `/tmp/alka_proof.smt2` and may share the
  output files; what is only printed (warnings, suggestions, `analyzeWithTools`);
* the older compiler, its parser and its code generator, which the command line does not
  reach; the scanner (sysfs I/O and text, and it finds no card); the GGUF reader, which
  prints a plan that nothing reads; the language server and the build generators.

## Plan

1. (done) `AlkaOpcodes`, `Athanor`, `AthanorProps`, `Azoth`, `SerialLimits`,
   `AthanorHistory`, theorems about the driver.
2. (done) `Recipe`, `Vial`, `ToolChecks`, `ChainRules`, `Drops`, `SafetyInjector`, `Prover`,
   `MockExecutor`, composed in `Alkac`; `BinaryInOrder`.
3. (done) `AthanorLife` and `Binder`, composed; `Executor`; `MooreStream`; the theorems of
   `LifeProofs`, `BatchProofs`, `AlkacProofs`, `RecipeProofs` and `NoNullPointer`.
4. (done) `FilePair` and `Compilation`: the abstract specification of the command line, which
   `Alkac` implements.
5. (done) `HistoryProofs`, `PacketProofs`, `CompilerTyped`, `BarriersAreKept`, `FilesArePaired`: every
   safety property of the passing runs is proved.
6. (done) `CompilerImplementsFilePair`: the proof that `Alkac` implements `FilePair`.
7. A reference definition of `parseVial` over whole blocks, as `Compilation` has one of the
   other passes; until then `ParseVial` is both (the line automaton is the definition).
