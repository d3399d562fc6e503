----------------------------- MODULE AthanorLife -----------------------------
(***************************************************************************)
(* The life of the driver around its ioctls: vitriol_init and vitriol_exit *)
(* acquire and release what the module is made of, /dev/vitriol is opened  *)
(* and closed, and the PCI core probes and removes the driver for every    *)
(* card of vitriol_pci_ids, while there is one g_dev for all of them.      *)
(*                                                                         *)
(* Here a step is one acquisition or release, one allocation, one store:   *)
(* what another card's probe or remove, or an open, can come between.  What*)
(* a batch does to the device is in Athanor.  With opcode_handlers as built*)
(* (AlkaOpcodes) no packet reaches op_claim, the only handler that writes  *)
(* g_dev->pdev.                                                            *)
(***************************************************************************)
EXTENDS Naturals, FiniteSets

CONSTANTS
  Cards,          \* the cards of vitriol_pci_ids in the machine
  NoCard,         \* a null pointer
  Hosts,          \* processes that may open /dev/vitriol
  OtherDrivers,   \* the other PCI drivers a card can be bound to
  MaxLoads        \* bound: how often the module is loaded

ASSUME CardsAssumption == NoCard \notin Cards
ASSUME DriversAssumption == OtherDrivers \cap {"none", "gone", "athanor"} = {}
ASSUME LoadsAssumption == MaxLoads \in Nat

\* What vitriol_init acquires, in this order, and vitriol_exit releases.
Acquired == <<"g_dev", "chrdev region", "cdev", "class", "device node", "pci driver">>
All == 6
GDev == 1         \* held >= GDev: g_dev points to memory that is not freed
Node == 5         \* held >= Node: /dev/vitriol is there

VARIABLES
  mod,            \* the state of the module in the kernel
  held,           \* how many of Acquired there are
  loads,
  owner,          \* card -> its driver, "none", or "gone" from the bus
  at,             \* card -> where probe or remove for it is
  hot,            \* the cards being removed from the bus
  \* fields of g_dev, each the card it was last set for
  pdev, dma_buffer, metapage, heartbeat_thread,
  heap,           \* what dma_alloc_coherent gave and has not got back
  beating,        \* heartbeat threads that run, by the card they were started for
  file,           \* process -> its file of /dev/vitriol
  \* history
  misfreed,       \* memory was freed twice, or for a card it was not allocated for
  overlap,        \* a card was probed while another one was bound
  late,           \* cards whose last probe failed after it stored the device
  early           \* files that were opened before vitriol_init succeeded

modvars  == <<mod, held, loads>>
busvars  == <<owner, at, hot>>
devvars  == <<pdev, dma_buffer, metapage, heartbeat_thread>>
memvars  == <<heap, beating>>
cardhist == <<misfreed, overlap, late>>
cardvars == <<busvars, devvars, memvars, cardhist>>
filevars == <<file, early>>
lifevars == <<modvars, cardvars, filevars>>

Drivers  == {"athanor"} \cup OtherDrivers
Owners   == {"none", "gone"} \cup Drivers
Points   == {"rest", "stored", "buffered", "paged", "stopped", "unpaged"}
Blocks   == {"dma_buffer", "metapage"}
Pointers == Cards \cup {NoCard}

\* The device lock of the card is free.
AtRest(c) == at[c] = "rest"
\* The PCI core knows the driver.
Registered == held = All

LifeInit ==
  /\ mod = "out" /\ held = 0 /\ loads = 0
  /\ owner \in [Cards -> {"none"} \cup OtherDrivers]
  /\ at = [c \in Cards |-> "rest"] /\ hot = {}
  /\ pdev = NoCard /\ dma_buffer = NoCard /\ metapage = NoCard /\ heartbeat_thread = NoCard
  /\ heap = {} /\ beating = {}
  /\ file = [h \in Hosts |-> "closed"]
  /\ misfreed = FALSE /\ overlap = FALSE /\ late = {} /\ early = {}

-----------------------------------------------------------------------------
(* vitriol_init and vitriol_exit.                                          *)

Load ==
  /\ mod = "out" /\ loads < MaxLoads
  /\ mod' = "coming" /\ loads' = loads + 1
  /\ UNCHANGED <<held, cardvars, filevars>>

\* g_dev is zeroed when it is allocated.
Acquire ==
  /\ mod = "coming" /\ held < All
  /\ held' = held + 1
  /\ IF held' = GDev
     THEN pdev' = NoCard /\ dma_buffer' = NoCard /\ metapage' = NoCard /\ heartbeat_thread' = NoCard
     ELSE UNCHANGED devvars
  /\ UNCHANGED <<mod, loads, busvars, memvars, cardhist, filevars>>

\* Mutant: what could not be acquired is released too.
AcquireFailsOver ==
  /\ mod = "coming" /\ held < All
  /\ mod' = "failing"
  /\ UNCHANGED <<held, loads, cardvars, filevars>>

\* What was acquired before is released in the opposite order.
AcquireFails ==
  /\ mod = "coming" /\ held < All
  /\ mod' = IF held = 0 THEN "out" ELSE "failing"
  /\ UNCHANGED <<held, loads, cardvars, filevars>>

Loaded ==
  /\ mod = "coming" /\ Registered
  /\ mod' = "live"
  /\ early' = { h \in early : file[h] = "dangling" }
  /\ UNCHANGED <<held, loads, cardvars, file>>

\* Mutant: file_operations without .owner, so that a file does not hold the module.
PinsNothing == FALSE

\* The owner of the cdev: an open file keeps the module from being unloaded.
Pins == \E h \in Hosts : file[h] = "open"

Unload ==
  /\ mod = "live" /\ ~Pins
  /\ mod' = "going"
  /\ UNCHANGED <<held, loads, cardvars, filevars>>

\* pci_unregister_driver waits until no card is bound.  kfree(g_dev) is last,
\* and is under whatever file is still open.
Release ==
  /\ mod \in {"failing", "going"}
  /\ Registered => \A c \in Cards : owner[c] # "athanor"
  /\ held' = held - 1
  /\ IF held' = 0
     THEN /\ mod' = "out"
          /\ file' = [h \in Hosts |-> IF file[h] = "open" THEN "dangling" ELSE file[h]]
     ELSE UNCHANGED <<mod, file>>
  /\ UNCHANGED <<loads, cardvars, early>>

\* While vitriol_init runs, its failure included, the module may be pinned.
Open(h) ==
  /\ held >= Node /\ mod \in {"coming", "failing", "live"} /\ file[h] = "closed"
  /\ file' = [file EXCEPT ![h] = "open"]
  /\ early' = IF mod = "live" THEN early ELSE early \cup {h}
  /\ UNCHANGED <<modvars, cardvars>>

Close(h) ==
  /\ file[h] = "open"
  /\ file' = [file EXCEPT ![h] = "closed"]
  /\ early' = early \ {h}
  /\ UNCHANGED <<modvars, cardvars>>

-----------------------------------------------------------------------------
(* vitriol_pci_probe.  The PCI core calls probe and remove for one card at  *)
(* a time, but for two cards at once.  A probe that fails before it stores  *)
(* the device has no effect here.                                           *)
ProbeDevice(c) ==
  /\ mod \in {"coming", "live"} /\ Registered /\ owner[c] = "none"
  /\ owner' = [owner EXCEPT ![c] = "athanor"] /\ at' = [at EXCEPT ![c] = "stored"]
  /\ pdev' = c
  /\ overlap' = (overlap \/ \E d \in Cards \ {c} : owner[d] = "athanor")
  /\ late' = late \ {c}
  /\ UNCHANGED <<hot, dma_buffer, metapage, heartbeat_thread, memvars, misfreed, modvars, filevars>>

\* err_regions and err_disable, and the PCI core takes the driver back.
Withdraw(c) ==
  /\ owner' = [owner EXCEPT ![c] = "none"] /\ at' = [at EXCEPT ![c] = "rest"]
  /\ late' = late \cup {c}
  /\ UNCHANGED hot

ProbeBuffer(c) ==
  /\ at[c] = "stored"
  /\ \/ /\ dma_buffer' = c /\ heap' = heap \cup {<<c, "dma_buffer">>}
        /\ at' = [at EXCEPT ![c] = "buffered"]
        /\ UNCHANGED <<owner, hot, late>>
     \/ dma_buffer' = NoCard /\ Withdraw(c) /\ UNCHANGED heap
  /\ UNCHANGED <<pdev, metapage, heartbeat_thread, beating, misfreed, overlap, modvars, filevars>>

\* dma_free_coherent(&pdev->dev, ..., p): the block p points to goes.
Freed(p, b) == heap \ {<<p, b>>}
Misfree(c, p, b) == p # c \/ <<p, b>> \notin heap

\* Mutant: err_dma is missing, the failure goes straight to err_regions.
ProbePageLeaks(c) ==
  /\ at[c] = "buffered"
  /\ \/ /\ metapage' = c /\ heap' = heap \cup {<<c, "metapage">>}
        /\ at' = [at EXCEPT ![c] = "paged"]
        /\ UNCHANGED <<owner, hot, late, misfreed>>
     \/ metapage' = NoCard /\ Withdraw(c) /\ UNCHANGED <<heap, misfreed>>
  /\ UNCHANGED <<pdev, dma_buffer, heartbeat_thread, beating, overlap, modvars, filevars>>

\* Mutant: err_dma frees the bounce buffer and the probe succeeds.
ProbePageGoesOn(c) ==
  /\ at[c] = "buffered"
  /\ \/ /\ metapage' = c /\ heap' = heap \cup {<<c, "metapage">>}
        /\ at' = [at EXCEPT ![c] = "paged"]
     \/ /\ metapage' = NoCard /\ heap' = Freed(dma_buffer, "dma_buffer")
        /\ at' = [at EXCEPT ![c] = "rest"]
  /\ UNCHANGED <<owner, hot, late, misfreed, pdev, dma_buffer, heartbeat_thread, beating, overlap, modvars, filevars>>

\* err_dma frees the bounce buffer and leaves the pointer.
ProbePage(c) ==
  /\ at[c] = "buffered"
  /\ \/ /\ metapage' = c /\ heap' = heap \cup {<<c, "metapage">>}
        /\ at' = [at EXCEPT ![c] = "paged"]
        /\ UNCHANGED <<owner, hot, late, misfreed>>
     \/ /\ metapage' = NoCard
        /\ heap' = Freed(dma_buffer, "dma_buffer")
        /\ misfreed' = (misfreed \/ Misfree(c, dma_buffer, "dma_buffer"))
        /\ Withdraw(c)
  /\ UNCHANGED <<pdev, dma_buffer, heartbeat_thread, beating, overlap, modvars, filevars>>

\* Without its heartbeat the card is bound all the same.
ProbeThread(c) ==
  /\ at[c] = "paged"
  /\ \/ heartbeat_thread' = c /\ beating' = beating \cup {c}
     \/ heartbeat_thread' = NoCard /\ UNCHANGED beating
  /\ at' = [at EXCEPT ![c] = "rest"]
  /\ UNCHANGED <<owner, hot, pdev, dma_buffer, metapage, heap, cardhist, modvars, filevars>>

-----------------------------------------------------------------------------
(* vitriol_pci_remove: for a driver that is unbound or unregistered, or for *)
(* a card that leaves the bus.                                              *)

\* Mutant: remove forgets the thread.
StopNothing == UNCHANGED <<heartbeat_thread, beating>>

\* Mutant: kthread_stop of a thread that never started, which does not return.
StopAlways == heartbeat_thread # NoCard /\ heartbeat_thread' = NoCard /\ beating' = beating \ {heartbeat_thread}

\* kthread_stop returns when the thread has.
StopHeartbeat == heartbeat_thread' = NoCard /\ beating' = beating \ {heartbeat_thread}

RemoveThread(c, leaving) ==
  /\ owner[c] = "athanor" /\ AtRest(c)
  /\ at' = [at EXCEPT ![c] = "stopped"]
  /\ hot' = IF leaving THEN hot \cup {c} ELSE hot
  /\ StopHeartbeat
  /\ UNCHANGED <<owner, pdev, dma_buffer, metapage, heap, cardhist, modvars, filevars>>

\* Neither pointer is cleared.
RemovePages(c) ==
  /\ at[c] = "stopped"
  /\ heap' = heap \ {<<metapage, "metapage">>, <<dma_buffer, "dma_buffer">>}
  /\ misfreed' = (misfreed \/ (metapage # NoCard /\ Misfree(c, metapage, "metapage"))
                           \/ (dma_buffer # NoCard /\ Misfree(c, dma_buffer, "dma_buffer")))
  /\ at' = [at EXCEPT ![c] = "unpaged"]
  /\ UNCHANGED <<owner, hot, devvars, beating, overlap, late, modvars, filevars>>

\* Mutant: remove leaves g_dev->pdev.
RemoveDeviceKept(c) ==
  /\ at[c] = "unpaged"
  /\ owner' = [owner EXCEPT ![c] = IF c \in hot THEN "gone" ELSE "none"]
  /\ at' = [at EXCEPT ![c] = "rest"] /\ hot' = hot \ {c}
  /\ UNCHANGED <<devvars, memvars, cardhist, modvars, filevars>>

RemoveDevice(c) ==
  /\ at[c] = "unpaged"
  /\ pdev' = NoCard
  /\ owner' = [owner EXCEPT ![c] = IF c \in hot THEN "gone" ELSE "none"]
  /\ at' = [at EXCEPT ![c] = "rest"] /\ hot' = hot \ {c}
  /\ UNCHANGED <<dma_buffer, metapage, heartbeat_thread, memvars, cardhist, modvars, filevars>>

-----------------------------------------------------------------------------
(* Cards and the other drivers.                                            *)
BusOnly == UNCHANGED <<at, hot, devvars, memvars, cardhist, modvars, filevars>>

Take(c, d) ==
  /\ owner[c] = "none" /\ d \in OtherDrivers
  /\ owner' = [owner EXCEPT ![c] = d] /\ BusOnly

Leave(c) ==
  /\ owner[c] \in OtherDrivers
  /\ owner' = [owner EXCEPT ![c] = "none"] /\ BusOnly

Disappear(c) ==
  /\ owner[c] \in OtherDrivers \cup {"none"}
  /\ owner' = [owner EXCEPT ![c] = "gone"] /\ BusOnly

Rescan ==
  /\ owner' = [c \in Cards |-> IF owner[c] = "gone" THEN "none" ELSE owner[c]]
  /\ BusOnly

-----------------------------------------------------------------------------
ModuleStep == Load \/ Acquire \/ AcquireFails \/ Loaded \/ Unload \/ Release
ProbeStep(c) == ProbeBuffer(c) \/ ProbePage(c) \/ ProbeThread(c)
RemoveStep(c) == RemovePages(c) \/ RemoveDevice(c)
Detach(c) == mod = "going" /\ RemoveThread(c, FALSE)

FileStep(h) == Open(h) \/ Close(h)
CardStep(c) ==
  \/ ProbeDevice(c) \/ ProbeStep(c) \/ RemoveStep(c)
  \/ \E leaving \in BOOLEAN : RemoveThread(c, leaving)
  \/ \E d \in OtherDrivers : Take(c, d)
  \/ Leave(c) \/ Disappear(c)

LifeNext ==
  \/ ModuleStep
  \/ \E h \in Hosts : FileStep(h)
  \/ \E c \in Cards : CardStep(c)
  \/ Rescan

LifeSpec == LifeInit /\ [][LifeNext]_lifevars
=============================================================================
