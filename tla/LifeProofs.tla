------------------------------ MODULE LifeProofs ------------------------------
(***************************************************************************)
(* Proofs about the life of the driver and the programs around it, for any *)
(* cards, programs, jobs and number of loads.  The inductive invariant is  *)
(* that of AthanorLife alone; Binder implements AthanorLife, so it carries *)
(* over to the programs.                                                   *)
(***************************************************************************)
EXTENDS LifeProps, TLAPS

USE DEF All, GDev, Node

\* What there is of the module, for each of its states.
ModuleInv ==
  /\ mod = "out" => held = 0
  /\ mod = "live" => held = All
  /\ mod = "failing" => held \in 1 .. All - 1
  /\ mod = "going" => held \in 1 .. All

\* probe and remove are only at work on a card of the driver, and a card of the
\* driver keeps the PCI driver registered.
BoundInv ==
  \A c \in Cards :
    /\ ~AtRest(c) => owner[c] = "athanor"
    /\ owner[c] = "athanor" => Registered /\ mod \in {"coming", "live", "going"}

\* Where probe and remove of a card are while the block is its own.
HasPoints(b) == IF b = "metapage" THEN {"paged", "rest", "stopped"}
                                  ELSE {"buffered", "paged", "rest", "stopped"}

\* The one bound card has its blocks and nobody else has any; the pointers of
\* g_dev lead to them; and the thread beats for it.
OnlyOne == \A c, d \in Cards : owner[c] = "athanor" /\ owner[d] = "athanor" => c = d
HeapInv == \A c \in Cards, b \in Blocks :
             <<c, b>> \in heap <=> owner[c] = "athanor" /\ at[c] \in HasPoints(b)
PointerInv ==
  \A c \in Cards :
    /\ <<c, "dma_buffer">> \in heap => dma_buffer = c
    /\ <<c, "metapage">> \in heap => metapage = c
BeatInv == \A c \in beating : owner[c] = "athanor" /\ AtRest(c) /\ heartbeat_thread = c

OneCardInv == ~overlap => ~misfreed /\ OnlyOne /\ HeapInv /\ PointerInv /\ BeatInv

\* A file is open only while it keeps the module from going, or while vitriol_init
\* is at work and the file was opened before its success.
FileInv ==
  \A h \in Hosts :
    /\ file[h] = "open" => mod = "live" \/ (mod \in {"coming", "failing"} /\ held >= GDev /\ h \in early)
    /\ file[h] = "dangling" => h \in early

LifeInv ==
  /\ ModuleTypeOK /\ CardTypeOK
  /\ ModuleInv /\ BoundInv /\ OneCardInv /\ FileInv /\ PdevIsBound

-----------------------------------------------------------------------------
(* The initial states, and one lemma for each part of the invariant.       *)

LEMMA LifeInitInv == LifeInit => LifeInv
<1>. SUFFICES ASSUME LifeInit PROVE LifeInv
  OBVIOUS
<1>. USE DriversAssumption, CardsAssumption, LoadsAssumption DEF LifeInit
<1>1. ModuleTypeOK
  BY DEF ModuleTypeOK
<1>2. CardTypeOK
  <2>1. owner \in [Cards -> Owners] /\ at \in [Cards -> Points] /\ hot \in SUBSET Cards
    BY DEF Owners, Drivers, Points
  <2>2. /\ pdev \in Pointers /\ dma_buffer \in Pointers
        /\ metapage \in Pointers /\ heartbeat_thread \in Pointers
    BY DEF Pointers
  <2>3. /\ heap \in SUBSET (Cards \X Blocks) /\ beating \in SUBSET Cards
        /\ misfreed \in BOOLEAN /\ overlap \in BOOLEAN /\ late \in SUBSET Cards
    OBVIOUS
  <2>. HIDE DEF LifeInit
  <2>. QED
    BY <2>1, <2>2, <2>3 DEF CardTypeOK
<1>3. ModuleInv /\ BoundInv /\ FileInv /\ PdevIsBound
  BY DEF ModuleInv, BoundInv, FileInv, PdevIsBound, AtRest, Registered
<1>4. OneCardInv
  BY DEF OneCardInv, OnlyOne, HeapInv, PointerInv, BeatInv
<1>. QED
  BY <1>1, <1>2, <1>3, <1>4 DEF LifeInv

\* A step of the module changes no card, and of g_dev only clears the fields.
LEMMA ModuleStepFrame ==
  ASSUME ModuleTypeOK, ModuleInv, ModuleStep
  PROVE  /\ ModuleTypeOK' /\ ModuleInv'
         /\ UNCHANGED <<owner, at, hot, heap, beating, misfreed, overlap, late>>
         /\ UNCHANGED devvars \/ (mod = "coming" /\ held = 0 /\ held' = GDev /\ pdev' = NoCard /\ dma_buffer' = NoCard
                                  /\ metapage' = NoCard /\ heartbeat_thread' = NoCard)
<1>. USE LoadsAssumption DEF ModuleTypeOK, ModuleInv, Registered,
       busvars, devvars, memvars, cardhist, cardvars, filevars
<1>1. CASE Load
  BY <1>1 DEF Load
<1>2. CASE Acquire
  BY <1>2 DEF Acquire
<1>3. CASE AcquireFails
  BY <1>3 DEF AcquireFails
<1>4. CASE Loaded
  BY <1>4 DEF Loaded
<1>5. CASE Unload
  BY <1>5 DEF Unload
<1>6. CASE Release
  BY <1>6 DEF Release
<1>. QED
  BY <1>1, <1>2, <1>3, <1>4, <1>5, <1>6, ModuleStep DEF ModuleStep

LEMMA ModuleStepInv == LifeInv /\ ModuleStep => LifeInv'
<1>. SUFFICES ASSUME LifeInv, ModuleStep PROVE LifeInv'
  OBVIOUS
<1>1. ModuleTypeOK /\ CardTypeOK /\ ModuleInv /\ BoundInv /\ OneCardInv /\ FileInv /\ PdevIsBound
  BY DEF LifeInv
<1>2. /\ ModuleTypeOK' /\ ModuleInv'
      /\ UNCHANGED <<owner, at, hot, heap, beating, misfreed, overlap, late>>
      /\ UNCHANGED devvars \/ (mod = "coming" /\ held = 0 /\ held' = GDev /\ pdev' = NoCard /\ dma_buffer' = NoCard
                               /\ metapage' = NoCard /\ heartbeat_thread' = NoCard)
  BY <1>1, ModuleStepFrame
<1>3. CardTypeOK'
  BY <1>1, <1>2 DEF CardTypeOK, devvars, Pointers
<1>4. ASSUME NEW c \in Cards, owner[c] = "athanor"
      PROVE  (Registered /\ mod \in {"coming", "live", "going"})'
  <2>1. Registered /\ mod \in {"coming", "live", "going"}
    BY <1>1, <1>4 DEF BoundInv
  <2>. QED
    BY <2>1, <1>4 DEF ModuleStep, Load, Acquire, AcquireFails, Loaded, Unload, Release, Registered
<1>5. BoundInv'
  BY <1>1, <1>2, <1>4 DEF BoundInv, AtRest
<1>6. OneCardInv'
  <2>1. CASE UNCHANGED devvars
    BY <1>1, <1>2, <2>1 DEF OneCardInv, OnlyOne, HeapInv, PointerInv, BeatInv, HasPoints, AtRest, devvars
  <2>2. CASE held = 0
    <3>1. \A c \in Cards : owner[c] # "athanor"
      BY <1>1, <2>2 DEF BoundInv, Registered
    <3>. QED
      BY <1>1, <1>2, <3>1 DEF OneCardInv, OnlyOne, HeapInv, PointerInv, BeatInv, CardTypeOK, Blocks
  <2>. QED
    BY <1>2, <2>1, <2>2
<1>7. FileInv'
  <2>. USE <1>1 DEF FileInv, ModuleTypeOK, ModuleInv, filevars
  <2>1. CASE Load
    BY <2>1 DEF Load
  <2>2. CASE Acquire
    BY <2>2 DEF Acquire
  <2>6. CASE AcquireFails
    BY <2>6 DEF AcquireFails
  <2>3. CASE Loaded
    BY <2>3 DEF Loaded
  <2>4. CASE Unload
    BY <2>4 DEF Unload, Pins
  <2>5. CASE Release
    BY <2>5 DEF Release
  <2>. QED
    BY <2>1, <2>2, <2>3, <2>4, <2>5, <2>6, ModuleStep DEF ModuleStep
<1>8. PdevIsBound'
  BY <1>1, <1>2, CardsAssumption, ModuleStep DEF PdevIsBound, devvars, ModuleTypeOK, ModuleInv, ModuleStep,
     Load, Acquire, AcquireFails, Loaded, Unload, Release
<1>. QED
  BY <1>2, <1>3, <1>5, <1>6, <1>7, <1>8 DEF LifeInv

\* Opening and closing touch nothing else.
LEMMA FileStepInv == LifeInv /\ (\E h \in Hosts : FileStep(h)) => LifeInv'
<1>. SUFFICES ASSUME LifeInv, NEW h \in Hosts, FileStep(h) PROVE LifeInv'
  OBVIOUS
<1>. USE DEF LifeInv, FileStep, modvars, cardvars, busvars, devvars, memvars, cardhist
<1>1. ModuleTypeOK' /\ FileInv'
  <2>1. CASE Open(h)
    BY <2>1 DEF Open, ModuleTypeOK, FileInv
  <2>2. CASE Close(h)
    BY <2>2 DEF Close, ModuleTypeOK, FileInv
  <2>. QED
    BY <2>1, <2>2
<1>2. CardTypeOK' /\ ModuleInv' /\ BoundInv' /\ PdevIsBound'
  BY DEF Open, Close, CardTypeOK, ModuleInv, BoundInv, AtRest, Registered, PdevIsBound
<1>3. OneCardInv'
  BY DEF Open, Close, OneCardInv, OnlyOne, HeapInv, PointerInv, BeatInv, AtRest
<1>. QED
  BY <1>1, <1>2, <1>3

\* A step of a card leaves the module and the files alone.
LEMMA CardStepFrame ==
  ASSUME NEW c \in Cards, CardStep(c), ModuleTypeOK, ModuleInv, FileInv
  PROVE  UNCHANGED modvars /\ UNCHANGED filevars /\ ModuleTypeOK' /\ ModuleInv' /\ FileInv'
<1>1. UNCHANGED modvars /\ UNCHANGED filevars
  BY DEF CardStep, ProbeStep, RemoveStep, ProbeDevice, ProbeBuffer, ProbePage, ProbeThread,
     RemoveThread, RemovePages, RemoveDevice, Take, Leave, Disappear, BusOnly
<1>. QED
  BY <1>1 DEF ModuleTypeOK, ModuleInv, FileInv, modvars, filevars

LEMMA CardStepTypes ==
  ASSUME NEW c \in Cards, CardStep(c), CardTypeOK
  PROVE  CardTypeOK'
<1>. USE DEF CardTypeOK, Owners, Drivers, Points, Pointers, Blocks, devvars, memvars, cardhist
<1>1. CASE ProbeDevice(c)
  BY <1>1 DEF ProbeDevice
<1>2. CASE ProbeBuffer(c)
  BY <1>2 DEF ProbeBuffer, Withdraw
<1>3. CASE ProbePage(c)
  <2>1. heap' \in SUBSET (Cards \X Blocks) /\ metapage' \in Pointers
    <3>1. heap' \subseteq heap \cup {<<c, "metapage">>}
      BY <1>3 DEF ProbePage, Freed
    <3>. QED
      BY <1>3, <3>1 DEF ProbePage
  <2>4. misfreed' \in BOOLEAN
    BY <1>3 DEF ProbePage, Misfree
  <2>2. owner' \in [Cards -> Owners] /\ at' \in [Cards -> Points] /\ late' \in SUBSET Cards /\ hot' = hot
    BY <1>3 DEF ProbePage, Withdraw
  <2>3. UNCHANGED <<pdev, dma_buffer, heartbeat_thread, beating, overlap>>
    BY <1>3 DEF ProbePage
  <2>. QED
    BY <2>1, <2>2, <2>3, <2>4
<1>4. CASE ProbeThread(c)
  BY <1>4 DEF ProbeThread
<1>5. CASE \E leaving \in BOOLEAN : RemoveThread(c, leaving)
  BY <1>5 DEF RemoveThread, StopHeartbeat
<1>6. CASE RemovePages(c)
  BY <1>6 DEF RemovePages, Misfree
<1>7. CASE RemoveDevice(c)
  BY <1>7 DEF RemoveDevice
<1>8. CASE (\E d \in OtherDrivers : Take(c, d)) \/ Leave(c) \/ Disappear(c)
  BY <1>8 DEF Take, Leave, Disappear, BusOnly
<1>. QED
  BY <1>1, <1>2, <1>3, <1>4, <1>5, <1>6, <1>7, <1>8 DEF CardStep, ProbeStep, RemoveStep

LEMMA CardStepBound ==
  ASSUME NEW c \in Cards, CardStep(c), CardTypeOK, BoundInv, PdevIsBound
  PROVE  BoundInv' /\ PdevIsBound'
<1>. USE DriversAssumption, CardsAssumption
         DEF CardTypeOK, BoundInv, PdevIsBound, AtRest, Registered, Pointers, modvars, devvars, memvars, cardhist
<1>1. CASE ProbeDevice(c)
  BY <1>1 DEF ProbeDevice
<1>2. CASE ProbeBuffer(c)
  BY <1>2 DEF ProbeBuffer, Withdraw
<1>3. CASE ProbePage(c)
  BY <1>3 DEF ProbePage, Withdraw
<1>4. CASE ProbeThread(c)
  BY <1>4 DEF ProbeThread
<1>5. CASE \E leaving \in BOOLEAN : RemoveThread(c, leaving)
  BY <1>5 DEF RemoveThread
<1>6. CASE RemovePages(c)
  BY <1>6 DEF RemovePages
<1>7. CASE RemoveDevice(c)
  BY <1>7 DEF RemoveDevice
<1>8. CASE (\E d \in OtherDrivers : Take(c, d)) \/ Leave(c) \/ Disappear(c)
  BY <1>8 DEF Take, Leave, Disappear, BusOnly
<1>. QED
  BY <1>1, <1>2, <1>3, <1>4, <1>5, <1>6, <1>7, <1>8 DEF CardStep, ProbeStep, RemoveStep

\* The one-card case: with ~overlap after the step there was none before.
LEMMA CardStepAlone ==
  ASSUME NEW c \in Cards, CardStep(c), CardTypeOK, BoundInv, OneCardInv
  PROVE  OneCardInv'
<1>. SUFFICES ASSUME ~overlap'
              PROVE  ~misfreed' /\ OnlyOne' /\ HeapInv' /\ PointerInv' /\ BeatInv'
  BY DEF OneCardInv
<1>. USE DriversAssumption, CardsAssumption DEF AtRest, Blocks, HasPoints, devvars, memvars, cardhist
<1>0. ~overlap
  BY DEF CardStep, ProbeStep, RemoveStep, ProbeDevice, ProbeBuffer, ProbePage, ProbeThread,
     RemoveThread, RemovePages, RemoveDevice, Take, Leave, Disappear, BusOnly, CardTypeOK
<1>00. ~misfreed /\ OnlyOne /\ HeapInv /\ PointerInv /\ BeatInv
  BY <1>0 DEF OneCardInv
<1>. USE <1>00 DEF CardTypeOK
<1>1. CASE ProbeDevice(c)
  <2>1. \A d \in Cards : owner[d] # "athanor"
    BY <1>1 DEF ProbeDevice
  <2>2. heap = {}
    <3>1. \A d \in Cards, b \in Blocks : <<d, b>> \notin heap
      BY <2>1 DEF HeapInv
    <3>2. heap \subseteq Cards \X Blocks
      BY DEF CardTypeOK
    <3>3. ASSUME NEW p \in heap PROVE FALSE
      <4>1. PICK d \in Cards, b \in Blocks : p = <<d, b>>
        BY <3>2
      <4>. QED
        BY <3>1, <4>1
    <3>. QED
      BY <3>3
  <2>3. beating = {}
    BY <2>1 DEF BeatInv
  <2>. QED
    BY <1>1, <2>1, <2>2, <2>3 DEF ProbeDevice, OnlyOne, HeapInv, PointerInv, BeatInv
<1>2. CASE ProbeBuffer(c)
  BY <1>2 DEF ProbeBuffer, Withdraw, BoundInv, OnlyOne, HeapInv, PointerInv, BeatInv
<1>3. CASE ProbePage(c)
  <2>1. owner[c] = "athanor" /\ dma_buffer = c /\ <<c, "dma_buffer">> \in heap
    BY <1>3 DEF ProbePage, BoundInv, HeapInv, PointerInv
  <2>2. ~misfreed'
    BY <1>3, <2>1 DEF ProbePage, Misfree
  <2>3. OnlyOne' /\ BeatInv'
    BY <1>3, <2>1 DEF ProbePage, Withdraw, OnlyOne, BeatInv
  <2>4. CASE at'[c] = "paged"
    <3>1. heap' = heap \cup {<<c, "metapage">>} /\ metapage' = c /\ owner' = owner /\ dma_buffer' = dma_buffer
      BY <1>3, <2>4 DEF ProbePage, Withdraw
    <3>2. at' = [at EXCEPT ![c] = "paged"] /\ at[c] = "buffered"
      BY <1>3, <2>4 DEF ProbePage, Withdraw
    <3>3. HeapInv'
      BY <2>1, <3>1, <3>2 DEF HeapInv, OnlyOne
    <3>. QED
      BY <2>1, <2>2, <2>3, <3>1, <3>3 DEF PointerInv, HeapInv, OnlyOne
  <2>5. CASE at'[c] # "paged"
    <3>1. heap' = heap \ {<<c, "dma_buffer">>} /\ owner' = [owner EXCEPT ![c] = "none"] /\ dma_buffer' = dma_buffer
      BY <1>3, <2>1, <2>5 DEF ProbePage, Withdraw, Freed
    <3>2. at' = [at EXCEPT ![c] = "rest"] /\ at[c] = "buffered"
      BY <1>3, <2>5 DEF ProbePage, Withdraw
    <3>3. \A d \in Cards : owner[d] = "athanor" => d = c
      BY <2>1 DEF OnlyOne
    <3>4. HeapInv'
      BY <2>1, <3>1, <3>2, <3>3 DEF HeapInv
    <3>5. \A d \in Cards : owner'[d] # "athanor"
      BY <3>1, <3>3
    <3>. QED
      BY <2>2, <2>3, <3>4, <3>5 DEF PointerInv, HeapInv
  <2>. QED
    BY <2>2, <2>3, <2>4, <2>5
<1>4. CASE ProbeThread(c)
  BY <1>4 DEF ProbeThread, BoundInv, OnlyOne, HeapInv, PointerInv, BeatInv
<1>5. CASE \E leaving \in BOOLEAN : RemoveThread(c, leaving)
  BY <1>5 DEF RemoveThread, StopHeartbeat, OnlyOne, HeapInv, PointerInv, BeatInv
<1>6. CASE RemovePages(c)
  BY <1>6 DEF RemovePages, Misfree, BoundInv, OnlyOne, HeapInv, PointerInv, BeatInv
<1>7. CASE RemoveDevice(c)
  BY <1>7 DEF RemoveDevice, BoundInv, OnlyOne, HeapInv, PointerInv, BeatInv
<1>8. CASE (\E d \in OtherDrivers : Take(c, d)) \/ Leave(c) \/ Disappear(c)
  BY <1>8 DEF Take, Leave, Disappear, BusOnly, OnlyOne, HeapInv, PointerInv, BeatInv
<1>. QED
  BY <1>1, <1>2, <1>3, <1>4, <1>5, <1>6, <1>7, <1>8 DEF CardStep, ProbeStep, RemoveStep

LEMMA CardStepInv == LifeInv /\ (\E c \in Cards : CardStep(c)) => LifeInv'
<1>. SUFFICES ASSUME LifeInv, NEW c \in Cards, CardStep(c) PROVE LifeInv'
  OBVIOUS
<1>1. ModuleTypeOK' /\ ModuleInv' /\ FileInv'
  BY CardStepFrame DEF LifeInv
<1>2. CardTypeOK' /\ BoundInv' /\ PdevIsBound' /\ OneCardInv'
  BY CardStepTypes, CardStepBound, CardStepAlone DEF LifeInv
<1>. QED
  BY <1>1, <1>2 DEF LifeInv

\* A rescan gives cards back that have no driver.
LEMMA RescanInv == LifeInv /\ Rescan => LifeInv'
<1>. SUFFICES ASSUME LifeInv, Rescan PROVE LifeInv'
  OBVIOUS
<1>. USE DEF LifeInv, Rescan, BusOnly, devvars, memvars, cardhist, modvars, filevars
<1>1. CardTypeOK' /\ \A c \in Cards : owner'[c] = "athanor" <=> owner[c] = "athanor"
  BY DEF CardTypeOK, Owners, Drivers
<1>2. ModuleTypeOK' /\ ModuleInv' /\ FileInv'
  BY DEF ModuleTypeOK, ModuleInv, FileInv
<1>3. BoundInv' /\ PdevIsBound'
  BY <1>1 DEF BoundInv, AtRest, Registered, PdevIsBound, CardTypeOK, Pointers
<1>4. OneCardInv'
  BY <1>1 DEF OneCardInv, OnlyOne, HeapInv, PointerInv, BeatInv, AtRest, CardTypeOK
<1>. QED
  BY <1>1, <1>2, <1>3, <1>4

LEMMA LifeInvInductive == LifeInv /\ [LifeNext]_lifevars => LifeInv'
<1>. SUFFICES ASSUME LifeInv, [LifeNext]_lifevars PROVE LifeInv'
  OBVIOUS
<1>1. CASE UNCHANGED lifevars
  <2>. USE <1>1 DEF LifeInv, lifevars, modvars, cardvars, filevars, busvars, devvars, memvars, cardhist
  <2>1. ModuleTypeOK' /\ CardTypeOK' /\ ModuleInv' /\ BoundInv'
    BY DEF ModuleTypeOK, CardTypeOK, ModuleInv, BoundInv, AtRest, Registered
  <2>2. OneCardInv' /\ FileInv' /\ PdevIsBound'
    BY DEF OneCardInv, OnlyOne, HeapInv, PointerInv, BeatInv, AtRest, FileInv, PdevIsBound
  <2>. QED
    BY <2>1, <2>2
<1>2. CASE LifeNext
  BY <1>2, ModuleStepInv, FileStepInv, CardStepInv, RescanInv DEF LifeNext
<1>. QED
  BY <1>1, <1>2

\* The driver keeps the invariant whatever its environment does to the bus and
\* the files.
THEOREM LifeKeepsInv == LifeSpec => []LifeInv
<1>. QED
  BY LifeInitInv, LifeInvInductive, PTL DEF LifeSpec

-----------------------------------------------------------------------------
(* The programs implement the environment of AthanorLife.                  *)

LEMMA HostStepAllowed ==
  ASSUME NEW h \in Hosts, HostStep(h) \/ Kill(h), job \in [Hosts -> Jobs]
  PROVE  [LifeNext]_lifevars
<1>1. Card(h) \in Cards
  BY JobsAssumption DEF Card, Job
<1>2. CASE /\ UNCHANGED lifevars
  BY <1>2
<1>3. CASE Unbind(h)
  BY <1>1, <1>3 DEF Unbind, LifeNext, CardStep
<1>4. CASE Bind(h)
  <2>1. Take(Card(h), Target(h)) \/ ProbeDevice(Card(h))
    BY <1>4 DEF Bind
  <2>2. Take(Card(h), Target(h)) => Target(h) \in OtherDrivers
    BY DEF Take
  <2>. QED
    BY <1>1, <2>1, <2>2 DEF LifeNext, CardStep
<1>5. CASE HotRemove(h)
  BY <1>1, <1>5 DEF HotRemove, LifeNext, CardStep
<1>6. CASE HostRescan(h)
  BY <1>6 DEF HostRescan, LifeNext
<1>7. CASE HostOpen(h)
  BY <1>7 DEF HostOpen, LifeNext, FileStep
<1>8. CASE HostClose(h)
  BY <1>8 DEF HostClose, LifeNext, FileStep
<1>9. CASE Kill(h)
  BY <1>9 DEF Kill, LifeNext, FileStep
<1>. QED
  BY <1>2, <1>3, <1>4, <1>5, <1>6, <1>7, <1>8, <1>9
     DEF HostStep, FindDriver, UnbindFails, Unbound, NewId, Probed, ProbeRefused, BindFails, HotRemoveFails,
         HotRemoved, Rescanned, RescanFails, OpenFails, RunFiles

LEMMA StepAllowed == job \in [Hosts -> Jobs] /\ [Next]_vars => [LifeNext]_lifevars
<1>. SUFFICES ASSUME job \in [Hosts -> Jobs], [Next]_vars PROVE [LifeNext]_lifevars
  OBVIOUS
<1>1. CASE UNCHANGED vars
  BY <1>1 DEF vars
<1>2. CASE (Load \/ Unload \/ ModuleRuns)
  BY <1>2 DEF ModuleRuns, LifeNext, ModuleStep
<1>3. CASE \E c \in Cards : Offer(c) \/ KernelStep(c)
  BY <1>3 DEF Offer, KernelStep, Detach, LifeNext, CardStep
<1>4. CASE \E h \in Hosts : HostStep(h) \/ Kill(h)
  BY <1>4, HostStepAllowed
<1>. QED
  BY <1>1, <1>2, <1>3, <1>4 DEF Next

\* What each program is asked for does not change.
LEMMA JobsStay == Spec => [](job \in [Hosts -> Jobs])
<1>1. Init => job \in [Hosts -> Jobs]
  BY DEF Init
<1>2. job \in [Hosts -> Jobs] /\ [Next]_vars => (job \in [Hosts -> Jobs])'
  BY DEF Next, ModuleRuns, Offer, KernelStep, HostStep, FindDriver, Unbind, UnbindFails, Unbound, NewId, Bind,
     Probed, ProbeRefused, BindFails, HotRemove, HotRemoveFails, HotRemoved, HostRescan, Rescanned, RescanFails,
     HostOpen, OpenFails, RunFiles, HostClose, Kill, Goto, End, AfterBind, vars, hostvars
<1>. QED
  BY <1>1, <1>2, PTL DEF Spec

\* Whatever the programs do to the cards and the files is what the environment
\* of the driver may do: the composition implements AthanorLife.
LEMMA BinderImplementsLife == Spec => LifeSpec
<1>1. Init => LifeInit
  BY DEF Init
<1>. QED
  BY <1>1, StepAllowed, JobsStay, PTL DEF Spec, LifeSpec

LEMMA BinderKeepsInv == Spec => []LifeInv
BY BinderImplementsLife, LifeKeepsInv, PTL

\* vitriol_exit never frees the device under a file; only a failed vitriol_init can.
THEOREM FilesKeepDeviceAlways == Spec => []FilesKeepDevice
<1>1. LifeInv => FilesKeepDevice
  BY DEF LifeInv, FileInv, FilesKeepDevice
<1>. QED
  BY <1>1, BinderKeepsInv, PTL

\* One card at a time, a heartbeat thread has a bound card and a device.
THEOREM HeartbeatAlways == Spec => []HeartbeatHasDevice
<1>1. LifeInv => HeartbeatHasDevice
  BY DEF LifeInv, CardTypeOK, BoundInv, Registered, OneCardInv, BeatInv, HeartbeatHasDevice
<1>. QED
  BY <1>1, BinderKeepsInv, PTL

\* One card at a time, memory is freed once, for the card it was allocated for.
THEOREM FreesItsOwnAlways == Spec => []FreesItsOwn
<1>1. LifeInv => FreesItsOwn
  BY DEF LifeInv, OneCardInv, FreesItsOwn
<1>. QED
  BY <1>1, BinderKeepsInv, PTL

\* Nothing of the driver survives its unloading.
THEOREM NothingLeftAlways == Spec => []NothingLeft
<1>1. ASSUME LifeInv, mod = "out"
      PROVE  /\ \A c \in Cards : owner[c] # "athanor" /\ AtRest(c)
             /\ ~overlap => heap = {} /\ beating = {}
  <2>1. \A c \in Cards : owner[c] # "athanor" /\ AtRest(c)
    BY <1>1 DEF LifeInv, BoundInv
  <2>2. ASSUME ~overlap PROVE heap = {} /\ beating = {}
    <3>1. \A c \in Cards, b \in Blocks : <<c, b>> \notin heap
      BY <1>1, <2>1, <2>2 DEF LifeInv, OneCardInv, HeapInv
    <3>2. heap \subseteq Cards \X Blocks /\ beating \subseteq Cards
      BY <1>1 DEF LifeInv, CardTypeOK
    <3>3. ASSUME NEW p \in heap PROVE FALSE
      <4>1. PICK d \in Cards, b \in Blocks : p = <<d, b>>
        BY <3>2
      <4>. QED
        BY <3>1, <4>1
    <3>4. beating = {}
      BY <1>1, <2>1, <2>2, <3>2 DEF LifeInv, OneCardInv, BeatInv
    <3>. QED
      BY <3>3, <3>4
  <2>. QED
    BY <2>1, <2>2
<1>2. LifeInv => NothingLeft
  BY <1>1 DEF NothingLeft
<1>. QED
  BY <1>2, BinderKeepsInv, PTL

\* g_dev->pdev is a card of the driver, or one whose probe failed late.
THEOREM PdevIsBoundAlways == Spec => []PdevIsBound
<1>1. LifeInv => PdevIsBound
  BY DEF LifeInv
<1>. QED
  BY <1>1, BinderKeepsInv, PTL

-----------------------------------------------------------------------------
(* The programs.                                                           *)

\* The end of a probe moves the programs that wait for it, and may clear the loser.
LEMMA ToldWhom ==
  ASSUME HostTypeOK, NEW c \in Cards, Told(c)
  PROVE  /\ step' \in [Hosts -> Steps]
         /\ \A h \in Hosts : \/ step'[h] = step[h]
                            \/ /\ step[h] = "probing" /\ Card(h) = c
                               /\ \/ step'[h] = "probed" /\ loser'[c] = NoHost
                                  \/ step'[h] = "refused"
         /\ \/ loser' = loser
            \/ loser' = [loser EXCEPT ![c] = NoHost]
<1>. USE DEF HostTypeOK
<1>. DEFINE bound == owner'[c] = "athanor"
            next(h) == IF step[h] = "probing" /\ Card(h) = c THEN IF bound THEN "probed" ELSE "refused" ELSE step[h]
<1>1. CASE ProbeEnds(c)
  <2>1. step' = [h \in Hosts |-> next(h)]
    BY <1>1 DEF Told
  <2>2. bound => loser' = [loser EXCEPT ![c] = NoHost]
    BY <1>1 DEF Told, Loses
  <2>3. ~bound => loser' = loser
    BY <1>1 DEF Told
  <2>4. \A h \in Hosts : next(h) \in Steps
    BY DEF Steps
  <2>. QED
    BY <2>1, <2>2, <2>3, <2>4
<1>2. CASE ~ProbeEnds(c)
  BY <1>2 DEF Told
<1>. QED
  BY <1>1, <1>2

LEMMA HostTypes ==
  ASSUME HostTypeOK, CardTypeOK, [Next]_vars
  PROVE  HostTypeOK'
<1>. USE HostsAssumption DEF HostTypeOK, Goto, End, AfterBind, Steps, Waiting, Reports, Errors, Loses
<1>1. CASE UNCHANGED hostvars
  BY <1>1 DEF hostvars
<1>2. CASE \E c \in Cards : Offer(c)
  BY <1>2 DEF Offer
<1>4. ASSUME NEW c \in Cards, KernelStep(c)
      PROVE  HostTypeOK'
  BY <1>4, ToldWhom DEF KernelStep
<1>3. ASSUME NEW h \in Hosts, HostStep(h) \/ Kill(h)
      PROVE  HostTypeOK'
  <2>0. Card(h) \in Cards /\ owner[Card(h)] \in Owners /\ "none" \in Owners
    BY JobsAssumption DEF Card, Job, CardTypeOK, Owners
  <2>1. CASE FindDriver(h)
    BY <2>0, <2>1 DEF FindDriver, AfterUnbind
  <2>2. CASE Unbind(h)
    BY <2>0, <2>2 DEF Unbind
  <2>3. CASE Unbound(h) \/ UnbindFails(h)
    BY <2>3 DEF Unbound, UnbindFails, AfterUnbind
  <2>4. CASE NewId(h) \/ Probed(h) \/ ProbeRefused(h) \/ BindFails(h)
    BY <2>4 DEF NewId, Probed, ProbeRefused, BindFails
  <2>5. CASE Bind(h)
    BY <2>0, <2>5 DEF Bind
  <2>6. CASE HotRemove(h)
    BY <2>0, <2>6 DEF HotRemove
  <2>7. CASE HotRemoved(h) \/ HotRemoveFails(h) \/ RescanFails(h)
    BY <2>7 DEF HotRemoved, HotRemoveFails, RescanFails
  <2>8. CASE HostRescan(h) \/ Rescanned(h)
    BY <2>8 DEF HostRescan, Rescanned
  <2>9. CASE HostOpen(h) \/ OpenFails(h) \/ RunFiles(h) \/ HostClose(h) \/ Kill(h)
    BY <2>9 DEF HostOpen, OpenFails, RunFiles, HostClose, Kill
  <2>. QED
    BY <1>3, <2>1, <2>2, <2>3, <2>4, <2>5, <2>6, <2>7, <2>8, <2>9 DEF HostStep
<1>. QED
  BY <1>1, <1>2, <1>3, <1>4 DEF Next, ModuleRuns, vars

\* Only the jobs of --force take a card off the bus.
Forcing == {"remove", "removing", "rescan", "offering"}
ForceInv == \A h \in Hosts : step[h] \in Forcing => job[h].bind = "force"

\* A card leaves the bus only while remove is at work on it.
HotInv == \A c \in Cards : c \in hot => at[c] \in {"stopped", "unpaged"}

\* Where a program may be while the card it took has had no driver since: on its
\* way to the next driver, at the end with an error told, or, with --force, past a
\* rescan that put the card back on the bus.
Searching == {"unbinding", "new_id", "bind", "probing", "refused"}
HasTold(h) == step[h] = "end" /\ report[h] \in Errors \cup {"killed"}
BackOnBus(c) == owner[c] # "gone" /\ c \notin hot
Without(h, c) ==
  \/ step[h] \in Searching
  \/ HasTold(h)
  \/ /\ job[h].bind = "force"
     /\ \/ step[h] = "removing"
        \/ step[h] = "rescan" /\ c \notin hot
        \/ step[h] \in {"offering", "open", "load", "close", "end"} /\ BackOnBus(c)

LoserInv ==
  \A c \in Cards, h \in Hosts : loser[c] = h => Card(h) = c /\ Without(h, c)

HostInv == ForceInv /\ HotInv /\ LoserInv

LEMMA HostInvInit == Init => HostInv
<1>. SUFFICES ASSUME Init PROVE HostInv
  OBVIOUS
<1>1. ForceInv
  <2>1. job \in [Hosts -> Jobs] /\ step = [h \in Hosts |-> First(job[h])]
    BY DEF Init
  <2>. QED
    BY <2>1, JobsAssumption DEF ForceInv, Forcing, First, Job
<1>2. HotInv /\ LoserInv
  BY HostsAssumption DEF Init, LifeInit, HotInv, LoserInv
<1>. QED
  BY <1>1, <1>2 DEF HostInv

\* A step of a program changes no other program, and no step changes a job.
LEMMA OnlyItself ==
  ASSUME HostTypeOK, NEW g \in Hosts, HostStep(g) \/ Kill(g)
  PROVE  /\ Card(g) \in Cards /\ job' = job
         /\ \A h \in Hosts : h # g => step'[h] = step[h] /\ report'[h] = report[h]
<1>. DEFINE Same == job' = job /\ \A h \in Hosts : h # g => step'[h] = step[h] /\ report'[h] = report[h]
<1>. USE DEF HostTypeOK
<1>1. \A s : Goto(g, s) => Same
  BY DEF Goto
<1>2. \A r : End(g, r) => Same
  BY DEF End
<1>3. AfterBind(g) => Same
  BY <1>1, <1>2 DEF AfterBind
<1>4. RunFiles(g) => Same
  BY DEF RunFiles
<1>. HIDE DEF Same
<1>5. Same
  BY <1>1, <1>2, <1>3, <1>4 DEF HostStep, FindDriver, Unbind, UnbindFails, Unbound, NewId, Bind, Probed,
     ProbeRefused, BindFails, HotRemove, HotRemoveFails, HotRemoved, HostRescan, Rescanned, RescanFails,
     HostOpen, OpenFails, HostClose, Kill
<1>. QED
  BY <1>5, JobsAssumption DEF Same, Card, Job

LEMMA ForceKept ==
  ASSUME HostTypeOK, ForceInv, [Next]_vars
  PROVE  ForceInv'
<1>. USE DEF HostTypeOK, ForceInv, Forcing
<1>1. CASE UNCHANGED hostvars
  BY <1>1 DEF hostvars
<1>2. CASE \E c \in Cards : Offer(c)
  BY <1>2 DEF Offer
<1>3. ASSUME NEW c \in Cards, KernelStep(c)
      PROVE  ForceInv'
  BY <1>3, ToldWhom DEF KernelStep
<1>4. ASSUME NEW g \in Hosts, HostStep(g) \/ Kill(g)
      PROVE  ForceInv'
  <2>1. step'[g] \in Forcing => step[g] \in Forcing
    BY <1>4 DEF HostStep, FindDriver, Unbind, UnbindFails, Unbound, NewId, Bind, Probed,
       ProbeRefused, BindFails, HotRemove, HotRemoveFails, HotRemoved, HostRescan, Rescanned, RescanFails,
       HostOpen, OpenFails, RunFiles, HostClose, Kill, Goto, End, AfterBind, AfterUnbind
  <2>. QED
    BY <1>4, <2>1, OnlyItself
<1>. QED
  BY <1>1, <1>2, <1>3, <1>4 DEF Next, ModuleRuns, vars

LEMMA HotKept ==
  ASSUME CardTypeOK, BoundInv, HotInv, [LifeNext]_lifevars
  PROVE  HotInv'
<1>. USE DEF CardTypeOK, HotInv
<1>1. CASE UNCHANGED <<at, hot>>
  BY <1>1
<1>2. ASSUME NEW c \in Cards, CardStep(c)
      PROVE  HotInv'
  <2>1. CASE ProbeDevice(c)
    BY <2>1, DriversAssumption DEF ProbeDevice, BoundInv, AtRest
  <2>2. CASE ProbeStep(c)
    BY <2>2 DEF ProbeStep, ProbeBuffer, ProbePage, ProbeThread, Withdraw
  <2>3. CASE RemoveStep(c)
    BY <2>3 DEF RemoveStep, RemovePages, RemoveDevice
  <2>4. CASE \E leaving \in BOOLEAN : RemoveThread(c, leaving)
    BY <2>4 DEF RemoveThread
  <2>5. CASE (\E d \in OtherDrivers : Take(c, d)) \/ Leave(c) \/ Disappear(c)
    BY <2>5 DEF Take, Leave, Disappear, BusOnly
  <2>. QED
    BY <1>2, <2>1, <2>2, <2>3, <2>4, <2>5 DEF CardStep
<1>. QED
  BY <1>1, <1>2 DEF LifeNext, ModuleStep, FileStep, Load, Acquire, AcquireFails, Loaded, Unload, Release,
     Open, Close, Rescan, BusOnly, lifevars, cardvars, busvars

\* Neither probe, nor remove, nor another driver takes a card off the bus.
LEMMA StaysOnBus ==
  ASSUME NEW c \in Cards, NEW d \in Cards, CardTypeOK,
         KernelStep(d) \/ Offer(d)
  PROVE  /\ BackOnBus(c) => BackOnBus(c)'
         /\ c \notin hot => c \notin hot'
<1>. USE DEF BackOnBus, CardTypeOK
<1>1. CASE ProbeStep(d)
  BY <1>1 DEF ProbeStep, ProbeBuffer, ProbePage, ProbeThread, Withdraw
<1>2. CASE RemoveStep(d)
  BY <1>2 DEF RemoveStep, RemovePages, RemoveDevice
<1>3. CASE Detach(d)
  BY <1>3 DEF Detach, RemoveThread
<1>4. CASE Offer(d)
  BY <1>4, DriversAssumption DEF Offer, ProbeDevice, Take, BusOnly
<1>. QED
  BY <1>1, <1>2, <1>3, <1>4 DEF KernelStep

LEMMA LoserKept ==
  ASSUME HostTypeOK, CardTypeOK, BoundInv, ForceInv, HotInv, LoserInv, [Next]_vars
  PROVE  LoserInv'
<1>. USE HostsAssumption DEF HostTypeOK, Card
<1>1. CASE UNCHANGED hostvars /\ UNCHANGED <<owner, at, hot>>
  BY <1>1 DEF hostvars, LoserInv, Without, HasTold, BackOnBus
<1>2. ASSUME NEW d \in Cards, KernelStep(d)
      PROVE  LoserInv'
  <2>1. UNCHANGED <<job, report>> /\ Told(d)
    BY <1>2 DEF KernelStep
  <2>2. ASSUME NEW c \in Cards, NEW h \in Hosts, loser'[c] = h
        PROVE  Card(h)' = c /\ Without(h, c)'
    <3>1. loser[c] = h
      BY <2>1, <2>2, ToldWhom
    <3>2. Card(h) = c /\ Without(h, c)
      BY <3>1 DEF LoserInv
    <3>3. step'[h] = step[h] \/ (step[h] = "probing" /\ step'[h] = "refused")
      BY <2>1, <2>2, <3>2, ToldWhom
    <3>. QED
      BY <1>2, <2>1, <3>2, <3>3, StaysOnBus DEF Without, HasTold, Searching
  <2>. QED
    BY <2>2 DEF LoserInv
<1>3. ASSUME NEW d \in Cards, Offer(d)
      PROVE  LoserInv'
  <2>1. UNCHANGED <<job, step, report>> /\ (loser' = loser \/ loser' = [loser EXCEPT ![d] = NoHost])
    BY <1>3 DEF Offer, Loses
  <2>. QED
    BY <1>3, <2>1, StaysOnBus DEF LoserInv, Without, HasTold
<1>4. ASSUME NEW g \in Hosts, HostStep(g) \/ Kill(g)
      PROVE  LoserInv'
  <2>0. Card(g) \in Cards /\ job' = job /\ \A h \in Hosts : h # g => step'[h] = step[h] /\ report'[h] = report[h]
    BY <1>4, OnlyItself
  \* What is left to show: the card of whoever is the loser afterwards.
  <2>. DEFINE Kept(c, h) == loser[c] = h /\ (BackOnBus(c) => BackOnBus(c)') /\ (c \notin hot => c \notin hot')
  <2>1. ASSUME NEW c \in Cards, NEW h \in Hosts, h # g, Kept(c, h)
        PROVE  Card(h)' = c /\ Without(h, c)'
    BY <2>0, <2>1 DEF LoserInv, Without, HasTold
  <2>2. CASE UNCHANGED <<loser, owner, hot>>
    <3>1. ASSUME NEW c \in Cards, loser[c] = g
          PROVE  Without(g, c)'
      <4>1. Card(g) = c /\ Without(g, c)
        BY <3>1 DEF LoserInv
      <4>2. step[g] \in Searching \/ step[g] = "end" \/ job[g].bind = "force"
        BY <4>1 DEF Without, HasTold
      <4>3. CASE FindDriver(g) \/ UnbindFails(g) \/ Probed(g) \/ HotRemoveFails(g)
        BY <4>1, <4>3 DEF FindDriver, UnbindFails, Probed, HotRemoveFails, Without, HasTold, Searching
      <4>4. CASE Unbound(g) \/ NewId(g) \/ ProbeRefused(g) \/ BindFails(g)
        BY <4>1, <4>4 DEF Unbound, AfterUnbind, NewId, ProbeRefused, BindFails, Goto, End, Without, HasTold, Searching, Errors
      <4>5. CASE HotRemoved(g)
        <5>1. AtRest(c) /\ c \notin hot
          BY <4>1, <4>5 DEF HotRemoved, HotInv, AtRest
        <5>2. job[g].bind = "force"
          BY <4>5 DEF HotRemoved, ForceInv, Forcing
        <5>. QED
          BY <2>0, <2>2, <4>5, <5>1, <5>2 DEF HotRemoved, Goto, Without
      <4>6. CASE RescanFails(g) \/ Kill(g)
        BY <4>6 DEF RescanFails, Kill, End, Without, HasTold, Errors
      <4>7. CASE Rescanned(g) \/ HostOpen(g) \/ OpenFails(g) \/ RunFiles(g) \/ HostClose(g)
        <5>1. step[g] \in {"offering", "open", "load", "close"}
          BY <4>7 DEF Rescanned, HostOpen, OpenFails, RunFiles, HostClose
        <5>2. job[g].bind = "force" /\ BackOnBus(c)
          BY <4>1, <5>1 DEF Without, HasTold, Searching
        <5>3. step'[g] \in {"open", "load", "close", "end"}
          BY <4>7 DEF Rescanned, HostOpen, OpenFails, RunFiles, HostClose, AfterBind, Goto, End
        <5>4. BackOnBus(c)'
          BY <2>2, <5>2 DEF BackOnBus
        <5>. QED
          BY <2>0, <5>2, <5>3, <5>4 DEF Without
      <4>8. CASE HostRescan(g)
        <5>1. job[g].bind = "force" /\ c \notin hot /\ step'[g] = "offering"
          BY <4>1, <4>8 DEF HostRescan, Goto, Without, HasTold, Searching, ForceInv, Forcing
        <5>2. owner'[c] # "gone"
          BY <4>8 DEF HostRescan, Rescan
        <5>. QED
          BY <2>0, <2>2, <5>1, <5>2 DEF Without, BackOnBus
      <4>9. ~Unbind(g) /\ ~HotRemove(g)
        <5>1. ~Unbind(g)
          BY <3>1, <4>1 DEF Unbind, Without, HasTold, Searching
        <5>2. ~HotRemove(g)
          BY <3>1, <4>1 DEF HotRemove, Without, HasTold, Searching
        <5>. QED
          BY <5>1, <5>2
      <4>10. CASE Bind(g)
        <5>1. step[g] = "bind"
          BY <4>10 DEF Bind
        <5>2. step'[g] = "probing" \/ loser'[c] = NoHost
          BY <2>0, <4>1, <4>10 DEF Bind, Goto, Loses
        <5>. QED
          BY <2>2, <3>1, <5>2 DEF Without, Searching
      <4>. QED
        BY <1>4, <4>3, <4>4, <4>5, <4>6, <4>7, <4>8, <4>9, <4>10 DEF HostStep
    <3>2. \A c \in Cards : loser[c] = g => Card(g)' = c
      BY <2>0 DEF LoserInv
    <3>3. \A c \in Cards, h \in Hosts : loser'[c] = h => Kept(c, h)
      BY <2>2 DEF BackOnBus
    <3>. QED
      BY <2>1, <3>1, <3>2, <3>3, <2>2 DEF LoserInv
  <2>3. CASE Unbind(g)
    <3>1. \A c \in Cards : (BackOnBus(c) => BackOnBus(c)') /\ (c \notin hot => c \notin hot')
      BY <2>0, <2>3 DEF Unbind, RemoveThread, Leave, BusOnly, CardTypeOK, BackOnBus
    <3>2. loser' = [loser EXCEPT ![Card(g)] = g] /\ step'[g] = "unbinding" /\ step[g] = "unbind"
      BY <2>3 DEF Unbind, Loses, Goto
    <3>3. \A c \in Cards : loser[c] # g
      BY <3>2 DEF LoserInv, Without, HasTold, Searching
    <3>. QED
      BY <2>0, <2>1, <3>1, <3>2, <3>3 DEF LoserInv, Without, Searching
  <2>4. CASE Bind(g)
    <3>1. \A c \in Cards : (BackOnBus(c) => BackOnBus(c)') /\ (c \notin hot => c \notin hot')
      BY <2>0, <2>4, DriversAssumption DEF Bind, ProbeDevice, Take, BusOnly, CardTypeOK, BackOnBus
    <3>2. \/ loser' = [loser EXCEPT ![Card(g)] = NoHost]
          \/ loser' = loser /\ step'[g] = "probing"
      BY <2>4 DEF Bind, Loses, Goto
    <3>. QED
      BY <2>0, <2>1, <3>1, <3>2 DEF LoserInv, Without, Searching
  <2>5. CASE HotRemove(g)
    <3>1. \A c \in Cards : c # Card(g) => (BackOnBus(c) => BackOnBus(c)') /\ (c \notin hot => c \notin hot')
      BY <2>0, <2>5 DEF HotRemove, RemoveThread, Disappear, BusOnly, CardTypeOK, BackOnBus
    <3>2. loser' = [loser EXCEPT ![Card(g)] = g] /\ step'[g] = "removing" /\ step[g] = "remove"
      BY <2>5 DEF HotRemove, Loses, Goto
    <3>3. job[g].bind = "force" /\ \A c \in Cards : loser[c] # g
      BY <3>2 DEF ForceInv, Forcing, LoserInv, Without, HasTold, Searching
    <3>. QED
      BY <2>0, <2>1, <3>1, <3>2, <3>3 DEF LoserInv, Without
  <2>6. CASE HostRescan(g)
    <3>1. \A c \in Cards : (BackOnBus(c) => BackOnBus(c)') /\ (c \notin hot => c \notin hot') /\ owner'[c] # "gone"
      BY <2>6 DEF HostRescan, Rescan, BusOnly, BackOnBus
    <3>2. loser' = loser /\ step'[g] = "offering" /\ step[g] = "rescan"
      BY <2>6 DEF HostRescan, Goto
    <3>3. \A c \in Cards : loser[c] = g => job[g].bind = "force" /\ c \notin hot
      BY <3>2 DEF LoserInv, Without, HasTold, Searching
    <3>. QED
      BY <2>0, <2>1, <3>1, <3>2, <3>3 DEF LoserInv, Without, BackOnBus
  <2>7. Unbind(g) \/ Bind(g) \/ HotRemove(g) \/ HostRescan(g) \/ UNCHANGED <<loser, owner, hot>>
    BY <1>4 DEF HostStep, Kill, lifevars, cardvars, busvars, FindDriver, UnbindFails, Unbound, NewId, Probed,
       ProbeRefused, BindFails, HotRemoveFails, HotRemoved, Rescanned, RescanFails, OpenFails, RunFiles,
       HostOpen, HostClose, Open, Close
  <2>. QED
    BY <2>2, <2>3, <2>4, <2>5, <2>6, <2>7
<1>. QED
  BY <1>1, <1>2, <1>3, <1>4 DEF Next, ModuleRuns, ModuleStep, Load, Unload, Acquire, AcquireFails, Loaded, Release,
     vars, lifevars, cardvars, busvars, hostvars

\* Every variable of the driver and of the programs has its type.
THEOREM TypesAlways == Spec => []BinderTypeOK
<1>1. Init => HostTypeOK
  BY JobsAssumption DEF Init, HostTypeOK, First, Steps, Owners, Reports
<1>2. HostTypeOK /\ LifeInv /\ [Next]_vars => HostTypeOK'
  BY HostTypes DEF LifeInv
<1>3. LifeInv /\ HostTypeOK => BinderTypeOK
  BY DEF LifeInv, BinderTypeOK
<1>. QED
  BY <1>1, <1>2, <1>3, BinderKeepsInv, PTL DEF Spec

\* No program that took a card from its driver ends without an error while the
\* card has had no driver since, but one that was asked to force it; and that one
\* not while the card is off the bus.
THEOREM LostCardIsReportedAlways == Spec => []LostCardIsReported
<1>1. HostInv /\ HostTypeOK /\ LifeInv /\ job \in [Hosts -> Jobs] /\ [Next]_vars => HostInv'
  <2>. SUFFICES ASSUME HostInv, HostTypeOK, LifeInv, job \in [Hosts -> Jobs], [Next]_vars PROVE HostInv'
    OBVIOUS
  <2>1. HotInv'
    BY StepAllowed, HotKept DEF HostInv, LifeInv
  <2>2. ForceInv' /\ LoserInv'
    BY ForceKept, LoserKept DEF HostInv, LifeInv
  <2>. QED
    BY <2>1, <2>2 DEF HostInv
<1>2. BinderTypeOK => HostTypeOK
  BY DEF BinderTypeOK
<1>3. HostInv /\ HostTypeOK => LostCardIsReported
  <2>. SUFFICES ASSUME HostInv, HostTypeOK,
                       NEW c \in Cards, owner[c] \in {"none", "gone"}, loser[c] # NoHost
                PROVE  Reported(loser[c]) \/ (job[loser[c]].bind = "force" /\ owner[c] = "none")
    BY DEF LostCardIsReported
  <2>1. loser[c] \in Hosts /\ Without(loser[c], c)
    BY DEF HostInv, LoserInv, HostTypeOK
  <2>. QED
    BY <2>1 DEF Without, HasTold, BackOnBus, Searching, Reported
<1>. QED
  BY <1>1, <1>2, <1>3, HostInvInit, JobsStay, TypesAlways, BinderKeepsInv, PTL DEF Spec
=============================================================================
