------------------------------ MODULE LifeProps ------------------------------
(* What loading, binding, unbinding and unloading should keep true. *)
EXTENDS Binder

ModuleTypeOK ==
  /\ mod \in {"out", "coming", "failing", "live", "going"}
  /\ held \in 0 .. All /\ loads \in 0 .. MaxLoads
  /\ file \in [Hosts -> {"closed", "open", "dangling"}] /\ early \in SUBSET Hosts

CardTypeOK ==
  /\ owner \in [Cards -> Owners] /\ at \in [Cards -> Points] /\ hot \in SUBSET Cards
  /\ pdev \in Pointers /\ dma_buffer \in Pointers
  /\ metapage \in Pointers /\ heartbeat_thread \in Pointers
  /\ heap \in SUBSET (Cards \X Blocks) /\ beating \in SUBSET Cards
  /\ misfreed \in BOOLEAN /\ overlap \in BOOLEAN /\ late \in SUBSET Cards

HostTypeOK ==
  /\ job \in [Hosts -> Jobs] /\ step \in [Hosts -> Steps]
  /\ found \in [Hosts -> Owners] /\ report \in [Hosts -> Reports]
  /\ loser \in [Cards -> Hosts \cup {NoHost}]

\* Every variable has its type.
BinderTypeOK == ModuleTypeOK /\ CardTypeOK /\ HostTypeOK

\* An open file always leads to a device: g_dev is freed under a file only by
\* an init that fails after the file could be opened (vitriol_exit waits for
\* the files, the error paths of vitriol_init do not).
FilesKeepDevice == \A h \in Hosts : file[h] = "dangling" => h \in early

\* As long as no card is probed while another one is bound, a heartbeat thread
\* beats only for a bound card and into a device that is still there.
HeartbeatHasDevice ==
  ~overlap => \A c \in beating : owner[c] = "athanor" /\ held >= GDev

\* With the same proviso, whatever probe allocated is freed once, for the card
\* it was allocated for, through every failure of probe and every remove,
\* although neither clears the pointers it frees.
FreesItsOwn == ~overlap => ~misfreed

\* With the same proviso, nothing is left of the driver when the module is
\* out: no page, no thread; and, without it, no bound card.
NothingLeft ==
  mod = "out" =>
    /\ \A c \in Cards : owner[c] # "athanor" /\ AtRest(c)
    /\ ~overlap => heap = {} /\ beating = {}

\* g_dev never points at a card of another driver, or off the bus, unless its
\* last probe failed after it stored the pointer, which the error path leaves.
PdevIsBound ==
  held >= GDev /\ pdev # NoCard => owner[pdev] = "athanor" \/ pdev \in late

\* A card that a program took from its driver and that no driver has had since is
\* one whose program is still at work, or told its user, or was killed: no error
\* of a sysfs write is swallowed on the way to the user.  The exception is a
\* --force run, which is done when its card is back on the bus, with a driver or
\* without (hotRemove and rescan of bindDevice).
Reported(h) == step[h] # "end" \/ report[h] \in Errors \cup {"killed"}

LostCardIsReported ==
  \A c \in Cards :
    owner[c] \in {"none", "gone"} /\ AtRest(c) /\ loser[c] # NoHost =>
      \/ Reported(loser[c])
      \/ job[loser[c]].bind = "force" /\ owner[c] = "none"

\* Loading and unloading end, with the cards of the driver unbound on the way.
ModuleSettles == mod \in {"coming", "failing", "going"} ~> mod \in {"live", "out"}

\* Every program ends, whatever other programs and the PCI core do to the card
\* it waits for in the meantime, unless its file outlived the device.
ProgramsEnd == \A h \in Hosts : <>(step[h] = "end" \/ file[h] = "dangling")
=============================================================================
