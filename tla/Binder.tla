-------------------------------- MODULE Binder --------------------------------
(***************************************************************************)
(* The programs of the host that move a card between drivers and run files *)
(* on it: vitriol-bind, and alka --execute with --bind, --bind-force or    *)
(* neither (src/bind/binder.zig, src/vitriol_bind.zig, the run function of *)
(* src/executor/alka_run.zig).  They work through sysfs and /dev/vitriol,  *)
(* on the driver of AthanorLife, which they implement the environment of.  *)
(* Each system call is a step, may fail, and other programs come between   *)
(* two of them; a program may be killed between any two.                   *)
(***************************************************************************)
EXTENDS AthanorLife

CONSTANTS
  Jobs,           \* what the programs may be asked for
  NoHost          \* nobody

\* bind is what is done to the card first, to is the driver of --restore, run
\* says whether a file is executed then.
Job == [bind : {"no", "plain", "force", "restore"}, card : Cards, to : Drivers, run : BOOLEAN]

ASSUME JobsAssumption == Jobs # {} /\ Jobs \subseteq Job
ASSUME HostsAssumption == NoHost \notin Hosts
ASSUME VfioAssumption == "vfio-pci" \in OtherDrivers

VARIABLES
  job, step,      \* what each program is asked for, and the system call it is at
  found,          \* the driver findDriver found
  report,         \* what it told its user
  loser           \* history: card -> the program that took its driver away, until
                  \* a driver has it

hostvars == <<job, step, found, report, loser>>
vars == <<lifevars, hostvars>>

\* Inside a write that waits for the kernel.
Waiting == {"unbinding", "probing", "removing", "offering"}
Steps == {"find", "unbind", "new_id", "bind", "probed", "refused", "remove", "rescan",
          "open", "load", "close", "end"} \cup Waiting
Errors == {"UnbindFailed", "BindFailed", "HotRemoveFailed", "RescanFailed",
           "DeviceNotFound", "PermissionDenied", "InvalidBinary", "IoctlFailed"}
Reports == Errors \cup {"nothing", "done", "killed"}

Card(h) == job[h].card
Target(h) == IF job[h].bind = "restore" THEN job[h].to ELSE "vfio-pci"

\* The first system call of a job.
First(j) == CASE j.bind = "no" -> "open" [] j.bind = "force" -> "remove" [] OTHER -> "find"

Init ==
  /\ LifeInit
  /\ job \in [Hosts -> Jobs]
  /\ step = [h \in Hosts |-> First(job[h])]
  /\ found = [h \in Hosts |-> "none"]
  /\ report = [h \in Hosts |-> "nothing"]
  /\ loser = [c \in Cards |-> NoHost]

Goto(h, s) == step' = [step EXCEPT ![h] = s] /\ UNCHANGED <<job, report>>
End(h, r)  == step' = [step EXCEPT ![h] = "end"] /\ report' = [report EXCEPT ![h] = r] /\ UNCHANGED job

\* After the device is bound: the file, if there is one to run.
AfterBind(h) == IF job[h].run THEN Goto(h, "open") ELSE End(h, "done")

Loses(c, h) == loser' = [loser EXCEPT ![c] = h]

-----------------------------------------------------------------------------
(* unbindFromDriver.  A card without a driver, or off the bus, has no link  *)
(* to read, and nothing is unbound; nor is it when reading the link fails.  *)
AfterUnbind(h) == IF job[h].bind = "plain" THEN "new_id" ELSE "bind"

FindDriver(h) ==
  /\ step[h] = "find"
  /\ \E d \in {owner[Card(h)], "none"} :
       /\ found' = [found EXCEPT ![h] = d]
       /\ Goto(h, IF d \in Drivers THEN "unbind" ELSE AfterUnbind(h))
  /\ UNCHANGED <<loser, lifevars>>

\* The driver's unbind file takes the card only if it is still that driver's.
Unbind(h) ==
  /\ step[h] = "unbind" /\ AtRest(Card(h)) /\ owner[Card(h)] = found[h]
  /\ \/ found[h] = "athanor" /\ RemoveThread(Card(h), FALSE)
     \/ Leave(Card(h))
  /\ Goto(h, "unbinding") /\ Loses(Card(h), h)
  /\ found' = [found EXCEPT ![h] = "none"]

UnbindFails(h) ==
  /\ step[h] = "unbind"
  /\ End(h, "UnbindFailed")
  /\ UNCHANGED <<found, loser, lifevars>>

\* Mutant: waits until the card has no driver.
UnboundWhenFree(h) ==
  /\ step[h] = "unbinding" /\ AtRest(Card(h)) /\ owner[Card(h)] \in {"none", "gone"}
  /\ Goto(h, AfterUnbind(h))
  /\ UNCHANGED <<found, loser, lifevars>>

\* The write returns when the driver's remove has.
Unbound(h) ==
  /\ step[h] = "unbinding" /\ AtRest(Card(h))
  /\ Goto(h, AfterUnbind(h))
  /\ UNCHANGED <<found, loser, lifevars>>

-----------------------------------------------------------------------------
(* bindToVfio, and the bind of restoreDriver.                              *)

\* Mutant: the failure of new_id is ignored, and so is that of bind.
NewIdIgnored(h) ==
  /\ step[h] = "new_id"
  /\ Goto(h, "bind") \/ AfterBind(h)
  /\ UNCHANGED <<found, loser, lifevars>>

\* modprobe and a second write are part of the step: it works or it does not.
NewId(h) ==
  /\ step[h] = "new_id"
  /\ Goto(h, "bind") \/ End(h, "BindFailed")
  /\ UNCHANGED <<found, loser, lifevars>>

Bind(h) ==
  /\ step[h] = "bind" /\ AtRest(Card(h))
  /\ \/ Take(Card(h), Target(h)) /\ AfterBind(h) /\ Loses(Card(h), NoHost)
     \/ Target(h) = "athanor" /\ ProbeDevice(Card(h)) /\ Goto(h, "probing") /\ UNCHANGED loser
  /\ UNCHANGED found

\* The write returns what probe did.
Probed(h) ==
  /\ step[h] = "probed"
  /\ AfterBind(h)
  /\ UNCHANGED <<found, loser, lifevars>>

ProbeRefused(h) ==
  /\ step[h] = "refused"
  /\ End(h, "BindFailed")
  /\ UNCHANGED <<found, loser, lifevars>>

BindFails(h) ==
  /\ step[h] = "bind"
  /\ End(h, "BindFailed")
  /\ UNCHANGED <<found, loser, lifevars>>

-----------------------------------------------------------------------------
(* hotRemove and rescan.                                                   *)
HotRemove(h) ==
  /\ step[h] = "remove" /\ AtRest(Card(h))
  /\ \/ RemoveThread(Card(h), TRUE) \/ Disappear(Card(h))
  /\ Goto(h, "removing") /\ Loses(Card(h), h)
  /\ UNCHANGED found

HotRemoveFails(h) ==
  /\ step[h] = "remove"
  /\ End(h, "HotRemoveFailed")
  /\ UNCHANGED <<found, loser, lifevars>>

HotRemoved(h) ==
  /\ step[h] = "removing" /\ AtRest(Card(h))
  /\ Goto(h, "rescan")
  /\ UNCHANGED <<found, loser, lifevars>>

\* The cards found again are offered to the drivers (Offer), which need not want
\* them.
HostRescan(h) ==
  /\ step[h] = "rescan"
  /\ Rescan
  /\ Goto(h, "offering")
  /\ UNCHANGED <<found, loser>>

\* The write returns when the probe of the card has, and its result is nobody's.
Rescanned(h) ==
  /\ step[h] = "offering" /\ AtRest(Card(h))
  /\ AfterBind(h)
  /\ UNCHANGED <<found, loser, lifevars>>

RescanFails(h) ==
  /\ step[h] = "rescan"
  /\ End(h, "RescanFailed")
  /\ UNCHANGED <<found, loser, lifevars>>

-----------------------------------------------------------------------------
(* run: the device is opened before the files are read, and closed whatever *)
(* happens.                                                                 *)
HostOpen(h) ==
  /\ step[h] = "open"
  /\ Open(h)
  /\ Goto(h, "load")
  /\ UNCHANGED <<found, loser>>

OpenFails(h) ==
  /\ step[h] = "open"
  /\ \/ held < Node /\ End(h, "DeviceNotFound")
     \/ End(h, "PermissionDenied")
  /\ UNCHANGED <<found, loser, lifevars>>

\* A file that is cut inside a packet is refused, and the vial is not passed
\* on.  Whatever status the driver filled in, its errno is looked at first.
RunFiles(h) ==
  /\ step[h] = "load"
  /\ step' = [step EXCEPT ![h] = "close"] /\ UNCHANGED job
  /\ \E r \in {"done", "InvalidBinary", "IoctlFailed"} : report' = [report EXCEPT ![h] = r]
  /\ UNCHANGED <<found, loser, lifevars>>

HostClose(h) ==
  /\ step[h] = "close"
  /\ Close(h)
  /\ End(h, report[h])
  /\ UNCHANGED <<found, loser>>

\* The kernel closes the file, and finishes the write the program is in.
Kill(h) ==
  /\ step[h] # "end"
  /\ IF file[h] = "open" THEN Close(h) ELSE UNCHANGED lifevars
  /\ End(h, "killed")
  /\ UNCHANGED <<found, loser>>

-----------------------------------------------------------------------------
HostStep(h) ==
  \/ FindDriver(h) \/ Unbind(h) \/ UnbindFails(h) \/ Unbound(h)
  \/ NewId(h) \/ Bind(h) \/ Probed(h) \/ ProbeRefused(h) \/ BindFails(h)
  \/ HotRemove(h) \/ HotRemoveFails(h) \/ HotRemoved(h)
  \/ HostRescan(h) \/ Rescanned(h) \/ RescanFails(h)
  \/ HostOpen(h) \/ OpenFails(h) \/ RunFiles(h) \/ HostClose(h)

\* The PCI core, when the driver registers and when a card is found: one of
\* the drivers that want the card gets it.
Offer(c) ==
  /\ \/ ProbeDevice(c) /\ UNCHANGED loser
     \/ \E d \in OtherDrivers : Take(c, d) /\ Loses(c, NoHost)
  /\ UNCHANGED <<job, step, found, report>>

\* A probe of this driver ends: the program that waits for it in a write to bind
\* gets its result.
ProbeEnds(c) == at[c] \in {"stored", "buffered", "paged"} /\ at'[c] = "rest"
Told(c) ==
  IF ProbeEnds(c)
  THEN LET bound == owner'[c] = "athanor"
       IN  /\ step' = [h \in Hosts |-> IF step[h] = "probing" /\ Card(h) = c
                                      THEN IF bound THEN "probed" ELSE "refused" ELSE step[h]]
           /\ IF bound THEN Loses(c, NoHost) ELSE UNCHANGED loser
  ELSE UNCHANGED <<step, loser>>

KernelStep(c) ==
  /\ ProbeStep(c) \/ RemoveStep(c) \/ Detach(c)
  /\ Told(c)
  /\ UNCHANGED <<job, found, report>>

ModuleRuns == (Acquire \/ AcquireFails \/ Loaded \/ Release) /\ UNCHANGED hostvars

Next ==
  \/ (Load \/ Unload) /\ UNCHANGED hostvars
  \/ ModuleRuns
  \/ \E c \in Cards : Offer(c) \/ KernelStep(c)
  \/ \E h \in Hosts : HostStep(h) \/ Kill(h)

Spec == Init /\ [][Next]_vars

\* vitriol_init and vitriol_exit run on, so do probe and remove, and programs;
\* the device lock of a card is not withheld for ever from one that waits.
FairSpec ==
  /\ Spec
  /\ WF_vars(ModuleRuns)
  /\ \A c \in Cards : WF_vars(KernelStep(c))
  /\ \A h \in Hosts : SF_vars(HostStep(h))
=============================================================================
