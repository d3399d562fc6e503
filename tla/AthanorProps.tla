---------------------------- MODULE AthanorProps ----------------------------
(***************************************************************************)
(* What the driver should guarantee, stated over the state of Athanor.     *)
(***************************************************************************)
EXTENDS Athanor

CallTypeOK ==
  /\ lock \in Clients \cup {NoClient}
  /\ pc \in [Clients -> Points]
  /\ req \in [Clients -> Requests]
  /\ f \in [Clients -> Frame]
  /\ ans \in [Clients -> Answer]

\* A range is stored before it is mapped, so a mapped one is not empty.
DeviceTypeOK ==
  /\ pdev \in BOOLEAN /\ bars \in Bars /\ (bar1 => bars.bar1.len # 0)
  /\ bar0 \in BOOLEAN /\ bar1 \in BOOLEAN /\ initialized \in BOOLEAN
  /\ win \in Nat /\ metaval \in Nat
  /\ buf \in {"null", "live", "freed"} /\ page \in {"null", "live", "freed"}
  /\ safety \in Nat /\ halt \in Nat /\ throttle \in Nat /\ temp \in Nat
  /\ cmd \in SUBSET {"MEMORY", "MASTER"} /\ d3 \in BOOLEAN
  /\ drv \in {"none", "device", "buffer", "page", "bound", "unpaged", "unbuffered",
             "forgotten"}

\* Every variable has its type.
TypeOK == CallTypeOK /\ DeviceTypeOK

\* The mutex: whoever is between mutex_lock and mutex_unlock owns the lock, so
\* two handlers never interleave (vitriol_ioctl).
LockHeld == \A c \in Clients : (pc[c] \in InHandler) <=> (lock = c)

\* A handler is given a packet that lies inside the memory allocated for the
\* batch, in the forward run and in the rollback alike: the index survives the
\* switch from one array to the other and every return (execute_packets,
\* execute_azoth_rollback).  This is so for whatever EXECUTE lets through; for
\* the safe ioctl it takes a packet size of at least DropSize, which nothing in
\* vitriol_ioctl_execute_safe asks for.
InPacket == {"op", "config", "dma", "copy", "slice", "signal", "fence"}

InsideBatch ==
  \A c \in Clients :
    pc[c] \in InPacket /\ (req[c].cmd = "EXECUTE" \/ req[c].psize >= DropSize) =>
      f[c].i >= 1 /\ f[c].i * DropSize <= Len(Batch(c)) * req[c].psize

\* No bounce buffer copy starts over a limit: from the check of a chunk to its
\* copy nobody raises the temperature on record, lowers the halt limit or turns
\* the checks on (vitriol_dma_transfer reads the three fields, other ioctls and
\* other packets write them).
CoolCopy ==
  \A c \in Clients : pc[c] = "copy" => safety = 0 \/ halt = 0 \/ temp < halt

\* The run of a batch has handed over exactly the packets before the current
\* one that are neither rollback nor dry-run packets (execute_packets).
ForwardBefore(s, n) == { j \in 1 .. n - 1 : Forward(s[j]) }

PrefixExecuted ==
  \A c \in Clients :
    pc[c] \in InHandler \ {"ioctl"} =>
      f[c].executed = Cardinality(
        ForwardBefore(req[c].pkts, IF f[c].mode = "azoth" \/ f[c].status # "OK"
                                   THEN f[c].errpkt ELSE f[c].i))

\* What execute reports is what happened: success means that every packet was
\* intact and the whole forward batch ran, failure names the packet it stopped
\* at after running the ones before, and a safe run with a rollback batch that
\* fails reports a plain error (execute_packets, vitriol_ioctl_execute_safe).
ExecAnswered(c) == pc[c] = "idle" /\ ans[c].ret \in {"0", "EIO"} /\
                   req[c].cmd \in {"EXECUTE", "EXECUTE_SAFE"}

AnswerSound ==
  \A c \in Clients : ExecAnswered(c) =>
    LET a == ans[c]  s == req[c].pkts IN
    /\ a.ret = "0" <=> a.status = "OK"
    /\ a.status = "OK" =>
         /\ \A j \in DOMAIN s : s[j].crcok
         /\ a.executed = Cardinality(ForwardBefore(s, Len(s) + 1))
    /\ a.status # "OK" =>
         /\ a.errpkt \in DOMAIN s
         /\ \A j \in 1 .. a.errpkt - 1 : s[j].crcok
         /\ a.executed = Cardinality(ForwardBefore(s, a.errpkt))
    /\ a.status \in {"THERMAL", "CRC_FAIL"} =>
         req[c].cmd = "EXECUTE" \/ req[c].azoth = << >>

\* probe and remove, in any order of successes and failures, keep the pages
\* of a bound driver live, and never free what is already free.
BoundHasPages ==
  /\ drv \in {"buffer", "page", "bound", "unpaged"} => buf = "live"
  /\ drv \in {"page", "bound"} => page = "live"
  /\ drv = "unpaged" => page = "freed"

\* A claimed device has its control registers mapped, so ECHO, AUDIT and a
\* transfer through BAR0 have an address (op_claim fails before it sets
\* initialized; nothing unmaps BAR0).
InitializedMapped == initialized => bar0

\* While a handler polls a FENCE the mutex keeps every signalling packet out:
\* only probe's reset changes the value under it (op_fence, vitriol_pci_probe).
FenceWokenByProbeOnly ==
  [][(\E c \in Clients : pc[c] = "fence") /\ metaval' # metaval
       => drv = "page" /\ drv' = "bound"]_vars

\* A rollback begins only in a safe run whose forward batch failed, and it is
\* the last thing of the ioctl (vitriol_ioctl_execute_safe).
RollbackAfterFailure ==
  [][\A c \in Clients :
       /\ f[c].mode = "forward" /\ f'[c].mode = "azoth"
            => f[c].status # "OK" /\ req[c].cmd = "EXECUTE_SAFE"
       /\ f[c].mode = "azoth" /\ f'[c].mode = "forward" => pc'[c] = "idle"]_vars

\* No handler dereferences a null pointer: neither the card nor the bounce buffer
\* is taken from one between its test and its use.  It is stated of a card that
\* stays (remove clears pdev), whose BAR1 can be mapped (op_claim goes on
\* without), whose failing probes fail all at the same allocation (one that fails
\* at the metapage leaves the buffer's pointer to transfers, and one that then
\* fails at the buffer makes it null under them), and of packets of some size.
NoOops == \A c \in Clients : pc[c] # "oops"

\* Every ioctl gives its client an answer: the loops of the handlers are
\* bounded, FENCE's too, and no thread is overtaken for ever at the mutex.
EveryCallReturns == \A c \in Clients : pc[c] = "wait" ~> pc[c] = "idle"
=============================================================================
