------------------------------ MODULE Executor ------------------------------
(* What the executor of the host makes of the driver's answer, and whether  *)
(* its user can believe it (src/executor/alka_run.zig).                     *)
EXTENDS AthanorProps

\* The result struct is zeroed before the call, so a status the driver never
\* filled in reads as EXEC_STATUS_OK.
SeenStatus(a) == IF a.status = "none" THEN "OK" ELSE a.status

\* checkResult
Checked(a) ==
  CASE SeenStatus(a) = "OK"       -> "done"
    [] SeenStatus(a) = "ERROR"    -> "ExecutionFailed"
    [] SeenStatus(a) = "THERMAL"  -> "ThermalThrottle"
    [] SeenStatus(a) = "CRC_FAIL" -> "CrcFailure"

\* Mutant: the result is looked at without the errno.
ToldByStatus(a) == Checked(a)

\* ioctlReadWrite, then checkResult.
Told(a) == IF a.ret # "0" THEN "IoctlFailed" ELSE Checked(a)

\* A program is told that its batch is done only if every packet was intact and
\* the whole of it ran, whatever another client did to the limits meanwhile and
\* wherever the call gave up, the paths that leave the result untouched included.
DoneIsDone ==
  \A c \in Clients :
    LET s == req[c].pkts IN
    pc[c] = "idle" /\ ans[c].ret # "none" /\ req[c].cmd \in {"EXECUTE", "EXECUTE_SAFE"}
    /\ Told(ans[c]) = "done" =>
      /\ s # << >> /\ \A j \in DOMAIN s : s[j].crcok
      /\ ans[c].executed = Cardinality(ForwardBefore(s, Len(s) + 1))
=============================================================================
