---------------------------- MODULE SerialLimits ----------------------------
(***************************************************************************)
(* What the ioctl interface promises about the safety level and the        *)
(* thermal limits: they change as if each ioctl took effect in one         *)
(* indivisible step, which depends on its own argument and on the limits   *)
(* it found, and on nothing else.  How far a batch got is not determined,  *)
(* but what it changed is what a prefix of its packets changes, followed,  *)
(* after a failure of a safe run, by its rollback batch.                   *)
(***************************************************************************)
EXTENDS Naturals, Sequences

CONSTANTS Requests, Handler

VARIABLE limits

Limits0 == [safety |-> 1, halt |-> 0, throttle |-> 0]

\* LIMIT and GUARD, the two packets with an effect on the limits.
Effect(l, p) ==
  IF Handler[p.op] = "op_limit" /\ p.src % 256 = 0 THEN [l EXCEPT !.halt = p.size]
  ELSE IF Handler[p.op] = "op_guard" /\ 0 < p.size /\ p.size < l.halt
  THEN [l EXCEPT !.throttle = p.size]
  ELSE l

\* The limits after each of the packets of s, those at K taking effect.
Run(l, s, K) ==
  LET after[k \in 0 .. Len(s)] ==
        IF k = 0 THEN l
        ELSE IF k \in K THEN Effect(after[k - 1], s[k]) ELSE after[k - 1]
  IN  after

After(l, s, n) == Run(l, s, { k \in DOMAIN s : s[k].flags \cap {"AZOTH", "DRY_RUN"} = {} })[n]

Undone(l, s) == Run(l, s, { k \in DOMAIN s : "AZOTH" \in s[k].flags })[Len(s)]

Serve(r) ==
  \/ r.cmd = "SET_SAFETY" /\ limits' = [limits EXCEPT !.safety = r.level]
  \/ /\ r.cmd = "LOAD_VIAL" /\ r.vessels > 0
     /\ limits' = [safety   |-> limits.safety,
                   halt     |-> IF r.halt > 0 THEN r.halt ELSE limits.halt,
                   throttle |-> IF r.throttle > 0 THEN r.throttle ELSE limits.throttle]
  \/ /\ r.cmd \in {"EXECUTE", "EXECUTE_SAFE"}
     /\ \E n \in 0 .. Len(r.pkts) : limits' = After(limits, r.pkts, n)
  \/ /\ r.cmd = "EXECUTE_SAFE" /\ r.azoth # << >>
     /\ \E n \in 0 .. Len(r.pkts) - 1 :
          limits' = Undone(After(limits, r.pkts, n), r.azoth)

Init == limits = Limits0
Next == limits' # limits /\ \E r \in Requests : Serve(r)
Spec == Init /\ [][Next]_limits
=============================================================================
