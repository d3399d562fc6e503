------------------------------ MODULE FilePair ------------------------------
(***************************************************************************)
(* What the command line promises about the binary and the rollback file:  *)
(* a request for a recipe that does not pass leaves both alone; one that   *)
(* passes makes them the result of that recipe alone, whatever was asked   *)
(* before; only in between, or after that was cut short, is there no pair. *)
(***************************************************************************)
EXTENDS Sequences

CONSTANTS
  Sessions,       \* the requests a user may make, one after the other
  Read(_),        \* what a process takes of a request
  Passes(_),      \* whether that is to be compiled
  Result(_)       \* the pair of files it is compiled to

VARIABLES
  todo,           \* the requests still to be made
  job,            \* the one that is served, if any
  done,           \* whether it was served
  pair            \* the two files, if they belong together

vars == <<todo, job, done, pair>>

Init == todo \in Sessions /\ job = {} /\ done = FALSE /\ pair = {<<<<>>, <<>>>>}

Ask ==
  /\ job = {} /\ todo # <<>>
  /\ job' = {Read(Head(todo))} /\ todo' = Tail(todo)
  /\ UNCHANGED <<done, pair>>

Tear ==
  /\ pair # {} /\ pair' = {}
  /\ ~done /\ \E j \in job : Passes(j)
  /\ UNCHANGED <<todo, job, done>>

Finish ==
  /\ pair = {} /\ done' = TRUE
  /\ \E j \in job : Passes(j) /\ pair' = {Result(j)}
  /\ UNCHANGED <<todo, job>>

\* The request is served, refused or given up.
Leave ==
  /\ job # {} /\ job' = {} /\ done' = FALSE
  /\ UNCHANGED <<todo, pair>>

Next == Ask \/ Tear \/ Finish \/ Leave
Spec == Init /\ [][Next]_vars
=============================================================================
