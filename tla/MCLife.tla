-------------------------------- MODULE MCLife --------------------------------
(* One card, and two programs of any of three kinds that move it. *)
EXTENDS LifeProps

CONSTANTS c1, h1, h2

Requested ==
  { [bind |-> "plain",   card |-> c1, to |-> "vfio-pci", run |-> TRUE],
    [bind |-> "force",   card |-> c1, to |-> "vfio-pci", run |-> FALSE],
    [bind |-> "restore", card |-> c1, to |-> "athanor",  run |-> FALSE] }
=============================================================================
