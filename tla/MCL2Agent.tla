------------------------------ MODULE MCL2Agent ------------------------------
(* Instances of the l2 agent for TLC. *)
EXTENDS L2Agent, TLC

\* Ports of one sort are interchangeable in every safety property.
Symmetry == Permutations(VmPorts) \cup Permutations(ServicePorts)
=============================================================================
