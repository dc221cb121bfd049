---------------------------- MODULE MCPortNames ----------------------------
(* An instance of PortNames.                                                *)
EXTENDS PortNames, TLC

Alike == Permutations(Processes) \cup Permutations(Ports)
============================================================================
