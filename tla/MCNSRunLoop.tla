---------------------------- MODULE MCNSRunLoop ----------------------------
(* Instances of NSRunLoop.                                                  *)
EXTENDS NSRunLoop, TLC

AnyModes == (SUBSET Modes) \ {{}}
Both == {{"name", "sender"}}
OneOrder == [p \in Performers |-> 0]
DescriptorsAndModesAlike == Permutations(Fds) \cup Permutations(Modes)
============================================================================
