-------------------------- MODULE MCNSUndoManager --------------------------
(* Instances of NSUndoManager.                                              *)
EXTENDS NSUndoManager, TLC

\* The manager looks at no value, and at the key only to compare it.
KeysAndValuesAlike == Permutations(Keys) \cup Permutations(Values)
============================================================================
