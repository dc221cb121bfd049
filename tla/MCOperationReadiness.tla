----------------------- MODULE MCOperationReadiness -----------------------
(* An instance of OperationReadiness.                                       *)
EXTENDS OperationReadiness, TLC

CONSTANTS a, b

OneDependency == {<<b, a>>}
ThreadsAlike == Permutations(Threads)
===========================================================================
