------------------------- MODULE MCOperationQueue -------------------------
(* Instances of OperationQueue.                                             *)
EXTENDS OperationQueue, TLC

CONSTANTS a, b, c

\* c needs a and b; b needs a, and nothing anything.
Both == {<<c, a>>, <<c, b>>}
Pair == {<<b, a>>}
None == {}

\* The default limit (-1) and small ones.
DefaultCount == {-1}
OneOrTwo == {1, 2}

\* The threads of the pool are alike (used without liveness only).
WorkersAlike == Permutations(Workers)
===========================================================================
