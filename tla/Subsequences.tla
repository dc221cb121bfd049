---------------------------- MODULE Subsequences ----------------------------
(***************************************************************************)
(* The elements of a sequence that are in a set, in their order: what the  *)
(* loops of the library that take some entries out of an array leave, and  *)
(* what they take.  The definition says where each of them comes from, so  *)
(* that the theorems of Subsequences_proofs need no induction.             *)
(***************************************************************************)
EXTENDS Naturals, Sequences, FiniteSets

IndicesIn(seq, S) == {i \in 1 .. Len(seq) : seq[i] \in S}
Rank(i, P) == Cardinality({j \in P : j <= i})
Nth(k, P) == CHOOSE i \in P : Rank(i, P) = k

Only(seq, S) == [k \in 1 .. Cardinality(IndicesIn(seq, S)) |->
                   seq[Nth(k, IndicesIn(seq, S))]]
=============================================================================
