---------------------------- MODULE MCLiveReads ----------------------------
(* Two children, two parents, a relation read and two declared reads.  The *)
(* properties are invariants and name no element, so that the elements of  *)
(* a set may be exchanged.                                                 *)
EXTENDS LiveReadsProps, TLC

Symmetry == Permutations(Children) \union Permutations(Parents) \union Permutations(QueryReaders)
=============================================================================
