------------------------------ MODULE MCGroups ------------------------------
(* Small instances of Groups.                                              *)
EXTENDS Groups, TLC

CONSTANTS a, b, c1, c2

Interchangeable == Permutations(Jids)
=============================================================================
