------------------------------ MODULE MCDigest ------------------------------
(* Small instances of Digest.                                              *)
EXTENDS Digest

CONSTANTS i1, i2, p1, p2, d1, d2

Interchangeable == Permutations(Senders)

\* The model may pick anything, in any order, repeat itself and invent a key.
AnyAnswer == [c \in SUBSET Items |-> SeqOf(c \cup {Bogus}, 2)]

\* It may rank what it is shown in any order, and leave items out.
AnyRanking == [c \in SUBSET Items |-> SetToAllKPermutations(c)]

\* It picks all it is shown (picker/local.ts does, for a short list).
EveryItem == [c \in SUBSET Items |-> {SetToSeq(c)}]

\* The run on overlap spends its states on picks and senders: the account stays
\* ready, and an item cleared stays so.
OverlapSlice == account' = account /\ cleared \subseteq cleared'
=============================================================================
