----------------------------- MODULE MCSummaries ----------------------------
(* Small instances of Summaries.                                           *)
EXTENDS Summaries, TLC

CONSTANTS g1, g2, m1, m2, m3, p1, p2, w1, w2

OneGroup == [m \in Msgs |-> g1]

Interchangeable == Permutations(Msgs) \cup Permutations(Workers)

\* The overlap run spends its states on the two workers: the Group stays on its
\* interval and unblocked.
OverlapSlice ==
    /\ blocked = {}
    /\ \A g \in Groups : schedule[g] # "daily"
    /\ \A m \in Msgs : sentAt[m] # Never => m \in stored \/ sentAt[m] = now
=============================================================================
