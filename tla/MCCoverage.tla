----------------------------- MODULE MCCoverage -----------------------------
(* Small instances of Coverage.                                            *)
EXTENDS Coverage

CONSTANTS u1, u2, s1, s2, s3, c1, c2

\* One Account that has paired once or twice (every pairing adds a Session),
\* and a second one.
OneAccount == [s \in Sessions |-> u1]
TwoAccounts == [s \in Sessions |-> IF s = s3 THEN u2 ELSE u1]

\* Only Sessions that have been connected go down.
PairedFirst ==
    \A c \in Requests : request[c].pc \in {"losing", "evicting"} =>
        \A s \in request[c].on : status[s] # "pending"
=============================================================================
