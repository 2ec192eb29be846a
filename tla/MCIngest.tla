------------------------------ MODULE MCIngest ------------------------------
(* Small instances of Ingest: one Account, one Session, one Group.         *)
EXTENDS Ingest

CONSTANTS u1, s1, j1, m1, m2, m3

OneUser == [s \in {s1} |-> u1]
OneSession == [m \in Msgs |-> s1]
OneChat == [m \in Msgs |-> j1]

\* The overlap run spends its states on three messages and two passes instead
\* of on erasures, account blocks and deliveries of stale messages.
OverlapSlice ==
    /\ eraser.pc = "idle"
    /\ blocked = {}
    /\ messages \cap expired = {}
    /\ fresh = Msgs
=============================================================================
