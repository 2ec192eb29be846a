---------------------------- MODULE MessageLife -----------------------------
(***************************************************************************)
(* What WALAO promises about one raw message body, with no queue, drain    *)
(* pass or transaction in sight: it is accepted once, kept once or         *)
(* dropped, and once the retention purge has deleted it it never returns.  *)
(* Ingest implements this module.                                          *)
(***************************************************************************)
CONSTANT Msgs

VARIABLE phase

Phases == {"unseen", "queued", "kept", "dropped", "purged"}

Init == phase = [m \in Msgs |-> "unseen"]

Move(m, from, to) ==
    /\ phase[m] = from
    /\ phase' = [phase EXCEPT ![m] = to]

\* The webhook answers 202 and the payload is durable.
Accept(m) == Move(m, "unseen", "queued")

\* Normalised, encrypted and stored.
Keep(m) == Move(m, "queued", "kept")

\* Consent withdrawn or processing blocked between the two.
Drop(m) == Move(m, "queued", "dropped")

\* The end of the retention window, for any set of kept bodies at once.
Purge(S) ==
    /\ S # {}
    /\ \A m \in S : phase[m] = "kept"
    /\ phase' = [m \in Msgs |-> IF m \in S THEN "purged" ELSE phase[m]]

\* A Group or an Account is deleted.  Queued and kept bodies go; a purged one
\* is gone already, and a replay of the others may be accepted afresh.
Erase ==
    /\ phase' \in [Msgs -> Phases]
    /\ \A m \in Msgs : phase'[m] # phase[m] =>
          /\ phase[m] \in {"queued", "kept", "dropped"}
          /\ phase'[m] \in {"unseen", "dropped"}

Next ==
    \/ \E m \in Msgs : Accept(m) \/ Keep(m) \/ Drop(m)
    \/ \E S \in SUBSET Msgs : Purge(S)
    \/ Erase

Spec == Init /\ [][Next]_phase

=============================================================================
