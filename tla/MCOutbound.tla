----------------------------- MODULE MCOutbound -----------------------------
(***************************************************************************)
(* Instances of the two senders of unprompted messages.  They share no     *)
(* state, so each is explored with the other at rest.                      *)
(***************************************************************************)
EXTENDS Pings, Tier1, TLC

CONSTANTS u1, u2, p1, p2, none, n1, n2, r1, r2

Owners == 1 :> u1 @@ 2 :> u2

Windows == u1 :> 1 @@ u2 :> 0

outboundVars == <<pingsVars, tier1Vars>>

Init == PingsInit /\ Tier1Init

Next ==
  \/ PingsNext /\ Tier1Init /\ UNCHANGED tier1Vars
  \/ Tier1Next /\ PingsInit /\ UNCHANGED pingsVars

Spec ==
  /\ Init /\ [][Next]_outboundVars
  /\ \A p \in Passes : WF_outboundVars(PassStep(p) /\ Tier1Init /\ UNCHANGED tier1Vars)
=============================================================================
