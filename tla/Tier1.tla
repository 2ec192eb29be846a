------------------------------- MODULE Tier1 -------------------------------
(***************************************************************************)
(* Opt-in messages to other people (src/src/tier1.ts) for one Account.     *)
(* The first message to a number claims a row of outbound_recipients and   *)
(* carries the question "Reply Yes"; further ones wait for the Yes, which  *)
(* comes back through the webhook (ingest.ts).  Accounts share nothing:    *)
(* the row is UNIQUE (user_id, recipient_jid).  Requests overlap, and a    *)
(* row is deleted and updated by id, so ids are kept.                      *)
(***************************************************************************)
EXTENDS Naturals

CONSTANTS
  Recipients,  \* numbers the Account writes to
  Requests,    \* handlers of POST /v1/outbound and of the webhook, in flight
  MaxClaims,   \* bound: rows ever inserted for a number
  MaxRestarts   \* bound: restarts of the process

ASSUME Tier1Assumption == MaxClaims \in Nat /\ MaxRestarts \in Nat

VARIABLES
  enabled,   \* users.tier1_enabled_at IS NOT NULL
  clear,  \* a connected Session and no processing block
  row,       \* number -> its row: the id, 0 when there is none, and the status
  claims,    \* number -> rows inserted so far: the next id is claims + 1
  req,       \* request -> what it is about to do, to whom, with which id
  asked,     \* number -> questions that reached it (record)
  unsure,    \* number -> sends that failed though the message left (record)
  said,      \* numbers that have said Yes (record)
  told,      \* numbers that got a message without the question (record)
  restarts

tier1Vars == <<enabled, clear, row, claims, req, asked, unsure, said, told, restarts>>
account == <<enabled, clear, restarts>>
record == <<asked, unsure, said, told>>

Idle == [pc |-> "idle"]
NoRow == [id |-> 0, status |-> "none"]

Request == {Idle} \cup [pc : {"claim", "lookup", "more"}, to : Recipients]
                  \cup [pc : {"first", "undo", "confirm"}, to : Recipients, id : Nat]

\* The columns of outbound_recipients and the locals of the handlers.
Tier1TypeOK ==
  /\ enabled \in BOOLEAN /\ clear \in BOOLEAN /\ restarts \in Nat
  /\ row \in [Recipients -> [id : Nat, status : {"none", "pending", "confirmed"}]]
  /\ claims \in [Recipients -> Nat] /\ req \in [Requests -> Request]
  /\ asked \in [Recipients -> Nat] /\ unsure \in [Recipients -> Nat]
  /\ said \subseteq Recipients /\ told \subseteq Recipients

Tier1Init ==
  /\ enabled = FALSE /\ clear = TRUE /\ restarts = 0
  /\ row = [n \in Recipients |-> NoRow] /\ claims = [n \in Recipients |-> 0]
  /\ req = [r \in Requests |-> Idle]
  /\ asked = [n \in Recipients |-> 0] /\ unsure = [n \in Recipients |-> 0]
  /\ said = {} /\ told = {}

Goto(r, step) == req' = [req EXCEPT ![r] = step]

----------------------------------------------------------------------------
\* Only the version of the authorisation text that is shown is accepted;
\* nothing takes tier1_enabled_at back.
enableTier1(version) ==
  /\ version = "shown"
  /\ enabled' = TRUE
  /\ UNCHANGED <<clear, row, claims, req, record, restarts>>

FlipClear ==
  /\ clear' = ~clear
  /\ UNCHANGED <<enabled, row, claims, req, record, restarts>>

\* sendOutbound up to its first write.  It reads the block, tier1_enabled_at
\* and the Session in turn; none is asked again, so one reading stands for all.
sendOutbound(r, n) ==
  /\ req[r] = Idle /\ enabled /\ clear
  /\ Goto(r, [pc |-> "claim", to |-> n])
  /\ UNCHANGED <<account, row, claims, record>>

InsertedBy(r, n) ==
  /\ claims[n] < MaxClaims
  /\ claims' = [claims EXCEPT ![n] = @ + 1]
  /\ row' = [row EXCEPT ![n] = [id |-> claims[n] + 1, status |-> "pending"]]
  /\ Goto(r, [pc |-> "first", to |-> n, id |-> claims[n] + 1])

\* Mutant: ON CONFLICT DO UPDATE, which returns the row to every caller.
ClaimAlways(r) ==
  /\ req[r].pc = "claim" /\ InsertedBy(r, req[r].to)
  /\ UNCHANGED <<account, record>>
\* INSERT ... ON CONFLICT DO NOTHING: whoever inserts asks.
ClaimNumber(r) ==
  /\ req[r].pc = "claim"
  /\ LET n == req[r].to IN
       \/ row[n] = NoRow /\ InsertedBy(r, n)
       \/ row[n] # NoRow /\ Goto(r, [pc |-> "lookup", to |-> n]) /\ UNCHANGED <<row, claims>>
  /\ UNCHANGED <<account, record>>

SendCold(r, then) ==
  /\ req[r].pc = "first"
  /\ LET n == req[r].to
         undo == [pc |-> "undo", to |-> n, id |-> req[r].id]
     IN \/ /\ asked' = [asked EXCEPT ![n] = @ + 1]
           /\ Goto(r, IF then = "return" THEN Idle ELSE undo) /\ UNCHANGED unsure
        \/ \E left \in {0, 1} :
             /\ asked' = [asked EXCEPT ![n] = @ + left]
             /\ unsure' = [unsure EXCEPT ![n] = @ + left]
             /\ Goto(r, undo)
  /\ UNCHANGED <<account, row, claims, said, told>>
\* Mutant: the claim is taken back in a finally.
SendFirstFinally(r) == SendCold(r, "undo")
\* The cold message leaves with the question; or the call fails, whether the
\* message left or not, and the claim is taken back.
SendFirst(r) == SendCold(r, "return")

\* Mutant: the catch clause rethrows without the DELETE.
UndoNothing(r) ==
  /\ req[r].pc = "undo" /\ Goto(r, Idle)
  /\ UNCHANGED <<account, row, claims, record>>
\* DELETE ... WHERE id = the claim's.
UndoClaim(r) ==
  /\ req[r].pc = "undo"
  /\ LET n == req[r].to IN
       row' = IF row[n].id = req[r].id THEN [row EXCEPT ![n] = NoRow] ELSE row
  /\ Goto(r, Idle)
  /\ UNCHANGED <<account, claims, record>>

\* The row that was in the way may be gone by now: reading it then throws.
LookupNumber(r) ==
  /\ req[r].pc = "lookup"
  /\ LET n == req[r].to IN
       Goto(r, IF row[n].status = "confirmed" THEN [pc |-> "more", to |-> n] ELSE Idle)
  /\ UNCHANGED <<account, row, claims, record>>

SendMore(r) ==
  /\ req[r].pc = "more"
  /\ \E left \in BOOLEAN : told' = IF left THEN told \cup {req[r].to} ELSE told
  /\ Goto(r, Idle)
  /\ UNCHANGED <<account, row, claims, asked, unsure, said>>

----------------------------------------------------------------------------
(* The webhook: a DM from a number. *)

ReplyFound(r, n, yes) ==
  IF row[n].status = "pending" /\ yes
  THEN Goto(r, [pc |-> "confirm", to |-> n, id |-> row[n].id])
  ELSE UNCHANGED req

\* Mutant: any answer confirms.
AnyReply(r, n, yes) ==
  /\ req[r] = Idle
  /\ said' = IF yes THEN said \cup {n} ELSE said
  /\ IF clear THEN ReplyFound(r, n, TRUE) ELSE UNCHANGED req
  /\ UNCHANGED <<account, row, claims, asked, unsure, told>>
\* ingest.ts drops the event under a block; handleRecipientReply looks the
\* row up, and only "Yes" to a pending one goes on to the UPDATE.
handleRecipientReply(r, n, yes) ==
  /\ req[r] = Idle
  /\ said' = IF yes THEN said \cup {n} ELSE said
  /\ IF clear THEN ReplyFound(r, n, yes) ELSE UNCHANGED req
  /\ UNCHANGED <<account, row, claims, asked, unsure, told>>

\* UPDATE ... SET status = 'confirmed' WHERE id = the one read.
Confirm(r) ==
  /\ req[r].pc = "confirm"
  /\ LET n == req[r].to IN
       row' = IF row[n].id = req[r].id THEN [row EXCEPT ![n].status = "confirmed"] ELSE row
  /\ Goto(r, Idle)
  /\ UNCHANGED <<account, claims, record>>

\* The process dies; the rows it claimed stay.  A first message under way had
\* left or not: the crash falls after its send or before.
Restart ==
  /\ restarts < MaxRestarts
  /\ restarts' = restarts + 1
  /\ req' = [r \in Requests |-> Idle]
  /\ UNCHANGED <<enabled, clear, row, claims, record>>

Tier1Next ==
  \/ \E v \in {"shown", "other"} : enableTier1(v)
  \/ FlipClear \/ Restart
  \/ \E r \in Requests :
       \/ \E n \in Recipients : sendOutbound(r, n)
       \/ \E n \in Recipients, yes \in BOOLEAN : handleRecipientReply(r, n, yes)
       \/ ClaimNumber(r) \/ SendFirst(r) \/ UndoClaim(r) \/ LookupNumber(r) \/ SendMore(r) \/ Confirm(r)

Tier1Spec == Tier1Init /\ [][Tier1Next]_tier1Vars

----------------------------------------------------------------------------
\* Nobody gets a message without the question before having said Yes.
ConsentFirst == told \subseteq said

\* A number is asked once, again only for a send that failed after its
\* message had left: of overlapping first messages one asks.
AskedOnce == \A n \in Recipients : asked[n] <= 1 + unsure[n]

\* A number is not left pending without ever having been asked: a failed
\* send gives its claim back.  Only a crash between the two leaves it so.
PendingWasAsked ==
  \A n \in Recipients : row[n] # NoRow /\ restarts = 0 =>
    asked[n] > 0 \/ \E r \in Requests : req[r].pc \in {"first", "undo"} /\ req[r].to = n

\* A confirmed Yes is forgotten only where a send failed ambiguously: the
\* answer may overtake the failure, whose DELETE then takes it along (as it
\* would a Yes to a question that never came).
YesIsKept ==
  [][\A n \in Recipients :
       row[n].status = "confirmed" /\ row'[n] = NoRow => asked[n] = 0 \/ unsure[n] > 0]_tier1Vars
=============================================================================
