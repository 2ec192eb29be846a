---------------------------- MODULE DigestProofs -----------------------------
(***************************************************************************)
(* Proofs about the daily message (Digest), for any items, any pickers and *)
(* senders that overlap, any answers of the model, any failures of the     *)
(* gateway and the database and any crashes: a row marked delivered was    *)
(* sent with the items it holds, and every message after the day's first   *)
(* was earned by a re-pick of a delivered row, or repeats one that left in *)
(* a transaction that was lost.                                            *)
(***************************************************************************)
EXTENDS Digest, SequenceTheorems, TLAPS

\* All a pick can come to: nothing, or what is left of an answer.
Picks == {<<>>} \cup
         UNION {{ValidatePick(raw, c) : raw \in Answers[c]} : c \in SUBSET Items}

PickTypes ==
  /\ landed \subseteq Items
  /\ row \in [exists : BOOLEAN, hashed : BOOLEAN, shown : SUBSET Items, keys : Picks,
              due : BOOLEAN, delivered : BOOLEAN]
  /\ picker \in [Pickers -> [pc : {"idle", "candidates", "cache", "call", "write", "push"},
                             path : {"web", "push", "tick"}, shown : SUBSET Items,
                             keys : Picks]]
  /\ sender \in [Senders -> [pc : {"idle", "send", "commit"}, keys : Picks]]
  /\ sent \in Seq(Picks)
  /\ repicks \in Nat /\ broken \in Nat

\* FOR UPDATE: one sender holds the row, and nobody writes it meanwhile.
HeldRow ==
  /\ row.delivered => row.exists
  /\ \A d, e \in Senders : sender[d].pc # "idle" /\ sender[e].pc # "idle" => d = e
  /\ \A d \in Senders : sender[d].pc # "idle" =>
        row.exists /\ ~ row.delivered /\ sender[d].keys = row.keys

\* A sender that is about to commit has just sent what the row holds.
Said(keys) == \E n \in DOMAIN sent : sent[n] = keys
CommitsWhatWent ==
  \A d \in Senders : sender[d].pc = "commit" => sent # <<>> /\ Said(row.keys)

\* A row not marked delivered is owed a message, unless one is being committed.
Owed == ~ row.delivered /\ \A d \in Senders : sender[d].pc # "commit"
MessagesAccounted ==
  /\ Len(sent) <= 1 + repicks + broken
  /\ Owed => Len(sent) <= repicks + broken

DigestInv == PickTypes /\ HeldRow /\ CommitsWhatWent /\ DeliveredWasSent /\ MessagesAccounted

-----------------------------------------------------------------------------
\* No row, no message: the invariant holds.
LEMMA DigestInitInv == Init => DigestInv
<1> SUFFICES ASSUME Init PROVE DigestInv
  OBVIOUS
<1> USE DigestAssumption DEF Init, NoRow, IdlePicker, IdleSender
<1>1. PickTypes
  BY DEF PickTypes, Picks
<1>2. HeldRow /\ CommitsWhatWent /\ DeliveredWasSent
  BY DEF HeldRow, CommitsWhatWent, DeliveredWasSent
<1>3. MessagesAccounted
  BY DEF MessagesAccounted
<1> QED
  BY <1>1, <1>2, <1>3 DEF DigestInv

\* A message more in the history: what was said before is still there.
LEMMA SaidGrows ==
    ASSUME sent \in Seq(Picks), NEW k \in Picks, sent' = Append(sent, k)
    PROVE  /\ sent' \in Seq(Picks) /\ Len(sent') = Len(sent) + 1
           /\ sent' # <<>> /\ Said(k)'
           /\ \A keys : Said(keys) => Said(keys)'
<1>1. sent' \in Seq(Picks) /\ Len(sent') = Len(sent) + 1 /\ sent'[Len(sent) + 1] = k
  BY AppendProperties
<1>2. \A n \in DOMAIN sent : n \in DOMAIN sent' /\ sent'[n] = sent[n]
  BY AppendProperties, LenProperties
<1>3. DOMAIN sent' = 1 .. Len(sent) + 1 /\ Len(sent) + 1 \in DOMAIN sent' /\ sent' # <<>>
  BY <1>1, LenProperties
<1> QED
  BY <1>1, <1>2, <1>3 DEF Said

\* Steps that touch neither the row, nor a sender, nor the history keep all but
\* the types whatever the pickers do.
LEMMA RowAtRest ==
    ASSUME DigestInv, UNCHANGED <<row, sender, sent, repicks, broken>>
    PROVE  HeldRow' /\ CommitsWhatWent' /\ DeliveredWasSent' /\ MessagesAccounted'
BY DEF DigestInv, HeldRow, CommitsWhatWent, Said, DeliveredWasSent, MessagesAccounted, Owed

-----------------------------------------------------------------------------
\* The steps of a pick keep the types.
LEMMA PickerTyped ==
    ASSUME PickTypes, NEW p \in Pickers,
           OpenPage(p) \/ DeliverSummaries(p) \/ ClaimDay(p) \/ PickStep(p)
    PROVE  PickTypes'
<1> USE DigestAssumption DEF PickTypes
<1>1. <<>> \in Picks /\ \A c \in SUBSET Items : \A raw \in Answers[c] : ValidatePick(raw, c) \in Picks
  BY DEF Picks
<1>2. IdlePicker \in [pc : {"idle", "candidates", "cache", "call", "write", "push"},
                      path : {"web", "push", "tick"}, shown : SUBSET Items, keys : Picks]
  BY <1>1 DEF IdlePicker
<1>start. ASSUME NEW path \in {"web", "push", "tick"}, Start(p, path)
      PROVE  picker' \in [Pickers -> [pc : {"idle", "candidates", "cache", "call", "write", "push"},
                             path : {"web", "push", "tick"}, shown : SUBSET Items,
                             keys : Picks]]
  <2>1. [IdlePicker EXCEPT !.pc = "candidates", !.path = path]
          \in [pc : {"idle", "candidates", "cache", "call", "write", "push"},
               path : {"web", "push", "tick"}, shown : SUBSET Items, keys : Picks]
    BY <1>2
  <2> QED
    BY <1>start, <2>1 DEF Start
<1>3. CASE OpenPage(p) \/ DeliverSummaries(p)
  BY <1>start, <1>3 DEF OpenPage, DeliverSummaries, itemVars, history
<1>4. CASE ClaimDay(p)
  <2>1. picker' = picker \/ Start(p, "tick")
    BY <1>4 DEF ClaimDay
  <2>2. picker' \in [Pickers -> [pc : {"idle", "candidates", "cache", "call", "write", "push"},
                             path : {"web", "push", "tick"}, shown : SUBSET Items,
                             keys : Picks]]
    BY <1>start, <2>1
  <2>3. row' \in [exists : BOOLEAN, hashed : BOOLEAN, shown : SUBSET Items, keys : Picks,
                  due : BOOLEAN, delivered : BOOLEAN]
    BY <1>1, <1>4 DEF ClaimDay, NoRow
  <2> QED
    BY <1>4, <2>2, <2>3 DEF ClaimDay, itemVars, history
<1>5. CASE BuildCandidates(p)
  <2>1. landed \ cleared \in SUBSET Items
    OBVIOUS
  <2> QED
    BY <1>2, <1>5, <2>1 DEF BuildCandidates, Return, itemVars, history
<1>6. CASE LookupCache(p)
  BY <1>2, <1>6 DEF LookupCache, ReturnPick, Return, itemVars, history
<1>7. CASE CallPicker(p)
  BY <1>1, <1>2, <1>7 DEF CallPicker, Return, itemVars, history
<1>8. CASE WritePick(p)
  <2>1. picker[p].keys \in Picks /\ picker[p].shown \in SUBSET Items
    OBVIOUS
  <2>2. picker' \in [Pickers -> [pc : {"idle", "candidates", "cache", "call", "write", "push"},
                             path : {"web", "push", "tick"}, shown : SUBSET Items,
                             keys : Picks]]
    <3>1. picker' = [picker EXCEPT ![p].pc = "push", ![p].keys = picker[p].keys] \/ Return(p)
      BY <1>8 DEF WritePick, ReturnPick
    <3> QED
      BY <1>2, <2>1, <3>1 DEF Return
  <2>3. repicks' \in Nat
    BY <1>8 DEF WritePick
  <2>4. row' \in [exists : BOOLEAN, hashed : BOOLEAN, shown : SUBSET Items, keys : Picks,
                  due : BOOLEAN, delivered : BOOLEAN]
    BY <1>8, <2>1 DEF WritePick
  <2> QED
    BY <1>8, <2>2, <2>3, <2>4 DEF WritePick, itemVars
<1>9. CASE PullForward(p)
  BY <1>2, <1>9 DEF PullForward, Return, itemVars, history
<1> QED
  BY <1>3, <1>4, <1>5, <1>6, <1>7, <1>8, <1>9 DEF PickStep

\* A pick writes the row only while no sender holds it, and clears delivered_at
\* unless what it writes was sent or is nothing.
LEMMA PickerKeepsInv ==
    ASSUME DigestInv, NEW p \in Pickers,
           OpenPage(p) \/ DeliverSummaries(p) \/ ClaimDay(p) \/ PickStep(p)
    PROVE  DigestInv'
<1>1. PickTypes'
  BY PickerTyped DEF DigestInv
<1>2. ASSUME UNCHANGED <<row, sender, sent, repicks, broken>>
      PROVE  DigestInv'
  BY <1>1, <1>2, RowAtRest DEF DigestInv
<1>3. CASE OpenPage(p) \/ DeliverSummaries(p) \/ BuildCandidates(p) \/ LookupCache(p) \/ CallPicker(p)
  BY <1>2, <1>3 DEF OpenPage, DeliverSummaries, BuildCandidates, LookupCache, CallPicker, history
<1>4. CASE ClaimDay(p) \/ PullForward(p)
  <2>1. \/ row' = row
        \/ ~ row.exists /\ row'.keys = <<>> /\ ~ row'.delivered
        \/ /\ ~ Locked /\ row'.exists = row.exists
           /\ row'.keys = row.keys /\ row'.delivered = row.delivered
    BY <1>4 DEF ClaimDay, PullForward, NoRow, DigestInv, PickTypes
  <2>2. UNCHANGED <<sender, sent, repicks, broken>>
    BY <1>4 DEF ClaimDay, PullForward, history
  <2>3. CASE row' = row
    BY <1>2, <2>2, <2>3
  <2>4. CASE ~ row.exists /\ row'.keys = <<>> /\ ~ row'.delivered
    <3>1. \A d \in Senders : sender[d].pc = "idle"
      BY <2>4 DEF DigestInv, HeldRow
    <3>2. HeldRow' /\ CommitsWhatWent' /\ DeliveredWasSent'
      BY <2>2, <2>4, <3>1 DEF HeldRow, CommitsWhatWent, DeliveredWasSent
    <3>3. MessagesAccounted'
      BY <2>2, <2>4 DEF DigestInv, HeldRow, MessagesAccounted, Owed
    <3> QED
      BY <1>1, <3>2, <3>3 DEF DigestInv
  <2>5. CASE /\ ~ Locked /\ row'.exists = row.exists
             /\ row'.keys = row.keys /\ row'.delivered = row.delivered
    <3>1. \A d \in Senders : sender[d].pc = "idle"
      BY <2>5 DEF Locked
    <3>2. HeldRow' /\ CommitsWhatWent' /\ DeliveredWasSent'
      BY <2>2, <2>5, <3>1 DEF DigestInv, HeldRow, CommitsWhatWent, DeliveredWasSent
    <3>3. MessagesAccounted'
      BY <2>2, <2>5 DEF DigestInv, MessagesAccounted, Owed
    <3> QED
      BY <1>1, <3>2, <3>3 DEF DigestInv
  <2> QED
    BY <2>1, <2>3, <2>4, <2>5
<1>5. CASE WritePick(p)
  <2> DEFINE keys == picker[p].keys
  <2>1. \A d \in Senders : sender[d].pc = "idle"
    BY <1>5 DEF WritePick, Locked
  <2>2. /\ row'.exists /\ row'.keys = keys
        /\ row'.delivered = (row.exists /\ row.delivered /\ ~ Redelivers(keys))
    BY <1>5 DEF WritePick
  <2>3. UNCHANGED <<sender, sent, broken>>
    BY <1>5 DEF WritePick
  <2>4. HeldRow' /\ CommitsWhatWent'
    BY <2>1, <2>2, <2>3 DEF HeldRow, CommitsWhatWent
  <2>5. DeliveredWasSent'
    BY <2>2, <2>3 DEF DigestInv, DeliveredWasSent, Redelivers
  <2>6. MessagesAccounted'
    <3>1. /\ repicks \in Nat /\ broken \in Nat /\ Len(sent) \in Nat
      BY LenProperties DEF DigestInv, PickTypes
    <3>2. CASE row.delivered /\ Redelivers(keys)
      <4>1. repicks' = repicks + 1
        BY <1>5, <3>2 DEF WritePick, Redelivers
      <4> QED
        BY <2>3, <3>1, <4>1 DEF DigestInv, MessagesAccounted
    <3>3. CASE ~ row.delivered
      <4>1. Owed /\ UNCHANGED repicks
        BY <1>5, <2>1, <3>3 DEF WritePick, Owed
      <4> QED
        BY <2>3, <3>1, <4>1 DEF DigestInv, MessagesAccounted
    <3>4. CASE row.delivered /\ ~ Redelivers(keys)
      <4>1. ~ Owed' /\ UNCHANGED repicks
        BY <1>5, <2>2, <3>4 DEF WritePick, Owed, Redelivers, DigestInv, HeldRow
      <4> QED
        BY <2>3, <3>1, <4>1 DEF DigestInv, MessagesAccounted
    <3> QED
      BY <3>2, <3>3, <3>4
  <2> QED
    BY <1>1, <2>4, <2>5, <2>6 DEF DigestInv
<1> QED
  BY <1>3, <1>4, <1>5 DEF PickStep

-----------------------------------------------------------------------------
\* A sender takes the lock, sends, and commits or rolls back.
LEMMA SenderKeepsInv ==
    ASSUME DigestInv, NEW d \in Senders, SenderStep(d)
    PROVE  DigestInv'
<1> USE DEF DigestInv
<1>0. Len(sent) \in Nat /\ repicks \in Nat /\ broken \in Nat /\ <<>> \in Picks
  BY LenProperties DEF PickTypes, Picks
<1>1. CASE ClaimMessage(d)
  <2>1. \A e \in Senders : sender[e].pc = "idle"
    BY <1>1 DEF ClaimMessage, Locked
  <2>2. /\ sender' = [sender EXCEPT ![d] = [pc |-> "send", keys |-> row.keys]]
        /\ row.exists /\ ~ row.delivered
        /\ UNCHANGED <<landed, row, picker, sent, repicks, broken>>
    BY <1>1 DEF ClaimMessage, itemVars, history
  <2>3. PickTypes'
    BY <2>2 DEF PickTypes
  <2>4. HeldRow' /\ CommitsWhatWent' /\ DeliveredWasSent'
    BY <2>1, <2>2 DEF PickTypes, HeldRow, CommitsWhatWent, DeliveredWasSent
  <2>5. MessagesAccounted'
    BY <2>1, <2>2 DEF PickTypes, MessagesAccounted, Owed
  <2> QED
    BY <2>3, <2>4, <2>5
<1>2. CASE SendToSelf(d)
  <2>1. /\ sender' = [sender EXCEPT ![d].pc = "commit"]
        /\ sender[d].pc = "send" /\ sent' = Append(sent, sender[d].keys)
        /\ UNCHANGED <<landed, row, picker, repicks, broken>>
    BY <1>2 DEF SendToSelf, Leaves, itemVars
  <2>2. /\ sent' \in Seq(Picks) /\ Len(sent') = Len(sent) + 1
        /\ sent' # <<>> /\ Said(sender[d].keys)'
    BY <2>1, SaidGrows DEF PickTypes
  <2>3. ~ row.delivered /\ sender[d].keys = row.keys
        /\ \A e \in Senders : e # d => sender[e].pc = "idle"
    BY <2>1 DEF HeldRow
  <2>4. PickTypes'
    BY <2>1, <2>2 DEF PickTypes
  <2>5. HeldRow' /\ DeliveredWasSent'
    BY <2>1, <2>3 DEF PickTypes, HeldRow, DeliveredWasSent
  <2>6. CommitsWhatWent'
    BY <2>1, <2>2, <2>3 DEF CommitsWhatWent, Said
  <2>7. Owed /\ ~ Owed'
    BY <2>1, <2>3 DEF Owed, PickTypes
  <2>8. MessagesAccounted'
    BY <1>0, <2>1, <2>2, <2>7 DEF MessagesAccounted
  <2> QED
    BY <2>4, <2>5, <2>6, <2>8
<1>3. CASE SendFails(d)
  <2>1. /\ sender' = [sender EXCEPT ![d] = [pc |-> "idle", keys |-> <<>>]]
        /\ sender[d].pc = "send"
        /\ UNCHANGED <<landed, row, picker, repicks>>
    BY <1>3 DEF SendFails, EndPass, IdleSender, itemVars
  <2>2. \/ UNCHANGED <<sent, broken>>
        \/ sent' = Append(sent, sender[d].keys) /\ broken' = broken + 1
    BY <1>3 DEF SendFails, Leaves
  <2>3. /\ sent' \in Seq(Picks) /\ broken' \in Nat /\ Len(sent') - broken' = Len(sent) - broken
        /\ \A keys : Said(keys) => Said(keys)'
        /\ sent # <<>> => sent' # <<>>
    <3>1. CASE UNCHANGED <<sent, broken>>
      BY <1>0, <3>1 DEF PickTypes, Said
    <3>2. CASE sent' = Append(sent, sender[d].keys) /\ broken' = broken + 1
      BY <1>0, <3>2, SaidGrows DEF PickTypes
    <3> QED
      BY <2>2, <3>1, <3>2
  <2>4. PickTypes'
    BY <1>0, <2>1, <2>3 DEF PickTypes
  <2>5. HeldRow'
    BY <2>1 DEF PickTypes, HeldRow
  <2>6. CommitsWhatWent'
    BY <2>1, <2>3 DEF PickTypes, CommitsWhatWent, Said
  <2>7. DeliveredWasSent'
    BY <2>1 DEF HeldRow, DeliveredWasSent
  <2>8. Owed /\ Len(sent') \in Nat
    BY <2>1, <2>3, LenProperties DEF Owed, HeldRow
  <2>9. MessagesAccounted'
    BY <1>0, <2>1, <2>3, <2>8 DEF MessagesAccounted
  <2> QED
    BY <2>4, <2>5, <2>6, <2>7, <2>9
<1>4. CASE CommitDelivered(d)
  <2>1. /\ sender' = [sender EXCEPT ![d] = [pc |-> "idle", keys |-> <<>>]]
        /\ sender[d].pc = "commit" /\ row' = [row EXCEPT !.delivered = TRUE]
        /\ UNCHANGED <<landed, picker, sent, repicks, broken>>
    BY <1>4 DEF CommitDelivered, EndPass, IdleSender, itemVars, history
  <2>2. row.exists /\ row'.exists /\ row'.delivered /\ row'.keys = row.keys
    BY <2>1 DEF PickTypes, HeldRow
  <2>3. PickTypes'
    BY <1>0, <2>1 DEF PickTypes
  <2>4. sent # <<>> /\ Said(row.keys)
    BY <2>1 DEF CommitsWhatWent
  <2>5. DeliveredWasSent'
    BY <2>1, <2>2, <2>4 DEF DeliveredWasSent, Said
  <2>6. \A e \in Senders : sender'[e].pc = "idle"
    BY <2>1 DEF PickTypes, HeldRow
  <2>7. HeldRow' /\ CommitsWhatWent'
    BY <2>2, <2>6 DEF HeldRow, CommitsWhatWent
  <2>8. ~ Owed'
    BY <2>2 DEF Owed
  <2> QED
    BY <1>0, <2>1, <2>3, <2>5, <2>7, <2>8 DEF MessagesAccounted
<1>5. CASE CommitFails(d)
  <2>1. /\ sender' = [sender EXCEPT ![d] = [pc |-> "idle", keys |-> <<>>]]
        /\ broken' = broken + 1
        /\ UNCHANGED <<landed, row, picker, sent, repicks>>
    BY <1>5 DEF CommitFails, EndPass, IdleSender, itemVars
  <2>2. PickTypes'
    BY <1>0, <2>1 DEF PickTypes
  <2>3. HeldRow' /\ CommitsWhatWent' /\ DeliveredWasSent'
    BY <2>1 DEF PickTypes, HeldRow, CommitsWhatWent, Said, DeliveredWasSent
  <2>4. MessagesAccounted'
    BY <1>0, <2>1 DEF MessagesAccounted
  <2> QED
    BY <2>2, <2>3, <2>4
<1> QED
  BY <1>1, <1>2, <1>3, <1>4, <1>5 DEF SenderStep

\* A crash frees the lock; a message that went out uncommitted stays owed, and
\* counts as broken.
LEMMA CrashKeepsInv ==
    ASSUME DigestInv, Crash
    PROVE  DigestInv'
<1> USE DEF DigestInv
<1>1. /\ sender' = [d \in Senders |-> [pc |-> "idle", keys |-> <<>>]]
      /\ UNCHANGED <<landed, row, sent, repicks>>
  BY DEF Crash, IdleSender, itemVars
<1>2. Len(sent) \in Nat /\ repicks \in Nat /\ broken \in Nat /\ <<>> \in Picks
  BY LenProperties DEF PickTypes, Picks
<1>3. /\ broken' \in {broken, broken + 1}
      /\ ~ row.delivered => Owed \/ broken' = broken + 1
  BY DEF Crash, Owed
<1>4. PickTypes'
  BY <1>1, <1>2, <1>3 DEF PickTypes, Crash, IdlePicker
<1>5. HeldRow' /\ CommitsWhatWent' /\ DeliveredWasSent'
  BY <1>1 DEF HeldRow, CommitsWhatWent, DeliveredWasSent
<1>6. Owed' => ~ row.delivered
  BY <1>1 DEF Owed
<1>7. MessagesAccounted'
  BY <1>1, <1>2, <1>3, <1>6 DEF MessagesAccounted
<1> QED
  BY <1>4, <1>5, <1>7

LEMMA DigestNextInv == DigestInv /\ [Next]_vars => DigestInv'
<1> SUFFICES ASSUME DigestInv, [Next]_vars PROVE DigestInv'
  OBVIOUS
<1>1. ASSUME NEW p \in Pickers,
             OpenPage(p) \/ DeliverSummaries(p) \/ ClaimDay(p) \/ PickStep(p)
      PROVE  DigestInv'
  BY <1>1, PickerKeepsInv
<1>2. ASSUME NEW d \in Senders, SenderStep(d)
      PROVE  DigestInv'
  BY <1>2, SenderKeepsInv
<1>3. CASE Crash
  BY <1>3, CrashKeepsInv
<1>4. ASSUME UNCHANGED <<row, picker, sender, sent, repicks, broken>>, landed' \subseteq Items
      PROVE  DigestInv'
  <2>1. PickTypes'
    BY <1>4 DEF DigestInv, PickTypes
  <2> QED
    BY <1>4, <2>1, RowAtRest DEF DigestInv
<1>5. ASSUME NEW i \in Items, SummaryLands(i) \/ SetItemState(i)
      PROVE  DigestInv'
  BY <1>4, <1>5 DEF SummaryLands, SetItemState, history, DigestInv, PickTypes
<1>6. CASE (\E state \in {"ready", "paused", "disconnected"} : AccountMoves(state)) \/ HourComes \/ DayEnds
  BY <1>4, <1>6 DEF AccountMoves, HourComes, DayEnds, history, itemVars, DigestInv, PickTypes
<1>7. CASE UNCHANGED vars
  BY <1>4, <1>7 DEF vars, DigestInv, PickTypes
<1> QED
  BY <1>1, <1>2, <1>3, <1>5, <1>6, <1>7 DEF Next

\* The inductive invariant of the daily message.
THEOREM DigestInvariant == Spec => []DigestInv
<1> QED
  BY DigestInitInv, DigestNextInv, PTL DEF Spec

\* A row marked delivered was sent with the items it holds (deliver.ts commits
\* delivered_at under the lock its SELECT took; pick.ts clears it with new keys).
THEOREM DeliveredIsSent == Spec => []DeliveredWasSent
<1>1. DigestInv => DeliveredWasSent
  BY DEF DigestInv
<1> QED
  BY <1>1, DigestInvariant, PTL

\* However pages, pushes, ticks and senders overlap, fail and crash, a message after
\* the first was earned by a re-pick of a delivered row, or repeats one that left in
\* a transaction that was lost (deliver.ts sends before it commits).
THEOREM EveryMessageEarned == Spec => []MessagesEarned
<1>1. DigestInv => MessagesEarned
  BY DEF DigestInv, MessagesAccounted, MessagesEarned
<1> QED
  BY <1>1, DigestInvariant, PTL
=============================================================================
