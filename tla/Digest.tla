------------------------------- MODULE Digest -------------------------------
(***************************************************************************)
(* The daily message of one Account on one UTC day: the briefs row, the    *)
(* pick that fills it (pick.ts) when the web page opens, when a pushing    *)
(* Group's Summary lands or when the digest clock ticks, and the drain     *)
(* that sends it (deliver.ts).  All of them overlap (server.ts).           *)
(*                                                                         *)
(* A pick is a snapshot of the candidates, a cache lookup, a model call    *)
(* and an upsert, each seeing what others did in between.  A sender holds  *)
(* the row's lock from its SELECT to its COMMIT, the gateway call included.*)
(* Item texts are abstracted to their keys, the input hash to the set of   *)
(* candidates it fingerprints, and times to whether they have come.  Items *)
(* do not age out of the Brief's rolling 24 hours within the day.          *)
(***************************************************************************)
EXTENDS Integers, SequencesExt

CONSTANTS
    Items,       \* items the day's Summaries may hold
    Early,       \* those of Summaries that exist when the day starts
    Pushing,     \* those of Groups on an interval
    Pickers,     \* pickForToday calls that may overlap
    Clocks,      \* those of tickDigests; the others serve pages and pushes
    Senders,     \* deliverDigests passes that may overlap
    Bogus,       \* a key the model may invent
    Answers,     \* the keys the model may answer, for the candidates it is shown
    MaxPick,     \* MAX_PICK: how many of them are taken
    MaxSent,     \* bound: messages
    MaxRepicks,  \* bound: re-picks that change what a delivered row says
    MaxCrashes   \* bound: process crashes

ASSUME DigestAssumption ==
    /\ Early \subseteq Items /\ Pushing \subseteq Items
    /\ Bogus \notin Items
    /\ Answers \in [SUBSET Items -> SUBSET Seq(Items \cup {Bogus})]
    /\ MaxPick \in Nat \ {0}
    /\ Clocks \subseteq Pickers
    /\ MaxSent \in Nat
    /\ MaxRepicks \in Nat
    /\ MaxCrashes \in Nat

VARIABLES
    landed,     \* items of summaries rows
    cleared,    \* those the Account completed or dismissed
    owed,       \* pushing items whose Summary is not marked delivered yet
    account,    \* "ready", "paused" (any block but the next) or "disconnected"
    hour,       \* the Account's digest hour has come
    over,       \* the UTC day has ended
    row,        \* the day's briefs row
    picker,     \* pickForToday calls in flight
    sender,     \* deliverDigests passes
    crashes,
    sent,       \* history: the items of each message that went out
    repicks,    \* history: upserts that gave a delivered row other keys, and some
    broken      \* history: messages that went out and whose transaction was lost

vars == <<landed, cleared, owed, account, hour, over, row, picker, sender, crashes,
          sent, repicks, broken>>

itemVars == <<landed, cleared>>
clockVars == <<account, hour, over>>
history == <<sent, repicks, broken>>

\* shown: the candidates input_hash was computed from; claimed but unfilled rows
\* have the hash ''.
NoRow == [exists |-> FALSE, hashed |-> FALSE, shown |-> {}, keys |-> <<>>,
          due |-> FALSE, delivered |-> FALSE]
RowState == [exists : BOOLEAN, hashed : BOOLEAN, shown : SUBSET Items,
             keys : Seq(Items), due : BOOLEAN, delivered : BOOLEAN]

IdlePicker == [pc |-> "idle", path |-> "web", shown |-> {}, keys |-> <<>>]
PickerState == [pc : {"idle", "candidates", "cache", "call", "write", "push"},
                path : {"web", "push", "tick"}, shown : SUBSET Items, keys : Seq(Items)]

IdleSender == [pc |-> "idle", keys |-> <<>>]
SenderState == [pc : {"idle", "send", "commit"}, keys : Seq(Items)]

TypeOK ==
    /\ landed \subseteq Items /\ cleared \subseteq landed
    /\ owed \subseteq landed \cap Pushing
    /\ account \in {"ready", "paused", "disconnected"}
    /\ hour \in BOOLEAN /\ over \in BOOLEAN
    /\ row \in RowState
    /\ picker \in [Pickers -> PickerState]
    /\ sender \in [Senders -> SenderState]
    /\ crashes \in 0 .. MaxCrashes
    /\ \A n \in DOMAIN sent : sent[n] \in Seq(Items) /\ Len(sent[n]) <= MaxPick
    /\ repicks \in 0 .. MaxRepicks
    /\ broken \in 0 .. Len(sent)

Init ==
    /\ landed = Early /\ cleared = {} /\ owed = {}
    /\ account = "ready" /\ hour = FALSE /\ over = FALSE
    /\ row = NoRow
    /\ picker = [p \in Pickers |-> IdlePicker]
    /\ sender = [d \in Senders |-> IdleSender]
    /\ crashes = 0
    /\ sent = <<>> /\ repicks = 0 /\ broken = 0

\* mutant of Locked: a sender's SELECT takes no lock
Unlocked == FALSE

\* FOR UPDATE OF b: a sender holds the row until it commits.
Locked == \E d \in Senders : sender[d].pc # "idle"

-----------------------------------------------------------------------------
(* pickForToday, on its three paths.                                       *)

Start(p, path) == picker' = [picker EXCEPT ![p] = [IdlePicker EXCEPT !.pc = "candidates",
                                                                      !.path = path]]

\* GET /v1/briefs/today.
OpenPage(p) ==
    /\ p \notin Clocks /\ picker[p].pc = "idle" /\ ~over
    /\ Start(p, "web")
    /\ UNCHANGED <<itemVars, owed, clockVars, row, sender, crashes, history>>

\* deliverSummaries: the Summaries are marked delivered and committed, then one
\* re-pick per Account follows.
DeliverSummaries(p) ==
    /\ p \notin Clocks /\ picker[p].pc = "idle" /\ ~over
    /\ owed # {} /\ account = "ready"
    /\ owed' = {}
    /\ Start(p, "push")
    /\ UNCHANGED <<itemVars, clockVars, row, sender, crashes, history>>

\* mutant of ClaimDay: a row held back for a quiet day is not armed
ClaimDayOnce(p) ==
    /\ p \in Clocks /\ picker[p].pc = "idle" /\ ~over
    /\ hour /\ account # "disconnected"
    /\ ~row.exists
    /\ row' = [NoRow EXCEPT !.exists = TRUE, !.due = TRUE]
    /\ Start(p, "tick")
    /\ UNCHANGED <<itemVars, owed, clockVars, sender, crashes, history>>

\* tickDigests: claim the day with an empty row that is due at once and fill it,
\* or arm a row held back.
ClaimDay(p) ==
    /\ p \in Clocks /\ picker[p].pc = "idle" /\ ~over
    /\ hour /\ account # "disconnected"
    /\ \/ /\ ~row.exists
          /\ row' = [NoRow EXCEPT !.exists = TRUE, !.due = TRUE]
          /\ Start(p, "tick")
       \/ /\ row.exists /\ ~row.due /\ ~Locked
          /\ row' = [row EXCEPT !.due = TRUE]
          /\ UNCHANGED picker
    /\ UNCHANGED <<itemVars, owed, clockVars, sender, crashes, history>>

Return(p) == picker' = [picker EXCEPT ![p] = IdlePicker]

\* On the push path a pick that holds something also pulls the message forward.
ReturnPick(p, keys) ==
    IF picker[p].path = "push" /\ keys # <<>>
      THEN picker' = [picker EXCEPT ![p].pc = "push", ![p].keys = keys]
      ELSE Return(p)

\* buildTodayBrief and buildCandidates; no candidates, no pick and no write.
BuildCandidates(p) ==
    LET candidates == landed \ cleared IN
    /\ picker[p].pc = "candidates"
    /\ IF candidates = {} THEN Return(p)
       ELSE picker' = [picker EXCEPT ![p].pc = "cache", ![p].shown = candidates]
    /\ UNCHANGED <<itemVars, owed, clockVars, row, sender, crashes, history>>

LookupCache(p) ==
    /\ picker[p].pc = "cache"
    /\ IF row.exists /\ row.hashed /\ row.shown = picker[p].shown
         THEN ReturnPick(p, row.keys)
         ELSE picker' = [picker EXCEPT ![p].pc = "call"]
    /\ UNCHANGED <<itemVars, owed, clockVars, row, sender, crashes, history>>

\* mutant of ValidatePick: the model's keys are taken as they come
TrustPick(raw, candidates) == raw

\* Keys that were never candidates go, duplicates collapse, the rest is cut.
ValidatePick(raw, candidates) ==
    LET known == SelectSeq(raw, LAMBDA k : k \in candidates)
        once  == FoldLeft(LAMBDA ks, k : IF k \in ToSet(ks) THEN ks ELSE Append(ks, k),
                          <<>>, known)
    IN  SubSeq(once, 1, Min({MaxPick, Len(once)}))

\* The model answers, or fails: no pick, and nothing is written.
CallPicker(p) ==
    /\ picker[p].pc = "call"
    /\ \/ \E raw \in Answers[picker[p].shown] :
            picker' = [picker EXCEPT ![p].pc = "write",
                                     ![p].keys = ValidatePick(raw, picker[p].shown)]
       \/ Return(p)
    /\ UNCHANGED <<itemVars, owed, clockVars, row, sender, crashes, history>>

\* mutant of Redelivers: any re-pick clears delivered_at
AlwaysRedelivers(keys) == TRUE

\* delivered_at is cleared when the keys, in their order, changed into something
\* worth a message.
Redelivers(keys) == keys # <<>> /\ keys # row.keys

WritePick(p) ==
    LET keys == picker[p].keys IN
    /\ picker[p].pc = "write"
    /\ ~Locked
    /\ row' = [exists |-> TRUE, hashed |-> TRUE, shown |-> picker[p].shown, keys |-> keys,
               due |-> IF row.exists THEN row.due ELSE keys # <<>>,
               delivered |-> row.exists /\ row.delivered /\ ~Redelivers(keys)]
    /\ IF row.delivered /\ keys # <<>> /\ keys # row.keys
         THEN repicks < MaxRepicks /\ repicks' = repicks + 1
         ELSE UNCHANGED repicks
    /\ ReturnPick(p, keys)
    /\ UNCHANGED <<itemVars, owed, clockVars, sender, crashes, sent, broken>>

PullForward(p) ==
    /\ picker[p].pc = "push"
    /\ ~Locked
    /\ row' = IF row.exists /\ ~row.delivered THEN [row EXCEPT !.due = TRUE] ELSE row
    /\ Return(p)
    /\ UNCHANGED <<itemVars, owed, clockVars, sender, crashes, history>>

-----------------------------------------------------------------------------
(* deliverDigests.                                                         *)

ClaimMessage(d) ==
    /\ sender[d].pc = "idle" /\ ~Locked
    /\ row.exists /\ row.due /\ ~row.delivered /\ ~over
    /\ account = "ready"
    /\ sender' = [sender EXCEPT ![d] = [pc |-> "send", keys |-> row.keys]]
    /\ UNCHANGED <<itemVars, owed, clockVars, row, picker, crashes, history>>

\* The message is out.
Leaves(d) ==
    /\ Len(sent) < MaxSent
    /\ sent' = Append(sent, sender[d].keys)

EndPass(d) == sender' = [sender EXCEPT ![d] = IdleSender]

SendToSelf(d) ==
    /\ sender[d].pc = "send"
    /\ Leaves(d)
    /\ sender' = [sender EXCEPT ![d].pc = "commit"]
    /\ UNCHANGED <<itemVars, owed, clockVars, row, picker, crashes, repicks, broken>>

\* The gateway throws, before the message has left or after: ROLLBACK, and the
\* pass ends.
SendFails(d) ==
    /\ sender[d].pc = "send"
    /\ \/ UNCHANGED <<sent, broken>>
       \/ Leaves(d) /\ broken' = broken + 1
    /\ EndPass(d)
    /\ UNCHANGED <<itemVars, owed, clockVars, row, picker, crashes, repicks>>

CommitDelivered(d) ==
    /\ sender[d].pc = "commit"
    /\ row' = [row EXCEPT !.delivered = TRUE]
    /\ EndPass(d)
    /\ UNCHANGED <<itemVars, owed, clockVars, picker, crashes, history>>

\* The UPDATE or the COMMIT throws: the same ROLLBACK, with the message out.
CommitFails(d) ==
    /\ sender[d].pc = "commit"
    /\ broken' = broken + 1
    /\ EndPass(d)
    /\ UNCHANGED <<itemVars, owed, clockVars, row, picker, crashes, sent, repicks>>

-----------------------------------------------------------------------------
(* The rest of the system.                                                 *)

SummaryLands(i) ==
    /\ i \notin landed
    /\ landed' = landed \cup {i}
    /\ owed' = IF i \in Pushing THEN owed \cup {i} ELSE owed
    /\ UNCHANGED <<cleared, clockVars, row, picker, sender, crashes, history>>

\* The Account completes or dismisses an item, or takes that back.
SetItemState(i) ==
    /\ i \in landed
    /\ cleared' = IF i \in cleared THEN cleared \ {i} ELSE cleared \cup {i}
    /\ UNCHANGED <<landed, owed, clockVars, row, picker, sender, crashes, history>>

AccountMoves(state) ==
    /\ account # state
    /\ account' = state
    /\ UNCHANGED <<itemVars, owed, hour, over, row, picker, sender, crashes, history>>

HourComes ==
    /\ ~hour
    /\ hour' = TRUE
    /\ UNCHANGED <<itemVars, owed, account, over, row, picker, sender, crashes, history>>

DayEnds ==
    /\ ~over
    /\ over' = TRUE
    /\ UNCHANGED <<itemVars, owed, account, hour, row, picker, sender, crashes, history>>

Crash ==
    /\ crashes < MaxCrashes
    /\ crashes' = crashes + 1
    /\ picker' = [p \in Pickers |-> IdlePicker]
    /\ sender' = [d \in Senders |-> IdleSender]
    /\ broken' = IF \E d \in Senders : sender[d].pc = "commit" THEN broken + 1 ELSE broken
    /\ UNCHANGED <<itemVars, owed, clockVars, row, sent, repicks>>

-----------------------------------------------------------------------------

PickStep(p) ==
    \/ BuildCandidates(p) \/ LookupCache(p) \/ CallPicker(p)
    \/ WritePick(p) \/ PullForward(p)

SenderStep(d) ==
    \/ ClaimMessage(d) \/ SendToSelf(d) \/ SendFails(d)
    \/ CommitDelivered(d) \/ CommitFails(d)

Next ==
    \/ \E p \in Pickers : OpenPage(p) \/ DeliverSummaries(p) \/ ClaimDay(p) \/ PickStep(p)
    \/ \E d \in Senders : SenderStep(d)
    \/ \E i \in Items : SummaryLands(i) \/ SetItemState(i)
    \/ \E state \in {"ready", "paused", "disconnected"} : AccountMoves(state)
    \/ HourComes \/ DayEnds
    \/ Crash

Spec == Init /\ [][Next]_vars

\* The one-second timer keeps ticking, calls that were made return, and a
\* gateway that is asked again and again answers some time; pages need never
\* be opened.
FairSpec ==
    /\ Spec
    /\ \A p \in Pickers : WF_vars(ClaimDay(p)) /\ WF_vars(PickStep(p))
    /\ \A d \in Senders : /\ WF_vars(ClaimMessage(d) \/ CommitDelivered(d) \/ CommitFails(d))
                          /\ WF_vars(SendToSelf(d) \/ SendFails(d))
                          /\ SF_vars(SendToSelf(d))

-----------------------------------------------------------------------------
(* What has to be true.                                                    *)

\* However pages, pushes, ticks and senders overlap, a further message was earned
\* by a re-pick that gave a row already delivered something else to say, or is the
\* repeat deliver.ts accepts: of a message that left in a transaction that was then
\* lost, to a gateway that throws late, a COMMIT that fails or a crash.  No refresh,
\* no second sender and no re-pick before delivery makes one.  (An empty row claimed
\* and sent before its pick is written is delivered too: OneMessageADay, below.)
MessagesEarned == Len(sent) <= 1 + repicks + broken

\* A row marked delivered was sent with the items it holds: a pick that lands
\* while the message is on its way is never taken for the one that went out.
DeliveredWasSent ==
    row.delivered =>
        /\ sent # <<>>
        /\ row.keys # <<>> => \E n \in DOMAIN sent : sent[n] = row.keys

\* A message goes out for every day, "nothing needs you" included: "silence
\* would be indistinguishable from WALAO being broken" (deliver.ts).
EveryDaySpeaks == hour ~> (sent # <<>> \/ account # "ready" \/ over)

-----------------------------------------------------------------------------
(* What the repository says and the code does not do.                      *)

\* "A restart mid-send cannot double-message" (migrations/031_briefs.sql).
NoRepeats == Len(sent) <= 1 + repicks

\* "One message a day, whichever path wrote it" (server.ts), on a day whose
\* candidates never change and whose picker picks them all.
OneMessageADay == Len(sent) <= 1

\* "An empty one waits for the digest clock to say 'nothing needs you today' at
\* the hour the Account chose" (pick.ts).
QuietWaitsForTheHour == ~hour => \A n \in DOMAIN sent : sent[n] # <<>>

\* "A Group on a daily cadence never interrupts.  Its items wait for the
\* Account's chosen digest time" (docs/specs/2026-08-07-calm-today-pick.md).
DailyItemsWait == ~hour => \A n \in DOMAIN sent : ToSet(sent[n]) \subseteq Pushing

\* delivered_at is cleared "only when the picked keys actually changed into
\* something worth a message": no message says again what the last one said.
NoEcho ==
    \A n \in 2 .. Len(sent) : sent[n] # <<>> => ToSet(sent[n]) # ToSet(sent[n - 1])

=============================================================================
