------------------------------- MODULE Pings -------------------------------
(***************************************************************************)
(* The one unprompted interruption (src/src/pings.ts): a stored message    *)
(* that @mentions its Account is queued as a row of mention_pings, and a   *)
(* pass of tickPings asks the picker, once for each row, whether the       *)
(* mention needs its Account, sends a ping when it does, and resolves the  *)
(* row.  The timer starts a pass every second whether or not the last one  *)
(* has ended, so passes overlap.                                           *)
(*                                                                         *)
(* Messages are abstracted to their order of arrival: mention m is the     *)
(* m-th row by created_at.  Decryption, the prompt and the wording of the  *)
(* ping are left out; the picker's answer is a choice of "needs the        *)
(* Account", "needs nothing" and an error.                                 *)
(***************************************************************************)
EXTENDS Naturals, FiniteSets

CONSTANTS
  Users,       \* Accounts
  Passes,      \* passes of tickPings that may overlap
  NMentions,   \* mentions that ever arrive
  UserOf,      \* the Account each mention names
  Limit,       \* PING_PER_HOUR.limit
  NoMention,   \* what a pass holds when it holds no row
  NoSlot,      \* and when it has no judgement to make
  MaxWindows,  \* bound: Account -> rate-limit windows that may follow the first
  MaxCrashes   \* bound: crashes of the process

Mentions == 1..NMentions

ASSUME PingsAssumption ==
  /\ NMentions \in Nat /\ Limit \in Nat
  /\ MaxWindows \in [Users -> Nat] /\ MaxCrashes \in Nat
  /\ UserOf \in [Mentions -> Users]
  /\ NoMention \notin Mentions /\ NoSlot \notin [user : Users, window : Nat, number : Nat]

VARIABLES
  ping,      \* mention -> "absent", "queued", "resolved" or "gone" (message purged)
  sendable,  \* Account -> its Session is connected and nothing blocks it
  count,     \* Account -> rate_limits.count of its bucket
  window,    \* Account -> which window the bucket is in
  pc,        \* pass -> the statement it is about to run
  cur,       \* pass -> the row its transaction holds FOR UPDATE
  blocked,   \* pass -> Accounts it skips
  slot,      \* pass -> the slot of the quota its judgement spends (history)
  calls,     \* slots spent on a model call so far (history)
  sent,      \* mention -> pings that reached the chat (history)
  broken,    \* mention -> transactions lost after their ping had left (history)
  crashes

pingsVars == <<ping, sendable, count, window, pc, cur, blocked, slot, calls, sent, broken, crashes>>
rows == <<ping, sendable, crashes>>
quota == <<count, window>>
history == <<slot, calls, sent, broken>>

PassStates == {"idle", "claim", "gate", "count", "judge", "send", "resolve"}

\* A slot of the hourly quota: the number-th judgement of its window.
Slots == [user : Users, window : Nat, number : Nat]

\* The types of the variables (034_pings.sql and the locals of tickPings).
PingsTypeOK ==
  /\ ping \in [Mentions -> {"absent", "queued", "resolved", "gone"}]
  /\ sendable \in [Users -> BOOLEAN]
  /\ count \in [Users -> Nat] /\ window \in [Users -> Nat]
  /\ pc \in [Passes -> PassStates]
  /\ cur \in [Passes -> Mentions \cup {NoMention}]
  /\ blocked \in [Passes -> SUBSET Users]
  /\ slot \in [Passes -> Slots \cup {NoSlot}] /\ calls \in SUBSET Slots
  /\ sent \in [Mentions -> Nat] /\ broken \in [Mentions -> Nat]
  /\ crashes \in Nat

PingsInit ==
  /\ ping = [m \in Mentions |-> "absent"]
  /\ sendable = [u \in Users |-> TRUE]
  /\ count = [u \in Users |-> 0] /\ window = [u \in Users |-> 0]
  /\ pc = [p \in Passes |-> "idle"]
  /\ cur = [p \in Passes |-> NoMention]
  /\ blocked = [p \in Passes |-> {}]
  /\ slot = [p \in Passes |-> NoSlot] /\ calls = {}
  /\ sent = [m \in Mentions |-> 0] /\ broken = [m \in Mentions |-> 0]
  /\ crashes = 0

Locked(m) == \E p \in Passes : cur[p] = m

----------------------------------------------------------------------------
(* What happens around the passes. *)

\* The consumer stores a message that names the Account; a replay stores no
\* second row, so each mention is queued once.
QueueMention(m) ==
  /\ ping[m] = "absent"
  /\ \A n \in 1..(m - 1) : ping[n] # "absent"
  /\ ping' = [ping EXCEPT ![m] = "queued"]
  /\ UNCHANGED <<sendable, quota, pc, cur, blocked, history, crashes>>

\* Retention deletes the message and the cascade its row; the row's lock,
\* while a pass holds it, makes the delete wait.  A resolved row is read by
\* nothing, so only the loss of a queued one is followed.
ExpireMessage(m) ==
  /\ ping[m] = "queued" /\ ~Locked(m)
  /\ ping' = [ping EXCEPT ![m] = "gone"]
  /\ UNCHANGED <<sendable, quota, pc, cur, blocked, history, crashes>>

\* A halt, a pause, a lapsed plan, a lost Session, and their ends.
FlipSendable(u) ==
  /\ sendable' = [sendable EXCEPT ![u] = ~@]
  /\ UNCHANGED <<ping, quota, pc, cur, blocked, history, crashes>>

\* An hour since window_start: the next upsert starts over.
RollWindow(u) ==
  /\ window[u] < MaxWindows[u]
  /\ window' = [window EXCEPT ![u] = @ + 1]
  /\ count' = [count EXCEPT ![u] = 0]
  /\ UNCHANGED <<rows, pc, cur, blocked, history>>

----------------------------------------------------------------------------
(* A pass.  Every step ends at an await. *)

StartPass(p) ==
  /\ pc[p] = "idle"
  /\ pc' = [pc EXCEPT ![p] = "claim"]
  /\ UNCHANGED <<rows, quota, cur, blocked, history>>

\* The pass is over and its locals with it.
EndPass(p) ==
  /\ pc' = [pc EXCEPT ![p] = "idle"]
  /\ cur' = [cur EXCEPT ![p] = NoMention]
  /\ blocked' = [blocked EXCEPT ![p] = {}]

\* Mutant of the claim: the SELECT without FOR UPDATE SKIP LOCKED.
ClaimableUnlocked(p) == {m \in Mentions : ping[m] = "queued" /\ UserOf[m] \notin blocked[p]}

\* What the SELECT may return to p: unresolved rows of Accounts it does not
\* skip, less those other transactions hold.
Claimable(p) == {m \in ClaimableUnlocked(p) : ~Locked(m)}

Claim(p) ==
  /\ pc[p] = "claim"
  /\ \E m \in Claimable(p) :
       /\ \A n \in Claimable(p) : m <= n
       /\ cur' = [cur EXCEPT ![p] = m]
  /\ pc' = [pc EXCEPT ![p] = "gate"]
  /\ UNCHANGED <<rows, quota, blocked, history>>

NothingToClaim(p) ==
  /\ pc[p] = "claim" /\ Claimable(p) = {} /\ EndPass(p)
  /\ UNCHANGED <<rows, quota, history>>

Owner(p) == UserOf[cur[p]]

\* The Session is down or processingBlock names a reason: COMMIT, and leave
\* the Account's rows queued for the rest of the pass.
SkipAccount(p) ==
  /\ pc[p] = "gate" /\ ~sendable[Owner(p)]
  /\ blocked' = [blocked EXCEPT ![p] = @ \cup {Owner(p)}]
  /\ cur' = [cur EXCEPT ![p] = NoMention]
  /\ pc' = [pc EXCEPT ![p] = "claim"]
  /\ UNCHANGED <<rows, quota, history>>

PassGate(p) ==
  /\ pc[p] = "gate" /\ sendable[Owner(p)]
  /\ pc' = [pc EXCEPT ![p] = "count"]
  /\ UNCHANGED <<rows, quota, cur, blocked, history>>

\* allow(): one upsert on the pool, outside the transaction.  Inside the
\* limit the judgement follows; past it the row is resolved unjudged.
allow(p) ==
  LET u == Owner(p)
      n == count[u] + 1
  IN
  /\ pc[p] = "count"
  /\ count' = [count EXCEPT ![u] = n]
  /\ \/ /\ n <= Limit
        /\ slot' = [slot EXCEPT ![p] = [user |-> u, window |-> window[u], number |-> n]]
        /\ pc' = [pc EXCEPT ![p] = "judge"]
     \/ /\ n > Limit
        /\ pc' = [pc EXCEPT ![p] = "resolve"]
        /\ UNCHANGED slot
  /\ UNCHANGED <<rows, window, cur, blocked, calls, sent, broken>>

\* The picker answers, or the call throws.
Judge(p) ==
  /\ pc[p] = "judge"
  /\ calls' = calls \cup {slot[p]}
  /\ slot' = [slot EXCEPT ![p] = NoSlot]
  /\ \E answer \in {"send", "resolve"} : pc' = [pc EXCEPT ![p] = answer]
  /\ UNCHANGED <<rows, quota, cur, blocked, sent, broken>>

\* The ROLLBACK of a judgement that threw; what it gives back of the quota.
Rollback(p, refund) ==
  /\ pc[p] = "judge"
  /\ calls' = calls \cup {slot[p]}
  /\ slot' = [slot EXCEPT ![p] = NoSlot]
  /\ count' = [count EXCEPT ![Owner(p)] = @ - refund]
  /\ EndPass(p)
  /\ UNCHANGED <<rows, window, sent, broken>>
\* Mutant: counted on the transaction's client, the slot comes back with it.
JudgeThrowsRefunded(p) == pc[p] = "judge" /\ count[Owner(p)] > 0 /\ Rollback(p, 1)
\* The slot was counted on the pool, so it stays spent.
JudgeThrows(p) == Rollback(p, 0)

\* sendToSelf succeeds, or throws with the ping in the chat or not.
SendPing(p) ==
  /\ pc[p] = "send"
  /\ sent' = [sent EXCEPT ![cur[p]] = @ + 1]
  /\ pc' = [pc EXCEPT ![p] = "resolve"]
  /\ UNCHANGED <<rows, quota, cur, blocked, slot, calls, broken>>

SendThrows(p) ==
  /\ pc[p] = "send"
  /\ \E left \in {0, 1} :
       /\ sent' = [sent EXCEPT ![cur[p]] = @ + left]
       /\ broken' = [broken EXCEPT ![cur[p]] = @ + left]
  /\ EndPass(p)
  /\ UNCHANGED <<rows, quota, slot, calls>>

\* UPDATE resolved_at and COMMIT, whatever the outcome was.
Resolve(p) ==
  /\ pc[p] = "resolve"
  /\ ping' = [ping EXCEPT ![cur[p]] = "resolved"]
  /\ cur' = [cur EXCEPT ![p] = NoMention]
  /\ pc' = [pc EXCEPT ![p] = "claim"]
  /\ UNCHANGED <<sendable, quota, blocked, history, crashes>>

\* The process dies: every transaction rolls back, the quota stays spent.
\* A pass about to resolve what it may have sent loses that transaction.
CrashPasses ==
  /\ crashes < MaxCrashes
  /\ crashes' = crashes + 1
  /\ broken' = [m \in Mentions |->
                  IF \E p \in Passes : cur[p] = m /\ pc[p] = "resolve"
                  THEN broken[m] + 1 ELSE broken[m]]
  /\ pc' = [p \in Passes |-> "idle"]
  /\ cur' = [p \in Passes |-> NoMention]
  /\ blocked' = [p \in Passes |-> {}]
  /\ slot' = [p \in Passes |-> NoSlot]
  /\ UNCHANGED <<ping, sendable, quota, calls, sent>>

----------------------------------------------------------------------------
PassStep(p) ==
  \/ StartPass(p) \/ Claim(p) \/ NothingToClaim(p) \/ SkipAccount(p) \/ PassGate(p)
  \/ allow(p) \/ Judge(p) \/ JudgeThrows(p) \/ SendPing(p) \/ SendThrows(p) \/ Resolve(p)

Environment ==
  \/ \E m \in Mentions : QueueMention(m) \/ ExpireMessage(m)
  \/ \E u \in Users : FlipSendable(u) \/ RollWindow(u)
  \/ CrashPasses

PingsNext == Environment \/ \E p \in Passes : PassStep(p)

\* The timer starts passes for ever and every await returns; nothing is
\* assumed of the picker or of the gateway, which may fail every time.
PingsFairness == \A p \in Passes : WF_pingsVars(PassStep(p))

PingsSpec == PingsInit /\ [][PingsNext]_pingsVars /\ PingsFairness

----------------------------------------------------------------------------
(* Properties. *)

\* The hourly ceiling caps what is spent, not what succeeds: no two model
\* calls of an Account ever use the same slot of a window and a window has
\* Limit of them, over overlapping passes, rollbacks and crashes.
QuotaHolds ==
  /\ \A c \in calls : c.number \in 1..Limit
  /\ \A p \in Passes : pc[p] = "judge" =>
       /\ slot[p].number \in 1..Limit
       /\ slot[p] \notin calls
       /\ \A q \in Passes : q # p /\ pc[q] = "judge" => slot[q] # slot[p]

\* A mention is pinged once; again only for a transaction that was lost
\* after its ping had left, by a crash or by a send that failed ambiguously.
PingsEarned == \A m \in Mentions : sent[m] <= 1 + broken[m]

\* A queued mention is settled if its Account stays sendable, even when the
\* picker throws on the oldest row every time: a failed judgement spends its
\* slot, and past the ceiling a row is resolved unjudged.
MentionsSettle ==
  \A m \in Mentions :
    <>[]sendable[UserOf[m]] => (ping[m] = "queued" ~> ping[m] # "queued")
=============================================================================
