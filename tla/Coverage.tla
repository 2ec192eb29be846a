------------------------------ MODULE Coverage ------------------------------
(***************************************************************************)
(* coverage_gaps and everybody who writes it: Session transitions and idle *)
(* eviction (connections.ts), the product halt (halt.ts), pause and resume *)
(* (privacy.ts) and the daily message cap (block.ts, from ingest.ts and    *)
(* consumer.ts).  A gap is open until its ended_at is set; only open gaps  *)
(* are kept here, counted per Session and reason.                          *)
(*                                                                         *)
(* Every writer opens a gap with INSERT ... WHERE NOT EXISTS (an open one).*)
(* Under READ COMMITTED that statement looks at the rows committed when it *)
(* starts and its row appears when its transaction commits, so it is two   *)
(* steps: the request first computes the Sessions it will open a gap for,  *)
(* then commits.  Closing is one step.  A row lock is a guard.             *)
(***************************************************************************)
EXTENDS Integers, FiniteSets

CONSTANTS
    Users, Sessions,
    UserOf,        \* the Account a Session belongs to
    Requests,      \* requests and timer passes that may overlap
    MaxOpen,       \* bound: open gaps of one reason counted on one Session
    MaxCrashes     \* bound: process crashes

ASSUME CoverageAssumption ==
    /\ UserOf \in [Sessions -> Users]
    /\ MaxOpen \in Nat \ {0}
    /\ MaxCrashes \in Nat

LossStatus == {"disconnected", "re_pair_required"}
SessionStatus == {"none", "pending", "connected"} \cup LossStatus
GapReason == LossStatus \cup {"halted", "paused", "plan_limit"}

VARIABLES
    status,     \* whatsapp_sessions.status; "none" before the row exists
    halted,     \* system_halt
    paused,     \* accounts whose users.paused is set
    overCap,    \* accounts at their daily message cap
    gaps,       \* open coverage_gaps rows per Session and reason
    request,    \* what each request in flight is about to do
    crashes

vars == <<status, halted, paused, overCap, gaps, request, crashes>>

Idle == [pc |-> "idle", on |-> {}, opens |-> {}, to |-> "none"]

\* on: the Sessions (or the Account's Sessions) the request is about;
\* opens: those its INSERT found without an open gap.
RequestState ==
    [pc : {"idle", "pairing", "losing", "evicting", "halting", "pausing", "paused",
           "resuming", "capped", "capping", "storing"},
     on : SUBSET Sessions, opens : SUBSET Sessions, to : SessionStatus]

TypeOK ==
    /\ status \in [Sessions -> SessionStatus]
    /\ halted \in BOOLEAN
    /\ paused \subseteq Users
    /\ overCap \subseteq Users
    /\ gaps \in [Sessions -> [GapReason -> 0 .. MaxOpen]]
    /\ request \in [Requests -> RequestState]
    /\ crashes \in 0 .. MaxCrashes

Init ==
    /\ status = [s \in Sessions |-> "none"]
    /\ halted = FALSE
    /\ paused = {}
    /\ overCap = {}
    /\ gaps = [s \in Sessions |-> [r \in GapReason |-> 0]]
    /\ request = [c \in Requests |-> Idle]
    /\ crashes = 0

-----------------------------------------------------------------------------

Open(s) == \E r \in GapReason : gaps[s][r] > 0

\* mutant of WithoutOpenGap: INSERT with no NOT EXISTS
EverySession(S) == S

WithoutOpenGap(S) == {s \in S : ~Open(s)}

SessionsOf(u) == {s \in Sessions : UserOf[s] = u /\ status[s] # "none"}

OpenGaps(S, r) ==
    [s \in Sessions |-> IF s \in S /\ gaps[s][r] < MaxOpen
                          THEN [gaps[s] EXCEPT ![r] = @ + 1] ELSE gaps[s]]

\* mutant of CloseGaps: ends one row, taking for granted that there is one
CloseOneGap(S, r) ==
    [s \in Sessions |-> IF s \in S THEN [gaps[s] EXCEPT ![r] = @ - 1] ELSE gaps[s]]

CloseGaps(S, r) ==
    [s \in Sessions |-> IF s \in S THEN [gaps[s] EXCEPT ![r] = 0] ELSE gaps[s]]

Begin(c, pc, on, opens, to) ==
    /\ request[c].pc = "idle"
    /\ request' = [request EXCEPT ![c] = [pc |-> pc, on |-> on, opens |-> opens, to |-> to]]

Finish(c) == request' = [request EXCEPT ![c] = Idle]

\* A transition in flight holds its Session's row lock; a halt holds system_halt's.
Locked(s) == \E c \in Requests : request[c].pc = "losing" /\ s \in request[c].on
HaltLocked == \E c \in Requests : request[c].pc = "halting"

-----------------------------------------------------------------------------
(* connections.ts                                                          *)

\* createConnection: the halt check, then the gateway, then the INSERT.
BeginPairing(c, s) ==
    /\ status[s] = "none" /\ ~halted
    /\ \A d \in Requests : request[d].pc = "pairing" => s \notin request[d].on
    /\ Begin(c, "pairing", {s}, {}, "pending")
    /\ UNCHANGED <<status, halted, paused, overCap, gaps, crashes>>

CreateSession(c) ==
    /\ request[c].pc = "pairing"
    /\ status' = [s \in Sessions |-> IF s \in request[c].on THEN "pending" ELSE status[s]]
    /\ Finish(c)
    /\ UNCHANGED <<halted, paused, overCap, gaps, crashes>>

\* mutant of Connect: only the gap the Account holder's disconnect opened ends
ConnectEndsDisconnects(c, s) ==
    /\ request[c].pc = "idle"
    /\ status[s] # "none" /\ ~Locked(s) /\ ~halted
    /\ status' = [status EXCEPT ![s] = "connected"]
    /\ gaps' = [gaps EXCEPT ![s]["disconnected"] = 0]
    /\ UNCHANGED <<halted, paused, overCap, request, crashes>>

\* transition to "connected", reported on the webhook, which a halt refuses.
Connect(c, s) ==
    /\ request[c].pc = "idle"
    /\ status[s] # "none" /\ ~Locked(s) /\ ~halted
    /\ status' = [status EXCEPT ![s] = "connected"]
    /\ gaps' = [gaps EXCEPT ![s] = [r \in GapReason |-> 0]]
    /\ UNCHANGED <<halted, paused, overCap, request, crashes>>

\* transition to any other status: by the Account holder (disconnect) or by
\* the gateway (either, unless halted).
BeginLoss(c, s, to) ==
    /\ status[s] # "none" /\ ~Locked(s)
    /\ to = "disconnected" \/ ~halted
    /\ Begin(c, "losing", {s}, WithoutOpenGap({s}), to)
    /\ UNCHANGED <<status, halted, paused, overCap, gaps, crashes>>

\* mutant of CommitLoss: the status flips and no gap is opened
CommitStatusOnly(c) ==
    /\ request[c].pc = "losing"
    /\ status' = [s \in Sessions |-> IF s \in request[c].on THEN request[c].to ELSE status[s]]
    /\ Finish(c)
    /\ UNCHANGED <<halted, paused, overCap, gaps, crashes>>

CommitLoss(c) ==
    /\ request[c].pc = "losing"
    /\ status' = [s \in Sessions |-> IF s \in request[c].on THEN request[c].to ELSE status[s]]
    /\ gaps' = OpenGaps(request[c].opens, request[c].to)
    /\ Finish(c)
    /\ UNCHANGED <<halted, paused, overCap, crashes>>

\* evictIdleSessions: one statement, one snapshot, over the Sessions that are
\* idle and have no enabled Group (which ones those are is not decided here).
\* Its UPDATE waits for a transition's row lock and then applies to the new row,
\* but its NOT EXISTS still looks at the old snapshot.
BeginEvict(c, S) ==
    /\ \A s \in S : status[s] \notin {"none", "re_pair_required"}
    /\ Begin(c, "evicting", S, WithoutOpenGap(S), "re_pair_required")
    /\ UNCHANGED <<status, halted, paused, overCap, gaps, crashes>>

CommitEvict(c) ==
    LET evicted == {s \in request[c].on : status[s] # "re_pair_required"} IN
    /\ request[c].pc = "evicting"
    /\ \A s \in request[c].on : ~Locked(s)
    /\ status' = [s \in Sessions |-> IF s \in evicted THEN "re_pair_required" ELSE status[s]]
    /\ gaps' = OpenGaps(evicted \cap request[c].opens, "re_pair_required")
    /\ Finish(c)
    /\ UNCHANGED <<halted, paused, overCap, crashes>>

-----------------------------------------------------------------------------
(* halt.ts: flag and gaps in one transaction; a second flip waits.         *)

BeginHalt(c) ==
    /\ ~halted /\ ~HaltLocked
    /\ Begin(c, "halting", {}, WithoutOpenGap({s \in Sessions : status[s] # "none"}), "none")
    /\ UNCHANGED <<status, halted, paused, overCap, gaps, crashes>>

CommitHalt(c) ==
    /\ request[c].pc = "halting"
    /\ halted' = TRUE
    /\ gaps' = OpenGaps(request[c].opens, "halted")
    /\ Finish(c)
    /\ UNCHANGED <<status, paused, overCap, crashes>>

\* mutant of Unhalt: the flag is cleared and the gaps are left open
UnhaltFlagOnly(c) ==
    /\ request[c].pc = "idle"
    /\ halted /\ ~HaltLocked
    /\ halted' = FALSE
    /\ UNCHANGED <<status, paused, overCap, gaps, request, crashes>>

Unhalt(c) ==
    /\ request[c].pc = "idle"
    /\ halted /\ ~HaltLocked
    /\ halted' = FALSE
    /\ gaps' = CloseGaps(Sessions, "halted")
    /\ UNCHANGED <<status, paused, overCap, request, crashes>>

-----------------------------------------------------------------------------
(* privacy.ts setPaused: the flag, then the gaps, in separate transactions.*)

Pause(c, u) ==
    /\ Begin(c, "pausing", SessionsOf(u), {}, "none")
    /\ paused' = paused \cup {u}
    /\ UNCHANGED <<status, halted, overCap, gaps, crashes>>

FindPausedSessions(c) ==
    /\ request[c].pc = "pausing"
    /\ request' = [request EXCEPT ![c].pc = "paused",
                                  ![c].opens = WithoutOpenGap(request[c].on)]
    /\ UNCHANGED <<status, halted, paused, overCap, gaps, crashes>>

OpenPauseGaps(c) ==
    /\ request[c].pc = "paused"
    /\ gaps' = OpenGaps(request[c].opens, "paused")
    /\ Finish(c)
    /\ UNCHANGED <<status, halted, paused, overCap, crashes>>

Resume(c, u) ==
    /\ Begin(c, "resuming", SessionsOf(u), {}, "none")
    /\ paused' = paused \ {u}
    /\ UNCHANGED <<status, halted, overCap, gaps, crashes>>

ClosePauseGaps(c) ==
    /\ request[c].pc = "resuming"
    /\ gaps' = CloseGaps(request[c].on, "paused")
    /\ Finish(c)
    /\ UNCHANGED <<status, halted, paused, overCap, crashes>>

-----------------------------------------------------------------------------
(* The daily message cap, met by an arriving or a queued message.          *)

Connected(u) == \E s \in SessionsOf(u) : status[s] = "connected"

\* processingBlock gets past halt, pause and connection and reads the cap.
CheckCap(c, s) ==
    LET u == UserOf[s] IN
    /\ status[s] # "none"
    /\ ~halted /\ u \notin paused /\ Connected(u)
    /\ Begin(c, IF u \in overCap THEN "capped" ELSE "storing", {s}, {}, "none")
    /\ UNCHANGED <<status, halted, paused, overCap, gaps, crashes>>

\* openGap ... "plan_limit".
FindCappedSession(c) ==
    /\ request[c].pc = "capped"
    /\ request' = [request EXCEPT ![c].pc = "capping",
                                  ![c].opens = WithoutOpenGap(request[c].on)]
    /\ UNCHANGED <<status, halted, paused, overCap, gaps, crashes>>

OpenCapGap(c) ==
    /\ request[c].pc = "capping"
    /\ gaps' = OpenGaps(request[c].opens, "plan_limit")
    /\ Finish(c)
    /\ UNCHANGED <<status, halted, paused, overCap, crashes>>

\* The first message stored under the cap closes the cap's gap.
StoreUnderCap(c) ==
    /\ request[c].pc = "storing"
    /\ gaps' = CloseGaps(request[c].on, "plan_limit")
    /\ Finish(c)
    /\ UNCHANGED <<status, halted, paused, overCap, crashes>>

\* The count reaches the cap, or a new UTC day or plan takes it below.
CapMoves(u) ==
    /\ overCap' = IF u \in overCap THEN overCap \ {u} ELSE overCap \cup {u}
    /\ UNCHANGED <<status, halted, paused, gaps, request, crashes>>

-----------------------------------------------------------------------------

\* The process dies: open transactions roll back, later statements never run.
Crash ==
    /\ crashes < MaxCrashes
    /\ crashes' = crashes + 1
    /\ request' = [c \in Requests |-> Idle]
    /\ UNCHANGED <<status, halted, paused, overCap, gaps>>

SessionStep(c) ==
    \/ \E s \in Sessions : BeginPairing(c, s) \/ Connect(c, s)
    \/ \E s \in Sessions, to \in LossStatus : BeginLoss(c, s, to)
    \/ \E S \in SUBSET Sessions \ {{}} : BeginEvict(c, S)
    \/ CreateSession(c) \/ CommitLoss(c) \/ CommitEvict(c)

HaltStep(c) == BeginHalt(c) \/ CommitHalt(c) \/ Unhalt(c)

PauseStep(c) ==
    \/ \E u \in Users : Pause(c, u) \/ Resume(c, u)
    \/ FindPausedSessions(c) \/ OpenPauseGaps(c) \/ ClosePauseGaps(c)

CapStep(c) ==
    \/ \E s \in Sessions : CheckCap(c, s)
    \/ FindCappedSession(c) \/ OpenCapGap(c) \/ StoreUnderCap(c)

Next ==
    \/ \E c \in Requests : SessionStep(c) \/ HaltStep(c) \/ PauseStep(c) \/ CapStep(c)
    \/ \E u \in Users : CapMoves(u)
    \/ Crash

Spec == Init /\ [][Next]_vars

-----------------------------------------------------------------------------
(* What has to be true.                                                    *)

\* However the writers overlap, a 'halted' gap is open only while the product
\* is halted: un-halting leaves none behind and no late INSERT adds one.
HaltGapsEndWithHalt ==
    \A s \in Sessions : gaps[s]["halted"] > 0 => halted

\* However the writers overlap, a gap opened because a Session went down is
\* never left open on a Session that is connected again.
ConnectionGapsMeanDown ==
    \A s \in Sessions : status[s] = "connected" =>
        \A r \in LossStatus : gaps[s][r] = 0

\* At most one gap is open per Session, so the reason that opened first owns
\* the window (block.ts).  Holds when requests do not overlap.
SingleOpenGap ==
    \A s \in Sessions :
        /\ Cardinality({r \in GapReason : gaps[s][r] > 0}) <= 1
        /\ \A r \in GapReason : gaps[s][r] <= 1

\* A Session that leaves "connected", and every Session when the product
\* halts, has an open gap from that moment.  Holds when requests do not overlap.
LossOpensGap ==
    [][/\ \A s \in Sessions :
            status[s] = "connected" /\ status'[s] # "connected" => Open(s)'
       /\ ~halted /\ halted' => \A s \in Sessions : status[s] # "none" => Open(s)']_vars

-----------------------------------------------------------------------------
(* What the repository says and the code does not do.                      *)

Quiet == \A c \in Requests : request[c].pc = "idle"

\* "leaving 'connected' opens a gap ... returning to 'connected' closes any
\* open gap" (connections.ts): while a Session is down its gap is open.
DownIsFlagged ==
    Quiet => \A s \in Sessions : status[s] \in LossStatus => Open(s)

\* "A pause is lost coverage: it opens a coverage gap" (privacy.ts).
PauseIsFlagged ==
    Quiet => \A s \in Sessions : UserOf[s] \in paused /\ status[s] = "connected" => Open(s)

=============================================================================
