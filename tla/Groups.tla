------------------------------- MODULE Groups -------------------------------
(***************************************************************************)
(* One Account's Groups across re-pairing.  A Group is the Account's, but  *)
(* its rows are one per Session, and every pairing adds a Session: the     *)
(* gateway's 'connected' event lists the Session's Groups (seedGroups) and *)
(* carries the Account's choices over to them (adoptGroups), while the     *)
(* holder enables and disables what the screen shows (setEnabled), its     *)
(* plan comes and goes (billing.ts) and messages register Groups           *)
(* (ingest.ts).  A Group past the plan's cap is kept but not processed     *)
(* (over_group_cap, block.ts).                                             *)
(*                                                                         *)
(* A statement that reads what others write is one step; an adoption's     *)
(* writes appear with its COMMIT, and until then it holds the locks of the *)
(* rows it has updated.  The Account's row lock admits one enabling at a   *)
(* time.  The holder acts on the row the screen shows at that moment.      *)
(***************************************************************************)
EXTENDS Integers, FiniteSets

CONSTANTS
    Jids,          \* WhatsApp Groups
    NoJid,
    MaxSessions,   \* bound: pairings
    Requests,      \* 'connected' events that may be handled together
    FreeCap, ProCap,  \* PLANS[plan].max_groups
    Modes,         \* the schedules the holder picks from, "daily" or "interval"
    MaxSchedules,  \* bound: rows with a schedule when the holder sets one more
    MaxClock       \* bound: moments at which a Group is enabled afresh

ASSUME GroupsAssumption ==
    /\ IsFiniteSet(Jids) /\ NoJid \notin Jids
    /\ MaxSessions \in Nat \ {0}
    /\ FreeCap \in Nat /\ ProCap \in Nat /\ FreeCap <= ProCap
    /\ Modes \subseteq {"daily", "interval"}
    /\ MaxSchedules \in Nat
    /\ MaxClock \in Nat

\* Sessions in the order of created_at.
Sessions == 1 .. MaxSessions
Null == 0

VARIABLES
    status,    \* whatsapp_sessions.status; "down" for all but 'connected'
    group,     \* groups rows: whether enabled, and enabled_at
    schedule,  \* summary_schedules of each row: none, "daily" or "interval"
    cap,       \* the cap of the plan in force, a running Trial included
    clock,     \* the moments used as enabled_at
    connect,   \* 'connected' events being handled
    enabling,  \* the setEnabled(true) that holds the Account's row lock
    choice     \* history: of each Group the holder has enabled, the last choice made

vars == <<status, group, schedule, cap, clock, connect, enabling, choice>>

Row == [is : {"absent", "disabled", "enabled"}, at : 0 .. MaxClock]
NoRow == [is |-> "absent", at |-> Null]
Seeded == [is |-> "disabled", at |-> Null]

\* adopted: the rows switched on and not yet committed; since: their enabled_at;
\* planned: the rows given a schedule and not yet committed.
IdleConnect == [pc |-> "idle", session |-> 1,
                adopted |-> {}, since |-> [j \in Jids |-> Null], planned |-> {}]
ConnectState == [pc : {"idle", "seed", "schedules", "standdown"}, session : Sessions,
                 adopted : SUBSET Jids, since : [Jids -> 0 .. MaxClock],
                 planned : SUBSET Jids]

NotEnabling == [pc |-> "idle", session |-> 1, jid |-> NoJid, cap |-> FreeCap]
EnablingState == [pc : {"idle", "count", "update"}, session : Sessions,
                  jid : Jids \cup {NoJid}, cap : {FreeCap, ProCap}]

TypeOK ==
    /\ status \in [Sessions -> {"none", "connected", "down"}]
    /\ group \in [Sessions -> [Jids -> Row]]
    /\ schedule \in [Sessions -> [Jids -> {"none", "daily", "interval"}]]
    /\ cap \in {FreeCap, ProCap}
    /\ clock \in 0 .. MaxClock
    /\ connect \in [Requests -> ConnectState]
    /\ enabling \in EnablingState
    /\ choice \in [Jids -> {"none", "on", "off"}]

Init ==
    /\ status = [s \in Sessions |-> "none"]
    /\ group = [s \in Sessions |-> [j \in Jids |-> NoRow]]
    /\ schedule = [s \in Sessions |-> [j \in Jids |-> "none"]]
    /\ cap = FreeCap
    /\ clock = 0
    /\ connect = [c \in Requests |-> IdleConnect]
    /\ enabling = NotEnabling
    /\ choice = [j \in Jids |-> "none"]

-----------------------------------------------------------------------------
(* What the queries say of the rows.                                       *)

Rows(j) == {s \in Sessions : group[s][j].is # "absent"}
Enabled(s, j) == group[s][j].is = "enabled"
EnabledGroups == {j \in Jids : \E s \in Sessions : Enabled(s, j)}

\* listGroups: one row for each Group, a connected Session's first, then the newest.
IsShown(s, j) ==
    /\ s \in Rows(j)
    /\ \A t \in Rows(j) \ {s} :
         \/ status[s] = "connected" /\ status[t] # "connected"
         \/ (status[s] = "connected" <=> status[t] = "connected") /\ t < s

\* PRIOR_STATE for Session s: of the other Sessions' rows of j an enabled one
\* first, then the one enabled last.  What the rows' created_at breaks is left open.
IsPrior(s, t, j) ==
    /\ t \in Rows(j) \ {s}
    /\ \A u \in Rows(j) \ {s} :
         \/ Enabled(t, j) /\ ~Enabled(u, j)
         \/ (Enabled(t, j) <=> Enabled(u, j)) /\ group[u][j].at <= group[t][j].at

\* The row an adoption has updated and not committed.
Locked(s, j) == \E c \in Requests : connect[c].session = s /\ j \in connect[c].adopted

\* over_group_cap counts the Groups enabled before this row was.
EnabledBefore(s, j) ==
    {i \in Jids : \E t \in Sessions : Enabled(t, i) /\ group[t][i].at < group[s][j].at}

HasRank(s, j) == Enabled(s, j) /\ Cardinality(EnabledBefore(s, j)) < cap

\* The Groups with a row the cap does not block.
InCap == {j \in Jids : \E s \in Sessions : HasRank(s, j)}

\* A message is looked up by the Session it arrives on (processItem), and arrives
\* on one that is connected: the other rows are read by nothing.
Processed == {j \in Jids : \E s \in Sessions : status[s] = "connected" /\ HasRank(s, j)}

\* Groups with an enabled row that counts and is read by nothing.
Stranded == {j \in Jids : \E s \in Sessions : Enabled(s, j) /\ status[s] # "connected"}

-----------------------------------------------------------------------------
(* Pairing and the 'connected' event.                                      *)

\* createConnection: a new Session each time.
Pair(s) ==
    /\ status[s] = "none"
    /\ \A t \in Sessions : t < s => status[t] # "none"
    /\ status' = [status EXCEPT ![s] = "down"]
    /\ UNCHANGED <<group, schedule, cap, clock, connect, enabling, choice>>

\* disconnectConnection, a lost connection the gateway reports, an eviction.
Lose(s) ==
    /\ status[s] = "connected"
    /\ status' = [status EXCEPT ![s] = "down"]
    /\ UNCHANGED <<group, schedule, cap, clock, connect, enabling, choice>>

\* applyGatewayStatus up to the listing: transition commits first.
Connect(c, s) ==
    /\ connect[c].pc = "idle"
    /\ status[s] # "none"
    /\ status' = [status EXCEPT ![s] = "connected"]
    /\ connect' = [connect EXCEPT ![c] = [IdleConnect EXCEPT !.pc = "seed", !.session = s]]
    /\ UNCHANGED <<group, schedule, cap, clock, enabling, choice>>

\* mutant of SeedRow: the flag of a new row has no default
SeedUnset(s, j) ==
    IF group[s][j].is = "absent" THEN [is |-> "unset", at |-> Null] ELSE group[s][j]

\* mutant of SeedRow: a candidate arrives enabled
SeedEnabled(s, j) ==
    IF group[s][j].is = "absent" THEN [is |-> "enabled", at |-> clock] ELSE group[s][j]

\* INSERT ... ON CONFLICT keeps the row's flag; a new row is off.
SeedRow(s, j) == IF group[s][j].is = "absent" THEN Seeded ELSE group[s][j]

\* seedGroups: what gateway.listGroups names, one INSERT after the other.  How
\* many of the Session's Groups it names, and where it throws, is left open:
\* adoptGroups runs in either case.
SeedGroup(c, j) ==
    LET s == connect[c].session IN
    /\ connect[c].pc = "seed"
    /\ group' = [group EXCEPT ![s][j] = SeedRow(s, j)]
    /\ UNCHANGED <<status, schedule, cap, clock, connect, enabling, choice>>

\* mutant of EnabledSince: enabled_at is not among the columns set
Undated(s, j) == Null

\* enabled_at of the row an adoption for Session s takes the choice from.
EnabledSince(s, j) == group[CHOOSE t \in Sessions : IsPrior(s, t, j)][j].at

\* adoptGroups, first UPDATE: rows of Session s that are off take over the choice
\* made on another.
Taken(s) == {j \in Jids : /\ group[s][j].is = "disabled"
                          /\ \E t \in Sessions : IsPrior(s, t, j) /\ Enabled(t, j)}

Since(s) == [j \in Jids |-> IF j \in Taken(s) THEN EnabledSince(s, j) ELSE Null]

\* INSERT INTO summary_schedules ... ON CONFLICT DO NOTHING: the rows that may get
\* a schedule, whatever breaks a tie between the rows it is copied from.
Scheduled(s) ==
    LET lacks == {j \in Jids : s \in Rows(j) /\ schedule[s][j] = "none"}
        has(t, j) == IsPrior(s, t, j) /\ schedule[t][j] # "none"
        may == {j \in lacks : \E t \in Sessions : has(t, j)}
        must == {j \in may : \A t \in Sessions : IsPrior(s, t, j) => has(t, j)}
    IN  {S \in SUBSET may : must \subseteq S}

\* mutant of Adopted: a Group missing from one listing is stood down as well
StandAllDown(s, taken, since) ==
    [t \in Sessions |-> [j \in Jids |->
        IF t = s /\ j \in taken THEN [is |-> "enabled", at |-> since[j]]
        ELSE IF t # s /\ Enabled(t, j) THEN [group[t][j] EXCEPT !.is = "disabled"]
        ELSE group[t][j]]]

\* The rows once the last UPDATE has run too.  One stood down keeps its enabled_at.
Adopted(s, taken, since) ==
    [t \in Sessions |-> [j \in Jids |->
        IF t = s /\ j \in taken THEN [is |-> "enabled", at |-> since[j]]
        ELSE IF t # s /\ s \in Rows(j) /\ Enabled(t, j)
          THEN [group[t][j] EXCEPT !.is = "disabled"]
        ELSE group[t][j]]]

\* interval_hours is not among the columns copied: the copy is a daily schedule.
Planned(s, planned) ==
    [schedule EXCEPT ![s] = [j \in Jids |->
        IF j \in planned /\ schedule[s][j] = "none" THEN "daily" ELSE schedule[s][j]]]

CopyChoices(c) ==
    LET s == connect[c].session IN
    /\ connect[c].pc = "seed"
    /\ \A j \in Taken(s) : ~Locked(s, j)
    /\ connect' = [connect EXCEPT ![c].pc = "schedules",
                                  ![c].adopted = Taken(s), ![c].since = Since(s)]
    /\ UNCHANGED <<status, group, schedule, cap, clock, enabling, choice>>

CopySchedules(c) ==
    /\ connect[c].pc = "schedules"
    /\ \E S \in Scheduled(connect[c].session) :
         connect' = [connect EXCEPT ![c].pc = "standdown", ![c].planned = S]
    /\ UNCHANGED <<status, group, schedule, cap, clock, enabling, choice>>

\* The last UPDATE and COMMIT.
StandDown(c) ==
    LET s == connect[c].session IN
    /\ connect[c].pc = "standdown"
    /\ group' = Adopted(s, connect[c].adopted, connect[c].since)
    /\ schedule' = Planned(s, connect[c].planned)
    /\ connect' = [connect EXCEPT ![c] = IdleConnect]
    /\ UNCHANGED <<status, cap, clock, enabling, choice>>

\* A statement throws: ROLLBACK, swallowed by applyGatewayStatus.
AdoptionFails(c) ==
    /\ connect[c].pc # "idle"
    /\ connect' = [connect EXCEPT ![c] = IdleConnect]
    /\ UNCHANGED <<status, group, schedule, cap, clock, enabling, choice>>

-----------------------------------------------------------------------------
(* Messages, the holder and the plan.                                      *)

\* ingestWebhook registers the Group of a message, off.
Discover(s, j) ==
    /\ status[s] # "none" /\ s \notin Rows(j)
    /\ \E t \in Sessions : status[t] = "connected"
    /\ group' = [group EXCEPT ![s][j] = Seeded]
    /\ UNCHANGED <<status, schedule, cap, clock, connect, enabling, choice>>

\* setEnabled(true): the Account's row is locked and its plan read ...
BeginEnable(s, j) ==
    /\ enabling.pc = "idle"
    /\ IsShown(s, j)
    /\ enabling' = [pc |-> "count", session |-> s, jid |-> j, cap |-> cap]
    /\ UNCHANGED <<status, group, schedule, cap, clock, connect, choice>>

\* ... its other enabled rows are counted ...
OtherEnabledRows == {r \in Sessions \X Jids :
                        Enabled(r[1], r[2]) /\ r # <<enabling.session, enabling.jid>>}

AtCap == Cardinality(OtherEnabledRows) >= enabling.cap

CountEnabled ==
    /\ enabling.pc = "count"
    /\ enabling' = IF AtCap THEN NotEnabling ELSE [enabling EXCEPT !.pc = "update"]
    /\ UNCHANGED <<status, group, schedule, cap, clock, connect, choice>>

\* ... and the row is switched on; one that has an enabled_at keeps it.
CommitEnable ==
    LET s == enabling.session  j == enabling.jid IN
    /\ enabling.pc = "update"
    /\ ~Locked(s, j)
    /\ IF group[s][j].at = Null
         THEN /\ clock < MaxClock
              /\ clock' = clock + 1
              /\ group' = [group EXCEPT ![s][j] = [is |-> "enabled", at |-> clock + 1]]
         ELSE /\ group' = [group EXCEPT ![s][j].is = "enabled"]
              /\ UNCHANGED clock
    /\ enabling' = NotEnabling
    /\ choice' = [choice EXCEPT ![j] = "on"]
    /\ UNCHANGED <<status, schedule, cap, connect>>

\* A statement throws (a deadlock with a disable of the same row, say): ROLLBACK.
EnableFails ==
    /\ enabling.pc # "idle"
    /\ enabling' = NotEnabling
    /\ UNCHANGED <<status, group, schedule, cap, clock, connect, choice>>

\* setEnabled(false).  Its Attestation references the Account's row, so it
\* commits only when no enabling holds that row.  The jobs it cancels are Summaries'.
Disable(s, j) ==
    /\ IsShown(s, j)
    /\ enabling.pc = "idle"
    /\ ~Locked(s, j)
    /\ group' = [group EXCEPT ![s][j] = Seeded]
    /\ choice' = [choice EXCEPT ![j] = IF @ = "none" THEN "none" ELSE "off"]
    /\ UNCHANGED <<status, schedule, cap, clock, connect, enabling>>

\* setSchedule, once an adoption's own INSERT for the row has committed.
SetSchedule(s, j, mode) ==
    /\ IsShown(s, j)
    /\ Cardinality({r \in Sessions \X Jids : schedule[r[1]][r[2]] # "none"}) < MaxSchedules
    /\ \A c \in Requests : ~(connect[c].session = s /\ j \in connect[c].planned)
    /\ schedule' = [schedule EXCEPT ![s][j] = mode]
    /\ UNCHANGED <<status, group, cap, clock, connect, enabling, choice>>

\* grantTrial, the Trial's end, cancelPlan, an operator's upgrade.
PlanMoves ==
    /\ cap' \in {FreeCap, ProCap} \ {cap}
    /\ UNCHANGED <<status, group, schedule, clock, connect, enabling, choice>>

\* migration 024's live_sessions: a connected Session before the newest.
IsLive(s) ==
    /\ status[s] # "none"
    /\ \A t \in Sessions \ {s} :
         \/ status[t] = "none"
         \/ status[s] = "connected" /\ status[t] # "connected"
         \/ (status[s] = "connected" <=> status[t] = "connected") /\ t < s

\* The process dies, and what had no COMMIT is rolled back; migrate() runs every
\* migration again at the next boot, and 024 is an adoption for the live Session.
Reboot(s) ==
    /\ IsLive(s)
    /\ group' = Adopted(s, Taken(s), Since(s))
    /\ \E S \in Scheduled(s) : schedule' = Planned(s, S)
    /\ connect' = [c \in Requests |-> IdleConnect]
    /\ enabling' = NotEnabling
    /\ UNCHANGED <<status, cap, clock, choice>>

-----------------------------------------------------------------------------

ConnectStep(c) ==
    \/ \E s \in Sessions : Connect(c, s)
    \/ \E j \in Jids : SeedGroup(c, j)
    \/ CopyChoices(c) \/ CopySchedules(c) \/ StandDown(c) \/ AdoptionFails(c)

HolderStep ==
    \/ \E s \in Sessions : Pair(s)
    \/ \E s \in Sessions, j \in Jids : BeginEnable(s, j) \/ Disable(s, j)
    \/ CountEnabled \/ CommitEnable \/ EnableFails
    \/ \E s \in Sessions, j \in Jids, mode \in Modes : SetSchedule(s, j, mode)

Next ==
    \/ \E c \in Requests : ConnectStep(c)
    \/ HolderStep
    \/ \E s \in Sessions : Lose(s) \/ Reboot(s)
    \/ \E s \in Sessions, j \in Jids : Discover(s, j)
    \/ PlanMoves

Spec == Init /\ [][Next]_vars

-----------------------------------------------------------------------------
(* What has to be true.                                                    *)

\* Listing, discovery and adoption are "not consent": a Group is enabled on some
\* Session only if its holder has enabled it on one (subscriptions.ts).
EnabledWasAsked == \A j \in EnabledGroups : choice[j] # "none"

\* Whatever rows re-pairing leaves behind and however the plan moves, no more Groups
\* are processed than the cap in force allows (block.ts, over_group_cap), and fewer
\* than it allows of those enabled only for rows stranded on Sessions that are not
\* connected, one Group for each at most: two Groups of one moment would be blocked,
\* or let through, together.
CapLostToStranded ==
    /\ Cardinality(Processed) <= cap
    /\ Cardinality(Processed) + Cardinality(Stranded) >=
          IF Cardinality(EnabledGroups) < cap THEN Cardinality(EnabledGroups) ELSE cap

\* The repair at every boot (024_group_identity.sql), whatever rows crashed adoptions
\* and earlier Sessions have left, neither disables a Group nor enables one; and no
\* Session but the live one is left with an enabled copy of a Group the live one has.
RepairKeepsChoices ==
    \A s \in Sessions, j \in Jids : IsLive(s) =>
        LET repaired == Adopted(s, Taken(s), Since(s))
            on == {t \in Sessions : repaired[t][j].is = "enabled"}
        IN  /\ on # {} <=> j \in EnabledGroups
            /\ s \in Rows(j) => on \subseteq {s}

-----------------------------------------------------------------------------
(* What the repository says and the code does not do.                      *)

\* Adoption carries over "the state this Account last chose for each Group"
\* (subscriptions.ts): a Group last switched off does not come back on.
OffStaysOff ==
    [][\A j \in Jids : choice[j] = "off" /\ choice'[j] = "off" =>
         \A s \in Sessions : IsShown(s, j)' /\ Enabled(s, j)' => Enabled(s, j)]_vars

\* "A Group must not be silently disabled" (subscriptions.ts): one last switched
\* on is enabled on some Session.
OnStaysOn == \A j \in Jids : choice[j] = "on" => j \in EnabledGroups

\* "A stale copy can never inflate the cap" (subscriptions.ts): enabling is
\* refused only when that many other Groups are enabled.
RefusedOnlyAtCap ==
    enabling.pc = "count" /\ AtCap =>
        Cardinality(EnabledGroups \ {enabling.jid}) >= enabling.cap

\* "The schedule is a property of the Group, so it follows the Group across a
\* re-pair" (subscriptions.ts): a Group on an interval is not put on a daily one.
ScheduleFollows ==
    [][\A c \in Requests, j \in Jids :
         LET s == connect[c].session IN
         (StandDown(c) /\ schedule[s][j] = "none" /\ schedule'[s][j] = "daily")
           => \E t \in Sessions \ {s} : schedule[t][j] = "daily"]_vars

\* "A re-pair must not silently re-rank which Groups the cap blocks" (its test): an
\* adoption that leaves the same Groups enabled leaves the same ones in the cap.
RankIsKept ==
    [][(\E c \in Requests : StandDown(c)) /\ EnabledGroups' = EnabledGroups
         => InCap' = InCap]_vars

=============================================================================
