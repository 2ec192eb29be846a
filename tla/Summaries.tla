----------------------------- MODULE Summaries ------------------------------
(***************************************************************************)
(* From stored messages to Summaries: the scheduler pass that closes a     *)
(* Group's window and queues a job (scheduler.ts) and the pass that turns  *)
(* a queued job into a summaries row (summarize.ts), with the Account      *)
(* holder editing schedules and disabling Groups under both.               *)
(*                                                                         *)
(* server.ts starts one of each every second without waiting for the last, *)
(* so passes overlap.  A scheduler pass is a string of autocommits; a      *)
(* worker holds one transaction per job, open across the model call.       *)
(* What a Summary says (module Validate of the plan) is left out: a worker *)
(* only knows whether its batch was empty.                                 *)
(***************************************************************************)
EXTENDS Integers, Sequences, FiniteSets

CONSTANTS
    Groups, Msgs,
    Passes,       \* tickScheduler passes that may overlap
    Workers,      \* processSummaryJobs passes that may overlap
    GroupOf,      \* the Group a message was written in
    FromMe,       \* messages the Account itself sent: counted, never summarised
    Interval,     \* interval_hours of a Group on an interval
    LocalTime,    \* local_time of a daily Group: a time of day
    DayLength,    \* hours in a day, local and UTC alike
    CreditCap,    \* PLANS[plan].max_summaries_per_day
    MaxTime,      \* bound: hours
    MaxJobs,      \* bound: jobs
    MaxCrashes    \* bound: process crashes

ASSUME SummariesAssumption ==
    /\ GroupOf \in [Msgs -> Groups]
    /\ FromMe \subseteq Msgs
    /\ Interval \in Nat \ {0}
    /\ DayLength \in Nat \ {0}
    /\ LocalTime \in 0 .. DayLength - 1
    /\ CreditCap \in Nat
    /\ MaxTime \in Nat \ {0}
    /\ MaxJobs \in Nat
    /\ MaxCrashes \in Nat

\* At a second a pass and with calls that return, only finitely many overlap.
ASSUME OverlapAssumption ==
    /\ IsFiniteSet(Passes)
    /\ IsFiniteSet(Workers) /\ Workers # {}

Never == 0
Time == 0 .. MaxTime
JobIds == 1 .. MaxJobs
Days == 0 .. MaxTime \div DayLength
DayOf(t) == t \div DayLength

VARIABLES
    now,        \* the clock, from 1
    enabled,    \* Groups whose row is enabled
    blocked,    \* Groups a Processing Block other than the credit cap stops
    schedule,   \* summary_schedules: "none", "daily" or "interval"
    lastFired,  \* its last_fired_at; Never for NULL
    sentAt,     \* messages.sent_at; Never before the message is written
    stored,     \* messages rows
    jobs,       \* summary_jobs rows by id; rows counts their summaries
    credits,    \* summaries with a model, by the UTC day of created_at
    pass,       \* scheduler passes
    worker,     \* summary passes
    crashes,
    late        \* history: messages stored after their window had closed

vars == <<now, enabled, blocked, schedule, lastFired, sentAt, stored, jobs, credits,
          pass, worker, crashes, late>>

holderVars == <<enabled, blocked, schedule>>
messageVars == <<sentAt, stored, late>>

ScheduleMode == {"none", "daily", "interval"}
JobStatus == {"pending", "done", "failed", "capped", "cancelled"}
Job == [group : Groups, from : Time, to : Time, status : JobStatus, rows : Nat]

\* rows: the Groups still to visit; last and mode: what the SELECT returned.
PassState == [pc : {"idle", "visit", "fire", "count", "insert"}, rows : SUBSET Groups,
              on : SUBSET Groups, at : Time,
              last : [Groups -> Time], mode : [Groups -> ScheduleMode]]
IdlePass == [pc |-> "idle", rows |-> {}, on |-> {}, at |-> Never,
             last |-> [g \in Groups |-> Never], mode |-> [g \in Groups |-> "none"]]

\* job: the claimed job (0 for none); at: when its transaction began;
\* empty: nothing to summarise; skip: jobs this pass found blocked.
WorkerState == [pc : {"idle", "check", "load", "call", "mark"}, job : 0 .. MaxJobs,
                at : Time, empty : BOOLEAN, skip : SUBSET JobIds]
BetweenJobs(skip) == [pc |-> "idle", job |-> 0, at |-> Never, empty |-> FALSE, skip |-> skip]
IdleWorker == BetweenJobs({})

TypeOK ==
    /\ now \in Time
    /\ enabled \subseteq Groups /\ blocked \subseteq Groups
    /\ schedule \in [Groups -> ScheduleMode]
    /\ lastFired \in [Groups -> Time]
    /\ sentAt \in [Msgs -> Time]
    /\ stored \subseteq Msgs /\ late \subseteq stored
    /\ jobs \in Seq(Job) /\ Len(jobs) <= MaxJobs
    /\ credits \in [Days -> Nat]
    /\ pass \in [Passes -> PassState]
    /\ worker \in [Workers -> WorkerState]
    /\ crashes \in 0 .. MaxCrashes

Init ==
    /\ now = 1
    /\ enabled = {} /\ blocked = {}
    /\ schedule = [g \in Groups |-> "none"]
    /\ lastFired = [g \in Groups |-> Never]
    /\ sentAt = [m \in Msgs |-> Never]
    /\ stored = {} /\ late = {}
    /\ jobs = <<>>
    /\ credits = [d \in Days |-> 0]
    /\ pass = [p \in Passes |-> IdlePass]
    /\ worker = [w \in Workers |-> IdleWorker]
    /\ crashes = 0

-----------------------------------------------------------------------------
(* tickScheduler.                                                          *)

\* The SELECT: every enabled Group that has a schedule, as it is now.
StartPass(p) ==
    /\ pass[p].pc = "idle"
    /\ \E g \in enabled : schedule[g] # "none"
    /\ pass' = [pass EXCEPT ![p] =
                  [pc |-> "visit", rows |-> {g \in enabled : schedule[g] # "none"},
                   on |-> {}, at |-> now, last |-> lastFired, mode |-> schedule]]
    /\ UNCHANGED <<now, holderVars, lastFired, messageVars, jobs, credits, worker, crashes>>

\* A daily Group fires once its local time is reached, once per local date; a
\* Group on an interval once that long has passed.
Due(mode, last, at) ==
    IF mode = "interval"
      THEN last = Never \/ at - last >= Interval
      ELSE at % DayLength >= LocalTime /\ (last = Never \/ DayOf(last) # DayOf(at))

\* The next row: skipped if blocked, before last_fired_at moves, or not due.
Visit(p, g) ==
    /\ pass[p].pc = "visit"
    /\ g \in pass[p].rows
    /\ pass' = [pass EXCEPT
         ![p].rows = @ \ {g},
         ![p].on = {g},
         ![p].pc = IF g \notin blocked /\ Due(pass[p].mode[g], pass[p].last[g], pass[p].at)
                     THEN "fire" ELSE "visit"]
    /\ UNCHANGED <<now, holderVars, lastFired, messageVars, jobs, credits, worker, crashes>>

EndPass(p) ==
    /\ pass[p].pc = "visit" /\ pass[p].rows = {}
    /\ pass' = [pass EXCEPT ![p] = IdlePass]
    /\ UNCHANGED <<now, holderVars, lastFired, messageVars, jobs, credits, worker, crashes>>

InWindow(m, g, from, to) == GroupOf[m] = g /\ from < sentAt[m] /\ sentAt[m] <= to

\* mutant of Fire: the window is closed at the clock, not at the pass's instant
FireAtClock(p) ==
    /\ pass[p].pc = "fire"
    /\ lastFired' = [g \in Groups |-> IF g \in pass[p].on THEN now ELSE lastFired[g]]
    /\ pass' = [pass EXCEPT ![p].pc = "count"]
    /\ UNCHANGED <<now, holderVars, messageVars, jobs, credits, worker, crashes>>

\* UPDATE summary_schedules SET last_fired_at, whatever another pass wrote.
Fire(p) ==
    /\ pass[p].pc = "fire"
    /\ lastFired' = [g \in Groups |-> IF g \in pass[p].on THEN pass[p].at ELSE lastFired[g]]
    /\ pass' = [pass EXCEPT ![p].pc = "count"]
    /\ UNCHANGED <<now, holderVars, messageVars, jobs, credits, worker, crashes>>

\* A quiet window closes without a job.
CountMessages(p) ==
    /\ pass[p].pc = "count"
    /\ pass' = [pass EXCEPT ![p].pc =
         IF \E m \in stored, g \in pass[p].on : InWindow(m, g, pass[p].last[g], pass[p].at)
           THEN "insert" ELSE "visit"]
    /\ UNCHANGED <<now, holderVars, lastFired, messageVars, jobs, credits, worker, crashes>>

InsertJob(p) ==
    /\ pass[p].pc = "insert"
    /\ Len(jobs) < MaxJobs
    /\ \E g \in pass[p].on :
         jobs' = Append(jobs, [group |-> g, from |-> pass[p].last[g], to |-> pass[p].at,
                               status |-> "pending", rows |-> 0])
    /\ pass' = [pass EXCEPT ![p].pc = "visit"]
    /\ UNCHANGED <<now, holderVars, lastFired, messageVars, credits, worker, crashes>>

-----------------------------------------------------------------------------
(* processSummaryJobs: one transaction per job.                            *)

\* mutant of Held: FOR UPDATE is gone
NeverHeld(j) == FALSE

\* FOR UPDATE OF j: a transaction that claimed the job is still open.
Held(j) == \E w \in Workers : worker[w].job = j /\ worker[w].pc # "mark"

Claimable(w) ==
    {j \in DOMAIN jobs : jobs[j].status = "pending" /\ ~Held(j) /\ j \notin worker[w].skip}

\* ORDER BY j.id ... SKIP LOCKED LIMIT 1.
Claim(w) ==
    /\ worker[w].pc = "idle"
    /\ \E j \in Claimable(w) :
         /\ \A k \in Claimable(w) : j <= k
         /\ worker' = [worker EXCEPT ![w].pc = "check", ![w].job = j, ![w].at = now]
    /\ UNCHANGED <<now, holderVars, lastFired, messageVars, jobs, credits, pass, crashes>>

\* Nothing is left to claim: the pass ends and the next one skips nothing.
EndWorkerPass(w) ==
    /\ worker[w].pc = "idle" /\ worker[w].skip # {}
    /\ Claimable(w) = {}
    /\ worker' = [worker EXCEPT ![w] = IdleWorker]
    /\ UNCHANGED <<now, holderVars, lastFired, messageVars, jobs, credits, pass, crashes>>

Release(w) == worker' = [worker EXCEPT ![w] = BetweenJobs(worker[w].skip)]

\* mutant of OverCredits: > for >=
PastCredits(at) == credits[DayOf(at)] > CreditCap

\* credits_today, counted for the day the transaction began in.
OverCredits(at) == credits[DayOf(at)] >= CreditCap

\* processingBlock, stage "summarize": a block leaves the job for a later pass,
\* the credit cap parks it.
CheckBlock(w) ==
    LET j == worker[w].job IN
    /\ worker[w].pc = "check"
    /\ \/ /\ jobs[j].group \in blocked
          /\ worker' = [worker EXCEPT ![w] = BetweenJobs(worker[w].skip \cup {j})]
          /\ UNCHANGED jobs
       \/ /\ jobs[j].group \notin blocked /\ OverCredits(worker[w].at)
          /\ jobs' = [jobs EXCEPT ![j].status = "capped"]
          /\ Release(w)
       \/ /\ jobs[j].group \notin blocked /\ ~OverCredits(worker[w].at)
          /\ worker' = [worker EXCEPT ![w].pc = "load"]
          /\ UNCHANGED jobs
    /\ UNCHANGED <<now, holderVars, lastFired, messageVars, credits, pass, crashes>>

LoadBatch(w) ==
    LET j == jobs[worker[w].job] IN
    /\ worker[w].pc = "load"
    /\ worker' = [worker EXCEPT
         ![w].pc = "call",
         ![w].empty = ~\E m \in stored \ FromMe : InWindow(m, j.group, j.from, j.to)]
    /\ UNCHANGED <<now, holderVars, lastFired, messageVars, jobs, credits, pass, crashes>>

\* The model answers (it is not called for an empty batch): the summaries row,
\* the job's status and COMMIT.
StoreSummary(w) ==
    LET j == worker[w].job IN
    /\ worker[w].pc = "call"
    /\ jobs' = [jobs EXCEPT ![j].status = "done", ![j].rows = @ + 1]
    /\ credits' = IF worker[w].empty THEN credits
                  ELSE [credits EXCEPT ![DayOf(worker[w].at)] = @ + 1]
    /\ Release(w)
    /\ UNCHANGED <<now, holderVars, lastFired, messageVars, pass, crashes>>

\* mutant of JobThrows: ROLLBACK and on to the next job, which is this one again
RollBackOnly(w) ==
    /\ worker[w].pc \in {"load", "call"}
    /\ Release(w)
    /\ UNCHANGED <<now, holderVars, lastFired, messageVars, jobs, credits, pass, crashes>>

\* Anything after the claim throws: ROLLBACK gives the row lock back.
JobThrows(w) ==
    /\ worker[w].pc \in {"load", "call"}
    /\ worker' = [worker EXCEPT ![w].pc = "mark"]
    /\ UNCHANGED <<now, holderVars, lastFired, messageVars, jobs, credits, pass, crashes>>

\* mutant of MarkFailed: a status no other statement knows
MarkErrored(w) ==
    /\ worker[w].pc = "mark"
    /\ ~Held(worker[w].job)
    /\ jobs' = [jobs EXCEPT ![worker[w].job].status = "error"]
    /\ Release(w)
    /\ UNCHANGED <<now, holderVars, lastFired, messageVars, credits, pass, crashes>>

\* The separate UPDATE ... SET status = 'failed', whatever the status is by now.
MarkFailed(w) ==
    /\ worker[w].pc = "mark"
    /\ ~Held(worker[w].job)
    /\ jobs' = [jobs EXCEPT ![worker[w].job].status = "failed"]
    /\ Release(w)
    /\ UNCHANGED <<now, holderVars, lastFired, messageVars, credits, pass, crashes>>

-----------------------------------------------------------------------------
(* The Account holder, the message stream, time and failure.               *)

EnableGroup(g) ==
    /\ g \notin enabled
    /\ enabled' = enabled \cup {g}
    /\ UNCHANGED <<now, blocked, schedule, lastFired, messageVars, jobs, credits, pass,
                   worker, crashes>>

\* mutant of DisableGroup: the pending jobs stay pending
DisableFlagOnly(g) ==
    /\ g \in enabled
    /\ enabled' = enabled \ {g}
    /\ UNCHANGED <<now, blocked, schedule, lastFired, messageVars, jobs, credits, pass,
                   worker, crashes>>

\* setEnabled(false): its UPDATE summary_jobs waits for the worker that holds one.
DisableGroup(g) ==
    /\ g \in enabled
    /\ \A j \in DOMAIN jobs : jobs[j].group = g => ~Held(j)
    /\ enabled' = enabled \ {g}
    /\ jobs' = [j \in DOMAIN jobs |->
                  IF jobs[j].group = g /\ jobs[j].status = "pending"
                    THEN [jobs[j] EXCEPT !.status = "cancelled"] ELSE jobs[j]]
    /\ UNCHANGED <<now, blocked, schedule, lastFired, messageVars, credits, pass, worker, crashes>>

\* mutant of SetSchedule: the upsert starts the schedule afresh
SetScheduleAfresh(g, mode) ==
    /\ g \in enabled /\ mode # schedule[g]
    /\ schedule' = [schedule EXCEPT ![g] = mode]
    /\ lastFired' = [lastFired EXCEPT ![g] = Never]
    /\ UNCHANGED <<now, enabled, blocked, messageVars, jobs, credits, pass, worker, crashes>>

\* setSchedule on an enabled Group; last_fired_at survives the upsert.
SetSchedule(g, mode) ==
    /\ g \in enabled /\ mode # schedule[g]
    /\ schedule' = [schedule EXCEPT ![g] = mode]
    /\ UNCHANGED <<now, enabled, blocked, lastFired, messageVars, jobs, credits, pass,
                   worker, crashes>>

\* A halt, bill, pause, lost connection or the group cap stops or releases Groups.
SetBlocked(S) ==
    /\ blocked # S
    /\ blocked' = S
    /\ UNCHANGED <<now, enabled, schedule, lastFired, messageVars, jobs, credits, pass,
                   worker, crashes>>

\* A message is written; the webhook and the queue store it now or later.
Send(m) ==
    /\ sentAt[m] = Never
    /\ sentAt' = [sentAt EXCEPT ![m] = now]
    /\ UNCHANGED <<now, holderVars, lastFired, stored, late, jobs, credits, pass, worker, crashes>>

Store(m) ==
    /\ sentAt[m] # Never /\ m \notin stored
    /\ stored' = stored \cup {m}
    /\ late' = IF sentAt[m] <= lastFired[GroupOf[m]] THEN late \cup {m} ELSE late
    /\ UNCHANGED <<now, holderVars, lastFired, sentAt, jobs, credits, pass, worker, crashes>>

Tick ==
    /\ now < MaxTime
    /\ now' = now + 1
    /\ UNCHANGED <<holderVars, lastFired, messageVars, jobs, credits, pass, worker, crashes>>

Crash ==
    /\ crashes < MaxCrashes
    /\ crashes' = crashes + 1
    /\ pass' = [p \in Passes |-> IdlePass]
    /\ worker' = [w \in Workers |-> IdleWorker]
    /\ UNCHANGED <<now, holderVars, lastFired, messageVars, jobs, credits>>

-----------------------------------------------------------------------------

PassStep(p) ==
    \/ StartPass(p) \/ EndPass(p)
    \/ \E g \in Groups : Visit(p, g)
    \/ Fire(p) \/ CountMessages(p) \/ InsertJob(p)

WorkerStep(w) ==
    \/ Claim(w) \/ EndWorkerPass(w)
    \/ CheckBlock(w) \/ LoadBatch(w) \/ StoreSummary(w)
    \/ JobThrows(w) \/ MarkFailed(w)

HolderStep ==
    \/ \E g \in Groups : EnableGroup(g) \/ DisableGroup(g)
    \/ \E g \in Groups, mode \in {"daily", "interval"} : SetSchedule(g, mode)
    \/ \E S \in SUBSET Groups : SetBlocked(S)

Next ==
    \/ \E p \in Passes : PassStep(p)
    \/ \E w \in Workers : WorkerStep(w)
    \/ HolderStep
    \/ \E m \in Msgs : Send(m) \/ Store(m)
    \/ Tick
    \/ Crash

Spec == Init /\ [][Next]_vars

\* The one-second timer keeps starting passes, and statements and the model's
\* HTTP call return or throw; nothing else has to happen.
FairSpec == Spec /\ \A w \in Workers : WF_vars(WorkerStep(w))

-----------------------------------------------------------------------------
(* What has to be true.                                                    *)

\* "Windows tile exactly" (scheduler.ts): no message of a Group falls into the
\* windows of two jobs, through blocks, quiet windows, re-enabling and edits
\* of the schedule.  Holds while scheduler passes do not overlap.
WindowsDisjoint ==
    \A j, k \in DOMAIN jobs :
        j < k /\ jobs[j].group = jobs[k].group => jobs[j].to <= jobs[k].from

\* Nor into none: once its window has closed, a message stored by then is in
\* some job's window.  Holds while scheduler passes do not overlap and the
\* process does not die.
ClosedWindowsQueued ==
    \A m \in stored \ late :
        (/\ sentAt[m] <= lastFired[GroupOf[m]]
         /\ \A p \in Passes : pass[p].pc \notin {"count", "insert"}) =>
            \E j \in DOMAIN jobs : InWindow(m, jobs[j].group, jobs[j].from, jobs[j].to)

\* However passes overlap, fail and crash, a job yields at most one Summary, and
\* one that was never run to the end, cancelled or parked yields none.
SummarisedOnce ==
    \A j \in DOMAIN jobs :
        /\ jobs[j].rows <= 1
        /\ jobs[j].status = "done" => jobs[j].rows = 1
        /\ jobs[j].status \in {"pending", "capped", "cancelled"} => jobs[j].rows = 0

\* The day's credits can be overrun by overlapping passes, which all read the
\* count before any of them inserts, but by no more than one Summary each.
CreditOverrunBounded ==
    \A d \in Days : credits[d] <= CreditCap + Cardinality(Workers) - 1

\* Disabling a Group cancels what is queued for it; only a scheduler pass that
\* had already read the Group as enabled can queue one more job behind it.
SilenceOverrunBounded ==
    \A g \in Groups \ enabled :
        Cardinality({j \in DOMAIN jobs : jobs[j].group = g /\ jobs[j].status = "pending"})
            <= Cardinality(Passes)

\* "One job per transaction so a bad job can't wedge the rest" (summarize.ts):
\* a pending job is settled, whatever throws, unless its Group gets blocked.
JobsSettle ==
    \A j \in JobIds :
        (j \in DOMAIN jobs /\ jobs[j].status = "pending") ~>
            (j \in DOMAIN jobs /\ (jobs[j].status # "pending" \/ jobs[j].group \in blocked))

-----------------------------------------------------------------------------
(* What the repository says and the code does not do.                      *)

\* "Disabled groups are re-checked at fire time, so disabling also silences an
\* existing schedule" (scheduler.ts).
DisabledIsSilent ==
    [][Len(jobs') > Len(jobs) => jobs'[Len(jobs')].group \in enabled]_vars

=============================================================================
