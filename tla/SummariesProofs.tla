-------------------------- MODULE SummariesProofs ---------------------------
(***************************************************************************)
(* For any number of Groups, messages, scheduler passes and summary        *)
(* passes: a job yields at most one Summary, because a worker past its     *)
(* SELECT holds a pending job nobody else holds; the day's credits and the *)
(* jobs behind a disabled Group are overrun by no more than the passes     *)
(* that overlap; and where scheduler passes do not, the windows of a       *)
(* Group's jobs leave no gap and do not overlap.                           *)
(***************************************************************************)
EXTENDS Summaries, TLAPS, SequenceTheorems, FiniteSetTheorems

\* The types the argument rests on; the bounds play no part.
Holder == [pc : {"idle", "check", "load", "call", "mark"}, job : Nat, at : Time,
           empty : BOOLEAN, skip : SUBSET Nat]

Shape ==
    /\ now \in Time /\ enabled \subseteq Groups
    /\ schedule \in [Groups -> ScheduleMode]
    /\ lastFired \in [Groups -> Time]
    /\ pass \in [Passes -> PassState]
    /\ jobs \in Seq(Job)
    /\ worker \in [Workers -> Holder]

\* A worker in its transaction holds a pending job, and one that is about to
\* mark a failure knows an existing one.
Claims ==
    \A w \in Workers :
        /\ worker[w].pc \in {"check", "load", "call"} =>
              /\ worker[w].job \in DOMAIN jobs
              /\ jobs[worker[w].job].status = "pending"
        /\ worker[w].pc = "mark" => worker[w].job \in DOMAIN jobs
        /\ worker[w].pc = "idle" => worker[w].job = 0

\* FOR UPDATE OF j: no two of them hold the same one.
Exclusive ==
    \A v, w \in Workers :
        (/\ worker[v].pc \in {"check", "load", "call"}
         /\ worker[w].pc \in {"check", "load", "call"}
         /\ worker[v].job = worker[w].job) => v = w

IInv == Shape /\ Claims /\ Exclusive /\ SummarisedOnce

-----------------------------------------------------------------------------

\* The jobs keep their ids: the domain of the sequence is 1 .. Len(jobs).
LEMMA JobDomain ==
    ASSUME jobs \in Seq(Job)
    PROVE  /\ DOMAIN jobs = 1 .. Len(jobs) /\ Len(jobs) \in Nat
           /\ \A j \in DOMAIN jobs : jobs[j] \in Job /\ j \in Nat \ {0}
BY LenProperties, ElementOfSeq

\* A function on the ids that is a Job everywhere is a table of jobs.
LEMMA JobTable ==
    ASSUME jobs \in Seq(Job), NEW f, f \in [DOMAIN jobs -> Job]
    PROVE  f \in Seq(Job) /\ DOMAIN f = DOMAIN jobs
<1>1. f \in [1 .. Len(jobs) -> Job] /\ Len(jobs) \in Nat
  BY JobDomain
<1>2. QED
  BY <1>1, JobDomain

\* No jobs and idle workers: the invariant holds.
LEMMA InitInv == Init => IInv
<1>1. ASSUME Init PROVE Shape
  <2>1. jobs \in Seq(Job)
    BY <1>1, EmptySeq DEF Init
  <2>2. 1 \in Time
    BY SummariesAssumption DEF Time
  <2>3. QED
    BY <1>1, <2>1, <2>2, SummariesAssumption
       DEF Init, Shape, ScheduleMode, Time, Never, PassState, IdlePass, Holder, IdleWorker, BetweenJobs
<1>2. ASSUME Init PROVE Claims /\ Exclusive /\ SummarisedOnce
  BY <1>2 DEF Init, Claims, Exclusive, SummarisedOnce, IdleWorker, BetweenJobs
<1>3. QED
  BY <1>1, <1>2 DEF IInv

\* Steps of scheduler passes and of the rest of the system that leave jobs and
\* workers alone.
LEMMA ElsewhereStep ==
    ASSUME IInv, jobs' = jobs, worker' = worker, Shape'
    PROVE  IInv'
BY DEF IInv, Claims, Exclusive, SummarisedOnce

\* The scheduler's steps: they touch no job but the one they add, pending.
LEMMA PassStepInv ==
    ASSUME IInv, NEW p \in Passes, PassStep(p)
    PROVE  IInv'
<1> USE DEF IInv, Shape
<1>1. ASSUME StartPass(p) PROVE IInv'
  <2>1. Shape'
    BY <1>1 DEF StartPass, holderVars, messageVars, PassState
  <2>2. QED
    BY <1>1, <2>1, ElsewhereStep DEF StartPass
<1>2. ASSUME EndPass(p) PROVE IInv'
  <2>1. Shape'
    BY <1>2, SummariesAssumption
       DEF EndPass, holderVars, PassState, IdlePass, Never, Time, ScheduleMode
  <2>2. QED
    BY <1>2, <2>1, ElsewhereStep DEF EndPass
<1>3. ASSUME NEW g \in Groups, Visit(p, g) PROVE IInv'
  <2>1. pass' \in [Passes -> PassState]
    <3> DEFINE pc == IF g \notin blocked /\ Due(pass[p].mode[g], pass[p].last[g], pass[p].at)
                       THEN "fire" ELSE "visit"
    <3>1. pc \in {"fire", "visit"}
      OBVIOUS
    <3>2. pass' = [pass EXCEPT ![p].rows = @ \ {g}, ![p].on = {g}, ![p].pc = pc]
      BY <1>3 DEF Visit
    <3> HIDE DEF pc
    <3>3. pass[p].rows \ {g} \in SUBSET Groups /\ {g} \in SUBSET Groups
      BY DEF PassState
    <3> DEFINE row == [pass[p] EXCEPT !.rows = @ \ {g}, !.on = {g}, !.pc = pc]
    <3>4. row \in PassState
      BY <3>1, <3>3 DEF PassState
    <3>5. pass' = [pass EXCEPT ![p] = row]
      BY <3>2
    <3> HIDE DEF row
    <3>6. QED
      BY <3>4, <3>5
  <2>2. Shape'
    BY <1>3, <2>1 DEF Visit, holderVars
  <2>3. QED
    BY <1>3, <2>2, ElsewhereStep DEF Visit
<1>4. ASSUME Fire(p) PROVE IInv'
  <2>1. Shape'
    BY <1>4 DEF Fire, holderVars, PassState
  <2>2. QED
    BY <1>4, <2>1, ElsewhereStep DEF Fire
<1>5. ASSUME CountMessages(p) PROVE IInv'
  <2>1. Shape'
    BY <1>5 DEF CountMessages, holderVars, PassState
  <2>2. QED
    BY <1>5, <2>1, ElsewhereStep DEF CountMessages
<1>6. ASSUME InsertJob(p) PROVE IInv'
  <2>1. PICK g \in pass[p].on :
          jobs' = Append(jobs, [group |-> g, from |-> pass[p].last[g], to |-> pass[p].at,
                                status |-> "pending", rows |-> 0])
    BY <1>6 DEF InsertJob
  <2> DEFINE row == [group |-> g, from |-> pass[p].last[g], to |-> pass[p].at,
                     status |-> "pending", rows |-> 0]
  <2>2. row \in Job
    BY DEF PassState, Job, JobStatus
  <2>3. /\ jobs' \in Seq(Job)
        /\ DOMAIN jobs' = DOMAIN jobs \cup {Len(jobs) + 1}
        /\ \A j \in DOMAIN jobs : jobs'[j] = jobs[j]
        /\ jobs'[Len(jobs) + 1] = row
    BY <2>1, <2>2, JobDomain
  <2>4. worker' = worker
    BY <1>6 DEF InsertJob
  <2>5. Shape'
    BY <1>6, <2>3, <2>4 DEF InsertJob, holderVars, PassState
  <2>6. Claims'
    BY <2>3, <2>4 DEF Claims
  <2>7. Exclusive'
    BY <2>4 DEF Exclusive
  <2>8. SummarisedOnce'
    BY <2>3 DEF SummarisedOnce
  <2>9. QED
    BY <2>5, <2>6, <2>7, <2>8
<1>7. QED
  BY <1>1, <1>2, <1>3, <1>4, <1>5, <1>6 DEF PassStep

\* A worker that lets its job go, or moves on with it, keeps the invariant.
LEMMA MoveOn ==
    ASSUME IInv, NEW w \in Workers, jobs' = jobs, UNCHANGED <<now, holderVars, lastFired, pass>>,
           NEW next \in Holder, worker' = [worker EXCEPT ![w] = next],
           \/ next.pc = "idle" /\ next.job = 0
           \/ /\ worker[w].pc \in {"check", "load", "call"}
              /\ next.pc \in {"load", "call", "mark"}
              /\ next.job = worker[w].job
    PROVE  IInv'
<1>1. Shape'
  BY DEF IInv, Shape, holderVars
<1>2. Claims'
  BY DEF IInv, Shape, Claims
<1>3. Exclusive'
  BY DEF IInv, Shape, Exclusive
<1>4. SummarisedOnce'
  BY DEF IInv, SummarisedOnce
<1>5. QED
  BY <1>1, <1>2, <1>3, <1>4 DEF IInv

\* What a worker may make of a job: done with one more Summary or capped while it
\* was pending, failed at any time.
Outcome(old, new) ==
    \/ old.status = "pending" /\ new.status = "done" /\ new.rows = old.rows + 1
    \/ old.status = "pending" /\ new.status = "capped" /\ new.rows = old.rows
    \/ new.status = "failed" /\ new.rows = old.rows

\* A worker that settles a job no other worker holds, and lets it go, keeps the
\* invariant.
LEMMA SettleJob ==
    ASSUME IInv, NEW w \in Workers, NEW j \in DOMAIN jobs, NEW row \in Job,
           jobs' = [jobs EXCEPT ![j] = row], Outcome(jobs[j], row),
           \A v \in Workers : v # w /\ worker[v].pc \in {"check", "load", "call"} =>
               worker[v].job # j,
           NEW next \in Holder, worker' = [worker EXCEPT ![w] = next],
           next.pc = "idle", next.job = 0,
           UNCHANGED <<now, holderVars, lastFired, pass>>
    PROVE  IInv'
<1>1. /\ jobs' \in Seq(Job) /\ DOMAIN jobs' = DOMAIN jobs
      /\ jobs'[j] = row
      /\ \A k \in DOMAIN jobs : k # j => jobs'[k] = jobs[k]
  BY JobDomain, ExceptSeq DEF IInv, Shape
<1>2. Shape'
  BY <1>1 DEF IInv, Shape, holderVars
<1>3. Claims'
  BY <1>1 DEF IInv, Shape, Claims
<1>4. Exclusive'
  BY DEF IInv, Shape, Exclusive
<1>5. SummarisedOnce'
  BY <1>1, JobDomain DEF IInv, Shape, SummarisedOnce, Job, Outcome
<1>6. QED
  BY <1>2, <1>3, <1>4, <1>5 DEF IInv

\* A worker that is between jobs.
LEMMA IdleHolder ==
    ASSUME NEW S \in SUBSET Nat
    PROVE  /\ BetweenJobs(S) \in Holder
           /\ BetweenJobs(S).pc = "idle" /\ BetweenJobs(S).job = 0
<1>1. 0 \in Time
  BY SummariesAssumption DEF Time
<1>2. QED
  BY <1>1 DEF BetweenJobs, Holder, Never

\* The steps of a summary pass.
LEMMA WorkerStepInv ==
    ASSUME IInv, NEW w \in Workers, WorkerStep(w)
    PROVE  IInv'
<1> USE DEF IInv, Shape
<1> DEFINE j == worker[w].job
           free == BetweenJobs(worker[w].skip)
<1>01. free \in Holder /\ free.pc = "idle" /\ free.job = 0
  <2>1. worker[w].skip \in SUBSET Nat
    BY DEF Holder
  <2>2. QED
    BY <2>1, IdleHolder
<1>02. ASSUME worker[w].pc \in {"check", "load", "call"}
      PROVE  /\ j \in DOMAIN jobs /\ j \in Nat /\ jobs[j] \in Job /\ jobs[j].status = "pending"
             /\ \A v \in Workers : v # w /\ worker[v].pc \in {"check", "load", "call"} =>
                   worker[v].job # j
  BY <1>02, JobDomain DEF Claims, Exclusive
<1>1. ASSUME Claim(w) PROVE IInv'
  <2>1. PICK k \in Claimable(w) :
          worker' = [worker EXCEPT ![w].pc = "check", ![w].job = k, ![w].at = now]
    BY <1>1 DEF Claim
  <2>2. /\ k \in DOMAIN jobs /\ k \in Nat /\ jobs[k].status = "pending"
        /\ \A v \in Workers : worker[v].job = k => worker[v].pc = "mark"
    BY <2>1, JobDomain DEF Claimable, Held
  <2>3. jobs' = jobs
    BY <1>1 DEF Claim
  <2>4. Shape'
    BY <1>1, <2>1, <2>2, <2>3 DEF Claim, holderVars, Holder
  <2>5. Claims'
    BY <2>1, <2>2, <2>3 DEF Claims, Holder
  <2>6. Exclusive'
    BY <2>1, <2>2 DEF Exclusive, Holder
  <2>7. SummarisedOnce'
    BY <2>3 DEF SummarisedOnce
  <2>8. QED
    BY <2>4, <2>5, <2>6, <2>7
<1>2. ASSUME EndWorkerPass(w) PROVE IInv'
  <2>1. IdleWorker \in Holder /\ IdleWorker.pc = "idle" /\ IdleWorker.job = 0
    BY IdleHolder DEF IdleWorker
  <2>2. QED
    BY <1>2, <2>1, MoveOn DEF EndWorkerPass
<1>3. ASSUME CheckBlock(w) PROVE IInv'
  <2>1. CASE jobs' = jobs /\ worker' = [worker EXCEPT ![w] = BetweenJobs(worker[w].skip \cup {j})]
    <3> DEFINE next == BetweenJobs(worker[w].skip \cup {j})
    <3>1. worker[w].skip \cup {j} \in SUBSET Nat
      BY DEF Holder
    <3>2. next \in Holder /\ next.pc = "idle" /\ next.job = 0
      BY <3>1, IdleHolder
    <3>3. /\ worker' = [worker EXCEPT ![w] = next] /\ jobs' = jobs
          /\ UNCHANGED <<now, holderVars, lastFired, pass>>
      BY <1>3, <2>1 DEF CheckBlock
    <3> HIDE DEF next
    <3>4. QED
      BY <3>2, <3>3, MoveOn
  <2>2. CASE jobs' = jobs /\ worker' = [worker EXCEPT ![w].pc = "load"]
    <3> DEFINE next == [worker[w] EXCEPT !.pc = "load"]
    <3>1. /\ next \in Holder /\ next.pc = "load" /\ next.job = worker[w].job
          /\ worker' = [worker EXCEPT ![w] = next]
      BY <2>2 DEF Holder
    <3>2. QED
      BY <1>3, <2>2, <3>1, MoveOn DEF CheckBlock
  <2>3. CASE jobs' = [jobs EXCEPT ![j].status = "capped"] /\ Release(w)
    <3> DEFINE row == [jobs[j] EXCEPT !.status = "capped"]
    <3>1. /\ row \in Job /\ Outcome(jobs[j], row) /\ jobs' = [jobs EXCEPT ![j] = row]
          /\ worker' = [worker EXCEPT ![w] = free]
      BY <1>3, <1>02, <2>3 DEF CheckBlock, Job, JobStatus, Outcome, Release
    <3>2. UNCHANGED <<now, holderVars, lastFired, pass>>
      BY <1>3 DEF CheckBlock
    <3>3. worker[w].pc = "check"
      BY <1>3 DEF CheckBlock
    <3> HIDE DEF row, free
    <3>4. QED
      BY <1>01, <1>02, <3>1, <3>2, <3>3, SettleJob
  <2>4. QED
    BY <1>3, <2>1, <2>2, <2>3 DEF CheckBlock
<1>4. ASSUME LoadBatch(w) PROVE IInv'
  <2> DEFINE empty == ~\E m \in stored \ FromMe :
                         InWindow(m, jobs[j].group, jobs[j].from, jobs[j].to)
             next == [worker[w] EXCEPT !.pc = "call", !.empty = empty]
  <2>1. worker' = [worker EXCEPT ![w] = next] /\ jobs' = jobs
    BY <1>4 DEF LoadBatch
  <2>2. empty \in BOOLEAN
    OBVIOUS
  <2> HIDE DEF empty
  <2>3. next \in Holder /\ next.pc = "call" /\ next.job = worker[w].job
    BY <2>2 DEF Holder
  <2>4. UNCHANGED <<now, holderVars, lastFired, pass>> /\ worker[w].pc = "load"
    BY <1>4 DEF LoadBatch
  <2> HIDE DEF next
  <2>5. QED
    BY <2>1, <2>3, <2>4, MoveOn
<1>5. ASSUME StoreSummary(w) PROVE IInv'
  <2> DEFINE row == [jobs[j] EXCEPT !.status = "done", !.rows = @ + 1]
  <2>1. worker[w].pc = "call" /\ UNCHANGED <<now, holderVars, lastFired, pass>>
    BY <1>5 DEF StoreSummary
  <2>2. jobs' = [jobs EXCEPT ![j] = row] /\ worker' = [worker EXCEPT ![w] = free]
    BY <1>5, <1>02, <2>1 DEF StoreSummary, Release
  <2>3. jobs[j] \in Job /\ jobs[j].status = "pending"
    BY <1>02, <2>1
  <2>4. row.status = "done" /\ row.rows = jobs[j].rows + 1
    BY <2>3 DEF Job
  <2>5. row \in Job
    <3> DEFINE n == jobs[j].rows + 1
    <3>1. n \in Nat
      BY <2>3 DEF Job
    <3>2. row = [jobs[j] EXCEPT !.status = "done", !.rows = n]
      OBVIOUS
    <3> HIDE DEF n, row
    <3>3. QED
      BY <2>3, <3>1, <3>2 DEF Job, JobStatus
  <2>6. Outcome(jobs[j], row)
    BY <2>3, <2>4 DEF Outcome
  <2> HIDE DEF row, free
  <2>7. QED
    BY <1>01, <1>02, <2>1, <2>2, <2>5, <2>6, SettleJob
<1>6. ASSUME JobThrows(w) PROVE IInv'
  <2> DEFINE next == [worker[w] EXCEPT !.pc = "mark"]
  <2>1. worker' = [worker EXCEPT ![w] = next] /\ jobs' = jobs
    BY <1>6 DEF JobThrows
  <2>2. next \in Holder /\ next.pc = "mark" /\ next.job = worker[w].job
    BY DEF Holder
  <2>3. UNCHANGED <<now, holderVars, lastFired, pass>> /\ worker[w].pc \in {"load", "call"}
    BY <1>6 DEF JobThrows
  <2> HIDE DEF next
  <2>4. QED
    BY <2>1, <2>2, <2>3, MoveOn
<1>7. ASSUME MarkFailed(w) PROVE IInv'
  <2> DEFINE row == [jobs[j] EXCEPT !.status = "failed"]
  <2>1. /\ j \in DOMAIN jobs /\ jobs[j] \in Job
        /\ \A v \in Workers : v # w /\ worker[v].pc \in {"check", "load", "call"} =>
              worker[v].job # j
    BY <1>7, JobDomain DEF MarkFailed, Claims, Held
  <2>2. jobs' = [jobs EXCEPT ![j] = row] /\ worker' = [worker EXCEPT ![w] = free]
    BY <1>7, <2>1 DEF MarkFailed, Release
  <2>3. row \in Job /\ Outcome(jobs[j], row)
    BY <2>1 DEF Job, JobStatus, Outcome
  <2>4. UNCHANGED <<now, holderVars, lastFired, pass>>
    BY <1>7 DEF MarkFailed
  <2> HIDE DEF row, free
  <2>5. QED
    BY <1>01, <2>1, <2>2, <2>3, <2>4, SettleJob
<1>8. QED
  BY <1>1, <1>2, <1>3, <1>4, <1>5, <1>6, <1>7 DEF WorkerStep

\* The Account holder's steps: only disabling touches jobs, and only those that no
\* worker holds.
LEMMA HolderStepInv ==
    ASSUME IInv, HolderStep
    PROVE  IInv'
<1> USE DEF IInv, Shape
<1>1. ASSUME NEW g \in Groups, EnableGroup(g) PROVE IInv'
  <2>1. Shape'
    BY <1>1 DEF EnableGroup
  <2>2. QED
    BY <1>1, <2>1, ElsewhereStep DEF EnableGroup
<1>2. ASSUME NEW g \in Groups, DisableGroup(g) PROVE IInv'
  <2>1. jobs' \in [DOMAIN jobs -> Job]
    BY <1>2, JobDomain DEF DisableGroup, Job, JobStatus
  <2>2. jobs' \in Seq(Job) /\ DOMAIN jobs' = DOMAIN jobs
    BY <2>1, JobTable
  <2>3. \A k \in DOMAIN jobs :
          \/ jobs'[k] = jobs[k]
          \/ /\ jobs[k].status = "pending" /\ ~Held(k)
             /\ jobs'[k].status = "cancelled" /\ jobs'[k].rows = jobs[k].rows
    BY <1>2, JobDomain DEF DisableGroup, Job
  <2>4. worker' = worker
    BY <1>2 DEF DisableGroup
  <2>5. Shape'
    BY <1>2, <2>2, <2>4 DEF DisableGroup
  <2>6. Claims'
    BY <2>2, <2>3, <2>4 DEF Claims, Held
  <2>7. Exclusive'
    BY <2>4 DEF Exclusive
  <2>8. SummarisedOnce'
    BY <2>2, <2>3 DEF SummarisedOnce
  <2>9. QED
    BY <2>5, <2>6, <2>7, <2>8
<1>3. ASSUME NEW g \in Groups, NEW mode \in {"daily", "interval"}, SetSchedule(g, mode) PROVE IInv'
  <2>1. Shape'
    BY <1>3 DEF SetSchedule, ScheduleMode
  <2>2. QED
    BY <1>3, <2>1, ElsewhereStep DEF SetSchedule
<1>4. ASSUME NEW S \in SUBSET Groups, SetBlocked(S) PROVE IInv'
  <2>1. Shape'
    BY <1>4 DEF SetBlocked
  <2>2. QED
    BY <1>4, <2>1, ElsewhereStep DEF SetBlocked
<1>5. QED
  BY <1>1, <1>2, <1>3, <1>4 DEF HolderStep

\* Every step keeps the invariant.
LEMMA NextInv ==
    ASSUME IInv, [Next]_vars
    PROVE  IInv'
<1>1. ASSUME NEW p \in Passes, PassStep(p) PROVE IInv'
  BY <1>1, PassStepInv
<1>2. ASSUME NEW w \in Workers, WorkerStep(w) PROVE IInv'
  BY <1>2, WorkerStepInv
<1>3. ASSUME HolderStep PROVE IInv'
  BY <1>3, HolderStepInv
<1>4. ASSUME NEW m \in Msgs, Send(m) \/ Store(m) PROVE IInv'
  <2>1. Shape'
    BY <1>4 DEF Send, Store, holderVars, IInv, Shape
  <2>2. QED
    BY <1>4, <2>1, ElsewhereStep DEF Send, Store
<1>5. ASSUME Tick PROVE IInv'
  <2>1. Shape'
    BY <1>5, SummariesAssumption DEF Tick, holderVars, IInv, Shape, Time
  <2>2. QED
    BY <1>5, <2>1, ElsewhereStep DEF Tick
<1>6. ASSUME Crash PROVE IInv'
  <2>1. Shape'
    BY <1>6, SummariesAssumption
       DEF Crash, holderVars, IInv, Shape, IdlePass, PassState, IdleWorker, BetweenJobs, Holder, Never,
           Time, ScheduleMode
  <2>2. Claims' /\ Exclusive' /\ SummarisedOnce'
    BY <1>6 DEF Crash, IInv, Claims, Exclusive, SummarisedOnce, IdleWorker, BetweenJobs
  <2>3. QED
    BY <2>1, <2>2 DEF IInv
<1>7. ASSUME UNCHANGED vars PROVE IInv'
  <2>1. Shape'
    BY <1>7 DEF vars, holderVars, IInv, Shape
  <2>2. QED
    BY <1>7, <2>1, ElsewhereStep DEF vars
<1>8. QED
  BY <1>1, <1>2, <1>3, <1>4, <1>5, <1>6, <1>7 DEF Next

\* The inductive invariant holds in every reachable state.
LEMMA SummariesInvariant == Spec => []IInv
<1>1. IInv /\ [Next]_vars => IInv'
  BY NextInv
<1>2. QED
  BY InitInv, <1>1, PTL DEF Spec

\* Overlapping passes, failures, crashes and disabled Groups notwithstanding, a
\* job has at most one summaries row, and only one that ran to the end has any
\* (processSummaryJobs, summarize.ts).
THEOREM OneSummaryPerJob == Spec => []SummarisedOnce
<1>1. IInv => SummarisedOnce
  BY DEF IInv
<1>2. QED
  BY <1>1, SummariesInvariant, PTL

-----------------------------------------------------------------------------
(* The day's credits.                                                      *)

\* The workers that found room and have not stored or failed yet.
Spending(d) == {w \in Workers : worker[w].pc \in {"load", "call"} /\ DayOf(worker[w].at) = d}

\* What is spent and what may still be spent exceed the cap by no more than the
\* workers that were let in while one credit was left.
CreditAt(d) == credits[d] + Cardinality(Spending(d)) <= CreditCap + Cardinality(Workers) - 1

Credited == credits \in [Days -> Nat] /\ \A d \in Days : CreditAt(d)

\* A set within a finite one is finite and not larger.
LEMMA Fewer ==
    ASSUME NEW B, IsFiniteSet(B), NEW A, A \subseteq B
    PROVE  /\ IsFiniteSet(A)
           /\ Cardinality(A) \in Nat /\ Cardinality(B) \in Nat
           /\ Cardinality(A) <= Cardinality(B)
BY FS_Subset, FS_CardinalityType

\* The workers are finitely many and at least one.
LEMMA Spenders ==
    /\ Cardinality(Workers) \in Nat /\ Cardinality(Workers) >= 1
    /\ \A d : /\ IsFiniteSet(Spending(d)) /\ Cardinality(Spending(d)) \in Nat
              /\ Cardinality(Spending(d)) <= Cardinality(Workers)
<1>1. IsFiniteSet(Workers) /\ Workers # {}
  BY OverlapAssumption DEF OverlapAssumption
<1>2. Cardinality(Workers) \in Nat /\ Cardinality(Workers) # 0
  BY <1>1, FS_CardinalityType, FS_EmptySet
<1>3. \A d : Spending(d) \subseteq Workers
  BY DEF Spending
<1>4. \A d : /\ IsFiniteSet(Spending(d)) /\ Cardinality(Spending(d)) \in Nat
             /\ Cardinality(Spending(d)) <= Cardinality(Workers)
  BY <1>1, <1>3, Fewer
<1>5. QED
  BY <1>2, <1>4

\* Fewer workers that may spend on a day on which nothing was spent.
LEMMA CreditEases ==
    ASSUME Credited, NEW d \in Days, credits'[d] = credits[d], Spending(d)' \subseteq Spending(d)
    PROVE  CreditAt(d)'
<1>1. IsFiniteSet(Spending(d))
  BY Spenders
<1>2. /\ Cardinality(Spending(d)') \in Nat /\ Cardinality(Spending(d)) \in Nat
      /\ Cardinality(Spending(d)') <= Cardinality(Spending(d))
  BY <1>1, Fewer
<1>3. CreditCap \in Nat /\ Cardinality(Workers) \in Nat /\ credits[d] \in Nat
  BY SummariesAssumption, Spenders DEF Credited
<1>4. credits'[d] + Cardinality(Spending(d)') <= CreditCap + Cardinality(Workers) - 1
  BY <1>2, <1>3 DEF Credited, CreditAt
<1>5. QED
  BY <1>4 DEF CreditAt

\* A step after which no further worker may spend and nothing more is spent.
LEMMA CreditedStays ==
    ASSUME Credited, credits' = credits,
           \A w \in Workers : worker'[w].pc \in {"load", "call"} =>
               worker[w].pc \in {"load", "call"} /\ worker'[w].at = worker[w].at
    PROVE  Credited'
<1>1. ASSUME NEW d \in Days PROVE CreditAt(d)'
  <2>1. Spending(d)' \subseteq Spending(d)
    BY DEF Spending
  <2>2. QED
    BY <2>1, CreditEases
<1>2. QED
  BY <1>1 DEF Credited

\* The steps of a summary pass: a credit is counted before it is spent.
LEMMA WorkerCredited ==
    ASSUME IInv, Credited, NEW w \in Workers, WorkerStep(w)
    PROVE  Credited'
<1> DEFINE free == BetweenJobs(worker[w].skip)
<1>0. worker \in [Workers -> Holder] /\ free.pc = "idle"
  BY DEF IInv, Shape, BetweenJobs
<1>1. ASSUME Claim(w) PROVE Credited'
  <2>1. /\ \A v \in Workers \ {w} : worker'[v] = worker[v]
        /\ worker'[w].pc = "check" /\ credits' = credits
    BY <1>0, <1>1 DEF Claim, Holder
  <2>2. QED
    BY <2>1, CreditedStays
<1>2. ASSUME EndWorkerPass(w) PROVE Credited'
  <2>1. /\ \A v \in Workers \ {w} : worker'[v] = worker[v]
        /\ worker'[w].pc = "idle" /\ credits' = credits
    BY <1>0, <1>2 DEF EndWorkerPass, IdleWorker, BetweenJobs
  <2>2. QED
    BY <2>1, CreditedStays
<1>3. ASSUME CheckBlock(w) PROVE Credited'
  <2>1. credits' = credits
    BY <1>3 DEF CheckBlock
  <2>2. CASE ~OverCredits(worker[w].at) /\ worker' = [worker EXCEPT ![w].pc = "load"]
    <3>1. /\ \A v \in Workers \ {w} : worker'[v] = worker[v]
          /\ worker'[w].pc = "load" /\ worker'[w].at = worker[w].at
      BY <1>0, <2>2 DEF Holder
    <3>2. ASSUME NEW d \in Days PROVE CreditAt(d)'
      <4>1. CASE DayOf(worker[w].at) = d
        <5>1. ~(credits[d] >= CreditCap)
          BY <2>2, <4>1 DEF OverCredits
        <5>2. credits[d] \in Nat /\ CreditCap \in Nat
          BY SummariesAssumption DEF Credited
        <5>3. /\ Cardinality(Spending(d)') \in Nat /\ Cardinality(Workers) \in Nat
              /\ Cardinality(Spending(d)') <= Cardinality(Workers)
          <6>1. Spending(d)' \subseteq Workers /\ IsFiniteSet(Workers)
            BY OverlapAssumption DEF OverlapAssumption, Spending
          <6>2. QED
            BY <6>1, Fewer
        <5>4. credits'[d] + Cardinality(Spending(d)') <= CreditCap + Cardinality(Workers) - 1
          BY <2>1, <5>1, <5>2, <5>3
        <5>5. QED
          BY <5>4 DEF CreditAt
      <4>2. CASE DayOf(worker[w].at) # d
        <5>1. Spending(d)' \subseteq Spending(d)
          BY <3>1, <4>2 DEF Spending
        <5>2. QED
          BY <2>1, <5>1, CreditEases
      <4>3. QED
        BY <4>1, <4>2
    <3>3. QED
      BY <2>1, <3>2 DEF Credited
  <2>3. CASE \E S : worker' = [worker EXCEPT ![w] = BetweenJobs(S)]
    <3>1. PICK S : worker' = [worker EXCEPT ![w] = BetweenJobs(S)]
      BY <2>3
    <3>2. (\A v \in Workers \ {w} : worker'[v] = worker[v]) /\ worker'[w].pc = "idle"
      BY <1>0, <3>1 DEF BetweenJobs
    <3>3. QED
      BY <2>1, <3>2, CreditedStays
  <2>4. QED
    BY <1>3, <2>2, <2>3 DEF CheckBlock, Release
<1>4. ASSUME LoadBatch(w) PROVE Credited'
  <2> DEFINE empty == ~\E m \in stored \ FromMe :
                         InWindow(m, jobs[worker[w].job].group, jobs[worker[w].job].from,
                                  jobs[worker[w].job].to)
  <2>1. /\ worker' = [worker EXCEPT ![w].pc = "call", ![w].empty = empty]
        /\ credits' = credits /\ worker[w].pc = "load"
    BY <1>4 DEF LoadBatch
  <2> HIDE DEF empty
  <2>2. /\ \A v \in Workers \ {w} : worker'[v] = worker[v]
        /\ worker'[w].at = worker[w].at
    BY <1>0, <2>1 DEF Holder
  <2>3. QED
    BY <2>1, <2>2, CreditedStays
<1>5. ASSUME StoreSummary(w) PROVE Credited'
  <2> DEFINE day == DayOf(worker[w].at)
  <2>1. /\ worker[w].pc = "call" /\ worker' = [worker EXCEPT ![w] = free]
        /\ credits' = IF worker[w].empty THEN credits ELSE [credits EXCEPT ![day] = @ + 1]
    BY <1>5 DEF StoreSummary, Release
  <2>2. (\A v \in Workers \ {w} : worker'[v] = worker[v]) /\ worker'[w].pc = "idle"
    BY <1>0, <2>1
  <2> HIDE DEF day
  <2>3. credits' \in [Days -> Nat]
    <3>1. \A d \in Days : credits[d] \in Nat /\ credits[d] + 1 \in Nat
      BY DEF Credited
    <3>2. credits \in [Days -> Nat]
      BY DEF Credited
    <3>3. CASE credits' = [credits EXCEPT ![day] = credits[day] + 1]
      BY <3>1, <3>2, <3>3
    <3>4. QED
      BY <2>1, <3>2, <3>3
  <2>4. ASSUME NEW d \in Days PROVE CreditAt(d)'
    <3>1. Spending(d)' \subseteq Spending(d)
      BY <2>2 DEF Spending
    <3>2. CASE day # d \/ worker[w].empty
      <4>1. credits'[d] = credits[d]
        BY <2>1, <3>2 DEF Credited
      <4>2. QED
        BY <3>1, <4>1, CreditEases
    <3>3. CASE day = d /\ ~worker[w].empty
      <4>1. credits'[d] = credits[d] + 1 /\ credits[d] \in Nat
        BY <2>1, <3>3 DEF Credited
      <4>2. w \in Spending(d) /\ Spending(d)' = Spending(d) \ {w}
        BY <2>1, <2>2, <3>3 DEF Spending, day
      <4>3. IsFiniteSet(Spending(d)) /\ Cardinality(Spending(d)) \in Nat
        BY Spenders
      <4>4. Cardinality(Spending(d)') = Cardinality(Spending(d)) - 1
        BY <4>2, <4>3, FS_RemoveElement
      <4>5. CreditCap \in Nat /\ Cardinality(Workers) \in Nat
        BY SummariesAssumption, Spenders
      <4>6. credits'[d] + Cardinality(Spending(d)') <= CreditCap + Cardinality(Workers) - 1
        BY <4>1, <4>3, <4>4, <4>5 DEF Credited, CreditAt
      <4>7. QED
        BY <4>6 DEF CreditAt
    <3>4. QED
      BY <3>2, <3>3
  <2>5. QED
    BY <2>3, <2>4 DEF Credited
<1>6. ASSUME JobThrows(w) PROVE Credited'
  <2>1. /\ \A v \in Workers \ {w} : worker'[v] = worker[v]
        /\ worker'[w].pc = "mark" /\ credits' = credits
    BY <1>0, <1>6 DEF JobThrows, Holder
  <2>2. QED
    BY <2>1, CreditedStays
<1>7. ASSUME MarkFailed(w) PROVE Credited'
  <2>1. credits' = credits /\ worker' = [worker EXCEPT ![w] = free]
    BY <1>7 DEF MarkFailed, Release
  <2>2. (\A v \in Workers \ {w} : worker'[v] = worker[v]) /\ worker'[w].pc = "idle"
    BY <1>0, <2>1
  <2>3. QED
    BY <2>1, <2>2, CreditedStays
<1>8. QED
  BY <1>1, <1>2, <1>3, <1>4, <1>5, <1>6, <1>7 DEF WorkerStep

\* Everybody else leaves workers and credits alone.
LEMMA OthersCredited ==
    ASSUME Credited, UNCHANGED <<worker, credits>>
    PROVE  Credited'
BY CreditedStays

\* Every step of the system.
LEMMA NextCredited ==
    ASSUME IInv, Credited, [Next]_vars
    PROVE  Credited'
<1>1. ASSUME NEW p \in Passes, PassStep(p) PROVE Credited'
  <2>1. UNCHANGED <<worker, credits>>
    BY <1>1 DEF PassStep, StartPass, EndPass, Visit, Fire, CountMessages, InsertJob
  <2>2. QED
    BY <2>1, OthersCredited
<1>2. ASSUME HolderStep PROVE Credited'
  <2>1. UNCHANGED <<worker, credits>>
    BY <1>2 DEF HolderStep, EnableGroup, DisableGroup, SetSchedule, SetBlocked
  <2>2. QED
    BY <2>1, OthersCredited
<1>3. ASSUME NEW m \in Msgs, Send(m) \/ Store(m) PROVE Credited'
  <2>1. UNCHANGED <<worker, credits>>
    BY <1>3 DEF Send, Store
  <2>2. QED
    BY <2>1, OthersCredited
<1>4. ASSUME Tick PROVE Credited'
  BY <1>4, OthersCredited DEF Tick
<1>5. ASSUME Crash PROVE Credited'
  <2>1. credits' = credits /\ \A w \in Workers : worker'[w].pc = "idle"
    BY <1>5 DEF Crash, IdleWorker, BetweenJobs
  <2>2. QED
    BY <2>1, CreditedStays
<1>6. ASSUME UNCHANGED vars PROVE Credited'
  BY <1>6, OthersCredited DEF vars
<1>7. QED
  BY <1>1, <1>2, <1>3, <1>4, <1>5, <1>6, WorkerCredited DEF Next

\* The daily Summary credits (block.ts, credits_today) are exceeded by at most one
\* Summary for each other pass that counted before any of them inserted
\* (processSummaryJobs, summarize.ts).
THEOREM CreditsBounded == Spec => []CreditOverrunBounded
<1>1. Init => Credited
  <2> SUFFICES ASSUME Init PROVE Credited
    OBVIOUS
  <2>1. credits \in [Days -> Nat]
    BY DEF Init
  <2>2. ASSUME NEW d \in Days PROVE CreditAt(d)
    <3>1. Spending(d) = {} /\ credits[d] = 0
      BY <2>2 DEF Init, Spending, IdleWorker, BetweenJobs
    <3>2. Cardinality(Spending(d)) = 0
      BY <3>1, FS_EmptySet
    <3>3. QED
      BY <3>1, <3>2, SummariesAssumption, Spenders DEF CreditAt
  <2>3. QED
    BY <2>1, <2>2 DEF Credited
<1>2. Credited => CreditOverrunBounded
  <2> SUFFICES ASSUME Credited, NEW d \in Days
               PROVE  credits[d] <= CreditCap + Cardinality(Workers) - 1
    BY DEF CreditOverrunBounded
  <2>1. CreditCap \in Nat /\ credits[d] \in Nat
    BY SummariesAssumption DEF Credited
  <2>2. QED
    BY <2>1, Spenders DEF Credited, CreditAt
<1>3. QED
  BY SummariesInvariant, <1>1, <1>2, NextCredited, PTL DEF Spec

-----------------------------------------------------------------------------
(* What passes and workers do to the table of jobs.                        *)

\* The jobs that were there are there, with their Groups and windows, and none
\* is pending again.
JobsStand ==
    /\ DOMAIN jobs' = DOMAIN jobs
    /\ \A j \in DOMAIN jobs :
          /\ jobs'[j].group = jobs[j].group
          /\ jobs'[j].from = jobs[j].from /\ jobs'[j].to = jobs[j].to
          /\ jobs'[j].status = "pending" => jobs[j].status = "pending"

\* A summary pass only settles jobs.
LEMMA WorkerLeavesJobs ==
    ASSUME IInv, NEW w \in Workers, WorkerStep(w)
    PROVE  JobsStand
<1> USE DEF IInv, Shape
<1> DEFINE j == worker[w].job
<1>0. \A k \in DOMAIN jobs : jobs[k] \in Job
  BY JobDomain
<1>1. ASSUME NEW k \in DOMAIN jobs, NEW row \in Job, jobs' = [jobs EXCEPT ![k] = row],
             row.group = jobs[k].group, row.from = jobs[k].from, row.to = jobs[k].to,
             row.status = "pending" => jobs[k].status = "pending"
      PROVE  JobsStand
  BY <1>1 DEF JobsStand
<1>2. CASE jobs' = jobs
  BY <1>2 DEF JobsStand
<1>3. ASSUME NEW status \in {"capped", "failed"}, j \in DOMAIN jobs,
             jobs' = [jobs EXCEPT ![j].status = status]
      PROVE  JobsStand
  <2> DEFINE row == [jobs[j] EXCEPT !.status = status]
  <2>1. /\ row \in Job /\ row.group = jobs[j].group /\ row.from = jobs[j].from
        /\ row.to = jobs[j].to /\ row.status = status
    BY <1>0, <1>3 DEF Job, JobStatus
  <2>2. jobs' = [jobs EXCEPT ![j] = row]
    BY <1>3
  <2> HIDE DEF row
  <2>3. QED
    BY <1>1, <1>3, <2>1, <2>2
<1>4. ASSUME StoreSummary(w) PROVE JobsStand
  <2> DEFINE n == jobs[j].rows + 1
             row == [jobs[j] EXCEPT !.status = "done", !.rows = n]
  <2>1. j \in DOMAIN jobs
    BY <1>4 DEF StoreSummary, Claims
  <2>2. jobs' = [jobs EXCEPT ![j] = row]
    BY <1>4, <2>1 DEF StoreSummary
  <2>3. n \in Nat
    BY <1>0, <2>1 DEF Job
  <2> HIDE DEF n
  <2>4. /\ row \in Job /\ row.group = jobs[j].group /\ row.from = jobs[j].from
        /\ row.to = jobs[j].to /\ row.status = "done"
    BY <1>0, <2>1, <2>3 DEF Job, JobStatus
  <2> HIDE DEF row
  <2>5. QED
    BY <1>1, <2>1, <2>2, <2>4
<1>5. ASSUME CheckBlock(w) PROVE JobsStand
  <2>1. j \in DOMAIN jobs
    BY <1>5 DEF CheckBlock, Claims
  <2>2. jobs' = jobs \/ jobs' = [jobs EXCEPT ![j].status = "capped"]
    BY <1>5 DEF CheckBlock
  <2>3. QED
    BY <1>2, <1>3, <2>1, <2>2
<1>6. ASSUME MarkFailed(w) PROVE JobsStand
  <2>1. j \in DOMAIN jobs /\ jobs' = [jobs EXCEPT ![j].status = "failed"]
    BY <1>6 DEF MarkFailed, Claims
  <2>2. QED
    BY <1>3, <2>1
<1>7. ASSUME Claim(w) \/ EndWorkerPass(w) \/ LoadBatch(w) \/ JobThrows(w) PROVE JobsStand
  BY <1>2, <1>7 DEF Claim, EndWorkerPass, LoadBatch, JobThrows
<1>8. QED
  BY <1>4, <1>5, <1>6, <1>7 DEF WorkerStep

\* Disabling a Group cancels what is pending for it.
LEMMA DisableLeavesJobs ==
    ASSUME IInv, NEW g \in Groups, DisableGroup(g)
    PROVE  /\ JobsStand
           /\ \A j \in DOMAIN jobs' : jobs'[j].group = g => jobs'[j].status # "pending"
<1>1. \A k \in DOMAIN jobs : jobs[k] \in Job
  BY JobDomain DEF IInv, Shape
<1>2. jobs' = [j \in DOMAIN jobs |->
                 IF jobs[j].group = g /\ jobs[j].status = "pending"
                   THEN [jobs[j] EXCEPT !.status = "cancelled"] ELSE jobs[j]]
  BY DEF DisableGroup
<1>3. QED
  BY <1>1, <1>2 DEF JobsStand, Job

\* What the SELECT of a pass left it to do, row by row.
LEMMA VisitMoves ==
    ASSUME IInv, NEW p \in Passes, NEW g \in Groups, Visit(p, g)
    PROVE  /\ \A q \in Passes \ {p} : pass'[q] = pass[q]
           /\ pass[p].pc = "visit" /\ g \in pass[p].rows
           /\ pass'[p].rows = pass[p].rows \ {g} /\ pass'[p].on = {g}
           /\ pass'[p].pc \in {"fire", "visit"}
           /\ pass'[p].at = pass[p].at /\ pass'[p].last = pass[p].last
           /\ UNCHANGED <<now, enabled, lastFired, jobs>>
<1> DEFINE pc == IF g \notin blocked /\ Due(pass[p].mode[g], pass[p].last[g], pass[p].at)
                   THEN "fire" ELSE "visit"
           rows == pass[p].rows \ {g}
           row == [pass[p] EXCEPT !.rows = rows, !.on = {g}, !.pc = pc]
<1>1. pass \in [Passes -> PassState]
  BY DEF IInv, Shape
<1>2. pass' = [pass EXCEPT ![p] = row]
  BY DEF Visit
<1>3. pc \in {"fire", "visit"}
  OBVIOUS
<1> HIDE DEF pc, rows
<1>4. /\ row.rows = rows /\ row.on = {g} /\ row.pc = pc
      /\ row.at = pass[p].at /\ row.last = pass[p].last
  BY <1>1 DEF PassState
<1> HIDE DEF row
<1>5. (\A q \in Passes \ {p} : pass'[q] = pass[q]) /\ pass'[p] = row
  BY <1>1, <1>2
<1>6. pass[p].pc = "visit" /\ g \in pass[p].rows /\ UNCHANGED <<now, enabled, lastFired, jobs>>
  BY DEF Visit, holderVars
<1>7. QED
  BY <1>3, <1>4, <1>5, <1>6 DEF rows

\* The steps of a pass that only move its program counter.
LEMMA PcMoves ==
    ASSUME IInv, NEW p \in Passes, NEW pc, pass' = [pass EXCEPT ![p].pc = pc]
    PROVE  /\ \A q \in Passes \ {p} : pass'[q] = pass[q]
           /\ pass'[p].rows = pass[p].rows /\ pass'[p].on = pass[p].on /\ pass'[p].pc = pc
           /\ pass'[p].at = pass[p].at /\ pass'[p].last = pass[p].last
<1>1. pass \in [Passes -> PassState]
  BY DEF IInv, Shape
<1>2. QED
  BY <1>1 DEF PassState

-----------------------------------------------------------------------------
(* A disabled Group falls silent.                                          *)

\* The jobs queued for a Group, and the passes that may still queue one.
Queued(g) == {j \in DOMAIN jobs : jobs[j].group = g /\ jobs[j].status = "pending"}
Reaching(g) ==
    {p \in Passes : \/ g \in pass[p].rows
                    \/ g \in pass[p].on /\ pass[p].pc \in {"fire", "count", "insert"}}

\* A pass has left behind the rows it visited; a disabled Group's jobs and the
\* passes that may still add one are no more than the passes.
Apart == \A p \in Passes : pass[p].on \cap pass[p].rows = {}
SilentAt(g) == Cardinality(Queued(g)) + Cardinality(Reaching(g)) <= Cardinality(Passes)
Silenced == Apart /\ \A g \in Groups \ enabled : SilentAt(g)

\* Both sets are finite.
LEMMA QueuedFinite ==
    ASSUME IInv, NEW g
    PROVE  IsFiniteSet(Queued(g)) /\ Cardinality(Queued(g)) \in Nat
<1>1. DOMAIN jobs = 1 .. Len(jobs) /\ Len(jobs) \in Nat
  BY JobDomain DEF IInv, Shape
<1>2. IsFiniteSet(1 .. Len(jobs))
  BY <1>1, FS_Interval
<1>3. Queued(g) \subseteq 1 .. Len(jobs)
  BY <1>1 DEF Queued
<1>4. QED
  BY <1>2, <1>3, Fewer

LEMMA ReachingFinite ==
    /\ Cardinality(Passes) \in Nat
    /\ \A g : /\ IsFiniteSet(Reaching(g)) /\ Cardinality(Reaching(g)) \in Nat
              /\ Cardinality(Reaching(g)) <= Cardinality(Passes)
<1>1. IsFiniteSet(Passes)
  BY OverlapAssumption DEF OverlapAssumption
<1>2. \A g : Reaching(g) \subseteq Passes
  BY DEF Reaching
<1>3. QED
  BY <1>1, <1>2, Fewer, FS_CardinalityType

\* No more jobs and no more passes that may add one.
LEMMA SilenceEases ==
    ASSUME IInv, NEW g, SilentAt(g), Queued(g)' \subseteq Queued(g),
           Reaching(g)' \subseteq Reaching(g)
    PROVE  SilentAt(g)'
<1>1. /\ Cardinality(Queued(g)') \in Nat /\ Cardinality(Queued(g)) \in Nat
      /\ Cardinality(Queued(g)') <= Cardinality(Queued(g))
  BY QueuedFinite, Fewer
<1>2. /\ Cardinality(Reaching(g)') \in Nat /\ Cardinality(Reaching(g)) \in Nat
      /\ Cardinality(Reaching(g)') <= Cardinality(Reaching(g))
  BY ReachingFinite, Fewer
<1>3. Cardinality(Passes) \in Nat
  BY ReachingFinite
<1>4. Cardinality(Queued(g)') + Cardinality(Reaching(g)') <= Cardinality(Passes)
  BY <1>1, <1>2, <1>3 DEF SilentAt
<1>5. QED
  BY <1>4 DEF SilentAt

\* A step that queues nothing, lets no pass reach further and enables at most.
LEMMA SilencedStays ==
    ASSUME IInv, Silenced, JobsStand, enabled \subseteq enabled', Apart',
           \A g \in Groups \ enabled : Reaching(g)' \subseteq Reaching(g)
    PROVE  Silenced'
<1>1. ASSUME NEW g \in Groups \ enabled' PROVE SilentAt(g)'
  <2>1. Queued(g)' \subseteq Queued(g)
    BY DEF Queued, JobsStand
  <2>2. QED
    BY <2>1, SilenceEases DEF Silenced
<1>2. QED
  BY <1>1 DEF Silenced

\* The same, of a step that leaves the passes alone.
LEMMA SilencedKept ==
    ASSUME IInv, Silenced, JobsStand, enabled \subseteq enabled', pass' = pass
    PROVE  Silenced'
<1>1. Apart' /\ \A g : Reaching(g)' = Reaching(g)
  BY DEF Silenced, Apart, Reaching
<1>2. QED
  BY <1>1, SilencedStays

\* A scheduler pass: it reaches Groups that are enabled as it begins, and each of
\* them once.
LEMMA PassSilenced ==
    ASSUME IInv, Silenced, NEW p \in Passes, PassStep(p)
    PROVE  Silenced'
<1>0. pass \in [Passes -> PassState]
  BY DEF IInv, Shape
<1>1. ASSUME StartPass(p) PROVE Silenced'
  <2> DEFINE row == [pc |-> "visit", rows |-> {g \in enabled : schedule[g] # "none"},
                     on |-> {}, at |-> now, last |-> lastFired, mode |-> schedule]
  <2>1. pass' = [pass EXCEPT ![p] = row] /\ enabled' = enabled /\ jobs' = jobs
    BY <1>1 DEF StartPass, holderVars
  <2>2. row.rows \subseteq enabled /\ row.on = {} /\ row.pc = "visit"
    OBVIOUS
  <2> HIDE DEF row
  <2>3. (\A q \in Passes \ {p} : pass'[q] = pass[q]) /\ pass'[p] = row
    BY <1>0, <2>1
  <2>4. Apart'
    BY <2>2, <2>3 DEF Silenced, Apart
  <2>5. \A g \in Groups \ enabled : Reaching(g)' \subseteq Reaching(g)
    BY <2>2, <2>3 DEF Reaching
  <2>6. QED
    BY <2>1, <2>4, <2>5, SilencedStays DEF JobsStand
<1>2. ASSUME EndPass(p) PROVE Silenced'
  <2>1. pass' = [pass EXCEPT ![p] = IdlePass] /\ enabled' = enabled /\ jobs' = jobs
    BY <1>2 DEF EndPass, holderVars
  <2>2. /\ \A q \in Passes \ {p} : pass'[q] = pass[q]
        /\ pass'[p].rows = {} /\ pass'[p].on = {}
    BY <1>0, <2>1 DEF IdlePass
  <2>3. Apart' /\ \A g : Reaching(g)' \subseteq Reaching(g)
    BY <2>2 DEF Silenced, Apart, Reaching
  <2>4. QED
    BY <2>1, <2>3, SilencedStays DEF JobsStand
<1>3. ASSUME NEW g \in Groups, Visit(p, g) PROVE Silenced'
  <2>1. Apart' /\ \A k : Reaching(k)' \subseteq Reaching(k)
    BY <1>3, VisitMoves DEF Silenced, Apart, Reaching
  <2>2. enabled' = enabled /\ jobs' = jobs
    BY <1>3, VisitMoves
  <2>3. QED
    BY <2>1, <2>2, SilencedStays DEF JobsStand
<1>4. ASSUME Fire(p) PROVE Silenced'
  <2>1. /\ pass[p].pc = "fire" /\ enabled' = enabled /\ jobs' = jobs
        /\ pass' = [pass EXCEPT ![p].pc = "count"]
    BY <1>4 DEF Fire, holderVars
  <2>2. Apart' /\ \A k : Reaching(k)' \subseteq Reaching(k)
    BY <2>1, PcMoves DEF Silenced, Apart, Reaching
  <2>3. QED
    BY <2>1, <2>2, SilencedStays DEF JobsStand
<1>5. ASSUME CountMessages(p) PROVE Silenced'
  <2>1. pass[p].pc = "count" /\ enabled' = enabled /\ jobs' = jobs
    BY <1>5 DEF CountMessages, holderVars
  <2>2. PICK pc \in {"insert", "visit"} : pass' = [pass EXCEPT ![p].pc = pc]
    BY <1>5 DEF CountMessages
  <2>3. /\ \A q \in Passes \ {p} : pass'[q] = pass[q]
        /\ pass'[p].rows = pass[p].rows /\ pass'[p].on = pass[p].on
    BY <2>2, PcMoves
  <2>4. Apart'
    BY <2>3 DEF Silenced, Apart
  <2>5. \A k : Reaching(k)' \subseteq Reaching(k)
    BY <2>1, <2>3 DEF Reaching
  <2>6. QED
    BY <2>1, <2>4, <2>5, SilencedStays DEF JobsStand
<1>6. ASSUME InsertJob(p) PROVE Silenced'
  <2>1. PICK g \in pass[p].on :
          jobs' = Append(jobs, [group |-> g, from |-> pass[p].last[g], to |-> pass[p].at,
                                status |-> "pending", rows |-> 0])
    BY <1>6 DEF InsertJob
  <2>2. /\ pass[p].pc = "insert" /\ enabled' = enabled
        /\ pass' = [pass EXCEPT ![p].pc = "visit"]
    BY <1>6 DEF InsertJob, holderVars
  <2>3. Apart' /\ \A k : Reaching(k)' \subseteq Reaching(k)
    BY <2>2, PcMoves DEF Silenced, Apart, Reaching
  <2>4. p \in Reaching(g) /\ Reaching(g)' = Reaching(g) \ {p}
    <3>1. /\ \A q \in Passes \ {p} : pass'[q] = pass[q]
          /\ pass'[p].rows = pass[p].rows /\ pass'[p].pc = "visit"
      BY <2>2, PcMoves
    <3>2. g \in pass[p].on /\ g \notin pass[p].rows
      BY <2>1 DEF Silenced, Apart
    <3>3. QED
      BY <2>2, <3>1, <3>2 DEF Reaching
  <2>5. jobs \in Seq(Job) /\ Len(jobs) \in Nat /\ DOMAIN jobs = 1 .. Len(jobs)
    BY JobDomain DEF IInv, Shape
  <2>6. /\ DOMAIN jobs' = DOMAIN jobs \cup {Len(jobs) + 1} /\ Len(jobs) + 1 \notin DOMAIN jobs
        /\ \A j \in DOMAIN jobs : jobs'[j] = jobs[j]
        /\ jobs'[Len(jobs) + 1].group = g /\ jobs'[Len(jobs) + 1].status = "pending"
    BY <2>1, <2>5
  <2>7. \A k : k # g => Queued(k)' \subseteq Queued(k)
    BY <2>6 DEF Queued
  <2>8. Queued(g)' = Queued(g) \cup {Len(jobs) + 1}
    BY <2>6 DEF Queued
  <2>9. IsFiniteSet(Queued(g)) /\ Cardinality(Queued(g)) \in Nat
    BY QueuedFinite
  <2>10. Cardinality(Queued(g)') = Cardinality(Queued(g)) + 1
    <3>1. Len(jobs) + 1 \notin Queued(g)
      BY <2>6 DEF Queued
    <3>2. QED
      BY <2>8, <2>9, <3>1, FS_AddElement
  <2>11. IsFiniteSet(Reaching(g)) /\ Cardinality(Reaching(g)) \in Nat /\ Cardinality(Passes) \in Nat
    BY ReachingFinite
  <2>12. Cardinality(Reaching(g)') = Cardinality(Reaching(g)) - 1
    BY <2>4, <2>11, FS_RemoveElement
  <2>13. ASSUME NEW k \in Groups \ enabled' PROVE SilentAt(k)'
    <3>1. CASE k # g
      BY <2>2, <2>3, <2>7, <3>1, SilenceEases DEF Silenced
    <3>2. CASE k = g
      <4>1. SilentAt(g)
        BY <2>2, <3>2 DEF Silenced
      <4>2. Cardinality(Queued(g)') + Cardinality(Reaching(g)') <= Cardinality(Passes)
        BY <2>9, <2>10, <2>11, <2>12, <4>1 DEF SilentAt
      <4>3. QED
        BY <3>2, <4>2 DEF SilentAt
    <3>3. QED
      BY <3>1, <3>2
  <2>14. QED
    BY <2>3, <2>13 DEF Silenced
<1>7. QED
  BY <1>1, <1>2, <1>3, <1>4, <1>5, <1>6 DEF PassStep

\* The holder: a disable begins with nothing queued.
LEMMA HolderSilenced ==
    ASSUME IInv, Silenced, HolderStep
    PROVE  Silenced'
<1>1. ASSUME NEW g \in Groups, EnableGroup(g) PROVE Silenced'
  BY <1>1, SilencedKept DEF EnableGroup, JobsStand
<1>2. ASSUME NEW g \in Groups, DisableGroup(g) PROVE Silenced'
  <2>1. JobsStand /\ \A j \in DOMAIN jobs' : jobs'[j].group = g => jobs'[j].status # "pending"
    BY <1>2, DisableLeavesJobs
  <2>2. enabled' = enabled \ {g} /\ pass' = pass
    BY <1>2 DEF DisableGroup
  <2>3. Apart' /\ \A k : Reaching(k)' = Reaching(k)
    BY <2>2 DEF Silenced, Apart, Reaching
  <2>4. ASSUME NEW k \in Groups \ enabled' PROVE SilentAt(k)'
    <3>1. CASE k = g
      <4>1. Queued(g)' = {}
        BY <2>1 DEF Queued
      <4>2. Cardinality(Queued(g)') = 0
        BY <4>1, FS_EmptySet
      <4>3. Reaching(g)' = Reaching(g)
        BY <2>3
      <4>4. Cardinality(Queued(g)') + Cardinality(Reaching(g)') <= Cardinality(Passes)
        BY <4>2, <4>3, ReachingFinite
      <4>5. QED
        BY <3>1, <4>4 DEF SilentAt
    <3>2. CASE k # g
      <4>1. Queued(k)' \subseteq Queued(k)
        BY <2>1 DEF Queued, JobsStand
      <4>2. k \in Groups \ enabled
        BY <2>2, <3>2
      <4>3. QED
        BY <2>3, <4>1, <4>2, SilenceEases DEF Silenced
    <3>3. QED
      BY <3>1, <3>2
  <2>5. QED
    BY <2>3, <2>4 DEF Silenced
<1>3. ASSUME NEW g \in Groups, NEW mode \in {"daily", "interval"}, SetSchedule(g, mode) PROVE Silenced'
  BY <1>3, SilencedKept DEF SetSchedule, JobsStand
<1>4. ASSUME NEW S \in SUBSET Groups, SetBlocked(S) PROVE Silenced'
  BY <1>4, SilencedKept DEF SetBlocked, JobsStand
<1>5. QED
  BY <1>1, <1>2, <1>3, <1>4 DEF HolderStep

\* Every step of the system.
LEMMA NextSilenced ==
    ASSUME IInv, Silenced, [Next]_vars
    PROVE  Silenced'
<1> USE DEF holderVars
<1>1. ASSUME NEW w \in Workers, WorkerStep(w) PROVE Silenced'
  <2>1. UNCHANGED <<enabled, pass>>
    BY <1>1 DEF WorkerStep, Claim, EndWorkerPass, CheckBlock, LoadBatch, StoreSummary, JobThrows,
                MarkFailed
  <2>2. QED
    BY <1>1, <2>1, WorkerLeavesJobs, SilencedKept
<1>2. ASSUME NEW m \in Msgs, Send(m) \/ Store(m) PROVE Silenced'
  <2>1. UNCHANGED <<enabled, pass, jobs>>
    BY <1>2 DEF Send, Store
  <2>2. QED
    BY <2>1, SilencedKept DEF JobsStand
<1>3. ASSUME Tick PROVE Silenced'
  BY <1>3, SilencedKept DEF Tick, JobsStand
<1>4. ASSUME Crash PROVE Silenced'
  <2>1. UNCHANGED <<enabled, jobs>> /\ \A p \in Passes : pass'[p].rows = {} /\ pass'[p].on = {}
    BY <1>4 DEF Crash, IdlePass
  <2>2. Apart' /\ \A g : Reaching(g)' \subseteq Reaching(g)
    BY <2>1 DEF Apart, Reaching
  <2>3. QED
    BY <2>1, <2>2, SilencedStays DEF JobsStand
<1>5. ASSUME UNCHANGED vars PROVE Silenced'
  BY <1>5, SilencedKept DEF vars, JobsStand
<1>6. QED
  BY <1>1, <1>2, <1>3, <1>4, <1>5, PassSilenced, HolderSilenced DEF Next

\* Init and every step keep it.
LEMMA SilenceInvariant == Spec => []Silenced
<1>1. Init => Silenced
  <2> SUFFICES ASSUME Init PROVE Silenced
    OBVIOUS
  <2>1. Apart
    BY DEF Init, Apart, IdlePass
  <2>2. ASSUME NEW g \in Groups PROVE SilentAt(g)
    <3>1. Reaching(g) = {} /\ Queued(g) = {}
      BY DEF Init, Reaching, Queued, IdlePass
    <3>2. Cardinality(Reaching(g)) = 0 /\ Cardinality(Queued(g)) = 0
      BY <3>1, FS_EmptySet
    <3>3. QED
      BY <3>2, ReachingFinite DEF SilentAt
  <2>3. QED
    BY <2>1, <2>2 DEF Silenced
<1>2. QED
  BY SummariesInvariant, <1>1, NextSilenced, PTL DEF Spec

\* "Disabling also silences an existing schedule" (scheduler.ts:129-130) up to one
\* job for each pass that had read the Group as enabled: setEnabled cancels the
\* rest (subscriptions.ts).
THEOREM DisabledFallsSilent == Spec => []SilenceOverrunBounded
<1>1. IInv /\ Silenced => SilenceOverrunBounded
  <2> SUFFICES ASSUME IInv, Silenced, NEW g \in Groups \ enabled
               PROVE  Cardinality(Queued(g)) <= Cardinality(Passes)
    BY DEF SilenceOverrunBounded, Queued
  <2>1. Cardinality(Queued(g)) \in Nat
    BY QueuedFinite
  <2>2. QED
    BY <2>1, ReachingFinite DEF Silenced, SilentAt
<1>2. QED
  BY SummariesInvariant, SilenceInvariant, <1>1, PTL

-----------------------------------------------------------------------------
(* Windows tile while scheduler passes do not overlap.                     *)

\* A pass knows the last_fired_at of every row it has not fired, and no job of a
\* row it has fired reaches into the window it is closing.
TiledPass(p) ==
    pass[p].pc # "idle" =>
        /\ pass[p].at <= now
        /\ \A g \in Groups : lastFired[g] <= pass[p].at
        /\ \A g \in pass[p].rows : pass[p].last[g] = lastFired[g]
        /\ pass[p].pc = "fire" => \A g \in pass[p].on : pass[p].last[g] = lastFired[g]
        /\ pass[p].pc \in {"count", "insert"} => \A g \in pass[p].on :
              /\ lastFired[g] = pass[p].at
              /\ \A j \in DOMAIN jobs : jobs[j].group = g => jobs[j].to <= pass[p].last[g]

\* No window ends after its Group was last fired, nor that after the clock.
Tiled ==
    /\ WindowsDisjoint
    /\ \A g \in Groups : lastFired[g] <= now
    /\ \A j \in DOMAIN jobs : jobs[j].to <= lastFired[jobs[j].group]
    /\ \A p \in Passes : TiledPass(p)

\* Times are numbers.
LEMMA Times ==
    ASSUME IInv
    PROVE  /\ now \in Nat /\ \A g \in Groups : lastFired[g] \in Nat
           /\ \A p \in Passes : /\ pass[p].at \in Nat
                                /\ \A g \in Groups : pass[p].last[g] \in Nat
                                /\ pass[p].on \subseteq Groups /\ pass[p].rows \subseteq Groups
           /\ \A j \in DOMAIN jobs : /\ jobs[j].group \in Groups
                                     /\ jobs[j].from \in Nat /\ jobs[j].to \in Nat
<1>1. \A j \in DOMAIN jobs : jobs[j] \in Job
  BY JobDomain DEF IInv, Shape
<1>2. Time \subseteq Nat
  BY SummariesAssumption DEF Time
<1>3. now \in Nat /\ \A g \in Groups : lastFired[g] \in Nat
  BY <1>2 DEF IInv, Shape
<1>4. ASSUME NEW p \in Passes
      PROVE  /\ pass[p].at \in Nat /\ pass[p].on \subseteq Groups /\ pass[p].rows \subseteq Groups
             /\ \A g \in Groups : pass[p].last[g] \in Nat
  <2>1. pass[p] \in PassState
    BY DEF IInv, Shape
  <2>2. pass[p].last \in [Groups -> Time] /\ pass[p].at \in Time
    BY <2>1 DEF PassState
  <2>3. pass[p].on \subseteq Groups /\ pass[p].rows \subseteq Groups
    BY <2>1 DEF PassState
  <2>4. QED
    BY <1>2, <2>2, <2>3
<1>5. ASSUME NEW j \in DOMAIN jobs
      PROVE  jobs[j].group \in Groups /\ jobs[j].from \in Nat /\ jobs[j].to \in Nat
  BY <1>1, <1>2 DEF Job
<1>6. QED
  BY <1>3, <1>4, <1>5

\* Steps that leave passes, jobs' windows and last_fired_at alone.
LEMMA TiledStays ==
    ASSUME IInv, Tiled, JobsStand, UNCHANGED <<lastFired, pass>>, now' \in {now, now + 1}
    PROVE  Tiled'
<1>1. WindowsDisjoint'
  BY DEF Tiled, WindowsDisjoint, JobsStand
<1>2. \A g \in Groups : lastFired'[g] <= now'
  BY Times DEF Tiled
<1>3. \A j \in DOMAIN jobs' : jobs'[j].to <= lastFired'[jobs'[j].group]
  BY DEF Tiled, JobsStand
<1>4. ASSUME NEW p \in Passes PROVE TiledPass(p)'
  BY Times DEF Tiled, TiledPass, JobsStand
<1>5. QED
  BY <1>1, <1>2, <1>3, <1>4 DEF Tiled

\* A step of the only scheduler pass.
LEMMA PassTiled ==
    ASSUME IInv, Apart, Tiled, NEW p \in Passes, Passes = {p}, PassStep(p)
    PROVE  Tiled'
<1>0. pass \in [Passes -> PassState]
  BY DEF IInv, Shape
\* All but Fire and InsertJob only concern the pass itself.
<1>1. ASSUME UNCHANGED <<now, lastFired, jobs>>, TiledPass(p)' PROVE Tiled'
  BY <1>1 DEF Tiled, WindowsDisjoint
<1>2. ASSUME StartPass(p) PROVE Tiled'
  <2>1. /\ pass'[p].at = now /\ pass'[p].last = lastFired /\ pass'[p].pc = "visit"
        /\ UNCHANGED <<now, lastFired, jobs>>
    BY <1>0, <1>2 DEF StartPass
  <2>2. TiledPass(p)'
    BY <2>1, Times DEF Tiled, TiledPass
  <2>3. QED
    BY <1>1, <2>1, <2>2
<1>3. ASSUME EndPass(p) PROVE Tiled'
  <2>1. pass'[p].pc = "idle" /\ UNCHANGED <<now, lastFired, jobs>>
    BY <1>0, <1>3 DEF EndPass, IdlePass
  <2>2. TiledPass(p)'
    BY <2>1 DEF TiledPass
  <2>3. QED
    BY <1>1, <2>1, <2>2
<1>4. ASSUME NEW g \in Groups, Visit(p, g) PROVE Tiled'
  <2>1. TiledPass(p)'
    BY <1>4, VisitMoves DEF Tiled, TiledPass
  <2>2. UNCHANGED <<now, lastFired, jobs>>
    BY <1>4, VisitMoves
  <2>3. QED
    BY <1>1, <2>1, <2>2
<1>5. ASSUME Fire(p) PROVE Tiled'
  <2>1. /\ pass[p].pc = "fire" /\ UNCHANGED <<now, jobs>>
        /\ lastFired' = [g \in Groups |-> IF g \in pass[p].on THEN pass[p].at ELSE lastFired[g]]
        /\ pass' = [pass EXCEPT ![p].pc = "count"]
    BY <1>5 DEF Fire
  <2>2. /\ pass'[p].rows = pass[p].rows /\ pass'[p].on = pass[p].on /\ pass'[p].pc = "count"
        /\ pass'[p].at = pass[p].at /\ pass'[p].last = pass[p].last
    BY <2>1, PcMoves
  <2>3. /\ pass[p].at <= now /\ \A g \in Groups : lastFired[g] <= pass[p].at
        /\ \A g \in pass[p].rows : pass[p].last[g] = lastFired[g]
        /\ \A g \in pass[p].on : pass[p].last[g] = lastFired[g]
    BY <2>1 DEF Tiled, TiledPass
  <2>4. \A g \in Groups : lastFired[g] <= lastFired'[g] /\ lastFired'[g] <= pass[p].at
    BY <2>1, <2>3, Times
  <2>5. \A g \in pass[p].rows : lastFired'[g] = lastFired[g]
    BY <2>1, Times DEF Apart
  <2>6. \A g \in pass[p].on :
           /\ lastFired'[g] = pass[p].at
           /\ \A j \in DOMAIN jobs : jobs[j].group = g => jobs[j].to <= pass[p].last[g]
    BY <2>1, <2>3, Times DEF Tiled
  <2>7. TiledPass(p)'
    BY <2>1, <2>2, <2>3, <2>4, <2>5, <2>6 DEF TiledPass
  <2>8. \A j \in DOMAIN jobs' : jobs'[j].to <= lastFired'[jobs'[j].group]
    <3>1. ASSUME NEW j \in DOMAIN jobs PROVE jobs[j].to <= lastFired'[jobs[j].group]
      <4>1. /\ jobs[j].group \in Groups /\ jobs[j].to \in Nat
            /\ lastFired[jobs[j].group] \in Nat /\ pass[p].at \in Nat
        BY Times
      <4>2. lastFired'[jobs[j].group] \in {lastFired[jobs[j].group], pass[p].at}
        BY <2>1, <4>1
      <4>3. jobs[j].to <= lastFired[jobs[j].group]
        BY DEF Tiled
      <4>4. QED
        BY <2>4, <4>1, <4>2, <4>3
    <3>2. QED
      BY <2>1, <3>1
  <2>9. \A g \in Groups : lastFired'[g] <= now'
    <3>1. ASSUME NEW g \in Groups PROVE lastFired'[g] <= now
      <4>1. lastFired'[g] \in {lastFired[g], pass[p].at}
        BY <2>1
      <4>2. QED
        BY <2>3, <4>1 DEF Tiled
    <3>2. QED
      BY <2>1, <3>1
  <2>10. WindowsDisjoint'
    BY <2>1 DEF Tiled, WindowsDisjoint
  <2>11. QED
    BY <2>7, <2>8, <2>9, <2>10 DEF Tiled
<1>6. ASSUME CountMessages(p) PROVE Tiled'
  <2>1. pass[p].pc = "count" /\ UNCHANGED <<now, lastFired, jobs>>
    BY <1>6 DEF CountMessages
  <2>2. PICK pc \in {"insert", "visit"} : pass' = [pass EXCEPT ![p].pc = pc]
    BY <1>6 DEF CountMessages
  <2>3. /\ pass'[p].rows = pass[p].rows /\ pass'[p].on = pass[p].on
        /\ pass'[p].pc \in {"insert", "visit"}
        /\ pass'[p].at = pass[p].at /\ pass'[p].last = pass[p].last
    BY <2>2, PcMoves
  <2>4. TiledPass(p)'
    BY <2>1, <2>3 DEF Tiled, TiledPass
  <2>5. QED
    BY <1>1, <2>1, <2>4
<1>7. ASSUME InsertJob(p) PROVE Tiled'
  <2>1. PICK g \in pass[p].on :
          jobs' = Append(jobs, [group |-> g, from |-> pass[p].last[g], to |-> pass[p].at,
                                status |-> "pending", rows |-> 0])
    BY <1>7 DEF InsertJob
  <2>2. /\ pass[p].pc = "insert" /\ UNCHANGED <<now, lastFired>>
        /\ pass' = [pass EXCEPT ![p].pc = "visit"]
    BY <1>7 DEF InsertJob
  <2>3. /\ pass'[p].rows = pass[p].rows /\ pass'[p].pc = "visit"
        /\ pass'[p].at = pass[p].at /\ pass'[p].last = pass[p].last
    BY <2>2, PcMoves
  <2>4. TiledPass(p)'
    BY <2>2, <2>3 DEF Tiled, TiledPass
  <2> DEFINE n == Len(jobs) + 1
  <2>5. jobs \in Seq(Job) /\ Len(jobs) \in Nat /\ DOMAIN jobs = 1 .. Len(jobs)
    BY JobDomain DEF IInv, Shape
  <2>6. /\ DOMAIN jobs' = DOMAIN jobs \cup {n} /\ n \notin DOMAIN jobs
        /\ \A j \in DOMAIN jobs : jobs'[j] = jobs[j] /\ j < n
        /\ jobs'[n].group = g /\ jobs'[n].from = pass[p].last[g] /\ jobs'[n].to = pass[p].at
    BY <2>1, <2>5
  <2>7. \A j \in DOMAIN jobs : ~(n < j)
    BY <2>5
  <2> HIDE DEF n
  <2>8. /\ lastFired[g] = pass[p].at
        /\ \A j \in DOMAIN jobs : jobs[j].group = g => jobs[j].to <= pass[p].last[g]
    BY <2>1, <2>2 DEF Tiled, TiledPass
  <2>9. WindowsDisjoint'
    <3> SUFFICES ASSUME NEW j \in DOMAIN jobs', NEW k \in DOMAIN jobs', j < k,
                        jobs'[j].group = jobs'[k].group
                 PROVE  jobs'[j].to <= jobs'[k].from
      BY DEF WindowsDisjoint
    <3>1. CASE j \in DOMAIN jobs /\ k \in DOMAIN jobs
      BY <2>6, <3>1 DEF Tiled, WindowsDisjoint
    <3>2. CASE j \in DOMAIN jobs /\ k = n
      BY <2>6, <2>8, <3>2
    <3>3. j = n => k = n
      BY <2>6, <2>7
    <3>4. j # n \/ k # n
      <4>1. j \in Nat /\ k \in Nat
        BY <2>5, <2>6 DEF n
      <4>2. QED
        BY <4>1
    <3>5. QED
      BY <2>6, <3>1, <3>2, <3>3, <3>4
  <2>10. \A j \in DOMAIN jobs' : jobs'[j].to <= lastFired'[jobs'[j].group]
    BY <2>2, <2>6, <2>8, Times DEF Tiled
  <2>11. \A k \in Groups : lastFired'[k] <= now'
    BY <2>2 DEF Tiled
  <2>12. QED
    BY <2>4, <2>9, <2>10, <2>11 DEF Tiled
<1>8. QED
  BY <1>2, <1>3, <1>4, <1>5, <1>6, <1>7 DEF PassStep

\* Every step of the system.
LEMMA NextTiled ==
    ASSUME IInv, Apart, Tiled, [Next]_vars, \A p, q \in Passes : p = q
    PROVE  Tiled'
<1> USE DEF holderVars
<1>1. ASSUME NEW p \in Passes, PassStep(p) PROVE Tiled'
  <2>1. Passes = {p}
    OBVIOUS
  <2>2. QED
    BY <1>1, <2>1, PassTiled
<1>2. ASSUME NEW w \in Workers, WorkerStep(w) PROVE Tiled'
  <2>1. UNCHANGED <<now, lastFired, pass>>
    BY <1>2 DEF WorkerStep, Claim, EndWorkerPass, CheckBlock, LoadBatch, StoreSummary, JobThrows,
                MarkFailed
  <2>2. QED
    BY <1>2, <2>1, WorkerLeavesJobs, TiledStays
<1>3. ASSUME HolderStep PROVE Tiled'
  <2>1. ASSUME NEW g \in Groups, DisableGroup(g) PROVE Tiled'
    <3>1. UNCHANGED <<now, lastFired, pass>>
      BY <2>1 DEF DisableGroup
    <3>2. QED
      BY <2>1, <3>1, DisableLeavesJobs, TiledStays
  <2>2. ASSUME NEW g \in Groups, EnableGroup(g) PROVE Tiled'
    BY <2>2, TiledStays DEF EnableGroup, JobsStand
  <2>3. ASSUME NEW g \in Groups, NEW mode \in {"daily", "interval"}, SetSchedule(g, mode) PROVE Tiled'
    BY <2>3, TiledStays DEF SetSchedule, JobsStand
  <2>4. ASSUME NEW S \in SUBSET Groups, SetBlocked(S) PROVE Tiled'
    BY <2>4, TiledStays DEF SetBlocked, JobsStand
  <2>5. QED
    BY <1>3, <2>1, <2>2, <2>3, <2>4 DEF HolderStep
<1>4. ASSUME NEW m \in Msgs, Send(m) \/ Store(m) PROVE Tiled'
  <2>1. UNCHANGED <<now, lastFired, pass, jobs>>
    BY <1>4 DEF Send, Store
  <2>2. QED
    BY <2>1, TiledStays DEF JobsStand
<1>5. ASSUME Tick PROVE Tiled'
  BY <1>5, TiledStays DEF Tick, JobsStand
<1>6. ASSUME Crash PROVE Tiled'
  <2>1. UNCHANGED <<now, lastFired, jobs>> /\ \A p \in Passes : pass'[p].pc = "idle"
    BY <1>6 DEF Crash, IdlePass
  <2>2. QED
    BY <2>1 DEF Tiled, WindowsDisjoint, TiledPass
<1>7. ASSUME UNCHANGED vars PROVE Tiled'
  BY <1>7, TiledStays DEF vars, JobsStand
<1>8. QED
  BY <1>1, <1>2, <1>3, <1>4, <1>5, <1>6, <1>7 DEF Next

\* "Windows tile exactly" (scheduler.ts:162-163) as long as no two scheduler passes
\* overlap: whatever the clock, blocks, edits of the schedule, disabled Groups,
\* workers and crashes do, no two jobs of a Group share an instant.
THEOREM WindowsTile ==
    ASSUME \A p, q \in Passes : p = q
    PROVE  Spec => []WindowsDisjoint
<1>1. Init => Tiled
  <2>1. Init => DOMAIN jobs = {} /\ \A p \in Passes : pass[p].pc = "idle"
    BY DEF Init, IdlePass
  <2>2. Init => \A g \in Groups : lastFired[g] <= now
    BY DEF Init, Never
  <2>3. QED
    BY <2>1, <2>2 DEF Tiled, WindowsDisjoint, TiledPass
<1>2. IInv /\ Silenced /\ Tiled /\ [Next]_vars => Tiled'
  BY NextTiled DEF Silenced
<1>3. Tiled => WindowsDisjoint
  BY DEF Tiled
<1>4. QED
  BY SummariesInvariant, SilenceInvariant, <1>1, <1>2, <1>3, PTL DEF Spec

-----------------------------------------------------------------------------
(* No message is left out while passes do not overlap and nothing crashes. *)

\* A message is in the window of a job, or of the job a pass may be about to queue.
Covered(m) == \E j \in DOMAIN jobs : InWindow(m, jobs[j].group, jobs[j].from, jobs[j].to)
Closing(m) ==
    \E p \in Passes, g \in Groups :
        /\ pass[p].pc \in {"count", "insert"} /\ pass[p].on = {g}
        /\ InWindow(m, g, pass[p].last[g], pass[p].at)

\* A pass works on one row at a time.
OneRow == \A p \in Passes : pass[p].pc \in {"fire", "count", "insert"} => \E g \in Groups : pass[p].on = {g}

MessagesTyped ==
    /\ now # Never
    /\ sentAt \in [Msgs -> Time] /\ stored \subseteq Msgs
    /\ \A m \in stored : sentAt[m] # Never

\* A message that was in time for its window is queued or about to be.
InTimeQueued ==
    \A m \in stored \ late : sentAt[m] <= lastFired[GroupOf[m]] => Covered(m) \/ Closing(m)

QueuedInv == OneRow /\ MessagesTyped /\ InTimeQueued

\* A message's time and its Group's last_fired_at are numbers.
LEMMA MessageTimes ==
    ASSUME IInv, MessagesTyped, NEW m \in stored
    PROVE  /\ sentAt[m] \in Nat /\ GroupOf[m] \in Groups /\ lastFired[GroupOf[m]] \in Nat
           /\ m \in Msgs
<1>1. m \in Msgs /\ GroupOf[m] \in Groups
  BY SummariesAssumption DEF MessagesTyped
<1>2. Time \subseteq Nat
  BY SummariesAssumption DEF Time
<1> QED
  BY <1>1, <1>2, Times DEF MessagesTyped

\* Steps that leave passes, messages, jobs' windows and last_fired_at alone.
LEMMA QueuedStays ==
    ASSUME IInv, QueuedInv, JobsStand, UNCHANGED <<lastFired, pass, sentAt, stored, late>>,
           now' \in {now, now + 1}
    PROVE  QueuedInv'
<1>1. OneRow' /\ MessagesTyped'
  BY Times DEF QueuedInv, OneRow, MessagesTyped, Never
<1>2. ASSUME NEW m \in stored
      PROVE  (Covered(m) => Covered(m)') /\ (Closing(m) => Closing(m)')
  BY DEF Covered, Closing, InWindow, JobsStand
<1>3. InTimeQueued'
  BY <1>2 DEF QueuedInv, InTimeQueued
<1> QED
  BY <1>1, <1>3 DEF QueuedInv

\* A message in a job's window stays in it while jobs are only added.
LEMMA CoveredStays ==
    ASSUME NEW m, Covered(m), sentAt' = sentAt, DOMAIN jobs \subseteq DOMAIN jobs',
           \A j \in DOMAIN jobs : jobs'[j] = jobs[j]
    PROVE  Covered(m)'
BY DEF Covered, InWindow

\* A step of the only scheduler pass.
LEMMA PassQueues ==
    ASSUME IInv, Tiled, QueuedInv, NEW p \in Passes, Passes = {p}, PassStep(p)
    PROVE  QueuedInv'
<1>0. pass \in [Passes -> PassState] /\ OneRow /\ MessagesTyped
  BY DEF IInv, Shape, QueuedInv
<1>1. UNCHANGED <<now, sentAt, stored, late>> /\ MessagesTyped'
  BY DEF PassStep, StartPass, EndPass, Visit, Fire, CountMessages, InsertJob, messageVars,
         QueuedInv, MessagesTyped
<1>2. ASSUME UNCHANGED <<lastFired, jobs>>, pass[p].pc \notin {"count", "insert"}, OneRow'
      PROVE  QueuedInv'
  <2>1. \A m : ~ Closing(m)
    BY <1>2 DEF Closing
  <2>2. InTimeQueued'
    BY <1>1, <1>2, <2>1, CoveredStays DEF QueuedInv, InTimeQueued
  <2> QED
    BY <1>1, <1>2, <2>2 DEF QueuedInv
<1>3. CASE StartPass(p) \/ EndPass(p)
  <2>1. /\ UNCHANGED <<lastFired, jobs>> /\ pass[p].pc \notin {"count", "insert"}
        /\ pass'[p].pc \in {"visit", "idle"}
    BY <1>0, <1>3 DEF StartPass, EndPass, IdlePass
  <2>2. OneRow'
    BY <2>1 DEF OneRow
  <2> QED
    BY <1>2, <2>1, <2>2
<1>4. ASSUME NEW g \in Groups, Visit(p, g) PROVE QueuedInv'
  <2>1. OneRow'
    BY <1>4, VisitMoves DEF OneRow
  <2> QED
    BY <1>2, <1>4, <2>1, VisitMoves
<1>5. CASE Fire(p)
  <2>1. PICK g \in Groups : pass[p].on = {g}
    BY <1>0, <1>5 DEF Fire, OneRow
  <2>2. /\ pass[p].pc = "fire" /\ UNCHANGED <<now, jobs>>
        /\ lastFired' = [h \in Groups |-> IF h \in pass[p].on THEN pass[p].at ELSE lastFired[h]]
        /\ pass' = [pass EXCEPT ![p].pc = "count"]
    BY <1>5 DEF Fire
  <2>3. /\ pass'[p].on = {g} /\ pass'[p].pc = "count"
        /\ pass'[p].at = pass[p].at /\ pass'[p].last = pass[p].last
    BY <2>1, <2>2, PcMoves
  <2>4. pass[p].last[g] = lastFired[g]
    BY <2>1, <2>2 DEF Tiled, TiledPass
  <2>5. OneRow'
    BY <2>3 DEF OneRow
  <2>6. ASSUME NEW m \in stored \ late, sentAt[m] <= lastFired'[GroupOf[m]]
        PROVE  Covered(m)' \/ Closing(m)'
    <3>1. /\ sentAt[m] \in Nat /\ GroupOf[m] \in Groups /\ lastFired[GroupOf[m]] \in Nat
      BY <1>0, MessageTimes
    <3>2. CASE sentAt[m] <= lastFired[GroupOf[m]]
      <4>1. ~ Closing(m)
        BY <2>2 DEF Closing
      <4>2. Covered(m)
        BY <3>2, <4>1 DEF QueuedInv, InTimeQueued
      <4> QED
        BY <1>1, <2>2, <4>2, CoveredStays
    <3>3. CASE ~ (sentAt[m] <= lastFired[GroupOf[m]])
      <4>1. GroupOf[m] = g /\ sentAt[m] <= pass[p].at
        BY <2>1, <2>2, <2>6, <3>1, <3>3
      <4>2. pass[p].last[g] < sentAt[m]
        BY <2>4, <3>1, <3>3, <4>1
      <4>3. InWindow(m, g, pass[p].last[g], pass[p].at)'
        BY <1>1, <2>3, <4>1, <4>2 DEF InWindow
      <4> QED
        BY <2>3, <4>3 DEF Closing
    <3> QED
      BY <3>2, <3>3
  <2>7. InTimeQueued'
    BY <1>1, <2>6 DEF InTimeQueued
  <2> QED
    BY <1>1, <2>5, <2>7 DEF QueuedInv
<1>6. CASE CountMessages(p)
  <2>1. PICK g \in Groups : pass[p].on = {g}
    BY <1>0, <1>6 DEF CountMessages, OneRow
  <2> DEFINE full == \E m \in stored : InWindow(m, g, pass[p].last[g], pass[p].at)
             pc == IF full THEN "insert" ELSE "visit"
  <2>2. pass' = [pass EXCEPT ![p].pc = pc] /\ UNCHANGED <<lastFired, jobs>> /\ pass[p].pc = "count"
    BY <1>6, <2>1 DEF CountMessages
  <2>3. /\ pass'[p].on = {g} /\ pass'[p].pc = pc
        /\ pass'[p].at = pass[p].at /\ pass'[p].last = pass[p].last
    BY <2>1, <2>2, PcMoves
  <2>4. OneRow'
    BY <2>3 DEF OneRow
  <2>5. ASSUME NEW m \in stored, Closing(m)
        PROVE  Closing(m)'
    <3>1. InWindow(m, g, pass[p].last[g], pass[p].at)
      BY <2>1, <2>5 DEF Closing
    <3>2. pc = "insert"
      BY <3>1
    <3>3. InWindow(m, g, pass[p].last[g], pass[p].at)'
      BY <1>1, <2>3, <3>1 DEF InWindow
    <3> HIDE DEF pc
    <3> QED
      BY <2>3, <3>2, <3>3 DEF Closing
  <2>6. InTimeQueued'
    BY <1>1, <2>2, <2>5, CoveredStays DEF QueuedInv, InTimeQueued
  <2> QED
    BY <1>1, <2>4, <2>6 DEF QueuedInv
<1>7. CASE InsertJob(p)
  <2>1. PICK g \in pass[p].on :
          jobs' = Append(jobs, [group |-> g, from |-> pass[p].last[g], to |-> pass[p].at,
                                status |-> "pending", rows |-> 0])
    BY <1>7 DEF InsertJob
  <2>2. pass[p].pc = "insert" /\ lastFired' = lastFired /\ pass' = [pass EXCEPT ![p].pc = "visit"]
    BY <1>7 DEF InsertJob
  <2>3. pass'[p].pc = "visit"
    BY <2>2, PcMoves
  <2>4. OneRow'
    BY <2>3 DEF OneRow
  <2> DEFINE n == Len(jobs) + 1
  <2>5. jobs \in Seq(Job) /\ Len(jobs) \in Nat /\ DOMAIN jobs = 1 .. Len(jobs)
    BY JobDomain DEF IInv, Shape
  <2>6. /\ DOMAIN jobs' = DOMAIN jobs \cup {n}
        /\ \A j \in DOMAIN jobs : jobs'[j] = jobs[j]
        /\ jobs'[n].group = g /\ jobs'[n].from = pass[p].last[g] /\ jobs'[n].to = pass[p].at
    BY <2>1, <2>5
  <2> HIDE DEF n
  <2>7. ASSUME NEW m \in stored, Closing(m)
        PROVE  Covered(m)'
    <3>1. InWindow(m, g, pass[p].last[g], pass[p].at)
      BY <2>1, <2>7 DEF Closing
    <3> QED
      BY <1>1, <2>6, <3>1 DEF Covered, InWindow
  <2>8. InTimeQueued'
    BY <1>1, <2>2, <2>6, <2>7, CoveredStays DEF QueuedInv, InTimeQueued
  <2> QED
    BY <1>1, <2>4, <2>8 DEF QueuedInv
<1> QED
  BY <1>3, <1>4, <1>5, <1>6, <1>7 DEF PassStep

\* A message that is written or stored is late, or its window is still open.
LEMMA MessageQueues ==
    ASSUME IInv, Tiled, QueuedInv, NEW m \in Msgs, Send(m) \/ Store(m)
    PROVE  QueuedInv'
<1>0. sentAt \in [Msgs -> Time] /\ stored \subseteq Msgs /\ now \in Time /\ now # Never
  BY DEF QueuedInv, MessagesTyped, IInv, Shape
<1>1. UNCHANGED <<now, lastFired, jobs, pass>> /\ OneRow'
  BY DEF Send, Store, QueuedInv, OneRow
<1>2. ASSUME NEW n \in stored, sentAt'[n] = sentAt[n]
      PROVE  (Covered(n) => Covered(n)') /\ (Closing(n) => Closing(n)')
  BY <1>1, <1>2 DEF Covered, Closing, InWindow
<1>3. CASE Send(m)
  <2>1. m \notin stored /\ UNCHANGED <<stored, late>>
    BY <1>3 DEF Send, messageVars, QueuedInv, MessagesTyped
  <2>2. \A n \in stored : sentAt'[n] = sentAt[n]
    BY <1>0, <1>3, <2>1 DEF Send
  <2>3. MessagesTyped'
    BY <1>0, <1>1, <1>3, <2>1, <2>2 DEF Send, QueuedInv, MessagesTyped
  <2>4. InTimeQueued'
    BY <1>1, <1>2, <2>1, <2>2 DEF QueuedInv, InTimeQueued
  <2> QED
    BY <1>1, <2>3, <2>4 DEF QueuedInv
<1>4. CASE Store(m)
  <2>1. /\ sentAt' = sentAt /\ stored' = stored \cup {m} /\ sentAt[m] # Never
        /\ late' = IF sentAt[m] <= lastFired[GroupOf[m]] THEN late \cup {m} ELSE late
    BY <1>4 DEF Store
  <2>2. MessagesTyped'
    BY <1>0, <1>1, <2>1 DEF QueuedInv, MessagesTyped
  <2>3. ASSUME NEW n \in stored' \ late', sentAt'[n] <= lastFired'[GroupOf[n]]
        PROVE  Covered(n)' \/ Closing(n)'
    <3>1. n # m
      BY <1>1, <2>1, <2>3
    <3>2. n \in stored \ late
      BY <2>1, <2>3, <3>1
    <3> QED
      BY <1>1, <1>2, <2>1, <2>3, <3>2 DEF QueuedInv, InTimeQueued
  <2>4. InTimeQueued'
    BY <2>3 DEF InTimeQueued
  <2> QED
    BY <1>1, <2>2, <2>4 DEF QueuedInv
<1> QED
  BY <1>3, <1>4

\* Every step of a system that does not crash.
LEMMA NextQueues ==
    ASSUME IInv, Tiled, QueuedInv, [Next]_vars, ~ Crash, \A p, q \in Passes : p = q
    PROVE  QueuedInv'
<1> USE DEF messageVars
<1>1. ASSUME NEW p \in Passes, PassStep(p) PROVE QueuedInv'
  <2>1. Passes = {p}
    OBVIOUS
  <2> QED
    BY <1>1, <2>1, PassQueues
<1>2. ASSUME NEW w \in Workers, WorkerStep(w) PROVE QueuedInv'
  <2>1. UNCHANGED <<now, lastFired, pass, sentAt, stored, late>>
    BY <1>2 DEF WorkerStep, Claim, EndWorkerPass, CheckBlock, LoadBatch, StoreSummary, JobThrows,
                MarkFailed
  <2> QED
    BY <1>2, <2>1, WorkerLeavesJobs, QueuedStays
<1>3. ASSUME HolderStep PROVE QueuedInv'
  <2>1. ASSUME NEW g \in Groups, DisableGroup(g) PROVE QueuedInv'
    <3>1. UNCHANGED <<now, lastFired, pass, sentAt, stored, late>>
      BY <2>1 DEF DisableGroup
    <3> QED
      BY <2>1, <3>1, DisableLeavesJobs, QueuedStays
  <2>2. ASSUME NEW g \in Groups, EnableGroup(g) PROVE QueuedInv'
    BY <2>2, QueuedStays DEF EnableGroup, JobsStand
  <2>3. ASSUME NEW g \in Groups, NEW mode \in {"daily", "interval"}, SetSchedule(g, mode)
        PROVE  QueuedInv'
    BY <2>3, QueuedStays DEF SetSchedule, JobsStand
  <2>4. ASSUME NEW S \in SUBSET Groups, SetBlocked(S) PROVE QueuedInv'
    BY <2>4, QueuedStays DEF SetBlocked, JobsStand
  <2> QED
    BY <1>3, <2>1, <2>2, <2>3, <2>4 DEF HolderStep
<1>4. ASSUME NEW m \in Msgs, Send(m) \/ Store(m) PROVE QueuedInv'
  BY <1>4, MessageQueues
<1>5. ASSUME Tick PROVE QueuedInv'
  BY <1>5, QueuedStays DEF Tick, JobsStand
<1>6. ASSUME UNCHANGED vars PROVE QueuedInv'
  BY <1>6, QueuedStays DEF vars, JobsStand
<1> QED
  BY <1>1, <1>2, <1>3, <1>4, <1>5, <1>6 DEF Next

\* Nothing has crashed.
NoCrashes == crashes = 0

\* "Windows tile exactly" (scheduler.ts:162-163), the other half: as long as no
\* two scheduler passes overlap and the process does not die, a message stored
\* before its window closed is in the window of a job once the pass has moved on.
THEOREM NothingLeftOut ==
    ASSUME \A p, q \in Passes : p = q, MaxCrashes = 0
    PROVE  Spec => []ClosedWindowsQueued
<1>1. Init => Tiled /\ QueuedInv /\ NoCrashes
  <2> SUFFICES ASSUME Init PROVE Tiled /\ QueuedInv /\ NoCrashes
    OBVIOUS
  <2>1. DOMAIN jobs = {} /\ \A p \in Passes : pass[p].pc = "idle"
    BY DEF Init, IdlePass
  <2>2. \A g \in Groups : lastFired[g] <= now
    BY DEF Init, Never
  <2>3. Tiled
    BY <2>1, <2>2 DEF Tiled, WindowsDisjoint, TiledPass
  <2>4. Never \in Time
    BY SummariesAssumption DEF Never, Time
  <2> QED
    BY <2>1, <2>3, <2>4 DEF Never, Init, QueuedInv, OneRow, MessagesTyped, InTimeQueued, NoCrashes
<1>2. NoCrashes /\ [Next]_vars => NoCrashes' /\ ~ Crash
  <2> SUFFICES ASSUME NoCrashes, [Next]_vars PROVE NoCrashes' /\ ~ Crash
    OBVIOUS
  <2>1. ~ Crash
    BY DEF NoCrashes, Crash
  <2>2. crashes' = crashes
    BY <2>1 DEF Next, PassStep, WorkerStep, HolderStep, StartPass, EndPass, Visit, Fire, CountMessages,
            InsertJob, Claim, EndWorkerPass, CheckBlock, LoadBatch, StoreSummary, JobThrows,
            MarkFailed, EnableGroup, DisableGroup, SetSchedule, SetBlocked, Send, Store, Tick, vars
  <2> QED
    BY <2>1, <2>2 DEF NoCrashes
<1>3. IInv /\ Silenced /\ Tiled /\ QueuedInv /\ NoCrashes /\ [Next]_vars
        => Tiled' /\ QueuedInv' /\ NoCrashes'
  BY <1>2, NextTiled, NextQueues DEF Silenced
<1>4. QueuedInv => ClosedWindowsQueued
  BY DEF QueuedInv, InTimeQueued, ClosedWindowsQueued, Covered, Closing
<1> QED
  BY SummariesInvariant, SilenceInvariant, <1>1, <1>3, <1>4, PTL DEF Spec
=============================================================================
