# WALAO in TLA+

WALAO is one TypeScript process over PostgreSQL. A WhatsApp gateway posts
messages to its webhook; bodies are stored, encrypted, for the Groups the
Account holder has enabled; Summaries of each Group's window are written by a
model and, once a day, one message tells the Account what needs attention. This
directory models the parts of it in which order, overlap, crashes and clocks
matter, checks them with TLC and proves some of the results with TLAPS.

Paths below are relative to the repository: `src/ingest.ts` is the file
`src/ingest.ts` of the repository's root (`src/src/ingest.ts` in
`PROJECT.json`).

## 1. The system

`src/server.ts:69-94` runs, every second and without awaiting any of them,
`drainQueue`, `purgeExpired`, `tickScheduler`, `processSummaryJobs`,
`deliverSummaries`, `tickDigests`, `deliverDigests` and `tickPings`. A pass that
takes longer than a second therefore overlaps the next pass of the same kind,
and every pass overlaps web requests and webhooks. There is no other
coordination than PostgreSQL: READ COMMITTED transactions, `FOR UPDATE SKIP
LOCKED`, unique keys and foreign keys. A second timer (ten minutes) backfills
group names, syncs contacts and evicts idle Sessions.

| Component | State | Operations | Talks to | What is hard | What makes it correct |
|---|---|---|---|---|---|
| Webhook ingress (`ingest.ts`) | `ingest_events`, `groups` (registration) | `ingestWebhook` | gateway; Processing Block; Connections | redelivery, erasure of the Account under a request in flight | nothing is queued for a Group that is not enabled; duplicates are absorbed |
| Queue consumer (`consumer.ts`) | `ingest_events.status`, `messages` | `drainQueue`, `processEvent` | block, crypto | overlapping passes, consent read before the store, crash in mid-drain, an event that always throws | stored once, only with consent, nothing accepted is lost |
| Retention (`retention.ts`) | `messages.expires_at` | `purgeExpired`, `setRetentionDays` | consumer stamps the expiry | redelivery of what was purged | purged bodies never come back |
| Erasure and pause (`privacy.ts`) | `users`, cascades, `users.paused` | `deleteGroupData`, `deleteAccount`, `setPaused`, `exportData` | every other component | running drains and workers | no body outlives its Group; a pause is visible as a gap |
| Processing Block and gaps (`block.ts`, `halt.ts`) | `coverage_gaps`, `system_halt`, daily counts | `processingBlock`, `openGap`, `closeGap`, `setHalted` | ingress, consumer, workers, delivery | INSERT ... WHERE NOT EXISTS without a unique index; four owners of one gap | one open gap per Session; lost coverage is flagged; caps hold |
| Connections (`connections.ts`) | `whatsapp_sessions.status` | `createConnection`, `applyGatewayStatus`, `disconnectConnection`, `evictIdleSessions` | gateway, gaps, subscriptions | status events against user actions, halts and pauses | a Session's gaps match its status |
| Group subscriptions (`subscriptions.ts`) | `groups`, `consent_records` | `setEnabled`, `seedGroups`, `adoptGroups`, cap, the repair migration 024 runs at each boot | connections, schedules | re-pairing gives every Group a second row, and rows disagree | consent is only ever the holder's; choices survive re-pairing; the cap is per Group, and rows that are read by nothing are all that is lost to it |
| Scheduler (`scheduler.ts`) | `summary_schedules.last_fired_at`, `summary_jobs` | `tickScheduler`, `setSchedule` | summariser | overlapping passes, crash between two autocommits, edited schedules | windows tile |
| Summariser worker (`summarize.ts`) | `summary_jobs.status`, `summaries`, daily credits | `processSummaryJobs` | model, block | transaction open across a model call, failure path outside it, crash | one Summary per job, credits bounded, jobs settle |
| Daily message (`pick.ts`, `deliver.ts`, `brief.ts`) | `briefs` row per Account and day, `summaries.delivered_at` | `pickForToday`, `deliverSummaries`, `tickDigests`, `deliverDigests` | model, gateway, web page | three writers and a sender on one row, model calls outside any lock, a send that fails after the message left, a COMMIT that fails, a crash between the two | one message per change worth one, repeated only where its transaction was lost; no day without one |
| Items, Reminders and Memories (`surfaces.ts`, `memory.ts`) | `item_states`, `reminders`, `memories` | `setItemState`, `confirmActionItem`, `updateReminder`, `confirmCandidate`, `updateMemory`, `deleteMemory` | Brief, erasure, the 90-day purge of Summaries | every handler awaits between its read and its write; copies outlive what they were copied from | an erasure takes the copies; an edit of one field loses no other |
| Ask (`ask.ts`) | none | `askQuestion`, `validateAnswer` | messages, Summaries, model | two reads, then a call, while Groups are switched and bodies go | it cites what the holder could read |
| Mention pings (`pings.ts`, `limits.ts`) | `mention_pings`, `rate_limits` | `tickPings`, `allow` | consumer, model, gateway | overlapping passes, a throwing picker, a crash after the ping, the hourly ceiling | one ping for a mention; the ceiling caps what is spent; no mention waits for ever |
| Tier 1 outbound (`tier1.ts`) | `outbound_recipients`, `users.tier1_enabled_at` | `enableTier1`, `sendOutbound`, `handleRecipientReply` | gateway, webhook | ambiguous sends, a row claimed, deleted and claimed again by id | nobody is written to before a Yes; a number is asked once |
| Accounts (`accounts.ts`, routes of `app.ts`, `public/signin.js`) | the code and the token in the row of `users`, terms in `attestations` | signup, login, verify, logout | rate limits, mail | a code is read in one statement and spent in another; a signup is three statements | a code that let a browser in lets in nobody later; no session before the terms |
| Account keys (`accounts.ts`, `crypto.ts`) | `users.data_key_wrapped`, the cache of the process | `accountKey`, `forgetAccountKey` | everything that encrypts | the cache is filled inside transactions that may roll back | every stored body stays readable |
| Billing (`billing.ts`) | `users.plan`, trials | `startTrial`, `setPlan`, `cancelPlan` | caps | changes of plan under running work | caps follow the plan |
| Operator console and quality review (`operator.ts`, `quality.ts`, `public/ops.js`) | `operator_sessions`, `quality_reviews`, the opt-in | look-up, Plan form, review queue, reviews | accounts, billing | look-ups and the form overlap on one page; an opt-in is revoked meanwhile | a Plan goes to the Account shown; nobody is listed who has revoked |
| Web client (`public/*.js`) | what each page shows, disabled controls, requests out | the settings controls, the Groups page, Today's rows, the lists, signing in | the HTTP routes | answers fail, get lost, overtake one another; one press writes several rows | a page at rest shows what is stored |
| Routing, start-up, gateway adapter (`app.ts`, `server.ts`, `gateway/*`) | none | routes, the timers, HTTP calls | everything | the timers are why passes overlap | |

## 2. Modules

| Module | Models | Source |
|---|---|---|
| `MessageLife` | the promise: a body is accepted once, kept or dropped, purged or erased for good | consumer, retention |
| `Ingest` | webhook requests, drain passes, retention, erasure, the holder | ingest, consumer, retention, privacy, block, subscriptions |
| `Coverage` | every writer of `coverage_gaps` | block, halt, connections, privacy, ingest, consumer |
| `Summaries` | scheduler passes and worker passes on schedules, jobs and credits | scheduler, summarize, block, subscriptions |
| `Groups` | an Account's Groups across re-pairing: adoption, enabling, the cap, boots | subscriptions, connections, billing, block, migration 024 |
| `Digest` | picks, digest clock and senders on one day's `briefs` row | pick, deliver, surfaces |
| `Pings` | overlapping passes over `mention_pings`, the hourly ceiling | pings, limits, consumer, retention |
| `Tier1` | overlapping requests and replies on a recipient's row | tier1, ingest |
| `SignIn` | browsers signing in to one address | accounts, app, retention, signin.js, api.js |
| `AccountKeys` | one Account's data key, its row, its cache | accounts, consumer |
| `Store` | item states, Reminders, Memories, and what takes Summaries from under them | surfaces, memory, privacy, retention, app |
| `Desk` | Today's rows and the lists page, over `Store` | today.js, lists.js |
| `Ask` | questions, over `Store` | ask, app, today.js |
| `Pages` | every control that shows a stored setting and changes it | settings.js, groups.js, ops.js and the handlers behind them |
| `Operator` | the console's session, look-up, Plan form, queue | operator, quality, billing, ops.js, app |
| `MC*` | small instances for TLC; `MCOutbound` is `Pings` with `Tier1`, `MCWeb` is `Desk`, `Ask`, `SignIn`, `AccountKeys`, `Pages` and `Operator` | |
| `IngestProofs`, `CoverageProofs`, `SummariesProofs`, `GroupsProofs`, `DigestProofs`, `StoreProofs` (`Store`, `Desk`, `Ask`), `OutboundProofs` (`Pings`, `Tier1`), `WebProofs` (`SignIn`, `AccountKeys`, `Pages`, `Operator`) | theorems | |

`Ingest` instantiates `MessageLife` under a refinement mapping
(`LifeSpec`). `Desk` and `Ask` extend `Store`, whose rows they work on, and are
composed there: a question meets the same purge and the same erasure as a press
of Done. The other modules do not import one another: they share tables, and
each takes the few facts it reads of another component as a nondeterministic
environment action (`SetBlocked`, `CapMoves`, `AccountMoves`, `FlipSendable`, `FlipClear`,
`OtherWriter`, `CancelOwn`) that allows at least what the other component does.

`MCOutbound` and `MCWeb` put components that share no state into one instance.
Interleaving them would multiply their states and add no behaviour of either,
so a step of one is taken only where the others are in their initial states
(`MCWeb`'s `*AtRest`): the states checked are the sum of the parts', not the
product.

### Grain

The rule is the same in every module, because it is PostgreSQL's. A statement
sent in autocommit is one step. A transaction is one step for each statement
that reads something a concurrent writer may change, and its writes appear in
its last step, the COMMIT. `FOR UPDATE SKIP LOCKED` is a guard: the row is not
picked while another process's state names it. An `await` on the gateway or on
the model is a point where everything else may move. A crash resets the states
of the processes and leaves the tables. What a process remembers between two
steps is in its state record (`handler`, `drain`, `request`, `pass`, `worker`,
`picker`, `sender`, `pc` with `cur` and `slot`, `req`, `at` with `held`, `tx`,
`call`, `ask`, `flight`, `errand`), so a stale read is visible as such.

### State, module by module

* **Ingest.** `event` is `ingest_events` with its bigserial; `messages`,
  `today` and `expired` are the `messages` rows and what their timestamps say;
  `fresh` are messages inside the webhook's freshness window. A request runs
  `Receive`, `LookupSubscription`, `CheckIngressBlock`, `DropOrRegister`,
  `Enqueue`; a drain pass `PickEvent`, `GuardGroup`, `GuardBlock`,
  `StoreMessage` or `StoreFails`. An erasure decides which queue rows go
  (`BeginDelete...`) before it commits (`CommitErasure`). `Poison` are
  messages whose processing throws each time.
* **Coverage.** `gaps` counts open gaps by Session and reason. A request that
  opens a gap first evaluates its NOT EXISTS (`opens`) and later commits.
* **Summaries.** `jobs` is the `summary_jobs` table, with the number of
  Summaries each produced; `pass` remembers the SELECT's rows, whether enabled
  and their `last_fired_at`; `worker` holds a claimed job across the model call;
  the failure path (`MarkFailed`) runs after the rollback released the lock.
* **Groups.** One Account. `group` and `schedule` are its rows, by Session and
  WhatsApp Group; `status` is "down" for every Session that is not connected.
  A 'connected' event runs `Connect`, any number of `SeedGroup`, `CopyChoices`,
  `CopySchedules`, `StandDown`: the last three are the statements of
  `adoptGroups`, each seeing what has committed, and until the COMMIT the rows
  it has switched on are locked (`adopted`). An enabling holds the Account's row
  from `BeginEnable` to `CommitEnable`, and a disabling waits for it because its
  Attestation refers to that row. The holder acts on the row the screen shows at
  that moment (`IsShown`). `Reboot` is a crash and what `migrate` then does:
  migration 024 is `adoptGroups` once more, for the live Session. `PlanMoves`
  stands for whatever moves the cap, `startTrial` inside a 'connected' event
  included. `choice` is a history variable. Of an enabled row two things are asked
  when a message comes: whether the cap lets it (`HasRank`), which counts rows of
  every Session, and whether the message's own Session has it. `InCap` are the
  Groups with a row that has rank, `Processed` those with such a row on a connected
  Session, `Stranded` those with an enabled row on one that is not: these read as
  enabled, count against the cap and are read by nothing
  (`src/subscriptions.ts:224-227`). With the cap at one, one Group enabled on a
  lost Session and another enabled later on the live one, none is processed.
* **Digest.** `row` is the `briefs` row; a `picker` holds the candidates it
  was shown and then the keys it was answered; `sent` lists the messages that
  went out. Answers are sequences of keys, validated by `ValidatePick`. A send is
  `ClaimMessage`, `SendToSelf`, `CommitDelivered`, one transaction; the gateway call
  may throw before the message left or after (`SendFails`), and the UPDATE or the
  COMMIT may throw (`CommitFails`): each takes the same ROLLBACK and leaves the row
  due. `repicks` counts the picks that gave a delivered row other keys, `broken` the
  messages that left in a transaction that was then lost, a crash's included.
* **Pings.** `ping` is the `mention_pings` row, the m-th by arrival; `count` and
  `window` are the Account's bucket of `rate_limits`. A pass runs `StartPass`,
  `Claim` (the oldest unlocked row of an Account it has not skipped), then
  `SkipAccount` or `PassGate`, `allow` (the slot is spent in a statement of its
  own, outside the transaction), `Judge` or `JudgeThrows`, `SendPing` or
  `SendThrows` (which may have left all the same), `Resolve`; then the next row,
  until `NothingToClaim`. `slot` and `calls` record which judgement used which
  slot of which window.
* **Tier1.** `row` is one number's row of `outbound_recipients`; ids are kept,
  since `UndoClaim` deletes and `Confirm` updates by id. `sendOutbound` goes on to
  `ClaimNumber` (the INSERT that decides who asks), `SendFirst`, and `UndoClaim`
  when that failed, or `LookupNumber` and `SendMore`. `handleRecipientReply` reads
  a row and `Confirm` writes it later. `asked`, `unsure`, `said`, `told` record
  what reached the number.
* **SignIn.** Codes and tokens are numbered; the row holds one of each. `at` is a
  browser's page or the statement its request awaits (`attest`, `issue`, `send`,
  `mint`); `verify` reads the code and `Mint` clears it and writes the token.
  `Die` is a crash with every request in flight. `entered` records which browser
  got a token for which code.
* **AccountKeys.** `wrapped` is the committed column, `cached` the process's
  entry, `tx[w].minted` what an open transaction has written. `accountKey` asks
  the row under its lock; `CommitKey` is the caller on the pool, `CommitBody` and
  `RollbackBody` the consumer's transaction.
* **Store.** One action is one statement: `StateRead`/`StateWrite`,
  `ConfirmRead`/`ConfirmWrite`, `UpdateRead`/`UpdateWrite`, `EditRead`/`EditWrite`,
  `Drop`. `erase` is where a `deleteGroupData` stands: `EraseReminders`,
  `EraseMemories`, `EraseGroup`, what it has deleted invisible to others until the
  COMMIT (`Doomed`). `copy` keeps what became of `summary_id` (`link`).
* **Desk.** A `toggle` is one press: a request for each source, then `Resolve`,
  `Reject`, or its answers lost (`Lose`). `shown` is the page's map, `locked` the
  drawn buttons that are disabled. `Send` and `Hear` are the lists page's.
* **Ask.** A question goes `Put`, `ReadMessages`, `ReadSummaries`, `Rank`,
  `Answer`, `Close`; `Disable`, `Enable`, `Expire` and `Store`'s purge and erasure
  come between. `allowed` records what was readable at a moment since.
* **Pages.** A behaviour follows one control (`panel`): `stored`, what the page
  shows (`face`), whether its box was `typed` in, and the requests out
  (`flight`). `ServeLoad`, `ServeSave` and `Refuse` are the server; `LoadedOk` to
  `SaveFailed` are the continuations of each page, which differ: some adopt what
  the write answered, some load again, `Tick` sets the face at once.
* **Operator.** A request is `Authorise`d in one statement and acts in another;
  `console` is the page, `choiceFor` the Account that was on it when the Plan's
  select was last set.

### Abstractions

Bodies, names and texts are model values. Local time zones and DST are a day of
`DayLength` hours in `Summaries` and the flag `hour` in `Digest`. Retention is
at least a day and the webhook's freshness window minutes
(`WALAO_FRESHNESS_SECONDS`), so a message at its expiry is not fresh (`Expire`).
Items do not age out of the Brief's rolling 24 hours within the day. Signature
checks and parsing return before any write and are no steps. A Summary in `Store`
has one item of each section; a Reminder has two fields, "details" (owner and
due, which the page sends together) and "status". A setting in `Pages` is 0 or 1,
a box a number of days. `Limit` in `SignIn` is the address's limit in one window,
and what the limits by source refuse is `Throttled`, at any time.

## 3. What is checked

`Outbound.cfg` checks deadlock; the other configurations set `CHECK_DEADLOCK
FALSE`, because at their bounds (all messages stored, all events used, the day
over, the requests of a page answered) the system really stops.

| Run | Question and answer |
|---|---|
| `IngestRetention` | Two messages, a request, two overlapping drain passes, a crash, at most two queue rows (each message may be enqueued, erased and enqueued again): purged bodies stay gone, no body outlives its Group, the queue implements `MessageLife`, and what was accepted is stored unless consent, a block or the cap stood in the way at some time. |
| `IngestOverlap` | Three messages and two passes, without erasures, blocks and stale messages (`OverlapSlice`): a disabled Group gets at most one late message for each overlapping pass, the daily cap is exceeded by at most one for each other pass. Three messages are the fewest that could exceed both bounds; the theorems of section 4 leave out none of it. |
| `CoverageSerial` | One request at a time, three Sessions of two Accounts, a crash: one open gap per Session, every loss of connection and every halt opens one, a halt's gap ends with the halt and a connection's with the reconnect. Two overlapping requests are `CoverageTwoGaps.cfg`, which refutes the first statement; the last two are proved for any overlap. |
| `SummariesSerial` | A scheduler pass and a worker, four hours, two jobs, schedules edited between daily and interval, Groups toggled: windows tile, none with messages is lost, a disabled Group gets at most the job of the pass in flight, and every job settles. |
| `SummariesOverlap` | Two workers, three jobs, a crash, on one interval schedule (`OverlapSlice`): a job yields at most one Summary, and the daily credits are exceeded by at most one for each other worker. |
| `GroupsRepair` | Two Groups, two pairings, a 'connected' event, boots, a plan with a cap of one and of two: nobody but the holder enables a Group; no more Groups are processed than the cap allows, and fewer of those enabled only for rows stranded on a Session that is not connected, one Group for each (`CapLostToStranded`); and the boot's repair neither enables nor disables a Group. Two rows of a Group are the fewest that disagree; two moments of enabling are the fewest that rank two Groups. One row may have a schedule when the holder sets another (`MaxSchedules`): schedules are read by no other step. |
| `DigestOverlap` | Two items, two picks, two senders, a crash, gateway calls that fail before or after the message left, COMMITs that fail: a further message was earned by a pick that changed the keys of a delivered row, or repeats one that left in a transaction that was lost, the duplicate `src/deliver.ts:167-169` accepts (`MessagesEarned`); what is marked delivered was sent. Three messages and one such re-pick are enough for one more than was earned. The Account stays ready and an item cleared stays so (`OverlapSlice`), which keeps the run on picks and senders; `DigestLiveness` and the theorems of section 4 leave out neither. |
| `DigestLiveness` | With a crash and a gateway that may fail: the day speaks after its hour unless the Account is blocked or the day ends. |
| `Outbound` | *Pings*: two overlapping passes over a mention of each of two Accounts, a ceiling of one, one further window for one Account, a crash, a picker and a gateway that may always fail. No slot of the ceiling is used twice (`QuotaHolds`), a mention is pinged once unless its transaction was lost after the ping left (`PingsEarned`), and a mention of an Account that stays sendable is settled (`MentionsSettle`): one Account whose gateway always fails does not hold up the other. *Tier1*: two overlapping requests to one number, whose row is claimed twice at most, and a restart. Nobody gets a message without the question before a Yes, a number is asked once but for ambiguous sends, and a Yes is forgotten only there. Two passes, or two requests, are what a lock or a unique key is for. |
| `Web` | Nine properties of the browser's side, each on the smallest instance in which two of its actors meet: presses and edits over two Groups with a Summary each, two overlapping presses and two requests of the lists page (`CopiesOutlive`, `KeptUnlessCrossed`, `RowTellsTheTruth`); a question (`CitesWereReadable`); two browsers, a limit of three codes, a crash (`CodeConsumed`, `TermsBeforeSession`); every control with two requests out (`PageTellsTheTruth`); two Accounts and two errands of the console under one session (`PlanFollowsTheFace`, `ListedWhileOptedIn`). Beside them two transactions that want an Account's first key, three keys, two restarts (`ReadableUnlessUnminted`). With three keys two may be lost to rollbacks before one is committed. |

Two runs are expected to fail; each states a sentence of the repository.

| Run | Sentence | What TLC shows |
|---|---|---|
| `IngestWedge` | "Each event is its own transaction so one bad event can't wedge the queue" (`src/consumer.ts:11-12`) | the pass ends at the event that threw, and the next pass picks the same lowest id |
| `GroupsOff` | "The state this Account last chose for each Group" (`src/subscriptions.ts:213`) | the query puts enabled rows first, whatever was chosen last: a Group switched off on the live row comes back on at the next boot or reconnect, while an earlier Session's row is enabled. Such a row is left when the new Session's listing did not name the Group and a message registered it later. |

Further counterexamples, each reproduced by running TLC on the named
configuration; they rest on the same modules and are kept out of the regular
runs:

| Configuration | Sentence | What TLC shows |
|---|---|---|
| `IngestDisable` | "disable stops new messages immediately" (`src/consumer.ts:86`) | a pass past its consent check stores one more |
| `IngestErasure` | "The audit row is the only thing that remains" (`src/privacy.ts:165-166`) | a request in flight enqueues a payload after the Account is gone |
| `IngestPayload` | "raw messages are deleted at the end of your retention window" (`src/attestations.ts:25-27`) | the queued payload outlives the message |
| `CoverageDown` | "leaving 'connected' opens a gap ... returning to 'connected' closes any open gap" (`src/connections.ts:214-215`) | disconnected during a halt, the Session has only the halt's gap; un-halting closes it |
| `CoveragePause` | "A pause is lost coverage" (`src/privacy.ts:36-38`) | a reconnect during the pause closes its gap |
| `CoverageTwoGaps` | "At most one open gap per session" (`src/block.ts:103`) | two INSERTs see no open gap |
| `SummariesTiling` | "windows tile exactly: (previous close, this close]" (`src/scheduler.ts:162-163`) | two overlapping passes fire from the same `last_fired_at` |
| `SummariesCrash` | "windows tile exactly" (`src/scheduler.ts:162-163`) | a crash after `last_fired_at` moved loses the window |
| `GroupsOn` | "a Group must not be silently disabled" (`src/subscriptions.ts:269-271`) | the last UPDATE of an adoption sees rows registered after the first one looked, and stands down the only enabled row |
| `GroupsRank` | "a re-pair must not silently re-rank which Groups the cap blocks" (`test/group-identity.test.ts:74-75`) | with two enabled rows the one kept may be the later; three moments are needed (`MaxClock = 3`) |
| `DigestPlaceholder` | "one message a day, whichever path wrote it" (`src/server.ts:83-85`) | the empty row that claims the day is sent, then the pick earns a second message |
| `DigestQuiet` | "an empty one waits for the digest clock" (`src/pick.ts:185-187`) | a due row is emptied and still due |
| `DigestInterrupts` | "A Group on a daily cadence never interrupts" (`docs/specs/2026-08-07-calm-today-pick.md:29`) | the web page makes the row due |
| `DigestCrash` | "a restart mid-send cannot double-message" (`migrations/031_briefs.sql:6-7`) | it can, as `src/deliver.ts:167-169` says; a gateway that throws late and a COMMIT that fails do the same without a restart |

The modules state some more sentences the code does not keep. TLC refutes each
when its line is added to the configuration named:

| Line | Configuration | Sentence | What TLC shows |
|---|---|---|---|
| `INVARIANT ErasureTakesCopies` | `Web` | a group delete takes the Reminders and Memories copied out of its Summaries (`src/privacy.ts:103-106`) | the 90-day purge had cut the link, or a confirmation fell between two statements |
| `INVARIANT AbsentFieldsKept` | `Web` | fields absent from an update keep their value (`src/surfaces.ts:182`) | two updates cross, and the later write puts back what its read saw |
| `INVARIANT BodiesReadable` | `Web` | "message bodies belong to one Account's key" (`src/accounts.ts:131-132`) | the transaction that minted the key rolls back; the cache still has it, and another body is stored under it |
| `INVARIANT CodeWorksOnce` | `Web` | "Verifying consumes the code" (`src/accounts.ts:87`) | two verifications read the code before either clears it, and each mints a token; the first browser is signed out by the second's |
| `PROPERTY DisabledIsSilent` | `SummariesSerial` | "Disabled groups are re-checked at fire time" (`src/scheduler.ts:129-130`) | the re-check is the SELECT that started the pass |
| `INVARIANT ClosedWindowsQueued` | `SummariesTiling`, with `Msgs = {m1}`, `Interval = 1`, `MaxTime = 4` | "windows tile exactly" (`src/scheduler.ts:162-163`), of what falls between two windows | a pass that started earlier sets `last_fired_at` back; a message stored now should fall into the next window, but the pass that fires it starts from the later value it had read |
| `INVARIANT RefusedOnlyAtCap` | `GroupsRepair` | "a stale copy can never inflate the cap" (`src/subscriptions.ts:48-49`) | `setEnabled` counts rows: a Group enabled on another Session's row counts against enabling it here |
| `PROPERTY ScheduleFollows` | `GroupsRepair`, with `Modes = {"daily", "interval"}` | "the schedule is a property of the Group, so it follows the Group across a re-pair" (`src/subscriptions.ts:256-257`) | `interval_hours` is not copied: an interval becomes a daily schedule |
| `INVARIANT NoEcho` | `DigestOverlap` | "only when the picked keys actually changed" (`src/pick.ts:180-182`) | the same keys in another order are announced again |

Also met while reading, and outside what the modules state:

* nothing in `src/` reads `coverage_gaps` except `getStatus`
  (`src/block.ts:147`), so "summaries spanning it are flagged incomplete"
  (`src/privacy.ts:36-37`, `src/halt.ts:16-18`) is no longer done;
* `enableTier1` records the authorisation and sets the flag in two statements
  (`src/tier1.ts:27-31`): a crash between them leaves an Attestation without the
  feature, and the next attempt a second one;
* the Groups page's refusal at the cap is written into `#error`, which the
  `load()` that follows hides; its Delete text says the Group is not disabled
  (`public/groups.js:303`), and `deleteGroupData` deletes the row that says it is
  enabled (`src/privacy.ts:150`);
* Today's run button posts to `/v1/briefs/run` (`public/today.js:91`), which no
  route serves; the cache of cited messages (`public/layout.js:54`) keeps a
  rejected promise, so a look-up that failed once fails until the page is loaded
  again;
* an empty retention box is sent as 0 and clamped to one day (`Parsed` in
  `Pages`): what the page then shows is true, and probably not what was meant.

### Fairness

Weak fairness is asked of the steps of the timer's passes only: the one-second
timer starts the next pass whatever happened to the last, and a statement or an
HTTP call that was made returns or throws. In `Ingest`, `Summaries` and `Digest`
it is `FairSpec`, in `Pings` part of `PingsSpec`: there a picker and a gateway may
throw every time, which is why `MentionsSettle` says something. `Digest` asks
strong fairness of one thing more: a gateway that is asked again and again
answers some time. Users, browsers, the operator, the gateway's webhooks, the
clock and crashes are under no fairness.

## 4. What is proved

Every safety property of a passing run is a theorem, and so is the refinement
(`LifeSpec`): TLC shows each on a small instance, TLAPS for every value of the
constants that satisfies the modules' assumptions. None fixes a number of
Accounts, messages, passes, workers or requests. What is assumed beyond types:

* where an overrun is bounded by a number of passes or workers, that it is finite
  (`DrainsAssumption`, `OverlapAssumption`); where Groups are counted, that an
  Account has finitely many (`GroupsAssumption`);
* that the requests `Today` and the lists page send are different requests
  (`CallsAreThePages`);
* in the `ASSUME` of the theorem itself: one request or one pass at a time for
  `OneGapSerially`, `LossFlaggedSerially`, `WindowsTile` and `NothingLeftOut`,
  since TLC refutes the property for two; no crash for `NothingLeftOut`, since a
  crash between two commits does what it rules out.

| Theorem | Says | Argument |
|---|---|---|
| `IngestProofs!TypeCorrect`, `PurgeIsFinal` | types; a purged body never returns | `Inv`: a drain pass holds the lock of a pending row nobody else holds (`Holdings`), queue ids name rows uniquely and an erasure's ids only rows it erases (`RowIds`), the row of a stored or purged message is not pending (`Settled`), and an expired message is neither fresh nor carried by a request (`Sealed`). `PurgedStaysGone` alone is not inductive: a purged message could be pending again. |
| `IngestProofs!ErasureIsComplete` | no body outlives its Group | `Homed`: a pass whose foreign key still holds is about to store into a Group and an Account that are there, and an erasure of an Account takes every Group of it; so what is stored has a home, and what loses its home is deleted with it. |
| `IngestProofs!PipelineImplementsLife` | `Ingest` implements `MessageLife` | step simulation over `Inv`: each step leaves every body's phase or moves it as `MessageLife` allows. |
| `IngestProofs!LateIsBounded`, `CapIsBounded` | how far a disable and the daily cap are overrun | `Bounded`: what was stored past the check *and* the passes that have passed the check and not yet stored never exceed the number of passes (`LateAt`), or the cap and the other passes (`CapAt`). Without the second summand the bound is not inductive. |
| `CoverageProofs!HaltGapsEnd`, `ConnectedIsUp` | no halt gap without a halt; no connection gap on a connected Session | `IInv` adds to the two properties the types (`Shape`) and that a request in flight opens a loss's gap only on the Session it takes down (`LossWellFormed`). They need it because an INSERT decided earlier is committed later; what keeps it harmless is the row lock, a guard of the actions: the flag or status and the gap appear in one COMMIT. |
| `CoverageProofs!OneGapSerially`, `LossFlaggedSerially` | with one request at a time: one open gap, and every loss opens one | `Serial`: one gap (`OneGap`), and what the request in flight has found by its NOT EXISTS is still so when it commits (`Found`); `IdleIsIdle` keeps a request that begins free of what an earlier one found. |
| `SummariesProofs!OneSummaryPerJob` | at most one Summary per job | `IInv`: `Shape` (the job table's type), `Claims` (a worker in a transaction holds a pending job), `Exclusive` (no two hold the same), `SummarisedOnce`. The failure path holds no lock, which is why the property lets a `failed` job have a Summary. |
| `SummariesProofs!CreditsBounded` | the daily credits' overrun | `Credited`: credits spent on a day and workers past the check on that day, together (`CreditAt`). |
| `SummariesProofs!DisabledFallsSilent` | jobs of a disabled Group | `Silenced`: queued jobs and the passes that can still reach the Group, together (`SilentAt`); a row a pass has taken up is no longer among those it will visit (`Apart`), so it counts once. |
| `SummariesProofs!WindowsTile` | windows do not overlap, with one pass at a time | `Tiled`: every job ends by its Group's `last_fired_at`, and that by now; the pass knows the `last_fired_at` of every row it has not fired, and no job of a row it has fired reaches into the window it is closing (`TiledPass`). |
| `SummariesProofs!NothingLeftOut` | every message in time for a window that has closed is in a job, with one pass at a time and no crash | `InTimeQueued`: a message not later than its Group's `last_fired_at` is in a job's window, or in the window the pass has fired and not yet queued. With `Tiled` the pass's window begins where the last job ends, so the two leave no hour out. |
| `GroupsProofs!TypesHold`, `ConsentComesFirst` | types; only a Group its holder has enabled is ever enabled | `IInv` adds that an adoption under way has switched on only such Groups (`AdoptsWhatWasAsked`), since its writes land steps after it read the rows they rest on, and that an enabling names a Group (`EnablesAGroup`). |
| `GroupsProofs!CapIsUsed` | no more Groups are processed than the cap allows, and of those enabled fewer only for stranded rows | `DatesInv`: an enabled Group has a moment of enabling, no later than now, and no two Groups have the same one (`MomentsApart`), also for what an adoption under way has taken over (`AdoptedIsDated`, `IsMoment`). Groups with distinct moments are ranked 1, 2, ... without a gap (`RankedPrefix`), so those ranked within the cap (`InCap`) are as many as it says (`RanksInCap`); two Groups of one moment would be blocked or let through together. A Group in the cap is processed, or the row that ranks it there is stranded. |
| `GroupsProofs!RepairKeeps` | a boot neither enables nor disables a Group | `Repaired`, from `IInv`: among finitely many dated rows there is a latest (`PriorExists`), which the repair follows; what it switches on was on, and what it stands down has a row of the live Session. |
| `DigestProofs!DeliveredIsSent` | what is marked delivered was sent | `HeldRow`: one sender holds the row, undelivered, with the keys it has read, and nobody writes it meanwhile; `CommitsWhatWent`: a sender about to commit has sent just these. A write between the send and the COMMIT would break it, which `FOR UPDATE` in the SELECT rules out. |
| `DigestProofs!EveryMessageEarned` | one message for the day, one for each re-pick of a delivered row, one for each whose transaction was lost | `MessagesAccounted`: while the row is owed a message (not delivered, and nobody between send and COMMIT) there is one fewer. The bound alone is not inductive: it does not say that a row which may be sent has one left. A rollback after a message left makes the row owed again and is counted in `broken`. |
| `StoreProofs!ErasureLeavesOnly` | which copies outlive their Group | `LinksFollow`: a copy's link is whole exactly while its Summary is there, and an erased Group has neither Summaries nor an erasure under way; `LateOnes`: a copy that an erasure under way will no longer delete was confirmed since it began. Each statement of the erasure moves a kind of copy from the second to the first. |
| `StoreProofs!UpdatesKeepAbsentFields` | an update loses no field unless two cross | `KeepsFor`: an update past its read is alone with its Reminder unless recorded as crossed, and will write what was last asked for with its own fields over it. An erasure or a confirmation in between is what makes it need more: the row it writes may have been deleted and confirmed afresh, which `copy[..].held \/ summary = "gone"` rules out. |
| `StoreProofs!ConsoleTellsTheTruth` | Today shows what is stored | `TogglesRequest`: a toggle's requests write its state, each to its own Summary, and nobody else writes states; `AloneWrites`: a toggle that runs alone is the only one out, and what was answered "ok" is written; `Unmuddled`: without a failure or an overlap every toggle out runs alone. |
| `StoreProofs!AnswersCiteReadable` | an answer cites what was readable | `SourcesReadable`: what a question holds, and what it was answered, lies in what has been readable since it was put, and that contains what is readable now. |
| `OutboundProofs!PingsTyped`, `OnePingEach`, `CeilingHolds` | types; one ping per mention; no slot of the ceiling is used twice | `IInv`: one pass holds a row (`Held`); a row that is not settled was pinged only by lost transactions (`PingsAccounted`); a slot in use or used lies within the limit and, in the current window, at or below its count, and none is both (`SlotsGivenOut`). |
| `OutboundProofs!Tier1Typed`, `ConsentComesFirst`, `AskedOnlyOnce`, `YesRemembered` | types; the three properties of the handshake | `IInv`: a request about to ask, or to take its claim back, holds the number's row, and every question so far is accounted for (`RequestsBacked`); one request holds it (`OneClaimant`); a confirmed row has its Yes, and a number without a row no question it is not known to have had (`RowsBacked`). |
| `WebProofs!CodeSharedOnlyByOverlap`, `TermsFirst` | a code that has let a browser in lets in nobody who had not read it before, and no browser twice; no session before the terms | `SignInv`: codes are issued in order and none is carried or let anybody in before it is issued (`CodesInOrder`), so the next one is new, and minting clears the row, so what a later SELECT finds has let nobody in. Two verifications past their SELECTs both mint, in the code as in the model (`CodeWorksOnce`); an address without a row has no code, no token and nobody on the way to one (`OnlyTheKnown`); a known address lacks the terms only while a signup is under way or one died (`SignupUnderWay`). |
| `WebProofs!KeyOutlivesProcess` | every stored body stays readable, unless a minting transaction rolled back | `KeysInv`: at most one key is live, in the row or in the one transaction that holds it (`OneMinter`), and the cache, the transactions and the bodies use it (`UnderLiveKeys`). |
| `WebProofs!FaceIsTrue` | a control at rest shows what is stored | `PageInv`: the face shows the setting, or a request under way will make it (`Truthful`), what an answer carries was sound when it was given (`Sound`), and the opt-in's box has one request out (`OneTick`). |
| `WebProofs!PlanGoesWhereShown`, `RevokedIsUnlisted` | the Plan goes to the Account on the page; a revoked opt-in is not listed | `OperatorInv`: the requests' shape, and a queue served lists Accounts opted in at a moment since it was asked for (`QueueFollowsOptIn`). |

Types are proved for `Ingest`, `Groups`, `Pings`, `Tier1`, `Store` and `Desk`
(`HolderTypeOK`); those of `Coverage`, `Summaries`, `Digest`, `Ask`, `SignIn` and
`AccountKeys` are part of the invariants proved (`Shape`, `PickTypes`, `AskTyped`).
`StoreTypeOK`, `DeskTypeOK`, `PagesTypeOK` and `OperatorTypeOK` are stated for the
reader: adding one to `Web.cfg` as an invariant checks it.

`StoreProofs` states its theorems about `HolderSpec`, in which `Store`, `Desk` and
`Ask` take their steps in any order. `MCWeb` takes them under a condition more (the
other components at rest), so its behaviours, as far as these variables go, are
among those the theorems are about.

`PendingWasAsked` in `Tier1` (a number is not left pending without having been
asked, crashes apart) holds in `Outbound.cfg` when added as an invariant; it is
not among the run's properties.

Model-checked only: what must happen in the end (`AcceptedIsStored`,
`JobsSettle`, `EveryDaySpeaks`, `MentionsSettle`), which rests on fairness and is
beyond the prover; and the counterexamples of section 3, which are runs and not
theorems. `Digest`'s `ValidatePick` is a fold over the model's answer: what it
computes for every answer would need an induction, so `DigestProofs` lets a pick
be any of its values and uses only that the empty one is among them.

## 5. Not modelled

* **Gateway adapter** (`gateway/*`): HTTP calls to an external service; the
  models let it deliver, fail, stay silent, or fail after delivering.
* **Pairing and public pages** (`public/pair.js`, `explainer.js`): a poll of the
  connection until it is up, and pages without state.
* **Routing and start-up**: each module has the routes it answers. Static files,
  headers and the order in which `server.ts` starts are left out. Migrations
  rerun at each boot (`src/db.ts:13-20`); the one that changes rows the
  components write is in `Groups`.
* **Digest hour and zones** (`src/deliver.ts:267`): the hour is local, the day's
  key UTC, and they may name different days. `Digest` has one clock, and one
  Account, so neither this nor one Account's failing gateway keeping back the
  others' messages (`src/deliver.ts:239`) is covered.
* **Locks of `deleteAccount`** (`src/privacy.ts:176`): it deletes parents while
  workers hold children; PostgreSQL ends a deadlock by failing one of the two,
  and both handlers then roll back.
* **`validateSummary`**, wording, drawing of Briefs, ranking in Ask: data no
  property tells apart.
* **Attestations, audit, exports, lists, usage**: append-only rows or reads.
* **Caps by plan** in `Ingest` and `Summaries` are constants; `Groups` has the
  plan move. That a number has one Trial is a unique key.
* **Sweep of `rate_limits`**: removes windows that have ended.

Some hazards were folded into one another in `PROJECT.json`: a re-pick that leaves
its row due (`src/pick.ts:194`) and answers of picks landing in any order
(`src/pick.ts:199`) are with the placeholder of `src/deliver.ts:275` and the crash
of `src/deliver.ts:226`; overlapping scheduler passes (`src/scheduler.ts:165`) with
the crash there; a message stored after its window closed
(`src/scheduler.ts:170`) is a case of `ClosedWindowsQueued`'s exception for stored
late; `src/connections.ts:234` is with `src/halt.ts:42`; `src/summarize.ts:243` with
the claim at 151; the claim of `src/tier1.ts:70` with the send at 79; the row lock
of `src/pings.ts:67` with the ping at 110; the disagreeing rows of
`src/subscriptions.ts:273` with adoption at 222.
