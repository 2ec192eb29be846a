------------------------------- MODULE Ingest -------------------------------
(***************************************************************************)
(* The path of a raw message body through WALAO: the gateway's webhook     *)
(* (ingest.ts), the durable queue ingest_events, the drain passes that     *)
(* store messages (consumer.ts), the retention purge (retention.ts) and    *)
(* the two erasures (privacy.ts), against an Account holder who toggles    *)
(* Groups and blocks processing meanwhile.                                 *)
(*                                                                         *)
(* Every statement the code sends to Postgres in autocommit is one step.   *)
(* A transaction (READ COMMITTED) is one step per statement that READS     *)
(* something a concurrent writer may change; its own writes land in its    *)
(* last step, the COMMIT.  Row locks are guards.                           *)
(*                                                                         *)
(* Left out because no guard of this path reads it: coverage_gaps (module  *)
(* Coverage owns every writer of that table), mention pings, ciphertext.   *)
(***************************************************************************)
EXTENDS Integers, FiniteSets

CONSTANTS
    Users, Sessions, Jids, Msgs,
    Handlers,      \* webhook requests that may be in flight together
    Drains,        \* drainQueue passes that may overlap (server.ts fires one a second)
    UserOf,        \* the Account a Session belongs to
    SessionOf,     \* the Session a message arrives on
    JidOf,         \* the chat it was written in
    Poison,        \* messages whose processing throws every time (an unwrappable key)
    MessageCap,    \* PLANS[plan].max_messages_per_day
    NoMsg,
    MaxEvents,     \* bound: rows ever inserted in ingest_events
    MaxCrashes     \* bound: process crashes

GroupKeys == Sessions \X Jids

ASSUME IngestAssumption ==
    /\ UserOf \in [Sessions -> Users]
    /\ SessionOf \in [Msgs -> Sessions]
    /\ JidOf \in [Msgs -> Jids]
    /\ Poison \subseteq Msgs
    /\ NoMsg \notin Msgs
    /\ MessageCap \in Nat
    /\ MaxEvents \in Nat
    /\ MaxCrashes \in Nat

\* At a second a pass and with calls that return, only finitely many overlap.
ASSUME DrainsAssumption == IsFiniteSet(Drains) /\ Drains # {}

GroupOf(m) == <<SessionOf[m], JidOf[m]>>
OwnerOf(m) == UserOf[SessionOf[m]]
OwnerOfGroup(g) == UserOf[g[1]]

VARIABLES
    accounts,   \* users rows
    blocked,    \* accounts a halt, bill, pause or lost connection blocks
    group,      \* groups rows: "absent", "disabled" or "enabled"
    event,      \* ingest_events rows
    nextId,     \* its bigserial
    messages,   \* messages rows
    today,      \* those created since UTC midnight
    expired,    \* those whose expires_at has passed
    fresh,      \* messages still inside the webhook freshness window
    handler,    \* webhook requests
    drain,      \* drain passes
    eraser,     \* the erasure transaction in flight
    crashes,
    purged,     \* history: messages the retention purge has deleted
    lateStores  \* history: messages stored since the Group was disabled

vars == <<accounts, blocked, group, event, nextId, messages, today, expired,
          fresh, handler, drain, eraser, crashes, purged, lateStores>>

storeVars == <<messages, today, expired, purged>>
userVars  == <<accounts, blocked, group>>
boundVars == <<nextId, crashes>>

GroupStatus == {"absent", "disabled", "enabled"}
EventStatus == {"none", "pending", "done", "skipped"}

NoEvent    == [status |-> "none", id |-> 0]
IdleHandler == [pc |-> "idle", msg |-> NoMsg, seen |-> "absent"]
IdleDrain   == [pc |-> "idle", msg |-> NoMsg, row |-> "live"]
IdleEraser  == [pc |-> "idle", target |-> {}, ids |-> {}]

HandlerState == [pc : {"idle", "lookup", "block", "write"},
                 msg : Msgs \cup {NoMsg}, seen : GroupStatus]
DrainState == [pc : {"idle", "group", "block", "store"},
               msg : Msgs \cup {NoMsg}, row : {"live", "gone"}]
EraserState == [pc : {"idle", "group", "account"},
                target : SUBSET GroupKeys, ids : SUBSET Nat]

TypeOK ==
    /\ accounts \subseteq Users
    /\ blocked \subseteq Users
    /\ group \in [GroupKeys -> GroupStatus]
    /\ event \in [Msgs -> [status : EventStatus, id : Nat]]
    /\ nextId \in Nat
    /\ messages \subseteq Msgs
    /\ today \subseteq messages
    /\ expired \subseteq messages
    /\ fresh \subseteq Msgs
    /\ handler \in [Handlers -> HandlerState]
    /\ drain \in [Drains -> DrainState]
    /\ eraser \in EraserState
    /\ crashes \in Nat
    /\ purged \subseteq Msgs
    /\ lateStores \in [GroupKeys -> Nat]

Init ==
    /\ accounts = Users
    /\ blocked = {}
    /\ group = [g \in GroupKeys |-> "absent"]
    /\ event = [m \in Msgs |-> NoEvent]
    /\ nextId = 1
    /\ messages = {} /\ today = {} /\ expired = {}
    /\ fresh = Msgs
    /\ handler = [h \in Handlers |-> IdleHandler]
    /\ drain = [d \in Drains |-> IdleDrain]
    /\ eraser = IdleEraser
    /\ crashes = 0
    /\ purged = {}
    /\ lateStores = [g \in GroupKeys |-> 0]

-----------------------------------------------------------------------------
(* block.ts: the account-state reasons, then the daily message cap.  An    *)
(* Account whose row is gone is reported "unpaired".                       *)

MessagesToday(u) == Cardinality({m \in today : OwnerOf(m) = u})

\* mutant of ProcessingBlock: > for >=
BlockPastTheCap(u) ==
    u \notin accounts \/ u \in blocked \/ MessagesToday(u) > MessageCap

ProcessingBlock(u) ==
    \/ u \notin accounts
    \/ u \in blocked
    \/ MessagesToday(u) >= MessageCap

-----------------------------------------------------------------------------
(* ingestWebhook.  Forged, unparseable, stale and from-me deliveries       *)
(* return before any write and are therefore no steps at all.  The gateway *)
(* may deliver the same message any number of times.                       *)

\* mutant of WithinFreshness: the age check is gone
AnyAge(m) == TRUE

WithinFreshness(m) == m \in fresh

Receive(h, m) ==
    /\ handler[h].pc = "idle"
    /\ WithinFreshness(m)
    /\ handler' = [handler EXCEPT ![h] = [pc |-> "lookup", msg |-> m, seen |-> "absent"]]
    /\ UNCHANGED <<userVars, event, boundVars, storeVars, fresh, drain, eraser, lateStores>>

Respond(h) == handler' = [handler EXCEPT ![h] = IdleHandler]

\* The one SELECT that answers session, owner, Group and its enabled flag.
\* A Session nobody holds (its Account was deleted) drops the delivery.
LookupSubscription(h) ==
    LET m == handler[h].msg IN
    /\ handler[h].pc = "lookup"
    /\ IF OwnerOf(m) \in accounts
         THEN handler' = [handler EXCEPT
                           ![h] = [pc |-> "block", msg |-> m, seen |-> group[GroupOf(m)]]]
         ELSE Respond(h)
    /\ UNCHANGED <<userVars, event, boundVars, storeVars, fresh, drain, eraser, lateStores>>

CheckIngressBlock(h) ==
    /\ handler[h].pc = "block"
    /\ IF ProcessingBlock(OwnerOf(handler[h].msg))
         THEN Respond(h)
         ELSE handler' = [handler EXCEPT ![h].pc = "write"]
    /\ UNCHANGED <<userVars, event, boundVars, storeVars, fresh, drain, eraser, lateStores>>

\* A Group seen enabled: the payload enters the durable queue, once per
\* (session, message id).
Enqueue(h) ==
    LET m == handler[h].msg IN
    /\ handler[h].pc = "write"
    /\ handler[h].seen = "enabled"
    /\ IF event[m].status = "none"
         THEN /\ nextId <= MaxEvents
              /\ event' = [event EXCEPT ![m] = [status |-> "pending", id |-> nextId]]
              /\ nextId' = nextId + 1
         ELSE UNCHANGED <<event, nextId>>
    /\ Respond(h)
    /\ UNCHANGED <<userVars, storeVars, crashes, fresh, drain, eraser, lateStores>>

\* Anything else is dropped; a chat seen for the first time is registered,
\* disabled, unless the reply handshake consumed the message.  The INSERT
\* fails on its foreign key when the Session has gone.
DropOrRegister(h) ==
    LET g == GroupOf(handler[h].msg) IN
    /\ handler[h].pc = "write"
    /\ handler[h].seen # "enabled"
    /\ \/ UNCHANGED group
       \/ /\ handler[h].seen = "absent"
          /\ group[g] = "absent"
          /\ OwnerOfGroup(g) \in accounts
          /\ group' = [group EXCEPT ![g] = "disabled"]
    /\ Respond(h)
    /\ UNCHANGED <<accounts, blocked, event, boundVars, storeVars, fresh, drain, eraser, lateStores>>

-----------------------------------------------------------------------------
(* drainQueue and processEvent: one transaction per event.                 *)

\* mutant of Pickable: WHERE status = 'pending' is gone
PickableAnyStatus == {m \in Msgs : /\ event[m].status # "none"
                                   /\ \A d \in Drains : drain[d].msg # m}

\* FOR UPDATE SKIP LOCKED, ORDER BY id: the oldest pending row no other pass holds.
Pickable == {m \in Msgs : /\ event[m].status = "pending"
                          /\ \A d \in Drains : drain[d].msg # m}

PickEvent(d) ==
    /\ drain[d].pc = "idle"
    /\ \E m \in Pickable :
         /\ \A n \in Pickable : event[m].id <= event[n].id
         /\ drain' = [drain EXCEPT ![d] = [pc |-> "group", msg |-> m, row |-> "live"]]
    /\ UNCHANGED <<userVars, event, boundVars, storeVars, fresh, handler, eraser, lateStores>>

\* UPDATE ingest_events ... COMMIT.
Settle(d, status) ==
    /\ event' = [event EXCEPT ![drain[d].msg].status = status]
    /\ drain' = [drain EXCEPT ![d] = IdleDrain]

\* mutant of Consented: the store-time guard asks only for the Session
SessionKnown(m) == OwnerOf(m) \in accounts

Consented(m) == OwnerOf(m) \in accounts /\ group[GroupOf(m)] = "enabled"

\* The store-time consent guard.
GuardGroup(d) ==
    /\ drain[d].pc = "group"
    /\ IF Consented(drain[d].msg)
         THEN /\ drain' = [drain EXCEPT ![d].pc = "block"]
              /\ UNCHANGED event
         ELSE Settle(d, "skipped")
    /\ UNCHANGED <<userVars, boundVars, storeVars, fresh, handler, eraser, lateStores>>

\* mutant of GuardBlock: the event being stored counts against the cap itself
CapCountsThisOne(d) ==
    LET u == OwnerOf(drain[d].msg) IN
    /\ drain[d].pc = "block"
    /\ IF ProcessingBlock(u) \/ MessagesToday(u) + 1 >= MessageCap
         THEN Settle(d, "skipped")
         ELSE /\ drain' = [drain EXCEPT ![d].pc = "store"]
              /\ UNCHANGED event
    /\ UNCHANGED <<userVars, boundVars, storeVars, fresh, handler, eraser, lateStores>>

\* The store-time mirror of the ingress block.
GuardBlock(d) ==
    /\ drain[d].pc = "block"
    /\ IF ProcessingBlock(OwnerOf(drain[d].msg))
         THEN Settle(d, "skipped")
         ELSE /\ drain' = [drain EXCEPT ![d].pc = "store"]
              /\ UNCHANGED event
    /\ UNCHANGED <<userVars, boundVars, storeVars, fresh, handler, eraser, lateStores>>

\* mutant of GroupRowStands: messages.group_id references nothing
NoForeignKey(d) == TRUE

\* messages.group_id REFERENCES groups: the row the guard read still exists.
GroupRowStands(d) == drain[d].row = "live"

\* INSERT INTO messages ... ON CONFLICT DO NOTHING, the status update and COMMIT.
StoreMessage(d) ==
    LET m == drain[d].msg  g == GroupOf(m) IN
    /\ drain[d].pc = "store"
    /\ GroupRowStands(d)
    /\ m \notin Poison
    /\ Settle(d, IF m \in messages THEN "skipped" ELSE "done")
    /\ messages' = messages \cup {m}
    /\ today' = IF m \in messages THEN today ELSE today \cup {m}
    /\ lateStores' = IF group[g] = "enabled" THEN lateStores
                     ELSE [lateStores EXCEPT ![g] = @ + 1]
    /\ UNCHANGED <<userVars, boundVars, expired, purged, fresh, handler, eraser>>

\* The transaction throws (foreign key, key unwrap): ROLLBACK, and the pass
\* ends with the event still pending.
StoreFails(d) ==
    /\ drain[d].pc = "store"
    /\ ~(GroupRowStands(d) /\ drain[d].msg \notin Poison)
    /\ drain' = [drain EXCEPT ![d] = IdleDrain]
    /\ UNCHANGED <<userVars, event, boundVars, storeVars, fresh, handler, eraser, lateStores>>

-----------------------------------------------------------------------------
(* The Account holder and the operator.                                    *)

\* setEnabled.  Its cap on Groups only ever refuses the call.
SetEnabled(g, enabled) ==
    /\ group[g] # "absent"
    /\ OwnerOfGroup(g) \in accounts
    /\ group' = [group EXCEPT ![g] = IF enabled THEN "enabled" ELSE "disabled"]
    /\ lateStores' = IF enabled THEN [lateStores EXCEPT ![g] = 0] ELSE lateStores
    /\ UNCHANGED <<accounts, blocked, event, boundVars, storeVars, fresh, handler, drain, eraser>>

\* Any of halt, unpaid, pause, disconnect; and its end.
SetBlocked(u) ==
    /\ u \in accounts
    /\ blocked' = IF u \in blocked THEN blocked \ {u} ELSE blocked \cup {u}
    /\ UNCHANGED <<accounts, group, event, boundVars, storeVars, fresh, handler, drain, eraser, lateStores>>

\* deleteGroupData up to the SELECT that decides which queue rows go.
BeginDeleteGroup(g) ==
    /\ eraser.pc = "idle"
    /\ OwnerOfGroup(g) \in accounts
    /\ group[g] # "absent"
    /\ eraser' = [pc |-> "group", target |-> {g},
                  ids |-> {event[m].id : m \in {n \in Msgs :
                              GroupOf(n) = g /\ event[n].status # "none"}}]
    /\ UNCHANGED <<userVars, event, boundVars, storeVars, fresh, handler, drain, lateStores>>

\* deleteAccount up to its DELETE FROM ingest_events.
BeginDeleteAccount(u) ==
    /\ eraser.pc = "idle"
    /\ u \in accounts
    /\ eraser' = [pc |-> "account", target |-> {g \in GroupKeys : OwnerOfGroup(g) = u},
                  ids |-> {event[m].id : m \in {n \in Msgs :
                              OwnerOf(n) = u /\ event[n].status # "none"}}]
    /\ UNCHANGED <<userVars, event, boundVars, storeVars, fresh, handler, drain, lateStores>>

\* The deletes wait for the row locks drains hold; the COMMIT cascades to the
\* messages, and a pass that had read the Group now holds a dangling id.
CommitErasure ==
    LET doomed == {m \in Msgs : event[m].status # "none" /\ event[m].id \in eraser.ids}
        bodies == {m \in Msgs : GroupOf(m) \in eraser.target} IN
    /\ eraser.pc # "idle"
    /\ \A d \in Drains : drain[d].msg \notin doomed
    /\ accounts' = IF eraser.pc = "account"
                     THEN accounts \ {OwnerOfGroup(g) : g \in eraser.target}
                     ELSE accounts
    /\ group' = [g \in GroupKeys |-> IF g \in eraser.target THEN "absent" ELSE group[g]]
    /\ event' = [m \in Msgs |-> IF m \in doomed THEN NoEvent ELSE event[m]]
    /\ messages' = messages \ bodies
    /\ today' = today \ bodies
    /\ expired' = expired \ bodies
    /\ drain' = [d \in Drains |-> IF drain[d].msg \in bodies
                                    THEN [drain[d] EXCEPT !.row = "gone"] ELSE drain[d]]
    /\ eraser' = IdleEraser
    /\ UNCHANGED <<blocked, boundVars, purged, fresh, handler, lateStores>>

-----------------------------------------------------------------------------
(* Time and failure.                                                       *)

\* A message leaves the freshness window (config.freshnessSeconds).
Age(m) ==
    /\ m \in fresh
    /\ fresh' = fresh \ {m}
    /\ UNCHANGED <<userVars, event, boundVars, storeVars, handler, drain, eraser, lateStores>>

\* UTC midnight: the message cap counts from zero again.  created_at and the day
\* counted are those of the transaction's start, so one that straddles midnight
\* belongs to the day before and midnight falls after it.
Midnight ==
    /\ today # {}
    /\ \A d \in Drains : drain[d].pc = "idle"
    /\ today' = {}
    /\ UNCHANGED <<userVars, event, boundVars, messages, expired, purged, fresh,
                   handler, drain, eraser, lateStores>>

\* expires_at passes.  It lies at least a day after the store, so the message
\* is neither fresh nor of today, and no request that began then is still running.
Expire(m) ==
    /\ m \in messages \ (expired \cup fresh \cup today)
    /\ \A h \in Handlers : handler[h].msg # m
    /\ expired' = expired \cup {m}
    /\ UNCHANGED <<userVars, event, boundVars, messages, today, purged, fresh,
                   handler, drain, eraser, lateStores>>

\* mutant of PurgeExpired: the next purge counts the same rows again
PurgeForgetsNothing ==
    /\ expired # {}
    /\ messages' = messages \ expired
    /\ purged' = purged \cup expired
    /\ UNCHANGED <<userVars, event, boundVars, today, expired, fresh, handler, drain,
                   eraser, lateStores>>

\* purgeExpired, its first statement.
PurgeExpired ==
    /\ expired # {}
    /\ messages' = messages \ expired
    /\ purged' = purged \cup expired
    /\ expired' = {}
    /\ UNCHANGED <<userVars, event, boundVars, today, fresh, handler, drain, eraser, lateStores>>

\* The process dies: requests are lost, open transactions roll back.
Crash ==
    /\ crashes < MaxCrashes
    /\ crashes' = crashes + 1
    /\ handler' = [h \in Handlers |-> IdleHandler]
    /\ drain' = [d \in Drains |-> IdleDrain]
    /\ eraser' = IdleEraser
    /\ UNCHANGED <<userVars, event, nextId, storeVars, fresh, lateStores>>

-----------------------------------------------------------------------------

HandlerStep(h) ==
    \/ \E m \in Msgs : Receive(h, m)
    \/ LookupSubscription(h)
    \/ CheckIngressBlock(h)
    \/ Enqueue(h)
    \/ DropOrRegister(h)

DrainStep(d) ==
    \/ PickEvent(d)
    \/ GuardGroup(d)
    \/ GuardBlock(d)
    \/ StoreMessage(d)
    \/ StoreFails(d)

HolderStep ==
    \/ \E g \in GroupKeys, e \in BOOLEAN : SetEnabled(g, e)
    \/ \E u \in Users : SetBlocked(u)
    \/ \E g \in GroupKeys : BeginDeleteGroup(g)
    \/ \E u \in Users : BeginDeleteAccount(u)
    \/ CommitErasure

ClockStep ==
    \/ \E m \in Msgs : Age(m) \/ Expire(m)
    \/ Midnight
    \/ PurgeExpired
    \/ Crash

Next ==
    \/ \E h \in Handlers : HandlerStep(h)
    \/ \E d \in Drains : DrainStep(d)
    \/ HolderStep
    \/ ClockStep

Spec == Init /\ [][Next]_vars

\* The server's one-second timer keeps starting drain passes and a statement
\* that was sent returns; nothing makes users, the gateway or clocks act.
FairSpec == Spec /\ \A d \in Drains : WF_vars(DrainStep(d))

-----------------------------------------------------------------------------
(* What has to be true.                                                    *)

\* Retention is final: whatever replays, erasures, crashes and overlapping
\* drain passes do, a body the purge deleted is never stored again.
PurgedStaysGone == purged \cap messages = {}

\* Disabling a Group can be overtaken only by transactions already past their
\* consent check: at most one late message per overlapping drain pass.
LateStoresBounded == \A g \in GroupKeys : lateStores[g] <= Cardinality(Drains)

\* The daily message cap is read by each pass before it inserts, so overlapping
\* passes can exceed it, but by no more than the other passes' one message each.
CapOverrunBounded ==
    \A u \in Users : MessagesToday(u) <= MessageCap + Cardinality(Drains) - 1

\* No stored body outlives its Group or its Account, even one a drain pass
\* was storing while the erasure ran.
NoBodyOutlivesItsGroup ==
    \A m \in messages : group[GroupOf(m)] # "absent" /\ OwnerOf(m) \in accounts

\* Where a body is in the life MessageLife describes.
phaseOf == [m \in Msgs |->
    CASE m \in messages -> "kept"
      [] m \in purged \ messages -> "purged"
      [] m \notin messages \cup purged /\ event[m].status = "pending" -> "queued"
      [] m \notin messages \cup purged /\ event[m].status \in {"done", "skipped"} -> "dropped"
      [] OTHER -> "unseen"]

Life == INSTANCE MessageLife WITH phase <- phaseOf

\* The queue, the drains and the purge implement the promised life of a body:
\* accepted once, kept at most once, never back after the purge.
LifeSpec == Life!Spec

Pending(m) == event[m].status = "pending"

\* The Group is enabled, nothing blocks the Account and the cap has room.
Admissible(m) ==
    /\ Consented(m)
    /\ OwnerOf(m) \notin blocked
    /\ MessagesToday(OwnerOf(m)) < MessageCap

\* An accepted message is eventually stored, crashes included, unless consent,
\* a block or the cap stood in its way at some point: the queue loses nothing.
AcceptedIsStored ==
    \A m \in Msgs \ Poison : Pending(m) ~> (m \in messages \/ ~Admissible(m))

-----------------------------------------------------------------------------
(* What the repository says and the code does not do.                      *)

\* "disable stops new messages immediately" (consumer.ts).
DisableIsImmediate ==
    [][\A m \in messages' \ messages : group[GroupOf(m)] = "enabled"]_vars

\* Of a deleted Account "the audit row is the only thing that remains"
\* (privacy.ts), once the requests that were in flight have returned.
ErasureTakesPayloads ==
    (eraser.pc = "idle" /\ \A h \in Handlers : handler[h].pc = "idle") =>
        \A m \in Msgs : OwnerOf(m) \notin accounts => event[m].status = "none"

\* "Raw messages are deleted at the end of your retention window"
\* (attestations.ts): the payload in the queue row is the same raw message.
RetentionTakesPayloads == \A m \in purged : event[m].status = "none"

\* "one bad event can't wedge the queue" (consumer.ts).
BadEventDoesNotWedge == \A m \in Msgs \ Poison : Pending(m) ~> ~Pending(m)

=============================================================================
