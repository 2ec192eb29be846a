---------------------------- MODULE IngestProofs ----------------------------
(***************************************************************************)
(* Proofs about Ingest, for every set of Accounts, Sessions, chats and     *)
(* messages and any number of overlapping requests and drain passes.       *)
(***************************************************************************)
EXTENDS Ingest, FiniteSetTheorems, TLAPS

\* The idle processes are those that hold no message; a busy drain pass holds the
\* lock of a pending row that no other pass holds.
Holdings ==
    /\ \A h \in Handlers : handler[h].pc = "idle" <=> handler[h].msg = NoMsg
    /\ \A d \in Drains : drain[d].pc = "idle" <=> drain[d].msg = NoMsg
    /\ \A d \in Drains : drain[d].pc # "idle" => event[drain[d].msg].status = "pending"
    /\ \A d, e \in Drains : drain[d].msg = drain[e].msg /\ drain[d].pc # "idle" => d = e

\* A queue row is named by its id alone, and an erasure in flight names only
\* rows of the Groups it erases.
RowIds ==
    /\ \A m \in Msgs : event[m].status # "none" => event[m].id < nextId
    /\ \A m, n \in Msgs : event[m].status # "none" /\ event[n].status # "none"
                          /\ event[m].id = event[n].id => m = n
    /\ \A i \in eraser.ids : i < nextId
    /\ \A m \in Msgs : event[m].status # "none" /\ event[m].id \in eraser.ids
                       => GroupOf(m) \in eraser.target

\* The queue row of a stored message is there and done with; the row of a
\* purged one is not pending either, and nobody is processing it.
Settled ==
    /\ \A m \in messages : event[m].status \in {"done", "skipped"}
    /\ \A m \in purged : event[m].status # "pending"

\* A message at the end of its retention window was not stored today and is
\* too old for the webhook, and no request still carries it.
Sealed ==
    /\ expired \cap today = {}
    /\ \A m \in expired \cup purged : m \notin fresh /\ \A h \in Handlers : handler[h].msg # m

Inv ==
    /\ TypeOK
    /\ Holdings
    /\ RowIds
    /\ Settled
    /\ Sealed
    /\ PurgedStaysGone

-----------------------------------------------------------------------------

\* Every message belongs to one Group and one Account.
LEMMA KeyTypes ==
    ASSUME NEW m \in Msgs
    PROVE  GroupOf(m) \in GroupKeys /\ OwnerOf(m) \in Users
  BY IngestAssumption DEF IngestAssumption, GroupOf, OwnerOf, GroupKeys

\* An empty database satisfies the invariant.
LEMMA InitInv == Init => Inv
  <1> SUFFICES ASSUME Init PROVE Inv
    OBVIOUS
  <1> USE IngestAssumption DEF IngestAssumption, Init, IdleHandler, IdleDrain, IdleEraser, NoEvent
  <1>1. TypeOK
    BY DEF TypeOK, HandlerState, DrainState, EraserState, EventStatus, GroupStatus
  <1>2. Holdings
    BY DEF Holdings
  <1>3. RowIds
    BY DEF RowIds
  <1>4. Settled /\ Sealed /\ PurgedStaysGone
    BY DEF Settled, Sealed, PurgedStaysGone
  <1>5. QED
    BY <1>1, <1>2, <1>3, <1>4 DEF Inv

\* The steps of a webhook request.
LEMMA HandlerInv ==
    ASSUME Inv, NEW h \in Handlers, HandlerStep(h)
    PROVE  Inv'
  <1> USE DEF Inv, userVars, storeVars, boundVars, IdleHandler
  <1>1. ASSUME NEW m \in Msgs, Receive(h, m) PROVE Inv'
    <2>1. TypeOK'
      BY <1>1 DEF Receive, TypeOK, HandlerState, GroupStatus
    <2>2. Holdings' /\ RowIds' /\ Settled' /\ PurgedStaysGone'
      BY <1>1, IngestAssumption
         DEF Receive, TypeOK, Holdings, RowIds, Settled, PurgedStaysGone, IngestAssumption
    <2>3. Sealed'
      BY <1>1 DEF Receive, WithinFreshness, TypeOK, Sealed
    <2>4. QED
      BY <2>1, <2>2, <2>3
  <1>2. ASSUME LookupSubscription(h) \/ CheckIngressBlock(h) PROVE Inv'
    <2>1. /\ handler' \in [Handlers -> HandlerState]
          /\ \A k \in Handlers : /\ handler'[k].msg \in {handler[k].msg, NoMsg}
                                 /\ handler'[k].pc = "idle" <=> handler'[k].msg = NoMsg
      <3>1. CASE LookupSubscription(h)
        <4>1. handler[h].msg \in Msgs => group[GroupOf(handler[h].msg)] \in GroupStatus
          BY KeyTypes DEF TypeOK
        <4>2. handler[h].msg \in Msgs \cup {NoMsg} /\ handler[h].pc = "lookup"
          BY <3>1 DEF LookupSubscription, TypeOK, HandlerState
        <4>3. /\ handler \in [Handlers -> HandlerState]
              /\ \A k \in Handlers : handler[k].pc = "idle" <=> handler[k].msg = NoMsg
          BY DEF TypeOK, Holdings
        <4>4. CASE Respond(h)
          BY <4>3, <4>4 DEF Respond, IdleHandler, HandlerState, GroupStatus
        <4>5. CASE handler' = [handler EXCEPT
                     ![h] = [pc |-> "block", msg |-> handler[h].msg,
                             seen |-> group[GroupOf(handler[h].msg)]]]
          <5>1. handler[h].msg \in Msgs
            BY <4>2, <4>3
          <5>2. group[GroupOf(handler[h].msg)] \in GroupStatus
            BY <4>1, <5>1
          <5>3. QED
            BY <4>3, <4>5, <5>1, <5>2, IngestAssumption DEF HandlerState, IngestAssumption
        <4>6. QED
          BY <3>1, <4>4, <4>5 DEF LookupSubscription
      <3>2. CASE CheckIngressBlock(h)
        BY <3>2 DEF CheckIngressBlock, Respond, TypeOK, Holdings, HandlerState, GroupStatus, IdleHandler
      <3>3. QED
        BY <1>2, <3>1, <3>2
    <2>2. UNCHANGED <<accounts, blocked, group, event, nextId, messages, today, expired,
                      fresh, drain, eraser, crashes, purged, lateStores>>
      BY <1>2 DEF LookupSubscription, CheckIngressBlock
    <2>3. TypeOK' /\ Holdings' /\ RowIds' /\ Settled' /\ PurgedStaysGone'
      BY <2>1, <2>2 DEF TypeOK, Holdings, RowIds, Settled, PurgedStaysGone
    <2>4. Sealed'
      BY <2>1, <2>2, IngestAssumption DEF IngestAssumption, TypeOK, Sealed
    <2>5. QED
      BY <2>3, <2>4
  <1>3. ASSUME Enqueue(h) PROVE Inv'
    <2> DEFINE m == handler[h].msg
    <2>1. CASE event[m].status # "none"
      <3>1. UNCHANGED <<accounts, blocked, group, event, nextId, messages, today, expired,
                        fresh, drain, eraser, crashes, purged, lateStores>>
        BY <1>3, <2>1 DEF Enqueue
      <3>2. handler' = [handler EXCEPT ![h] = IdleHandler]
        BY <1>3 DEF Enqueue, Respond
      <3>3. TypeOK' /\ Holdings' /\ RowIds' /\ Settled' /\ PurgedStaysGone'
        BY <3>1, <3>2 DEF TypeOK, Holdings, RowIds, Settled, PurgedStaysGone, HandlerState, GroupStatus
      <3>4. Sealed'
        BY <3>1, <3>2, IngestAssumption DEF IngestAssumption, TypeOK, Sealed
      <3>5. QED
        BY <3>3, <3>4
    <2>2. CASE event[m].status = "none"
      <3>1. /\ event' = [event EXCEPT ![m] = [status |-> "pending", id |-> nextId]]
            /\ nextId' = nextId + 1
            /\ handler' = [handler EXCEPT ![h] = IdleHandler]
            /\ UNCHANGED <<accounts, blocked, group, messages, today, expired,
                           fresh, drain, eraser, crashes, purged, lateStores>>
        BY <1>3, <2>2 DEF Enqueue, Respond
      <3>2. m \notin messages \cup purged
        BY <2>2 DEF Settled, Sealed
      <3>3. TypeOK'
        <4>1. event' \in [Msgs -> [status : EventStatus, id : Nat]]
          BY <3>1 DEF TypeOK, EventStatus
        <4>2. handler' \in [Handlers -> HandlerState]
          BY <3>1 DEF TypeOK, HandlerState, GroupStatus
        <4>3. QED
          BY <3>1, <4>1, <4>2 DEF TypeOK
      <3>4. Holdings'
        BY <3>1, <2>2 DEF TypeOK, Holdings, DrainState, IdleHandler
      <3>5. RowIds'
        <4>1. nextId \in Nat /\ eraser.ids \subseteq Nat
          BY DEF TypeOK, EraserState
        <4>2. \A n \in Msgs : event'[n].status # "none" =>
                 \/ n # m /\ event'[n] = event[n]
                 \/ n = m /\ event'[n].id = nextId
          BY <3>1 DEF TypeOK
        <4>3. \A n \in Msgs : event[n].id \in Nat
          BY DEF TypeOK
        <4>4. QED
          BY <3>1, <4>1, <4>2, <4>3 DEF RowIds
      <3>6. Settled' /\ PurgedStaysGone'
        BY <3>1, <3>2 DEF TypeOK, Settled, PurgedStaysGone
      <3>7. Sealed'
        BY <3>1, IngestAssumption DEF IngestAssumption, TypeOK, Sealed
      <3>8. QED
        BY <3>3, <3>4, <3>5, <3>6, <3>7
    <2>3. QED
      BY <2>1, <2>2
  <1>4. ASSUME DropOrRegister(h) PROVE Inv'
    <2>1. /\ group' \in [GroupKeys -> GroupStatus]
          /\ handler' = [handler EXCEPT ![h] = IdleHandler]
          /\ UNCHANGED <<accounts, blocked, event, nextId, messages, today, expired,
                         fresh, drain, eraser, crashes, purged, lateStores>>
      BY <1>4 DEF DropOrRegister, Respond, TypeOK, GroupStatus
    <2>2. TypeOK' /\ Holdings' /\ RowIds' /\ Settled' /\ PurgedStaysGone'
      BY <2>1 DEF TypeOK, Holdings, RowIds, Settled, PurgedStaysGone, HandlerState, GroupStatus
    <2>3. Sealed'
      BY <2>1, IngestAssumption DEF IngestAssumption, TypeOK, Sealed
    <2>4. QED
      BY <2>2, <2>3
  <1>5. QED
    BY <1>1, <1>2, <1>3, <1>4 DEF HandlerStep

\* The steps of a drain pass.
LEMMA DrainInv ==
    ASSUME Inv, NEW d \in Drains, DrainStep(d)
    PROVE  Inv'
  <1> USE DEF Inv, userVars, storeVars, boundVars, IdleDrain
  <1> DEFINE m == drain[d].msg
  <1>1. ASSUME PickEvent(d) PROVE Inv'
    <2>1. PICK n \in Msgs :
             /\ event[n].status = "pending"
             /\ \A e \in Drains : drain[e].msg # n
             /\ drain' = [drain EXCEPT ![d] = [pc |-> "group", msg |-> n, row |-> "live"]]
      BY <1>1 DEF PickEvent, Pickable
    <2>2. UNCHANGED <<accounts, blocked, group, event, nextId, messages, today, expired,
                      fresh, handler, eraser, crashes, purged, lateStores>>
      BY <1>1 DEF PickEvent
    <2>3. TypeOK' /\ RowIds' /\ Settled' /\ Sealed' /\ PurgedStaysGone'
      BY <2>1, <2>2 DEF TypeOK, RowIds, Settled, Sealed, PurgedStaysGone, DrainState
    <2>4. Holdings'
      BY <2>1, <2>2, IngestAssumption DEF IngestAssumption, TypeOK, Holdings, DrainState
    <2>5. QED
      BY <2>3, <2>4
  \* A pass that only moves on, or gives its event back, disturbs nothing else.
  <1>2. ASSUME NEW next \in DrainState,
               drain' = [drain EXCEPT ![d] = next],
               next = IdleDrain \/ (drain[d].pc # "idle" /\ next.pc # "idle" /\ next.msg = m),
               UNCHANGED <<accounts, blocked, group, event, nextId, messages, today, expired,
                           fresh, handler, eraser, crashes, purged, lateStores>>
        PROVE  Inv'
    <2>1. TypeOK' /\ RowIds' /\ Settled' /\ Sealed' /\ PurgedStaysGone'
      BY <1>2 DEF TypeOK, RowIds, Settled, Sealed, PurgedStaysGone
    <2>2. Holdings'
      BY <1>2, IngestAssumption DEF IngestAssumption, TypeOK, Holdings, DrainState
    <2>3. QED
      BY <2>1, <2>2
  \* A pass that commits closes its queue row and lets it go.
  <1>3. ASSUME NEW status \in {"done", "skipped"}, Settle(d, status), drain[d].pc # "idle",
               UNCHANGED <<accounts, blocked, group, nextId, fresh, handler, eraser, crashes>>,
               messages' \subseteq Msgs, today' \subseteq messages', expired' \subseteq messages',
               expired' = expired, purged' = purged, messages' \subseteq messages \cup {m},
               today' \subseteq today \cup {m},
               lateStores' \in [GroupKeys -> Nat]
        PROVE  Inv'
    <2>1. m \in Msgs /\ event[m].status = "pending"
      BY <1>3 DEF TypeOK, Holdings, DrainState
    <2>2. /\ event' = [event EXCEPT ![m].status = status]
          /\ drain' = [drain EXCEPT ![d] = IdleDrain]
      BY <1>3 DEF Settle
    <2>3. TypeOK'
      BY <1>3, <2>1, <2>2, IngestAssumption
      DEF IngestAssumption, TypeOK, DrainState, EventStatus
    <2>4. \A n \in Msgs : event'[n].id = event[n].id
                          /\ (n # m => event'[n].status = event[n].status)
                          /\ (event[n].status # "none" <=> event'[n].status # "none")
      BY <2>1, <2>2 DEF TypeOK
    <2>5. event'[m].status = status
      BY <2>1, <2>2 DEF TypeOK
    <2>6. Holdings'
      BY <1>3, <2>1, <2>2, <2>4, IngestAssumption DEF IngestAssumption, TypeOK, Holdings, DrainState
    <2>7. RowIds'
      BY <1>3, <2>4 DEF RowIds
    <2>8. Settled' /\ Sealed'
      <3>1. m \notin expired
        BY <2>1 DEF TypeOK, Settled
      <3>2. QED
        BY <1>3, <2>1, <2>4, <2>5, <3>1 DEF TypeOK, Settled, Sealed
    <2>9. PurgedStaysGone'
      BY <1>3, <2>1 DEF Settled, PurgedStaysGone
    <2>10. QED
      BY <2>3, <2>6, <2>7, <2>8, <2>9
  <1>4. ASSUME GuardGroup(d) \/ GuardBlock(d) PROVE Inv'
    <2>1. UNCHANGED <<accounts, blocked, group, nextId, messages, today, expired, purged,
                      fresh, handler, eraser, crashes, lateStores>>
      BY <1>4 DEF GuardGroup, GuardBlock
    <2>2. drain[d].pc # "idle"
      BY <1>4 DEF GuardGroup, GuardBlock
    <2>3. CASE Settle(d, "skipped")
      BY <1>3, <2>1, <2>2, <2>3 DEF TypeOK
    <2>4. CASE event' = event /\ \E pc \in {"block", "store"} : drain' = [drain EXCEPT ![d].pc = pc]
      <3>1. PICK pc \in {"block", "store"} : drain' = [drain EXCEPT ![d].pc = pc]
        BY <2>4
      <3>2. [drain[d] EXCEPT !.pc = pc] \in DrainState
        BY DEF TypeOK, DrainState
      <3>3. drain' = [drain EXCEPT ![d] = [drain[d] EXCEPT !.pc = pc]]
        BY <3>1 DEF TypeOK
      <3>4. [drain[d] EXCEPT !.pc = pc].pc = pc /\ [drain[d] EXCEPT !.pc = pc].msg = m
        BY DEF TypeOK, DrainState
      <3>5. QED
        BY <1>2, <2>1, <2>2, <2>4, <3>2, <3>3, <3>4
    <2>5. QED
      BY <1>4, <2>3, <2>4 DEF GuardGroup, GuardBlock
  <1>5. ASSUME StoreMessage(d) PROVE Inv'
    <2>1. m \in Msgs
      BY <1>5 DEF StoreMessage, TypeOK, Holdings, DrainState
    <2>2. lateStores' \in [GroupKeys -> Nat]
      BY <1>5, <2>1, KeyTypes DEF StoreMessage, TypeOK
    <2>3. /\ messages' \subseteq Msgs /\ today' \subseteq messages' /\ expired' \subseteq messages'
          /\ expired' = expired /\ purged' = purged /\ messages' \subseteq messages \cup {m}
          /\ today' \subseteq today \cup {m}
      BY <1>5, <2>1 DEF StoreMessage, TypeOK
    <2>4. /\ UNCHANGED <<accounts, blocked, group, nextId, fresh, handler, eraser, crashes>>
          /\ drain[d].pc # "idle"
          /\ Settle(d, "done") \/ Settle(d, "skipped")
      BY <1>5 DEF StoreMessage
    <2>5. QED
      BY <1>3, <2>2, <2>3, <2>4
  <1>6. ASSUME StoreFails(d) PROVE Inv'
    <2>1. IdleDrain \in DrainState
      BY DEF DrainState
    <2>2. QED
      BY <1>2, <1>6, <2>1 DEF StoreFails
  <1>7. QED
    BY <1>1, <1>4, <1>5, <1>6 DEF DrainStep

\* The Account holder's steps.
LEMMA HolderInv ==
    ASSUME Inv, HolderStep
    PROVE  Inv'
  <1> USE DEF Inv, userVars, storeVars, boundVars
  <1>1. ASSUME NEW g \in GroupKeys, NEW e \in BOOLEAN, SetEnabled(g, e) PROVE Inv'
    <2>1. TypeOK'
      BY <1>1 DEF SetEnabled, TypeOK, GroupStatus
    <2>2. Holdings' /\ RowIds' /\ Settled' /\ Sealed' /\ PurgedStaysGone'
      BY <1>1 DEF SetEnabled, Holdings, RowIds, Settled, Sealed, PurgedStaysGone
    <2>3. QED
      BY <2>1, <2>2
  <1>2. ASSUME NEW u \in Users, SetBlocked(u) PROVE Inv'
    <2>1. TypeOK'
      BY <1>2 DEF SetBlocked, TypeOK
    <2>2. Holdings' /\ RowIds' /\ Settled' /\ Sealed' /\ PurgedStaysGone'
      BY <1>2 DEF SetBlocked, Holdings, RowIds, Settled, Sealed, PurgedStaysGone
    <2>3. QED
      BY <2>1, <2>2
  \* An erasure that begins names live rows of its target, by ids in use.
  <1>3. ASSUME NEW T \in SUBSET GroupKeys, NEW kind \in {"group", "account"},
               NEW S \in SUBSET Msgs,
               \A n \in S : GroupOf(n) \in T /\ event[n].status # "none",
               eraser' = [pc |-> kind, target |-> T, ids |-> {event[n].id : n \in S}],
               UNCHANGED <<accounts, blocked, group, event, nextId, messages, today, expired,
                           fresh, handler, drain, crashes, purged, lateStores>>
        PROVE  Inv'
    <2>1. \A n \in Msgs : event[n].id \in Nat
      BY DEF TypeOK
    <2>2. TypeOK'
      <3>1. eraser' \in EraserState
        BY <1>3, <2>1 DEF EraserState
      <3>2. QED
        BY <1>3, <3>1 DEF TypeOK
    <2>3. RowIds'
      <3>1. \A i \in eraser'.ids : \E n \in S : i = event[n].id
        BY <1>3
      <3>2. \A k \in Msgs : event[k].status # "none" /\ event[k].id \in eraser'.ids => k \in S
        BY <1>3, <3>1 DEF RowIds
      <3>3. QED
        BY <1>3, <3>1, <3>2 DEF RowIds
    <2>4. Holdings' /\ Settled' /\ Sealed' /\ PurgedStaysGone'
      BY <1>3 DEF Holdings, Settled, Sealed, PurgedStaysGone
    <2>5. QED
      BY <2>2, <2>3, <2>4
  <1>4. ASSUME NEW g \in GroupKeys, BeginDeleteGroup(g) PROVE Inv'
    <2> DEFINE S == {n \in Msgs : GroupOf(n) = g /\ event[n].status # "none"}
    <2>1. eraser' = [pc |-> "group", target |-> {g}, ids |-> {event[n].id : n \in S}]
      BY <1>4 DEF BeginDeleteGroup
    <2>2. S \in SUBSET Msgs /\ {g} \in SUBSET GroupKeys
          /\ \A n \in S : GroupOf(n) \in {g} /\ event[n].status # "none"
      OBVIOUS
    <2>3. UNCHANGED <<accounts, blocked, group, event, nextId, messages, today, expired,
                      fresh, handler, drain, crashes, purged, lateStores>>
      BY <1>4 DEF BeginDeleteGroup
    <2> HIDE DEF S
    <2>4. QED
      BY <1>3, <2>1, <2>2, <2>3
  <1>5. ASSUME NEW u \in Users, BeginDeleteAccount(u) PROVE Inv'
    <2> DEFINE S == {n \in Msgs : OwnerOf(n) = u /\ event[n].status # "none"}
               T == {g \in GroupKeys : OwnerOfGroup(g) = u}
    <2>1. eraser' = [pc |-> "account", target |-> T, ids |-> {event[n].id : n \in S}]
      BY <1>5 DEF BeginDeleteAccount
    <2>2. \A n \in S : GroupOf(n) \in T
      BY KeyTypes DEF OwnerOf, OwnerOfGroup, GroupOf
    <2>3. S \in SUBSET Msgs /\ T \in SUBSET GroupKeys /\ \A n \in S : event[n].status # "none"
      OBVIOUS
    <2>4. UNCHANGED <<accounts, blocked, group, event, nextId, messages, today, expired,
                      fresh, handler, drain, crashes, purged, lateStores>>
      BY <1>5 DEF BeginDeleteAccount
    <2> HIDE DEF S, T
    <2>5. QED
      BY <1>3, <2>1, <2>2, <2>3, <2>4
  <1>6. ASSUME CommitErasure PROVE Inv'
    <2> DEFINE doomed == {m \in Msgs : event[m].status # "none" /\ event[m].id \in eraser.ids}
               bodies == {m \in Msgs : GroupOf(m) \in eraser.target}
    <2>1. /\ \A d \in Drains : drain[d].msg \notin doomed
          /\ accounts' \subseteq accounts
          /\ group' = [g \in GroupKeys |-> IF g \in eraser.target THEN "absent" ELSE group[g]]
          /\ event' = [m \in Msgs |-> IF m \in doomed THEN NoEvent ELSE event[m]]
          /\ messages' = messages \ bodies
          /\ today' = today \ bodies
          /\ expired' = expired \ bodies
          /\ drain' = [d \in Drains |-> IF drain[d].msg \in bodies
                                          THEN [drain[d] EXCEPT !.row = "gone"] ELSE drain[d]]
          /\ eraser' = IdleEraser
          /\ UNCHANGED <<blocked, nextId, crashes, purged, fresh, handler, lateStores>>
      BY <1>6 DEF CommitErasure
    <2>2. doomed \subseteq bodies
      BY DEF RowIds
    <2>3. \A d \in Drains : drain'[d].msg = drain[d].msg /\ drain'[d].pc = drain[d].pc
      BY <2>1 DEF TypeOK, DrainState
    <2>4. \A n \in Msgs : event'[n] = event[n] \/ (n \in doomed /\ event'[n] = NoEvent)
      BY <2>1 DEF TypeOK
    <2>5. TypeOK'
      <3>1. drain' \in [Drains -> DrainState]
        BY <2>1 DEF TypeOK, DrainState
      <3>2. event' \in [Msgs -> [status : EventStatus, id : Nat]]
        BY <2>1 DEF TypeOK, NoEvent, EventStatus
      <3>3. group' \in [GroupKeys -> GroupStatus] /\ eraser' \in EraserState
        BY <2>1 DEF TypeOK, GroupStatus, EraserState, IdleEraser
      <3>4. QED
        BY <2>1, <3>1, <3>2, <3>3 DEF TypeOK
    <2>6. Holdings'
      <3>1. \A d \in Drains : drain[d].pc # "idle" => drain[d].msg \in Msgs
        BY DEF TypeOK, Holdings, DrainState
      <3>2. \A d \in Drains : drain[d].pc # "idle" => event'[drain[d].msg] = event[drain[d].msg]
        BY <2>1, <2>4, <3>1
      <3>3. QED
        BY <2>1, <2>3, <3>2 DEF Holdings
    <2>7. RowIds'
      BY <2>1, <2>4 DEF RowIds, NoEvent, IdleEraser
    <2>8. Settled'
      BY <2>1, <2>2, <2>4 DEF TypeOK, Settled, NoEvent
    <2>9. Sealed' /\ PurgedStaysGone'
      BY <2>1 DEF Sealed, PurgedStaysGone
    <2>10. QED
      BY <2>5, <2>6, <2>7, <2>8, <2>9
  <1>7. QED
    BY <1>1, <1>2, <1>4, <1>5, <1>6 DEF HolderStep

\* Time, the purge and crashes.
LEMMA ClockInv ==
    ASSUME Inv, ClockStep
    PROVE  Inv'
  <1> USE DEF Inv, userVars, storeVars, boundVars
  <1>1. ASSUME NEW m \in Msgs, Age(m) PROVE Inv'
    BY <1>1 DEF Age, TypeOK, Holdings, RowIds, Settled, Sealed, PurgedStaysGone
  <1>2. ASSUME NEW m \in Msgs, Expire(m) PROVE Inv'
    BY <1>2 DEF Expire, TypeOK, Holdings, RowIds, Settled, Sealed, PurgedStaysGone
  <1>3. ASSUME Midnight PROVE Inv'
    BY <1>3 DEF Midnight, TypeOK, Holdings, RowIds, Settled, Sealed, PurgedStaysGone
  <1>4. ASSUME PurgeExpired PROVE Inv'
    <2>1. TypeOK' /\ PurgedStaysGone'
      BY <1>4 DEF PurgeExpired, TypeOK, Sealed, PurgedStaysGone
    <2>2. Holdings' /\ RowIds'
      BY <1>4 DEF PurgeExpired, Holdings, RowIds
    <2>3. Sealed'
      BY <1>4 DEF PurgeExpired, Sealed
    <2>4. Settled'
      BY <1>4 DEF PurgeExpired, TypeOK, Settled
    <2>5. QED
      BY <2>1, <2>2, <2>3, <2>4
  <1>5. ASSUME Crash PROVE Inv'
    <2> USE DEF IdleHandler, IdleDrain, IdleEraser
    <2>1. TypeOK'
      BY <1>5 DEF Crash, TypeOK, HandlerState, DrainState, EraserState, GroupStatus
    <2>2. Holdings' /\ RowIds' /\ Settled' /\ PurgedStaysGone'
      BY <1>5 DEF Crash, Holdings, RowIds, Settled, PurgedStaysGone
    <2>3. Sealed'
      BY <1>5, IngestAssumption DEF IngestAssumption, Crash, TypeOK, Sealed
    <2>4. QED
      BY <2>1, <2>2, <2>3
  <1>6. QED
    BY <1>1, <1>2, <1>3, <1>4, <1>5 DEF ClockStep

\* What every reachable state satisfies: the types, and where the body of a
\* message may still be once its row was purged.
THEOREM IngestInvariant == Spec => []Inv
  <1>1. Inv /\ [Next]_vars => Inv'
    <2> SUFFICES ASSUME Inv, [Next]_vars PROVE Inv'
      OBVIOUS
    <2>1. CASE Next
      BY <2>1, HandlerInv, DrainInv, HolderInv, ClockInv DEF Next
    <2>2. CASE UNCHANGED vars
      BY <2>2 DEF vars, Inv, TypeOK, Holdings, RowIds, Settled, Sealed, PurgedStaysGone
    <2>3. QED
      BY <2>1, <2>2
  <1>2. QED
    BY InitInv, <1>1, PTL DEF Spec

\* Requests, drains, queue rows and messages rows keep their types through every
\* interleaving (ingest.ts, consumer.ts, privacy.ts).
THEOREM TypeCorrect == Spec => []TypeOK
  BY IngestInvariant, PTL DEF Inv

\* A message purgeExpired deleted stays deleted, whatever the gateway resends and
\* the queue still holds: the webhook's freshness window (ingest.ts) is far shorter
\* than any retention (a day at least), and while the message was stored its queue
\* row was done with (consumer.ts, retention.ts).
THEOREM PurgeIsFinal == Spec => []PurgedStaysGone
  BY IngestInvariant, PTL DEF Inv
-----------------------------------------------------------------------------
(* No body outlives its Group or its Account.                              *)

\* A pass whose foreign key still holds stores into a Group and an Account that
\* are there; an erasure of an Account takes every Group of the Account.
Homed ==
    /\ NoBodyOutlivesItsGroup
    /\ \A d \in Drains : drain[d].pc \in {"block", "store"} /\ drain[d].row = "live" =>
          group[GroupOf(drain[d].msg)] # "absent" /\ OwnerOf(drain[d].msg) \in accounts
    /\ \A g, k \in GroupKeys : eraser.pc = "account" /\ k \in eraser.target
                               /\ OwnerOfGroup(g) = OwnerOfGroup(k) => g \in eraser.target

\* The Account of a message is the Account of its Group.
LEMMA OwnerAgrees ==
    ASSUME NEW m \in Msgs
    PROVE  OwnerOfGroup(GroupOf(m)) = OwnerOf(m)
  BY DEF OwnerOfGroup, GroupOf, OwnerOf

\* What a step may do without leaving a body homeless: bodies stay or go, passes
\* stand where they stood or are idle, and Groups and Accounts all stay.
LEMMA HomedStays ==
    ASSUME Homed, accounts' = accounts, eraser' = eraser, messages' \subseteq messages,
           \A g \in GroupKeys : group[g] # "absent" => group'[g] # "absent",
           messages \subseteq Msgs,
           \A d \in Drains : drain'[d] = drain[d] \/ drain'[d].pc \in {"idle", "group"},
           \A d \in Drains : drain[d].pc # "idle" => drain[d].msg \in Msgs
    PROVE  Homed'
  BY KeyTypes DEF Homed, NoBodyOutlivesItsGroup

\* A webhook request.
LEMMA HandlerHomed ==
    ASSUME Inv, Homed, NEW h \in Handlers, HandlerStep(h)
    PROVE  Homed'
  <1> USE DEF userVars, storeVars, boundVars
  <1>1. messages \subseteq Msgs /\ \A d \in Drains : drain[d].pc # "idle" => drain[d].msg \in Msgs
    BY DEF Inv, TypeOK, Holdings, DrainState
  <1>2. ASSUME NEW m \in Msgs, Receive(h, m) PROVE Homed'
    BY <1>1, <1>2, HomedStays DEF Receive
  <1>3. ASSUME LookupSubscription(h) PROVE Homed'
    BY <1>1, <1>3, HomedStays DEF LookupSubscription
  <1>4. ASSUME CheckIngressBlock(h) PROVE Homed'
    BY <1>1, <1>4, HomedStays DEF CheckIngressBlock
  <1>5. ASSUME Enqueue(h) PROVE Homed'
    BY <1>1, <1>5, HomedStays DEF Enqueue
  <1>6. ASSUME DropOrRegister(h) PROVE Homed'
    <2>1. \A g \in GroupKeys : group[g] # "absent" => group'[g] # "absent"
      BY <1>6 DEF DropOrRegister, Inv, TypeOK
    <2>2. UNCHANGED <<accounts, eraser, messages, drain>>
      BY <1>6 DEF DropOrRegister
    <2>3. QED
      BY <1>1, <2>1, <2>2, HomedStays
  <1>7. QED
    BY <1>2, <1>3, <1>4, <1>5, <1>6 DEF HandlerStep

\* A drain pass: the consent check is what lets it go on, the foreign key what
\* lets it store.
LEMMA DrainHomed ==
    ASSUME Inv, Homed, NEW d \in Drains, DrainStep(d)
    PROVE  Homed'
  <1> USE DEF userVars, storeVars, boundVars
  <1>1. messages \subseteq Msgs /\ \A e \in Drains : drain[e].pc # "idle" => drain[e].msg \in Msgs
    BY DEF Inv, TypeOK, Holdings, DrainState
  <1>2. drain \in [Drains -> DrainState]
    BY DEF Inv, TypeOK
  <1>3. ASSUME UNCHANGED <<accounts, group, eraser, messages>>,
               NEW next \in {IdleDrain} \cup [pc : {"group"}, msg : Msgs, row : {"live"}],
               drain' = [drain EXCEPT ![d] = next]
        PROVE  Homed'
    <2>1. \A e \in Drains : drain'[e] = drain[e] \/ drain'[e].pc \in {"idle", "group"}
      BY <1>2, <1>3 DEF IdleDrain
    <2>2. QED
      BY <1>1, <1>3, <2>1, HomedStays
  <1>4. ASSUME PickEvent(d) PROVE Homed'
    <2>1. PICK m \in Msgs : drain' = [drain EXCEPT ![d] = [pc |-> "group", msg |-> m, row |-> "live"]]
      BY <1>4 DEF PickEvent, Pickable
    <2>2. [pc |-> "group", msg |-> m, row |-> "live"]
             \in {IdleDrain} \cup [pc : {"group"}, msg : Msgs, row : {"live"}]
      OBVIOUS
    <2>3. QED
      BY <1>3, <1>4, <2>1, <2>2 DEF PickEvent
  <1>5. ASSUME GuardGroup(d) PROVE Homed'
    <2>1. UNCHANGED <<accounts, group, eraser, messages>>
      BY <1>5 DEF GuardGroup
    <2>2. CASE ~Consented(drain[d].msg)
      BY <1>3, <1>5, <2>1, <2>2 DEF GuardGroup, Settle
    <2>3. CASE Consented(drain[d].msg)
      <3>1. drain' = [drain EXCEPT ![d].pc = "block"]
        BY <1>5, <2>3 DEF GuardGroup
      <3>2. /\ \A e \in Drains \ {d} : drain'[e] = drain[e]
            /\ drain'[d].msg = drain[d].msg
        BY <1>2, <3>1 DEF DrainState
      <3>3. QED
        BY <2>1, <2>3, <3>2 DEF Homed, NoBodyOutlivesItsGroup, Consented
    <2>4. QED
      BY <2>2, <2>3
  <1>6. ASSUME GuardBlock(d) PROVE Homed'
    <2>1. UNCHANGED <<accounts, group, eraser, messages>>
      BY <1>6 DEF GuardBlock
    <2>2. CASE ProcessingBlock(OwnerOf(drain[d].msg))
      BY <1>3, <1>6, <2>1, <2>2 DEF GuardBlock, Settle
    <2>3. CASE ~ProcessingBlock(OwnerOf(drain[d].msg))
      <3>1. drain' = [drain EXCEPT ![d].pc = "store"] /\ drain[d].pc = "block"
        BY <1>6, <2>3 DEF GuardBlock
      <3>2. /\ \A e \in Drains \ {d} : drain'[e] = drain[e]
            /\ drain'[d].msg = drain[d].msg /\ drain'[d].row = drain[d].row
        BY <1>2, <3>1 DEF DrainState
      <3>3. QED
        BY <2>1, <3>1, <3>2 DEF Homed, NoBodyOutlivesItsGroup
    <2>4. QED
      BY <2>2, <2>3
  <1>7. ASSUME StoreMessage(d) PROVE Homed'
    <2> DEFINE m == drain[d].msg
    <2>1. /\ UNCHANGED <<accounts, group, eraser>>
          /\ messages' = messages \cup {m}
          /\ drain' = [drain EXCEPT ![d] = IdleDrain]
          /\ drain[d].pc = "store" /\ drain[d].row = "live"
      BY <1>7 DEF StoreMessage, Settle, GroupRowStands
    <2>2. group[GroupOf(m)] # "absent" /\ OwnerOf(m) \in accounts
      BY <2>1 DEF Homed
    <2>3. (\A e \in Drains \ {d} : drain'[e] = drain[e]) /\ drain'[d].pc = "idle"
      BY <1>2, <2>1 DEF IdleDrain
    <2> HIDE DEF m
    <2>4. QED
      BY <2>1, <2>2, <2>3 DEF Homed, NoBodyOutlivesItsGroup
  <1>8. ASSUME StoreFails(d) PROVE Homed'
    BY <1>3, <1>8 DEF StoreFails
  <1>9. QED
    BY <1>4, <1>5, <1>6, <1>7, <1>8 DEF DrainStep

\* The holder: an erasure takes the bodies with the Group, and the foreign key
\* tells the passes that had read it.
LEMMA HolderHomed ==
    ASSUME Inv, Homed, HolderStep
    PROVE  Homed'
  <1> USE DEF userVars, storeVars, boundVars
  <1>1. messages \subseteq Msgs /\ \A d \in Drains : drain[d].pc # "idle" => drain[d].msg \in Msgs
    BY DEF Inv, TypeOK, Holdings, DrainState
  <1>2. ASSUME NEW g \in GroupKeys, NEW e \in BOOLEAN, SetEnabled(g, e) PROVE Homed'
    <2>1. \A k \in GroupKeys : group[k] # "absent" => group'[k] # "absent"
      BY <1>2 DEF SetEnabled, Inv, TypeOK
    <2>2. UNCHANGED <<accounts, eraser, messages, drain>>
      BY <1>2 DEF SetEnabled
    <2>3. QED
      BY <1>1, <2>1, <2>2, HomedStays
  <1>3. ASSUME NEW u \in Users, SetBlocked(u) PROVE Homed'
    BY <1>1, <1>3, HomedStays DEF SetBlocked
  <1>4. ASSUME NEW g \in GroupKeys, BeginDeleteGroup(g) PROVE Homed'
    <2>1. eraser'.pc = "group" /\ UNCHANGED <<accounts, group, messages, drain>>
      BY <1>4 DEF BeginDeleteGroup
    <2>2. QED
      BY <2>1 DEF Homed, NoBodyOutlivesItsGroup
  <1>5. ASSUME NEW u \in Users, BeginDeleteAccount(u) PROVE Homed'
    <2>1. eraser'.target = {g \in GroupKeys : OwnerOfGroup(g) = u}
          /\ UNCHANGED <<accounts, group, messages, drain>>
      BY <1>5 DEF BeginDeleteAccount
    <2>2. QED
      BY <2>1 DEF Homed, NoBodyOutlivesItsGroup
  <1>6. ASSUME CommitErasure PROVE Homed'
    <2> DEFINE bodies == {m \in Msgs : GroupOf(m) \in eraser.target}
    <2>1. /\ accounts' = IF eraser.pc = "account"
                           THEN accounts \ {OwnerOfGroup(g) : g \in eraser.target} ELSE accounts
          /\ group' = [g \in GroupKeys |-> IF g \in eraser.target THEN "absent" ELSE group[g]]
          /\ messages' = messages \ bodies
          /\ drain' = [d \in Drains |-> IF drain[d].msg \in bodies
                                          THEN [drain[d] EXCEPT !.row = "gone"] ELSE drain[d]]
          /\ eraser' = IdleEraser
      BY <1>6 DEF CommitErasure
    <2>2. eraser.target \subseteq GroupKeys
      BY DEF Inv, TypeOK, EraserState
    \* What is not of the target keeps its Group and its Account.
    <2>3. ASSUME NEW m \in Msgs, m \notin bodies, group[GroupOf(m)] # "absent", OwnerOf(m) \in accounts
          PROVE  group'[GroupOf(m)] # "absent" /\ OwnerOf(m) \in accounts'
      BY <2>1, <2>2, <2>3, KeyTypes, OwnerAgrees DEF Homed
    <2>4. \A d \in Drains : /\ drain[d].msg \in bodies => drain'[d].row = "gone"
                            /\ drain[d].msg \notin bodies => drain'[d] = drain[d]
      BY <2>1 DEF Inv, TypeOK, DrainState
    <2> HIDE DEF bodies
    <2>5. NoBodyOutlivesItsGroup'
      BY <1>1, <2>1, <2>3 DEF Homed, NoBodyOutlivesItsGroup
    <2>6. ASSUME NEW d \in Drains, drain'[d].pc \in {"block", "store"}, drain'[d].row = "live"
          PROVE  group'[GroupOf(drain'[d].msg)] # "absent" /\ OwnerOf(drain'[d].msg) \in accounts'
      <3>1. drain'[d] = drain[d] /\ drain[d].msg \notin bodies /\ drain[d].msg \in Msgs
        BY <1>1, <2>4, <2>6
      <3>2. QED
        BY <2>3, <2>6, <3>1 DEF Homed
    <2>7. eraser'.pc = "idle"
      BY <2>1 DEF IdleEraser
    <2>8. QED
      BY <2>5, <2>6, <2>7 DEF Homed
  <1>7. QED
    BY <1>2, <1>3, <1>4, <1>5, <1>6 DEF HolderStep

\* Time, the purge and crashes.
LEMMA ClockHomed ==
    ASSUME Inv, Homed, ClockStep
    PROVE  Homed'
  <1> USE DEF userVars, storeVars, boundVars
  <1>1. messages \subseteq Msgs /\ \A d \in Drains : drain[d].pc # "idle" => drain[d].msg \in Msgs
    BY DEF Inv, TypeOK, Holdings, DrainState
  <1>2. ASSUME NEW m \in Msgs, Age(m) PROVE Homed'
    BY <1>1, <1>2, HomedStays DEF Age
  <1>3. ASSUME NEW m \in Msgs, Expire(m) PROVE Homed'
    BY <1>1, <1>3, HomedStays DEF Expire
  <1>4. ASSUME Midnight PROVE Homed'
    BY <1>1, <1>4, HomedStays DEF Midnight
  <1>5. ASSUME PurgeExpired PROVE Homed'
    BY <1>1, <1>5, HomedStays DEF PurgeExpired
  <1>6. ASSUME Crash PROVE Homed'
    BY <1>6 DEF Crash, IdleDrain, IdleEraser, Homed, NoBodyOutlivesItsGroup
  <1>7. QED
    BY <1>2, <1>3, <1>4, <1>5, <1>6 DEF ClockStep

\* An erased Group or Account leaves no body behind (privacy.ts deleteGroupData,
\* deleteAccount), even one that a drain pass was storing meanwhile: the row its
\* consent check read is gone and the foreign key refuses the INSERT.
THEOREM ErasureIsComplete == Spec => []NoBodyOutlivesItsGroup
  <1>1. Init => Homed
    BY DEF Init, Homed, NoBodyOutlivesItsGroup, IdleDrain, IdleEraser
  <1>2. Inv /\ Homed /\ [Next]_vars => Homed'
    <2> SUFFICES ASSUME Inv, Homed, [Next]_vars PROVE Homed'
      OBVIOUS
    <2>1. CASE Next
      BY <2>1, HandlerHomed, DrainHomed, HolderHomed, ClockHomed DEF Next
    <2>2. CASE UNCHANGED vars
      BY <2>2 DEF vars, Homed, NoBodyOutlivesItsGroup
    <2>3. QED
      BY <2>1, <2>2
  <1>3. Homed => NoBodyOutlivesItsGroup
    BY DEF Homed
  <1>4. QED
    BY IngestInvariant, <1>1, <1>2, <1>3, PTL DEF Spec
-----------------------------------------------------------------------------
(* The queue, the drains and the purge implement MessageLife.              *)

\* Where the mapping puts a body.
LEMMA PhaseIs ==
    /\ DOMAIN phaseOf = Msgs
    /\ \A m \in Msgs :
        /\ m \in messages => phaseOf[m] = "kept"
        /\ m \in purged \ messages => phaseOf[m] = "purged"
        /\ m \notin messages \cup purged /\ event[m].status = "pending" => phaseOf[m] = "queued"
        /\ m \notin messages \cup purged /\ event[m].status \in {"done", "skipped"}
              => phaseOf[m] = "dropped"
        /\ m \notin messages \cup purged /\ event[m].status \notin {"pending", "done", "skipped"}
              => phaseOf[m] = "unseen"
  BY DEF phaseOf

\* The same of the next state.
LEMMA PhaseBecomes ==
    /\ DOMAIN phaseOf' = Msgs
    /\ \A m \in Msgs :
        /\ m \in messages' => phaseOf'[m] = "kept"
        /\ m \in purged' \ messages' => phaseOf'[m] = "purged"
        /\ m \notin messages' \cup purged' /\ event'[m].status = "pending" => phaseOf'[m] = "queued"
        /\ m \notin messages' \cup purged' /\ event'[m].status \in {"done", "skipped"}
              => phaseOf'[m] = "dropped"
        /\ m \notin messages' \cup purged' /\ event'[m].status \notin {"pending", "done", "skipped"}
              => phaseOf'[m] = "unseen"
  BY DEF phaseOf

\* A body moves where its message, its purge or its queue row does.
LEMMA PhaseStays ==
    ASSUME UNCHANGED <<messages, purged, event>>
    PROVE  phaseOf' = phaseOf
  BY DEF phaseOf

\* One queue row is settled and the body is stored, or not.
LEMMA PhaseSettles ==
    ASSUME Inv, NEW d \in Drains, drain[d].pc # "idle", purged' = purged,
           NEW status \in {"done", "skipped"}, Settle(d, status),
           \/ messages' = messages
           \/ status = "done" /\ messages' = messages \cup {drain[d].msg}
    PROVE  Life!Next
  <1> DEFINE m == drain[d].msg
  <1>1. m \in Msgs /\ event[m].status = "pending" /\ m \notin messages \cup purged
    BY DEF Inv, TypeOK, Holdings, DrainState, Settled
  <1>2. /\ event'[m].status = status
        /\ \A n \in Msgs \ {m} : event'[n] = event[n]
    BY <1>1 DEF Settle, Inv, TypeOK
  <1> HIDE DEF m
  <1>3. CASE messages' = messages
    <2>1. \A n \in Msgs \ {m} : phaseOf'[n] = phaseOf[n]
      BY <1>2, <1>3 DEF phaseOf
    <2>2. phaseOf[m] = "queued" /\ phaseOf'[m] = "dropped"
      BY <1>1, <1>2, <1>3, PhaseIs, PhaseBecomes
    <2>3. phaseOf' = [phaseOf EXCEPT ![m] = "dropped"]
      BY <1>1, <2>1, <2>2 DEF phaseOf
    <2>4. Life!Drop(m)
      BY <2>2, <2>3 DEF Life!Drop, Life!Move
    <2>5. QED
      BY <1>1, <2>4 DEF Life!Next
  <1>4. CASE messages' = messages \cup {m}
    <2>1. \A n \in Msgs \ {m} : phaseOf'[n] = phaseOf[n]
      BY <1>2, <1>4 DEF phaseOf
    <2>2. phaseOf[m] = "queued" /\ phaseOf'[m] = "kept"
      BY <1>1, <1>2, <1>4, PhaseIs, PhaseBecomes
    <2>3. phaseOf' = [phaseOf EXCEPT ![m] = "kept"]
      BY <1>1, <2>1, <2>2 DEF phaseOf
    <2>4. Life!Keep(m)
      BY <2>2, <2>3 DEF Life!Keep, Life!Move
    <2>5. QED
      BY <1>1, <2>4 DEF Life!Next
  <1>5. QED
    BY <1>3, <1>4 DEF m

\* A webhook request accepts a body, or moves none.
LEMMA HandlerLives ==
    ASSUME Inv, NEW h \in Handlers, HandlerStep(h)
    PROVE  Life!Next \/ UNCHANGED phaseOf
  <1> USE DEF userVars, storeVars, boundVars
  <1>1. ASSUME NEW m \in Msgs, Receive(h, m) PROVE UNCHANGED phaseOf
    BY <1>1, PhaseStays DEF Receive
  <1>2. ASSUME LookupSubscription(h) PROVE UNCHANGED phaseOf
    BY <1>2, PhaseStays DEF LookupSubscription
  <1>3. ASSUME CheckIngressBlock(h) PROVE UNCHANGED phaseOf
    BY <1>3, PhaseStays DEF CheckIngressBlock
  <1>4. ASSUME DropOrRegister(h) PROVE UNCHANGED phaseOf
    BY <1>4, PhaseStays DEF DropOrRegister
  <1>5. ASSUME Enqueue(h) PROVE Life!Next \/ UNCHANGED phaseOf
    <2> DEFINE m == handler[h].msg
    <2>1. m \in Msgs
      BY <1>5 DEF Enqueue, Inv, TypeOK, Holdings, HandlerState
    <2>2. CASE event[m].status # "none"
      BY <1>5, <2>2, PhaseStays DEF Enqueue
    <2>3. CASE event[m].status = "none"
      <3>1. /\ event' = [event EXCEPT ![m] = [status |-> "pending", id |-> nextId]]
            /\ UNCHANGED <<messages, purged>>
        BY <1>5, <2>3 DEF Enqueue
      <3>2. m \notin messages \cup purged
        BY <2>3 DEF Inv, Settled, Sealed, TypeOK
      <3>3. event'[m].status = "pending" /\ \A n \in Msgs \ {m} : event'[n] = event[n]
        BY <2>1, <3>1 DEF Inv, TypeOK
      <3>4. phaseOf[m] = "unseen" /\ phaseOf'[m] = "queued"
        BY <2>1, <2>3, <3>1, <3>2, <3>3, PhaseIs, PhaseBecomes
      <3> HIDE DEF m
      <3>5. \A n \in Msgs \ {m} : phaseOf'[n] = phaseOf[n]
        BY <3>1, <3>3 DEF phaseOf
      <3>6. phaseOf' = [phaseOf EXCEPT ![m] = "queued"]
        BY <2>1, <3>4, <3>5 DEF phaseOf
      <3>7. Life!Accept(m)
        BY <3>4, <3>6 DEF Life!Accept, Life!Move
      <3>8. QED
        BY <2>1, <3>7 DEF Life!Next
    <2>4. QED
      BY <2>2, <2>3
  <1>6. QED
    BY <1>1, <1>2, <1>3, <1>4, <1>5 DEF HandlerStep

\* A drain pass keeps or drops the body it holds, or leaves it queued.
LEMMA DrainLives ==
    ASSUME Inv, NEW d \in Drains, DrainStep(d)
    PROVE  Life!Next \/ UNCHANGED phaseOf
  <1> USE DEF userVars, storeVars, boundVars
  <1>1. ASSUME PickEvent(d) PROVE UNCHANGED phaseOf
    BY <1>1, PhaseStays DEF PickEvent
  <1>2. ASSUME GuardGroup(d) PROVE Life!Next \/ UNCHANGED phaseOf
    <2>1. UNCHANGED <<messages, purged>> /\ drain[d].pc # "idle"
      BY <1>2 DEF GuardGroup
    <2>2. Settle(d, "skipped") \/ UNCHANGED event
      BY <1>2 DEF GuardGroup
    <2>3. QED
      BY <2>1, <2>2, PhaseStays, PhaseSettles
  <1>3. ASSUME GuardBlock(d) PROVE Life!Next \/ UNCHANGED phaseOf
    <2>1. UNCHANGED <<messages, purged>> /\ drain[d].pc # "idle"
      BY <1>3 DEF GuardBlock
    <2>2. Settle(d, "skipped") \/ UNCHANGED event
      BY <1>3 DEF GuardBlock
    <2>3. QED
      BY <2>1, <2>2, PhaseStays, PhaseSettles
  <1>4. ASSUME StoreMessage(d) PROVE Life!Next
    <2>1. drain[d].pc # "idle" /\ purged' = purged /\ messages' = messages \cup {drain[d].msg}
      BY <1>4 DEF StoreMessage
    <2>2. Settle(d, "done")
      BY <1>4 DEF StoreMessage, Inv, Settled, Holdings
    <2>3. QED
      BY <2>1, <2>2, PhaseSettles
  <1>5. ASSUME StoreFails(d) PROVE UNCHANGED phaseOf
    BY <1>5, PhaseStays DEF StoreFails
  <1>6. QED
    BY <1>1, <1>2, <1>3, <1>4, <1>5 DEF DrainStep

\* Only an erasure's COMMIT is a step of the holder that bodies notice.
LEMMA HolderLives ==
    ASSUME Inv, HolderStep
    PROVE  Life!Next \/ UNCHANGED phaseOf
  <1> USE DEF userVars, storeVars, boundVars
  <1>1. ASSUME NEW g \in GroupKeys, NEW e \in BOOLEAN, SetEnabled(g, e) PROVE UNCHANGED phaseOf
    BY <1>1, PhaseStays DEF SetEnabled
  <1>2. ASSUME NEW u \in Users, SetBlocked(u) PROVE UNCHANGED phaseOf
    BY <1>2, PhaseStays DEF SetBlocked
  <1>3. ASSUME NEW g \in GroupKeys, BeginDeleteGroup(g) PROVE UNCHANGED phaseOf
    BY <1>3, PhaseStays DEF BeginDeleteGroup
  <1>4. ASSUME NEW u \in Users, BeginDeleteAccount(u) PROVE UNCHANGED phaseOf
    BY <1>4, PhaseStays DEF BeginDeleteAccount
  <1>5. ASSUME CommitErasure PROVE Life!Next
    <2>1. /\ purged' = purged /\ messages' \subseteq messages
          /\ \A n \in Msgs : event'[n] = event[n] \/ event'[n] = NoEvent
      BY <1>5 DEF CommitErasure, Inv, TypeOK
    <2>2. phaseOf' \in [Msgs -> Life!Phases]
      BY DEF phaseOf, Life!Phases
    <2>3. ASSUME NEW n \in Msgs, phaseOf'[n] # phaseOf[n]
          PROVE  phaseOf[n] \in {"queued", "kept", "dropped"} /\ phaseOf'[n] \in {"unseen", "dropped"}
      <3>1. n \notin purged
        BY <2>1, <2>3, PhaseIs, PhaseBecomes DEF Inv, PurgedStaysGone
      <3>2. event[n].status \in EventStatus
        BY DEF Inv, TypeOK
      <3>3. CASE n \in messages
        <4>1. phaseOf[n] = "kept" /\ n \notin messages'
          BY <2>3, <3>3, PhaseIs, PhaseBecomes
        <4>2. event'[n].status \in {"none", "done", "skipped"}
          BY <2>1, <3>3 DEF Inv, Settled, NoEvent
        <4>3. QED
          BY <2>1, <3>1, <4>1, <4>2, PhaseBecomes
      <3>4. CASE n \notin messages
        <4>1. n \notin messages' \cup purged'
          BY <2>1, <3>1, <3>4
        <4>2. event'[n] # event[n]
          BY <2>1, <2>3, <3>4 DEF phaseOf
        <4>3. event'[n].status = "none"
          BY <2>1, <4>2 DEF NoEvent
        <4>4. phaseOf'[n] = "unseen"
          BY <4>1, <4>3, PhaseBecomes
        <4>5. QED
          BY <2>3, <3>1, <3>2, <3>4, <4>4, PhaseIs DEF EventStatus
      <3>5. QED
        BY <3>3, <3>4
    <2>4. Life!Erase
      BY <2>2, <2>3 DEF Life!Erase
    <2>5. QED
      BY <2>4 DEF Life!Next
  <1>6. QED
    BY <1>1, <1>2, <1>3, <1>4, <1>5 DEF HolderStep

\* Of time and failure, bodies notice the purge alone.
LEMMA ClockLives ==
    ASSUME Inv, ClockStep
    PROVE  Life!Next \/ UNCHANGED phaseOf
  <1> USE DEF userVars, storeVars, boundVars
  <1>1. ASSUME NEW m \in Msgs, Age(m) PROVE UNCHANGED phaseOf
    BY <1>1, PhaseStays DEF Age
  <1>2. ASSUME NEW m \in Msgs, Expire(m) PROVE UNCHANGED phaseOf
    BY <1>2, PhaseStays DEF Expire
  <1>3. ASSUME Midnight PROVE UNCHANGED phaseOf
    BY <1>3, PhaseStays DEF Midnight
  <1>4. ASSUME PurgeExpired PROVE Life!Next
    <2>1. /\ expired # {} /\ expired \subseteq messages /\ expired \subseteq Msgs
          /\ messages' = messages \ expired /\ purged' = purged \cup expired /\ event' = event
      BY <1>4 DEF PurgeExpired, Inv, TypeOK
    <2>2. \A m \in expired : phaseOf[m] = "kept" /\ phaseOf'[m] = "purged"
      BY <2>1, PhaseIs, PhaseBecomes
    <2>3. \A m \in Msgs \ expired : phaseOf'[m] = phaseOf[m]
      BY <2>1 DEF phaseOf
    <2>4. phaseOf' = [m \in Msgs |-> IF m \in expired THEN "purged" ELSE phaseOf[m]]
      BY <2>1, <2>2, <2>3 DEF phaseOf
    <2>5. Life!Purge(expired)
      BY <2>1, <2>2, <2>4 DEF Life!Purge
    <2>6. QED
      BY <2>1, <2>5 DEF Life!Next
  <1>5. ASSUME Crash PROVE UNCHANGED phaseOf
    BY <1>5, PhaseStays DEF Crash
  <1>6. QED
    BY <1>1, <1>2, <1>3, <1>4, <1>5 DEF ClockStep

\* The pipeline keeps MessageLife's promise (consumer.ts, retention.ts,
\* privacy.ts): a body is accepted once, kept at most once or dropped, and the
\* purge is for good, whatever overlaps, is redelivered, is erased or crashes.
THEOREM PipelineImplementsLife == Spec => LifeSpec
  <1>1. Init => Life!Init
    BY DEF Init, NoEvent, phaseOf, Life!Init
  <1>2. Inv /\ [Next]_vars => [Life!Next]_phaseOf
    <2> SUFFICES ASSUME Inv, [Next]_vars PROVE Life!Next \/ UNCHANGED phaseOf
      OBVIOUS
    <2>1. CASE Next
      BY <2>1, HandlerLives, DrainLives, HolderLives, ClockLives DEF Next
    <2>2. CASE UNCHANGED vars
      BY <2>2, PhaseStays DEF vars
    <2>3. QED
      BY <2>1, <2>2
  <1>3. QED
    BY IngestInvariant, <1>1, <1>2, PTL DEF Spec, LifeSpec, Life!Spec
-----------------------------------------------------------------------------
(* What overlapping passes can exceed: consent and the daily cap.          *)

\* The passes beyond their consent check of a Group.
InFlight(g) == {d \in Drains : drain[d].pc \in {"block", "store"} /\ GroupOf(drain[d].msg) = g}

\* The passes beyond the cap's check of an Account, and what the cap counts.
Storing(u) == {d \in Drains : drain[d].pc = "store" /\ OwnerOf(drain[d].msg) = u}
CountedFor(u) == {m \in today : OwnerOf(m) = u}

\* A Group's late messages and the passes that may still add one are no more
\* than the passes: after a disable no pass gets beyond the check.
LateAt(g) ==
    /\ group[g] = "enabled" => lateStores[g] = 0
    /\ lateStores[g] + Cardinality(InFlight(g)) <= Cardinality(Drains)

\* What is counted and what is about to be stored exceed the cap by no more
\* than the passes that were let in while there was room for one.
CapAt(u) ==
    /\ IsFiniteSet(CountedFor(u))
    /\ MessagesToday(u) + Cardinality(Storing(u)) <= MessageCap + Cardinality(Drains) - 1

Bounded == (\A g \in GroupKeys : LateAt(g)) /\ (\A u \in Users : CapAt(u))

\* A set within a finite one is finite and not larger.
LEMMA Fewer ==
    ASSUME NEW B, IsFiniteSet(B), NEW A, A \subseteq B
    PROVE  /\ IsFiniteSet(A)
           /\ Cardinality(A) \in Nat /\ Cardinality(B) \in Nat
           /\ Cardinality(A) <= Cardinality(B)
  BY FS_Subset, FS_CardinalityType

\* The passes are finitely many and at least one.
LEMMA Passes ==
    /\ Cardinality(Drains) \in Nat /\ Cardinality(Drains) >= 1
    /\ \A g : IsFiniteSet(InFlight(g)) /\ Cardinality(InFlight(g)) \in Nat
    /\ \A u : IsFiniteSet(Storing(u)) /\ Cardinality(Storing(u)) \in Nat
  <1>1. Cardinality(Drains) \in Nat
    BY DrainsAssumption, FS_CardinalityType DEF DrainsAssumption
  <1>2. Cardinality(Drains) # 0
    BY DrainsAssumption, FS_EmptySet DEF DrainsAssumption
  <1>3. \A g : InFlight(g) \subseteq Drains
    BY DEF InFlight
  <1>4. \A u : Storing(u) \subseteq Drains
    BY DEF Storing
  <1>5. IsFiniteSet(Drains)
    BY DrainsAssumption DEF DrainsAssumption
  <1>6. \A g : IsFiniteSet(InFlight(g)) /\ Cardinality(InFlight(g)) \in Nat
    BY <1>3, <1>5, Fewer
  <1>7. \A u : IsFiniteSet(Storing(u)) /\ Cardinality(Storing(u)) \in Nat
    BY <1>4, <1>5, Fewer
  <1>8. QED
    BY <1>1, <1>2, <1>6, <1>7

\* Fewer passes in flight and no more late messages.
LEMMA LateEases ==
    ASSUME Inv, NEW g \in GroupKeys, LateAt(g), InFlight(g)' \subseteq InFlight(g),
           lateStores'[g] \in {0, lateStores[g]},
           group'[g] = "enabled" => lateStores'[g] = 0
    PROVE  LateAt(g)'
  <1>1. IsFiniteSet(InFlight(g))
    BY Passes
  <1>2. /\ Cardinality(InFlight(g)') \in Nat /\ Cardinality(InFlight(g)) \in Nat
        /\ Cardinality(InFlight(g)') <= Cardinality(InFlight(g))
    BY <1>1, Fewer
  <1>3. lateStores[g] \in Nat /\ Cardinality(Drains) \in Nat
    BY Passes DEF Inv, TypeOK
  <1>4. lateStores'[g] + Cardinality(InFlight(g)') <= Cardinality(Drains)
    BY <1>2, <1>3 DEF LateAt
  <1>5. QED
    BY <1>4 DEF LateAt

\* Fewer passes about to store and no more messages that count.
LEMMA CapEases ==
    ASSUME NEW u \in Users, CapAt(u), Storing(u)' \subseteq Storing(u),
           CountedFor(u)' \subseteq CountedFor(u)
    PROVE  CapAt(u)'
  <1>1. IsFiniteSet(Storing(u)) /\ IsFiniteSet(CountedFor(u))
    BY Passes DEF CapAt
  <1>2. /\ Cardinality(Storing(u)') \in Nat /\ Cardinality(Storing(u)) \in Nat
        /\ Cardinality(Storing(u)') <= Cardinality(Storing(u))
    BY <1>1, Fewer
  <1>3. /\ IsFiniteSet(CountedFor(u)')
        /\ Cardinality(CountedFor(u)') \in Nat /\ Cardinality(CountedFor(u)) \in Nat
        /\ Cardinality(CountedFor(u)') <= Cardinality(CountedFor(u))
    BY <1>1, Fewer
  <1>4. MessageCap \in Nat /\ Cardinality(Drains) \in Nat
    BY Passes, IngestAssumption DEF IngestAssumption
  <1>5. /\ MessagesToday(u) = Cardinality(CountedFor(u))
        /\ MessagesToday(u)' = Cardinality(CountedFor(u)')
    BY DEF MessagesToday, CountedFor
  <1>6. MessagesToday(u)' + Cardinality(Storing(u)') <= MessageCap + Cardinality(Drains) - 1
    BY <1>2, <1>3, <1>4, <1>5 DEF CapAt
  <1>7. QED
    BY <1>3, <1>6 DEF CapAt

\* A step after which no pass is further on, nothing more counts and no Group
\* is newly enabled.
LEMMA BoundedStays ==
    ASSUME Inv, Bounded, lateStores' = lateStores, today' \subseteq today,
           \A g \in GroupKeys : group'[g] = "enabled" => group[g] = "enabled",
           \A d \in Drains : \/ drain'[d].pc \in {"idle", "group"}
                             \/ drain'[d].pc = drain[d].pc /\ drain'[d].msg = drain[d].msg
    PROVE  Bounded'
  <1>1. ASSUME NEW g \in GroupKeys PROVE LateAt(g)'
    <2>1. InFlight(g)' \subseteq InFlight(g)
      BY DEF InFlight
    <2>2. QED
      BY <2>1, LateEases DEF Bounded, LateAt
  <1>2. ASSUME NEW u \in Users PROVE CapAt(u)'
    <2>1. Storing(u)' \subseteq Storing(u) /\ CountedFor(u)' \subseteq CountedFor(u)
      BY DEF Storing, CountedFor
    <2>2. QED
      BY <2>1, CapEases DEF Bounded
  <1>3. QED
    BY <1>1, <1>2 DEF Bounded

\* A pass gets beyond its consent check of an enabled Group, which has had no
\* late message.
LEMMA ConsentBounded ==
    ASSUME Inv, Bounded, NEW d \in Drains, GuardGroup(d)
    PROVE  Bounded'
  <1> USE DEF userVars, storeVars, boundVars
  <1>1. UNCHANGED <<group, today, lateStores>> /\ drain \in [Drains -> DrainState]
    BY DEF GuardGroup, Inv, TypeOK
  <1>2. CASE ~Consented(drain[d].msg)
    <2>1. drain' = [drain EXCEPT ![d] = IdleDrain]
      BY <1>2 DEF GuardGroup, Settle
    <2>2. \A e \in Drains : drain'[e].pc = "idle" \/ drain'[e] = drain[e]
      BY <1>1, <2>1 DEF IdleDrain
    <2>3. QED
      BY <1>1, <2>2, BoundedStays
  <1>3. CASE Consented(drain[d].msg)
    <2>1. drain' = [drain EXCEPT ![d].pc = "block"] /\ group[GroupOf(drain[d].msg)] = "enabled"
      BY <1>3 DEF GuardGroup, Consented
    <2>2. /\ \A e \in Drains \ {d} : drain'[e] = drain[e]
          /\ drain'[d].msg = drain[d].msg /\ drain'[d].pc = "block"
      BY <1>1, <2>1 DEF DrainState
    <2>3. ASSUME NEW g \in GroupKeys PROVE LateAt(g)'
      <3>1. CASE g = GroupOf(drain[d].msg)
        <4>1. InFlight(g)' \subseteq Drains /\ IsFiniteSet(Drains)
          BY DrainsAssumption DEF InFlight, DrainsAssumption
        <4>2. /\ Cardinality(InFlight(g)') \in Nat /\ Cardinality(Drains) \in Nat
              /\ Cardinality(InFlight(g)') <= Cardinality(Drains)
          BY <4>1, Fewer
        <4>3. lateStores'[g] = 0
          BY <1>1, <2>1, <3>1 DEF Bounded, LateAt
        <4>4. lateStores'[g] + Cardinality(InFlight(g)') <= Cardinality(Drains)
          BY <4>2, <4>3
        <4>5. QED
          BY <4>3, <4>4 DEF LateAt
      <3>2. CASE g # GroupOf(drain[d].msg)
        <4>1. InFlight(g)' \subseteq InFlight(g)
          BY <2>2, <3>2 DEF InFlight
        <4>2. QED
          BY <1>1, <4>1, LateEases DEF Bounded, LateAt
      <3>3. QED
        BY <3>1, <3>2
    <2>4. ASSUME NEW u \in Users PROVE CapAt(u)'
      <3>1. Storing(u)' \subseteq Storing(u) /\ CountedFor(u)' \subseteq CountedFor(u)
        BY <1>1, <2>2 DEF Storing, CountedFor
      <3>2. QED
        BY <3>1, CapEases DEF Bounded
    <2>5. QED
      BY <2>3, <2>4 DEF Bounded
  <1>4. QED
    BY <1>2, <1>3

\* A pass gets beyond the cap's check of an Account that has room for a message.
LEMMA RoomBounded ==
    ASSUME Inv, Bounded, NEW d \in Drains, GuardBlock(d)
    PROVE  Bounded'
  <1> USE DEF userVars, storeVars, boundVars
  <1>1. UNCHANGED <<group, today, lateStores>> /\ drain \in [Drains -> DrainState]
    BY DEF GuardBlock, Inv, TypeOK
  <1>2. CASE ProcessingBlock(OwnerOf(drain[d].msg))
    <2>1. drain' = [drain EXCEPT ![d] = IdleDrain]
      BY <1>2 DEF GuardBlock, Settle
    <2>2. \A e \in Drains : drain'[e].pc = "idle" \/ drain'[e] = drain[e]
      BY <1>1, <2>1 DEF IdleDrain
    <2>3. QED
      BY <1>1, <2>2, BoundedStays
  <1>3. CASE ~ProcessingBlock(OwnerOf(drain[d].msg))
    <2>1. drain[d].pc = "block" /\ drain' = [drain EXCEPT ![d].pc = "store"]
      BY <1>3 DEF GuardBlock
    <2>2. /\ \A e \in Drains \ {d} : drain'[e] = drain[e]
          /\ drain'[d].msg = drain[d].msg /\ drain'[d].pc = "store"
      BY <1>1, <2>1 DEF DrainState
    <2>3. ASSUME NEW g \in GroupKeys PROVE LateAt(g)'
      <3>1. InFlight(g)' \subseteq InFlight(g)
        BY <2>1, <2>2 DEF InFlight
      <3>2. QED
        BY <1>1, <3>1, LateEases DEF Bounded, LateAt
    <2>4. ASSUME NEW u \in Users PROVE CapAt(u)'
      <3>0. CountedFor(u)' = CountedFor(u)
        BY <1>1 DEF CountedFor
      <3>1. CASE u = OwnerOf(drain[d].msg)
        <4>1. Storing(u)' \subseteq Drains /\ IsFiniteSet(Drains)
          BY DrainsAssumption DEF Storing, DrainsAssumption
        <4>2. /\ Cardinality(Storing(u)') \in Nat /\ Cardinality(Drains) \in Nat
              /\ Cardinality(Storing(u)') <= Cardinality(Drains)
          BY <4>1, Fewer
        <4>3. IsFiniteSet(CountedFor(u)) /\ Cardinality(CountedFor(u)) \in Nat
          BY FS_CardinalityType DEF Bounded, CapAt
        <4>4. /\ MessagesToday(u) = Cardinality(CountedFor(u))
              /\ MessagesToday(u)' = MessagesToday(u)
          BY <1>1 DEF MessagesToday, CountedFor
        <4>5. MessageCap \in Nat /\ ~(MessagesToday(u) >= MessageCap)
          BY <1>3, <3>1, IngestAssumption DEF IngestAssumption, ProcessingBlock
        <4>6. MessagesToday(u)' + Cardinality(Storing(u)') <= MessageCap + Cardinality(Drains) - 1
          BY <4>2, <4>3, <4>4, <4>5
        <4>7. QED
          BY <3>0, <4>3, <4>6 DEF CapAt
      <3>2. CASE u # OwnerOf(drain[d].msg)
        <4>1. Storing(u)' \subseteq Storing(u)
          BY <2>2, <3>2 DEF Storing
        <4>2. QED
          BY <3>0, <4>1, CapEases DEF Bounded
      <3>3. QED
        BY <3>1, <3>2
    <2>5. QED
      BY <2>3, <2>4 DEF Bounded
  <1>4. QED
    BY <1>2, <1>3

\* A pass stores: what was in flight becomes late, or counts.
LEMMA StoreBounded ==
    ASSUME Inv, Bounded, NEW d \in Drains, StoreMessage(d)
    PROVE  Bounded'
  <1> DEFINE m == drain[d].msg
  <1> USE DEF userVars, storeVars, boundVars
  <1>1. /\ group' = group /\ today' \subseteq today \cup {m}
        /\ drain[d].pc = "store" /\ drain' = [drain EXCEPT ![d] = IdleDrain]
        /\ lateStores' = IF group[GroupOf(m)] = "enabled" THEN lateStores
                         ELSE [lateStores EXCEPT ![GroupOf(m)] = @ + 1]
    BY DEF StoreMessage, Settle
  <1>2. m \in Msgs /\ drain \in [Drains -> DrainState] /\ lateStores \in [GroupKeys -> Nat]
    BY <1>1 DEF Inv, TypeOK, Holdings, DrainState
  <1>3. (\A e \in Drains \ {d} : drain'[e] = drain[e]) /\ drain'[d].pc = "idle"
    BY <1>1, <1>2 DEF IdleDrain
  <1> HIDE DEF m
  <1>4. ASSUME NEW g \in GroupKeys PROVE LateAt(g)'
    <2>1. InFlight(g)' \subseteq InFlight(g)
      BY <1>3 DEF InFlight
    <2>2. CASE g # GroupOf(m) \/ group[g] = "enabled"
      <3>1. lateStores'[g] = lateStores[g]
        BY <1>1, <1>2, <2>2
      <3>2. QED
        BY <1>1, <2>1, <3>1, LateEases DEF Bounded, LateAt
    <2>3. CASE g = GroupOf(m) /\ group[g] # "enabled"
      <3>1. lateStores'[g] = lateStores[g] + 1
        BY <1>1, <1>2, <2>3
      <3>2. d \in InFlight(g) /\ InFlight(g)' = InFlight(g) \ {d}
        BY <1>1, <1>3, <2>3 DEF InFlight, m
      <3>3. IsFiniteSet(InFlight(g)) /\ Cardinality(InFlight(g)) \in Nat /\ Cardinality(Drains) \in Nat
        BY Passes
      <3>4. Cardinality(InFlight(g)') = Cardinality(InFlight(g)) - 1
        BY <3>2, <3>3, FS_RemoveElement
      <3>5. lateStores'[g] + Cardinality(InFlight(g)') <= Cardinality(Drains)
        BY <1>2, <3>1, <3>3, <3>4 DEF Bounded, LateAt
      <3>6. QED
        BY <1>1, <2>3, <3>5 DEF LateAt
    <2>4. QED
      BY <2>2, <2>3
  <1>5. ASSUME NEW u \in Users PROVE CapAt(u)'
    <2>1. Storing(u)' \subseteq Storing(u)
      BY <1>3 DEF Storing
    <2>2. CASE u # OwnerOf(m)
      <3>1. CountedFor(u)' \subseteq CountedFor(u)
        BY <1>1, <2>2 DEF CountedFor
      <3>2. QED
        BY <2>1, <3>1, CapEases DEF Bounded
    <2>3. CASE u = OwnerOf(m)
      <3>1. d \in Storing(u) /\ Storing(u)' = Storing(u) \ {d}
        BY <1>1, <1>3, <2>3 DEF Storing, m
      <3>2. IsFiniteSet(Storing(u)) /\ Cardinality(Storing(u)) \in Nat /\ Cardinality(Drains) \in Nat
        BY Passes
      <3>3. Cardinality(Storing(u)') = Cardinality(Storing(u)) - 1
        BY <3>1, <3>2, FS_RemoveElement
      <3>4. CountedFor(u)' \subseteq CountedFor(u) \cup {m}
        BY <1>1 DEF CountedFor
      <3>5. IsFiniteSet(CountedFor(u)) /\ Cardinality(CountedFor(u)) \in Nat
        BY FS_CardinalityType DEF Bounded, CapAt
      <3>6. /\ IsFiniteSet(CountedFor(u) \cup {m})
            /\ Cardinality(CountedFor(u) \cup {m}) <= Cardinality(CountedFor(u)) + 1
        BY <3>5, FS_AddElement
      <3>7. /\ IsFiniteSet(CountedFor(u)') /\ Cardinality(CountedFor(u)') \in Nat
            /\ Cardinality(CountedFor(u) \cup {m}) \in Nat
            /\ Cardinality(CountedFor(u)') <= Cardinality(CountedFor(u) \cup {m})
        BY <3>4, <3>6, Fewer
      <3>8. /\ MessagesToday(u) = Cardinality(CountedFor(u))
            /\ MessagesToday(u)' = Cardinality(CountedFor(u)')
        BY DEF MessagesToday, CountedFor
      <3>9. MessageCap \in Nat
        BY IngestAssumption DEF IngestAssumption
      <3>10. MessagesToday(u)' + Cardinality(Storing(u)') <= MessageCap + Cardinality(Drains) - 1
        BY <3>2, <3>3, <3>5, <3>6, <3>7, <3>8, <3>9 DEF Bounded, CapAt
      <3>11. QED
        BY <3>7, <3>10 DEF CapAt
    <2>4. QED
      BY <2>2, <2>3
  <1>6. QED
    BY <1>4, <1>5 DEF Bounded

\* An erasure's COMMIT enables no Group and moves no pass.
LEMMA ErasureBounded ==
    ASSUME Inv, Bounded, CommitErasure
    PROVE  Bounded'
  <1>1. /\ lateStores' = lateStores /\ today' \subseteq today
        /\ \A g \in GroupKeys : group'[g] = "enabled" => group[g] = "enabled"
    BY DEF CommitErasure
  <1>2. \A d \in Drains : drain'[d].pc = drain[d].pc /\ drain'[d].msg = drain[d].msg
    BY DEF CommitErasure, Inv, TypeOK, DrainState
  <1>3. QED
    BY <1>1, <1>2, BoundedStays

\* Enabling a Group begins a new count of late messages.
LEMMA EnableBounded ==
    ASSUME Inv, Bounded, NEW g \in GroupKeys, NEW e \in BOOLEAN, SetEnabled(g, e)
    PROVE  Bounded'
  <1> USE DEF userVars, storeVars, boundVars
  <1>1. /\ group' = [group EXCEPT ![g] = IF e THEN "enabled" ELSE "disabled"]
        /\ lateStores' = IF e THEN [lateStores EXCEPT ![g] = 0] ELSE lateStores
        /\ UNCHANGED <<today, drain>>
    BY DEF SetEnabled
  <1>2. \A k \in GroupKeys : /\ lateStores'[k] \in {0, lateStores[k]}
                             /\ group'[k] = "enabled" => group[k] = "enabled" \/ lateStores'[k] = 0
    BY <1>1 DEF Inv, TypeOK
  <1>3. ASSUME NEW k \in GroupKeys PROVE LateAt(k)'
    <2>1. InFlight(k)' \subseteq InFlight(k)
      BY <1>1 DEF InFlight
    <2>2. QED
      BY <1>2, <2>1, LateEases DEF Bounded, LateAt
  <1>4. ASSUME NEW u \in Users PROVE CapAt(u)'
    <2>1. Storing(u)' \subseteq Storing(u) /\ CountedFor(u)' \subseteq CountedFor(u)
      BY <1>1 DEF Storing, CountedFor
    <2>2. QED
      BY <2>1, CapEases DEF Bounded
  <1>5. QED
    BY <1>3, <1>4 DEF Bounded

\* Every step of the pipeline.
LEMMA NextBounded ==
    ASSUME Inv, Bounded, Next
    PROVE  Bounded'
  <1> USE DEF userVars, storeVars, boundVars
  <1>1. ASSUME NEW h \in Handlers, HandlerStep(h) PROVE Bounded'
    <2>1. ASSUME NEW m \in Msgs, Receive(h, m) PROVE Bounded'
      BY <2>1, BoundedStays DEF Receive
    <2>2. ASSUME LookupSubscription(h) PROVE Bounded'
      BY <2>2, BoundedStays DEF LookupSubscription
    <2>3. ASSUME CheckIngressBlock(h) PROVE Bounded'
      BY <2>3, BoundedStays DEF CheckIngressBlock
    <2>4. ASSUME Enqueue(h) PROVE Bounded'
      BY <2>4, BoundedStays DEF Enqueue
    <2>5. ASSUME DropOrRegister(h) PROVE Bounded'
      <3>1. \A g \in GroupKeys : group'[g] = "enabled" => group[g] = "enabled"
        BY <2>5 DEF DropOrRegister, Inv, TypeOK
      <3>2. UNCHANGED <<lateStores, today, drain>>
        BY <2>5 DEF DropOrRegister
      <3>3. QED
        BY <3>1, <3>2, BoundedStays
    <2>6. QED
      BY <1>1, <2>1, <2>2, <2>3, <2>4, <2>5 DEF HandlerStep
  <1>2. ASSUME NEW d \in Drains, DrainStep(d) PROVE Bounded'
    <2>1. ASSUME PickEvent(d) PROVE Bounded'
      <3>1. UNCHANGED <<lateStores, today, group>> /\ drain \in [Drains -> DrainState]
        BY <2>1 DEF PickEvent, Inv, TypeOK
      <3>2. \A e \in Drains : drain'[e].pc = "group" \/ drain'[e] = drain[e]
        BY <2>1, <3>1 DEF PickEvent
      <3>3. QED
        BY <3>1, <3>2, BoundedStays
    <2>2. ASSUME StoreFails(d) PROVE Bounded'
      <3>1. UNCHANGED <<lateStores, today, group>> /\ drain \in [Drains -> DrainState]
        BY <2>2 DEF StoreFails, Inv, TypeOK
      <3>2. \A e \in Drains : drain'[e].pc = "idle" \/ drain'[e] = drain[e]
        BY <2>2, <3>1 DEF StoreFails, IdleDrain
      <3>3. QED
        BY <3>1, <3>2, BoundedStays
    <2>3. QED
      BY <1>2, <2>1, <2>2, ConsentBounded, RoomBounded, StoreBounded DEF DrainStep
  <1>3. ASSUME HolderStep PROVE Bounded'
    <2>1. ASSUME NEW u \in Users, SetBlocked(u) PROVE Bounded'
      BY <2>1, BoundedStays DEF SetBlocked
    <2>2. ASSUME NEW g \in GroupKeys, BeginDeleteGroup(g) PROVE Bounded'
      BY <2>2, BoundedStays DEF BeginDeleteGroup
    <2>3. ASSUME NEW u \in Users, BeginDeleteAccount(u) PROVE Bounded'
      BY <2>3, BoundedStays DEF BeginDeleteAccount
    <2>4. QED
      BY <1>3, <2>1, <2>2, <2>3, EnableBounded, ErasureBounded DEF HolderStep
  <1>4. ASSUME ClockStep PROVE Bounded'
    <2>1. ASSUME NEW m \in Msgs, Age(m) PROVE Bounded'
      BY <2>1, BoundedStays DEF Age
    <2>2. ASSUME NEW m \in Msgs, Expire(m) PROVE Bounded'
      BY <2>2, BoundedStays DEF Expire
    <2>3. ASSUME Midnight PROVE Bounded'
      BY <2>3, BoundedStays DEF Midnight
    <2>4. ASSUME PurgeExpired PROVE Bounded'
      BY <2>4, BoundedStays DEF PurgeExpired
    <2>5. ASSUME Crash PROVE Bounded'
      BY <2>5, BoundedStays DEF Crash, IdleDrain
    <2>6. QED
      BY <1>4, <2>1, <2>2, <2>3, <2>4, <2>5 DEF ClockStep
  <1>5. QED
    BY <1>1, <1>2, <1>3, <1>4 DEF Next

\* What bounds the late messages and the overrun of the cap in every state.
THEOREM OverrunInvariant == Spec => []Bounded
  <1>1. Init => Bounded
    <2> SUFFICES ASSUME Init PROVE Bounded
      OBVIOUS
    <2>1. ASSUME NEW g \in GroupKeys PROVE LateAt(g)
      <3>1. InFlight(g) = {} /\ lateStores[g] = 0
        BY DEF Init, InFlight, IdleDrain
      <3>2. Cardinality(InFlight(g)) = 0
        BY <3>1, FS_EmptySet
      <3>3. QED
        BY <3>1, <3>2, Passes DEF LateAt
    <2>2. ASSUME NEW u \in Users PROVE CapAt(u)
      <3>1. Storing(u) = {} /\ CountedFor(u) = {}
        BY DEF Init, Storing, CountedFor, IdleDrain
      <3>2. Cardinality(Storing(u)) = 0 /\ MessagesToday(u) = 0 /\ IsFiniteSet(CountedFor(u))
        BY <3>1, FS_EmptySet DEF MessagesToday, CountedFor
      <3>3. MessageCap \in Nat
        BY IngestAssumption DEF IngestAssumption
      <3>4. QED
        BY <3>2, <3>3, Passes DEF CapAt
    <2>3. QED
      BY <2>1, <2>2 DEF Bounded
  <1>2. Inv /\ Bounded /\ [Next]_vars => Bounded'
    <2> SUFFICES ASSUME Inv, Bounded, [Next]_vars PROVE Bounded'
      OBVIOUS
    <2>1. CASE UNCHANGED vars
      BY <2>1, BoundedStays DEF vars
    <2>2. QED
      BY <2>1, NextBounded
  <1>3. QED
    BY IngestInvariant, <1>1, <1>2, PTL DEF Spec

\* After a disable (subscriptions.ts setEnabled) each overlapping pass that had
\* read the Group as enabled (consumer.ts) stores at most one message more.
THEOREM LateIsBounded == Spec => []LateStoresBounded
  <1>1. Inv /\ Bounded => LateStoresBounded
    <2> SUFFICES ASSUME Inv, Bounded, NEW g \in GroupKeys
                 PROVE  lateStores[g] <= Cardinality(Drains)
      BY DEF LateStoresBounded
    <2>1. lateStores[g] \in Nat
      BY DEF Inv, TypeOK
    <2>2. QED
      BY <2>1, Passes DEF Bounded, LateAt
  <1>2. QED
    BY IngestInvariant, OverrunInvariant, <1>1, PTL

\* The daily message cap (block.ts) is exceeded by at most one message for each
\* other pass that counted before any of them inserted (consumer.ts).
THEOREM CapIsBounded == Spec => []CapOverrunBounded
  <1>1. Bounded => CapOverrunBounded
    <2> SUFFICES ASSUME Bounded, NEW u \in Users
                 PROVE  MessagesToday(u) <= MessageCap + Cardinality(Drains) - 1
      BY DEF CapOverrunBounded
    <2>1. IsFiniteSet(CountedFor(u)) /\ MessagesToday(u) = Cardinality(CountedFor(u))
      BY DEF Bounded, CapAt, MessagesToday, CountedFor
    <2>2. MessagesToday(u) \in Nat /\ MessageCap \in Nat
      BY <2>1, FS_CardinalityType, IngestAssumption DEF IngestAssumption
    <2>3. QED
      BY <2>2, Passes DEF Bounded, CapAt
  <1>2. QED
    BY OverrunInvariant, <1>1, PTL

=============================================================================
