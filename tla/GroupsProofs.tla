---------------------------- MODULE GroupsProofs ----------------------------
(***************************************************************************)
(* For any number of Groups, pairings and overlapping 'connected' events:  *)
(* the variables keep their types; no listing, discovery, adoption or boot *)
(* enables a Group whose holder never did; the cap is exceeded by none     *)
(* and lost only to rows of Sessions that are not connected; and the       *)
(* repair at a boot keeps every choice.                                    *)
(***************************************************************************)
EXTENDS Groups, FiniteSetTheorems, WellFoundedInduction, TLAPS

\* An adoption under way has only switched on Groups the holder once enabled.
AdoptsWhatWasAsked ==
    \A c \in Requests, j \in Jids : j \in connect[c].adopted => choice[j] # "none"

\* An enabling under way is about some Group.
EnablesAGroup == enabling.pc # "idle" => enabling.jid \in Jids

IInv == TypeOK /\ EnablesAGroup /\ EnabledWasAsked /\ AdoptsWhatWasAsked

-----------------------------------------------------------------------------

\* What EnabledWasAsked says row by row, before a step and after it.
LEMMA RowByRow ==
    /\ EnabledWasAsked <=>
         \A s \in Sessions, j \in Jids : group[s][j].is = "enabled" => choice[j] # "none"
    /\ EnabledWasAsked' <=>
         \A s \in Sessions, j \in Jids : group'[s][j].is = "enabled" => choice'[j] # "none"
BY DEF EnabledWasAsked, EnabledGroups, Enabled

\* The idle values are among the values of their type.
LEMMA IdleTyped ==
    /\ IdleConnect \in ConnectState /\ IdleConnect.adopted = {}
    /\ NotEnabling \in EnablingState /\ NotEnabling.pc = "idle"
    /\ NoRow \in Row /\ Seeded \in Row /\ NoRow.is # "enabled" /\ Seeded.is # "enabled"
<1>1. 1 \in Sessions /\ 0 \in 0 .. MaxClock
  BY GroupsAssumption DEF Sessions
<1>2. [j \in Jids |-> Null] \in [Jids -> 0 .. MaxClock]
  BY <1>1 DEF Null
<1> QED
  BY <1>1, <1>2 DEF IdleConnect, ConnectState, NotEnabling, EnablingState, NoRow, Seeded, Row, Null

\* Resetting one connect request, or all of them, keeps the type and adopts nothing.
LEMMA ResetTyped ==
    ASSUME connect \in [Requests -> ConnectState], AdoptsWhatWasAsked,
           NEW c \in Requests, connect' = [connect EXCEPT ![c] = IdleConnect],
           choice' = choice
    PROVE  connect' \in [Requests -> ConnectState] /\ AdoptsWhatWasAsked'
BY IdleTyped DEF AdoptsWhatWasAsked

\* A row taken over has a prior row that is enabled, hence asked for, and the moment
\* taken over with it is one of that row's.
LEMMA TakenTyped ==
    ASSUME TypeOK, EnabledWasAsked, NEW s \in Sessions
    PROVE  /\ Taken(s) \subseteq Jids
           /\ Since(s) \in [Jids -> 0 .. MaxClock]
           /\ \A j \in Taken(s) : choice[j] # "none"
<1>1. \A j \in Taken(s) : EnabledSince(s, j) \in 0 .. MaxClock
  <2> SUFFICES ASSUME NEW j \in Taken(s) PROVE EnabledSince(s, j) \in 0 .. MaxClock
    OBVIOUS
  <2>1. j \in Jids /\ \E t \in Sessions : IsPrior(s, t, j)
    BY DEF Taken
  <2>2. (CHOOSE t \in Sessions : IsPrior(s, t, j)) \in Sessions
    BY <2>1
  <2>3. \A t \in Sessions : group[t][j].at \in 0 .. MaxClock
    BY <2>1 DEF TypeOK, Row
  <2> QED
    BY <2>2, <2>3 DEF EnabledSince
<1>2. 0 \in 0 .. MaxClock
  BY GroupsAssumption
<1>3. \A j \in Taken(s) : choice[j] # "none"
  BY RowByRow DEF Taken, Enabled
<1> QED
  BY <1>1, <1>2, <1>3 DEF Taken, Since, Null

\* Writing an adoption's rows keeps the type, and enables nothing but what it took.
LEMMA AdoptedTyped ==
    ASSUME TypeOK, EnabledWasAsked, NEW s \in Sessions,
           NEW taken \in SUBSET Jids, NEW since \in [Jids -> 0 .. MaxClock],
           \A j \in taken : choice[j] # "none",
           group' = Adopted(s, taken, since), choice' = choice
    PROVE  group' \in [Sessions -> [Jids -> Row]] /\ EnabledWasAsked'
<1>1. \A t \in Sessions, j \in Jids :
         /\ group'[t][j] \in Row
         /\ group'[t][j].is = "enabled" => j \in taken \/ group[t][j].is = "enabled"
  <2> SUFFICES ASSUME NEW t \in Sessions, NEW j \in Jids
      PROVE  /\ group'[t][j] \in Row
             /\ group'[t][j].is = "enabled" => j \in taken \/ group[t][j].is = "enabled"
    OBVIOUS
  <2>1. group[t][j] \in Row
    BY DEF TypeOK
  <2> QED
    BY <2>1 DEF Adopted, Row
<1>2. group' \in [Sessions -> [Jids -> Row]]
  BY <1>1 DEF Adopted
<1>3. EnabledWasAsked'
  BY <1>1, RowByRow DEF EnabledWasAsked
<1> QED
  BY <1>2, <1>3

\* Writing an adoption's schedules keeps the type.
LEMMA PlannedTyped ==
    ASSUME TypeOK, NEW s \in Sessions, NEW planned
    PROVE  Planned(s, planned) \in [Sessions -> [Jids -> {"none", "daily", "interval"}]]
BY DEF TypeOK, Planned

-----------------------------------------------------------------------------

\* No rows and nobody asked: the invariant holds.
LEMMA InitInv == Init => IInv
<1> SUFFICES ASSUME Init PROVE IInv
  OBVIOUS
<1>1. TypeOK
  BY IdleTyped, GroupsAssumption DEF Init, TypeOK
<1>2. EnabledWasAsked
  BY RowByRow, IdleTyped DEF Init
<1>3. AdoptsWhatWasAsked
  BY IdleTyped DEF Init, AdoptsWhatWasAsked
<1>4. EnablesAGroup
  BY IdleTyped DEF Init, EnablesAGroup
<1> QED
  BY <1>1, <1>2, <1>3, <1>4 DEF IInv

\* Each step of a 'connected' event keeps the invariant.
LEMMA ConnectStepInv ==
    ASSUME IInv, NEW c \in Requests, ConnectStep(c)
    PROVE  IInv'
<1> USE DEF IInv, EnablesAGroup
<1>1. CASE \E s \in Sessions : Connect(c, s)
  <2> PICK s \in Sessions : Connect(c, s)
    BY <1>1
  <2>1. [IdleConnect EXCEPT !.pc = "seed", !.session = s] \in ConnectState
    BY IdleTyped DEF ConnectState
  <2>2. connect'[c].adopted = {} /\ \A d \in Requests \ {c} : connect'[d] = connect[d]
    BY IdleTyped DEF Connect, IdleConnect, TypeOK
  <2>3. TypeOK'
    BY <2>1 DEF Connect, TypeOK
  <2>4. EnabledWasAsked' /\ AdoptsWhatWasAsked'
    BY <2>2, RowByRow DEF Connect, AdoptsWhatWasAsked
  <2> QED
    BY <2>3, <2>4 DEF Connect
<1>2. CASE \E j \in Jids : SeedGroup(c, j)
  <2> PICK j \in Jids : SeedGroup(c, j)
    BY <1>2
  <2> DEFINE s == connect[c].session
  <2>1. s \in Sessions /\ group[s][j] \in Row
    BY DEF TypeOK, ConnectState
  <2>2. SeedRow(s, j) \in Row /\ (SeedRow(s, j).is = "enabled" => group[s][j].is = "enabled")
    BY <2>1, IdleTyped DEF SeedRow
  <2>3. TypeOK'
    BY <2>1, <2>2 DEF SeedGroup, TypeOK
  <2>4. EnabledWasAsked'
    BY <2>1, <2>2, RowByRow DEF SeedGroup, TypeOK
  <2> QED
    BY <2>3, <2>4 DEF SeedGroup, AdoptsWhatWasAsked
<1>3. CASE CopyChoices(c)
  <2> DEFINE s == connect[c].session
             next == [connect[c] EXCEPT !.pc = "schedules",
                                        !.adopted = Taken(s), !.since = Since(s)]
  <2>1. connect[c] \in ConnectState /\ s \in Sessions
    BY DEF TypeOK, ConnectState
  <2>2. next \in ConnectState /\ next.adopted = Taken(s)
    BY <2>1, TakenTyped DEF ConnectState
  <2>3. connect' = [connect EXCEPT ![c] = next]
    BY <1>3 DEF CopyChoices
  <2>4. TypeOK'
    BY <1>3, <2>2, <2>3 DEF CopyChoices, TypeOK
  <2>5. AdoptsWhatWasAsked'
    BY <1>3, <2>1, <2>2, <2>3, TakenTyped DEF CopyChoices, AdoptsWhatWasAsked, TypeOK
  <2> QED
    BY <1>3, <2>4, <2>5, RowByRow DEF CopyChoices
<1>4. CASE CopySchedules(c)
  <2> PICK S \in Scheduled(connect[c].session) :
        connect' = [connect EXCEPT ![c].pc = "standdown", ![c].planned = S]
    BY <1>4 DEF CopySchedules
  <2> DEFINE next == [connect[c] EXCEPT !.pc = "standdown", !.planned = S]
  <2>1. S \subseteq Jids
    BY DEF Scheduled
  <2>2. connect[c] \in ConnectState
    BY DEF TypeOK
  <2>3. next \in ConnectState /\ next.adopted = connect[c].adopted
    BY <2>1, <2>2 DEF ConnectState
  <2>4. connect' = [connect EXCEPT ![c] = next]
    OBVIOUS
  <2>5. TypeOK'
    BY <1>4, <2>3, <2>4 DEF CopySchedules, TypeOK
  <2>6. AdoptsWhatWasAsked'
    BY <1>4, <2>3, <2>4 DEF CopySchedules, AdoptsWhatWasAsked, TypeOK
  <2> QED
    BY <1>4, <2>5, <2>6, RowByRow DEF CopySchedules
<1>5. CASE StandDown(c)
  <2> DEFINE s == connect[c].session
  <2>1. /\ s \in Sessions /\ connect[c].adopted \in SUBSET Jids
        /\ connect[c].since \in [Jids -> 0 .. MaxClock]
        /\ \A j \in connect[c].adopted : choice[j] # "none"
    BY DEF TypeOK, ConnectState, AdoptsWhatWasAsked
  <2>2. group' \in [Sessions -> [Jids -> Row]] /\ EnabledWasAsked'
    BY <1>5, <2>1, AdoptedTyped DEF StandDown
  <2>3. connect' \in [Requests -> ConnectState] /\ AdoptsWhatWasAsked'
    BY <1>5, ResetTyped DEF StandDown, TypeOK
  <2>4. schedule' \in [Sessions -> [Jids -> {"none", "daily", "interval"}]]
    BY <1>5, <2>1, PlannedTyped DEF StandDown
  <2> QED
    BY <1>5, <2>2, <2>3, <2>4 DEF StandDown, TypeOK
<1>6. CASE AdoptionFails(c)
  <2>1. connect' \in [Requests -> ConnectState] /\ AdoptsWhatWasAsked'
    BY <1>6, ResetTyped DEF AdoptionFails, TypeOK
  <2> QED
    BY <1>6, <2>1, RowByRow DEF AdoptionFails, TypeOK
<1> QED
  BY <1>1, <1>2, <1>3, <1>4, <1>5, <1>6 DEF ConnectStep

\* Each step of the holder's keeps the invariant.
LEMMA HolderStepInv ==
    ASSUME IInv, HolderStep
    PROVE  IInv'
<1> USE DEF IInv, EnablesAGroup
<1>1. CASE \E s \in Sessions : Pair(s)
  BY <1>1, RowByRow DEF Pair, TypeOK, AdoptsWhatWasAsked
<1>2. CASE \E s \in Sessions, j \in Jids : BeginEnable(s, j)
  <2> PICK s \in Sessions, j \in Jids : BeginEnable(s, j)
    BY <1>2
  <2>1. enabling' \in EnablingState
    BY DEF BeginEnable, EnablingState, TypeOK
  <2> QED
    BY <2>1, RowByRow DEF BeginEnable, TypeOK, AdoptsWhatWasAsked
<1>3. CASE \E s \in Sessions, j \in Jids : Disable(s, j)
  <2> PICK s \in Sessions, j \in Jids : Disable(s, j)
    BY <1>3
  <2>1. /\ choice' \in [Jids -> {"none", "on", "off"}]
        /\ \A i \in Jids : choice[i] # "none" => choice'[i] # "none"
    BY DEF Disable, TypeOK
  <2>2. /\ group' \in [Sessions -> [Jids -> Row]]
        /\ \A t \in Sessions, i \in Jids :
              group'[t][i].is = "enabled" => group[t][i].is = "enabled"
    BY IdleTyped DEF Disable, TypeOK
  <2> QED
    BY <2>1, <2>2, RowByRow DEF Disable, TypeOK, AdoptsWhatWasAsked
<1>4. CASE CountEnabled
  <2>1. enabling' \in EnablingState
    BY <1>4, IdleTyped DEF CountEnabled, EnablingState, TypeOK
  <2> QED
    BY <1>4, <2>1, RowByRow, IdleTyped DEF CountEnabled, EnablingState, TypeOK, AdoptsWhatWasAsked
<1>5. CASE CommitEnable
  <2> DEFINE s == enabling.session
             j == enabling.jid
  <2>0. s \in Sessions /\ j \in Jids
    BY <1>5 DEF CommitEnable, EnablesAGroup, TypeOK, EnablingState
  <2>1. /\ choice' \in [Jids -> {"none", "on", "off"}]
        /\ \A i \in Jids : choice[i] # "none" \/ i = j => choice'[i] # "none"
    BY <1>5 DEF CommitEnable, TypeOK
  <2>2. clock' \in 0 .. MaxClock /\ clock + 1 \in Nat /\ (clock < MaxClock => clock + 1 \in 0 .. MaxClock)
    BY <1>5, GroupsAssumption DEF CommitEnable, TypeOK
  <2>3. PICK r \in Row : group' = [group EXCEPT ![s][j] = r]
    <3>1. CASE group[s][j].at = Null
      <4>1. [is |-> "enabled", at |-> clock + 1] \in Row
        BY <1>5, <2>2, <3>1 DEF CommitEnable, Row
      <4> QED
        BY <1>5, <3>1, <4>1 DEF CommitEnable
    <3>2. CASE group[s][j].at # Null
      <4>1. s \in Sessions
        BY DEF TypeOK, EnablingState
      <4>2. group[s][j] \in Row
        BY <2>0, <4>1 DEF TypeOK
      <4>3. [group[s][j] EXCEPT !.is = "enabled"] \in Row
        BY <4>2 DEF Row
      <4>4. group' = [group EXCEPT ![s][j] = [group[s][j] EXCEPT !.is = "enabled"]]
        BY <1>5, <2>0, <3>2, <4>1 DEF CommitEnable, TypeOK
      <4> QED
        BY <4>3, <4>4
    <3> QED
      BY <2>0, <3>1, <3>2
  <2>4. /\ group' \in [Sessions -> [Jids -> Row]]
        /\ \A t \in Sessions, i \in Jids : i # j => group'[t][i] = group[t][i]
    <3> HIDE DEF s, j
    <3>1. group \in [Sessions -> [Jids -> Row]]
      BY DEF TypeOK
    <3>2. [group[s] EXCEPT ![j] = r] \in [Jids -> Row]
      BY <2>0, <3>1
    <3>3. group' = [group EXCEPT ![s] = [group[s] EXCEPT ![j] = r]]
      BY <2>0, <2>3, <3>1
    <3> QED
      BY <2>0, <3>1, <3>2, <3>3
  <2>5. TypeOK'
    BY <1>5, <2>1, <2>2, <2>4, IdleTyped DEF CommitEnable, TypeOK
  <2>6. EnabledWasAsked'
    BY <2>1, <2>4, RowByRow
  <2> QED
    BY <1>5, <2>1, <2>5, <2>6, IdleTyped DEF CommitEnable, AdoptsWhatWasAsked, TypeOK, ConnectState
<1>6. CASE EnableFails
  BY <1>6, IdleTyped, RowByRow DEF EnableFails, TypeOK, AdoptsWhatWasAsked
<1>7. CASE \E s \in Sessions, j \in Jids, mode \in Modes : SetSchedule(s, j, mode)
  BY <1>7, GroupsAssumption, RowByRow DEF SetSchedule, TypeOK, AdoptsWhatWasAsked
<1> QED
  BY <1>1, <1>2, <1>3, <1>4, <1>5, <1>6, <1>7 DEF HolderStep

\* A boot is an adoption for the live Session, and drops every request.
LEMMA RebootInv ==
    ASSUME IInv, NEW s \in Sessions, Reboot(s)
    PROVE  IInv'
<1> USE DEF IInv, EnablesAGroup
<1>1. group' \in [Sessions -> [Jids -> Row]] /\ EnabledWasAsked'
  BY TakenTyped, AdoptedTyped DEF Reboot
<1>2. schedule' \in [Sessions -> [Jids -> {"none", "daily", "interval"}]]
  BY PlannedTyped DEF Reboot
<1>3. connect' \in [Requests -> ConnectState] /\ AdoptsWhatWasAsked'
  BY IdleTyped DEF Reboot, AdoptsWhatWasAsked
<1> QED
  BY <1>1, <1>2, <1>3, IdleTyped DEF Reboot, TypeOK

\* Every step keeps the invariant.
LEMMA NextInv == IInv /\ [Next]_vars => IInv'
<1> SUFFICES ASSUME IInv, [Next]_vars PROVE IInv'
  OBVIOUS
<1> USE DEF IInv, EnablesAGroup
<1>1. CASE \E c \in Requests : ConnectStep(c)
  BY <1>1, ConnectStepInv
<1>2. CASE HolderStep
  BY <1>2, HolderStepInv
<1>3. CASE \E s \in Sessions : Lose(s)
  BY <1>3, RowByRow DEF Lose, TypeOK, AdoptsWhatWasAsked
<1>4. CASE \E s \in Sessions : Reboot(s)
  BY <1>4, RebootInv
<1>5. CASE \E s \in Sessions, j \in Jids : Discover(s, j)
  BY <1>5, RowByRow, IdleTyped DEF Discover, TypeOK, AdoptsWhatWasAsked
<1>6. CASE PlanMoves
  BY <1>6, RowByRow DEF PlanMoves, TypeOK, AdoptsWhatWasAsked
<1>7. CASE UNCHANGED vars
  BY <1>7, RowByRow DEF vars, TypeOK, AdoptsWhatWasAsked
<1> QED
  BY <1>1, <1>2, <1>3, <1>4, <1>5, <1>6, <1>7 DEF Next

\* The invariant holds in every reachable state.
LEMMA InvHolds == Spec => []IInv
BY InitInv, NextInv, PTL DEF Spec

\* Every variable keeps its type.
THEOREM TypesHold == Spec => []TypeOK
<1>1. IInv => TypeOK
  BY DEF IInv
<1> QED
  BY <1>1, InvHolds, PTL

\* Listing, discovery, adoption and the boot's repair are not consent: no Group is
\* enabled on any Session unless the holder has enabled it (subscriptions.ts).
THEOREM ConsentComesFirst == Spec => []EnabledWasAsked
<1>1. IInv => EnabledWasAsked
  BY DEF IInv
<1> QED
  BY <1>1, InvHolds, PTL

-----------------------------------------------------------------------------
(* Which Group was enabled when.                                           *)

\* x is, or with an adoption under way is about to be, the enabled_at of a row of j.
IsMoment(j, x) ==
    /\ x # Null
    /\ \/ \E s \in Sessions : group[s][j].at = x
       \/ \E c \in Requests : connect[c].since[j] = x

EnabledIsDated == \A s \in Sessions, j \in Jids : Enabled(s, j) => group[s][j].at # Null

AdoptedIsDated ==
    \A c \in Requests, j \in Jids : j \in connect[c].adopted => connect[c].since[j] # Null

MomentsPast == \A j \in Jids, x \in 0 .. MaxClock : IsMoment(j, x) => x <= clock

\* No two Groups were enabled at one moment.
MomentsApart ==
    \A i, j \in Jids, x \in 0 .. MaxClock : IsMoment(i, x) /\ IsMoment(j, x) => i = j

DatesInv == EnabledIsDated /\ AdoptedIsDated /\ MomentsPast /\ MomentsApart

\* What the two kinds of row state are made of.
LEMMA RowTyped ==
    ASSUME TypeOK
    PROVE  /\ \A s \in Sessions, j \in Jids :
                /\ group[s][j] \in Row /\ group[s][j].at \in 0 .. MaxClock
                /\ group[s][j].at # Null => IsMoment(j, group[s][j].at)
           /\ \A c \in Requests :
                /\ connect[c] \in ConnectState /\ connect[c].session \in Sessions
                /\ connect[c].adopted \subseteq Jids
                /\ \A j \in Jids : /\ connect[c].since[j] \in 0 .. MaxClock
                                   /\ connect[c].since[j] # Null => IsMoment(j, connect[c].since[j])
BY DEF TypeOK, Row, ConnectState, IsMoment

\* A step that makes no moment keeps them past and apart.
LEMMA MomentsKept ==
    ASSUME DatesInv, clock' = clock, EnabledIsDated', AdoptedIsDated',
           \A j \in Jids, x \in 0 .. MaxClock : IsMoment(j, x)' => IsMoment(j, x)
    PROVE  DatesInv'
<1>1. MomentsPast'
  BY DEF DatesInv, MomentsPast
<1>2. MomentsApart'
  BY DEF DatesInv, MomentsApart
<1> QED
  BY <1>1, <1>2 DEF DatesInv

\* A step after which every row and request has the date it had, or none.
LEMMA NothingRedated ==
    ASSUME TypeOK, DatesInv, clock' = clock,
           \A s \in Sessions, j \in Jids :
              group'[s][j] = group[s][j] \/ (group'[s][j].is # "enabled" /\ group'[s][j].at \in {Null, group[s][j].at}),
           \A c \in Requests :
              \/ connect'[c].adopted = {} /\ \A j \in Jids : connect'[c].since[j] = Null
              \/ connect'[c].adopted = connect[c].adopted /\ connect'[c].since = connect[c].since
    PROVE  DatesInv'
<1>1. EnabledIsDated'
  BY DEF DatesInv, EnabledIsDated, Enabled
<1>2. AdoptedIsDated'
  BY DEF DatesInv, AdoptedIsDated
<1>3. ASSUME NEW j \in Jids, NEW x \in 0 .. MaxClock, IsMoment(j, x)'
      PROVE  IsMoment(j, x)
  BY <1>3 DEF IsMoment
<1> QED
  BY <1>1, <1>2, <1>3, MomentsKept

\* Of the rows a choice may be taken from, none is enabled or all are.
LEMMA PriorsAgree ==
    ASSUME NEW s \in Sessions, NEW t \in Sessions, NEW u \in Sessions, NEW j \in Jids,
           IsPrior(s, t, j), IsPrior(s, u, j), Enabled(t, j)
    PROVE  Enabled(u, j)
BY DEF IsPrior, Rows, Enabled

\* What an adoption takes over is an enabled row's date.
LEMMA TakenDated ==
    ASSUME TypeOK, DatesInv, NEW s \in Sessions
    PROVE  /\ \A j \in Taken(s) : Since(s)[j] # Null
           /\ \A j \in Jids : Since(s)[j] = Null \/ IsMoment(j, Since(s)[j])
<1>1. ASSUME NEW j \in Taken(s)
      PROVE  j \in Jids /\ EnabledSince(s, j) # Null /\ IsMoment(j, EnabledSince(s, j))
  <2>1. j \in Jids
    BY DEF Taken
  <2>2. PICK t \in Sessions : IsPrior(s, t, j) /\ Enabled(t, j)
    BY DEF Taken
  <2> DEFINE u == CHOOSE v \in Sessions : IsPrior(s, v, j)
  <2>3. u \in Sessions /\ IsPrior(s, u, j)
    BY <2>2
  <2>4. EnabledSince(s, j) = group[u][j].at
    BY DEF EnabledSince
  <2> HIDE DEF u
  <2>5. Enabled(u, j)
    BY <2>1, <2>2, <2>3, PriorsAgree
  <2>6. group[u][j].at # Null
    BY <2>1, <2>3, <2>5 DEF DatesInv, EnabledIsDated
  <2> QED
    BY <2>1, <2>3, <2>4, <2>6, RowTyped
<1> QED
  BY <1>1 DEF Since

\* An adoption's rows have the dates they had, or the ones taken over.
LEMMA AdoptedDated ==
    ASSUME TypeOK, DatesInv, NEW s \in Sessions,
           NEW taken \in SUBSET Jids, NEW since \in [Jids -> 0 .. MaxClock],
           \A j \in taken : since[j] # Null /\ IsMoment(j, since[j]),
           group' = Adopted(s, taken, since), clock' = clock,
           \A c \in Requests :
              \/ connect'[c].adopted = {} /\ \A j \in Jids : connect'[c].since[j] = Null
              \/ connect'[c].adopted = connect[c].adopted /\ connect'[c].since = connect[c].since
    PROVE  DatesInv'
<1>1. ASSUME NEW t \in Sessions, NEW j \in Jids
      PROVE  /\ Enabled(t, j)' => group'[t][j].at # Null
             /\ group'[t][j].at # Null => IsMoment(j, group'[t][j].at)
  <2>1. group'[t][j] = IF t = s /\ j \in taken THEN [is |-> "enabled", at |-> since[j]]
                       ELSE IF t # s /\ s \in Rows(j) /\ Enabled(t, j)
                         THEN [group[t][j] EXCEPT !.is = "disabled"]
                       ELSE group[t][j]
    BY DEF Adopted
  <2>2. group[t][j] \in Row /\ (group[t][j].at # Null => IsMoment(j, group[t][j].at))
    BY RowTyped
  <2>3. Enabled(t, j) => group[t][j].at # Null
    BY DEF DatesInv, EnabledIsDated
  <2>4. CASE t = s /\ j \in taken
    BY <2>1, <2>4
  <2>5. CASE ~ (t = s /\ j \in taken) /\ t # s /\ s \in Rows(j) /\ Enabled(t, j)
    <3>1. group'[t][j] = [group[t][j] EXCEPT !.is = "disabled"]
      BY <2>1, <2>5
    <3>2. group'[t][j].is = "disabled" /\ group'[t][j].at = group[t][j].at
      BY <2>2, <3>1 DEF Row
    <3> QED
      BY <2>2, <3>2 DEF Enabled
  <2>6. CASE group'[t][j] = group[t][j]
    BY <2>2, <2>3, <2>6 DEF Enabled
  <2> QED
    BY <2>1, <2>4, <2>5, <2>6
<1>2. EnabledIsDated'
  BY <1>1 DEF EnabledIsDated
<1>3. AdoptedIsDated'
  BY DEF DatesInv, AdoptedIsDated
<1>4. ASSUME NEW j \in Jids, NEW x \in 0 .. MaxClock, IsMoment(j, x)'
      PROVE  IsMoment(j, x)
  <2>1. CASE \E t \in Sessions : group'[t][j].at = x
    BY <1>1, <1>4, <2>1 DEF IsMoment
  <2>2. CASE \E c \in Requests : connect'[c].since[j] = x
    BY <1>4, <2>2 DEF IsMoment
  <2> QED
    BY <1>4, <2>1, <2>2 DEF IsMoment
<1> QED
  BY <1>2, <1>3, <1>4, MomentsKept

\* No row has a date.
LEMMA DatesInit == Init => DatesInv
<1> SUFFICES ASSUME Init PROVE DatesInv
  OBVIOUS
<1>1. \A s \in Sessions, j \in Jids : group[s][j] = NoRow
  BY DEF Init
<1>2. \A c \in Requests : connect[c] = IdleConnect
  BY DEF Init
<1>3. \A j \in Jids, x \in 0 .. MaxClock : ~ IsMoment(j, x)
  BY <1>1, <1>2 DEF IsMoment, NoRow, IdleConnect
<1>4. EnabledIsDated
  BY <1>1 DEF EnabledIsDated, Enabled, NoRow
<1>5. AdoptedIsDated
  BY <1>2 DEF AdoptedIsDated, IdleConnect
<1> QED
  BY <1>3, <1>4, <1>5 DEF DatesInv, MomentsPast, MomentsApart

\* An idle request has adopted nothing and holds no date.
LEMMA IdleUndated == IdleConnect.adopted = {} /\ \A j \in Jids : IdleConnect.since[j] = Null
BY DEF IdleConnect

\* Each step of a 'connected' event keeps the dates apart.
LEMMA ConnectStepDates ==
    ASSUME IInv, DatesInv, NEW c \in Requests, ConnectStep(c)
    PROVE  DatesInv'
<1>0. TypeOK /\ connect \in [Requests -> ConnectState]
  BY DEF IInv, TypeOK
<1>1. CASE \E s \in Sessions : Connect(c, s)
  <2> PICK s \in Sessions : Connect(c, s)
    BY <1>1
  <2> DEFINE r == [IdleConnect EXCEPT !.pc = "seed", !.session = s]
  <2>1. r.adopted = {} /\ \A j \in Jids : r.since[j] = Null
    BY IdleUndated DEF IdleConnect
  <2>2. \A d \in Requests : connect'[d] = IF d = c THEN r ELSE connect[d]
    BY <1>0 DEF Connect
  <2> HIDE DEF r
  <2> QED
    BY <1>0, <2>1, <2>2, NothingRedated DEF Connect
<1>2. CASE \E j \in Jids : SeedGroup(c, j)
  <2> PICK j \in Jids : SeedGroup(c, j)
    BY <1>2
  <2> DEFINE s == connect[c].session
  <2>1. s \in Sessions
    BY <1>0, RowTyped
  <2>2. \A t \in Sessions, i \in Jids :
           group'[t][i] = IF t = s /\ i = j THEN SeedRow(s, j) ELSE group[t][i]
    BY <1>0, <2>1 DEF SeedGroup, TypeOK
  <2>3. SeedRow(s, j) = group[s][j] \/ SeedRow(s, j) = Seeded
    BY DEF SeedRow
  <2>4. Seeded.is # "enabled" /\ Seeded.at = Null
    BY DEF Seeded
  <2> HIDE DEF s
  <2> QED
    BY <1>0, <2>2, <2>3, <2>4, NothingRedated DEF SeedGroup
<1>3. CASE CopyChoices(c)
  <2> DEFINE s == connect[c].session
             next == [connect[c] EXCEPT !.pc = "schedules",
                                        !.adopted = Taken(s), !.since = Since(s)]
  <2>1. s \in Sessions /\ connect[c] \in ConnectState
    BY <1>0, RowTyped
  <2>2. next.adopted = Taken(s) /\ next.since = Since(s)
    BY <2>1 DEF ConnectState
  <2>3. \A d \in Requests : connect'[d] = IF d = c THEN next ELSE connect[d]
    BY <1>0, <1>3 DEF CopyChoices
  <2>4. group' = group /\ clock' = clock
    BY <1>3 DEF CopyChoices
  <2> HIDE DEF next, s
  <2>5. EnabledIsDated'
    BY <2>4 DEF DatesInv, EnabledIsDated, Enabled
  <2>6. AdoptedIsDated'
    BY <1>0, <2>1, <2>2, <2>3, TakenDated DEF DatesInv, AdoptedIsDated
  <2>7. ASSUME NEW j \in Jids, NEW x \in 0 .. MaxClock, IsMoment(j, x)'
        PROVE  IsMoment(j, x)
    <3>1. CASE \E t \in Sessions : group'[t][j].at = x
      BY <2>4, <2>7, <3>1 DEF IsMoment
    <3>2. ASSUME NEW d \in Requests, connect'[d].since[j] = x
          PROVE  IsMoment(j, x)
      <4>1. CASE d = c
        <5>1. x = Since(s)[j] /\ x # Null
          BY <2>2, <2>3, <2>7, <3>2, <4>1 DEF IsMoment
        <5> QED
          BY <1>0, <2>1, <5>1, TakenDated
      <4>2. CASE d # c
        BY <2>3, <2>7, <3>2, <4>2 DEF IsMoment
      <4> QED
        BY <4>1, <4>2
    <3> QED
      BY <2>7, <3>1, <3>2 DEF IsMoment
  <2> QED
    BY <2>4, <2>5, <2>6, <2>7, MomentsKept
<1>4. CASE CopySchedules(c)
  <2> PICK S \in Scheduled(connect[c].session) :
        connect' = [connect EXCEPT ![c].pc = "standdown", ![c].planned = S]
    BY <1>4 DEF CopySchedules
  <2>1. \A d \in Requests : connect'[d].adopted = connect[d].adopted /\ connect'[d].since = connect[d].since
    BY <1>0 DEF ConnectState
  <2> QED
    BY <1>0, <1>4, <2>1, NothingRedated DEF CopySchedules
<1>5. CASE StandDown(c)
  <2> DEFINE s == connect[c].session
  <2>1. /\ s \in Sessions /\ connect[c].adopted \in SUBSET Jids
        /\ connect[c].since \in [Jids -> 0 .. MaxClock]
    BY <1>0 DEF ConnectState
  <2>2. \A j \in connect[c].adopted : connect[c].since[j] # Null /\ IsMoment(j, connect[c].since[j])
    BY <1>0, <2>1, RowTyped DEF DatesInv, AdoptedIsDated
  <2>3. \A d \in Requests : connect'[d] = IF d = c THEN IdleConnect ELSE connect[d]
    BY <1>0, <1>5 DEF StandDown
  <2>4. group' = Adopted(s, connect[c].adopted, connect[c].since) /\ clock' = clock
    BY <1>5 DEF StandDown
  <2> HIDE DEF s
  <2> QED
    BY <1>0, <2>1, <2>2, <2>3, <2>4, IdleUndated, AdoptedDated
<1>6. CASE AdoptionFails(c)
  <2>1. \A d \in Requests : connect'[d] = IF d = c THEN IdleConnect ELSE connect[d]
    BY <1>0, <1>6 DEF AdoptionFails
  <2> QED
    BY <1>0, <1>6, <2>1, IdleUndated, NothingRedated DEF AdoptionFails
<1> QED
  BY <1>1, <1>2, <1>3, <1>4, <1>5, <1>6 DEF ConnectStep

\* Switching a row on dates it now, later than every moment so far, unless it
\* has a date already.
LEMMA CommitEnableDates ==
    ASSUME IInv, DatesInv, CommitEnable
    PROVE  DatesInv'
<1> DEFINE s == enabling.session
           j == enabling.jid
<1>0. TypeOK
  BY DEF IInv
<1>1. s \in Sessions /\ j \in Jids
  BY DEF CommitEnable, IInv, EnablesAGroup, TypeOK, EnablingState
<1>2. group[s][j] \in Row /\ clock \in 0 .. MaxClock
  BY <1>0, <1>1 DEF TypeOK
<1>3. connect' = connect /\ AdoptedIsDated'
  BY DEF CommitEnable, DatesInv, AdoptedIsDated
<1>4. ASSUME group[s][j].at = Null
      PROVE  DatesInv'
  <2> DEFINE r == [is |-> "enabled", at |-> clock + 1]
  <2>1. group' = [group EXCEPT ![s][j] = r] /\ clock' = clock + 1
    BY <1>4 DEF CommitEnable
  <2>2. r.at = clock + 1 /\ clock + 1 # Null /\ clock \in Nat
    BY <1>2, GroupsAssumption DEF Null
  <2> HIDE DEF r
  <2>3. \A t \in Sessions, i \in Jids :
           group'[t][i] = IF t = s /\ i = j THEN r ELSE group[t][i]
    BY <1>0, <1>1, <2>1 DEF TypeOK
  <2> HIDE DEF s, j
  <2>4. EnabledIsDated'
    BY <2>2, <2>3 DEF DatesInv, EnabledIsDated, Enabled
  <2>5. ASSUME NEW i \in Jids, NEW x \in 0 .. MaxClock, IsMoment(i, x)'
        PROVE  IsMoment(i, x) \/ (i = j /\ x = clock + 1)
    BY <1>3, <2>2, <2>3, <2>5 DEF IsMoment
  <2>6. MomentsPast'
    BY <2>1, <2>2, <2>5 DEF DatesInv, MomentsPast
  <2>7. \A i \in Jids, x \in 0 .. MaxClock : IsMoment(i, x) => x # clock + 1
    BY <2>2 DEF DatesInv, MomentsPast
  <2>8. MomentsApart'
    BY <2>5, <2>7 DEF DatesInv, MomentsApart
  <2> QED
    BY <1>3, <2>4, <2>6, <2>8 DEF DatesInv
<1>5. ASSUME group[s][j].at # Null
      PROVE  DatesInv'
  <2> DEFINE r == [group[s][j] EXCEPT !.is = "enabled"]
  <2>1. group' = [group EXCEPT ![s][j] = r] /\ clock' = clock
    BY <1>0, <1>1, <1>5 DEF CommitEnable, TypeOK
  <2>2. r.at = group[s][j].at
    BY <1>2 DEF Row
  <2> HIDE DEF r
  <2>3. \A t \in Sessions, i \in Jids :
           group'[t][i] = IF t = s /\ i = j THEN r ELSE group[t][i]
    BY <1>0, <1>1, <2>1 DEF TypeOK
  <2> HIDE DEF s, j
  <2>4. EnabledIsDated'
    BY <1>5, <2>2, <2>3 DEF DatesInv, EnabledIsDated, Enabled
  <2>5. ASSUME NEW i \in Jids, NEW x \in 0 .. MaxClock, IsMoment(i, x)'
        PROVE  IsMoment(i, x)
    BY <1>1, <1>3, <2>2, <2>3, <2>5 DEF IsMoment
  <2> QED
    BY <1>3, <2>1, <2>4, <2>5, MomentsKept
<1> QED
  BY <1>4, <1>5

\* Every step keeps the dates apart.
LEMMA NextDates == IInv /\ DatesInv /\ [Next]_vars => DatesInv'
<1> SUFFICES ASSUME IInv, DatesInv, [Next]_vars PROVE DatesInv'
  OBVIOUS
<1>0. TypeOK
  BY DEF IInv
<1>1. CASE \E c \in Requests : ConnectStep(c)
  BY <1>1, ConnectStepDates
<1>2. ASSUME UNCHANGED <<group, clock, connect>>
      PROVE  DatesInv'
  BY <1>0, <1>2, NothingRedated
<1>3. CASE HolderStep
  <2>1. CASE \E s \in Sessions, j \in Jids : Disable(s, j)
    <3> PICK s \in Sessions, j \in Jids : Disable(s, j)
      BY <2>1
    <3>1. \A t \in Sessions, i \in Jids :
             group'[t][i] = IF t = s /\ i = j THEN Seeded ELSE group[t][i]
      BY <1>0 DEF Disable, TypeOK
    <3>2. Seeded.is # "enabled" /\ Seeded.at = Null
      BY DEF Seeded
    <3> QED
      BY <1>0, <3>1, <3>2, NothingRedated DEF Disable
  <2>2. CASE CommitEnable
    BY <2>2, CommitEnableDates
  <2> QED
    BY <1>2, <1>3, <2>1, <2>2
       DEF HolderStep, Pair, BeginEnable, CountEnabled, EnableFails, SetSchedule
<1>4. CASE \E s \in Sessions, j \in Jids : Discover(s, j)
  <2> PICK s \in Sessions, j \in Jids : Discover(s, j)
    BY <1>4
  <2>1. \A t \in Sessions, i \in Jids :
           group'[t][i] = IF t = s /\ i = j THEN Seeded ELSE group[t][i]
    BY <1>0 DEF Discover, TypeOK
  <2>2. Seeded.is # "enabled" /\ Seeded.at = Null
    BY DEF Seeded
  <2> QED
    BY <1>0, <2>1, <2>2, NothingRedated DEF Discover
<1>5. CASE \E s \in Sessions : Reboot(s)
  <2> PICK s \in Sessions : Reboot(s)
    BY <1>5
  <2>1. \A d \in Requests : connect'[d] = IdleConnect
    BY DEF Reboot
  <2>2. Taken(s) \in SUBSET Jids /\ Since(s) \in [Jids -> 0 .. MaxClock]
    BY <1>0, TakenTyped DEF IInv
  <2>3. \A j \in Taken(s) : Since(s)[j] # Null /\ IsMoment(j, Since(s)[j])
    BY <1>0, <2>2, TakenDated
  <2> QED
    BY <1>0, <2>1, <2>2, <2>3, IdleUndated, AdoptedDated DEF Reboot
<1> QED
  BY <1>1, <1>2, <1>3, <1>4, <1>5 DEF Next, Lose, PlanMoves, vars

-----------------------------------------------------------------------------
(* The cap is used exactly.                                                *)

\* A set of numbers has a least one.
LEMMA LeastNumber ==
    ASSUME NEW T, T \subseteq Nat, T # {}
    PROVE  \E x \in T : \A y \in T : x <= y
<1>1. \E x \in T : \A y \in T : ~ (<<y, x>> \in OpToRel(<, Nat))
  BY WFMin, NatLessThanWellFounded
<1>2. \A x, y \in Nat : y < x => <<y, x>> \in OpToRel(<, Nat)
  BY DEF OpToRel
<1>3. \E x \in T : \A y \in T : ~ (y < x)
  BY <1>1, <1>2
<1> QED
  BY <1>3

\* Of finitely many things with a number each, no two the same, exactly c have
\* fewer than c before them, or all of them where there are fewer than c.
LEMMA RankedPrefix ==
    ASSUME NEW E, IsFiniteSet(E), NEW m \in [E -> Nat], \A i, j \in E : m[i] = m[j] => i = j,
           NEW c \in Nat
    PROVE  Cardinality({j \in E : Cardinality({i \in E : m[i] < m[j]}) < c})
             = IF Cardinality(E) < c THEN Cardinality(E) ELSE c
<1> DEFINE Before(j) == {i \in E : m[i] < m[j]}
           n == Cardinality(E)
           rank == [j \in E |-> Cardinality(Before(j))]
           D == {j \in E : rank[j] < c}
           k == IF n < c THEN n ELSE c
<1>1. n \in Nat
  BY FS_CardinalityType
<1>2. ASSUME NEW j \in E
      PROVE  /\ IsFiniteSet(Before(j)) /\ Cardinality(Before(j)) \in Nat
             /\ Cardinality(Before(j)) < n
  <2>1. IsFiniteSet(E \ {j}) /\ Cardinality(E \ {j}) = n - 1
    BY FS_RemoveElement
  <2>2. Before(j) \in SUBSET (E \ {j})
    OBVIOUS
  <2>3. IsFiniteSet(Before(j)) /\ Cardinality(Before(j)) <= n - 1
    BY <2>1, <2>2, FS_Subset
  <2>4. Cardinality(Before(j)) \in Nat
    BY <2>3, FS_CardinalityType
  <2> QED
    BY <1>1, <2>3, <2>4
<1>3. ASSUME NEW i \in E, NEW j \in E, m[i] < m[j]
      PROVE  Cardinality(Before(i)) < Cardinality(Before(j))
  <2>1. i \in Before(j)
    BY <1>3
  <2>2. IsFiniteSet(Before(j) \ {i}) /\ Cardinality(Before(j) \ {i}) = Cardinality(Before(j)) - 1
    BY <1>2, <2>1, FS_RemoveElement
  <2>3. Before(i) \in SUBSET (Before(j) \ {i})
    BY <1>3
  <2>4. Cardinality(Before(i)) <= Cardinality(Before(j)) - 1
    BY <2>2, <2>3, FS_Subset
  <2> HIDE DEF Before
  <2>5. Cardinality(Before(i)) \in Nat /\ Cardinality(Before(j)) \in Nat
    BY <1>2
  <2> QED
    BY <2>4, <2>5
<1>4. \A i, j \in E : rank[i] = rank[j] => i = j
  <2> SUFFICES ASSUME NEW i \in E, NEW j \in E, i # j
               PROVE  rank[i] # rank[j]
    OBVIOUS
  <2>1. m[i] < m[j] \/ m[j] < m[i]
    OBVIOUS
  <2> HIDE DEF Before
  <2>2. Cardinality(Before(i)) \in Nat /\ Cardinality(Before(j)) \in Nat
    BY <1>2
  <2>3. Cardinality(Before(i)) # Cardinality(Before(j))
    BY <1>3, <2>1, <2>2
  <2> QED
    BY <2>3
<1> HIDE DEF Before
<1>5. rank \in [E -> 0 .. n - 1]
  BY <1>1, <1>2
<1>6. IsFiniteSet(0 .. n - 1) /\ Cardinality(0 .. n - 1) = n
  BY <1>1, FS_Interval
<1>7. rank \in Injection(E, 0 .. n - 1)
  BY <1>4, <1>5 DEF Injection, IsInjective
<1> HIDE DEF rank
<1>8. rank \in Surjection(E, 0 .. n - 1)
  BY <1>6, <1>7, FS_Injection
<1>9. \A r \in 0 .. n - 1 : \E j \in E : rank[j] = r
  BY <1>8 DEF Surjection
<1> DEFINE first == [j \in D |-> rank[j]]
<1>10. k \in Nat /\ \A r \in 0 .. n - 1 : r < c <=> r \in 0 .. k - 1
  BY <1>1
<1>11. 0 .. k - 1 \subseteq 0 .. n - 1
  BY <1>1
<1> HIDE DEF k, n
<1>12. first \in [D -> 0 .. k - 1]
  BY <1>5, <1>10
<1>13. first \in Bijection(D, 0 .. k - 1)
  <2>1. first \in Injection(D, 0 .. k - 1)
    BY <1>4, <1>12 DEF Injection, IsInjective
  <2>2. \A r \in 0 .. k - 1 : \E j \in D : first[j] = r
    BY <1>9, <1>10, <1>11
  <2>3. first \in Surjection(D, 0 .. k - 1)
    BY <1>12, <2>2 DEF Surjection
  <2> QED
    BY <2>1, <2>3 DEF Bijection
<1>14. IsFiniteSet(D)
  BY FS_Subset
<1>15. Cardinality(0 .. k - 1) = k
  BY <1>10, FS_Interval
<1>16. Cardinality(D) = k
  BY <1>13, <1>14, <1>15, FS_Bijection DEF ExistsBijection
<1>17. D = {j \in E : Cardinality({i \in E : m[i] < m[j]}) < c}
  BY DEF rank, Before
<1> QED
  BY <1>16, <1>17 DEF k, n

\* The Groups enabled before a row are those whose earliest date is before it.
LEMMA RanksInCap ==
    ASSUME TypeOK, DatesInv
    PROVE  Cardinality(InCap) =
             IF Cardinality(EnabledGroups) < cap THEN Cardinality(EnabledGroups) ELSE cap
<1> DEFINE Dates(j) == {group[s][j].at : s \in {t \in Sessions : Enabled(t, j)}}
           m == [j \in EnabledGroups |-> CHOOSE x \in Dates(j) : \A y \in Dates(j) : x <= y]
<1>0. cap \in Nat
  BY GroupsAssumption DEF TypeOK
<1>1. EnabledGroups \subseteq Jids /\ IsFiniteSet(EnabledGroups)
  BY FS_Subset, GroupsAssumption DEF EnabledGroups
<1>2. ASSUME NEW j \in EnabledGroups
      PROVE  /\ m[j] \in Nat /\ m[j] # Null
             /\ \E s \in Sessions : Enabled(s, j) /\ group[s][j].at = m[j]
             /\ \A s \in Sessions : Enabled(s, j) => m[j] <= group[s][j].at
             /\ m[j] \in 0 .. MaxClock /\ IsMoment(j, m[j])
  <2>1. j \in Jids /\ Dates(j) # {}
    BY DEF EnabledGroups
  <2>2. \A s \in Sessions : group[s][j].at \in 0 .. MaxClock
    BY <2>1, RowTyped
  <2>3. Dates(j) \subseteq 0 .. MaxClock /\ Dates(j) \subseteq Nat
    BY <2>2, GroupsAssumption
  <2>4. \E x \in Dates(j) : \A y \in Dates(j) : x <= y
    BY <2>1, <2>3, LeastNumber
  <2>5. m[j] \in Dates(j) /\ \A y \in Dates(j) : m[j] <= y
    BY <2>4
  <2> HIDE DEF m
  <2>6. PICK s \in Sessions : Enabled(s, j) /\ group[s][j].at = m[j]
    BY <2>5
  <2>7. group[s][j].at # Null
    BY <2>1, <2>6 DEF DatesInv, EnabledIsDated
  <2> QED
    BY <2>1, <2>3, <2>5, <2>6, <2>7, RowTyped
<1>3. m \in [EnabledGroups -> Nat]
  BY <1>2
<1> HIDE DEF m
<1>4. \A i, j \in EnabledGroups : m[i] = m[j] => i = j
  BY <1>1, <1>2 DEF DatesInv, MomentsApart
<1> DEFINE Before(j) == {i \in EnabledGroups : m[i] < m[j]}
<1>5. ASSUME NEW s \in Sessions, NEW j \in Jids
      PROVE  EnabledBefore(s, j) = {i \in EnabledGroups : m[i] < group[s][j].at}
  <2>0. group[s][j].at \in 0 .. MaxClock
    BY RowTyped
  <2>1. ASSUME NEW i \in EnabledBefore(s, j)
        PROVE  i \in EnabledGroups /\ m[i] < group[s][j].at
    <3>1. PICK t \in Sessions : Enabled(t, i) /\ group[t][i].at < group[s][j].at
      BY DEF EnabledBefore
    <3>2. i \in EnabledGroups
      BY <3>1 DEF EnabledGroups, EnabledBefore
    <3>3. group[t][i].at \in 0 .. MaxClock
      BY <1>1, <3>2, RowTyped
    <3> QED
      BY <1>2, <2>0, <3>1, <3>2, <3>3
  <2>2. ASSUME NEW i \in EnabledGroups, m[i] < group[s][j].at
        PROVE  i \in EnabledBefore(s, j)
    BY <1>1, <1>2, <2>2 DEF EnabledBefore
  <2> QED
    BY <2>1, <2>2
<1>6. InCap = {j \in EnabledGroups : Cardinality(Before(j)) < cap}
  <2>1. ASSUME NEW j \in InCap
        PROVE  j \in EnabledGroups /\ Cardinality(Before(j)) < cap
    <3>1. PICK s \in Sessions : Enabled(s, j) /\ Cardinality(EnabledBefore(s, j)) < cap
      BY DEF InCap, HasRank
    <3>2. j \in Jids /\ j \in EnabledGroups
      BY <3>1 DEF InCap, HasRank, EnabledGroups
    <3>3. group[s][j].at \in 0 .. MaxClock /\ m[j] <= group[s][j].at
      BY <1>2, <3>1, <3>2, RowTyped
    <3>4. Before(j) \in SUBSET EnabledBefore(s, j) /\ EnabledBefore(s, j) \in SUBSET EnabledGroups
      BY <1>2, <1>5, <3>2, <3>3
    <3>5. IsFiniteSet(EnabledBefore(s, j))
      BY <1>1, <3>4, FS_Subset
    <3>6. /\ Cardinality(Before(j)) <= Cardinality(EnabledBefore(s, j))
          /\ Cardinality(Before(j)) \in Nat /\ Cardinality(EnabledBefore(s, j)) \in Nat
      BY <3>4, <3>5, FS_Subset, FS_CardinalityType
    <3> QED
      BY <1>0, <3>1, <3>2, <3>6
  <2>2. ASSUME NEW j \in EnabledGroups, Cardinality(Before(j)) < cap
        PROVE  j \in InCap
    <3>1. PICK s \in Sessions : Enabled(s, j) /\ group[s][j].at = m[j]
      BY <1>2
    <3>2. EnabledBefore(s, j) = Before(j)
      BY <1>1, <1>5, <3>1
    <3> QED
      BY <1>1, <2>2, <3>1, <3>2 DEF InCap, HasRank
  <2> QED
    BY <2>1, <2>2
<1> QED
  BY <1>0, <1>1, <1>3, <1>4, <1>6, RankedPrefix

\* A Group in the cap is processed, or the row that ranks it there is stranded.
LEMMA CapUsed ==
    ASSUME TypeOK, DatesInv
    PROVE  CapLostToStranded
<1>1. IsFiniteSet(Processed) /\ IsFiniteSet(Stranded) /\ IsFiniteSet(InCap) /\ IsFiniteSet(EnabledGroups)
  BY FS_Subset, GroupsAssumption DEF Processed, Stranded, InCap, EnabledGroups
<1>2. /\ cap \in Nat /\ Cardinality(Processed) \in Nat /\ Cardinality(Stranded) \in Nat
      /\ Cardinality(InCap) \in Nat /\ Cardinality(EnabledGroups) \in Nat
  BY <1>1, FS_CardinalityType, GroupsAssumption DEF TypeOK
<1>3. Processed \in SUBSET InCap /\ InCap \in SUBSET (Processed \cup Stranded)
  BY DEF Processed, Stranded, InCap, HasRank
<1>4. Cardinality(Processed) <= Cardinality(InCap)
  BY <1>1, <1>3, FS_Subset
<1>5. /\ IsFiniteSet(Processed \cup Stranded)
      /\ Cardinality(Processed \cup Stranded) =
           Cardinality(Processed) + Cardinality(Stranded) - Cardinality(Processed \cap Stranded)
  BY <1>1, FS_Union
<1>6. /\ Cardinality(InCap) <= Cardinality(Processed \cup Stranded)
      /\ Cardinality(Processed \cap Stranded) \in Nat
  BY <1>1, <1>3, <1>5, FS_Subset, FS_CardinalityType, FS_Intersection
<1>7. Cardinality(InCap) <= Cardinality(Processed) + Cardinality(Stranded)
  BY <1>2, <1>5, <1>6
<1>8. Cardinality(InCap) <= cap
  BY <1>2, RanksInCap
<1> QED
  BY <1>2, <1>4, <1>7, <1>8, RanksInCap DEF CapLostToStranded

-----------------------------------------------------------------------------
(* The repair keeps the choices.                                           *)

\* Where some other row of a Group is enabled, the one an adoption takes from is.
LEMMA PriorExists ==
    ASSUME TypeOK, NEW s \in Sessions, NEW u \in Sessions, NEW j \in Jids, u # s, Enabled(u, j)
    PROVE  \E t \in Sessions : IsPrior(s, t, j) /\ Enabled(t, j)
<1> DEFINE Ages == {MaxClock - group[t][j].at : t \in {v \in Sessions : v # s /\ Enabled(v, j)}}
<1>1. \A t \in Sessions : group[t][j].at \in 0 .. MaxClock
  BY RowTyped
<1>2. Ages \subseteq Nat /\ Ages # {}
  BY <1>1, GroupsAssumption
<1>3. PICK x \in Ages : \A y \in Ages : x <= y
  BY <1>2, LeastNumber
<1>4. PICK t \in Sessions : t # s /\ Enabled(t, j) /\ x = MaxClock - group[t][j].at
  OBVIOUS
<1>5. \A v \in Sessions : v # s /\ Enabled(v, j) => group[v][j].at <= group[t][j].at
  <2> SUFFICES ASSUME NEW v \in Sessions, v # s, Enabled(v, j)
               PROVE  group[v][j].at <= group[t][j].at
    OBVIOUS
  <2>1. x <= MaxClock - group[v][j].at
    BY <1>3
  <2> QED
    BY <1>1, <1>4, <2>1, GroupsAssumption
<1>6. IsPrior(s, t, j)
  BY <1>4, <1>5 DEF IsPrior, Rows, Enabled
<1> QED
  BY <1>4, <1>6

LEMMA Repaired ==
    ASSUME TypeOK
    PROVE  RepairKeepsChoices
<1> SUFFICES ASSUME NEW s \in Sessions, NEW j \in Jids, IsLive(s)
             PROVE  LET repaired == Adopted(s, Taken(s), Since(s))
                        on == {t \in Sessions : repaired[t][j].is = "enabled"}
                    IN  /\ on # {} <=> j \in EnabledGroups
                        /\ s \in Rows(j) => on \subseteq {s}
  BY DEF RepairKeepsChoices
<1> DEFINE repaired == Adopted(s, Taken(s), Since(s))
           on == {t \in Sessions : repaired[t][j].is = "enabled"}
<1>1. \A t \in Sessions :
        repaired[t][j] = IF t = s /\ j \in Taken(s) THEN [is |-> "enabled", at |-> Since(s)[j]]
                         ELSE IF t # s /\ s \in Rows(j) /\ Enabled(t, j)
                           THEN [group[t][j] EXCEPT !.is = "disabled"]
                         ELSE group[t][j]
  BY DEF Adopted
<1>2. \A t \in Sessions : group[t][j] \in Row
  BY RowTyped
<1> HIDE DEF repaired
<1>3. \A t \in Sessions :
        t \in on <=> \/ t = s /\ j \in Taken(s)
                     \/ (t = s \/ s \notin Rows(j)) /\ Enabled(t, j)
  <2> SUFFICES ASSUME NEW t \in Sessions
               PROVE  t \in on <=> \/ t = s /\ j \in Taken(s)
                                   \/ (t = s \/ s \notin Rows(j)) /\ Enabled(t, j)
    OBVIOUS
  <2>1. [group[t][j] EXCEPT !.is = "disabled"].is = "disabled"
    BY <1>2 DEF Row
  <2>2. CASE t = s /\ j \in Taken(s)
    <3>1. repaired[t][j] = [is |-> "enabled", at |-> Since(s)[j]]
      BY <1>1, <2>2
    <3> QED
      BY <2>2, <3>1
  <2>3. CASE t # s /\ s \in Rows(j) /\ Enabled(t, j)
    <3>1. repaired[t][j] = [group[t][j] EXCEPT !.is = "disabled"]
      BY <1>1, <2>3
    <3> QED
      BY <2>1, <2>3, <3>1
  <2>4. CASE ~ (t = s /\ j \in Taken(s)) /\ ~ (t # s /\ s \in Rows(j) /\ Enabled(t, j))
    <3>1. repaired[t][j] = group[t][j]
      BY <1>1, <2>4
    <3> QED
      BY <2>4, <3>1 DEF Enabled
  <2> QED
    BY <2>2, <2>3, <2>4
<1>4. s \in Rows(j) => on \subseteq {s}
  BY <1>3
<1>5. on # {} => j \in EnabledGroups
  BY <1>3 DEF EnabledGroups, Taken
<1>6. ASSUME NEW u \in Sessions, Enabled(u, j)
      PROVE  on # {}
  <2>1. CASE u = s \/ s \notin Rows(j)
    BY <1>3, <1>6, <2>1
  <2>2. CASE u # s /\ s \in Rows(j) /\ ~ Enabled(s, j)
    <3>1. group[s][j].is = "disabled"
      BY <1>2, <2>2 DEF Row, Rows, Enabled
    <3>2. j \in Taken(s)
      BY <1>6, <2>2, <3>1, PriorExists DEF Taken
    <3> QED
      BY <1>3, <3>2
  <2>3. CASE Enabled(s, j)
    BY <1>3, <2>3
  <2> QED
    BY <2>1, <2>2, <2>3
<1>7. j \in EnabledGroups => on # {}
  BY <1>6 DEF EnabledGroups
<1> QED
  BY <1>4, <1>5, <1>7 DEF repaired

\* The dates stay apart in every reachable state.
LEMMA DatesHold == Spec => [](IInv /\ DatesInv)
<1>1. Init => IInv /\ DatesInv
  BY InitInv, DatesInit
<1>2. (IInv /\ DatesInv) /\ [Next]_vars => (IInv /\ DatesInv)'
  BY NextInv, NextDates
<1> QED
  BY <1>1, <1>2, PTL DEF Spec

\* Whatever re-pairing leaves behind and however the plan moves, no more Groups are
\* processed than the cap in force allows (block.ts), and where fewer of those enabled
\* are, rows of Sessions that are not connected take their places (subscriptions.ts).
THEOREM CapIsUsed == Spec => []CapLostToStranded
<1>1. IInv /\ DatesInv => CapLostToStranded
  BY CapUsed DEF IInv
<1> QED
  BY <1>1, DatesHold, PTL

\* The repair at every boot (024_group_identity.sql) switches no Group on or off,
\* and leaves the live Session the only one with a row of its Groups enabled.
THEOREM RepairKeeps == Spec => []RepairKeepsChoices
<1>1. IInv => RepairKeepsChoices
  BY Repaired DEF IInv
<1> QED
  BY <1>1, InvHolds, PTL

=============================================================================
