--------------------------- MODULE OutboundProofs ----------------------------
(***************************************************************************)
(* Proofs about what WALAO sends unasked: the mention pings (Pings) and    *)
(* the opt-in messages to other people (Tier1).                            *)
(*                                                                         *)
(* Pings, for any number of Accounts, mentions and overlapping passes, any *)
(* limit and any number of crashes: the variables keep their types, a      *)
(* mention is pinged once for each transaction lost after its ping and     *)
(* once besides, and no two model calls use one slot of the hourly quota.  *)
(*                                                                         *)
(* Tier1, for any number of recipients, overlapping requests and restarts: *)
(* consent comes before anything but the question, the question is asked   *)
(* once, and a Yes is kept.                                                *)
(***************************************************************************)
EXTENDS Pings, Tier1, TLAPS

-----------------------------------------------------------------------------
(* The mention pings. *)

Busy == {"gate", "count", "judge", "send", "resolve"}

\* A pass between its claim and its COMMIT holds a row, and the row is queued.
HoldsItsRow ==
  \A p \in Passes :
    /\ pc[p] \in Busy <=> cur[p] # NoMention
    /\ cur[p] # NoMention => ping[cur[p]] = "queued"

\* FOR UPDATE SKIP LOCKED: no row is held twice.
OneHolder == \A p, q \in Passes : cur[p] # NoMention /\ cur[p] = cur[q] => p = q

\* A pass that judges has a slot of the quota to spend on it.
JudgesWithASlot == \A p \in Passes : pc[p] = "judge" <=> slot[p] # NoSlot

Held == PingsTypeOK /\ HoldsItsRow /\ OneHolder /\ JudgesWithASlot

\* A ping that is not accounted for by a lost transaction is one whose row is
\* resolved, or about to be by the pass that holds it.
Settling(m) == ping[m] = "resolved" \/ \E p \in Passes : cur[p] = m /\ pc[p] = "resolve"
PingsAccounted ==
  \A m \in Mentions :
    /\ sent[m] <= 1 + broken[m]
    /\ ~ Settling(m) => sent[m] <= broken[m]

\* A slot was given out in this window, within the limit, or in an earlier one.
GivenOut(s) ==
  /\ s \in Slots /\ s.number \in 1..Limit
  /\ s.window <= window[s.user]
  /\ s.window = window[s.user] => s.number <= count[s.user]
SlotsGivenOut ==
  /\ \A c \in calls : GivenOut(c)
  /\ \A p \in Passes :
       slot[p] # NoSlot =>
            /\ GivenOut(slot[p]) /\ slot[p] \notin calls
            /\ \A q \in Passes : q # p => slot[q] # slot[p]

PingsInv == Held /\ PingsAccounted /\ SlotsGivenOut

-----------------------------------------------------------------------------
\* No pass runs, nothing is queued: the invariant holds.
LEMMA PingsInitInv == PingsInit => PingsInv
<1> SUFFICES ASSUME PingsInit PROVE PingsInv
  OBVIOUS
<1>1. PingsTypeOK
  BY PingsAssumption DEF PingsInit, PingsTypeOK, PassStates
<1>2. HoldsItsRow /\ OneHolder
  BY DEF PingsInit, HoldsItsRow, OneHolder, Busy
<1>5. JudgesWithASlot
  BY DEF PingsInit, JudgesWithASlot
<1>3. PingsAccounted
  BY DEF PingsInit, PingsAccounted
<1>4. SlotsGivenOut
  BY DEF PingsInit, SlotsGivenOut
<1> QED
  BY <1>1, <1>2, <1>3, <1>4, <1>5 DEF PingsInv, Held

\* The pass that holds a row is about one of its Accounts.
LEMMA OwnerTyped ==
    ASSUME Held, NEW p \in Passes, pc[p] \in Busy
    PROVE  cur[p] \in Mentions /\ Owner(p) \in Users
BY PingsAssumption DEF Held, HoldsItsRow, PingsTypeOK, Owner

\* What the SELECT may return is a queued row nobody holds.
LEMMA ClaimableTyped ==
    ASSUME NEW p \in Passes, NEW m \in Claimable(p)
    PROVE  m \in Mentions /\ ping[m] = "queued" /\ \A q \in Passes : cur[q] # m
BY DEF Claimable, ClaimableUnlocked, Locked

-----------------------------------------------------------------------------
\* Each step of a pass keeps the types, the rows it holds, and the locks.
LEMMA PassKeepsHeld ==
    ASSUME Held, NEW p \in Passes, PassStep(p)
    PROVE  Held'
<1> USE DEF Held
<1>0. JudgesWithASlot'
  <2> USE DEF PingsTypeOK, JudgesWithASlot
  <2>1. CASE StartPass(p) \/ Claim(p) \/ SkipAccount(p) \/ PassGate(p) \/ SendPing(p) \/ Resolve(p)
    BY <2>1 DEF StartPass, Claim, SkipAccount, PassGate, SendPing, Resolve, history
  <2>2. CASE NothingToClaim(p) \/ SendThrows(p)
    BY <2>2 DEF NothingToClaim, SendThrows, EndPass, history
  <2>3. CASE Judge(p) \/ JudgeThrows(p)
    BY <2>3 DEF Judge, JudgeThrows, Rollback, EndPass
  <2>4. CASE allow(p)
    <3>1. [user |-> Owner(p), window |-> window[Owner(p)], number |-> count[Owner(p)] + 1] # NoSlot
      <4>1. Owner(p) \in Users
        BY <2>4, OwnerTyped DEF allow, Busy
      <4> QED
        BY <4>1, PingsAssumption
    <3> QED
      BY <2>4, <3>1 DEF allow
  <2> QED
    BY <2>1, <2>2, <2>3, <2>4 DEF PassStep
<1>1. ASSUME EndPass(p), ping' = ping
      PROVE /\ pc' \in [Passes -> PassStates] /\ cur' \in [Passes -> Mentions \cup {NoMention}]
            /\ blocked' \in [Passes -> SUBSET Users] /\ HoldsItsRow' /\ OneHolder'
  BY <1>1 DEF EndPass, PingsTypeOK, PassStates, HoldsItsRow, OneHolder, Busy
<1>2. ASSUME NEW s \in Busy, pc[p] \in Busy, pc' = [pc EXCEPT ![p] = s], cur' = cur, ping' = ping
      PROVE pc' \in [Passes -> PassStates] /\ HoldsItsRow' /\ OneHolder'
  BY <1>2 DEF PingsTypeOK, PassStates, HoldsItsRow, OneHolder, Busy
<1>3. CASE StartPass(p)
  BY <1>0, <1>3 DEF StartPass, PingsTypeOK, PassStates, HoldsItsRow, OneHolder, Busy,
              rows, quota, history
<1>4. CASE Claim(p)
  <2> PICK m \in Claimable(p) : cur' = [cur EXCEPT ![p] = m]
    BY <1>4 DEF Claim
  <2>1. m \in Mentions /\ ping[m] = "queued" /\ \A q \in Passes : cur[q] # m
    BY ClaimableTyped
  <2>2. m # NoMention
    BY <2>1, PingsAssumption
  <2>3. PingsTypeOK'
    BY <1>4, <2>1 DEF Claim, PingsTypeOK, PassStates, rows, quota, history
  <2>4. HoldsItsRow'
    BY <1>4, <2>1, <2>2 DEF Claim, PingsTypeOK, HoldsItsRow, Busy, rows
  <2>5. OneHolder'
    BY <1>4, <2>1 DEF PingsTypeOK, OneHolder
  <2> QED
    BY <1>0, <2>3, <2>4, <2>5
<1>5. CASE NothingToClaim(p)
  BY <1>0, <1>1, <1>5 DEF NothingToClaim, PingsTypeOK, rows, quota, history
<1>6. CASE SkipAccount(p)
  <2>1. Owner(p) \in Users
    BY <1>6, OwnerTyped DEF SkipAccount, Busy
  <2>2. PingsTypeOK'
    BY <1>6, <2>1 DEF SkipAccount, PingsTypeOK, PassStates, rows, quota, history
  <2>3. HoldsItsRow' /\ OneHolder'
    BY <1>6 DEF SkipAccount, PingsTypeOK, HoldsItsRow, OneHolder, Busy, rows
  <2> QED
    BY <1>0, <2>2, <2>3
<1>7. CASE PassGate(p)
  <2>1. pc[p] \in Busy /\ "count" \in Busy /\ pc' = [pc EXCEPT ![p] = "count"] /\ cur' = cur /\ ping' = ping
    BY <1>7 DEF PassGate, Busy, rows
  <2> QED
    BY <1>0, <1>2, <1>7, <2>1 DEF PassGate, PingsTypeOK, rows, quota, history
<1>8. CASE allow(p)
  <2> DEFINE u == Owner(p)
             n == count[u] + 1
             s == [user |-> u, window |-> window[u], number |-> n]
  <2>1. pc[p] \in Busy /\ {"judge", "resolve"} \subseteq Busy /\ cur' = cur /\ ping' = ping
    BY <1>8 DEF allow, Busy, rows
  <2>2. u \in Users
    BY <2>1, OwnerTyped
  <2>3. s \in Slots /\ count' \in [Users -> Nat]
    BY <1>8, <2>2 DEF allow, PingsTypeOK, Slots
  <2>4. /\ slot' \in [Passes -> Slots \cup {NoSlot}]
        /\ pc' = [pc EXCEPT ![p] = "judge"] \/ pc' = [pc EXCEPT ![p] = "resolve"]
    BY <1>8, <2>3 DEF allow, PingsTypeOK
  <2>5. pc' \in [Passes -> PassStates] /\ HoldsItsRow' /\ OneHolder'
    BY <1>2, <2>1, <2>4
  <2> QED
    BY <1>0, <1>8, <2>3, <2>4, <2>5 DEF allow, PingsTypeOK, rows
<1>9. CASE Judge(p)
  <2>1. /\ pc[p] \in Busy /\ {"send", "resolve"} \subseteq Busy /\ cur' = cur /\ ping' = ping
        /\ \E a \in {"send", "resolve"} : pc' = [pc EXCEPT ![p] = a]
    BY <1>9 DEF Judge, Busy, rows
  <2>2. pc' \in [Passes -> PassStates] /\ HoldsItsRow' /\ OneHolder'
    BY <1>2, <2>1
  <2>3. slot' \in [Passes -> Slots \cup {NoSlot}]
    BY <1>9 DEF Judge, PingsTypeOK
  <2>4. calls' \in SUBSET Slots
    BY <1>9 DEF Judge, PingsTypeOK, JudgesWithASlot
  <2> QED
    BY <1>0, <1>9, <2>2, <2>3, <2>4 DEF Judge, PingsTypeOK, rows, quota
<1>10. CASE JudgeThrows(p)
  <2>1. EndPass(p) /\ ping' = ping
    BY <1>10 DEF JudgeThrows, Rollback, rows
  <2>2. calls' \in SUBSET Slots /\ slot' \in [Passes -> Slots \cup {NoSlot}]
    BY <1>10 DEF JudgeThrows, Rollback, PingsTypeOK, JudgesWithASlot
  <2>3. count' = count
    BY <1>10, OwnerTyped DEF JudgeThrows, Rollback, PingsTypeOK, Busy
  <2> QED
    BY <1>0, <1>1, <1>10, <2>1, <2>2, <2>3 DEF JudgeThrows, Rollback, PingsTypeOK, rows
<1>11. CASE SendPing(p)
  <2>1. pc[p] \in Busy /\ "resolve" \in Busy /\ pc' = [pc EXCEPT ![p] = "resolve"] /\ cur' = cur /\ ping' = ping
    BY <1>11 DEF SendPing, Busy, rows
  <2>2. cur[p] \in Mentions
    BY <2>1, OwnerTyped
  <2>3. pc' \in [Passes -> PassStates] /\ HoldsItsRow' /\ OneHolder'
    BY <1>2, <2>1
  <2>4. sent' \in [Mentions -> Nat]
    BY <1>11, <2>2 DEF SendPing, PingsTypeOK
  <2> QED
    BY <1>0, <1>11, <2>3, <2>4 DEF SendPing, PingsTypeOK, rows, quota
<1>12. CASE SendThrows(p)
  <2>1. EndPass(p) /\ ping' = ping
    BY <1>12 DEF SendThrows, rows
  <2>2. cur[p] \in Mentions
    BY <1>12, OwnerTyped DEF SendThrows, Busy
  <2>3. sent' \in [Mentions -> Nat] /\ broken' \in [Mentions -> Nat]
    BY <1>12, <2>2 DEF SendThrows, PingsTypeOK
  <2> QED
    BY <1>0, <1>1, <1>12, <2>1, <2>3 DEF SendThrows, PingsTypeOK, rows, quota
<1>13. CASE Resolve(p)
  <2>1. cur[p] \in Mentions
    BY <1>13, OwnerTyped DEF Resolve, Busy
  <2>2. PingsTypeOK'
    BY <1>13, <2>1 DEF Resolve, PingsTypeOK, PassStates, quota, history
  <2>3. \A q \in Passes : cur'[q] # NoMention => cur'[q] = cur[q] /\ cur[q] # cur[p]
    BY <1>13, <2>1, PingsAssumption DEF Resolve, PingsTypeOK, OneHolder
  <2>4. HoldsItsRow'
    <3> SUFFICES ASSUME NEW q \in Passes
        PROVE /\ pc'[q] \in Busy <=> cur'[q] # NoMention
              /\ cur'[q] # NoMention => ping'[cur'[q]] = "queued"
      BY DEF HoldsItsRow
    <3>1. pc'[q] \in Busy <=> cur'[q] # NoMention
      BY <1>13 DEF Resolve, PingsTypeOK, HoldsItsRow, Busy
    <3>2. cur'[q] # NoMention => ping'[cur'[q]] = ping[cur[q]]
      BY <1>13, <2>3 DEF Resolve, PingsTypeOK
    <3> QED
      BY <2>3, <3>1, <3>2 DEF HoldsItsRow
  <2>5. OneHolder'
    BY <2>3 DEF OneHolder
  <2> QED
    BY <1>0, <2>2, <2>4, <2>5
<1> QED
  BY <1>3, <1>4, <1>5, <1>6, <1>7, <1>8, <1>9, <1>10, <1>11, <1>12, <1>13 DEF PassStep

\* So does what happens around the passes.
LEMMA EnvironmentKeepsHeld ==
    ASSUME Held, Environment
    PROVE  Held'
<1> USE DEF Held
<1>1. ASSUME NEW m \in Mentions, QueueMention(m) PROVE Held'
  <2>1. \A p \in Passes : cur[p] # m
    BY <1>1, PingsAssumption DEF QueueMention, HoldsItsRow
  <2>2. PingsTypeOK'
    BY <1>1 DEF QueueMention, PingsTypeOK, quota, history
  <2> QED
    BY <1>1, <2>1, <2>2 DEF QueueMention, PingsTypeOK, HoldsItsRow, OneHolder, JudgesWithASlot, history
<1>2. ASSUME NEW m \in Mentions, ExpireMessage(m) PROVE Held'
  <2>1. \A p \in Passes : cur[p] # m
    BY <1>2 DEF ExpireMessage, Locked
  <2>2. PingsTypeOK'
    BY <1>2 DEF ExpireMessage, PingsTypeOK, quota, history
  <2> QED
    BY <1>2, <2>1, <2>2 DEF ExpireMessage, PingsTypeOK, HoldsItsRow, OneHolder, JudgesWithASlot, history
<1>3. ASSUME NEW u \in Users, FlipSendable(u) PROVE Held'
  BY <1>3 DEF FlipSendable, PingsTypeOK, HoldsItsRow, OneHolder, JudgesWithASlot, quota, history
<1>4. ASSUME NEW u \in Users, RollWindow(u) PROVE Held'
  BY <1>4 DEF RollWindow, PingsTypeOK, HoldsItsRow, OneHolder, JudgesWithASlot, rows, history
<1>5. CASE CrashPasses
  <2>1. PingsTypeOK'
    BY <1>5 DEF CrashPasses, PingsTypeOK, PassStates, quota
  <2> QED
    BY <1>5, <2>1 DEF CrashPasses, HoldsItsRow, OneHolder, JudgesWithASlot, Busy
<1> QED
  BY <1>1, <1>2, <1>3, <1>4, <1>5 DEF Environment
-----------------------------------------------------------------------------
\* A step of a pass sends a ping only for a row that is still to be settled,
\* and then settles it or loses the transaction.
LEMMA PassKeepsAccount ==
    ASSUME Held, PingsAccounted, NEW p \in Passes, PassStep(p)
    PROVE  PingsAccounted'
<1> USE DEF Held
<1> DEFINE Account(m) == sent[m] <= 1 + broken[m] /\ (~ Settling(m) => sent[m] <= broken[m])
<1> SUFFICES ASSUME NEW m \in Mentions
    PROVE /\ sent'[m] <= 1 + broken'[m]
          /\ ~ Settling(m)' => sent'[m] <= broken'[m]
  BY DEF PingsAccounted
<1>0. /\ sent[m] \in Nat /\ broken[m] \in Nat
      /\ sent[m] <= 1 + broken[m] /\ (~ Settling(m) => sent[m] <= broken[m])
  BY DEF PingsAccounted, PingsTypeOK
<1>1. ASSUME sent' = sent, broken' = broken,
             ping[m] = "resolved" => ping'[m] = "resolved",
             \A q \in Passes : cur[q] = m /\ pc[q] = "resolve" =>
                ping'[m] = "resolved" \/ (cur'[q] = m /\ pc'[q] = "resolve")
      PROVE /\ sent'[m] <= 1 + broken'[m]
            /\ ~ Settling(m)' => sent'[m] <= broken'[m]
  BY <1>0, <1>1 DEF Settling
<1>2. CASE StartPass(p) \/ Claim(p) \/ NothingToClaim(p) \/ SkipAccount(p) \/ PassGate(p)
           \/ allow(p) \/ Judge(p) \/ JudgeThrows(p)
  <2>1. /\ sent' = sent /\ broken' = broken /\ ping' = ping
        /\ pc[p] # "resolve" /\ \A q \in Passes : q # p => pc'[q] = pc[q] /\ cur'[q] = cur[q]
    BY <1>2 DEF StartPass, Claim, NothingToClaim, SkipAccount, PassGate, allow, Judge, JudgeThrows,
                Rollback, EndPass, PingsTypeOK, rows, history
  <2> QED
    BY <1>1, <2>1
<1>3. CASE SendPing(p)
  <2>1. pc[p] = "send" /\ cur[p] \in Mentions
    BY <1>3, OwnerTyped DEF SendPing, Busy
  <2>2. CASE cur[p] = m
    <3>1. ~ Settling(m)
      BY <2>1, <2>2, PingsAssumption DEF Settling, HoldsItsRow, OneHolder
    <3>2. sent'[m] = sent[m] + 1 /\ broken' = broken /\ pc'[p] = "resolve" /\ cur'[p] = m
      BY <1>3, <2>2 DEF SendPing, PingsTypeOK
    <3> QED
      BY <1>0, <3>1, <3>2 DEF Settling
  <2>3. CASE cur[p] # m
    <3>1. /\ sent'[m] = sent[m] /\ broken' = broken /\ ping' = ping
          /\ \A q \in Passes : cur[q] = m /\ pc[q] = "resolve" => cur'[q] = m /\ pc'[q] = "resolve"
      BY <1>3, <2>1, <2>3 DEF SendPing, PingsTypeOK, rows
    <3> QED
      BY <1>0, <3>1 DEF Settling
  <2> QED
    BY <2>2, <2>3
<1>4. CASE SendThrows(p)
  <2>1. pc[p] = "send" /\ cur[p] \in Mentions
    BY <1>4, OwnerTyped DEF SendThrows, Busy
  <2>2. /\ ping' = ping
        /\ \A q \in Passes : cur[q] = m /\ pc[q] = "resolve" => cur'[q] = m /\ pc'[q] = "resolve"
    BY <1>4, <2>1 DEF SendThrows, EndPass, PingsTypeOK, rows
  <2>3. PICK left \in {0, 1} : /\ sent' = [sent EXCEPT ![cur[p]] = @ + left]
                              /\ broken' = [broken EXCEPT ![cur[p]] = @ + left]
    BY <1>4 DEF SendThrows
  <2>4. CASE cur[p] = m
    <3>1. ~ Settling(m)
      BY <2>1, <2>4, PingsAssumption DEF Settling, HoldsItsRow, OneHolder
    <3>2. sent'[m] = sent[m] + left /\ broken'[m] = broken[m] + left
      BY <2>3, <2>4 DEF PingsTypeOK
    <3> QED
      BY <1>0, <3>1, <3>2
  <2>5. CASE cur[p] # m
    <3>1. sent'[m] = sent[m] /\ broken'[m] = broken[m]
      BY <2>1, <2>3, <2>5 DEF PingsTypeOK
    <3> QED
      BY <1>0, <2>2, <3>1 DEF Settling
  <2> QED
    BY <2>4, <2>5
<1>5. CASE Resolve(p)
  <2>1. cur[p] \in Mentions /\ pc[p] = "resolve"
    BY <1>5, OwnerTyped DEF Resolve, Busy
  <2>2. /\ sent' = sent /\ broken' = broken
        /\ ping[m] = "resolved" => ping'[m] = "resolved"
        /\ cur[p] = m => ping'[m] = "resolved"
        /\ \A q \in Passes : q # p => pc'[q] = pc[q] /\ cur'[q] = cur[q]
    BY <1>5, <2>1 DEF Resolve, PingsTypeOK, history
  <2> QED
    BY <1>1, <2>2
<1> QED
  BY <1>2, <1>3, <1>4, <1>5 DEF PassStep

\* A crash loses every transaction that may have sent.
LEMMA EnvironmentKeepsAccount ==
    ASSUME Held, PingsAccounted, Environment
    PROVE  PingsAccounted'
<1> USE DEF Held
<1> SUFFICES ASSUME NEW m \in Mentions
    PROVE /\ sent'[m] <= 1 + broken'[m]
          /\ ~ Settling(m)' => sent'[m] <= broken'[m]
  BY DEF PingsAccounted
<1>0. /\ sent[m] \in Nat /\ broken[m] \in Nat
      /\ sent[m] <= 1 + broken[m] /\ (~ Settling(m) => sent[m] <= broken[m])
  BY DEF PingsAccounted, PingsTypeOK
<1>1. CASE CrashPasses
  <2>1. sent' = sent /\ ping' = ping
    BY <1>1 DEF CrashPasses
  <2>2. CASE \E p \in Passes : cur[p] = m /\ pc[p] = "resolve"
    <3>1. broken'[m] = broken[m] + 1
      BY <1>1, <2>2 DEF CrashPasses
    <3> QED
      BY <1>0, <2>1, <3>1
  <2>3. CASE ~ \E p \in Passes : cur[p] = m /\ pc[p] = "resolve"
    <3>1. broken'[m] = broken[m]
      BY <1>1, <2>3 DEF CrashPasses
    <3> QED
      BY <1>0, <2>1, <2>3, <3>1 DEF Settling
  <2> QED
    BY <2>2, <2>3
<1>2. CASE \/ \E n \in Mentions : QueueMention(n) \/ ExpireMessage(n)
           \/ \E u \in Users : FlipSendable(u) \/ RollWindow(u)
  <2>1. /\ sent' = sent /\ broken' = broken /\ pc' = pc /\ cur' = cur
        /\ ping[m] = "resolved" => ping'[m] = "resolved"
    BY <1>2 DEF QueueMention, ExpireMessage, FlipSendable, RollWindow, PingsTypeOK, rows, history
  <2> QED
    BY <1>0, <2>1 DEF Settling
<1> QED
  BY <1>1, <1>2 DEF Environment
-----------------------------------------------------------------------------
\* A slot stays given out when its window's count grows, and when a new window
\* starts.
LEMMA StaysGivenOut ==
    ASSUME PingsTypeOK, NEW u \in Users, NEW s, GivenOut(s),
           \/ /\ window' = window
              /\ count' = [count EXCEPT ![u] = @ + 1]
           \/ /\ window' = [window EXCEPT ![u] = @ + 1]
              /\ count' = [count EXCEPT ![u] = 0]
           \/ window' = window /\ count' = count
    PROVE  GivenOut(s)'
<1>1. /\ s \in Slots /\ s.user \in Users /\ s.window \in Nat /\ s.number \in Nat
      /\ window[s.user] \in Nat /\ count[s.user] \in Nat
  BY DEF GivenOut, Slots, PingsTypeOK
<1>2. CASE window' = window /\ count' = [count EXCEPT ![u] = @ + 1]
  BY <1>1, <1>2 DEF GivenOut, PingsTypeOK
<1>3. CASE window' = [window EXCEPT ![u] = @ + 1] /\ count' = [count EXCEPT ![u] = 0]
  BY <1>1, <1>3 DEF GivenOut, PingsTypeOK
<1>4. CASE window' = window /\ count' = count
  BY <1>4 DEF GivenOut
<1> QED
  BY <1>2, <1>3, <1>4

\* A pass gives out the next number of the window it counted in, and spends the
\* slot it holds on one call.
LEMMA PassKeepsSlots ==
    ASSUME Held, SlotsGivenOut, NEW p \in Passes, PassStep(p)
    PROVE  SlotsGivenOut'
<1> USE DEF Held
<1>1. ASSUME UNCHANGED <<count, window, slot, calls>>
      PROVE SlotsGivenOut'
  BY <1>1 DEF SlotsGivenOut, GivenOut
<1>2. CASE StartPass(p) \/ Claim(p) \/ NothingToClaim(p) \/ SkipAccount(p) \/ PassGate(p)
           \/ SendPing(p) \/ SendThrows(p) \/ Resolve(p)
  BY <1>1, <1>2 DEF StartPass, Claim, NothingToClaim, SkipAccount, PassGate, SendPing, SendThrows,
                    Resolve, quota, history
<1>3. CASE Judge(p) \/ JudgeThrows(p)
  <2>1. /\ pc[p] = "judge" /\ slot[p] # NoSlot
        /\ calls' = calls \cup {slot[p]} /\ slot' = [slot EXCEPT ![p] = NoSlot]
    BY <1>3 DEF Judge, JudgeThrows, Rollback, JudgesWithASlot
  <2>2. count' = count /\ window' = window
    BY <1>3, OwnerTyped DEF Judge, JudgeThrows, Rollback, PingsTypeOK, Busy, quota
  <2>3. \A c \in calls' : GivenOut(c)'
    BY <2>1, <2>2 DEF SlotsGivenOut, GivenOut
  <2>4. \A q \in Passes : slot'[q] # NoSlot => q # p /\ slot'[q] = slot[q]
    BY <2>1 DEF PingsTypeOK
  <2>5. ASSUME NEW q \in Passes, slot'[q] # NoSlot
        PROVE /\ GivenOut(slot[q])' /\ slot'[q] \notin calls'
              /\ \A r \in Passes : r # q => slot'[r] # slot'[q]
    <3>1. q # p /\ slot'[q] = slot[q]
      BY <2>4, <2>5
    <3>2. GivenOut(slot[q]) /\ slot[q] \notin calls /\ \A r \in Passes : r # q => slot[r] # slot[q]
      BY <2>5, <3>1 DEF SlotsGivenOut
    <3>3. GivenOut(slot[q])'
      BY <2>2, <3>1, <3>2 DEF GivenOut
    <3>4. \A r \in Passes : slot'[r] # NoSlot => slot'[r] = slot[r]
      BY <2>4
    <3> QED
      BY <2>1, <2>5, <3>1, <3>2, <3>3, <3>4
  <2> QED
    BY <2>3, <2>5 DEF SlotsGivenOut
<1>4. CASE allow(p)
  <2> DEFINE u == Owner(p)
             n == count[u] + 1
             new == [user |-> u, window |-> window[u], number |-> n]
  <2>1. u \in Users /\ slot[p] = NoSlot
    BY <1>4, OwnerTyped DEF allow, Busy, JudgesWithASlot
  <2>2. /\ window' = window /\ count' = [count EXCEPT ![u] = @ + 1] /\ calls' = calls
        /\ \/ n <= Limit /\ slot' = [slot EXCEPT ![p] = new]
           \/ slot' = slot
    BY <1>4, <2>1 DEF allow, PingsTypeOK
  <2>3. \A s : GivenOut(s) => s # new /\ GivenOut(s)'
    <3> SUFFICES ASSUME NEW s, GivenOut(s) PROVE s # new /\ GivenOut(s)'
      OBVIOUS
    <3>1. GivenOut(s)'
      BY <2>1, <2>2, StaysGivenOut
    <3>2. s # new
      BY <2>1 DEF GivenOut, PingsTypeOK
    <3> QED
      BY <3>1, <3>2
  <2>4. \A c \in calls' : GivenOut(c)'
    BY <2>2, <2>3 DEF SlotsGivenOut
  <2>5. CASE slot' = slot
    <3> SUFFICES ASSUME NEW q \in Passes, slot[q] # NoSlot
        PROVE /\ GivenOut(slot[q])' /\ slot[q] \notin calls
              /\ \A r \in Passes : r # q => slot[r] # slot[q]
      BY <2>2, <2>4, <2>5 DEF SlotsGivenOut
    <3> QED
      BY <2>2, <2>3, <2>5 DEF SlotsGivenOut
  <2>6. CASE n <= Limit /\ slot' = [slot EXCEPT ![p] = new]
    <3>1. /\ new \in Slots /\ new.number \in 1..Limit
          /\ new.window <= window'[new.user]
          /\ new.window = window'[new.user] => new.number <= count'[new.user]
      <4>1. u \in Users /\ count[u] \in Nat /\ window[u] \in Nat /\ Limit \in Nat
        BY <2>1, PingsAssumption DEF PingsTypeOK
      <4>2. count'[u] = n /\ window'[u] = window[u]
        BY <2>2, <4>1 DEF PingsTypeOK
      <4>3. n \in 1..Limit
        BY <2>6, <4>1
      <4> HIDE DEF n, u
      <4> QED
        BY <4>1, <4>2, <4>3 DEF Slots
    <3>2. new \notin calls /\ \A q \in Passes : slot[q] # NoSlot => slot[q] # new
      BY <2>3 DEF SlotsGivenOut
    <3>3. slot'[p] = new /\ \A q \in Passes : q # p => slot'[q] = slot[q]
      BY <2>6 DEF PingsTypeOK
    <3>4. new # NoSlot
      BY <2>1, PingsAssumption DEF PingsTypeOK
    <3>5. ASSUME NEW q \in Passes, slot'[q] # NoSlot
          PROVE /\ GivenOut(slot[q])' /\ slot'[q] \notin calls'
                /\ \A r \in Passes : r # q => slot'[r] # slot'[q]
      <4>1. CASE q = p
        <5>1. slot'[q] = new
          BY <3>3, <4>1
        <5>2. GivenOut(slot[q])'
          BY <3>1, <5>1 DEF GivenOut
        <5>3. ASSUME NEW r \in Passes, r # q PROVE slot'[r] # slot'[q]
          BY <3>2, <3>3, <3>4, <4>1, <5>1, <5>3
        <5> QED
          BY <2>2, <3>2, <5>1, <5>2, <5>3
      <4>2. CASE q # p
        <5>1. /\ slot'[q] = slot[q] /\ GivenOut(slot[q]) /\ slot[q] \notin calls
              /\ \A r \in Passes : r # q => slot[r] # slot[q]
          BY <3>3, <3>5, <4>2 DEF SlotsGivenOut
        <5>2. GivenOut(slot[q])'
          BY <2>1, <2>2, <3>3, <4>2, <5>1, StaysGivenOut DEF GivenOut
        <5> QED
          BY <2>2, <3>2, <3>3, <3>5, <5>1, <5>2
      <4> QED
        BY <4>1, <4>2
    <3> QED
      BY <2>4, <3>5 DEF SlotsGivenOut
  <2> QED
    BY <2>2, <2>5, <2>6
<1> QED
  BY <1>2, <1>3, <1>4 DEF PassStep

\* A new window leaves the old slots behind; a crash drops the ones held.
LEMMA EnvironmentKeepsSlots ==
    ASSUME Held, SlotsGivenOut, Environment
    PROVE  SlotsGivenOut'
<1> USE DEF Held
<1>1. CASE \/ \E m \in Mentions : QueueMention(m) \/ ExpireMessage(m)
           \/ \E u \in Users : FlipSendable(u)
  BY <1>1 DEF QueueMention, ExpireMessage, FlipSendable, SlotsGivenOut, GivenOut, quota, history
<1>2. ASSUME NEW u \in Users, RollWindow(u) PROVE SlotsGivenOut'
  <2>1. /\ window' = [window EXCEPT ![u] = @ + 1] /\ count' = [count EXCEPT ![u] = 0]
        /\ slot' = slot /\ calls' = calls
    BY <1>2 DEF RollWindow, history
  <2>2. \A s : GivenOut(s) => GivenOut(s)'
    BY <2>1, StaysGivenOut
  <2>3. \A c \in calls' : GivenOut(c)'
    BY <2>1, <2>2 DEF SlotsGivenOut
  <2>4. \A q \in Passes : slot[q] # NoSlot => GivenOut(slot[q])'
    BY <2>1, <2>2 DEF SlotsGivenOut
  <2> QED
    BY <2>1, <2>3, <2>4 DEF SlotsGivenOut
<1>3. CASE CrashPasses
  BY <1>3 DEF CrashPasses, SlotsGivenOut, GivenOut, quota
<1> QED
  BY <1>1, <1>2, <1>3 DEF Environment

\* Every step keeps the invariant.
LEMMA PingsNextInv == PingsInv /\ [PingsNext]_pingsVars => PingsInv'
<1> SUFFICES ASSUME PingsInv, [PingsNext]_pingsVars PROVE PingsInv'
  OBVIOUS
<1>1. CASE Environment
  BY <1>1, EnvironmentKeepsHeld, EnvironmentKeepsAccount, EnvironmentKeepsSlots DEF PingsInv
<1>2. CASE \E p \in Passes : PassStep(p)
  BY <1>2, PassKeepsHeld, PassKeepsAccount, PassKeepsSlots DEF PingsInv
<1>3. CASE UNCHANGED pingsVars
  BY <1>3 DEF PingsInv, Held, PingsTypeOK, HoldsItsRow, OneHolder, JudgesWithASlot, PingsAccounted,
              Settling, SlotsGivenOut, GivenOut, pingsVars
<1> QED
  BY <1>1, <1>2, <1>3 DEF PingsNext

-----------------------------------------------------------------------------
\* The inductive invariant of the pings: types, locks, what a ping is accounted
\* for by, and which slots are given out.
THEOREM PingsInvariant == PingsSpec => []PingsInv
BY PingsInitInv, PingsNextInv, PTL DEF PingsSpec

\* Every reachable state is well-typed (034_pings.sql and tickPings' locals).
THEOREM PingsTyped == PingsSpec => []PingsTypeOK
<1>1. PingsInv => PingsTypeOK
  BY DEF PingsInv, Held
<1> QED
  BY <1>1, PingsInvariant, PTL

\* A mention is pinged once, and again only for a transaction lost after its
\* ping had left (pings.ts:67-70, 110-125), however many passes overlap.
THEOREM OnePingEach == PingsSpec => []PingsEarned
<1>1. PingsInv => PingsEarned
  BY DEF PingsInv, PingsAccounted, PingsEarned
<1> QED
  BY <1>1, PingsInvariant, PTL

\* The hourly ceiling (pings.ts:90, limits.ts) holds of model calls whatever
\* throws: no slot of a window is used twice and none is beyond the limit.
THEOREM CeilingHolds == PingsSpec => []QuotaHolds
<1>1. PingsInv => QuotaHolds
  BY DEF PingsInv, Held, JudgesWithASlot, SlotsGivenOut, GivenOut, QuotaHolds
<1> QED
  BY <1>1, PingsInvariant, PTL

-----------------------------------------------------------------------------
(* The opt-in messages. *)

\* What a request may be about to do: confirm or go on only after a Yes; send
\* the question, or take its claim back, only while its row is the number's
\* and no question is unaccounted for.
Backed(r) ==
  /\ req[r].pc \in {"confirm", "more"} => req[r].to \in said
  /\ req[r].pc = "confirm" => req[r].id # 0
  /\ req[r].pc \in {"first", "undo"} =>
       /\ req[r].id # 0 /\ row[req[r].to].id = req[r].id
       /\ asked[req[r].to] <= unsure[req[r].to]

RequestsBacked == \A r \in Requests : Backed(r)

\* ON CONFLICT DO NOTHING: one request holds the claim of a number.
OneClaimant ==
  \A q, r \in Requests :
    /\ req[q].pc \in {"first", "undo"} /\ req[r].pc \in {"first", "undo"}
    /\ req[q].to = req[r].to
    => q = r

\* A row has an id and a status, or neither; a confirmed one a Yes; and a
\* number without a row no question that it is not known to have had.
RowsBacked ==
  \A n \in Recipients :
    /\ row[n].id = 0 <=> row[n].status = "none"
    /\ row[n].status = "confirmed" => n \in said
    /\ row[n].id = 0 => asked[n] <= unsure[n]

Tier1Inv ==
  Tier1TypeOK /\ RequestsBacked /\ OneClaimant /\ RowsBacked /\ ConsentFirst /\ AskedOnce

-----------------------------------------------------------------------------
(* Requests and rows. *)

RowType == [id : Nat, status : {"none", "pending", "confirmed"}]

\* A request that is not idle is about a number, and names a row if it will
\* write to one.
LEMMA RequestFields ==
    ASSUME NEW x \in Request
    PROVE  /\ x.pc \in {"idle", "claim", "lookup", "more", "first", "undo", "confirm"}
           /\ x.pc # "idle" => x.to \in Recipients
           /\ x.pc \in {"first", "undo", "confirm"} => x.id \in Nat
BY DEF Request, Idle

\* The steps a request can be sent to.
LEMMA RequestSteps ==
    ASSUME NEW n \in Recipients, NEW i \in Nat
    PROVE  /\ Idle \in Request
           /\ \A p \in {"claim", "lookup", "more"} : [pc |-> p, to |-> n] \in Request
           /\ \A p \in {"first", "undo", "confirm"} : [pc |-> p, to |-> n, id |-> i] \in Request
BY DEF Request

\* Goto moves one request.
LEMMA GotoMoves ==
    ASSUME req \in [Requests -> Request], NEW r \in Requests, NEW x \in Request, Goto(r, x)
    PROVE  /\ req' \in [Requests -> Request] /\ req'[r] = x
           /\ \A q \in Requests : q # r => req'[q] = req[q]
BY DEF Goto

LEMMA Tier1InitInv == Tier1Init => Tier1Inv
<1> SUFFICES ASSUME Tier1Init PROVE Tier1Inv
  OBVIOUS
<1>1. Idle \in Request /\ Idle.pc = "idle"
  BY DEF Request, Idle
<1>2. NoRow \in RowType /\ NoRow.id = 0 /\ NoRow.status = "none"
  BY DEF NoRow, RowType
<1>3. Tier1TypeOK
  <2>1. enabled \in BOOLEAN /\ clear \in BOOLEAN
    BY Zenon DEF Tier1Init
  <2> QED
    BY <1>1, <1>2, <2>1 DEF Tier1Init, Tier1TypeOK, RowType
<1>4. RequestsBacked /\ OneClaimant /\ RowsBacked /\ ConsentFirst /\ AskedOnce
  BY <1>1, <1>2 DEF Tier1Init, RequestsBacked, Backed, OneClaimant, RowsBacked, ConsentFirst, AskedOnce
<1> QED
  BY <1>3, <1>4 DEF Tier1Inv

\* Turning the switch, and the Account's state: the requests go on.
LEMMA FlagsKeep ==
    ASSUME Tier1Inv, UNCHANGED <<row, claims, req, record>>, restarts' = restarts,
           enabled' \in BOOLEAN, clear' \in BOOLEAN
    PROVE  Tier1Inv'
<1>1. row' = row /\ claims' = claims /\ req' = req /\ asked' = asked /\ unsure' = unsure
      /\ said' = said /\ told' = told
  BY DEF record
<1>2. Tier1TypeOK'
  BY <1>1 DEF Tier1Inv, Tier1TypeOK
<1>3. RequestsBacked' /\ OneClaimant'
  BY <1>1 DEF Tier1Inv, RequestsBacked, Backed, OneClaimant
<1>4. RowsBacked' /\ ConsentFirst' /\ AskedOnce'
  BY <1>1 DEF Tier1Inv, RowsBacked, ConsentFirst, AskedOnce
<1> QED
  BY <1>2, <1>3, <1>4 DEF Tier1Inv

\* A restart takes the requests and leaves the rows.
LEMMA RestartKeeps == Tier1Inv /\ Restart => Tier1Inv'
<1> SUFFICES ASSUME Tier1Inv, Restart PROVE Tier1Inv'
  OBVIOUS
<1>1. Idle \in Request /\ Idle.pc = "idle"
  BY DEF Request, Idle
<1>2. /\ req' = [r \in Requests |-> Idle] /\ restarts' = restarts + 1 /\ UNCHANGED <<enabled, clear>>
      /\ row' = row /\ claims' = claims /\ asked' = asked /\ unsure' = unsure
      /\ said' = said /\ told' = told
  BY DEF Restart, record
<1>3. Tier1TypeOK'
  BY <1>1, <1>2 DEF Tier1Inv, Tier1TypeOK
<1>4. RequestsBacked' /\ OneClaimant'
  BY <1>1, <1>2 DEF RequestsBacked, Backed, OneClaimant
<1>5. RowsBacked' /\ ConsentFirst' /\ AskedOnce'
  BY <1>2 DEF Tier1Inv, RowsBacked, ConsentFirst, AskedOnce
<1> QED
  BY <1>3, <1>4, <1>5 DEF Tier1Inv

\* A request moves to a step that its row and the answers back, and nothing
\* but its number's Yes is recorded.
LEMMA MoveKeeps ==
    ASSUME Tier1Inv, NEW r \in Requests, NEW x \in Request,
           req' = [req EXCEPT ![r] = x],
           x.pc \notin {"first", "undo"},
           x.pc \in {"confirm", "more"} => x.to \in said',
           x.pc = "confirm" => x.id # 0,
           said \subseteq said', said' \subseteq Recipients,
           told' \subseteq said', told' \subseteq Recipients,
           UNCHANGED <<enabled, clear, restarts, row, claims, asked, unsure>>
    PROVE  Tier1Inv'
<1>1. /\ req' \in [Requests -> Request] /\ req'[r] = x
      /\ \A q \in Requests : q # r => req'[q] = req[q]
  BY DEF Tier1Inv, Tier1TypeOK
<1>2. Tier1TypeOK'
  BY <1>1 DEF Tier1Inv, Tier1TypeOK
<1>3. ASSUME NEW q \in Requests PROVE Backed(q)'
  <2>1. Backed(q)
    BY DEF Tier1Inv, RequestsBacked
  <2> QED
    BY <1>1, <2>1 DEF Backed
<1>4. OneClaimant'
  BY <1>1 DEF Tier1Inv, OneClaimant
<1>5. RowsBacked' /\ ConsentFirst' /\ AskedOnce'
  BY DEF Tier1Inv, RowsBacked, ConsentFirst, AskedOnce
<1> QED
  BY <1>2, <1>3, <1>4, <1>5 DEF Tier1Inv, RequestsBacked

-----------------------------------------------------------------------------
(* The handlers. *)

\* Moves that touch no row: accepting a request, looking a number up, sending a
\* further message, and a reply of the recipient.
LEMMA ReadersKeep ==
    ASSUME Tier1Inv, NEW r \in Requests,
           \/ \E n \in Recipients : sendOutbound(r, n)
           \/ \E n \in Recipients, yes \in BOOLEAN : handleRecipientReply(r, n, yes)
           \/ LookupNumber(r) \/ SendMore(r)
    PROVE  Tier1Inv'
<1>0. /\ Tier1TypeOK /\ req[r] \in Request /\ said \subseteq Recipients /\ told \subseteq said
      /\ told \subseteq Recipients
  BY DEF Tier1Inv, Tier1TypeOK, ConsentFirst
<1>1. Idle \in Request /\ Idle.pc = "idle"
  BY DEF Request, Idle
<1>2. ASSUME NEW n \in Recipients, sendOutbound(r, n) PROVE Tier1Inv'
  <2> DEFINE x == [pc |-> "claim", to |-> n]
  <2>1. x \in Request /\ x.pc = "claim"
    BY RequestSteps
  <2>2. /\ req' = [req EXCEPT ![r] = x]
        /\ UNCHANGED <<enabled, clear, restarts, row, claims, asked, unsure, said, told>>
    BY <1>2 DEF sendOutbound, Goto, account, record
  <2> HIDE DEF x
  <2> QED
    BY <1>0, <2>1, <2>2, MoveKeeps
<1>3. ASSUME NEW n \in Recipients, NEW yes \in BOOLEAN, handleRecipientReply(r, n, yes) PROVE Tier1Inv'
  <2>1. /\ UNCHANGED <<enabled, clear, restarts, row, claims, asked, unsure, told>>
        /\ said' = IF yes THEN said \cup {n} ELSE said
    BY <1>3 DEF handleRecipientReply, account
  <2>2. /\ said \subseteq said' /\ said' \subseteq Recipients
        /\ told' \subseteq said' /\ told' \subseteq Recipients
    BY <1>0, <2>1
  <2>3. CASE req' = req
    <3>1. req' = [req EXCEPT ![r] = req[r]]
      BY <1>0, <2>3 DEF Tier1TypeOK
    <3>2. req[r] = Idle
      BY <1>3 DEF handleRecipientReply
    <3> QED
      BY <1>1, <2>1, <2>2, <3>1, <3>2, MoveKeeps
  <2>4. CASE req' # req
    <3> DEFINE x == [pc |-> "confirm", to |-> n, id |-> row[n].id]
    <3>1. req' = [req EXCEPT ![r] = x] /\ row[n].status = "pending" /\ yes
      BY <1>3, <2>4 DEF handleRecipientReply, ReplyFound, Goto
    <3>2. row[n].id \in Nat /\ row[n].id # 0
      BY <1>0, <3>1 DEF Tier1Inv, RowsBacked, Tier1TypeOK
    <3>3. x \in Request /\ x.pc = "confirm" /\ x.to = n /\ x.id # 0 /\ n \in said'
      BY <2>1, <3>1, <3>2, RequestSteps
    <3> HIDE DEF x
    <3> QED
      BY <2>1, <2>2, <3>1, <3>3, MoveKeeps
  <2> QED
    BY <2>3, <2>4
<1>4. CASE LookupNumber(r)
  <2>1. UNCHANGED <<enabled, clear, restarts, row, claims, asked, unsure, said, told>>
    BY <1>4 DEF LookupNumber, account, record
  <2> DEFINE n == req[r].to
             x == [pc |-> "more", to |-> n]
  <2>2. n \in Recipients
    BY <1>0, <1>4, RequestFields DEF LookupNumber
  <2>3. CASE row[n].status = "confirmed"
    <3>1. req' = [req EXCEPT ![r] = x] /\ n \in said
      BY <1>4, <2>2, <2>3 DEF LookupNumber, Goto, Tier1Inv, RowsBacked
    <3>2. x \in Request /\ x.pc = "more" /\ x.to = n
      BY <2>2, RequestSteps
    <3> HIDE DEF x, n
    <3> QED
      BY <1>0, <2>1, <3>1, <3>2, MoveKeeps
  <2>4. CASE row[n].status # "confirmed"
    <3>1. req' = [req EXCEPT ![r] = Idle]
      BY <1>4, <2>4 DEF LookupNumber, Goto
    <3> QED
      BY <1>0, <1>1, <2>1, <3>1, MoveKeeps
  <2> QED
    BY <2>3, <2>4
<1>5. CASE SendMore(r)
  <2>1. /\ UNCHANGED <<enabled, clear, restarts, row, claims, asked, unsure, said>>
        /\ req' = [req EXCEPT ![r] = Idle] /\ req[r].pc = "more"
        /\ told' \subseteq told \cup {req[r].to}
    BY <1>5 DEF SendMore, account, Goto
  <2>2. req[r].to \in said
    BY <2>1 DEF Tier1Inv, RequestsBacked, Backed
  <2> QED
    BY <1>0, <1>1, <2>1, <2>2, MoveKeeps
<1> QED
  BY <1>2, <1>3, <1>4, <1>5

\* A step on number n by the request r that is about it: r goes to x, the row
\* becomes w, the record of questions a and u.  If r keeps a claim, the claim is
\* still backed; and a claim of another request finds nothing changed.
Settles(r, n, x, w, a, u) ==
  /\ req' = [req EXCEPT ![r] = x] /\ row' = [row EXCEPT ![n] = w]
  /\ asked' = [asked EXCEPT ![n] = a] /\ unsure' = [unsure EXCEPT ![n] = u]
  /\ claims' \in [Recipients -> Nat]
  /\ UNCHANGED <<enabled, clear, restarts, said, told>>
  /\ x.pc = "idle" \/ (/\ x.pc \in {"first", "undo"} /\ x.to = n /\ x.id # 0
                       /\ w.id = x.id /\ a <= u)
  /\ w.id = 0 <=> w.status = "none"
  /\ w.status = "confirmed" => n \in said
  /\ w.id = 0 => a <= u
  /\ a <= 1 + u
  /\ \A q \in Requests \ {r} :
       req[q].pc \in {"first", "undo"} /\ req[q].to = n =>
         x.pc = "idle" /\ w.id = row[n].id /\ a = asked[n] /\ u = unsure[n]

\* Such a step keeps the invariant.
LEMMA NumberKeeps ==
    ASSUME Tier1Inv, NEW r \in Requests, NEW n \in Recipients, NEW x \in Request,
           NEW w \in RowType, NEW a \in Nat, NEW u \in Nat, Settles(r, n, x, w, a, u)
    PROVE  Tier1Inv'
<1> USE DEF Settles
<1>1. /\ req' \in [Requests -> Request] /\ req'[r] = x
      /\ \A q \in Requests : q # r => req'[q] = req[q]
  BY DEF Tier1Inv, Tier1TypeOK
<1>2. /\ row' \in [Recipients -> RowType] /\ row'[n] = w
      /\ \A m \in Recipients : m # n => row'[m] = row[m]
  BY DEF Tier1Inv, Tier1TypeOK, RowType
<1>3. /\ asked' \in [Recipients -> Nat] /\ asked'[n] = a
      /\ \A m \in Recipients : m # n => asked'[m] = asked[m]
  BY DEF Tier1Inv, Tier1TypeOK
<1>4. /\ unsure' \in [Recipients -> Nat] /\ unsure'[n] = u
      /\ \A m \in Recipients : m # n => unsure'[m] = unsure[m]
  BY DEF Tier1Inv, Tier1TypeOK
<1>5. Tier1TypeOK'
  BY <1>1, <1>2, <1>3, <1>4 DEF Tier1Inv, Tier1TypeOK, RowType
<1>6. ASSUME NEW q \in Requests PROVE Backed(q)'
  <2>1. CASE q = r
    BY <1>1, <1>2, <1>3, <1>4, <2>1 DEF Backed
  <2>2. CASE q # r
    <3>1. Backed(q) /\ req[q] \in Request
      BY DEF Tier1Inv, RequestsBacked, Tier1TypeOK
    <3>2. req[q].pc \in {"first", "undo"} => req[q].to \in Recipients
      BY <3>1, RequestFields
    <3>3. req'[q] = req[q]
      BY <1>1, <2>2
    <3>4. req[q].pc \in {"first", "undo"} =>
            /\ row'[req[q].to].id = row[req[q].to].id
            /\ asked'[req[q].to] = asked[req[q].to] /\ unsure'[req[q].to] = unsure[req[q].to]
      BY <1>2, <1>3, <1>4, <2>2, <3>2
    <3> QED
      BY <3>1, <3>3, <3>4 DEF Backed
  <2> QED
    BY <2>1, <2>2
<1>7. OneClaimant'
  <2> SUFFICES ASSUME NEW p \in Requests, NEW q \in Requests, p # q,
                      req'[p].pc \in {"first", "undo"}, req'[q].pc \in {"first", "undo"},
                      req'[p].to = req'[q].to
               PROVE FALSE
    BY DEF OneClaimant
  <2>1. CASE p # r /\ q # r
    BY <1>1, <2>1 DEF Tier1Inv, OneClaimant
  <2>2. CASE p = r
    BY <1>1, <2>2
  <2>3. CASE q = r
    BY <1>1, <2>3
  <2> QED
    BY <2>1, <2>2, <2>3
<1>8. RowsBacked'
  <2> SUFFICES ASSUME NEW m \in Recipients
      PROVE /\ row'[m].id = 0 <=> row'[m].status = "none"
            /\ row'[m].status = "confirmed" => m \in said
            /\ row'[m].id = 0 => asked'[m] <= unsure'[m]
    BY DEF RowsBacked
  <2>1. CASE m = n
    BY <1>2, <1>3, <1>4, <2>1
  <2>2. CASE m # n
    BY <1>2, <1>3, <1>4, <2>2 DEF Tier1Inv, RowsBacked
  <2> QED
    BY <2>1, <2>2
<1>9. ConsentFirst' /\ AskedOnce'
  BY <1>3, <1>4 DEF Tier1Inv, ConsentFirst, AskedOnce
<1> QED
  BY <1>5, <1>6, <1>7, <1>8, <1>9 DEF Tier1Inv, RequestsBacked

\* A claim that is inserted is the number's only one.
LEMMA ClaimKeeps ==
    ASSUME Tier1Inv, NEW r \in Requests, ClaimNumber(r)
    PROVE  Tier1Inv'
<1>0. PICK n : n = req[r].to
  OBVIOUS
<1> DEFINE i == claims[n] + 1
           x == [pc |-> "first", to |-> n, id |-> i]
           w == [id |-> i, status |-> "pending"]
           y == [pc |-> "lookup", to |-> n]
<1>1. /\ req[r] \in Request /\ req[r].pc = "claim" /\ n \in Recipients
      /\ claims \in [Recipients -> Nat] /\ claims[n] \in Nat /\ i \in Nat /\ i # 0
      /\ told \subseteq said /\ said \subseteq Recipients /\ told \subseteq Recipients
  <2>1. req[r] \in Request /\ req[r].pc = "claim"
    BY <1>0 DEF ClaimNumber, Tier1Inv, Tier1TypeOK
  <2>2. n \in Recipients
    BY <1>0, <2>1, RequestFields
  <2> QED
    BY <1>0, <2>1, <2>2 DEF Tier1Inv, Tier1TypeOK, ConsentFirst
<1>2. UNCHANGED <<enabled, clear, restarts, said, told, asked, unsure>>
  BY <1>0, <1>0 DEF ClaimNumber, account, record
<1>3. CASE row[n] = NoRow /\ InsertedBy(r, n)
  <2>1. /\ req' = [req EXCEPT ![r] = x] /\ row' = [row EXCEPT ![n] = w]
        /\ claims' = [claims EXCEPT ![n] = i]
    BY <1>0, <1>3 DEF InsertedBy, Goto
  <2>2. claims' \in [Recipients -> Nat]
    BY <1>0, <1>1, <2>1
  <2>3. x \in Request /\ x.pc = "first" /\ x.to = n /\ x.id = i
    BY <1>0, <1>1, RequestSteps
  <2>4. w \in RowType /\ w.id = i /\ w.status = "pending"
    BY <1>0, <1>1 DEF RowType
  <2>5. row[n].id = 0 /\ asked[n] <= unsure[n] /\ asked[n] \in Nat /\ unsure[n] \in Nat
    BY <1>0, <1>1, <1>3 DEF NoRow, Tier1Inv, RowsBacked, Tier1TypeOK
  <2>6. asked' = [asked EXCEPT ![n] = asked[n]] /\ unsure' = [unsure EXCEPT ![n] = unsure[n]]
    BY <1>0, <1>1, <1>2 DEF Tier1Inv, Tier1TypeOK
  <2>7. \A q \in Requests : ~ (req[q].pc \in {"first", "undo"} /\ req[q].to = n)
    BY <1>0, <2>5 DEF Tier1Inv, RequestsBacked, Backed
  <2> HIDE DEF w, x, i
  <2>8. asked[n] <= 1 + unsure[n]
    BY <1>0, <2>5
  <2>9. Settles(r, n, x, w, asked[n], unsure[n])
    BY <1>1, <1>2, <2>1, <2>2, <2>3, <2>4, <2>5, <2>6, <2>7, <2>8 DEF Settles
  <2> QED
    BY <1>1, <2>3, <2>4, <2>5, <2>9, NumberKeeps
<1>4. CASE row[n] # NoRow /\ Goto(r, y) /\ UNCHANGED <<row, claims>>
  <2>1. y \in Request /\ y.pc = "lookup"
    BY <1>0, <1>1, RequestSteps
  <2>2. req' = [req EXCEPT ![r] = y]
    BY <1>0, <1>4 DEF Goto
  <2> HIDE DEF y
  <2> QED
    BY <1>0, <1>1, <1>2, <1>4, <2>1, <2>2, MoveKeeps
<1> QED
  BY <1>0, <1>3, <1>4 DEF ClaimNumber

\* The question leaves and its claim stays, or the claim is to be taken back.
LEMMA SendKeeps ==
    ASSUME Tier1Inv, NEW r \in Requests, SendFirst(r)
    PROVE  Tier1Inv'
<1>0. PICK n : n = req[r].to
  OBVIOUS
<1> DEFINE undo == [pc |-> "undo", to |-> n, id |-> req[r].id]
<1>1. /\ req[r] \in Request /\ req[r].pc = "first" /\ n \in Recipients /\ req[r].id \in Nat
      /\ row[n] \in RowType /\ asked[n] \in Nat /\ unsure[n] \in Nat
  <2>1. req[r] \in Request /\ req[r].pc = "first"
    BY <1>0 DEF SendFirst, SendCold, Tier1Inv, Tier1TypeOK
  <2>2. n \in Recipients /\ req[r].id \in Nat
    BY <1>0, <2>1, RequestFields
  <2> QED
    BY <1>0, <2>1, <2>2 DEF Tier1Inv, Tier1TypeOK, RowType
<1>2. /\ UNCHANGED <<enabled, clear, restarts, said, told, row, claims>>
      /\ \/ req' = [req EXCEPT ![r] = Idle] /\ asked' = [asked EXCEPT ![n] = @ + 1] /\ unsure' = unsure
         \/ /\ req' = [req EXCEPT ![r] = undo]
            /\ \E left \in {0, 1} : /\ asked' = [asked EXCEPT ![n] = @ + left]
                                    /\ unsure' = [unsure EXCEPT ![n] = @ + left]
  BY <1>0, <1>0 DEF SendFirst, SendCold, Goto, account
<1>3. /\ req[r].id # 0 /\ row[n].id = req[r].id /\ asked[n] <= unsure[n]
      /\ row[n].id = 0 <=> row[n].status = "none"
      /\ row[n].status = "confirmed" => n \in said
  BY <1>0, <1>1 DEF Tier1Inv, RequestsBacked, Backed, RowsBacked
<1>4. row' = [row EXCEPT ![n] = row[n]] /\ claims' \in [Recipients -> Nat]
  BY <1>0, <1>2 DEF Tier1Inv, Tier1TypeOK
<1>5. \A q \in Requests \ {r} : ~ (req[q].pc \in {"first", "undo"} /\ req[q].to = n)
  BY <1>0, <1>1 DEF Tier1Inv, OneClaimant
<1>6. Idle \in Request /\ Idle.pc = "idle"
  BY <1>0, <1>0 DEF Request, Idle
<1>7. CASE /\ req' = [req EXCEPT ![r] = Idle] /\ asked' = [asked EXCEPT ![n] = @ + 1]
           /\ unsure' = unsure
  <2>1. /\ asked' = [asked EXCEPT ![n] = asked[n] + 1]
        /\ unsure' = [unsure EXCEPT ![n] = unsure[n]]
    BY <1>0, <1>7 DEF Tier1Inv, Tier1TypeOK
  <2>2. asked[n] + 1 \in Nat /\ asked[n] + 1 <= 1 + unsure[n]
    BY <1>0, <1>1, <1>3
  <2> HIDE DEF undo
  <2>3. Settles(r, n, Idle, row[n], asked[n] + 1, unsure[n])
    BY <1>1, <1>2, <1>3, <1>4, <1>5, <1>6, <1>7, <2>1, <2>2 DEF Settles
  <2> QED
    BY <1>1, <1>6, <2>2, <2>3, NumberKeeps
<1>8. ASSUME NEW left \in {0, 1}, req' = [req EXCEPT ![r] = undo],
             asked' = [asked EXCEPT ![n] = @ + left], unsure' = [unsure EXCEPT ![n] = @ + left]
      PROVE Tier1Inv'
  <2>1. /\ asked' = [asked EXCEPT ![n] = asked[n] + left]
        /\ unsure' = [unsure EXCEPT ![n] = unsure[n] + left]
    BY <1>0, <1>8
  <2>2. /\ asked[n] + left \in Nat /\ unsure[n] + left \in Nat
        /\ asked[n] + left <= unsure[n] + left /\ asked[n] + left <= 1 + (unsure[n] + left)
    BY <1>0, <1>1, <1>3
  <2>3. undo \in Request /\ undo.pc = "undo" /\ undo.to = n /\ undo.id = req[r].id
    BY <1>0, <1>1, RequestSteps
  <2>4. req' = [req EXCEPT ![r] = undo]
    BY <1>0, <1>8
  <2> HIDE DEF undo
  <2>5. Settles(r, n, undo, row[n], asked[n] + left, unsure[n] + left)
    BY <1>1, <1>2, <1>3, <1>4, <1>5, <2>1, <2>2, <2>3, <2>4 DEF Settles
  <2> QED
    BY <1>1, <2>2, <2>3, <2>5, NumberKeeps
<1> QED
  BY <1>0, <1>2, <1>7, <1>8

\* The claim that is taken back is the request's own.
LEMMA UndoKeeps ==
    ASSUME Tier1Inv, NEW r \in Requests, UndoClaim(r)
    PROVE  Tier1Inv'
<1>0. PICK n : n = req[r].to
  OBVIOUS
<1>1. /\ req[r] \in Request /\ req[r].pc = "undo" /\ n \in Recipients
      /\ asked[n] \in Nat /\ unsure[n] \in Nat
  <2>1. req[r] \in Request /\ req[r].pc = "undo"
    BY <1>0 DEF UndoClaim, Tier1Inv, Tier1TypeOK
  <2>2. n \in Recipients
    BY <1>0, <2>1, RequestFields
  <2> QED
    BY <1>0, <2>1, <2>2 DEF Tier1Inv, Tier1TypeOK
<1>2. row[n].id = req[r].id /\ asked[n] <= unsure[n] /\ asked[n] <= 1 + unsure[n]
  BY <1>0, <1>1 DEF Tier1Inv, RequestsBacked, Backed
<1>3. /\ req' = [req EXCEPT ![r] = Idle] /\ row' = [row EXCEPT ![n] = NoRow]
      /\ UNCHANGED <<enabled, clear, restarts, said, told, claims, asked, unsure>>
  BY <1>0, <1>2 DEF UndoClaim, Goto, account, record
<1>4. /\ asked' = [asked EXCEPT ![n] = asked[n]] /\ unsure' = [unsure EXCEPT ![n] = unsure[n]]
      /\ claims' \in [Recipients -> Nat]
  BY <1>0, <1>3 DEF Tier1Inv, Tier1TypeOK
<1>5. \A q \in Requests \ {r} : ~ (req[q].pc \in {"first", "undo"} /\ req[q].to = n)
  BY <1>0, <1>1 DEF Tier1Inv, OneClaimant
<1>6. Idle \in Request /\ Idle.pc = "idle"
  BY <1>0, <1>0 DEF Request, Idle
<1>7. NoRow \in RowType /\ NoRow.id = 0 /\ NoRow.status = "none"
  BY <1>0, <1>0 DEF NoRow, RowType
<1>8. Settles(r, n, Idle, NoRow, asked[n], unsure[n])
  BY <1>1, <1>2, <1>3, <1>4, <1>5, <1>6, <1>7 DEF Settles
<1> QED
  BY <1>1, <1>6, <1>7, <1>8, NumberKeeps

\* A Yes confirms the row it was read from, if it is still there.
LEMMA ConfirmKeeps ==
    ASSUME Tier1Inv, NEW r \in Requests, Confirm(r)
    PROVE  Tier1Inv'
<1>0. PICK n : n = req[r].to
  OBVIOUS
<1> DEFINE w == IF row[n].id = req[r].id THEN [id |-> row[n].id, status |-> "confirmed"] ELSE row[n]
<1>1. /\ req[r] \in Request /\ req[r].pc = "confirm" /\ n \in Recipients /\ row[n] \in RowType
      /\ asked[n] \in Nat /\ unsure[n] \in Nat
  <2>1. req[r] \in Request /\ req[r].pc = "confirm"
    BY <1>0 DEF Confirm, Tier1Inv, Tier1TypeOK
  <2>2. n \in Recipients
    BY <1>0, <2>1, RequestFields
  <2> QED
    BY <1>0, <2>1, <2>2 DEF Tier1Inv, Tier1TypeOK, RowType
<1>2. req[r].id # 0 /\ n \in said
  BY <1>0, <1>1 DEF Tier1Inv, RequestsBacked, Backed
<1>3. /\ req' = [req EXCEPT ![r] = Idle]
      /\ UNCHANGED <<enabled, clear, restarts, said, told, claims, asked, unsure>>
      /\ row' = IF row[n].id = req[r].id THEN [row EXCEPT ![n].status = "confirmed"] ELSE row
  BY <1>0, <1>0 DEF Confirm, Goto, account, record
<1>4. row' = [row EXCEPT ![n] = w]
  <2>1. [row[n] EXCEPT !.status = "confirmed"] = [id |-> row[n].id, status |-> "confirmed"]
    BY <1>0, <1>1 DEF RowType
  <2>2. row \in [Recipients -> RowType]
    BY <1>0 DEF Tier1Inv, Tier1TypeOK, RowType
  <2> QED
    BY <1>0, <1>1, <1>3, <2>1, <2>2
<1>5. /\ w \in RowType /\ w.id = row[n].id
      /\ w.id = 0 <=> w.status = "none"
  BY <1>0, <1>1, <1>2 DEF RowType, Tier1Inv, RowsBacked
<1>6. /\ asked' = [asked EXCEPT ![n] = asked[n]] /\ unsure' = [unsure EXCEPT ![n] = unsure[n]]
      /\ claims' \in [Recipients -> Nat]
  BY <1>0, <1>3 DEF Tier1Inv, Tier1TypeOK
<1>7. Idle \in Request /\ Idle.pc = "idle"
  BY <1>0, <1>0 DEF Request, Idle
<1>8. (row[n].id = 0 => asked[n] <= unsure[n]) /\ asked[n] <= 1 + unsure[n]
  BY <1>0, <1>1 DEF Tier1Inv, RowsBacked, AskedOnce
<1> HIDE DEF w
<1>9. ASSUME NEW q \in Requests, req[q].pc \in {"first", "undo"}, req[q].to = n
      PROVE w.id = row[n].id
  BY <1>5
<1>10. Settles(r, n, Idle, w, asked[n], unsure[n])
  BY <1>1, <1>2, <1>3, <1>4, <1>5, <1>6, <1>7, <1>8, <1>9 DEF Settles
<1> QED
  BY <1>1, <1>5, <1>7, <1>10, NumberKeeps

LEMMA Tier1NextInv == Tier1Inv /\ [Tier1Next]_tier1Vars => Tier1Inv'
<1> SUFFICES ASSUME Tier1Inv, [Tier1Next]_tier1Vars PROVE Tier1Inv'
  OBVIOUS
<1>1. ASSUME NEW v, enableTier1(v) PROVE Tier1Inv'
  <2>1. enabled' \in BOOLEAN /\ clear' \in BOOLEAN
    BY <1>1, Zenon DEF enableTier1, Tier1Inv, Tier1TypeOK
  <2> QED
    BY <1>1, <2>1, FlagsKeep DEF enableTier1
<1>2. CASE FlipClear
  <2>1. enabled' \in BOOLEAN /\ clear' \in BOOLEAN
    BY <1>2, Zenon DEF FlipClear, Tier1Inv, Tier1TypeOK
  <2> QED
    BY <1>2, <2>1, FlagsKeep DEF FlipClear
<1>3. CASE UNCHANGED tier1Vars
  <2>1. /\ UNCHANGED <<row, claims, req, record>> /\ restarts' = restarts
        /\ enabled' = enabled /\ clear' = clear
    BY <1>3 DEF tier1Vars, record
  <2>2. enabled' \in BOOLEAN /\ clear' \in BOOLEAN
    BY <2>1, Zenon DEF Tier1Inv, Tier1TypeOK
  <2> QED
    BY <2>1, <2>2, FlagsKeep
<1> QED
  BY <1>1, <1>2, <1>3, RestartKeeps, ReadersKeep, ClaimKeeps, SendKeeps, UndoKeeps, ConfirmKeeps,
     Zenon DEF Tier1Next

-----------------------------------------------------------------------------
\* The inductive invariant of tier1.ts: who holds a claim, and what it stands for.
THEOREM Tier1Invariant == Tier1Spec => []Tier1Inv
BY Tier1InitInv, Tier1NextInv, PTL DEF Tier1Spec

\* Every reachable state is well-typed (outbound_recipients and the handlers).
THEOREM Tier1Typed == Tier1Spec => []Tier1TypeOK
<1>1. Tier1Inv => Tier1TypeOK
  BY DEF Tier1Inv
<1> QED
  BY <1>1, Tier1Invariant, PTL

\* Nobody gets a message without the question before a Yes (sendOutbound,
\* handleRecipientReply), whatever overlaps a claim and its confirmation.
THEOREM ConsentComesFirst == Tier1Spec => []ConsentFirst
<1>1. Tier1Inv => ConsentFirst
  BY DEF Tier1Inv
<1> QED
  BY <1>1, Tier1Invariant, PTL

\* A number is asked once (tier1.ts, the claim by INSERT), and again only for a
\* send that failed after the message had left.
THEOREM AskedOnlyOnce == Tier1Spec => []AskedOnce
<1>1. Tier1Inv => AskedOnce
  BY DEF Tier1Inv
<1> QED
  BY <1>1, Tier1Invariant, PTL

\* A step that forgets a confirmed Yes is the DELETE of a failed send's claim.
LEMMA YesStep ==
    ASSUME Tier1Inv, [Tier1Next]_tier1Vars, NEW n \in Recipients,
           row[n].status = "confirmed", row'[n] = NoRow
    PROVE  asked[n] = 0 \/ unsure[n] > 0
<1>1. NoRow.status = "none" /\ row[n] # NoRow
  BY DEF NoRow
<1>2. row \in [Recipients -> RowType]
  BY DEF Tier1Inv, Tier1TypeOK, RowType
<1>3. ASSUME row' = row PROVE FALSE
  BY <1>1, <1>3
<1>4. PICK r \in Requests : ClaimNumber(r) \/ UndoClaim(r) \/ Confirm(r)
  <2>1. row' = row \/ \E r \in Requests : ClaimNumber(r) \/ UndoClaim(r) \/ Confirm(r)
    BY DEF Tier1Next, tier1Vars, enableTier1, FlipClear, Restart, sendOutbound, handleRecipientReply,
           SendFirst, SendCold, LookupNumber, SendMore
  <2> QED
    BY <1>3, <2>1
<1>5. CASE ClaimNumber(r)
  <2>1. PICK m : row' = [row EXCEPT ![m] = [id |-> claims[m] + 1, status |-> "pending"]]
    BY <1>3, <1>5 DEF ClaimNumber, InsertedBy
  <2>2. row'[n] = row[n] \/ row'[n].status = "pending"
    BY <1>2, <2>1
  <2> QED
    BY <1>1, <2>2
<1>6. CASE UndoClaim(r)
  <2>1. row' = [row EXCEPT ![req[r].to] = NoRow] /\ req[r].pc = "undo"
    BY <1>3, <1>6 DEF UndoClaim
  <2>2. req[r].to = n
    BY <1>1, <1>2, <2>1
  <2>3. asked[n] <= unsure[n] /\ asked[n] \in Nat /\ unsure[n] \in Nat
    BY <2>1, <2>2 DEF Tier1Inv, RequestsBacked, Backed, Tier1TypeOK
  <2> QED
    BY <2>3
<1>7. CASE Confirm(r)
  <2>1. row' = [row EXCEPT ![req[r].to].status = "confirmed"]
    BY <1>3, <1>7 DEF Confirm
  <2>2. row'[n] = row[n] \/ row'[n].status = "confirmed"
    BY <1>2, <2>1 DEF RowType
  <2> QED
    BY <1>1, <2>2
<1> QED
  BY <1>4, <1>5, <1>6, <1>7

\* A confirmed Yes is forgotten only where a send failed ambiguously
\* (tier1.ts:79-82, the DELETE by id).
THEOREM YesRemembered == Tier1Spec => YesIsKept
<1>1. Tier1Inv /\ [Tier1Next]_tier1Vars =>
        [\A n \in Recipients :
           row[n].status = "confirmed" /\ row'[n] = NoRow => asked[n] = 0 \/ unsure[n] > 0]_tier1Vars
  BY YesStep
<1> QED
  BY <1>1, Tier1Invariant, PTL DEF Tier1Spec, YesIsKept
=============================================================================
