--------------------------- MODULE CoverageProofs ---------------------------
(***************************************************************************)
(* Two facts about coverage_gaps hold for any number of Accounts, Sessions *)
(* and overlapping requests: a 'halted' gap is never open on a running     *)
(* product, and a gap opened because a Session went down is never open on  *)
(* a connected one.                                                        *)
(***************************************************************************)
EXTENDS Coverage, FiniteSetTheorems, TLAPS

\* The part of TypeOK the two facts rest on; no bound enters.
Shape ==
    /\ status \in [Sessions -> SessionStatus]
    /\ gaps \in [Sessions -> [GapReason -> Nat]]
    /\ request \in [Requests -> RequestState]

\* A transition only ever opens gaps on the Session it takes down, under the
\* status it takes it to.
LossWellFormed ==
    \A c \in Requests : request[c].pc = "losing" =>
        request[c].opens \subseteq request[c].on /\ request[c].to \in LossStatus

IInv == Shape /\ LossWellFormed /\ HaltGapsEndWithHalt /\ ConnectionGapsMeanDown

-----------------------------------------------------------------------------

\* OpenGaps adds one to a reason of the given Sessions or leaves it; CloseGaps
\* leaves it or makes it zero.
LEMMA OpenGapsTyped ==
    ASSUME gaps \in [Sessions -> [GapReason -> Nat]], NEW S, NEW r \in GapReason
    PROVE  /\ OpenGaps(S, r) \in [Sessions -> [GapReason -> Nat]]
           /\ \A s \in Sessions, q \in GapReason :
                 OpenGaps(S, r)[s][q] # gaps[s][q] => s \in S /\ q = r
BY DEF OpenGaps

\* Closing gaps keeps the table's type and leaves none open for the reason.
LEMMA CloseGapsTyped ==
    ASSUME gaps \in [Sessions -> [GapReason -> Nat]], NEW S, NEW r \in GapReason
    PROVE  /\ CloseGaps(S, r) \in [Sessions -> [GapReason -> Nat]]
           /\ \A s \in Sessions, q \in GapReason :
                 CloseGaps(S, r)[s][q] = IF s \in S /\ q = r THEN 0 ELSE gaps[s][q]
BY DEF CloseGaps

\* A request that finishes keeps the shape of all requests.
LEMMA FinishTyped ==
    ASSUME request \in [Requests -> RequestState], NEW c \in Requests, Finish(c)
    PROVE  /\ request' \in [Requests -> RequestState]
           /\ \A d \in Requests : request'[d] # request[d] => request'[d].pc = "idle"
BY DEF Finish, RequestState, Idle, SessionStatus

-----------------------------------------------------------------------------

\* No Sessions, no gaps, not halted: the invariant holds.
LEMMA InitInv == Init => IInv
BY DEF Init, IInv, Shape, LossWellFormed, HaltGapsEndWithHalt, ConnectionGapsMeanDown,
       GapReason, LossStatus, SessionStatus, RequestState, Idle

\* What a step may do to the requests: none of those it changes is a loss, or it
\* is one about the Session it takes down.
RequestsMove ==
    /\ request' \in [Requests -> RequestState]
    /\ \A d \in Requests : request'[d] # request[d] =>
          \/ request'[d].pc # "losing"
          \/ request'[d].opens \subseteq request'[d].on /\ request'[d].to \in LossStatus

\* A step that begins or finishes a request and touches neither status, gaps nor
\* the flag keeps the invariant, unless it begins a loss.
LEMMA BookkeepingStep ==
    ASSUME IInv, status' = status, gaps' = gaps, halted' = halted,
           RequestsMove
    PROVE  IInv'
BY DEF RequestsMove, IInv, Shape, LossWellFormed, HaltGapsEndWithHalt, ConnectionGapsMeanDown

\* A step that adds gaps only for a reason that is not about the connection, and
\* not 'halted' unless the product is, keeps the invariant; status stays.
LEMMA OtherGapStep ==
    ASSUME IInv, status' = status, halted' = halted, NEW r \in {"paused", "plan_limit"}, NEW S,
           gaps' = OpenGaps(S, r) \/ gaps' = CloseGaps(S, r),
           NEW c \in Requests, Finish(c)
    PROVE  IInv'
<1>1. r \in GapReason /\ r # "halted" /\ r \notin LossStatus
  BY DEF GapReason, LossStatus
<1>2. /\ gaps' \in [Sessions -> [GapReason -> Nat]]
      /\ \A s \in Sessions, q \in GapReason : q # r => gaps'[s][q] = gaps[s][q]
  <2>1. CASE gaps' = OpenGaps(S, r)
    BY <1>1, <2>1, OpenGapsTyped DEF IInv, Shape
  <2>2. CASE gaps' = CloseGaps(S, r)
    BY <1>1, <2>2, CloseGapsTyped DEF IInv, Shape
  <2>3. QED
    BY <2>1, <2>2
<1>3. /\ request' \in [Requests -> RequestState]
      /\ \A d \in Requests : request'[d] # request[d] => request'[d].pc = "idle"
  BY FinishTyped DEF IInv, Shape
<1>4. Shape' /\ LossWellFormed'
  BY <1>2, <1>3 DEF IInv, Shape, LossWellFormed
<1>5. HaltGapsEndWithHalt' /\ ConnectionGapsMeanDown'
  BY <1>1, <1>2 DEF IInv, HaltGapsEndWithHalt, ConnectionGapsMeanDown, GapReason, LossStatus
<1>6. QED
  BY <1>4, <1>5 DEF IInv

\* Pairing, status transitions and eviction (connections.ts).
LEMMA SessionStepInv ==
    ASSUME IInv, NEW c \in Requests, SessionStep(c)
    PROVE  IInv'
<1>1. ASSUME NEW s \in Sessions, BeginPairing(c, s) PROVE IInv'
  <2>1. /\ Begin(c, "pairing", {s}, {}, "pending")
        /\ status' = status /\ gaps' = gaps /\ halted' = halted
    BY <1>1 DEF BeginPairing
  <2>2. RequestsMove
    BY <2>1 DEF Begin, RequestState, RequestsMove, IInv, Shape, SessionStatus
  <2>3. QED
    BY <2>1, <2>2, BookkeepingStep
<1>2. ASSUME NEW s \in Sessions, Connect(c, s) PROVE IInv'
  BY <1>2 DEF Connect, IInv, Shape, LossWellFormed, HaltGapsEndWithHalt,
              ConnectionGapsMeanDown, SessionStatus, GapReason, LossStatus
<1>3. ASSUME NEW s \in Sessions, NEW to \in LossStatus, BeginLoss(c, s, to) PROVE IInv'
  <2>1. /\ Begin(c, "losing", {s}, WithoutOpenGap({s}), to)
        /\ status' = status /\ gaps' = gaps /\ halted' = halted
    BY <1>3 DEF BeginLoss
  <2>2. WithoutOpenGap({s}) \subseteq {s} /\ {s} \in SUBSET Sessions /\ to \in SessionStatus
    BY DEF WithoutOpenGap, SessionStatus
  <2>3. RequestsMove
    BY <2>1, <2>2 DEF Begin, RequestState, RequestsMove, IInv, Shape
  <2>4. QED
    BY <2>1, <2>3, BookkeepingStep
<1>4. ASSUME NEW S \in SUBSET Sessions, BeginEvict(c, S) PROVE IInv'
  <2>1. /\ Begin(c, "evicting", S, WithoutOpenGap(S), "re_pair_required")
        /\ status' = status /\ gaps' = gaps /\ halted' = halted
    BY <1>4 DEF BeginEvict
  <2>2. RequestsMove
    BY <2>1 DEF Begin, RequestState, RequestsMove, IInv, Shape, SessionStatus, LossStatus, WithoutOpenGap
  <2>3. QED
    BY <2>1, <2>2, BookkeepingStep
<1>5. ASSUME CreateSession(c) PROVE IInv'
  <2>1. /\ request' \in [Requests -> RequestState]
        /\ \A d \in Requests : request'[d] # request[d] => request'[d].pc = "idle"
    BY <1>5, FinishTyped DEF IInv, Shape, CreateSession
  <2>2. QED
    BY <1>5, <2>1 DEF CreateSession, IInv, Shape, LossWellFormed, HaltGapsEndWithHalt,
                      ConnectionGapsMeanDown, SessionStatus
<1>6. ASSUME CommitLoss(c) PROVE IInv'
  <2> DEFINE S == request[c].opens
             to == request[c].to
  <2>1. S \subseteq request[c].on /\ to \in LossStatus /\ to \in GapReason
    BY <1>6 DEF CommitLoss, IInv, LossWellFormed, GapReason
  <2>2. to # "halted" /\ to # "connected" /\ to \in SessionStatus
    BY <2>1 DEF LossStatus, SessionStatus
  <2>3. /\ gaps' \in [Sessions -> [GapReason -> Nat]]
        /\ \A s \in Sessions, q \in GapReason : gaps'[s][q] # gaps[s][q] => s \in S /\ q = to
    <3>1. gaps' = OpenGaps(S, to)
      BY <1>6 DEF CommitLoss
    <3>2. QED
      BY <2>1, <3>1, OpenGapsTyped DEF IInv, Shape
  <2>4. /\ request' \in [Requests -> RequestState]
        /\ \A d \in Requests : request'[d] # request[d] => request'[d].pc = "idle"
    BY <1>6, FinishTyped DEF IInv, Shape, CommitLoss
  <2>5. /\ status' = [s \in Sessions |-> IF s \in request[c].on THEN to ELSE status[s]]
        /\ halted' = halted
    BY <1>6 DEF CommitLoss
  <2>6. Shape' /\ LossWellFormed'
    BY <2>2, <2>3, <2>4, <2>5 DEF IInv, Shape, LossWellFormed
  <2>7. HaltGapsEndWithHalt'
    BY <2>2, <2>3, <2>5 DEF IInv, HaltGapsEndWithHalt, GapReason
  <2>8. ConnectionGapsMeanDown'
    BY <2>1, <2>2, <2>3, <2>5 DEF IInv, Shape, ConnectionGapsMeanDown, GapReason
  <2>9. QED
    BY <2>6, <2>7, <2>8 DEF IInv
<1>7. ASSUME CommitEvict(c) PROVE IInv'
  <2> DEFINE down == {s \in request[c].on : status[s] # "re_pair_required"}
             S == down \cap request[c].opens
  <2>1. "re_pair_required" \in GapReason /\ "re_pair_required" \in SessionStatus
    BY DEF GapReason, LossStatus, SessionStatus
  <2>2. /\ gaps' \in [Sessions -> [GapReason -> Nat]]
        /\ \A s \in Sessions, q \in GapReason :
              gaps'[s][q] # gaps[s][q] => s \in S /\ q = "re_pair_required"
    <3>1. gaps' = OpenGaps(S, "re_pair_required")
      BY <1>7 DEF CommitEvict
    <3>2. QED
      BY <2>1, <3>1, OpenGapsTyped DEF IInv, Shape
  <2>3. /\ request' \in [Requests -> RequestState]
        /\ \A d \in Requests : request'[d] # request[d] => request'[d].pc = "idle"
    BY <1>7, FinishTyped DEF IInv, Shape, CommitEvict
  <2>4. /\ status' = [s \in Sessions |-> IF s \in down THEN "re_pair_required" ELSE status[s]]
        /\ halted' = halted
    BY <1>7 DEF CommitEvict
  <2>5. Shape' /\ LossWellFormed'
    BY <2>1, <2>2, <2>3, <2>4 DEF IInv, Shape, LossWellFormed
  <2>6. HaltGapsEndWithHalt'
    BY <2>2, <2>4 DEF IInv, HaltGapsEndWithHalt, GapReason
  <2>7. ConnectionGapsMeanDown'
    BY <2>2, <2>4 DEF IInv, Shape, ConnectionGapsMeanDown, GapReason
  <2>8. QED
    BY <2>5, <2>6, <2>7 DEF IInv
<1>8. QED
  BY <1>1, <1>2, <1>3, <1>4, <1>5, <1>6, <1>7 DEF SessionStep

\* The operator's switch and its gaps (halt.ts).
LEMMA HaltStepInv ==
    ASSUME IInv, NEW c \in Requests, HaltStep(c)
    PROVE  IInv'
<1>1. ASSUME BeginHalt(c) PROVE IInv'
  <2>1. PICK S \in SUBSET Sessions : Begin(c, "halting", {}, S, "none")
    BY <1>1 DEF BeginHalt, WithoutOpenGap
  <2>2. status' = status /\ gaps' = gaps /\ halted' = halted
    BY <1>1 DEF BeginHalt
  <2>3. RequestsMove
    BY <2>1 DEF Begin, RequestState, RequestsMove, IInv, Shape, SessionStatus
  <2>4. QED
    BY <2>2, <2>3, BookkeepingStep
<1>2. ASSUME CommitHalt(c) PROVE IInv'
  <2>1. "halted" \in GapReason /\ "halted" \notin LossStatus
    BY DEF GapReason, LossStatus
  <2>2. /\ gaps' \in [Sessions -> [GapReason -> Nat]]
        /\ \A s \in Sessions, q \in GapReason : gaps'[s][q] # gaps[s][q] => q = "halted"
    BY <1>2, <2>1, OpenGapsTyped DEF IInv, Shape, CommitHalt
  <2>3. /\ request' \in [Requests -> RequestState]
        /\ \A d \in Requests : request'[d] # request[d] => request'[d].pc = "idle"
    BY <1>2, FinishTyped DEF IInv, Shape, CommitHalt
  <2>4. halted' /\ status' = status
    BY <1>2 DEF CommitHalt
  <2>5. Shape' /\ LossWellFormed' /\ HaltGapsEndWithHalt'
    BY <2>2, <2>3, <2>4 DEF IInv, Shape, LossWellFormed, HaltGapsEndWithHalt
  <2>6. ConnectionGapsMeanDown'
    BY <2>1, <2>2, <2>4 DEF IInv, ConnectionGapsMeanDown, GapReason
  <2>7. QED
    BY <2>5, <2>6 DEF IInv
<1>3. ASSUME Unhalt(c) PROVE IInv'
  <2>1. "halted" \in GapReason /\ "halted" \notin LossStatus
    BY DEF GapReason, LossStatus
  <2>2. /\ gaps' \in [Sessions -> [GapReason -> Nat]]
        /\ \A s \in Sessions : gaps'[s]["halted"] = 0
        /\ \A s \in Sessions, q \in GapReason : q # "halted" => gaps'[s][q] = gaps[s][q]
    BY <1>3, <2>1, CloseGapsTyped DEF IInv, Shape, Unhalt
  <2>3. request' = request /\ status' = status
    BY <1>3 DEF Unhalt
  <2>4. Shape' /\ LossWellFormed' /\ HaltGapsEndWithHalt'
    BY <2>2, <2>3 DEF IInv, Shape, LossWellFormed, HaltGapsEndWithHalt
  <2>5. ConnectionGapsMeanDown'
    BY <2>1, <2>2, <2>3 DEF IInv, ConnectionGapsMeanDown, GapReason
  <2>6. QED
    BY <2>4, <2>5 DEF IInv
<1>4. QED
  BY <1>1, <1>2, <1>3 DEF HaltStep

\* Pausing and resuming capture (privacy.ts).
LEMMA PauseStepInv ==
    ASSUME IInv, NEW c \in Requests, PauseStep(c)
    PROVE  IInv'
<1>1. ASSUME NEW u \in Users, Pause(c, u) \/ Resume(c, u) PROVE IInv'
  <2>1. SessionsOf(u) \in SUBSET Sessions /\ {} \in SUBSET Sessions /\ "none" \in SessionStatus
    BY DEF SessionsOf, SessionStatus
  <2>2. /\ \/ Begin(c, "pausing", SessionsOf(u), {}, "none")
           \/ Begin(c, "resuming", SessionsOf(u), {}, "none")
        /\ status' = status /\ gaps' = gaps /\ halted' = halted
    BY <1>1 DEF Pause, Resume
  <2>3. RequestsMove
    BY <2>1, <2>2 DEF Begin, RequestState, RequestsMove, IInv, Shape
  <2>4. QED
    BY <2>2, <2>3, BookkeepingStep
<1>2. ASSUME FindPausedSessions(c) PROVE IInv'
  <2>1. RequestsMove
    BY <1>2 DEF RequestsMove, FindPausedSessions, IInv, Shape, RequestState, WithoutOpenGap
  <2>2. status' = status /\ gaps' = gaps /\ halted' = halted
    BY <1>2 DEF FindPausedSessions
  <2>3. QED
    BY <2>1, <2>2, BookkeepingStep
<1>3. ASSUME OpenPauseGaps(c) PROVE IInv'
  BY <1>3, OtherGapStep DEF OpenPauseGaps
<1>4. ASSUME ClosePauseGaps(c) PROVE IInv'
  BY <1>4, OtherGapStep DEF ClosePauseGaps
<1>5. QED
  BY <1>1, <1>2, <1>3, <1>4 DEF PauseStep

\* The daily message cap, at the webhook and at the consumer (block.ts).
LEMMA CapStepInv ==
    ASSUME IInv, NEW c \in Requests, CapStep(c)
    PROVE  IInv'
<1>1. ASSUME NEW s \in Sessions, CheckCap(c, s) PROVE IInv'
  <2>1. {s} \in SUBSET Sessions /\ {} \in SUBSET Sessions /\ "none" \in SessionStatus
    BY DEF SessionStatus
  <2>2. /\ Begin(c, "capped", {s}, {}, "none") \/ Begin(c, "storing", {s}, {}, "none")
        /\ status' = status /\ gaps' = gaps /\ halted' = halted
    BY <1>1 DEF CheckCap
  <2>3. RequestsMove
    BY <2>1, <2>2 DEF Begin, RequestState, RequestsMove, IInv, Shape
  <2>4. QED
    BY <2>2, <2>3, BookkeepingStep
<1>2. ASSUME FindCappedSession(c) PROVE IInv'
  <2>1. RequestsMove
    BY <1>2 DEF RequestsMove, FindCappedSession, IInv, Shape, RequestState, WithoutOpenGap
  <2>2. status' = status /\ gaps' = gaps /\ halted' = halted
    BY <1>2 DEF FindCappedSession
  <2>3. QED
    BY <2>1, <2>2, BookkeepingStep
<1>3. ASSUME OpenCapGap(c) PROVE IInv'
  BY <1>3, OtherGapStep DEF OpenCapGap
<1>4. ASSUME StoreUnderCap(c) PROVE IInv'
  BY <1>4, OtherGapStep DEF StoreUnderCap
<1>5. QED
  BY <1>1, <1>2, <1>3, <1>4 DEF CapStep

\* Every step keeps the invariant.
LEMMA NextInv ==
    ASSUME IInv, [Next]_vars
    PROVE  IInv'
<1>1. ASSUME NEW c \in Requests, SessionStep(c) \/ HaltStep(c) \/ PauseStep(c) \/ CapStep(c)
      PROVE  IInv'
  BY <1>1, SessionStepInv, HaltStepInv, PauseStepInv, CapStepInv
<1>2. ASSUME NEW u \in Users, CapMoves(u) PROVE IInv'
  BY <1>2 DEF CapMoves, IInv, Shape, LossWellFormed, HaltGapsEndWithHalt, ConnectionGapsMeanDown
<1>3. ASSUME Crash PROVE IInv'
  BY <1>3 DEF Crash, Idle, RequestState, SessionStatus, IInv, Shape, LossWellFormed,
              HaltGapsEndWithHalt, ConnectionGapsMeanDown
<1>4. ASSUME UNCHANGED vars PROVE IInv'
  BY <1>4 DEF vars, IInv, Shape, LossWellFormed, HaltGapsEndWithHalt, ConnectionGapsMeanDown
<1>5. QED
  BY <1>1, <1>2, <1>3, <1>4 DEF Next

\* The inductive invariant holds in every reachable state.
LEMMA CoverageInvariant == Spec => []IInv
<1>1. Init => IInv
  BY InitInv
<1>2. IInv /\ [Next]_vars => IInv'
  BY NextInv
<1>3. QED
  BY <1>1, <1>2, PTL DEF Spec

\* Un-halting leaves no 'halted' gap open on any Session, whichever requests were
\* in flight when the operator threw the switch (setHalted, halt.ts).
THEOREM HaltGapsEnd == Spec => []HaltGapsEndWithHalt
<1>1. IInv => HaltGapsEndWithHalt
  BY DEF IInv
<1>2. QED
  BY <1>1, CoverageInvariant, PTL

\* A connected Session has no open gap that says it is down, whatever transitions
\* and evictions overlapped (transition and evictIdleSessions, connections.ts).
THEOREM ConnectedIsUp == Spec => []ConnectionGapsMeanDown
<1>1. IInv => ConnectionGapsMeanDown
  BY DEF IInv
<1>2. QED
  BY <1>1, CoverageInvariant, PTL

-----------------------------------------------------------------------------
(* What holds besides while requests do not overlap.                       *)

\* No Session has two open gaps.
OneGap ==
    \A s \in Sessions, q \in GapReason :
        /\ gaps[s][q] \in {0, 1}
        /\ \A r \in GapReason : gaps[s][q] > 0 /\ gaps[s][r] > 0 => q = r

\* What the request in flight has found is still so: the Sessions it will open a
\* gap for have none, the others it takes down have one, and the Session it
\* creates is not there.
Found(c) ==
    /\ request[c].opens \subseteq Sessions
    /\ \A s \in request[c].opens : ~Open(s)
    /\ request[c].pc \in {"losing", "evicting"} =>
          \A s \in request[c].on \ request[c].opens : Open(s)
    /\ request[c].pc = "halting" =>
          \A s \in Sessions \ request[c].opens : status[s] # "none" => Open(s)
    /\ request[c].pc = "pairing" => \A s \in request[c].on : status[s] = "none"

Serial == OneGap /\ \A c \in Requests : Found(c)

\* An INSERT for Sessions without an open gap gives each of them one.
LEMMA OpensOne ==
    ASSUME IInv, OneGap, NEW S \in SUBSET Sessions, \A s \in S : ~Open(s),
           NEW r \in GapReason, gaps' = OpenGaps(S, r)
    PROVE  OneGap' /\ \A s \in Sessions : Open(s)' <=> (s \in S \/ Open(s))
<1>1. gaps \in [Sessions -> [GapReason -> Nat]] /\ MaxOpen \in Nat \ {0}
  BY CoverageAssumption DEF CoverageAssumption, IInv, Shape
<1>2. \A s \in S, q \in GapReason : gaps[s][q] = 0
  BY <1>1 DEF Open
<1>3. \A s \in S, q \in GapReason : gaps'[s][q] = IF q = r THEN 1 ELSE 0
  BY <1>1, <1>2 DEF OpenGaps
<1>4. \A s \in Sessions \ S : gaps'[s] = gaps[s]
  BY <1>1 DEF OpenGaps
<1>5. OneGap'
  <2>1. ASSUME NEW s \in Sessions, NEW q \in GapReason
        PROVE  /\ gaps'[s][q] \in {0, 1}
               /\ \A k \in GapReason : gaps'[s][q] > 0 /\ gaps'[s][k] > 0 => q = k
    <3>1. CASE s \in S
      BY <1>3, <3>1
    <3>2. CASE s \notin S
      BY <1>4, <3>2 DEF OneGap
    <3>3. QED
      BY <3>1, <3>2
  <2>2. QED
    BY <2>1 DEF OneGap
<1>6. ASSUME NEW s \in Sessions PROVE Open(s)' <=> (s \in S \/ Open(s))
  <2>1. CASE s \in S
    BY <1>3, <2>1 DEF Open
  <2>2. CASE s \notin S
    BY <1>4, <2>2 DEF Open
  <2>3. QED
    BY <2>1, <2>2
<1>7. QED
  BY <1>5, <1>6

\* Closing gaps leaves at most one.
LEMMA ClosesAny ==
    ASSUME IInv, OneGap, NEW S, NEW r \in GapReason, gaps' = CloseGaps(S, r)
    PROVE  OneGap'
<1>1. \A s \in Sessions, q \in GapReason : gaps'[s][q] \in {0, gaps[s][q]}
  BY CloseGapsTyped DEF IInv, Shape
<1>2. \A s \in Sessions, q \in GapReason : gaps[s][q] \in Nat
  BY DEF IInv, Shape
<1>3. QED
  BY <1>1, <1>2 DEF OneGap

\* A step that concerns the only request and no gap or status.
LEMMA SerialStays ==
    ASSUME Serial, NEW c \in Requests, Requests = {c}, gaps' = gaps, Found(c)'
    PROVE  Serial'
BY DEF Serial, OneGap

\* A request that has begun.
LEMMA SerialBegins ==
    ASSUME IInv, Serial, NEW c \in Requests, Requests = {c}, gaps' = gaps, status' = status,
           NEW pc, NEW on, NEW opens, NEW to, Begin(c, pc, on, opens, to),
           opens \subseteq Sessions, \A s \in opens : ~Open(s),
           pc \in {"losing", "evicting"} => \A s \in on \ opens : Open(s),
           pc = "halting" => \A s \in Sessions \ opens : status[s] # "none" => Open(s),
           pc = "pairing" => \A s \in on : status[s] = "none"
    PROVE  Serial'
<1>1. request'[c] = [pc |-> pc, on |-> on, opens |-> opens, to |-> to]
  BY DEF Begin, IInv, Shape
<1>2. \A s : Open(s)' = Open(s)
  BY DEF Open
<1>3. Found(c)'
  BY <1>1, <1>2 DEF Found
<1>4. QED
  BY <1>3, SerialStays

\* A request that has finished.
LEMMA SerialEnds ==
    ASSUME IInv, NEW c \in Requests, Requests = {c}, Finish(c), OneGap'
    PROVE  Serial'
<1>1. request'[c] = Idle
  BY DEF Finish, IInv, Shape
<1>2. Found(c)'
  BY <1>1 DEF Found, Idle
<1>3. QED
  BY <1>2 DEF Serial

\* Without a request in flight nothing was found that could be outdated.
LEMMA SerialIdle ==
    ASSUME IInv, Serial, NEW c \in Requests, Requests = {c}, request[c].pc = "idle",
           request' = request, OneGap', request[c].opens = {}
    PROVE  Serial'
BY DEF Serial, Found

\* A request that is idle holds nothing.
IdleIsIdle == \A c \in Requests : request[c].pc = "idle" => request[c] = Idle

\* What a step must do to a Session that goes down.
Flagged ==
    /\ \A s \in Sessions : status[s] = "connected" /\ status'[s] # "connected" => Open(s)'
    /\ ~halted /\ halted' => \A s \in Sessions : status[s] # "none" => Open(s)'

\* A step that takes no Session down and does not halt.
LEMMA NothingFlagged ==
    ASSUME UNCHANGED <<status, halted>>
    PROVE  Flagged
BY DEF Flagged

\* Transitions, pairing and eviction, one at a time.
LEMMA SessionSerial ==
    ASSUME IInv, Serial, IdleIsIdle, NEW c \in Requests, Requests = {c}, SessionStep(c)
    PROVE  Serial' /\ Flagged
<1>0. request[c] \in RequestState /\ OneGap /\ Found(c) /\ status \in [Sessions -> SessionStatus]
  BY DEF IInv, Shape, Serial
<1>1. ASSUME NEW s \in Sessions, BeginPairing(c, s) PROVE Serial' /\ Flagged
  <2>1. /\ status[s] = "none" /\ Begin(c, "pairing", {s}, {}, "pending")
        /\ UNCHANGED <<status, halted, gaps>>
    BY <1>1 DEF BeginPairing
  <2>2. QED
    BY <2>1, SerialBegins, NothingFlagged
<1>2. ASSUME NEW s \in Sessions, Connect(c, s) PROVE Serial' /\ Flagged
  <2>1. /\ request[c].pc = "idle" /\ request' = request /\ halted' = halted
        /\ gaps' = [gaps EXCEPT ![s] = [r \in GapReason |-> 0]]
        /\ status' = [status EXCEPT ![s] = "connected"]
    BY <1>2 DEF Connect
  <2>2. \A k \in Sessions, q \in GapReason : gaps'[k][q] \in {0, gaps[k][q]}
    BY <2>1 DEF IInv, Shape
  <2>3. \A k \in Sessions, q \in GapReason : gaps[k][q] \in Nat
    BY DEF IInv, Shape
  <2>4. OneGap'
    BY <1>0, <2>2, <2>3 DEF OneGap
  <2>5. Flagged
    BY <1>0, <2>1 DEF Flagged
  <2>6. request[c].opens = {}
    BY <2>1 DEF IdleIsIdle, Idle
  <2>7. QED
    BY <2>1, <2>4, <2>5, <2>6, SerialIdle
<1>3. ASSUME NEW s \in Sessions, NEW to \in LossStatus, BeginLoss(c, s, to) PROVE Serial' /\ Flagged
  <2>1. /\ Begin(c, "losing", {s}, WithoutOpenGap({s}), to)
        /\ UNCHANGED <<status, halted, gaps>>
    BY <1>3 DEF BeginLoss
  <2>2. /\ WithoutOpenGap({s}) \subseteq Sessions
        /\ \A k \in WithoutOpenGap({s}) : ~Open(k)
        /\ \A k \in {s} \ WithoutOpenGap({s}) : Open(k)
    BY DEF WithoutOpenGap
  <2>3. QED
    BY <2>1, <2>2, SerialBegins, NothingFlagged
<1>4. ASSUME NEW S \in SUBSET Sessions, BeginEvict(c, S) PROVE Serial' /\ Flagged
  <2>1. /\ Begin(c, "evicting", S, WithoutOpenGap(S), "re_pair_required")
        /\ UNCHANGED <<status, halted, gaps>>
    BY <1>4 DEF BeginEvict
  <2>2. /\ WithoutOpenGap(S) \subseteq Sessions
        /\ \A k \in WithoutOpenGap(S) : ~Open(k)
        /\ \A k \in S \ WithoutOpenGap(S) : Open(k)
    BY DEF WithoutOpenGap
  <2>3. QED
    BY <2>1, <2>2, SerialBegins, NothingFlagged
<1>5. ASSUME CreateSession(c) PROVE Serial' /\ Flagged
  <2>1. /\ request[c].pc = "pairing" /\ Finish(c) /\ UNCHANGED <<halted, gaps>>
        /\ status' = [s \in Sessions |-> IF s \in request[c].on THEN "pending" ELSE status[s]]
    BY <1>5 DEF CreateSession
  <2>2. \A s \in request[c].on : status[s] = "none"
    BY <1>0, <2>1 DEF Found
  <2>3. Flagged
    BY <2>1, <2>2 DEF Flagged
  <2>4. OneGap'
    BY <1>0, <2>1 DEF OneGap
  <2>5. QED
    BY <2>1, <2>3, <2>4, SerialEnds
<1>6. ASSUME CommitLoss(c) PROVE Serial' /\ Flagged
  <2>1. /\ request[c].pc = "losing" /\ Finish(c) /\ halted' = halted
        /\ status' = [s \in Sessions |-> IF s \in request[c].on THEN request[c].to ELSE status[s]]
        /\ gaps' = OpenGaps(request[c].opens, request[c].to)
    BY <1>6 DEF CommitLoss
  <2>2. request[c].to \in GapReason
    BY <2>1 DEF IInv, LossWellFormed, GapReason
  <2>3. /\ request[c].opens \in SUBSET Sessions /\ \A s \in request[c].opens : ~Open(s)
        /\ \A s \in request[c].on \ request[c].opens : Open(s)
    BY <1>0, <2>1 DEF Found
  <2>4. OneGap' /\ \A s \in Sessions : Open(s)' <=> (s \in request[c].opens \/ Open(s))
    BY <1>0, <2>1, <2>2, <2>3, OpensOne
  <2>5. Flagged
    BY <2>1, <2>3, <2>4 DEF Flagged
  <2>6. QED
    BY <2>1, <2>4, <2>5, SerialEnds
<1>7. ASSUME CommitEvict(c) PROVE Serial' /\ Flagged
  <2> DEFINE evicted == {s \in request[c].on : status[s] # "re_pair_required"}
             S == evicted \cap request[c].opens
  <2>1. /\ request[c].pc = "evicting" /\ Finish(c) /\ halted' = halted
        /\ status' = [s \in Sessions |-> IF s \in evicted THEN "re_pair_required" ELSE status[s]]
        /\ gaps' = OpenGaps(S, "re_pair_required")
    BY <1>7 DEF CommitEvict
  <2>2. "re_pair_required" \in GapReason
    BY DEF GapReason, LossStatus
  <2>3. /\ S \in SUBSET Sessions /\ \A s \in S : ~Open(s)
        /\ \A s \in evicted \ S : Open(s)
    BY <1>0, <2>1 DEF Found
  <2> HIDE DEF S, evicted
  <2>4. OneGap' /\ \A s \in Sessions : Open(s)' <=> (s \in S \/ Open(s))
    BY <1>0, <2>1, <2>2, <2>3, OpensOne
  <2>5. Flagged
    BY <2>1, <2>3, <2>4 DEF Flagged
  <2>6. QED
    BY <2>1, <2>4, <2>5, SerialEnds
<1>8. QED
  BY <1>1, <1>2, <1>3, <1>4, <1>5, <1>6, <1>7 DEF SessionStep

\* The operator's switch.
LEMMA HaltSerial ==
    ASSUME IInv, Serial, IdleIsIdle, NEW c \in Requests, Requests = {c}, HaltStep(c)
    PROVE  Serial' /\ Flagged
<1>0. OneGap /\ Found(c) /\ "halted" \in GapReason
  BY DEF Serial, GapReason
<1>1. ASSUME BeginHalt(c) PROVE Serial' /\ Flagged
  <2> DEFINE S == {s \in Sessions : status[s] # "none"}
  <2>1. Begin(c, "halting", {}, WithoutOpenGap(S), "none") /\ UNCHANGED <<status, halted, gaps>>
    BY <1>1 DEF BeginHalt
  <2>2. /\ WithoutOpenGap(S) \subseteq Sessions
        /\ \A s \in WithoutOpenGap(S) : ~Open(s)
        /\ \A s \in Sessions \ WithoutOpenGap(S) : status[s] # "none" => Open(s)
    BY DEF WithoutOpenGap
  <2> HIDE DEF S
  <2>3. QED
    BY <2>1, <2>2, SerialBegins, NothingFlagged
<1>2. ASSUME CommitHalt(c) PROVE Serial' /\ Flagged
  <2>1. /\ request[c].pc = "halting" /\ Finish(c) /\ status' = status
        /\ gaps' = OpenGaps(request[c].opens, "halted")
    BY <1>2 DEF CommitHalt
  <2>2. /\ request[c].opens \in SUBSET Sessions /\ \A s \in request[c].opens : ~Open(s)
        /\ \A s \in Sessions \ request[c].opens : status[s] # "none" => Open(s)
    BY <1>0, <2>1 DEF Found
  <2>3. OneGap' /\ \A s \in Sessions : Open(s)' <=> (s \in request[c].opens \/ Open(s))
    BY <1>0, <2>1, <2>2, OpensOne
  <2>4. Flagged
    BY <2>1, <2>2, <2>3 DEF Flagged
  <2>5. QED
    BY <2>1, <2>3, <2>4, SerialEnds
<1>3. ASSUME Unhalt(c) PROVE Serial' /\ Flagged
  <2>1. /\ request[c].pc = "idle" /\ request' = request /\ status' = status /\ ~halted'
        /\ gaps' = CloseGaps(Sessions, "halted")
    BY <1>3 DEF Unhalt
  <2>2. OneGap'
    BY <1>0, <2>1, ClosesAny
  <2>3. Flagged
    BY <2>1 DEF Flagged
  <2>4. request[c].opens = {}
    BY <2>1 DEF IdleIsIdle, Idle
  <2>5. QED
    BY <2>1, <2>2, <2>3, <2>4, SerialIdle
<1>4. QED
  BY <1>1, <1>2, <1>3 DEF HaltStep

\* A request looks again which of its Sessions have no open gap.
LEMMA SerialLooks ==
    ASSUME IInv, Serial, NEW c \in Requests, Requests = {c}, gaps' = gaps,
           NEW pc \in {"paused", "capping"},
           request' = [request EXCEPT ![c].pc = pc, ![c].opens = WithoutOpenGap(request[c].on)]
    PROVE  Serial'
<1> DEFINE opens == WithoutOpenGap(request[c].on)
<1>1. request \in [Requests -> RequestState]
  BY DEF IInv, Shape
<1>2. opens \subseteq Sessions /\ \A s \in opens : ~Open(s)
  BY <1>1 DEF WithoutOpenGap, RequestState
<1> HIDE DEF opens
<1>3. request' = [request EXCEPT ![c].pc = pc, ![c].opens = opens]
  BY DEF opens
<1>4. request'[c].pc = pc /\ request'[c].opens = opens
  BY <1>1, <1>3 DEF RequestState
<1>5. \A s : Open(s)' = Open(s)
  BY DEF Open
<1>6. Found(c)'
  BY <1>2, <1>4, <1>5 DEF Found
<1>7. QED
  BY <1>6, SerialStays

\* A request that opens or closes gaps and finishes.
LEMMA SerialGaps ==
    ASSUME IInv, Serial, NEW c \in Requests, Requests = {c}, Finish(c),
           NEW r \in {"paused", "plan_limit"},
           gaps' = OpenGaps(request[c].opens, r) \/ gaps' = CloseGaps(request[c].on, r)
    PROVE  Serial'
<1>1. r \in GapReason
  BY DEF GapReason
<1>2. OneGap /\ request[c].opens \in SUBSET Sessions /\ \A s \in request[c].opens : ~Open(s)
  BY DEF Serial, Found
<1>3. OneGap'
  BY <1>1, <1>2, OpensOne, ClosesAny
<1>4. QED
  BY <1>3, SerialEnds

\* Pause, resume and the daily cap.
LEMMA OtherSerial ==
    ASSUME IInv, Serial, NEW c \in Requests, Requests = {c}, PauseStep(c) \/ CapStep(c)
    PROVE  Serial' /\ Flagged
<1>1. Flagged
  <2>1. UNCHANGED <<status, halted>>
    BY DEF PauseStep, CapStep, Pause, Resume, FindPausedSessions, OpenPauseGaps, ClosePauseGaps,
           CheckCap, FindCappedSession, OpenCapGap, StoreUnderCap
  <2>2. QED
    BY <2>1, NothingFlagged
<1>2. ASSUME NEW u \in Users, Pause(c, u) PROVE Serial'
  <2>1. Begin(c, "pausing", SessionsOf(u), {}, "none") /\ UNCHANGED <<status, gaps>>
    BY <1>2 DEF Pause
  <2>2. QED
    BY <2>1, SerialBegins
<1>3. ASSUME NEW u \in Users, Resume(c, u) PROVE Serial'
  <2>1. Begin(c, "resuming", SessionsOf(u), {}, "none") /\ UNCHANGED <<status, gaps>>
    BY <1>3 DEF Resume
  <2>2. QED
    BY <2>1, SerialBegins
<1>4. ASSUME NEW s \in Sessions, CheckCap(c, s) PROVE Serial'
  <2>1. PICK pc \in {"capped", "storing"} : Begin(c, pc, {s}, {}, "none") /\ UNCHANGED <<status, gaps>>
    BY <1>4 DEF CheckCap
  <2>2. QED
    BY <2>1, SerialBegins
<1>5. ASSUME FindPausedSessions(c) PROVE Serial'
  BY <1>5, SerialLooks DEF FindPausedSessions
<1>6. ASSUME FindCappedSession(c) PROVE Serial'
  BY <1>6, SerialLooks DEF FindCappedSession
<1>7. ASSUME OpenPauseGaps(c) PROVE Serial'
  BY <1>7, SerialGaps DEF OpenPauseGaps
<1>8. ASSUME ClosePauseGaps(c) PROVE Serial'
  BY <1>8, SerialGaps DEF ClosePauseGaps
<1>9. ASSUME OpenCapGap(c) PROVE Serial'
  BY <1>9, SerialGaps DEF OpenCapGap
<1>10. ASSUME StoreUnderCap(c) PROVE Serial'
  BY <1>10, SerialGaps DEF StoreUnderCap
<1>11. QED
  BY <1>1, <1>2, <1>3, <1>4, <1>5, <1>6, <1>7, <1>8, <1>9, <1>10 DEF PauseStep, CapStep

\* An idle request is Idle.
LEMMA IdleKept ==
    ASSUME IInv, IdleIsIdle, [Next]_vars
    PROVE  IdleIsIdle'
<1> USE DEF IInv, Shape
<1>1. ASSUME NEW c \in Requests, NEW pc, NEW on, NEW opens, NEW to, pc # "idle",
             Begin(c, pc, on, opens, to)
      PROVE  IdleIsIdle'
  BY <1>1 DEF Begin, IdleIsIdle
<1>2. ASSUME NEW c \in Requests, Finish(c) PROVE IdleIsIdle'
  BY <1>2 DEF Finish, IdleIsIdle
<1>3. ASSUME request' = request PROVE IdleIsIdle'
  BY <1>3 DEF IdleIsIdle
<1>4. ASSUME NEW c \in Requests, NEW pc, pc # "idle", NEW opens,
             request' = [request EXCEPT ![c].pc = pc, ![c].opens = opens]
      PROVE  IdleIsIdle'
  <2>1. request'[c].pc = pc /\ \A d \in Requests \ {c} : request'[d] = request[d]
    BY <1>4 DEF RequestState
  <2>2. QED
    BY <1>4, <2>1 DEF IdleIsIdle
<1>5. ASSUME NEW c \in Requests, SessionStep(c) PROVE IdleIsIdle'
  <2>1. ASSUME NEW s \in Sessions, BeginPairing(c, s) PROVE IdleIsIdle'
    BY <1>1, <2>1 DEF BeginPairing
  <2>2. ASSUME NEW s \in Sessions, Connect(c, s) PROVE IdleIsIdle'
    BY <1>3, <2>2 DEF Connect
  <2>3. ASSUME NEW s \in Sessions, NEW to \in LossStatus, BeginLoss(c, s, to) PROVE IdleIsIdle'
    BY <1>1, <2>3 DEF BeginLoss
  <2>4. ASSUME NEW S \in SUBSET Sessions, BeginEvict(c, S) PROVE IdleIsIdle'
    BY <1>1, <2>4 DEF BeginEvict
  <2>5. ASSUME CreateSession(c) \/ CommitLoss(c) \/ CommitEvict(c) PROVE IdleIsIdle'
    BY <1>2, <2>5 DEF CreateSession, CommitLoss, CommitEvict
  <2>6. QED
    BY <1>5, <2>1, <2>2, <2>3, <2>4, <2>5 DEF SessionStep
<1>6. ASSUME NEW c \in Requests, HaltStep(c) PROVE IdleIsIdle'
  <2>1. ASSUME BeginHalt(c) PROVE IdleIsIdle'
    BY <1>1, <2>1 DEF BeginHalt
  <2>2. ASSUME CommitHalt(c) PROVE IdleIsIdle'
    BY <1>2, <2>2 DEF CommitHalt
  <2>3. ASSUME Unhalt(c) PROVE IdleIsIdle'
    BY <1>3, <2>3 DEF Unhalt
  <2>4. QED
    BY <1>6, <2>1, <2>2, <2>3 DEF HaltStep
<1>7. ASSUME NEW c \in Requests, PauseStep(c) PROVE IdleIsIdle'
  <2>1. ASSUME NEW u \in Users, Pause(c, u) PROVE IdleIsIdle'
    BY <1>1, <2>1 DEF Pause
  <2>2. ASSUME NEW u \in Users, Resume(c, u) PROVE IdleIsIdle'
    BY <1>1, <2>2 DEF Resume
  <2>3. ASSUME FindPausedSessions(c) PROVE IdleIsIdle'
    BY <1>4, <2>3 DEF FindPausedSessions
  <2>4. ASSUME OpenPauseGaps(c) \/ ClosePauseGaps(c) PROVE IdleIsIdle'
    BY <1>2, <2>4 DEF OpenPauseGaps, ClosePauseGaps
  <2>5. QED
    BY <1>7, <2>1, <2>2, <2>3, <2>4 DEF PauseStep
<1>8. ASSUME NEW c \in Requests, CapStep(c) PROVE IdleIsIdle'
  <2>1. ASSUME NEW s \in Sessions, CheckCap(c, s) PROVE IdleIsIdle'
    <3>1. PICK pc \in {"capped", "storing"} : Begin(c, pc, {s}, {}, "none")
      BY <2>1 DEF CheckCap
    <3>2. QED
      BY <1>1, <3>1
  <2>2. ASSUME FindCappedSession(c) PROVE IdleIsIdle'
    BY <1>4, <2>2 DEF FindCappedSession
  <2>3. ASSUME OpenCapGap(c) \/ StoreUnderCap(c) PROVE IdleIsIdle'
    BY <1>2, <2>3 DEF OpenCapGap, StoreUnderCap
  <2>4. QED
    BY <1>8, <2>1, <2>2, <2>3 DEF CapStep
<1>9. ASSUME NEW u \in Users, CapMoves(u) PROVE IdleIsIdle'
  BY <1>3, <1>9 DEF CapMoves
<1>10. ASSUME Crash PROVE IdleIsIdle'
  BY <1>10 DEF Crash, IdleIsIdle
<1>11. ASSUME UNCHANGED vars PROVE IdleIsIdle'
  BY <1>3, <1>11 DEF vars
<1>12. QED
  BY <1>5, <1>6, <1>7, <1>8, <1>9, <1>10, <1>11 DEF Next

\* Every step, of the only request there is.
LEMMA NextSerial ==
    ASSUME IInv, Serial, IdleIsIdle, [Next]_vars, \A c, d \in Requests : c = d
    PROVE  Serial' /\ Flagged
<1>1. ASSUME NEW c \in Requests, SessionStep(c) \/ HaltStep(c) \/ PauseStep(c) \/ CapStep(c)
      PROVE  Serial' /\ Flagged
  <2>1. Requests = {c}
    OBVIOUS
  <2>2. QED
    BY <1>1, <2>1, SessionSerial, HaltSerial, OtherSerial
<1>2. ASSUME NEW u \in Users, CapMoves(u) PROVE Serial' /\ Flagged
  BY <1>2 DEF CapMoves, Serial, OneGap, Found, Open, Flagged
<1>3. ASSUME Crash PROVE Serial' /\ Flagged
  <2>1. UNCHANGED <<status, halted, gaps>> /\ \A c \in Requests : request'[c] = Idle
    BY <1>3 DEF Crash
  <2>2. Serial'
    BY <2>1 DEF Serial, OneGap, Found, Idle
  <2>3. QED
    BY <2>1, <2>2, NothingFlagged
<1>4. ASSUME UNCHANGED vars PROVE Serial' /\ Flagged
  BY <1>4 DEF vars, Serial, OneGap, Found, Open, Flagged
<1>5. QED
  BY <1>1, <1>2, <1>3, <1>4 DEF Next

\* The serial invariant holds from the start.
LEMMA InitSerial == Init => Serial /\ IdleIsIdle
BY DEF Init, Serial, OneGap, Found, Open, Idle, IdleIsIdle

\* While requests do not overlap a Session has at most one open gap (block.ts:103):
\* the one opened first owns the window, through halts, pauses, losses, evictions,
\* the daily cap and crashes.
THEOREM OneGapSerially ==
    ASSUME \A c, d \in Requests : c = d
    PROVE  Spec => []SingleOpenGap
<1>1. IInv /\ Serial /\ IdleIsIdle /\ [Next]_vars => Serial' /\ IdleIsIdle'
  BY NextSerial, IdleKept
<1>2. Serial => SingleOpenGap
  <2> SUFFICES ASSUME Serial, NEW s \in Sessions
               PROVE  /\ Cardinality({r \in GapReason : gaps[s][r] > 0}) <= 1
                      /\ \A r \in GapReason : gaps[s][r] <= 1
    BY DEF SingleOpenGap
  <2> DEFINE open == {r \in GapReason : gaps[s][r] > 0}
  <2>1. open = {} \/ \E r : open = {r}
    BY DEF Serial, OneGap
  <2> HIDE DEF open
  <2>2. Cardinality(open) <= 1
    <3>1. CASE open = {}
      BY <3>1, FS_EmptySet
    <3>2. CASE open # {}
      <4>1. PICK r : open = {r}
        BY <2>1, <3>2
      <4>2. Cardinality({r}) = 1
        BY FS_Singleton
      <4>3. QED
        BY <4>1, <4>2
    <3>3. QED
      BY <3>1, <3>2
  <2>3. \A r \in GapReason : gaps[s][r] <= 1
    BY DEF Serial, OneGap
  <2>4. QED
    BY <2>2, <2>3 DEF open
<1>3. QED
  BY CoverageInvariant, InitSerial, <1>1, <1>2, PTL DEF Spec

\* While requests do not overlap, lost coverage is flagged from the moment it is
\* lost: a Session that leaves "connected" (connections.ts) and every Session when
\* the product halts (halt.ts) has an open gap.
THEOREM LossFlaggedSerially ==
    ASSUME \A c, d \in Requests : c = d
    PROVE  Spec => LossOpensGap
<1>1. IInv /\ Serial /\ IdleIsIdle /\ [Next]_vars => Serial' /\ IdleIsIdle'
  BY NextSerial, IdleKept
<1>2. IInv /\ Serial /\ IdleIsIdle /\ [Next]_vars => [Flagged]_vars
  BY NextSerial
<1>3. QED
  BY CoverageInvariant, InitSerial, <1>1, <1>2, PTL DEF Spec, LossOpensGap, Flagged
=============================================================================
