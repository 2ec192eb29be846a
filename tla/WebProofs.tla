------------------------------ MODULE WebProofs ------------------------------
(***************************************************************************)
(* Proofs about signing in (SignIn), an Account's data key (AccountKeys),  *)
(* the controls of the pages (Pages) and the Operator's console            *)
(* (Operator), for any number of browsers, writers, crashes and            *)
(* overlapping requests: a code that let a browser in is consumed, terms   *)
(* come before a session, a key outlives the process that cached it, a     *)
(* control at rest shows what is stored, a Plan goes to the Account on the *)
(* page, and a queue lists no Account that has revoked its opt-in.         *)
(***************************************************************************)
EXTENDS SignIn, AccountKeys, Pages, Operator, TLAPS

-----------------------------------------------------------------------------
(* Signing in. *)

\* Codes are issued in order and none is used before it is issued.
CodesInOrder ==
  /\ code <= issued
  /\ \A e \in entered : e[1] <= issued
  /\ \A b \in Browsers : held[b] <= issued

\* An address without a row has no code, no token, and nobody on the way to one.
OnlyTheKnown ==
  ~ known => /\ code = 0 /\ token = 0
             /\ \A b \in Browsers : at[b] \notin {"attest", "issue", "mint"}

\* Until the process dies, a row of users is attested or its signup is about to.
SignupUnderWay ==
  known => attested \/ deaths > 0 \/ \E b \in Browsers : at[b] = "attest"

SignInv == SignInTypeOK /\ CodesInOrder /\ CodeConsumed /\ OnlyTheKnown /\ SignupUnderWay

\* The types, without the two flags.
SignColumns ==
  /\ code \in Nat /\ issued \in Nat /\ token \in Nat /\ minted \in Nat
  /\ asks \in Nat /\ deaths \in Nat
  /\ at \in [Browsers -> Places]
  /\ held \in [Browsers -> Nat] /\ cookie \in [Browsers -> Nat]
  /\ mailed \subseteq Nat /\ entered \subseteq Nat \X Browsers

LEMMA SignInit == SignInInit => SignInv
<1> SUFFICES ASSUME SignInInit PROVE SignInv
  OBVIOUS
<1>1. known \in BOOLEAN /\ attested \in BOOLEAN
  BY Zenon DEF SignInInit
<1>2. SignColumns
  BY DEF SignInInit, SignColumns, Places
<1>3. CodesInOrder /\ CodeConsumed /\ OnlyTheKnown /\ SignupUnderWay
  BY DEF SignInInit, CodesInOrder, CodeConsumed, OnlyTheKnown, SignupUnderWay
<1> QED
  BY <1>1, <1>2, <1>3, Zenon DEF SignInv, SignInTypeOK, SignColumns

\* The type invariant is inductive: every handler keeps the columns in range.
LEMMA SignTyped == SignInTypeOK /\ SignInNext => SignInTypeOK'
<1> SUFFICES ASSUME SignInTypeOK, SignInNext PROVE SignInTypeOK'
  OBVIOUS
<1>a. SignColumns
  BY Zenon DEF SignInTypeOK, SignColumns
<1>b. known' \in BOOLEAN /\ attested' \in BOOLEAN
  BY Zenon DEF SignInTypeOK, SignInNext, ExpireCode, ExpireToken, Die, Throttled, signup,
     recordAttestation, login, issueCode, SendCode, Back, verify, Mint, MintLeaving, SessionEnded,
     logout, SignOut, user
<1>6. SignColumns'
  <2> USE <1>a DEF SignColumns, user, tokens
  <2>1. ASSUME NEW b \in Browsers, Throttled(b) PROVE SignColumns'
    BY <2>1 DEF Throttled, Move, Places
  <2>2. ASSUME NEW b \in Browsers, signup(b) PROVE SignColumns'
    BY <2>2 DEF signup, Move, Places
  <2>3. ASSUME NEW b \in Browsers, recordAttestation(b) PROVE SignColumns'
    BY <2>3 DEF recordAttestation, Move, Places
  <2>4. ASSUME NEW b \in Browsers, login(b) PROVE SignColumns'
    BY <2>4 DEF login, Move, Places
  <2>5. ASSUME NEW b \in Browsers, issueCode(b) PROVE SignColumns'
    BY <2>5 DEF issueCode, Move, Places
  <2>6. ASSUME NEW b \in Browsers, SendCode(b) PROVE SignColumns'
    BY <2>6 DEF SendCode, Move, Places
  <2>7. ASSUME NEW b \in Browsers, Back(b) PROVE SignColumns'
    BY <2>7 DEF Back, Move, Places
  <2>8. ASSUME NEW b \in Browsers, verify(b) PROVE SignColumns'
    BY <2>8 DEF verify, Move, Places
  <2>9. ASSUME NEW b \in Browsers, Mint(b) PROVE SignColumns'
    <3>1. at' \in [Browsers -> Places] /\ held[b] \in Nat
      BY <2>9 DEF Mint, MintLeaving, Move, Places
    <3>2. held' \in [Browsers -> Nat] /\ cookie' \in [Browsers -> Nat]
      BY <2>9 DEF Mint, MintLeaving
    <3>3. code' \in Nat /\ token' \in Nat /\ minted' \in Nat
      BY <2>9 DEF Mint, MintLeaving
    <3>4. entered' \subseteq Nat \X Browsers
      BY <2>9, <3>1 DEF Mint, MintLeaving
    <3> QED
      BY <2>9, <3>1, <3>2, <3>3, <3>4 DEF Mint, MintLeaving
  <2>10. ASSUME NEW b \in Browsers, SessionEnded(b) PROVE SignColumns'
    BY <2>10 DEF SessionEnded, Move, Places
  <2>11. ASSUME NEW b \in Browsers, logout(b) PROVE SignColumns'
    BY <2>11 DEF logout, Move, Places
  <2>12. ASSUME NEW b \in Browsers, SignOut(b) PROVE SignColumns'
    BY <2>12 DEF SignOut, Move, Places
  <2>13. CASE ExpireCode
    BY <2>13 DEF ExpireCode
  <2>14. CASE ExpireToken
    BY <2>14 DEF ExpireToken
  <2>15. CASE Die
    <3>1. at' \in [Browsers -> Places]
      BY <2>15 DEF Die, Places
    <3> QED
      BY <2>15, <3>1 DEF Die
  <2> HIDE DEF SignColumns
  <2> QED
    BY <2>1, <2>2, <2>3, <2>4, <2>5, <2>6, <2>7, <2>8, <2>9, <2>10,
       <2>11, <2>12, <2>13, <2>14, <2>15 DEF SignInNext
<1> QED
  BY <1>b, <1>6, Zenon DEF SignInTypeOK, SignColumns

\* A code is new when it is issued, and a token takes its code with it.
LEMMA CodesKept ==
    ASSUME SignInv, SignInNext
    PROVE  CodesInOrder' /\ CodeConsumed'
<1> USE DEF SignInv, SignInTypeOK, CodesInOrder, CodeConsumed, user, tokens
<1>1. CASE \/ ExpireCode \/ ExpireToken \/ Die
  BY <1>1 DEF ExpireCode, ExpireToken, Die
<1>2. ASSUME NEW b \in Browsers, Throttled(b) \/ signup(b) \/ recordAttestation(b) \/ login(b)
                                 \/ Back(b) \/ SessionEnded(b) \/ logout(b) \/ SignOut(b)
      PROVE CodesInOrder' /\ CodeConsumed'
  <2>1. UNCHANGED <<code, issued, held, entered>>
    BY <1>2 DEF Throttled, signup, recordAttestation, login, Back, SessionEnded, logout, SignOut
  <2>2. \A a \in Browsers : at'[a] = "mint" => at[a] = "mint"
    BY <1>2 DEF Throttled, signup, recordAttestation, login, Back, SessionEnded, logout, SignOut, Move
  <2> QED
    BY <2>1, <2>2
<1>3. ASSUME NEW b \in Browsers, issueCode(b) PROVE CodesInOrder' /\ CodeConsumed'
  <2>1. /\ issued' = issued + 1 /\ code' = issued + 1 /\ entered' = entered
        /\ held' = [held EXCEPT ![b] = issued + 1]
        /\ \A a \in Browsers : at'[a] = "mint" => at[a] = "mint" /\ a # b
    BY <1>3 DEF issueCode, Move
  <2>2. \A e \in entered : e[1] \in Nat /\ e[1] <= issued
    OBVIOUS
  <2>3. \A a \in Browsers : held'[a] <= issued'
    BY <2>1
  <2>4. \A a \in Browsers : <<issued + 1, a>> \notin entered
    BY <2>2
  <2>5. CodeConsumed'
    BY <2>1, <2>4
  <2>6. \A e \in entered' : e[1] <= issued'
    BY <2>1, <2>2
  <2> QED
    BY <2>1, <2>3, <2>5, <2>6
<1>4. ASSUME NEW b \in Browsers, SendCode(b) \/ verify(b)
      PROVE CodesInOrder' /\ CodeConsumed'
  <2>1. /\ issued' = issued /\ code' = code /\ entered' = entered
        /\ \/ held' = [held EXCEPT ![b] = 0] /\ at'[b] # "mint"
           \/ held' = [held EXCEPT ![b] = code] /\ code # 0
        /\ \A a \in Browsers : a # b => at'[a] = at[a]
    BY <1>4 DEF SendCode, verify, Move
  <2> QED
    BY <2>1
<1>5. ASSUME NEW b \in Browsers, Mint(b) PROVE CodesInOrder' /\ CodeConsumed'
  <2>1. /\ issued' = issued /\ code' = 0 /\ entered' = entered \cup {<<held[b], b>>}
        /\ held' = [held EXCEPT ![b] = 0] /\ at' = [at EXCEPT ![b] = "in"]
    BY <1>5 DEF Mint, MintLeaving, Move
  <2>2. CodesInOrder'
    BY <2>1
  <2>3. \A a \in Browsers : at'[a] = "mint" => a # b /\ at[a] = "mint" /\ held'[a] = held[a]
    BY <2>1
  <2>4. CodeConsumed'
    BY <2>1, <2>3
  <2> QED
    BY <2>2, <2>4
<1> QED
  BY <1>1, <1>2, <1>3, <1>4, <1>5 DEF SignInNext

\* Only a row that exists is sent a code, and only a code earns a token.
LEMMA KnownKept == SignInv /\ SignInNext => OnlyTheKnown'
<1> SUFFICES ASSUME SignInv, SignInNext PROVE OnlyTheKnown'
  OBVIOUS
<1> USE DEF SignInv, SignInTypeOK, OnlyTheKnown, user, tokens
<1>1. CASE ExpireCode \/ ExpireToken
  <2>1. CASE ExpireCode
    BY <2>1 DEF ExpireCode
  <2>2. CASE ExpireToken
    BY <2>2 DEF ExpireToken
  <2> QED
    BY <1>1, <2>1, <2>2
<1>2. CASE Die
  BY <1>2 DEF Die
<1>3. ASSUME NEW b \in Browsers, Throttled(b) \/ Back(b) \/ SendCode(b) \/ SessionEnded(b)
                                 \/ logout(b) \/ SignOut(b)
      PROVE OnlyTheKnown'
  BY <1>3 DEF Throttled, Back, SendCode, SessionEnded, logout, SignOut, Move
<1>4. ASSUME NEW b \in Browsers, signup(b) \/ login(b) PROVE OnlyTheKnown'
  <2>1. CASE signup(b)
    BY <2>1 DEF signup
  <2>2. CASE login(b)
    BY <2>2 DEF login, Move
  <2> QED
    BY <1>4, <2>1, <2>2
<1>5. ASSUME NEW b \in Browsers, recordAttestation(b) \/ issueCode(b) \/ verify(b) \/ Mint(b)
      PROVE OnlyTheKnown'
  BY <1>5 DEF recordAttestation, issueCode, verify, Mint, MintLeaving, Move
<1> QED
  BY <1>1, <1>2, <1>3, <1>4, <1>5 DEF SignInNext

\* The row and its Attestation are two statements of one request.
LEMMA SignupKept == SignInv /\ SignInNext => SignupUnderWay'
<1> SUFFICES ASSUME SignInv, SignInNext, known' PROVE
        attested' \/ deaths' > 0 \/ \E b \in Browsers : at'[b] = "attest"
  BY DEF SignupUnderWay
<1> USE DEF SignInv, SignInTypeOK, SignupUnderWay, user, tokens
<1>1. CASE ExpireCode \/ ExpireToken
  BY <1>1 DEF ExpireCode, ExpireToken
<1>2. CASE Die
  BY <1>2 DEF Die
<1>3. ASSUME NEW b \in Browsers, signup(b) \/ recordAttestation(b)
      PROVE attested' \/ at'[b] = "attest"
  BY <1>3 DEF signup, recordAttestation, Move
<1>4. ASSUME NEW b \in Browsers, at[b] # "attest", NEW to, at' = [at EXCEPT ![b] = to],
             UNCHANGED <<known, attested, deaths>>
      PROVE attested' \/ deaths' > 0 \/ \E a \in Browsers : at'[a] = "attest"
  BY <1>4
<1>5. ASSUME NEW b \in Browsers, Throttled(b) \/ login(b) \/ issueCode(b) \/ SendCode(b)
      PROVE attested' \/ deaths' > 0 \/ \E a \in Browsers : at'[a] = "attest"
  BY <1>4, <1>5 DEF Throttled, login, issueCode, SendCode, Move
<1>6. ASSUME NEW b \in Browsers, Back(b) \/ verify(b) \/ Mint(b) \/ SessionEnded(b)
                                 \/ logout(b) \/ SignOut(b)
      PROVE attested' \/ deaths' > 0 \/ \E a \in Browsers : at'[a] = "attest"
  BY <1>4, <1>6 DEF Back, verify, Mint, MintLeaving, SessionEnded, logout, SignOut, Move
<1> QED
  BY <1>1, <1>2, <1>3, <1>5, <1>6 DEF SignInNext

LEMMA SignNext == SignInv /\ [SignInNext]_signInVars => SignInv'
<1>1. CASE SignInNext
  BY <1>1, SignTyped, CodesKept, KnownKept, SignupKept DEF SignInv
<1>2. CASE UNCHANGED signInVars
  BY <1>2 DEF signInVars, SignInv, SignInTypeOK, CodesInOrder, CodeConsumed, OnlyTheKnown,
              SignupUnderWay
<1> QED
  BY <1>1, <1>2

\* The inductive invariant of signing in (accounts.ts signup, login, verify).
THEOREM SignInInvariant == SignInSpec => []SignInv
BY SignInit, SignNext, PTL DEF SignInSpec

\* Verifying consumes the code (accounts.ts verify): whatever overlaps between its
\* SELECT and its UPDATE, a code that has let one browser in lets in only others that
\* had read it before, and none of them twice.
THEOREM CodeSharedOnlyByOverlap == SignInSpec => []CodeConsumed
<1>1. SignInv => CodeConsumed
  BY DEF SignInv
<1> QED
  BY <1>1, SignInInvariant, PTL

\* No session without affirmed terms (the signup route of app.ts), but for the
\* crash or the overtaking login between the row and its Attestation.
THEOREM TermsFirst == SignInSpec => []TermsBeforeSession
<1>1. SignInv => TermsBeforeSession
  BY DEF SignInv, OnlyTheKnown, SignupUnderWay, TermsBeforeSession
<1> QED
  BY <1>1, SignInInvariant, PTL

-----------------------------------------------------------------------------
(* The data key. *)

\* The keys that the row holds or that an open transaction has written there.
Live == {k \in Nat \ {0} : k = wrapped \/ \E w \in Writers : tx[w].minted = k}

\* The lock of the row: one minter, of an Account that has no key yet.
OneMinter ==
  \A w \in Writers : tx[w].minted # 0 =>
    /\ tx[w].at = "keyed" /\ wrapped = 0
    /\ \A v \in Writers : tx[v].minted # 0 => v = w

\* Whatever encrypts, or has, does so under a live key, and so does the cache.
UnderLiveKeys ==
  /\ cached # 0 => cached \in Live
  /\ \A w \in Writers : tx[w].at = "keyed" => tx[w].using \in Live
  /\ bodies \subseteq Live

KeysInv == KeysTypeOK /\ OneMinter /\ (unminted \/ UnderLiveKeys)

LEMMA KeysInitInv == KeysInit => KeysInv
<1> SUFFICES ASSUME KeysInit PROVE KeysInv
  OBVIOUS
<1>1. unminted \in BOOLEAN /\ unminted = FALSE
  BY Zenon DEF KeysInit
<1> QED
  BY <1>1 DEF KeysInit, KeysInv, KeysTypeOK, NoTx, OneMinter, UnderLiveKeys, Live

\* A step that changes no key keeps the live ones.
LEMMA LiveSame ==
    ASSUME wrapped' = wrapped, \A w \in Writers : tx'[w].minted = tx[w].minted
    PROVE  Live' = Live
BY DEF Live

\* What a writer's step makes of its transaction.
LEMMA TxTyped ==
    ASSUME KeysTypeOK, NEW w \in Writers, NEW a \in {"none", "begun", "asking", "keyed"},
           NEW m \in Nat, NEW u \in Nat, tx' = [tx EXCEPT ![w] = [at |-> a, minted |-> m, using |-> u]]
    PROVE  /\ tx' \in [Writers -> [at : {"none", "begun", "asking", "keyed"}, minted : Nat, using : Nat]]
           /\ tx'[w].at = a /\ tx'[w].minted = m /\ tx'[w].using = u
           /\ \A v \in Writers : v # w => tx'[v] = tx[v]
BY DEF KeysTypeOK

\* Beginning, and finding no entry in the cache.
LEMMA BeginKeeps ==
    ASSUME KeysInv, NEW w \in Writers, Begin(w) \/ MissKey(w)
    PROVE  KeysInv'
<1> USE DEF KeysInv
<1>1. /\ UNCHANGED <<wrapped, cached, keys, bodies, unminted, boots>>
      /\ tx[w].minted = 0
      /\ \E a \in {"begun", "asking"} :
           tx' = [tx EXCEPT ![w] = [at |-> a, minted |-> 0, using |-> tx[w].using]]
  BY DEF Begin, MissKey, NoTx, KeysTypeOK, OneMinter
<1>2. PICK a \in {"begun", "asking"} :
         tx' = [tx EXCEPT ![w] = [at |-> a, minted |-> 0, using |-> tx[w].using]]
  BY <1>1
<1>3. tx[w].using \in Nat
  BY DEF KeysTypeOK
<1>4. /\ tx' \in [Writers -> [at : {"none", "begun", "asking", "keyed"}, minted : Nat, using : Nat]]
      /\ tx'[w].at = a /\ tx'[w].minted = 0
      /\ \A v \in Writers : v # w => tx'[v] = tx[v]
  BY <1>2, <1>3, TxTyped
<1>5. KeysTypeOK'
  BY <1>1, <1>4 DEF KeysTypeOK
<1>6. OneMinter'
  BY <1>1, <1>4 DEF OneMinter
<1>7. Live' = Live
  BY <1>1, <1>4, LiveSame
<1>8. ASSUME UnderLiveKeys PROVE UnderLiveKeys'
  BY <1>1, <1>4, <1>7, <1>8 DEF UnderLiveKeys
<1> QED
  BY <1>1, <1>5, <1>6, <1>8

\* A key found, in the cache or in the row, is used and not minted.
LEMMA FoundKeyKeeps ==
    ASSUME KeysInv, NEW w \in Writers, NEW k \in Nat, k # 0,
           tx[w].minted = 0, k = cached \/ k = wrapped,
           tx' = [tx EXCEPT ![w] = [at |-> "keyed", minted |-> 0, using |-> k]],
           cached' = k, UNCHANGED <<wrapped, keys, bodies, unminted, boots>>
    PROVE  KeysInv'
<1> USE DEF KeysInv
<1>1. tx \in [Writers -> [at : {"none", "begun", "asking", "keyed"}, minted : Nat, using : Nat]]
  BY DEF KeysTypeOK
<1>2. /\ tx' \in [Writers -> [at : {"none", "begun", "asking", "keyed"}, minted : Nat, using : Nat]]
      /\ tx'[w].at = "keyed" /\ tx'[w].minted = 0 /\ tx'[w].using = k
      /\ \A v \in Writers : v # w => tx'[v] = tx[v]
  BY <1>1
<1>3. KeysTypeOK'
  BY <1>2 DEF KeysTypeOK
<1>4. OneMinter'
  BY <1>2 DEF OneMinter
<1>5. Live' = Live
  BY <1>2, LiveSame
<1>6. ASSUME UnderLiveKeys PROVE UnderLiveKeys'
  <2>1. k \in Live
    BY <1>6 DEF UnderLiveKeys, Live
  <2> QED
    BY <1>2, <1>5, <1>6, <2>1 DEF UnderLiveKeys
<1> QED
  BY <1>3, <1>4, <1>6

\* A key minted where the row holds none and nobody else is minting.
LEMMA MintedKeyKeeps ==
    ASSUME KeysInv, NEW w \in Writers, ~ RowLocked, wrapped = 0,
           UseKey(w, keys + 1, TRUE), keys' = keys + 1, cached' = keys + 1,
           UNCHANGED <<wrapped, bodies, unminted, boots>>
    PROVE  KeysInv'
<1> USE DEF KeysInv
<1> DEFINE k == keys + 1
<1>1. k \in Nat /\ k # 0
  BY DEF KeysTypeOK
<1>2. keys' = k /\ cached' = k /\ tx' = [tx EXCEPT ![w] = [at |-> "keyed", minted |-> k, using |-> k]]
  BY DEF UseKey
<1> HIDE DEF k
<1>3. /\ tx' \in [Writers -> [at : {"none", "begun", "asking", "keyed"}, minted : Nat, using : Nat]]
      /\ tx'[w].at = "keyed" /\ tx'[w].minted = k /\ tx'[w].using = k
      /\ \A v \in Writers : v # w => tx'[v] = tx[v]
  BY <1>1, <1>2, TxTyped
<1>4. KeysTypeOK'
  BY <1>1, <1>2, <1>3 DEF KeysTypeOK
<1>5. OneMinter'
  BY <1>3 DEF OneMinter, RowLocked
<1>6. k \in Live'
  BY <1>1, <1>3 DEF Live
<1>7. Live \subseteq Live'
  <2> SUFFICES ASSUME NEW j \in Live PROVE FALSE
    OBVIOUS
  <2> QED
    BY DEF Live, RowLocked
<1>8. ASSUME UnderLiveKeys PROVE UnderLiveKeys'
  BY <1>2, <1>3, <1>6, <1>7, <1>8 DEF UnderLiveKeys
<1> QED
  BY <1>4, <1>5, <1>8

\* The minted key moves from the transaction to the row.
LEMMA CommitKeeps ==
    ASSUME KeysInv, NEW w \in Writers, CommitBody(w) \/ CommitKey(w)
    PROVE  KeysInv'
<1> USE DEF KeysInv
<1>1. /\ UNCHANGED <<cached, keys, unminted, boots>> /\ tx[w].at = "keyed"
      /\ wrapped' = IF tx[w].minted # 0 THEN tx[w].minted ELSE wrapped
      /\ bodies' = bodies \cup {tx[w].using} \/ bodies' = bodies
      /\ \E a \in {"none", "keyed"}, u \in {0, tx[w].using} :
           /\ a = "keyed" => u = tx[w].using
           /\ tx' = [tx EXCEPT ![w] = [at |-> a, minted |-> 0, using |-> u]]
  <2>1. CASE CommitBody(w)
    BY <2>1 DEF CommitBody, NoTx
  <2>2. CASE CommitKey(w)
    <3>1. tx[w].at = "keyed" /\ tx' = [tx EXCEPT ![w] = [at |-> "keyed", minted |-> 0, using |-> tx[w].using]]
      <4>1. tx[w].at = "keyed"
        BY <2>2 DEF CommitKey, OneMinter
      <4>2. tx[w] = [at |-> "keyed", minted |-> tx[w].minted, using |-> tx[w].using]
        BY <4>1 DEF KeysTypeOK
      <4> QED
        <5>1. tx' = [tx EXCEPT ![w].minted = 0]
          BY <2>2 DEF CommitKey
        <5>2. tx \in [Writers -> [at : {"none", "begun", "asking", "keyed"}, minted : Nat,
                                  using : Nat]]
          BY DEF KeysTypeOK
        <5>3. [tx[w] EXCEPT !.minted = 0] = [at |-> "keyed", minted |-> 0, using |-> tx[w].using]
          BY <4>1, <5>2
        <5> QED
          BY <4>1, <5>1, <5>2, <5>3
    <3> QED
      BY <2>2, <3>1 DEF CommitKey
  <2> QED
    BY <2>1, <2>2
<1>2. PICK a \in {"none", "keyed"}, u \in {0, tx[w].using} :
         /\ a = "keyed" => u = tx[w].using
         /\ tx' = [tx EXCEPT ![w] = [at |-> a, minted |-> 0, using |-> u]]
  BY <1>1
<1>3. tx[w].using \in Nat /\ tx[w].minted \in Nat /\ wrapped' \in Nat /\ u \in Nat
  BY <1>1 DEF KeysTypeOK
<1>4. /\ tx' \in [Writers -> [at : {"none", "begun", "asking", "keyed"}, minted : Nat, using : Nat]]
      /\ tx'[w].at = a /\ tx'[w].minted = 0 /\ tx'[w].using = u
      /\ \A v \in Writers : v # w => tx'[v] = tx[v]
  BY <1>2, <1>3, TxTyped
<1>5. KeysTypeOK'
  BY <1>1, <1>3, <1>4 DEF KeysTypeOK
<1>6. OneMinter'
  BY <1>1, <1>4 DEF OneMinter
<1>7. Live \subseteq Live'
  BY <1>1, <1>4 DEF Live, OneMinter
<1>8. ASSUME UnderLiveKeys PROVE UnderLiveKeys'
  <2>1. tx[w].using \in Live
    BY <1>1, <1>8 DEF UnderLiveKeys
  <2> QED
    BY <1>1, <1>2, <1>4, <1>7, <1>8, <2>1 DEF UnderLiveKeys
<1> QED
  BY <1>1, <1>5, <1>6, <1>8

\* Rolling back loses a key only where it was minted.
LEMMA RollbackKeeps ==
    ASSUME KeysInv, NEW w \in Writers, RollbackBody(w)
    PROVE  KeysInv'
<1> USE DEF KeysInv
<1>1. /\ UNCHANGED <<wrapped, cached, keys, bodies, boots>>
      /\ unminted' = (unminted \/ tx[w].minted # 0)
      /\ tx' = [tx EXCEPT ![w] = [at |-> "none", minted |-> 0, using |-> 0]]
  BY DEF RollbackBody, NoTx
<1>2. /\ tx' \in [Writers -> [at : {"none", "begun", "asking", "keyed"}, minted : Nat, using : Nat]]
      /\ tx'[w].at = "none" /\ tx'[w].minted = 0
      /\ \A v \in Writers : v # w => tx'[v] = tx[v]
  BY <1>1, TxTyped
<1>3. KeysTypeOK'
  BY <1>1, <1>2 DEF KeysTypeOK
<1>4. OneMinter'
  BY <1>1, <1>2 DEF OneMinter
<1>5. ASSUME UnderLiveKeys, tx[w].minted = 0 PROVE UnderLiveKeys'
  <2>1. Live' = Live
    BY <1>1, <1>2, <1>5, LiveSame
  <2> QED
    BY <1>1, <1>2, <1>5, <2>1 DEF UnderLiveKeys
<1> QED
  BY <1>1, <1>3, <1>4, <1>5

LEMMA KeysNextInv == KeysInv /\ [KeysNext]_keysVars => KeysInv'
<1> SUFFICES ASSUME KeysInv, [KeysNext]_keysVars PROVE KeysInv'
  OBVIOUS
<1>1. CASE Reboot
  <2>1. KeysTypeOK' /\ OneMinter'
    BY <1>1 DEF Reboot, KeysInv, KeysTypeOK, OneMinter, NoTx, RowLocked
  <2>2. ASSUME UnderLiveKeys, ~ RowLocked PROVE UnderLiveKeys'
    <3>1. Live' = Live
      BY <1>1, <2>2 DEF Reboot, NoTx, RowLocked, Live
    <3> QED
      BY <1>1, <2>2, <3>1 DEF Reboot, NoTx, UnderLiveKeys
  <2> QED
    BY <1>1, <2>1, <2>2 DEF KeysInv, Reboot
<1>2. ASSUME NEW w \in Writers, CachedKey(w) PROVE KeysInv'
  <2>1. tx[w].minted = 0 /\ cached \in Nat
    BY <1>2 DEF CachedKey, KeysInv, OneMinter, KeysTypeOK
  <2> QED
    BY <1>2, <2>1, FoundKeyKeeps DEF CachedKey, UseKey
<1>3. ASSUME NEW w \in Writers, accountKey(w) PROVE KeysInv'
  <2>1. tx[w].minted = 0 /\ wrapped \in Nat
    BY <1>3 DEF accountKey, AskRow, KeysInv, OneMinter, KeysTypeOK
  <2> QED
    BY <1>3, <2>1, FoundKeyKeeps, MintedKeyKeeps DEF accountKey, AskRow, UseKey
<1>4. CASE UNCHANGED keysVars
  BY <1>4 DEF keysVars, KeysInv, KeysTypeOK, OneMinter, UnderLiveKeys, Live
<1> QED
  BY <1>1, <1>2, <1>3, <1>4, BeginKeeps, CommitKeeps, RollbackKeeps DEF KeysNext

\* The inductive invariant of the data key (accountKey in accounts.ts).
THEOREM KeysInvariant == KeysSpec => []KeysInv
BY KeysInitInv, KeysNextInv, PTL DEF KeysSpec

\* Every stored body can be read with the Account's key (accounts.ts accountKey),
\* over racing minters, a cache that outlives transactions, and restarts, as
\* long as no transaction that minted the key was rolled back.
THEOREM KeyOutlivesProcess == KeysSpec => []ReadableUnlessUnminted
<1>1. KeysInv => ReadableUnlessUnminted
  <2> SUFFICES ASSUME KeysInv, ~ unminted PROVE BodiesReadable
    BY DEF ReadableUnlessUnminted
  <2> QED
    BY DEF KeysInv, UnderLiveKeys, Live, BodiesReadable
<1> QED
  BY <1>1, KeysInvariant, PTL

-----------------------------------------------------------------------------
(* The controls. *)

Req == [op : {"load", "save"}, val : Nat, at : {"out", "back"},
        reply : {"none", "ok", "refused", "lost"}, alone : BOOLEAN]

\* What is stored, shown and asked for; a switch is 0 or 1 everywhere.
PagesTyped ==
  /\ panel \in Panels /\ stored \in Nat /\ face \in Nat \cup {Nothing}
  /\ flight \in [Requests -> Req \cup {Unsent}]
  /\ panel \notin Boxes =>
       /\ stored \in 0 .. 1 /\ face \in {0, 1, Nothing}
       /\ \A r \in Requests : flight[r] # Unsent => flight[r].val \in 0 .. 1

\* An answer asked for alone is the only one, and is what is stored.
Sound ==
  \A r \in Requests : flight[r] # Unsent /\ flight[r].alone =>
    /\ \A q \in Requests : q # r => flight[q] = Unsent
    /\ flight[r].at = "back" /\ flight[r].reply = "ok" => flight[r].val = stored

\* The checkbox of the review is drawn, and out of reach, while its request is out.
OneTick ==
  panel = "quality" => \A r \in Requests : flight[r] # Unsent =>
    /\ barred /\ (flight[r].op = "save" => face \in 0 .. 1)
    /\ \A q \in Requests : q # r => flight[q] = Unsent

\* The browser ticks the box before the answer is there.
Ticked == panel = "quality" /\ \E r \in Requests : flight[r].op = "save"

\* The face is right, or was and the tick is on its way.
Showing == typed \/ IF Ticked THEN face = 1 - stored ELSE face \in {stored, Nothing}

\* A request whose answer, whatever it is, puts the face right or in doubt.
Settling(r) ==
  \/ /\ flight[r].op = "save"
     /\ panel = "group" \/ (flight[r].at = "back" /\ flight[r].reply \in {"ok", "lost"})
  \/ flight[r].op = "load" /\ panel \in {"group", "schedule", "plan"}

Truthful == astray \/ Showing \/ \E r \in Requests : Settling(r)

PageInv == PagesTyped /\ Sound /\ OneTick /\ Truthful

-----------------------------------------------------------------------------
(* What the steps make of the requests. *)

LEMMA ReqFields ==
    ASSUME NEW x \in Req
    PROVE  /\ x # Unsent /\ x.op \in {"load", "save"} /\ x.val \in Nat /\ x.at \in {"out", "back"}
           /\ x.reply \in {"none", "ok", "refused", "lost"} /\ x.alone \in BOOLEAN
           /\ x = [op |-> x.op, val |-> x.val, at |-> x.at, reply |-> x.reply, alone |-> x.alone]
<1>1. x.op \in {"load", "save"} /\ Unsent.op = "none"
  BY DEF Req, Unsent
<1> QED
  BY <1>1 DEF Req

LEMMA UnsentOp == Unsent.op = "none"
BY DEF Unsent

\* An answer comes for r, which is out.
LEMMA Answered ==
    ASSUME PagesTyped, NEW r \in Requests, flight[r] # Unsent,
           NEW reply \in {"ok", "refused", "lost"}, NEW val \in Nat, NEW sound \in BOOLEAN,
           AnswerWith(r, reply, val, sound)
    PROVE  /\ flight' \in [Requests -> Req \cup {Unsent}]
           /\ flight'[r] \in Req /\ flight'[r].op = flight[r].op /\ flight'[r].val = val
           /\ flight'[r].at = "back" /\ flight'[r].reply = reply
           /\ flight'[r].alone <=> flight[r].alone /\ sound
           /\ \A q \in Requests : q # r => flight'[q] = flight[q]
<1> DEFINE x == [op |-> flight[r].op, val |-> val, at |-> "back", reply |-> reply,
                 alone |-> flight[r].alone /\ sound]
<1>1. flight \in [Requests -> Req \cup {Unsent}] /\ flight[r] \in Req
  BY DEF PagesTyped
<1>2. /\ flight[r].op \in {"load", "save"} /\ flight[r].alone \in BOOLEAN
      /\ flight[r] = [op |-> flight[r].op, val |-> flight[r].val, at |-> flight[r].at,
                      reply |-> flight[r].reply, alone |-> flight[r].alone]
  BY <1>1, ReqFields
<1>3. x \in Req
  BY <1>2 DEF Req
<1>5. flight' = [flight EXCEPT ![r] = x]
  BY <1>1 DEF AnswerWith
<1>6. x.op = flight[r].op /\ x.val = val /\ x.at = "back" /\ x.reply = reply
      /\ (x.alone <=> flight[r].alone /\ sound)
  OBVIOUS
<1> HIDE DEF x
<1> QED
  BY <1>1, <1>3, <1>5, <1>6

\* A request is sent, and spoils those that are out.
LEMMA Issued ==
    ASSUME PagesTyped, NEW r \in Requests, NEW op \in {"load", "save"}, NEW val \in Nat,
           Issue(r, op, val)
    PROVE  /\ flight[r] = Unsent /\ flight' \in [Requests -> Req \cup {Unsent}]
           /\ flight'[r] \in Req /\ flight'[r].op = op /\ flight'[r].val = val /\ flight'[r].at = "out"
           /\ flight'[r].alone <=> \A q \in Requests : flight[q] = Unsent
           /\ \A q \in Requests : q # r /\ flight[q] = Unsent => flight'[q] = Unsent
           /\ \A q \in Requests : q # r /\ flight[q] # Unsent =>
                /\ flight'[q] \in Req /\ flight'[q].op = flight[q].op /\ flight'[q].val = flight[q].val
                /\ flight'[q].at = flight[q].at /\ flight'[q].reply = flight[q].reply
                /\ ~ flight'[q].alone
<1> DEFINE x == [op |-> op, val |-> val, at |-> "out", reply |-> "none", alone |-> InFlight = {}]
<1>1. x \in Req /\ x.op = op /\ x.val = val /\ x.at = "out" /\ (x.alone <=> InFlight = {})
  BY DEF Req
<1>2. InFlight = {} <=> \A q \in Requests : flight[q] = Unsent
  BY DEF InFlight
<1>3. /\ flight[r] = Unsent
      /\ flight' = [q \in Requests |->
                      CASE q = r -> x
                        [] q \in InFlight -> [flight[q] EXCEPT !.alone = FALSE]
                        [] OTHER -> Unsent]
  BY DEF Issue, Sending
<1> HIDE DEF x
<1>4. flight'[r] = x /\ r \notin InFlight
  BY <1>3 DEF InFlight
<1>5. \A q \in Requests : q # r /\ flight[q] = Unsent => flight'[q] = Unsent
  BY <1>3 DEF InFlight
<1>6. ASSUME NEW q \in Requests, q # r, flight[q] # Unsent
      PROVE /\ flight'[q] \in Req /\ flight'[q].op = flight[q].op /\ flight'[q].val = flight[q].val
            /\ flight'[q].at = flight[q].at /\ flight'[q].reply = flight[q].reply
            /\ ~ flight'[q].alone
  <2>1. flight'[q] = [flight[q] EXCEPT !.alone = FALSE]
    BY <1>3, <1>6 DEF InFlight
  <2>2. flight[q] \in Req
    BY <1>6 DEF PagesTyped
  <2>3. flight'[q] = [op |-> flight[q].op, val |-> flight[q].val, at |-> flight[q].at,
                      reply |-> flight[q].reply, alone |-> FALSE]
    BY <2>1, <2>2, ReqFields
  <2>4. /\ flight[q].op \in {"load", "save"} /\ flight[q].val \in Nat /\ flight[q].at \in {"out", "back"}
        /\ flight[q].reply \in {"none", "ok", "refused", "lost"}
    BY <2>2, ReqFields
  <2> QED
    BY <2>3, <2>4 DEF Req
<1>7. \A q \in Requests : flight'[q] \in Req \cup {Unsent}
  BY <1>1, <1>4, <1>5, <1>6
<1>8. flight' \in [Requests -> Req \cup {Unsent}]
  BY <1>3, <1>7
<1> QED
  BY <1>1, <1>2, <1>3, <1>4, <1>5, <1>6, <1>8

\* A request is done with, or replaced.
LEMMA Cleared ==
    ASSUME PagesTyped, NEW r \in Requests, NEW x \in Req \cup {Unsent},
           flight' = [flight EXCEPT ![r] = x]
    PROVE  /\ flight' \in [Requests -> Req \cup {Unsent}] /\ flight'[r] = x
           /\ \A q \in Requests : q # r => flight'[q] = flight[q]
BY DEF PagesTyped

-----------------------------------------------------------------------------
(* What keeps the invariant. *)

LEMMA PageInit == PagesInit => PageInv
<1> SUFFICES ASSUME PagesInit PROVE PageInv
  OBVIOUS
<1>1. \A r \in Requests : flight[r] = Unsent /\ flight[r].op = "none"
  BY UnsentOp DEF PagesInit
<1>2. stored \in Nat /\ (panel \notin Boxes => stored \in 0 .. 1)
  BY DaysAssumption DEF PagesInit, Settings
<1>3. PagesTyped
  BY <1>1, <1>2 DEF PagesInit, PagesTyped
<1>4. Sound /\ OneTick
  BY <1>1 DEF Sound, OneTick
<1>5. Truthful
  BY <1>1 DEF PagesInit, Truthful, Showing, Ticked
<1> QED
  BY <1>3, <1>4, <1>5 DEF PageInv

\* The server's answer to r: the setting changes only by a save that was served.
LEMMA AnswerKeeps ==
    ASSUME PageInv, NEW r \in Requests, flight[r] # Unsent, flight[r].at = "out",
           NEW reply \in {"ok", "refused", "lost"}, NEW val \in Nat, NEW sound \in BOOLEAN,
           AnswerWith(r, reply, val, sound),
           panel' = panel, face' = face, typed' = typed, barred' = barred, astray' = astray,
           stored' \in Nat, panel \notin Boxes => stored' \in 0 .. 1 /\ val \in 0 .. 1,
           reply = "ok" /\ sound => val = stored',
           stored' = stored \/ (flight[r].op = "save" /\ reply # "refused")
    PROVE  PageInv'
<1> USE DEF PageInv
<1>1. /\ flight' \in [Requests -> Req \cup {Unsent}]
      /\ flight'[r] \in Req /\ flight'[r].op = flight[r].op /\ flight'[r].val = val
      /\ flight'[r].at = "back" /\ flight'[r].reply = reply
      /\ flight'[r].alone <=> flight[r].alone /\ sound
      /\ \A q \in Requests : q # r => flight'[q] = flight[q]
  BY Answered
<1>2. flight'[r] # Unsent
  BY <1>1, ReqFields
<1>3. PagesTyped'
  BY <1>1 DEF PagesTyped
<1>4. ASSUME NEW q \in Requests, flight'[q] # Unsent, flight'[q].alone
      PROVE /\ \A p \in Requests : p # q => flight'[p] = Unsent
            /\ flight'[q].at = "back" /\ flight'[q].reply = "ok" => flight'[q].val = stored'
  <2>1. CASE q = r
    BY <1>1, <1>4, <2>1 DEF Sound
  <2>2. CASE q # r
    BY <1>1, <1>4, <2>2 DEF Sound
  <2> QED
    BY <2>1, <2>2
<1>5. OneTick'
  BY <1>1 DEF OneTick
<1>6. Ticked' <=> Ticked
  BY <1>1 DEF Ticked
<1>7. ASSUME astray PROVE Truthful'
  BY <1>7 DEF Truthful
<1>8. ASSUME \E q \in Requests : Settling(q) PROVE Truthful'
  <2>1. PICK q \in Requests : Settling(q)
    BY <1>8
  <2>2. Settling(q)'
    BY <1>1, <2>1 DEF Settling
  <2> QED
    BY <2>2 DEF Truthful
<1>9. ASSUME Showing, stored' = stored PROVE Truthful'
  BY <1>6, <1>9 DEF Truthful, Showing
<1>10. ASSUME flight[r].op = "save", reply # "refused" PROVE Truthful'
  <2>1. Settling(r)'
    BY <1>1, <1>10 DEF Settling
  <2> QED
    BY <2>1 DEF Truthful
<1>11. Truthful'
  BY <1>7, <1>8, <1>9, <1>10 DEF Truthful
<1> QED
  BY <1>3, <1>4, <1>5, <1>11 DEF Sound

\* An answer that is heard leaves the other requests as they were.
LEMMA HeardKeeps ==
    ASSUME PageInv, NEW r \in Requests, flight[r] # Unsent,
           flight' = [flight EXCEPT ![r] = Unsent],
           panel' = panel, stored' = stored, face' \in Nat \cup {Nothing},
           panel \notin Boxes => face' \in {0, 1, Nothing}
    PROVE  PagesTyped' /\ Sound' /\ OneTick'
<1> USE DEF PageInv
<1>1. /\ flight' \in [Requests -> Req \cup {Unsent}] /\ flight'[r] = Unsent
      /\ \A q \in Requests : q # r => flight'[q] = flight[q]
  BY Cleared
<1>2. PagesTyped'
  BY <1>1 DEF PagesTyped
<1>3. Sound'
  BY <1>1 DEF Sound
<1>4. OneTick'
  BY <1>1 DEF OneTick
<1> QED
  BY <1>2, <1>3, <1>4

\* An answer that is adopted is right if it was asked for alone.
LEMMA AdoptKeeps ==
    ASSUME PageInv, NEW r \in Requests, flight[r] # Unsent, flight[r].at = "back", Ok(r),
           Adopt(r, flight[r].val)
    PROVE  PageInv'
<1> USE DEF PageInv
<1>1. /\ face' = flight[r].val /\ flight' = [flight EXCEPT ![r] = Unsent]
      /\ panel' = panel /\ stored' = stored
      /\ flight[r].alone \/ astray'
  BY DEF Adopt
<1>2. flight[r] \in Req /\ flight[r].val \in Nat /\ (panel \notin Boxes => flight[r].val \in 0 .. 1)
  BY ReqFields DEF PagesTyped
<1>3. face' \in Nat \cup {Nothing} /\ (panel \notin Boxes => face' \in {0, 1, Nothing})
  BY <1>1, <1>2
<1>4. PagesTyped' /\ Sound' /\ OneTick'
  BY <1>1, <1>3, HeardKeeps
<1>5. CASE flight[r].alone
  <2>1. flight[r].val = stored /\ \A q \in Requests : q # r => flight[q] = Unsent
    BY <1>5 DEF Sound, Ok
  <2>2. \A q \in Requests : flight'[q] = Unsent /\ flight'[q].op = "none"
    BY <1>1, <2>1, UnsentOp DEF PagesTyped
  <2>3. ~ Ticked' /\ face' = stored'
    BY <1>1, <2>1, <2>2 DEF Ticked
  <2> QED
    BY <1>4, <2>3 DEF Truthful, Showing
<1>6. CASE astray'
  BY <1>4, <1>6 DEF Truthful
<1> QED
  BY <1>1, <1>5, <1>6

\* An error: the face stays, or is unticked again, or goes, or is in doubt.
LEMMA GiveKeeps ==
    ASSUME PageInv, NEW r \in Requests, flight[r] # Unsent, NEW v, NEW bar, NEW doubt,
           Give(r, v, bar, doubt), v \in Nat \cup {Nothing}, panel \notin Boxes => v \in {0, 1, Nothing},
           \/ doubt
           \/ v = Nothing /\ panel # "quality"
           \/ ~ Settling(r) /\ v = face /\ (panel = "quality" => flight[r].op = "load")
           \/ ~ Settling(r) /\ v = 1 - face /\ panel = "quality" /\ flight[r].op = "save"
    PROVE  PageInv'
<1> USE DEF PageInv
<1>1. /\ face' = v /\ flight' = [flight EXCEPT ![r] = Unsent]
      /\ panel' = panel /\ stored' = stored /\ typed' = typed
      /\ doubt \/ astray => astray'
  BY DEF Give
<1>2. PagesTyped' /\ Sound' /\ OneTick'
  BY <1>1, HeardKeeps
<1>3. /\ flight'[r] = Unsent /\ flight'[r].op = "none"
      /\ \A q \in Requests : q # r => flight'[q] = flight[q]
  BY <1>1, UnsentOp DEF PagesTyped
<1>4. CASE doubt \/ astray
  BY <1>1, <1>2, <1>4 DEF Truthful
<1>5. CASE v = Nothing /\ panel # "quality"
  BY <1>1, <1>2, <1>5 DEF Truthful, Showing, Ticked
<1>6. CASE \E q \in Requests : q # r /\ Settling(q)
  <2>1. PICK q \in Requests : q # r /\ Settling(q)
    BY <1>6
  <2>2. Settling(q)'
    BY <1>1, <1>3, <2>1 DEF Settling
  <2> QED
    BY <1>2, <2>2 DEF Truthful
<1>7. CASE /\ ~ Settling(r) /\ v = face /\ (panel = "quality" => flight[r].op = "load")
           /\ Showing
  <2>1. Ticked' <=> Ticked
    BY <1>1, <1>3, <1>7 DEF Ticked
  <2> QED
    BY <1>1, <1>2, <1>7, <2>1 DEF Truthful, Showing
<1>8. CASE /\ ~ Settling(r) /\ v = 1 - face /\ panel = "quality" /\ flight[r].op = "save"
           /\ Showing
  <2>1. \A q \in Requests : flight'[q] = Unsent /\ flight'[q].op = "none"
    BY <1>3, <1>8, UnsentOp DEF OneTick
  <2>2. Ticked /\ ~ Ticked'
    BY <1>8, <2>1 DEF Ticked
  <2>3. stored \in 0 .. 1
    BY <1>8 DEF PagesTyped, Boxes
  <2>4. typed' \/ face' = stored'
    BY <1>1, <1>8, <2>2, <2>3 DEF Showing
  <2> QED
    BY <1>2, <2>2, <2>4 DEF Truthful, Showing
<1> QED
  BY <1>4, <1>5, <1>6, <1>7, <1>8 DEF Truthful

\* A page that loads again after its write is right once that load is heard.
LEMMA AgainKeeps ==
    ASSUME PageInv, NEW r \in Requests, flight[r] # Unsent, Again(r),
           panel \in {"group", "schedule", "plan"}
    PROVE  PageInv'
<1> USE DEF PageInv
<1> DEFINE x == [op |-> "load", val |-> 0, at |-> "out", reply |-> "none", alone |-> InFlight = {r}]
<1>1. x \in Req /\ x.op = "load" /\ x.val = 0 /\ x.at = "out" /\ (x.alone <=> InFlight = {r})
  BY DEF Req
<1>2. /\ flight' = [flight EXCEPT ![r] = x]
      /\ panel' = panel /\ stored' = stored /\ face' = face /\ typed' = typed
  BY DEF Again, Sending
<1> HIDE DEF x
<1>3. /\ flight' \in [Requests -> Req \cup {Unsent}] /\ flight'[r] = x
      /\ \A q \in Requests : q # r => flight'[q] = flight[q]
  BY <1>1, <1>2, Cleared
<1>4. x.alone => \A q \in Requests : q # r => flight[q] = Unsent
  BY <1>1 DEF InFlight
<1>5. PagesTyped'
  BY <1>1, <1>2, <1>3 DEF PagesTyped
<1>6. Sound'
  BY <1>1, <1>2, <1>3, <1>4 DEF Sound
<1>7. OneTick'
  BY <1>2 DEF OneTick
<1>8. Settling(r)'
  BY <1>1, <1>2, <1>3 DEF Settling
<1> QED
  BY <1>5, <1>6, <1>7, <1>8 DEF Truthful

\* A request sent: the requests' part of the invariant.
LEMMA IssueKeeps ==
    ASSUME PageInv, NEW r \in Requests, NEW op \in {"load", "save"}, NEW val \in Nat, Issue(r, op, val),
           panel' = panel, stored' = stored, face' \in Nat \cup {Nothing},
           panel \notin Boxes => face' \in {0, 1, Nothing} /\ val \in 0 .. 1,
           panel = "quality" => /\ barred' /\ (op = "save" => face' \in 0 .. 1)
                                /\ \A q \in Requests : flight[q] = Unsent
    PROVE  PagesTyped' /\ Sound' /\ OneTick'
<1> USE DEF PageInv
<1>1. /\ flight[r] = Unsent /\ flight' \in [Requests -> Req \cup {Unsent}]
      /\ flight'[r] \in Req /\ flight'[r].op = op /\ flight'[r].val = val /\ flight'[r].at = "out"
      /\ flight'[r].alone <=> \A q \in Requests : flight[q] = Unsent
      /\ \A q \in Requests : q # r /\ flight[q] = Unsent => flight'[q] = Unsent
      /\ \A q \in Requests : q # r /\ flight[q] # Unsent =>
           /\ flight'[q] \in Req /\ flight'[q].op = flight[q].op /\ flight'[q].val = flight[q].val
           /\ flight'[q].at = flight[q].at /\ flight'[q].reply = flight[q].reply
           /\ ~ flight'[q].alone
  BY Issued
<1>2. PagesTyped'
  <2>1. ASSUME panel \notin Boxes, NEW q \in Requests, flight'[q] # Unsent PROVE flight'[q].val \in 0 .. 1
    BY <1>1, <2>1 DEF PagesTyped
  <2> QED
    BY <1>1, <2>1 DEF PagesTyped
<1>3. Sound'
  BY <1>1 DEF Sound
<1>4. OneTick'
  BY <1>1 DEF OneTick
<1> QED
  BY <1>2, <1>3, <1>4

-----------------------------------------------------------------------------
(* The actions. *)

\* Loads, saves and refusals.
LEMMA ServerKeeps ==
    ASSUME PageInv, NEW r \in Requests, ServeLoad(r) \/ ServeSave(r) \/ Refuse(r)
    PROVE  PageInv'
<1>1. flight[r] # Unsent /\ flight[r] \in Req /\ flight[r].at = "out"
  <2>1. flight[r].op # "none" /\ flight[r].at = "out"
    BY DEF ServeLoad, ServeSave, Refuse
  <2> QED
    BY <2>1, UnsentOp DEF PageInv, PagesTyped
<1>2. /\ flight[r].val \in Nat /\ stored \in Nat
      /\ panel \notin Boxes => stored \in 0 .. 1 /\ flight[r].val \in 0 .. 1
  BY <1>1, ReqFields DEF PageInv, PagesTyped
<1>3. CASE ServeLoad(r)
  <2>1. /\ AnswerWith(r, "ok", Told, Told = stored)
        /\ panel' = panel /\ stored' = stored /\ face' = face /\ typed' = typed /\ barred' = barred
        /\ astray' = astray
    BY <1>3 DEF ServeLoad
  <2>2. Told \in Nat /\ (panel \notin Boxes => Told \in 0 .. 1) /\ (Told = stored) \in BOOLEAN
    BY <1>2 DEF Told
  <2> QED
    BY <1>1, <1>2, <2>1, <2>2, AnswerKeeps
<1>4. CASE ServeSave(r)
  <2> DEFINE v == flight[r].val
  <2>1. PICK reply \in {"ok", "lost"} : AnswerWith(r, reply, Parsed(v), TRUE)
    BY <1>4 DEF ServeSave
  <2>2. /\ stored' = Parsed(v) /\ flight[r].op = "save"
        /\ panel' = panel /\ face' = face /\ typed' = typed /\ barred' = barred /\ astray' = astray
    BY <1>4 DEF ServeSave
  <2>3. Parsed(v) \in Nat /\ (panel \notin Boxes => Parsed(v) = v)
    BY <1>2, DaysAssumption DEF Parsed, Boxes
  <2> HIDE DEF v
  <2>4. panel \notin Boxes => stored' \in 0 .. 1 /\ Parsed(v) \in 0 .. 1
    BY <1>2, <2>2, <2>3 DEF v
  <2> QED
    BY <1>1, <2>1, <2>2, <2>3, <2>4, AnswerKeeps
<1>5. CASE Refuse(r)
  <2>1. PICK reply \in {"refused", "lost"} : AnswerWith(r, reply, flight[r].val, TRUE)
    BY <1>5 DEF Refuse
  <2>2. /\ panel' = panel /\ stored' = stored /\ face' = face /\ typed' = typed /\ barred' = barred
        /\ astray' = astray
    BY <1>5 DEF Refuse
  <2> QED
    BY <1>1, <1>2, <2>1, <2>2, AnswerKeeps
<1> QED
  BY <1>3, <1>4, <1>5

\* The answers that are adopted, and the errors.
LEMMA HearingKeeps ==
    ASSUME PageInv, NEW r \in Requests,
           LoadedOk(r) \/ LoadFailed(r) \/ AdoptSaved(r) \/ QualityFailed(r) \/ SaveFailed(r)
    PROVE  PageInv'
<1>1. flight[r] # Unsent /\ flight[r] \in Req /\ flight[r].at = "back"
  <2>1. flight[r].op # "none" /\ flight[r].at = "back"
    BY DEF LoadedOk, LoadFailed, AdoptSaved, QualityFailed, SaveFailed, Came
  <2> QED
    BY <2>1, UnsentOp DEF PageInv, PagesTyped
<1>2. /\ face \in Nat \cup {Nothing} /\ (panel \notin Boxes => face \in {0, 1, Nothing})
      /\ panel \in Panels
  BY DEF PageInv, PagesTyped
<1>3. CASE LoadedOk(r) \/ AdoptSaved(r)
  BY <1>1, <1>3, AdoptKeeps DEF LoadedOk, AdoptSaved
<1>4. CASE LoadFailed(r)
  <2>1. CASE PauseUnknown(r)
    BY <1>1, <2>1, GiveKeeps DEF PauseUnknown
  <2>2. CASE LeftBlank(r)
    <3>1. ~ Settling(r) /\ flight[r].op = "load"
      BY <1>4, <2>2 DEF LoadFailed, Came, LeftBlank, Settling
    <3>2. Give(r, face, barred, FALSE)
      BY <2>2 DEF LeftBlank
    <3> QED
      BY <1>1, <1>2, <3>1, <3>2, GiveKeeps
  <2>3. CASE Replaced(r)
    BY <1>1, <2>3, GiveKeeps DEF Replaced
  <2> QED
    BY <1>4, <2>1, <2>2, <2>3 DEF LoadFailed
<1>5. CASE QualityFailed(r)
  <2>1. /\ flight[r].op = "save" /\ panel = "quality" /\ Give(r, 1 - face, FALSE, Unsure(r))
        /\ flight[r].reply # "ok"
    BY <1>5 DEF QualityFailed, Came, Ok
  <2>2. 1 - face \in 0 .. 1
    <3>1. face \in 0 .. 1
      BY <1>1, <2>1 DEF PageInv, OneTick
    <3> QED
      BY <3>1
  <2>3. Unsure(r) \/ ~ Settling(r)
    BY <1>1, <2>1, ReqFields DEF Unsure, Settling
  <2>4. PICK v : v = 1 - face
    OBVIOUS
  <2>5. v \in Nat \cup {Nothing} /\ v \in {0, 1, Nothing}
    BY <2>2, <2>4
  <2>6. Give(r, v, FALSE, Unsure(r))
    BY <2>1, <2>4
  <2> QED
    BY <1>1, <2>1, <2>3, <2>4, <2>5, <2>6, GiveKeeps
<1>6. CASE SaveFailed(r)
  <2>1. /\ flight[r].op = "save" /\ panel \notin {"quality", "group"}
        /\ Give(r, face, FALSE, Unsure(r)) /\ flight[r].reply # "ok"
    BY <1>6 DEF SaveFailed, Came, Ok
  <2>2. Unsure(r) \/ ~ Settling(r)
    BY <2>1 DEF Unsure, Settling
  <2> QED
    BY <1>1, <1>2, <2>1, <2>2, GiveKeeps
<1> QED
  BY <1>3, <1>4, <1>5, <1>6
\* Writes that load again.
LEMMA ReloadKeeps ==
    ASSUME PageInv, NEW r \in Requests, ReloadSaved(r) \/ GroupSaved(r)
    PROVE  PageInv'
<1>1. flight[r].op = "save" /\ Again(r) /\ panel \in {"group", "schedule", "plan"}
  BY DEF ReloadSaved, GroupSaved, Came
<1>2. flight[r] # Unsent
  BY <1>1, UnsentOp
<1> QED
  BY <1>1, <1>2, AgainKeeps

\* A write sent with the face as it was, on anything but the checkbox.
LEMMA SentKeeps ==
    ASSUME PageInv, NEW r \in Requests, NEW val \in Nat, Issue(r, "save", val),
           panel' = panel, stored' = stored, face' = face, typed' = typed, astray' = astray,
           panel # "quality", panel \notin Boxes => val \in 0 .. 1
    PROVE  PageInv'
<1>1. PagesTyped' /\ Sound' /\ OneTick'
  BY IssueKeeps DEF PageInv, PagesTyped
<1>2. CASE astray
  BY <1>1, <1>2 DEF PageInv, Truthful
<1>3. CASE Showing
  BY <1>1, <1>3 DEF PageInv, Truthful, Showing, Ticked
<1>4. CASE \E q \in Requests : Settling(q)
  <2>1. PICK q \in Requests : Settling(q)
    BY <1>4
  <2>2. q # r /\ flight[q] # Unsent
    BY <2>1, UnsentOp, Issued DEF Settling, PageInv
  <2>3. flight'[q].op = flight[q].op /\ flight'[q].at = flight[q].at /\ flight'[q].reply = flight[q].reply
    BY <2>2, Issued DEF PageInv
  <2>4. Settling(q)'
    BY <2>1, <2>3 DEF Settling
  <2> QED
    BY <1>1, <2>4 DEF PageInv, Truthful
<1> QED
  BY <1>2, <1>3, <1>4 DEF PageInv, Truthful

\* Opening a page, and the gate's form submitted again.
LEMMA OpenKeeps ==
    ASSUME PageInv, NEW r \in Requests, Open(r) \/ GateAgain(r)
    PROVE  PageInv'
<1>1. /\ Issue(r, "load", 0) /\ face' = Nothing /\ panel' = panel /\ stored' = stored
      /\ panel = "quality" => barred' /\ \A q \in Requests : flight[q] = Unsent
  BY DEF Open, GateAgain, InFlight
<1>2. PagesTyped' /\ Sound' /\ OneTick'
  BY <1>1, IssueKeeps
<1>3. ~ Ticked'
  <2> SUFFICES ASSUME panel = "quality", NEW q \in Requests PROVE flight'[q].op # "save"
    BY <1>1 DEF Ticked
  <2> QED
    BY <1>1, Issued, UnsentOp DEF PageInv
<1> QED
  BY <1>1, <1>2, <1>3 DEF PageInv, Truthful, Showing

\* The controls that are pressed.
LEMMA PressKeeps ==
    ASSUME PageInv, NEW r \in Requests,
           \/ PressPause(r) \/ Tick(r) \/ PressHalt(r) \/ PressCancel(r) \/ PressEnable(r) \/ SaveBox(r)
    PROVE  PageInv'
<1>1. /\ face \in Nat \cup {Nothing} /\ (panel \notin Boxes => stored \in 0 .. 1 /\ face \in {0, 1, Nothing})
      /\ panel \in Panels
  BY DEF PageInv, PagesTyped
<1>2. ASSUME NEW bar, NEW val, Change(r, val, face, bar), val = 1 - face \/ val = 0,
             panel \notin Boxes, panel # "quality"
      PROVE PageInv'
  <2>1. /\ Issue(r, "save", val) /\ face # Nothing
        /\ panel' = panel /\ stored' = stored /\ face' = face /\ typed' = typed /\ astray' = astray
    BY <1>2 DEF Change
  <2>2. val \in Nat /\ val \in 0 .. 1
    BY <1>1, <1>2, <2>1
  <2> QED
    BY <1>2, <2>1, <2>2, SentKeeps
<1>3. CASE PressPause(r) \/ PressHalt(r) \/ PressCancel(r) \/ PressEnable(r)
  BY <1>2, <1>3 DEF PressPause, PressHalt, PressCancel, PressEnable, Boxes
<1>4. CASE SaveBox(r)
  <2>1. PICK val : val = IF face = Nothing THEN 0 ELSE face
    OBVIOUS
  <2>2. /\ Issue(r, "save", val) /\ panel \in Boxes /\ panel # "quality" /\ val \in Nat
        /\ panel' = panel /\ stored' = stored /\ face' = face /\ typed' = typed /\ astray' = astray
    BY <1>1, <1>4, <2>1 DEF SaveBox, Boxes
  <2> QED
    BY <2>2, SentKeeps
<1>5. CASE Tick(r)
  <2>1. PICK val : val = 1 - face
    OBVIOUS
  <2>2. /\ Issue(r, "save", val) /\ panel = "quality" /\ ~ barred /\ face # Nothing
        /\ panel' = panel /\ stored' = stored /\ face' = val /\ typed' = typed /\ astray' = astray
        /\ barred'
    BY <1>5, <2>1 DEF Tick, Change
  <2>3. panel \notin Boxes /\ face \in 0 .. 1 /\ stored \in 0 .. 1 /\ val \in 0 .. 1 /\ val \in Nat
    BY <1>1, <2>1, <2>2 DEF Boxes
  <2>4. \A q \in Requests : flight[q] = Unsent
    BY <2>2 DEF PageInv, OneTick
  <2>5. PagesTyped' /\ Sound' /\ OneTick'
    BY <2>2, <2>3, <2>4, IssueKeeps
  <2>6. ~ Ticked /\ ~ \E q \in Requests : Settling(q)
    BY <2>4, UnsentOp DEF Ticked, Settling
  <2>7. Ticked'
    BY <2>2, <2>3, Issued DEF Ticked, PageInv
  <2>8. astray \/ typed \/ face = stored
    BY <2>2, <2>6 DEF PageInv, Truthful, Showing
  <2>9. astray' \/ typed' \/ face' = 1 - stored'
    BY <2>1, <2>2, <2>8
  <2> QED
    BY <2>5, <2>7, <2>9 DEF PageInv, Truthful, Showing
<1> QED
  BY <1>3, <1>4, <1>5

\* Another page, a halt, and the keyboard.
LEMMA OthersKeep ==
    ASSUME PageInv, OtherWriter \/ Mask \/ TypeIn
    PROVE  PageInv'
<1>1. CASE OtherWriter
  <2>1. /\ stored' \in Settings /\ astray' /\ panel' = panel /\ face' = face /\ barred' = barred
        /\ flight' = [r \in Requests |-> IF r \in InFlight /\ flight[r].at = "back"
                                         THEN [flight[r] EXCEPT !.alone = FALSE] ELSE flight[r]]
    BY <1>1 DEF OtherWriter
  <2>2. ASSUME NEW r \in Requests
        PROVE \/ flight'[r] = flight[r] /\ ~ (flight[r] # Unsent /\ flight[r].at = "back")
              \/ /\ flight[r] # Unsent /\ flight'[r] \in Req /\ flight'[r].op = flight[r].op
                 /\ flight'[r].val = flight[r].val /\ ~ flight'[r].alone
    <3>1. CASE flight[r] # Unsent /\ flight[r].at = "back"
      <4>1. flight'[r] = [flight[r] EXCEPT !.alone = FALSE] /\ flight[r] \in Req
        BY <2>1, <3>1 DEF InFlight, PageInv, PagesTyped
      <4>2. flight'[r] = [op |-> flight[r].op, val |-> flight[r].val, at |-> flight[r].at,
                          reply |-> flight[r].reply, alone |-> FALSE]
        BY <4>1, ReqFields
      <4>3. /\ flight[r].op \in {"load", "save"} /\ flight[r].val \in Nat
            /\ flight[r].at \in {"out", "back"} /\ flight[r].reply \in {"none", "ok", "refused", "lost"}
        BY <4>1, ReqFields
      <4> QED
        BY <3>1, <4>2, <4>3 DEF Req
    <3>2. CASE ~ (flight[r] # Unsent /\ flight[r].at = "back")
      BY <2>1, <3>2 DEF InFlight
    <3> QED
      BY <3>1, <3>2
  <2>3. \A r \in Requests : /\ flight'[r] \in Req \cup {Unsent}
                            /\ flight'[r] = Unsent <=> flight[r] = Unsent
                            /\ flight[r] # Unsent => flight'[r].val = flight[r].val
                            /\ flight'[r].op = flight[r].op
    BY <2>2, ReqFields DEF PageInv, PagesTyped
  <2>4. stored' \in Nat /\ (panel \notin Boxes => stored' \in 0 .. 1)
    BY <2>1, DaysAssumption DEF Settings
  <2>5. PagesTyped'
    <3>1. flight' \in [Requests -> Req \cup {Unsent}]
      BY <2>1, <2>3
    <3>2. ASSUME panel \notin Boxes, NEW r \in Requests, flight'[r] # Unsent PROVE flight'[r].val \in 0 .. 1
      BY <2>3, <3>2 DEF PageInv, PagesTyped
    <3> QED
      BY <2>1, <2>4, <3>1, <3>2 DEF PageInv, PagesTyped
  <2>6. Sound'
    <3> SUFFICES ASSUME NEW r \in Requests, flight'[r] # Unsent, flight'[r].alone
        PROVE /\ \A q \in Requests : q # r => flight'[q] = Unsent
              /\ flight'[r].at = "back" /\ flight'[r].reply = "ok" => flight'[r].val = stored'
      BY DEF Sound
    <3>1. flight'[r] = flight[r] /\ flight[r].at # "back"
      BY <2>2
    <3> QED
      BY <2>3, <3>1 DEF PageInv, Sound
  <2>7. OneTick'
    BY <2>1, <2>3 DEF PageInv, OneTick
  <2> QED
    BY <2>1, <2>5, <2>6, <2>7 DEF PageInv, Truthful
<1>2. CASE Mask
  BY <1>2 DEF Mask, PageInv, PagesTyped, Sound, OneTick, Truthful, Showing, Ticked, Settling
<1>3. CASE TypeIn
  <2>1. /\ panel' = panel /\ stored' = stored /\ barred' = barred /\ flight' = flight /\ typed'
        /\ face' \in 0 .. MaxDays + 1 /\ panel \in Boxes /\ panel # "quality"
    BY <1>3 DEF TypeIn, Boxes
  <2>2. face' \in Nat
    BY <2>1, DaysAssumption
  <2>3. PagesTyped' /\ Sound' /\ OneTick'
    BY <2>1, <2>2 DEF PageInv, PagesTyped, Sound, OneTick
  <2> QED
    BY <2>1, <2>3 DEF PageInv, Truthful, Showing
<1> QED
  BY <1>1, <1>2, <1>3

LEMMA PageNext == PageInv /\ [PagesNext]_pagesVars => PageInv'
<1> SUFFICES ASSUME PageInv, [PagesNext]_pagesVars PROVE PageInv'
  OBVIOUS
<1>1. CASE UNCHANGED pagesVars
  BY <1>1 DEF pagesVars, PageInv, PagesTyped, Sound, OneTick, Truthful, Showing, Ticked, Settling
<1> QED
  BY <1>1, OthersKeep, ServerKeeps, HearingKeeps, ReloadKeeps, OpenKeeps, PressKeeps DEF PagesNext

\* The inductive invariant of the controls: whether a face is right, or which
\* request under way will put it right.
THEOREM PagesInvariant == PagesSpec => []PageInv
BY PageInit, PageNext, PTL DEF PagesSpec

\* A control at rest shows what is stored (settings.js, groups.js, ops.js),
\* whatever overlapped and failed before, but for the doubts astray records.
THEOREM FaceIsTrue == PagesSpec => []PageTellsTheTruth
<1>1. PageInv => PageTellsTheTruth
  <2> SUFFICES ASSUME PageInv, InFlight = {}, ~ astray PROVE typed \/ face \in {stored, Nothing}
    BY DEF PageTellsTheTruth
  <2>1. \A r \in Requests : flight[r] = Unsent /\ flight[r].op = "none"
    BY UnsentOp DEF InFlight
  <2> QED
    BY <2>1 DEF PageInv, Truthful, Settling, Showing, Ticked
<1> QED
  BY <1>1, PagesInvariant, PTL
-----------------------------------------------------------------------------
(* The Operator's console. *)

\* A request of the console has all its fields.
IsErrand(x) ==
  /\ x.op \in {"look", "reread", "plan", "queue", "review"}
  /\ x = [op |-> x.op, acc |-> x.acc, val |-> x.val, key |-> x.key, at |-> x.at, list |-> x.list,
          heard |-> x.heard]

\* The console, its requests and their record.
OperatorShaped ==
  /\ errand = [e \in Errands |-> errand[e]] /\ leave = [e \in Errands |-> leave[e]]
  /\ \A e \in Errands : errand[e] = NoErrand \/ IsErrand(errand[e])
  /\ console = [shown |-> console.shown, account |-> console.account, open |-> console.open,
                choice |-> console.choice, queue |-> console.queue]

\* A request for the queue may find whoever is opted in now, or has found
\* whoever was; the record has them all.
QueueFollowsOptIn ==
  \A e \in Errands : errand[e].op = "queue" =>
    OptedIn \subseteq leave[e] /\ errand[e].list \subseteq leave[e]

OperatorInv == OperatorShaped /\ QueueFollowsOptIn /\ PlanFollowsTheFace

LEMMA NoErrandOp == NoErrand.op = "none" /\ \A x : IsErrand(x) => x # NoErrand
BY DEF NoErrand, IsErrand

LEMMA OperatorInitInv == OperatorInit => OperatorInv
<1> SUFFICES ASSUME OperatorInit PROVE OperatorInv
  OBVIOUS
<1>1. \A e \in Errands : errand[e] = NoErrand /\ errand[e].op = "none"
  BY NoErrandOp DEF OperatorInit
<1>2. OperatorShaped
  BY <1>1 DEF OperatorInit, OperatorShaped, Gate
<1>3. QueueFollowsOptIn
  BY <1>1 DEF QueueFollowsOptIn
<1>4. PlanFollowsTheFace
  BY DEF OperatorInit, PlanFollowsTheFace, Gate
<1> QED
  BY <1>2, <1>3, <1>4 DEF OperatorInv

\* One request changes, the console or the record of its Accounts with it.
LEMMA ErrandKeeps ==
    ASSUME OperatorInv, NEW e \in Errands, NEW x, NEW y,
           errand' = [errand EXCEPT ![e] = x], leave' = [leave EXCEPT ![e] = y],
           optIn' = optIn,
           x = NoErrand \/ IsErrand(x),
           x.op = "queue" => OptedIn \subseteq y /\ x.list \subseteq y
    PROVE  /\ errand' = [a \in Errands |-> errand'[a]] /\ leave' = [a \in Errands |-> leave'[a]]
           /\ \A a \in Errands : errand'[a] = NoErrand \/ IsErrand(errand'[a])
           /\ QueueFollowsOptIn'
<1>1. /\ errand = [a \in Errands |-> errand[a]] /\ leave = [a \in Errands |-> leave[a]]
      /\ \A a \in Errands : errand[a] = NoErrand \/ IsErrand(errand[a])
  BY DEF OperatorInv, OperatorShaped
<1>2. /\ errand' = [a \in Errands |-> errand'[a]] /\ errand'[e] = x
      /\ \A a \in Errands : a # e => errand'[a] = errand[a]
  BY <1>1
<1>3. /\ leave' = [a \in Errands |-> leave'[a]] /\ leave'[e] = y
      /\ \A a \in Errands : a # e => leave'[a] = leave[a]
  BY <1>1
<1>4. OptedIn' = OptedIn
  BY DEF OptedIn
<1>5. QueueFollowsOptIn'
  BY <1>2, <1>3, <1>4 DEF OperatorInv, QueueFollowsOptIn
<1> QED
  BY <1>1, <1>2, <1>3, <1>5

\* What an errand becomes in the server's hands: its place changes, and with
\* an answer what it has found.
LEMMA ReachKeeps ==
    ASSUME OperatorInv, NEW e \in Errands, errand[e] # NoErrand, NEW place, Reach(e, place),
           UNCHANGED <<optIn, console, choiceFor, leave>>
    PROVE  OperatorInv'
<1> DEFINE z == errand[e]
           x == [op |-> z.op, acc |-> z.acc, val |-> z.val, key |-> z.key, at |-> place,
                 list |-> z.list, heard |-> z.heard]
<1>1. IsErrand(z)
  BY DEF OperatorInv, OperatorShaped
<1>2. IsErrand(x) /\ x.op = z.op /\ x.list = z.list
  BY <1>1 DEF IsErrand
<1>3. [z EXCEPT !.at = place] = x
  BY <1>1 DEF IsErrand
<1>4. errand' = [errand EXCEPT ![e] = x]
  BY <1>3 DEF Reach, OperatorInv, OperatorShaped
<1>5. leave' = [leave EXCEPT ![e] = leave[e]]
  BY DEF OperatorInv, OperatorShaped
<1>6. z.op = "queue" => OptedIn \subseteq leave[e] /\ z.list \subseteq leave[e]
  BY DEF OperatorInv, QueueFollowsOptIn
<1> HIDE DEF x, z
<1>7. /\ errand' = [a \in Errands |-> errand'[a]] /\ leave' = [a \in Errands |-> leave'[a]]
      /\ \A a \in Errands : errand'[a] = NoErrand \/ IsErrand(errand'[a])
      /\ QueueFollowsOptIn'
  BY <1>2, <1>4, <1>5, <1>6, ErrandKeeps
<1> QED
  BY <1>7 DEF OperatorInv, OperatorShaped, PlanFollowsTheFace

LEMMA FoundKeeps ==
    ASSUME OperatorInv, NEW e \in Errands, errand[e] # NoErrand, NEW value, NEW list,
           Found(e, value, list), optIn' = optIn,
           errand[e].op = "queue" => list \subseteq OptedIn
    PROVE  OperatorInv'
<1> DEFINE z == errand[e]
           x == [op |-> z.op, acc |-> z.acc, val |-> value, key |-> z.key, at |-> "ok",
                 list |-> list, heard |-> z.heard]
<1>1. IsErrand(z)
  BY DEF OperatorInv, OperatorShaped
<1>2. IsErrand(x) /\ x.op = z.op /\ x.list = list
  BY <1>1 DEF IsErrand
<1>4. errand' = [errand EXCEPT ![e] = x]
  BY DEF Found, OperatorInv, OperatorShaped
<1>5. leave' = [leave EXCEPT ![e] = leave[e]] /\ UNCHANGED <<console, choiceFor>>
  BY DEF Found, OperatorInv, OperatorShaped
<1>6. z.op = "queue" => OptedIn \subseteq leave[e] /\ list \subseteq leave[e]
  BY DEF OperatorInv, QueueFollowsOptIn
<1> HIDE DEF x, z
<1>7. /\ errand' = [a \in Errands |-> errand'[a]] /\ leave' = [a \in Errands |-> leave'[a]]
      /\ \A a \in Errands : errand'[a] = NoErrand \/ IsErrand(errand'[a])
      /\ QueueFollowsOptIn'
  BY <1>2, <1>4, <1>5, <1>6, ErrandKeeps
<1> QED
  BY <1>5, <1>7 DEF OperatorInv, OperatorShaped, PlanFollowsTheFace
\* The page sends a request.
LEMMA PostKeeps ==
    ASSUME OperatorInv, NEW e \in Errands, NEW op \in {"look", "plan", "queue", "review"},
           NEW acc, NEW val, Post(e, op, acc, val), UNCHANGED <<console, choiceFor>>
    PROVE  OperatorInv'
<1> DEFINE x == Ask4(op, acc, val)
           y == IF op = "queue" THEN OptedIn ELSE {}
<1>1. IsErrand(x) /\ x.op = op /\ x.list = {}
  BY DEF Ask4, IsErrand
<1>2. errand' = [errand EXCEPT ![e] = x] /\ leave' = [leave EXCEPT ![e] = y] /\ optIn' = optIn
  BY DEF Post, rows
<1>3. x.op = "queue" => OptedIn \subseteq y /\ x.list \subseteq y
  BY <1>1
<1> HIDE DEF x, y
<1>4. /\ errand' = [a \in Errands |-> errand'[a]] /\ leave' = [a \in Errands |-> leave'[a]]
      /\ \A a \in Errands : errand'[a] = NoErrand \/ IsErrand(errand'[a])
      /\ QueueFollowsOptIn'
  BY <1>1, <1>2, <1>3, ErrandKeeps
<1> QED
  BY <1>4 DEF OperatorInv, OperatorShaped, PlanFollowsTheFace

\* The page is done with a request.
LEMMA DoneKeeps ==
    ASSUME OperatorInv, NEW e \in Errands, Done(e), optIn' = optIn
    PROVE  /\ errand' = [a \in Errands |-> errand'[a]] /\ leave' = [a \in Errands |-> leave'[a]]
           /\ \A a \in Errands : errand'[a] = NoErrand \/ IsErrand(errand'[a])
           /\ QueueFollowsOptIn'
<1>1. errand' = [errand EXCEPT ![e] = NoErrand] /\ leave' = [leave EXCEPT ![e] = {}]
  BY DEF Done
<1>2. NoErrand.op # "queue"
  BY NoErrandOp
<1> QED
  BY <1>1, <1>2, ErrandKeeps

\* The server's side of a request.
LEMMA ConsoleServed ==
    ASSUME OperatorInv, NEW e \in Errands,
           \/ Authorise(e) \/ accountMetadata(e) \/ setPlan(e) \/ reviewQueue(e) \/ recordReview(e)
           \/ Fail(e)
    PROVE  OperatorInv'
<1>1. CASE Authorise(e) \/ Fail(e)
  <2>1. errand[e] # NoErrand /\ UNCHANGED <<optIn, console, choiceFor, leave>> /\ \E p : Reach(e, p)
    BY <1>1 DEF Authorise, Fail, rows
  <2> QED
    BY <2>1, ReachKeeps
<1>2. CASE accountMetadata(e) \/ setPlan(e)
  <2>1. errand[e].op \in {"look", "reread", "plan"} /\ optIn' = optIn /\ \E v : Found(e, v, {})
    BY <1>2 DEF accountMetadata, setPlan, Asks, rows
  <2>2. errand[e] # NoErrand
    BY <2>1, NoErrandOp
  <2> QED
    BY <2>1, <2>2, FoundKeeps
<1>3. CASE reviewQueue(e)
  <2>1. errand[e].op = "queue" /\ optIn' = optIn /\ Found(e, "free", OptedIn \ reviewed)
    BY <1>3 DEF reviewQueue, Asks, rows
  <2>2. errand[e] # NoErrand
    BY <2>1, NoErrandOp
  <2>3. OptedIn \ reviewed \subseteq OptedIn
    OBVIOUS
  <2> QED
    BY <2>1, <2>2, <2>3, FoundKeeps
<1>4. CASE recordReview(e)
  <2>1. /\ errand[e].op = "review" /\ optIn' = optIn
        /\ Found(e, "free", {}) \/ (Reach(e, "refused") /\ UNCHANGED <<console, choiceFor, leave>>)
    BY <1>4 DEF recordReview, Asks
  <2>2. errand[e] # NoErrand
    BY <2>1, NoErrandOp
  <2> QED
    BY <2>1, <2>2, FoundKeeps, ReachKeeps
<1> QED
  BY <1>1, <1>2, <1>3, <1>4

\* The page's side.
LEMMA ConsoleAsks ==
    ASSUME OperatorInv, NEW e \in Errands,
           \/ SubmitPlan(e) \/ LoadQueue(e) \/ \E a \in Accounts : LookUp(e, a) \/ Review(e, a)
    PROVE  OperatorInv'
BY PostKeeps DEF SubmitPlan, LoadQueue, LookUp, Review

LEMMA ConsoleHears ==
    ASSUME OperatorInv, NEW e \in Errands,
           Rendered(e) \/ NotFound(e) \/ PlanSet(e) \/ Reviewed(e) \/ Listed(e) \/ Unheard(e)
    PROVE  OperatorInv'
<1>0. console = [shown |-> console.shown, account |-> console.account, open |-> console.open,
                 choice |-> console.choice, queue |-> console.queue]
  BY DEF OperatorInv, OperatorShaped
<1>1. CASE Rendered(e)
  <2>1. /\ Done(e) /\ optIn' = optIn /\ choiceFor' = errand[e].acc
        /\ console' = [console EXCEPT !.account = errand[e].acc, !.open = TRUE, !.choice = errand[e].val]
    BY <1>1 DEF Rendered, Heard, rows
  <2>2. console' = [shown |-> console.shown, account |-> errand[e].acc, open |-> TRUE,
                    choice |-> errand[e].val, queue |-> console.queue]
    BY <1>0, <2>1
  <2> QED
    BY <2>1, <2>2, DoneKeeps DEF OperatorInv, OperatorShaped, PlanFollowsTheFace
<1>2. CASE NotFound(e)
  <2>1. /\ Done(e) /\ optIn' = optIn /\ choiceFor' = choiceFor
        /\ console' = [console EXCEPT !.open = FALSE]
    BY <1>2 DEF NotFound, Heard, rows
  <2>2. console' = [shown |-> console.shown, account |-> console.account, open |-> FALSE,
                    choice |-> console.choice, queue |-> console.queue]
    BY <1>0, <2>1
  <2> QED
    BY <2>1, <2>2, DoneKeeps DEF OperatorInv, OperatorShaped, PlanFollowsTheFace
<1>3. CASE PlanSet(e)
  <2> DEFINE x == Ask4("reread", console.account, "free")
  <2>1. errand' = [errand EXCEPT ![e] = x] /\ UNCHANGED <<console, choiceFor, leave>> /\ optIn' = optIn
    BY <1>3 DEF PlanSet, Heard, rows
  <2>2. IsErrand(x) /\ x.op = "reread"
    BY DEF Ask4, IsErrand
  <2>3. leave' = [leave EXCEPT ![e] = leave[e]]
    BY <2>1 DEF OperatorInv, OperatorShaped
  <2> HIDE DEF x
  <2>4. /\ errand' = [a \in Errands |-> errand'[a]] /\ leave' = [a \in Errands |-> leave'[a]]
        /\ \A a \in Errands : errand'[a] = NoErrand \/ IsErrand(errand'[a])
        /\ QueueFollowsOptIn'
    BY <2>1, <2>2, <2>3, ErrandKeeps
  <2> QED
    BY <2>1, <2>4 DEF OperatorInv, OperatorShaped, PlanFollowsTheFace
<1>4. CASE Reviewed(e)
  <2> DEFINE x == Ask4("queue", Nobody, "free")
  <2>1. /\ errand' = [errand EXCEPT ![e] = x] /\ UNCHANGED <<console, choiceFor>> /\ optIn' = optIn
        /\ leave' = [leave EXCEPT ![e] = OptedIn]
    BY <1>4 DEF Reviewed, Heard, rows
  <2>2. IsErrand(x) /\ x.list = {}
    BY DEF Ask4, IsErrand
  <2> HIDE DEF x
  <2>3. /\ errand' = [a \in Errands |-> errand'[a]] /\ leave' = [a \in Errands |-> leave'[a]]
        /\ \A a \in Errands : errand'[a] = NoErrand \/ IsErrand(errand'[a])
        /\ QueueFollowsOptIn'
    BY <2>1, <2>2, ErrandKeeps
  <2> QED
    BY <2>1, <2>3 DEF OperatorInv, OperatorShaped, PlanFollowsTheFace
<1>5. CASE Listed(e)
  <2>1. /\ Done(e) /\ optIn' = optIn /\ choiceFor' = choiceFor
        /\ \E q : console' = [console EXCEPT !.queue = q]
    BY <1>5 DEF Listed, Heard, rows
  <2>2. PICK q : console' = [console EXCEPT !.queue = q]
    BY <2>1
  <2>3. console' = [shown |-> console.shown, account |-> console.account, open |-> console.open,
                    choice |-> console.choice, queue |-> q]
    BY <1>0, <2>2
  <2> QED
    BY <2>1, <2>3, DoneKeeps DEF OperatorInv, OperatorShaped, PlanFollowsTheFace
<1>6. CASE Unheard(e)
  BY <1>6, DoneKeeps DEF Unheard, rows, OperatorInv, OperatorShaped, PlanFollowsTheFace
<1> QED
  BY <1>1, <1>2, <1>3, <1>4, <1>5, <1>6

\* Leaving the console: what is under way is heard by nobody.
LEMMA SignOutKeeps == OperatorInv /\ OpSignOut => OperatorInv'
<1> SUFFICES ASSUME OperatorInv, OpSignOut PROVE OperatorInv'
  OBVIOUS
<1>1. /\ errand' = [e \in Errands |->
                      IF errand[e] = NoErrand THEN NoErrand ELSE [errand[e] EXCEPT !.heard = FALSE]]
      /\ leave' = leave /\ optIn' = optIn /\ console' = Gate
  BY DEF OpSignOut, rows
<1>2. ASSUME NEW e \in Errands
      PROVE /\ errand'[e] = NoErrand \/ IsErrand(errand'[e])
            /\ errand'[e].op = "queue" =>
                 errand[e].op = "queue" /\ errand'[e].list = errand[e].list
  <2>1. CASE errand[e] = NoErrand
    BY <1>1, <2>1, NoErrandOp
  <2>2. CASE errand[e] # NoErrand
    <3> DEFINE z == errand[e]
    <3>1. IsErrand(z)
      BY <2>2 DEF OperatorInv, OperatorShaped
    <3>2. errand'[e] = [z EXCEPT !.heard = FALSE]
      BY <1>1, <2>2
    <3>3. errand'[e] = [op |-> z.op, acc |-> z.acc, val |-> z.val, key |-> z.key, at |-> z.at,
                        list |-> z.list, heard |-> FALSE]
      BY <3>1, <3>2 DEF IsErrand
    <3> QED
      BY <3>1, <3>3 DEF IsErrand
  <2> QED
    BY <2>1, <2>2
<1>3. QueueFollowsOptIn'
  BY <1>1, <1>2 DEF OperatorInv, QueueFollowsOptIn, OptedIn
<1>4. OperatorShaped'
  BY <1>1, <1>2 DEF OperatorInv, OperatorShaped, Gate
<1>5. PlanFollowsTheFace'
  BY <1>1 DEF PlanFollowsTheFace, Gate
<1> QED
  BY <1>3, <1>4, <1>5 DEF OperatorInv

\* The Account's own switch adds to the record of every request for the queue.
LEMMA ToggleKeeps ==
    ASSUME OperatorInv, NEW a \in Accounts, ToggleOptIn(a)
    PROVE  OperatorInv'
<1>1. /\ errand' = errand /\ UNCHANGED <<console, choiceFor>>
      /\ leave' = [e \in Errands |-> IF errand[e] # NoErrand /\ errand[e].op = "queue"
                                     THEN leave[e] \cup OptedIn' ELSE {}]
  BY DEF ToggleOptIn
<1>2. \A e \in Errands : errand[e].op = "queue" => leave'[e] = leave[e] \cup OptedIn'
  BY <1>1, NoErrandOp
<1>3. QueueFollowsOptIn'
  BY <1>1, <1>2 DEF OperatorInv, QueueFollowsOptIn
<1> QED
  BY <1>1, <1>3 DEF OperatorInv, OperatorShaped, PlanFollowsTheFace

LEMMA ConsoleOther ==
    ASSUME OperatorInv,
           \/ ShowConsole \/ \E k \in Tokens : Trade(k) \/ Lapse(k)
           \/ \E v \in Plans : Choose(v)
           \/ \E a \in Accounts : CancelOwn(a)
    PROVE  OperatorInv'
<1>0. console = [shown |-> console.shown, account |-> console.account, open |-> console.open,
                 choice |-> console.choice, queue |-> console.queue]
  BY DEF OperatorInv, OperatorShaped
<1>1. errand' = errand /\ leave' = leave /\ optIn' = optIn
  BY DEF ShowConsole, Trade, Lapse, Choose, CancelOwn, rows
<1>2. QueueFollowsOptIn'
  BY <1>1 DEF OperatorInv, QueueFollowsOptIn, OptedIn
<1>3. CASE ShowConsole
  <2>1. console' = [console EXCEPT !.shown = TRUE] /\ choiceFor' = choiceFor
    BY <1>3 DEF ShowConsole
  <2>2. console' = [shown |-> TRUE, account |-> console.account, open |-> console.open,
                    choice |-> console.choice, queue |-> console.queue]
    BY <1>0, <2>1
  <2> QED
    BY <1>1, <1>2, <2>1, <2>2 DEF OperatorInv, OperatorShaped, PlanFollowsTheFace
<1>4. ASSUME NEW v \in Plans, Choose(v) PROVE OperatorInv'
  <2>1. console' = [console EXCEPT !.choice = v] /\ choiceFor' = console.account
    BY <1>4 DEF Choose
  <2>2. console' = [shown |-> console.shown, account |-> console.account, open |-> console.open,
                    choice |-> v, queue |-> console.queue]
    BY <1>0, <2>1
  <2> QED
    BY <1>1, <1>2, <2>1, <2>2 DEF OperatorInv, OperatorShaped, PlanFollowsTheFace
<1>5. ASSUME console' = console, choiceFor' = choiceFor PROVE OperatorInv'
  BY <1>1, <1>2, <1>5 DEF OperatorInv, OperatorShaped, PlanFollowsTheFace
<1> QED
  BY <1>3, <1>4, <1>5 DEF Trade, Lapse, CancelOwn

LEMMA OperatorNextInv == OperatorInv /\ [OperatorNext]_operatorVars => OperatorInv'
<1> SUFFICES ASSUME OperatorInv, [OperatorNext]_operatorVars PROVE OperatorInv'
  OBVIOUS
<1>1. CASE UNCHANGED operatorVars
  BY <1>1 DEF operatorVars, rows, OperatorInv, OperatorShaped, QueueFollowsOptIn, OptedIn,
              PlanFollowsTheFace
<1> QED
  BY <1>1, ConsoleOther, SignOutKeeps, ToggleKeeps, ConsoleServed, ConsoleAsks, ConsoleHears
     DEF OperatorNext

\* The inductive invariant of the console (ops.js and its routes).
THEOREM OperatorInvariant == OperatorSpec => []OperatorInv
BY OperatorInitInv, OperatorNextInv, PTL DEF OperatorSpec

\* A Plan that can be submitted was chosen, or drawn, with the Account it goes
\* to on the page (ops.js:68-143), however look-ups overlap and fail.
THEOREM PlanGoesWhereShown == OperatorSpec => []PlanFollowsTheFace
<1>1. OperatorInv => PlanFollowsTheFace
  BY DEF OperatorInv
<1> QED
  BY <1>1, OperatorInvariant, PTL

\* A queue lists nobody who had revoked before it was asked for (quality.ts).
THEOREM RevokedIsUnlisted == OperatorSpec => []ListedWhileOptedIn
<1>1. OperatorInv => ListedWhileOptedIn
  BY DEF OperatorInv, QueueFollowsOptIn, ListedWhileOptedIn
<1> QED
  BY <1>1, OperatorInvariant, PTL
=============================================================================
