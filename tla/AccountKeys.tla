---------------------------- MODULE AccountKeys ----------------------------
(***************************************************************************)
(* The data key of one Account (accountKey and forgetAccountKey in         *)
(* src/src/accounts.ts): minted on first use by whoever encrypts first,    *)
(* stored wrapped in the row of users, and kept unwrapped in a cache of    *)
(* the process.  The consumer calls it inside the transaction that stores  *)
(* the message (consumer.ts); summaries and export call it on the pool,    *)
(* where each statement commits by itself.  Keys are numbered.             *)
(***************************************************************************)
EXTENDS Naturals

CONSTANTS
  Writers,    \* drain passes and handlers that encrypt a body
  MaxKeys,    \* bound: keys ever generated
  MaxBoots    \* bound: restarts of the process

ASSUME KeysAssumption == MaxKeys \in Nat /\ MaxBoots \in Nat

VARIABLES
  wrapped,   \* users.data_key_wrapped as committed, 0 when NULL
  cached,    \* keyCache, 0 when it has no entry
  keys,      \* keys generated so far
  tx,        \* writer -> its transaction
  bodies,    \* keys under which committed bodies are encrypted
  unminted,  \* a transaction that had minted the key was rolled back (history)
  boots

keysVars == <<wrapped, cached, keys, tx, bodies, unminted, boots>>

\* minted is the key the transaction has written to the row and not committed;
\* using is the key it encrypts under.
NoTx == [at |-> "none", minted |-> 0, using |-> 0]

\* The column, the cache and the transactions.
KeysTypeOK ==
  /\ wrapped \in Nat /\ cached \in Nat /\ keys \in Nat /\ boots \in Nat
  /\ bodies \subseteq Nat /\ unminted \in BOOLEAN
  /\ tx \in [Writers -> [at : {"none", "begun", "asking", "keyed"}, minted : Nat, using : Nat]]

KeysInit ==
  /\ wrapped = 0 /\ cached = 0 /\ keys = 0 /\ boots = 0
  /\ tx = [w \in Writers |-> NoTx]
  /\ bodies = {} /\ unminted = FALSE

Begin(w) ==
  /\ tx[w] = NoTx
  /\ tx' = [tx EXCEPT ![w].at = "begun"]
  /\ UNCHANGED <<wrapped, cached, keys, bodies, unminted, boots>>

UseKey(w, k, mints) ==
  tx' = [tx EXCEPT ![w] = [at |-> "keyed", minted |-> IF mints THEN k ELSE 0, using |-> k]]

\* The entry of the cache is used without asking the row.
CachedKey(w) ==
  /\ tx[w].at = "begun" /\ cached # 0
  /\ UseKey(w, cached, FALSE)
  /\ UNCHANGED <<wrapped, cached, keys, bodies, unminted, boots>>

\* No entry: ask the row, which other callers may be doing as well.
MissKey(w) ==
  /\ tx[w].at = "begun" /\ cached = 0
  /\ tx' = [tx EXCEPT ![w].at = "asking"]
  /\ UNCHANGED <<wrapped, cached, keys, bodies, unminted, boots>>

RowLocked == \E v \in Writers : tx[v].minted # 0

AskRow(w, locked) ==
  /\ tx[w].at = "asking" /\ ~locked
  /\ \/ /\ wrapped # 0
        /\ UseKey(w, wrapped, FALSE) /\ cached' = wrapped /\ UNCHANGED keys
     \/ /\ wrapped = 0 /\ keys < MaxKeys
        /\ keys' = keys + 1
        /\ UseKey(w, keys + 1, TRUE) /\ cached' = keys + 1
  /\ UNCHANGED <<wrapped, bodies, unminted, boots>>
\* Mutant: SELECT, then UPDATE, with no row lock between minters.
accountKeyUnlocked(w) == AskRow(w, FALSE)
\* UPDATE ... SET data_key_wrapped = COALESCE(data_key_wrapped, new): waits for
\* a minter that holds the row, keeps a stored key, and fills the cache.
accountKey(w) == AskRow(w, RowLocked)

\* COMMIT of the key the transaction minted and the body it encrypted.
CommitBody(w) ==
  /\ tx[w].at = "keyed"
  /\ bodies' = bodies \cup {tx[w].using}
  /\ wrapped' = IF tx[w].minted # 0 THEN tx[w].minted ELSE wrapped
  /\ tx' = [tx EXCEPT ![w] = NoTx]
  /\ UNCHANGED <<cached, keys, unminted, boots>>

\* On the pool the minted key commits before the body is written.
CommitKey(w) ==
  /\ tx[w].minted # 0
  /\ wrapped' = tx[w].minted
  /\ tx' = [tx EXCEPT ![w].minted = 0]
  /\ UNCHANGED <<cached, keys, bodies, unminted, boots>>

\* A statement fails, or the COMMIT: the row's key goes, the cache's stays.
RollbackBody(w) ==
  /\ tx[w].at # "none"
  /\ unminted' = (unminted \/ tx[w].minted # 0)
  /\ tx' = [tx EXCEPT ![w] = NoTx]
  /\ UNCHANGED <<wrapped, cached, keys, bodies, boots>>

\* A restart empties the cache and rolls back what was under way.
Reboot ==
  /\ boots < MaxBoots /\ boots' = boots + 1
  /\ unminted' = (unminted \/ RowLocked)
  /\ cached' = 0 /\ tx' = [w \in Writers |-> NoTx]
  /\ UNCHANGED <<wrapped, keys, bodies>>

KeysNext ==
  \/ Reboot
  \/ \E w \in Writers :
       \/ Begin(w) \/ CachedKey(w) \/ MissKey(w) \/ accountKey(w)
       \/ CommitBody(w) \/ CommitKey(w) \/ RollbackBody(w)

KeysSpec == KeysInit /\ [][KeysNext]_keysVars

----------------------------------------------------------------------------
\* "Message bodies belong to one Account's key": every stored body is under
\* the key the row holds, the only one a restarted process can find, or under
\* the one a transaction that is still open is about to store there.
BodiesReadable == bodies \subseteq {wrapped} \cup {tx[w].minted : w \in Writers}

\* What the code keeps of that, over overlapping minters and restarts: it
\* holds as long as no transaction that minted the key has been rolled back.
ReadableUnlessUnminted == unminted \/ BodiesReadable
=============================================================================
