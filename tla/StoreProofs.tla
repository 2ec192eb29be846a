----------------------------- MODULE StoreProofs -----------------------------
(***************************************************************************)
(* Proofs about what a holder keeps out of the Summaries (Store), the      *)
(* pages that work it (Desk) and the questions put to it (Ask), all over   *)
(* one database: for any Groups, Summaries, overlapping requests, toggles, *)
(* questions and erasures, which copies an erasure leaves, what an edit    *)
(* keeps, what a row of the Console shows, and what an answer may cite.    *)
(***************************************************************************)
EXTENDS Desk, Ask, TLAPS

\* The holder's pages and questions, and what happens to the Groups meanwhile.
HolderInit == DeskInit /\ AskInit
HolderNext ==
  \/ DeskNext /\ UNCHANGED askVars
  \/ AskNext /\ UNCHANGED pageVars
HolderSpec == HolderInit /\ [][HolderNext]_<<deskVars, askVars>>

-----------------------------------------------------------------------------
(* The Store's rows and requests. *)

Sound(p) == \A f \in DOMAIN p : p[f] # Bad

Wanted(ops, args) ==
  [op : ops, sum : Summaries, arg : args, at : {"read", "write", "find"}, seen : Rows]
CallStates ==
  {Idle} \cup [op : {"answered"}, reply : {"ok", "refused"}]
    \cup Wanted({"state"}, States) \cup Wanted({"update"}, Patches)
    \cup Wanted({"edit"}, 0 .. Bad) \cup Wanted({"reminder", "memory", "drop"}, 0 .. Bad)

\* What a request writes has been parsed.
Parsed(r) ==
  /\ r.op = "update" /\ r.at = "write" => Sound(r.arg)
  /\ r.op = "edit" /\ r.at = "write" => r.arg \in Values

EraseStates == [at : {"idle", "memories", "group"}, doomed : SUBSET (Kinds \X Summaries)]

CallsTyped ==
  /\ call \in [Calls -> CallStates]
  /\ \A c \in Calls : Parsed(call[c])

StoreTyped ==
  /\ StoreTypeOK
  /\ CallsTyped
  /\ erase \in [Groups -> EraseStates]

\* A copy's link is whole while its Summary is there, and an erased Group has
\* none left and no erasure under way.
LinksFollow ==
  /\ \A k \in Kinds, s \in Summaries : Held(k, s) =>
        /\ copy[k][s].link = "whole" <=> Alive(s)
        /\ copy[k][s].link = "erased" => group[GroupOf[s]] = "erased"
  /\ \A g \in Groups : group[g] = "erased" =>
        erase[g].at = "idle" /\ \A s \in Of(g) : ~ Alive(s)

\* What an erasure has passed over was confirmed since it began.
PassedOver(k, s) == Held(k, s) /\ Alive(s) /\ ~ Doomed(k, s)
LateOnes ==
  \A s \in Summaries :
    /\ erase[GroupOf[s]].at # "idle" /\ PassedOver("reminder", s) => copy["reminder"][s].late
    /\ erase[GroupOf[s]].at = "group" /\ PassedOver("memory", s) => copy["memory"][s].late

\* An update writes what it read with its body laid over it, and unless two
\* crossed it is alone and what it read is what was last asked for.
KeepsFor(c, s) ==
  /\ copy["reminder"][s].held \/ summary[s] = "gone"
  /\ s \notin crossed =>
       /\ \A d \in Calls : Writes(d, "update") /\ call[d].sum = s => d = c
       /\ copy["reminder"][s].held => call[c].seen = Laid(call[c].arg, asked[s])
UpdatesKeep == \A c \in Calls, s \in Summaries :
                 Writes(c, "update") /\ call[c].sum = s => KeepsFor(c, s)

ErasureInv == StoreTyped /\ LinksFollow /\ LateOnes /\ CopiesOutlive
StoreInv == ErasureInv /\ UpdatesKeep /\ KeptUnlessCrossed

-----------------------------------------------------------------------------
\* A patch without a bad field, laid over a row, is a row.
LEMMA LaidTyped ==
    ASSUME NEW p \in Patches, Sound(p), NEW r \in Rows
    PROVE  Laid(p, r) \in Rows
<1>1. PICK F \in SUBSET Fields : p \in [F -> Values \cup {Bad}]
  BY DEF Patches
<1>2. \A f \in DOMAIN p : p[f] \in Values
  BY <1>1 DEF Sound
<1> QED
  BY <1>2 DEF Laid, Rows

\* An edit is typed by its operation.
LEMMA WantedTyped ==
    ASSUME NEW r \in CallStates
    PROVE  /\ r.op \in Ops => /\ r.sum \in Summaries /\ r.seen \in Rows
                              /\ r.at \in {"read", "write", "find"}
                              /\ r \in Wanted({r.op}, {r.arg})
           /\ r.op = "state" => r.arg \in States
           /\ r.op = "update" => r.arg \in Patches
           /\ r.op \in {"edit", "reminder", "memory", "drop"} => r.arg \in 0 .. Bad
           /\ r.op \in Ops \cup {"idle", "answered"}
BY DEF CallStates, Wanted, Ops, Idle

\* An answered request is typed, and nothing else about the calls changes.
LEMMA Replied ==
    ASSUME CallsTyped, NEW c \in Calls, NEW r \in {"ok", "refused"}, Reply(c, r)
    PROVE  /\ CallsTyped'
           /\ \A d \in Calls : call'[d] = IF d = c THEN [op |-> "answered", reply |-> r] ELSE call[d]
<1>1. [op |-> "answered", reply |-> r] \in CallStates /\ Parsed([op |-> "answered", reply |-> r])
  BY DEF CallStates, Parsed
<1> QED
  BY <1>1 DEF CallsTyped, Reply

\* A request moves on to its next statement with what it asked for.
LEMMA MovedOn ==
    ASSUME CallsTyped, NEW c \in Calls, call[c].op \in Ops, NEW at \in {"write", "find"},
           call' = [call EXCEPT ![c].at = at],
           at = "write" => call[c].op # "update" /\ (call[c].op = "edit" => call[c].arg \in Values)
    PROVE  /\ CallsTyped'
           /\ \A d \in Calls : d # c => call'[d] = call[d]
           /\ call'[c] = [call[c] EXCEPT !.at = at]
           /\ call'[c].op = call[c].op /\ call'[c].at = at /\ call'[c].sum = call[c].sum
<1> DEFINE r == [call[c] EXCEPT !.at = at]
<1>1. call[c] \in CallStates /\ call[c] \in Wanted({call[c].op}, {call[c].arg})
  BY WantedTyped DEF CallsTyped
<1>2. /\ r.op = call[c].op /\ r.at = at /\ r.arg = call[c].arg /\ r.sum = call[c].sum
      /\ r \in Wanted({call[c].op}, {call[c].arg})
  BY <1>1 DEF Wanted
<1>3. r \in CallStates
  BY <1>1, <1>2, WantedTyped DEF CallStates, Wanted, Ops
<1>4. Parsed(r)
  BY <1>2 DEF Parsed
<1>5. call' = [call EXCEPT ![c] = r]
  BY DEF CallsTyped
<1> QED
  BY <1>2, <1>3, <1>4, <1>5 DEF CallsTyped

\* What one request may write, in the types of the rows.
LEMMA CopyTyped ==
    ASSUME StoreTypeOK, NEW k \in Kinds, NEW s \in Summaries
    PROVE  /\ copy[k][s] \in Copies
           /\ \A v \in Copies : [copy EXCEPT ![k][s] = v] \in [Kinds -> [Summaries -> Copies]]
BY DEF StoreTypeOK

-----------------------------------------------------------------------------
(* The types. *)

LEMMA ServeTyped ==
    ASSUME StoreTyped, Serve
    PROVE  StoreTyped'
<1> USE DEF StoreTyped
<1>0. \A s \in Summaries : GroupOf[s] \in Groups
  BY GroupOfTyped
<1>1. PICK c \in Calls :
        \/ StateRead(c) \/ StateWrite(c)
        \/ \E k \in Kinds : ConfirmRead(c, k) \/ ConfirmWrite(c, k) \/ ConfirmFind(c, k)
        \/ UpdateRead(c) \/ UpdateWrite(c)
        \/ EditRead(c) \/ EditWrite(c) \/ Drop(c)
  BY DEF Serve
<1>2. call[c] \in CallStates /\ Parsed(call[c])
  BY DEF CallsTyped
<1> DEFINE s == call[c].sum
<1>3. call[c].op \in Ops => s \in Summaries
  BY <1>2, WantedTyped
<1>4. CASE StateRead(c)
  <2>1. Proceed(c) \/ Reply(c, "refused")
    BY <1>4 DEF StateRead
  <2>2. CallsTyped'
    BY <1>4, <2>1, Replied, MovedOn DEF StateRead, Reads, Proceed, Ops
  <2> QED
    BY <1>4, <2>2 DEF StateRead, Rest, StoreTypeOK
<1>5. CASE StateWrite(c)
  <2>1. call[c].arg \in States /\ s \in Summaries
    BY <1>2, <1>3, <1>5, WantedTyped DEF StateWrite, Writes, Ops
  <2>2. Reply(c, "ok") \/ Reply(c, "refused")
    BY <1>5 DEF StateWrite
  <2>3. CallsTyped'
    BY <2>2, Replied
  <2>4. state' \in [Summaries -> States]
    BY <1>5, <2>1 DEF StateWrite, StoreTypeOK
  <2> QED
    BY <1>5, <2>3, <2>4 DEF StateWrite, Rest, StoreTypeOK
<1>6. ASSUME NEW k \in Kinds, ConfirmRead(c, k)
      PROVE  StoreTyped'
  <2>1. Proceed(c) \/ Reply(c, "refused")
    BY <1>6 DEF ConfirmRead
  <2>2. CallsTyped'
    BY <1>6, <2>1, Replied, MovedOn DEF ConfirmRead, Reads, Proceed, Ops, Kinds
  <2> QED
    BY <1>6, <2>2 DEF ConfirmRead, Rest, StoreTypeOK
<1>7. ASSUME NEW k \in Kinds, ConfirmFind(c, k)
      PROVE  StoreTyped'
  <2>1. Reply(c, "ok") \/ Reply(c, "refused")
    BY <1>7 DEF ConfirmFind
  <2>2. CallsTyped'
    BY <2>1, Replied
  <2> QED
    BY <1>7, <2>2 DEF ConfirmFind, Rest, StoreTypeOK
<1>8. ASSUME NEW k \in Kinds, ConfirmWrite(c, k)
      PROVE  StoreTyped'
  <2>1. s \in Summaries /\ call[c].op \in Ops /\ call[c].op # "update" /\ call[c].op # "edit"
    BY <1>3, <1>8 DEF ConfirmWrite, Writes, Ops, Kinds
  <2>2. call' = [call EXCEPT ![c].at = "find"] \/ Reply(c, "ok") \/ Reply(c, "refused")
    BY <1>8 DEF ConfirmWrite
  <2>3. CallsTyped'
    BY <2>1, <2>2, Replied, MovedOn
  <2>4. [NoCopy EXCEPT !.held = TRUE, !.late = erase[GroupOf[s]].at # "idle"] \in Copies
    <3>1. NoCopy \in Copies
      BY DEF NoCopy, Copies, Links, Rows, Fresh, Values
    <3>2. (erase[GroupOf[s]].at # "idle") \in BOOLEAN
      OBVIOUS
    <3> QED
      BY <3>1, <3>2 DEF Copies
  <2>5. copy' \in [Kinds -> [Summaries -> Copies]]
    <3> DEFINE v == [NoCopy EXCEPT !.held = TRUE, !.late = erase[GroupOf[s]].at # "idle"]
    <3>1. copy' = copy \/ copy' = [copy EXCEPT ![k][s] = v]
      BY <1>8 DEF ConfirmWrite
    <3>2. v \in Copies
      BY <2>4
    <3> HIDE DEF v
    <3>3. [copy EXCEPT ![k][s] = v] \in [Kinds -> [Summaries -> Copies]]
      BY <2>1, <3>2, CopyTyped
    <3>4. copy \in [Kinds -> [Summaries -> Copies]]
      BY DEF StoreTypeOK
    <3> QED
      BY <3>1, <3>3, <3>4
  <2>6. Fresh \in Rows
    BY DEF Rows, Fresh, Values
  <2>7. asked' \in [Summaries -> Rows]
    BY <1>8, <2>1, <2>6 DEF ConfirmWrite, StoreTypeOK
  <2> QED
    BY <1>8, <2>3, <2>5, <2>7 DEF ConfirmWrite, Rest, StoreTypeOK
<1>9. CASE UpdateRead(c)
  <2> DEFINE seen == Laid(call[c].arg, copy["reminder"][s].row)
             r == [call[c] EXCEPT !.at = "write", !.seen = seen]
  <2>1. s \in Summaries /\ call[c].op = "update" /\ call[c].arg \in Patches
    BY <1>2, <1>3, <1>9, WantedTyped DEF UpdateRead, Reads, Ops
  <2>2. CASE Takes(c)
    <3>1. Sound(call[c].arg)
      BY <2>2 DEF Takes, Sound
    <3>2. seen \in Rows
      BY <2>1, <3>1, CopyTyped, LaidTyped DEF Kinds, Copies
    <3>3. call[c] \in Wanted({"update"}, Patches)
      BY <1>2, <2>1 DEF CallStates, Wanted, Idle
    <3>4. r \in Wanted({"update"}, Patches) /\ r.arg = call[c].arg
      BY <3>2, <3>3 DEF Wanted
    <3>5. r \in CallStates /\ Parsed(r)
      BY <3>1, <3>4 DEF CallStates, Parsed, Wanted
    <3>6. call' = [call EXCEPT ![c] = r]
      BY <1>9, <2>2 DEF UpdateRead, CallsTyped
    <3>7. CallsTyped'
      BY <3>5, <3>6 DEF CallsTyped
    <3>8. crossed' \subseteq Summaries
      BY <1>9, <2>1 DEF UpdateRead, StoreTypeOK
    <3> QED
      BY <1>9, <3>7, <3>8 DEF UpdateRead, StoreTypeOK
  <2>3. CASE ~ Takes(c)
    <3>1. CallsTyped'
      BY <1>9, <2>3, Replied DEF UpdateRead
    <3> QED
      BY <1>9, <2>3, <3>1 DEF UpdateRead, StoreTypeOK
  <2> QED
    BY <2>2, <2>3
<1>10. CASE UpdateWrite(c)
  <2>1. /\ s \in Summaries /\ call[c].arg \in Patches /\ Sound(call[c].arg)
        /\ call[c].seen \in Rows
    BY <1>2, <1>3, <1>10, WantedTyped DEF UpdateWrite, Writes, Ops, Parsed
  <2>2. CallsTyped'
    BY <1>10, Replied DEF UpdateWrite
  <2>3. asked' \in [Summaries -> Rows]
    BY <1>10, <2>1, LaidTyped DEF UpdateWrite, StoreTypeOK
  <2>4. [copy["reminder"][s] EXCEPT !.row = call[c].seen] \in Copies
    BY <2>1, CopyTyped DEF Kinds, Copies
  <2>5. [copy EXCEPT !["reminder"][s].row = call[c].seen]
           = [copy EXCEPT !["reminder"][s] = [copy["reminder"][s] EXCEPT !.row = call[c].seen]]
    BY <2>1 DEF StoreTypeOK, Kinds
  <2>6. copy' \in [Kinds -> [Summaries -> Copies]]
    BY <1>10, <2>1, <2>4, <2>5, CopyTyped DEF UpdateWrite, StoreTypeOK, Kinds
  <2> QED
    BY <1>10, <2>2, <2>3, <2>6 DEF UpdateWrite, Rest, StoreTypeOK
<1>11. CASE EditRead(c)
  <2>1. call[c].arg \in 0 .. Bad
    BY <1>2, <1>11, WantedTyped DEF EditRead, Reads
  <2>2. Reply(c, "refused") \/ (Proceed(c) /\ call[c].arg \in Values)
    BY <1>11, <2>1 DEF EditRead, Bad, Values
  <2>3. CallsTyped'
    BY <1>11, <2>2, Replied, MovedOn DEF EditRead, Reads, Proceed, Ops
  <2> QED
    BY <1>11, <2>3 DEF EditRead, Rest, StoreTypeOK
<1>12. CASE EditWrite(c)
  <2>1. s \in Summaries /\ call[c].arg \in Values
    BY <1>2, <1>3, <1>12 DEF EditWrite, Writes, Ops, Parsed
  <2>2. CallsTyped'
    BY <1>12, Replied DEF EditWrite
  <2>3. [copy["memory"][s] EXCEPT !.row = [@ EXCEPT !["details"] = call[c].arg]] \in Copies
    BY <2>1, CopyTyped DEF Kinds, Copies, Rows
  <2>4. [copy EXCEPT !["memory"][s].row["details"] = call[c].arg]
           = [copy EXCEPT !["memory"][s] =
                [copy["memory"][s] EXCEPT !.row = [@ EXCEPT !["details"] = call[c].arg]]]
    BY <2>1 DEF StoreTypeOK, Kinds
  <2>5. copy' \in [Kinds -> [Summaries -> Copies]]
    BY <1>12, <2>1, <2>3, <2>4, CopyTyped DEF EditWrite, StoreTypeOK, Kinds
  <2> QED
    BY <1>12, <2>2, <2>5 DEF EditWrite, Rest, StoreTypeOK
<1>13. CASE Drop(c)
  <2>1. s \in Summaries
    BY <1>3, <1>13 DEF Drop, Reads, Ops
  <2>2. Reply(c, "ok") \/ Reply(c, "refused")
    BY <1>13 DEF Drop
  <2>3. CallsTyped'
    BY <2>2, Replied
  <2>4. NoCopy \in Copies
    BY DEF NoCopy, Copies, Links, Rows, Fresh, Values
  <2>5. copy' \in [Kinds -> [Summaries -> Copies]]
    BY <1>13, <2>1, <2>4, CopyTyped DEF Drop, StoreTypeOK, Kinds
  <2> QED
    BY <1>13, <2>3, <2>5 DEF Drop, Rest, StoreTypeOK
<1> QED
  BY <1>1, <1>4, <1>5, <1>6, <1>7, <1>8, <1>9, <1>10, <1>11, <1>12, <1>13

\* What is left of a Summary that goes, in the types of the rows.
LEMMA Vanished ==
    ASSUME StoreTypeOK, NEW gone \in SUBSET Summaries, NEW how \in {"purged", "erased"},
           Vanish(gone, how)
    PROVE  /\ summary' \in [Summaries -> {"new", "old", "gone"}]
           /\ state' \in [Summaries -> States]
           /\ copy' \in [Kinds -> [Summaries -> Copies]]
           /\ \A s \in Summaries : summary'[s] = IF s \in gone THEN "gone" ELSE summary[s]
           /\ \A s \in Summaries : state'[s] = IF s \in gone THEN "none" ELSE state[s]
           /\ \A k \in Kinds, s \in Summaries :
                /\ s \notin gone \/ ~ Held(k, s) => copy'[k][s] = copy[k][s]
                /\ s \in gone /\ Held(k, s) /\ Doomed(k, s) => copy'[k][s] = NoCopy
                /\ s \in gone /\ Held(k, s) /\ ~ Doomed(k, s) =>
                     copy'[k][s] = [copy[k][s] EXCEPT !.link = how]
<1>1. \A k \in Kinds, s \in Summaries :
        /\ s \notin gone \/ ~ Held(k, s) => copy'[k][s] = copy[k][s]
        /\ s \in gone /\ Held(k, s) /\ Doomed(k, s) => copy'[k][s] = NoCopy
        /\ s \in gone /\ Held(k, s) /\ ~ Doomed(k, s) =>
             copy'[k][s] = [copy[k][s] EXCEPT !.link = how]
  BY DEF Vanish
<1>2. ASSUME NEW k \in Kinds, NEW s \in Summaries
      PROVE  copy'[k][s] \in Copies
  <2>1. copy[k][s] \in Copies
    BY CopyTyped
  <2>2. NoCopy \in Copies
    BY DEF NoCopy, Copies, Links, Rows, Fresh, Values
  <2>3. [copy[k][s] EXCEPT !.link = how] \in Copies
    BY <2>1 DEF Copies, Links
  <2> QED
    BY <1>1, <2>1, <2>2, <2>3
<1>3. copy' \in [Kinds -> [Summaries -> Copies]]
  BY <1>2 DEF Vanish
<1>4. /\ summary' = [s \in Summaries |-> IF s \in gone THEN "gone" ELSE summary[s]]
      /\ state' = [s \in Summaries |-> IF s \in gone THEN "none" ELSE state[s]]
  BY DEF Vanish
<1>5. summary' \in [Summaries -> {"new", "old", "gone"}] /\ state' \in [Summaries -> States]
  BY <1>4 DEF StoreTypeOK, States
<1> QED
  BY <1>1, <1>3, <1>4, <1>5

LEMMA ErasingTyped ==
    ASSUME StoreTyped, Erasing \/ Passing
    PROVE  StoreTyped'
<1> USE DEF StoreTyped
<1>1. ASSUME NEW g \in Groups, NEW k \in Kinds, NEW from, NEW to \in {"memories", "group"},
             EraseCopies(g, k, from, to)
      PROVE  StoreTyped'
  <2> DEFINE more == {<<k, s>> : s \in {t \in Of(g) : Held(k, t) /\ copy[k][t].link = "whole"}}
  <2>1. more \subseteq Kinds \X Summaries
    BY DEF Of
  <2>2. erase[g] \in EraseStates
    OBVIOUS
  <2>3. [at |-> to, doomed |-> erase[g].doomed \cup more] \in EraseStates
    BY <2>1, <2>2 DEF EraseStates
  <2>4. erase' = [erase EXCEPT ![g] = [at |-> to, doomed |-> erase[g].doomed \cup more]]
    BY <1>1 DEF EraseCopies
  <2>5. erase' \in [Groups -> EraseStates]
    BY <2>3, <2>4
  <2> QED
    BY <1>1, <2>5 DEF EraseCopies, StoreTypeOK, CallsTyped
<1>2. Resting \in EraseStates
  BY DEF Resting, EraseStates
<1>3. ASSUME NEW g \in Groups, EraseGroup(g)
      PROVE  StoreTyped'
  <2>1. {s \in Of(g) : Alive(s)} \in SUBSET Summaries
    BY DEF Of
  <2>2. Vanish({s \in Of(g) : Alive(s)}, "erased")
    BY <1>3 DEF EraseGroup
  <2>3. /\ summary' \in [Summaries -> {"new", "old", "gone"}]
        /\ state' \in [Summaries -> States]
        /\ copy' \in [Kinds -> [Summaries -> Copies]]
    BY <2>1, <2>2, Vanished
  <2> QED
    BY <1>2, <1>3, <2>3 DEF EraseGroup, StoreTypeOK, CallsTyped
<1>4. ASSUME NEW g \in Groups, EraseThrows(g)
      PROVE  StoreTyped'
  <2>1. ASSUME NEW k \in Kinds, NEW s \in Summaries
        PROVE  [copy[k][s] EXCEPT !.late = @ /\ GroupOf[s] # g] \in Copies
    <3>1. copy[k][s] \in Copies
      BY CopyTyped
    <3>2. (copy[k][s].late /\ GroupOf[s] # g) \in BOOLEAN
      OBVIOUS
    <3> QED
      BY <3>1, <3>2 DEF Copies
  <2>2. copy' \in [Kinds -> [Summaries -> Copies]]
    BY <1>4, <2>1 DEF EraseThrows
  <2> QED
    BY <1>2, <1>4, <2>2 DEF EraseThrows, StoreTypeOK, CallsTyped
<1>5. ASSUME NEW s \in Summaries, Age(s)
      PROVE  StoreTyped'
  BY <1>5 DEF Age, StoreTypeOK, CallsTyped
<1>6. ASSUME NEW s \in Summaries, Purge(s)
      PROVE  StoreTyped'
  <2>1. Vanish({s}, "purged") /\ {s} \in SUBSET Summaries
    BY <1>6 DEF Purge
  <2>2. /\ summary' \in [Summaries -> {"new", "old", "gone"}]
        /\ state' \in [Summaries -> States]
        /\ copy' \in [Kinds -> [Summaries -> Copies]]
    BY <2>1, Vanished
  <2> QED
    BY <1>6, <2>2 DEF Purge, StoreTypeOK, CallsTyped
<1> QED
  BY <1>1, <1>3, <1>4, <1>5, <1>6 DEF Erasing, Passing, EraseReminders, EraseMemories, Kinds

-----------------------------------------------------------------------------
(* What an erasure leaves. *)

\* What a request may do to a copy: leave what it points to, make it, take it away.
Same(k, s) ==
  /\ copy'[k][s].held = copy[k][s].held /\ copy'[k][s].link = copy[k][s].link
  /\ copy'[k][s].late = copy[k][s].late
Born(k, s) ==
  /\ ~ Held(k, s) /\ Alive(s)
  /\ copy'[k][s].held /\ copy'[k][s].link = "whole"
  /\ copy'[k][s].late = (erase[GroupOf[s]].at # "idle")
Touched == \A k \in Kinds, s \in Summaries : Same(k, s) \/ Born(k, s) \/ ~ copy'[k][s].held

LEMMA ServeTouches ==
    ASSUME StoreTyped, Serve
    PROVE  Touched /\ UNCHANGED <<group, summary, erase>>
<1> USE DEF StoreTyped
<1>0. copy' = copy => Touched
  BY DEF Touched, Same
<1>1. PICK c \in Calls :
        \/ StateRead(c) \/ StateWrite(c)
        \/ \E k \in Kinds : ConfirmRead(c, k) \/ ConfirmWrite(c, k) \/ ConfirmFind(c, k)
        \/ UpdateRead(c) \/ UpdateWrite(c)
        \/ EditRead(c) \/ EditWrite(c) \/ Drop(c)
  BY DEF Serve
<1> DEFINE s == call[c].sum
<1>2. call[c] \in CallStates /\ (call[c].op \in Ops => s \in Summaries)
  BY WantedTyped DEF CallsTyped
<1>3. ASSUME NEW k0 \in Kinds, NEW s0 \in Summaries, NEW v,
             copy' = [copy EXCEPT ![k0][s0] = v]
      PROVE  /\ copy'[k0][s0] = v
             /\ \A k \in Kinds, t \in Summaries :
                  k # k0 \/ t # s0 => copy'[k][t] = copy[k][t]
  BY <1>3 DEF StoreTypeOK
<1>4. CASE StateRead(c) \/ StateWrite(c) \/ UpdateRead(c) \/ EditRead(c)
  BY <1>0, <1>4 DEF StateRead, StateWrite, UpdateRead, EditRead, Rest
<1>5. ASSUME NEW k \in Kinds, ConfirmRead(c, k) \/ ConfirmFind(c, k)
      PROVE  Touched /\ UNCHANGED <<group, summary, erase>>
  BY <1>0, <1>5 DEF ConfirmRead, ConfirmFind, Rest
<1>6. ASSUME NEW k \in Kinds, ConfirmWrite(c, k)
      PROVE  Touched /\ UNCHANGED <<group, summary, erase>>
  <2>1. s \in Summaries
    BY <1>2, <1>6 DEF ConfirmWrite, Writes, Ops, Kinds
  <2> DEFINE v == [NoCopy EXCEPT !.held = TRUE, !.late = erase[GroupOf[s]].at # "idle"]
  <2>2. \/ copy' = copy
        \/ Alive(s) /\ ~ Held(k, s) /\ copy' = [copy EXCEPT ![k][s] = v]
    BY <1>6 DEF ConfirmWrite
  <2>3. v.held /\ v.link = "whole" /\ v.late = (erase[GroupOf[s]].at # "idle")
    BY DEF NoCopy
  <2> HIDE DEF v
  <2>4. ASSUME Alive(s) /\ ~ Held(k, s) /\ copy' = [copy EXCEPT ![k][s] = v]
        PROVE  Touched
    <3>1. copy'[k][s] = v
      BY <1>3, <2>1, <2>4
    <3>2. Born(k, s)
      BY <2>3, <2>4, <3>1 DEF Born
    <3>3. \A j \in Kinds, t \in Summaries : j # k \/ t # s => copy'[j][t] = copy[j][t]
      BY <1>3, <2>1, <2>4
    <3>4. ASSUME NEW j \in Kinds, NEW t \in Summaries
          PROVE  Same(j, t) \/ Born(j, t)
      <4>1. CASE j = k /\ t = s
        BY <3>2, <4>1
      <4>2. CASE j # k \/ t # s
        BY <3>3, <4>2 DEF Same
      <4> QED
        BY <4>1, <4>2
    <3> QED
      BY <3>4 DEF Touched
  <2>5. Touched
    BY <1>0, <2>2, <2>4
  <2> QED
    BY <1>6, <2>5 DEF ConfirmWrite, Rest
<1>7. CASE UpdateWrite(c)
  <2>1. s \in Summaries
    BY <1>2, <1>7 DEF UpdateWrite, Writes, Ops
  <2>2. copy' = copy \/ copy' = [copy EXCEPT !["reminder"][s].row = call[c].seen]
    BY <1>7 DEF UpdateWrite
  <2>3. ASSUME NEW k \in Kinds, NEW t \in Summaries
        PROVE  Same(k, t)
    <3>1. copy[k][t] \in Copies
      BY CopyTyped
    <3> QED
      BY <2>1, <2>2, <3>1 DEF Same, StoreTypeOK, Copies, Kinds
  <2> QED
    BY <1>7, <2>3 DEF UpdateWrite, Rest, Touched
<1>8. CASE EditWrite(c)
  <2>1. s \in Summaries
    BY <1>2, <1>8 DEF EditWrite, Writes, Ops
  <2> DEFINE r == [copy["memory"][s].row EXCEPT !["details"] = call[c].arg]
             v == [copy["memory"][s] EXCEPT !.row = r]
  <2>2. copy' = copy \/ copy' = [copy EXCEPT !["memory"][s] = v]
    BY <1>8, <2>1 DEF EditWrite, StoreTypeOK, Kinds
  <2>3. ASSUME NEW k \in Kinds, NEW t \in Summaries
        PROVE  Same(k, t)
    <3>1. copy["memory"][s] \in Copies
      BY <2>1, CopyTyped DEF Kinds
    <3>2. /\ v.held = copy["memory"][s].held /\ v.link = copy["memory"][s].link
          /\ v.late = copy["memory"][s].late
      BY <3>1 DEF Copies
    <3> HIDE DEF v
    <3>3. CASE copy' = copy
      BY <3>3 DEF Same
    <3>4. CASE copy' = [copy EXCEPT !["memory"][s] = v]
      <4>1. /\ copy'["memory"][s] = v
            /\ k # "memory" \/ t # s => copy'[k][t] = copy[k][t]
        BY <1>3, <2>1, <3>4 DEF Kinds
      <4> QED
        BY <3>2, <4>1 DEF Same
    <3> QED
      BY <2>2, <3>3, <3>4
  <2> QED
    BY <1>8, <2>3 DEF EditWrite, Rest, Touched
<1>9. CASE Drop(c)
  <2>1. s \in Summaries
    BY <1>2, <1>9 DEF Drop, Reads, Ops
  <2>2. copy'["memory"][s] = NoCopy /\ \A k \in Kinds, t \in Summaries :
             k # "memory" \/ t # s => copy'[k][t] = copy[k][t]
    BY <1>3, <1>9, <2>1 DEF Drop, Kinds
  <2>3. Touched
    BY <2>2 DEF Touched, Same, NoCopy
  <2> QED
    BY <1>9, <2>3 DEF Drop, Rest
<1> QED
  BY <1>1, <1>4, <1>5, <1>6, <1>7, <1>8, <1>9

\* Where no Summary goes and no erasure moves, requests keep the invariant of
\* the erasure: what they make is late if one is under way.
LEMMA RequestsKeepErasure ==
    ASSUME ErasureInv, StoreTyped', Touched, UNCHANGED <<summary, erase>>,
           \A g \in Groups : group'[g] = "erased" <=> group[g] = "erased"
    PROVE  ErasureInv'
<1> USE GroupOfTyped DEF ErasureInv
<1>1. LinksFollow'
  <2>1. ASSUME NEW k \in Kinds, NEW s \in Summaries, Held(k, s)'
        PROVE  /\ copy'[k][s].link = "whole" <=> Alive(s)'
               /\ copy'[k][s].link = "erased" => group'[GroupOf[s]] = "erased"
    BY <2>1 DEF Touched, Same, Born, LinksFollow, Held, Alive
  <2>2. ASSUME NEW g \in Groups, group'[g] = "erased"
        PROVE  (erase[g].at = "idle" /\ \A s \in Of(g) : ~ Alive(s))'
    BY <2>2 DEF LinksFollow, Alive, Of
  <2> QED
    BY <2>1, <2>2 DEF LinksFollow
<1>2. LateOnes'
  <2>1. ASSUME NEW k \in Kinds, NEW s \in Summaries, PassedOver(k, s)'
        PROVE  \/ PassedOver(k, s) /\ copy'[k][s].late = copy[k][s].late
               \/ copy'[k][s].late = (erase[GroupOf[s]].at # "idle")
    BY <2>1 DEF Touched, Same, Born, PassedOver, Held, Alive, Doomed
  <2> QED
    BY <2>1 DEF LateOnes, Kinds
<1>3. CopiesOutlive'
  <2>1. ASSUME NEW p \in Kinds \X Summaries, Held(p[1], p[2])', group'[GroupOf[p[2]]] = "erased"
        PROVE  copy'[p[1]][p[2]].late \/ copy'[p[1]][p[2]].link = "purged"
    <3>1. p[1] \in Kinds /\ p[2] \in Summaries /\ GroupOf[p[2]] \in Groups
      OBVIOUS
    <3>2. group[GroupOf[p[2]]] = "erased" /\ ~ Alive(p[2])
      BY <2>1, <3>1 DEF LinksFollow, Of
    <3>3. Same(p[1], p[2])
      BY <2>1, <3>1, <3>2 DEF Touched, Born, Held
    <3> QED
      BY <2>1, <3>1, <3>2, <3>3 DEF CopiesOutlive, Survivors, Same, Held
  <2> QED
    BY <2>1 DEF CopiesOutlive, Survivors
<1> QED
  BY <1>1, <1>2, <1>3

\* The erasure's own statements, and the purge.
LEMMA ErasingKeepsErasure ==
    ASSUME ErasureInv, Erasing \/ Passing
    PROVE  ErasureInv'
<1> USE GroupOfTyped DEF ErasureInv
<1>1. StoreTyped'
  BY ErasingTyped
<1>2. \A g \in Groups : erase[g].at \in {"idle", "memories", "group"}
  BY DEF StoreTyped, EraseStates
<1>3. ASSUME NEW g \in Groups, NEW k \in Kinds,
             NEW from \in {"idle", "memories"}, NEW to \in {"memories", "group"},
             EraseCopies(g, k, from, to),
             \/ from = "idle" /\ to = "memories" /\ k = "reminder"
             \/ from = "memories" /\ to = "group" /\ k = "memory"
      PROVE  ErasureInv'
  <2>1. /\ erase[g].at = from /\ group[g] # "erased" /\ erase'[g].at = to
        /\ \A h \in Groups : h # g => erase'[h] = erase[h]
        /\ UNCHANGED <<group, summary, copy>>
        /\ erase'[g].doomed = erase[g].doomed \cup
             {<<k, s>> : s \in {t \in Of(g) : Held(k, t) /\ copy[k][t].link = "whole"}}
    BY <1>3 DEF EraseCopies, StoreTyped
  <2>2. LinksFollow'
    BY <2>1 DEF LinksFollow, Held, Alive, Of
  <2>3. ASSUME NEW j \in Kinds, NEW s \in Summaries, PassedOver(j, s)'
        PROVE  PassedOver(j, s) /\ ~ (GroupOf[s] = g /\ j = k)
    <3>1. PassedOver(j, s)
      BY <2>1, <2>3 DEF PassedOver, Held, Alive, Doomed
    <3>2. ASSUME GroupOf[s] = g, j = k
          PROVE  FALSE
      <4>1. copy[k][s].link = "whole" /\ s \in Of(g) /\ Held(k, s)
        BY <3>1, <3>2 DEF LinksFollow, PassedOver, Of
      <4>2. <<k, s>> \in erase'[g].doomed
        BY <2>1, <4>1
      <4> QED
        BY <2>3, <3>2, <4>2 DEF PassedOver, Doomed
    <3> QED
      BY <3>1, <3>2
  <2>4. LateOnes'
    <3>1. ASSUME NEW s \in Summaries, erase'[GroupOf[s]].at # "idle", PassedOver("reminder", s)'
          PROVE  copy'["reminder"][s].late
      <4>1. PassedOver("reminder", s) /\ ~ (GroupOf[s] = g /\ k = "reminder")
        BY <2>3, <3>1 DEF Kinds
      <4>2. erase[GroupOf[s]].at # "idle"
        BY <1>3, <2>1, <3>1, <4>1
      <4> QED
        BY <2>1, <4>1, <4>2 DEF LateOnes
    <3>2. ASSUME NEW s \in Summaries, erase'[GroupOf[s]].at = "group", PassedOver("memory", s)'
          PROVE  copy'["memory"][s].late
      <4>1. PassedOver("memory", s) /\ ~ (GroupOf[s] = g /\ k = "memory")
        BY <2>3, <3>2 DEF Kinds
      <4>2. erase[GroupOf[s]].at = "group"
        BY <1>3, <2>1, <3>2, <4>1
      <4> QED
        BY <2>1, <4>1, <4>2 DEF LateOnes
    <3> QED
      BY <3>1, <3>2 DEF LateOnes
  <2>5. CopiesOutlive'
    BY <2>1 DEF CopiesOutlive, Survivors, Held
  <2> QED
    BY <1>1, <2>2, <2>4, <2>5
<1>4. ASSUME NEW g \in Groups, EraseGroup(g)
      PROVE  ErasureInv'
  <2> DEFINE gone == {s \in Of(g) : Alive(s)}
  <2>1. gone \in SUBSET Summaries /\ Vanish(gone, "erased")
    BY <1>4 DEF EraseGroup, Of
  <2>2. /\ \A s \in Summaries : summary'[s] = IF s \in gone THEN "gone" ELSE summary[s]
        /\ \A k \in Kinds, s \in Summaries :
             /\ s \notin gone \/ ~ Held(k, s) => copy'[k][s] = copy[k][s]
             /\ s \in gone /\ Held(k, s) /\ Doomed(k, s) => copy'[k][s] = NoCopy
             /\ s \in gone /\ Held(k, s) /\ ~ Doomed(k, s) =>
                  copy'[k][s] = [copy[k][s] EXCEPT !.link = "erased"]
    BY <2>1, Vanished DEF StoreTyped
  <2>3. /\ group' = [group EXCEPT ![g] = "erased"] /\ erase[g].at = "group"
        /\ erase' = [erase EXCEPT ![g] = Resting]
    BY <1>4 DEF EraseGroup
  <2>4. \A h \in Groups : erase'[h] = IF h = g THEN Resting ELSE erase[h]
    BY <2>3 DEF StoreTyped
  <2>5. \A h \in Groups : group'[h] = IF h = g THEN "erased" ELSE group[h]
    BY <2>3 DEF StoreTyped, StoreTypeOK
  <2>6. \A s \in Summaries : s \in gone <=> GroupOf[s] = g /\ Alive(s)
    BY DEF Of
  <2>7. \A k \in Kinds, s \in Summaries : copy[k][s] \in Copies
    BY CopyTyped DEF StoreTyped
  <2> HIDE DEF gone
  <2>12. ASSUME NEW k \in Kinds, NEW s \in Summaries, Held(k, s)'
         PROVE  \/ s \notin gone /\ copy'[k][s] = copy[k][s] /\ Held(k, s) /\ (Alive(s)' <=> Alive(s))
                \/ /\ s \in gone /\ Held(k, s) /\ ~ Doomed(k, s) /\ ~ Alive(s)'
                   /\ copy'[k][s].link = "erased" /\ copy'[k][s].late = copy[k][s].late
    <3>1. CASE s \notin gone
      <4>1. copy'[k][s] = copy[k][s] /\ summary'[s] = summary[s]
        BY <2>2, <3>1
      <4> QED
        BY <2>12, <3>1, <4>1 DEF Held, Alive
    <3>2. CASE s \in gone
      <4>1. ~ NoCopy.held
        BY DEF NoCopy
      <4>2. Held(k, s) /\ ~ Doomed(k, s)
        BY <2>2, <2>12, <3>2, <4>1 DEF Held
      <4>3. copy'[k][s] = [copy[k][s] EXCEPT !.link = "erased"] /\ summary'[s] = "gone"
        BY <2>2, <3>2, <4>2
      <4> QED
        BY <2>7, <3>2, <4>2, <4>3 DEF Copies, Alive
    <3> QED
      BY <3>1, <3>2
  <2>13. \A s \in Summaries : GroupOf[s] \in Groups
    OBVIOUS
  <2>8. LinksFollow'
    <3>1. ASSUME NEW k \in Kinds, NEW s \in Summaries, Held(k, s)'
          PROVE  /\ copy'[k][s].link = "whole" <=> Alive(s)'
                 /\ copy'[k][s].link = "erased" => group'[GroupOf[s]] = "erased"
      BY <2>5, <2>6, <2>12, <2>13, <3>1 DEF LinksFollow
    <3>2. ASSUME NEW h \in Groups, group'[h] = "erased"
          PROVE  (erase[h].at = "idle" /\ \A s \in Of(h) : ~ Alive(s))'
      BY <2>2, <2>4, <2>5, <2>6, <3>2 DEF LinksFollow, Alive, Of, Resting
    <3> QED
      BY <3>1, <3>2 DEF LinksFollow
  <2>9. ASSUME NEW k \in Kinds, NEW s \in Summaries, PassedOver(k, s)', erase'[GroupOf[s]].at # "idle"
        PROVE  PassedOver(k, s) /\ copy'[k][s] = copy[k][s] /\ erase'[GroupOf[s]] = erase[GroupOf[s]]
    <3>1. GroupOf[s] # g /\ s \notin gone
      BY <2>4, <2>6, <2>9 DEF Resting
    <3> QED
      BY <2>2, <2>4, <2>9, <3>1 DEF PassedOver, Held, Alive, Doomed
  <2>10. LateOnes'
    BY <2>9 DEF LateOnes, Kinds
  <2>11. CopiesOutlive'
    <3>1. ASSUME NEW p \in Kinds \X Summaries, Held(p[1], p[2])', group'[GroupOf[p[2]]] = "erased"
          PROVE  copy'[p[1]][p[2]].late \/ copy'[p[1]][p[2]].link = "purged"
      <4> DEFINE k == p[1]  s == p[2]
      <4>1. k \in Kinds /\ s \in Summaries /\ GroupOf[s] \in Groups
        OBVIOUS
      <4>2. CASE s \in gone
        <5>1. Held(k, s) /\ ~ Doomed(k, s) /\ copy'[k][s].late = copy[k][s].late
          BY <2>12, <3>1, <4>1, <4>2
        <5>2. copy[k][s].late
          BY <2>3, <2>6, <4>1, <4>2, <5>1 DEF LateOnes, PassedOver, Kinds
        <5> QED
          BY <5>1, <5>2
      <4>3. CASE s \notin gone
        <5>1. copy'[k][s] = copy[k][s] /\ Held(k, s)
          BY <2>2, <3>1, <4>1, <4>3 DEF Held
        <5>2. CASE GroupOf[s] = g
          <6>1. ~ Alive(s) /\ copy[k][s].link \in {"purged", "erased"}
            BY <2>6, <2>7, <4>1, <4>3, <5>1, <5>2 DEF LinksFollow, Copies, Links
          <6>2. group[g] # "erased"
            BY <2>3 DEF LinksFollow
          <6> QED
            BY <4>1, <5>1, <5>2, <6>1, <6>2 DEF LinksFollow
        <5>3. CASE GroupOf[s] # g
          BY <2>5, <3>1, <4>1, <5>1, <5>3 DEF CopiesOutlive, Survivors
        <5> QED
          BY <5>2, <5>3
      <4> QED
        BY <4>2, <4>3
    <3> QED
      BY <3>1 DEF CopiesOutlive, Survivors
  <2> QED
    BY <1>1, <2>8, <2>10, <2>11
<1>5. ASSUME NEW g \in Groups, EraseThrows(g)
      PROVE  ErasureInv'
  <2>1. /\ erase[g].at # "idle" /\ UNCHANGED <<group, summary>>
        /\ \A h \in Groups : erase'[h] = IF h = g THEN Resting ELSE erase[h]
    BY <1>5 DEF EraseThrows, StoreTyped
  <2>2. ASSUME NEW k \in Kinds, NEW s \in Summaries
        PROVE  /\ copy'[k][s].held = copy[k][s].held /\ copy'[k][s].link = copy[k][s].link
               /\ GroupOf[s] # g => copy'[k][s].late = copy[k][s].late
    <3>1. copy[k][s] \in Copies /\ copy'[k][s] = [copy[k][s] EXCEPT !.late = @ /\ GroupOf[s] # g]
      BY <1>5, CopyTyped DEF EraseThrows, StoreTyped
    <3> QED
      BY <3>1 DEF Copies
  <2>3. LinksFollow'
    BY <2>1, <2>2 DEF LinksFollow, Held, Alive, Of, Resting
  <2>4. ASSUME NEW k \in Kinds, NEW s \in Summaries, PassedOver(k, s)', erase'[GroupOf[s]].at # "idle"
        PROVE  /\ PassedOver(k, s) /\ copy'[k][s].late = copy[k][s].late
               /\ erase'[GroupOf[s]] = erase[GroupOf[s]]
    <3>1. GroupOf[s] # g
      BY <2>1, <2>4 DEF Resting
    <3> QED
      BY <2>1, <2>2, <2>4, <3>1 DEF PassedOver, Held, Alive, Doomed
  <2>5. LateOnes'
    BY <2>4 DEF LateOnes, Kinds
  <2>6. CopiesOutlive'
    <3>1. ASSUME NEW p \in Kinds \X Summaries, Held(p[1], p[2])', group'[GroupOf[p[2]]] = "erased"
          PROVE  copy'[p[1]][p[2]].late \/ copy'[p[1]][p[2]].link = "purged"
      <4>1. p[1] \in Kinds /\ p[2] \in Summaries /\ GroupOf[p[2]] \in Groups
        OBVIOUS
      <4>2. group[GroupOf[p[2]]] = "erased" /\ GroupOf[p[2]] # g
        BY <2>1, <3>1, <4>1 DEF LinksFollow
      <4> QED
        BY <2>2, <3>1, <4>1, <4>2 DEF CopiesOutlive, Survivors, Held
    <3> QED
      BY <3>1 DEF CopiesOutlive, Survivors
  <2> QED
    BY <1>1, <2>3, <2>5, <2>6
<1>6. ASSUME NEW s \in Summaries, Age(s)
      PROVE  ErasureInv'
  <2>1. /\ UNCHANGED <<group, copy, erase>>
        /\ \A t \in Summaries : Alive(t)' <=> Alive(t)
    BY <1>6 DEF Age, Alive, StoreTyped, StoreTypeOK
  <2>2. LinksFollow'
    BY <2>1 DEF LinksFollow, Held, Of
  <2>3. \A k \in Kinds, t \in Summaries : PassedOver(k, t)' <=> PassedOver(k, t)
    BY <2>1 DEF PassedOver, Held, Doomed
  <2>4. LateOnes'
    BY <2>1, <2>3 DEF LateOnes, Kinds
  <2>5. CopiesOutlive'
    BY <2>1 DEF CopiesOutlive, Survivors, Held
  <2> QED
    BY <1>1, <2>2, <2>4, <2>5
<1>7. ASSUME NEW r \in Summaries, Purge(r)
      PROVE  ErasureInv'
  <2>1. /\ Vanish({r}, "purged") /\ UNCHANGED <<group, erase>> /\ Alive(r)
        /\ \A k \in Kinds : ~ Doomed(k, r)
    BY <1>7 DEF Purge, Alive
  <2>2. /\ \A s \in Summaries : summary'[s] = IF s \in {r} THEN "gone" ELSE summary[s]
        /\ \A k \in Kinds, s \in Summaries :
             /\ s \notin {r} \/ ~ Held(k, s) => copy'[k][s] = copy[k][s]
             /\ s \in {r} /\ Held(k, s) /\ ~ Doomed(k, s) =>
                  copy'[k][s] = [copy[k][s] EXCEPT !.link = "purged"]
    BY <2>1, Vanished DEF StoreTyped
  <2>3. \A k \in Kinds, s \in Summaries : copy[k][s] \in Copies
    BY CopyTyped DEF StoreTyped
  <2>4. ASSUME NEW k \in Kinds, NEW s \in Summaries, Held(k, s)'
        PROVE  \/ s # r /\ copy'[k][s] = copy[k][s] /\ Held(k, s) /\ (Alive(s)' <=> Alive(s))
               \/ s = r /\ copy'[k][s].link = "purged" /\ ~ Alive(s)'
    <3>1. CASE s # r
      BY <2>2, <2>4, <3>1 DEF Held, Alive
    <3>2. CASE s = r
      <4>1. Held(k, s) /\ ~ Doomed(k, s)
        BY <2>1, <2>2, <2>4, <3>2 DEF Held
      <4>2. copy'[k][s] = [copy[k][s] EXCEPT !.link = "purged"] /\ summary'[s] = "gone"
        BY <2>2, <3>2, <4>1
      <4> QED
        BY <2>3, <3>2, <4>2 DEF Copies, Alive
    <3> QED
      BY <3>1, <3>2
  <2>5. LinksFollow'
    <3>1. ASSUME NEW k \in Kinds, NEW s \in Summaries, Held(k, s)'
          PROVE  /\ copy'[k][s].link = "whole" <=> Alive(s)'
                 /\ copy'[k][s].link = "erased" => group'[GroupOf[s]] = "erased"
      BY <2>1, <2>4, <3>1 DEF LinksFollow
    <3>2. ASSUME NEW h \in Groups, group'[h] = "erased"
          PROVE  (erase[h].at = "idle" /\ \A s \in Of(h) : ~ Alive(s))'
      BY <2>1, <2>2, <3>2 DEF LinksFollow, Alive, Of
    <3> QED
      BY <3>1, <3>2 DEF LinksFollow
  <2>6. ASSUME NEW k \in Kinds, NEW s \in Summaries, PassedOver(k, s)'
        PROVE  PassedOver(k, s) /\ copy'[k][s] = copy[k][s]
    BY <2>1, <2>4, <2>6 DEF PassedOver, Doomed
  <2>7. LateOnes'
    BY <2>1, <2>6 DEF LateOnes, Kinds
  <2>8. CopiesOutlive'
    <3>1. ASSUME NEW p \in Kinds \X Summaries, Held(p[1], p[2])', group'[GroupOf[p[2]]] = "erased"
          PROVE  copy'[p[1]][p[2]].late \/ copy'[p[1]][p[2]].link = "purged"
      <4>1. p[1] \in Kinds /\ p[2] \in Summaries
        OBVIOUS
      <4> QED
        BY <2>1, <2>4, <3>1, <4>1 DEF CopiesOutlive, Survivors
    <3> QED
      BY <3>1 DEF CopiesOutlive, Survivors
  <2> QED
    BY <1>1, <2>5, <2>7, <2>8
<1>8. ASSUME NEW g \in Groups, EraseReminders(g) \/ EraseMemories(g)
      PROVE  ErasureInv'
  <2>1. CASE EraseReminders(g)
    <3>1. EraseCopies(g, "reminder", "idle", "memories") /\ "reminder" \in Kinds
      BY <2>1 DEF EraseReminders, Kinds
    <3> QED
      BY <1>3, <3>1
  <2>2. CASE EraseMemories(g)
    <3>1. EraseCopies(g, "memory", "memories", "group") /\ "memory" \in Kinds
      BY <2>2 DEF EraseMemories, Kinds
    <3> QED
      BY <1>3, <3>1
  <2> QED
    BY <1>8, <2>1, <2>2
<1> QED
  BY <1>4, <1>5, <1>6, <1>7, <1>8 DEF Erasing, Passing

-----------------------------------------------------------------------------
(* What an edit keeps. *)

\* Steps that start no write of an update, and leave the rows of the Reminders
\* that stay as they are.
LEMMA EditsUndisturbed ==
    ASSUME UpdatesKeep, KeptUnlessCrossed, UNCHANGED <<asked, crossed>>,
           \A c \in Calls : Writes(c, "update")' => call'[c] = call[c],
           \A s \in Summaries :
             /\ copy'["reminder"][s].held =>
                  /\ copy["reminder"][s].held
                  /\ copy'["reminder"][s].row = copy["reminder"][s].row
             /\ copy["reminder"][s].held \/ summary[s] = "gone" =>
                  copy'["reminder"][s].held \/ summary'[s] = "gone"
    PROVE  UpdatesKeep' /\ KeptUnlessCrossed'
<1>1. KeptUnlessCrossed'
  BY DEF KeptUnlessCrossed, Held
<1>2. \A c \in Calls : Writes(c, "update")' => Writes(c, "update") /\ call'[c] = call[c]
  BY DEF Writes
<1>3. ASSUME NEW c \in Calls, NEW s \in Summaries, Writes(c, "update")', call'[c].sum = s
      PROVE  KeepsFor(c, s)'
  <2>1. KeepsFor(c, s) /\ call'[c] = call[c]
    BY <1>2, <1>3 DEF UpdatesKeep
  <2>2. copy'["reminder"][s].held \/ summary'[s] = "gone"
    BY <2>1 DEF KeepsFor
  <2>3. ASSUME s \notin crossed, NEW d \in Calls, Writes(d, "update")', call'[d].sum = s
        PROVE  d = c
    BY <1>2, <2>1, <2>3 DEF KeepsFor
  <2>4. s \notin crossed /\ copy'["reminder"][s].held => call[c].seen = Laid(call[c].arg, asked[s])
    BY <2>1 DEF KeepsFor
  <2> QED
    BY <2>1, <2>2, <2>3, <2>4 DEF KeepsFor
<1>4. UpdatesKeep'
  BY <1>3 DEF UpdatesKeep
<1> QED
  BY <1>1, <1>4

\* A request that answers, or goes on to a statement that is no update's write,
\* starts no write of an update.
LEMMA StartsNoUpdate ==
    ASSUME CallsTyped, NEW c \in Calls,
           \/ \E r \in {"ok", "refused"} : Reply(c, r)
           \/ /\ \E at \in {"write", "find"} : call' = [call EXCEPT ![c].at = at]
              /\ call[c].op \in {"state", "reminder", "memory", "edit"}
              /\ call[c].op = "edit" => call[c].arg \in Values
    PROVE  \A d \in Calls : Writes(d, "update")' => call'[d] = call[d]
<1>1. CASE \E r \in {"ok", "refused"} : Reply(c, r)
  <2> PICK r \in {"ok", "refused"} : Reply(c, r)
    BY <1>1
  <2>1. \A d \in Calls : call'[d] = IF d = c THEN [op |-> "answered", reply |-> r] ELSE call[d]
    BY Replied
  <2> QED
    BY <2>1 DEF Writes
<1>2. CASE /\ \E at \in {"write", "find"} : call' = [call EXCEPT ![c].at = at]
           /\ call[c].op \in {"state", "reminder", "memory", "edit"}
           /\ call[c].op = "edit" => call[c].arg \in Values
  <2> PICK at \in {"write", "find"} : call' = [call EXCEPT ![c].at = at]
    BY <1>2
  <2>1. call[c].op \in Ops /\ call[c].op # "update" /\ (call[c].op = "edit" => call[c].arg \in Values)
    BY <1>2 DEF Ops
  <2>2. /\ \A d \in Calls : d # c => call'[d] = call[d]
        /\ call'[c].op = call[c].op
    BY <2>1, MovedOn
  <2> QED
    BY <2>1, <2>2 DEF Writes
<1> QED
  BY <1>1, <1>2

LEMMA ServeKeepsEdits ==
    ASSUME StoreTyped, UpdatesKeep, KeptUnlessCrossed, Serve
    PROVE  UpdatesKeep' /\ KeptUnlessCrossed'
<1>1. PICK c \in Calls :
        \/ StateRead(c) \/ StateWrite(c)
        \/ \E k \in Kinds : ConfirmRead(c, k) \/ ConfirmWrite(c, k) \/ ConfirmFind(c, k)
        \/ UpdateRead(c) \/ UpdateWrite(c)
        \/ EditRead(c) \/ EditWrite(c) \/ Drop(c)
  BY DEF Serve
<1> DEFINE s == call[c].sum
<1>2. call[c] \in CallStates /\ (call[c].op \in Ops => s \in Summaries) /\ CallsTyped
  BY WantedTyped DEF StoreTyped, CallsTyped
<1>3. summary' = summary
  BY ServeTouches
<1>4. copy \in [Kinds -> [Summaries -> Copies]] /\ asked \in [Summaries -> Rows] /\ "reminder" \in Kinds
  BY DEF StoreTyped, StoreTypeOK, Kinds
<1>5. ASSUME \A d \in Calls : Writes(d, "update")' => call'[d] = call[d],
             UNCHANGED <<asked, crossed>>, copy'["reminder"] = copy["reminder"]
      PROVE  UpdatesKeep' /\ KeptUnlessCrossed'
  BY <1>3, <1>5, EditsUndisturbed
<1>6. CASE StateRead(c) \/ StateWrite(c) \/ (\E k \in Kinds : ConfirmRead(c, k) \/ ConfirmFind(c, k))
  <2>1. UNCHANGED <<copy, asked, crossed>>
    BY <1>6 DEF StateRead, StateWrite, ConfirmRead, ConfirmFind, Rest
  <2>2. \/ Reply(c, "ok") \/ Reply(c, "refused")
        \/ Proceed(c) /\ call[c].op \in {"state", "reminder", "memory"}
    BY <1>6 DEF StateRead, StateWrite, ConfirmRead, ConfirmFind, Reads, Kinds
  <2>3. \A d \in Calls : Writes(d, "update")' => call'[d] = call[d]
    BY <1>2, <2>2, StartsNoUpdate DEF Proceed
  <2> QED
    BY <1>5, <2>1, <2>3
<1>7. CASE EditRead(c)
  <2>1. call[c].op = "edit" /\ call[c].arg \in 0 .. Bad
    BY <1>2, <1>7, WantedTyped DEF EditRead, Reads
  <2>2. Reply(c, "refused") \/ (Proceed(c) /\ call[c].arg \in Values)
    BY <1>7, <2>1 DEF EditRead, Bad, Values
  <2>3. \A d \in Calls : Writes(d, "update")' => call'[d] = call[d]
    BY <1>2, <2>1, <2>2, StartsNoUpdate DEF Proceed
  <2> QED
    BY <1>5, <1>7, <2>3 DEF EditRead, Rest
<1>8. CASE EditWrite(c) \/ Drop(c)
  <2>1. Reply(c, "ok") \/ Reply(c, "refused")
    BY <1>8 DEF EditWrite, Drop
  <2>2. copy'["reminder"] = copy["reminder"] /\ UNCHANGED <<asked, crossed>>
    BY <1>4, <1>8 DEF EditWrite, Drop, Rest
  <2>3. \A d \in Calls : Writes(d, "update")' => call'[d] = call[d]
    BY <1>2, <2>1, StartsNoUpdate
  <2> QED
    BY <1>5, <2>2, <2>3
<1>9. ASSUME NEW k \in Kinds, ConfirmWrite(c, k)
      PROVE  \A d \in Calls : Writes(d, "update")' => call'[d] = call[d]
  <2>1. /\ call' = [call EXCEPT ![c].at = "find"] \/ Reply(c, "ok") \/ Reply(c, "refused")
        /\ call[c].op \in {"reminder", "memory"}
    BY <1>9 DEF ConfirmWrite, Writes, Kinds
  <2> QED
    BY <1>2, <2>1, StartsNoUpdate
<1>10. CASE ConfirmWrite(c, "memory")
  <2>1. copy'["reminder"] = copy["reminder"] /\ UNCHANGED <<asked, crossed>>
    BY <1>4, <1>10 DEF ConfirmWrite, Rest
  <2>2. \A d \in Calls : Writes(d, "update")' => call'[d] = call[d]
    BY <1>9, <1>10 DEF Kinds
  <2> QED
    BY <1>5, <2>1, <2>2
<1>11. CASE ConfirmWrite(c, "reminder")
  <2>1. s \in Summaries /\ crossed' = crossed
    BY <1>2, <1>11 DEF ConfirmWrite, Writes, Ops, Rest
  <2>2. \A d \in Calls : Writes(d, "update")' => call'[d] = call[d]
    BY <1>4, <1>9, <1>11
  <2>3. CASE ~ (Alive(s) /\ ~ Held("reminder", s))
    BY <1>5, <1>11, <2>1, <2>2, <2>3 DEF ConfirmWrite
  <2>4. CASE Alive(s) /\ ~ Held("reminder", s)
    <3> DEFINE v == [NoCopy EXCEPT !.held = TRUE, !.late = erase[GroupOf[s]].at # "idle"]
    <3>1. copy' = [copy EXCEPT !["reminder"][s] = v] /\ asked' = [asked EXCEPT ![s] = Fresh]
      BY <1>11, <2>4 DEF ConfirmWrite
    <3>2. v.held /\ v.row = Fresh
      BY DEF NoCopy
    <3> HIDE DEF v
    <3>3. /\ \A t \in Summaries : t # s => copy'["reminder"][t] = copy["reminder"][t]
          /\ copy'["reminder"][s].held /\ copy'["reminder"][s].row = Fresh
      BY <1>4, <2>1, <3>1, <3>2
    <3>4. /\ \A t \in Summaries : t # s => asked'[t] = asked[t]
          /\ asked'[s] = Fresh
      BY <1>4, <2>1, <3>1
    <3>5. KeptUnlessCrossed'
      BY <2>1, <3>3, <3>4 DEF KeptUnlessCrossed, Held
    <3>6. ASSUME NEW d \in Calls, NEW t \in Summaries, Writes(d, "update")', call'[d].sum = t
          PROVE  KeepsFor(d, t)'
      <4>1. Writes(d, "update") /\ call'[d] = call[d] /\ KeepsFor(d, t)
        BY <2>2, <3>6 DEF Writes, UpdatesKeep
      <4>2. t # s
        BY <2>4, <4>1 DEF KeepsFor, Held, Alive
      <4>3. asked'[t] = asked[t] /\ copy'["reminder"][t] = copy["reminder"][t] /\ summary'[t] = summary[t]
        BY <1>3, <3>3, <3>4, <4>2
      <4>4. ASSUME t \notin crossed, NEW e \in Calls, Writes(e, "update")', call'[e].sum = t
            PROVE  e = d
        <5>1. Writes(e, "update") /\ call[e].sum = t
          BY <2>2, <4>4 DEF Writes
        <5> QED
          BY <4>1, <4>4, <5>1 DEF KeepsFor
      <4> QED
        BY <2>1, <4>1, <4>3, <4>4 DEF KeepsFor
    <3>7. UpdatesKeep'
      BY <3>6 DEF UpdatesKeep
    <3> QED
      BY <3>5, <3>7
  <2> QED
    BY <2>3, <2>4
<1>12. CASE UpdateRead(c)
  <2>1. call[c].op = "update" /\ call[c].at = "read" /\ s \in Summaries /\ UNCHANGED <<copy, asked>>
    BY <1>2, <1>12 DEF UpdateRead, Reads, Ops
  <2>2. CASE ~ Takes(c)
    <3>1. \A d \in Calls : Writes(d, "update")' => call'[d] = call[d]
      BY <1>2, <1>12, <2>2, StartsNoUpdate DEF UpdateRead
    <3> QED
      BY <1>5, <1>12, <2>1, <2>2, <3>1 DEF UpdateRead
  <2>3. CASE Takes(c)
    <3> DEFINE seen == Laid(call[c].arg, copy["reminder"][s].row)
               r == [call[c] EXCEPT !.at = "write", !.seen = seen]
    <3>1. call' = [call EXCEPT ![c] = r] /\ crossed' = IF Updating(s) # {} THEN crossed \cup {s} ELSE crossed
      BY <1>2, <1>12, <2>3 DEF UpdateRead, CallsTyped
    <3>2. r.seen = seen /\ r.arg = call[c].arg /\ r.sum = s
      BY <1>2, <2>1 DEF CallStates, Wanted, Idle
    <3> HIDE DEF r
    <3>3. call'[c] = r /\ \A d \in Calls : d # c => call'[d] = call[d]
      BY <1>2, <3>1 DEF CallsTyped
    <3>4. copy["reminder"][s].held
      BY <2>3 DEF Takes, Held
    <3>5. KeptUnlessCrossed'
      BY <2>1, <3>1 DEF KeptUnlessCrossed, Held
    <3>6. ASSUME NEW d \in Calls, NEW t \in Summaries, Writes(d, "update")', call'[d].sum = t
          PROVE  KeepsFor(d, t)'
      <4>1. d # c => Writes(d, "update") /\ call'[d] = call[d] /\ KeepsFor(d, t)
        BY <3>3, <3>6 DEF Writes, UpdatesKeep
      <4>2. copy'["reminder"][t].held \/ summary'[t] = "gone"
        BY <1>3, <2>1, <3>2, <3>3, <3>4, <3>6, <4>1 DEF KeepsFor
      <4>3. ASSUME t \notin crossed', NEW e \in Calls, Writes(e, "update")', call'[e].sum = t
            PROVE  e = d
        <5>1. CASE t = s
          <6>1. Updating(s) = {}
            BY <3>1, <4>3, <5>1
          <6>2. ASSUME NEW f \in Calls, Writes(f, "update")', call'[f].sum = t, f # c
                PROVE  FALSE
            <7>1. Writes(f, "update") /\ call[f].sum = s
              BY <3>3, <5>1, <6>2 DEF Writes
            <7> QED
              BY <6>1, <7>1 DEF Updating
          <6> QED
            BY <3>6, <4>3, <6>2
        <5>2. CASE t # s
          <6>1. d # c /\ e # c /\ t \notin crossed
            BY <3>1, <3>2, <3>3, <3>6, <4>3, <5>2
          <6>2. Writes(e, "update") /\ call[e].sum = t
            BY <3>3, <4>3, <6>1 DEF Writes
          <6> QED
            BY <4>1, <6>1, <6>2 DEF KeepsFor
        <5> QED
          BY <5>1, <5>2
      <4>4. ASSUME t \notin crossed', copy'["reminder"][t].held
            PROVE  call'[d].seen = Laid(call'[d].arg, asked'[t])
        <5>1. t \notin crossed
          BY <3>1, <4>4
        <5>2. CASE d = c
          BY <2>1, <3>2, <3>3, <3>4, <3>6, <5>1, <5>2 DEF KeptUnlessCrossed, Held
        <5>3. CASE d # c
          BY <2>1, <4>1, <4>4, <5>1, <5>3 DEF KeepsFor
        <5> QED
          BY <5>2, <5>3
      <4> QED
        BY <4>2, <4>3, <4>4 DEF KeepsFor
    <3>7. UpdatesKeep'
      BY <3>6 DEF UpdatesKeep
    <3> QED
      BY <3>5, <3>7
  <2> QED
    BY <2>2, <2>3
<1>13. CASE UpdateWrite(c)
  <2>1. Writes(c, "update") /\ Reply(c, "ok") /\ s \in Summaries /\ crossed' = crossed
    BY <1>2, <1>13 DEF UpdateWrite, Writes, Ops, Rest
  <2>2. \A d \in Calls : Writes(d, "update")' => call'[d] = call[d]
    BY <1>2, <2>1, StartsNoUpdate
  <2>3. CASE ~ Held("reminder", s)
    BY <1>5, <1>13, <2>1, <2>2, <2>3 DEF UpdateWrite
  <2>4. CASE Held("reminder", s)
    <3> DEFINE v == [copy["reminder"][s] EXCEPT !.row = call[c].seen]
    <3>1. /\ copy' = [copy EXCEPT !["reminder"][s] = v]
          /\ asked' = [asked EXCEPT ![s] = Laid(call[c].arg, @)]
      BY <1>4, <1>13, <2>1, <2>4 DEF UpdateWrite
    <3>2. copy["reminder"][s] \in Copies /\ v.row = call[c].seen /\ v.held = copy["reminder"][s].held
      BY <1>4, <2>1 DEF Copies
    <3> HIDE DEF v
    <3>3. /\ \A t \in Summaries : t # s => copy'["reminder"][t] = copy["reminder"][t]
          /\ copy'["reminder"][s] = v
      BY <1>4, <2>1, <3>1
    <3>4. /\ \A t \in Summaries : t # s => asked'[t] = asked[t]
          /\ asked'[s] = Laid(call[c].arg, asked[s])
      BY <1>4, <2>1, <3>1
    <3>5. KeepsFor(c, s)
      BY <2>1 DEF UpdatesKeep
    <3>6. KeptUnlessCrossed'
      <4>1. s \notin crossed => copy'["reminder"][s].row = asked'[s]
        BY <2>4, <3>2, <3>3, <3>4, <3>5 DEF KeepsFor, Held
      <4> QED
        BY <2>1, <3>3, <3>4, <4>1 DEF KeptUnlessCrossed, Held
    <3>7. ASSUME NEW d \in Calls, NEW t \in Summaries, Writes(d, "update")', call'[d].sum = t
          PROVE  KeepsFor(d, t)'
      <4>1. Writes(d, "update") /\ call'[d] = call[d] /\ KeepsFor(d, t) /\ d # c
        <5>1. d # c
          BY <1>2, <2>1, <3>7, Replied DEF Writes
        <5> QED
          BY <2>2, <3>7, <5>1 DEF Writes, UpdatesKeep
      <4>2. t = s => s \in crossed
        BY <2>1, <4>1, <3>5, <3>7 DEF KeepsFor
      <4>3. copy'["reminder"][t].held = copy["reminder"][t].held /\ summary'[t] = summary[t]
        BY <1>3, <3>2, <3>3
      <4>4. ASSUME t \notin crossed, NEW e \in Calls, Writes(e, "update")', call'[e].sum = t
            PROVE  e = d
        <5>1. Writes(e, "update") /\ call[e].sum = t
          BY <2>2, <4>4 DEF Writes
        <5> QED
          BY <4>1, <4>4, <5>1 DEF KeepsFor
      <4>5. t \notin crossed /\ copy'["reminder"][t].held => call[d].seen = Laid(call[d].arg, asked'[t])
        BY <3>4, <4>1, <4>2, <4>3 DEF KeepsFor
      <4> QED
        BY <2>1, <4>1, <4>3, <4>4, <4>5 DEF KeepsFor
    <3>8. UpdatesKeep'
      BY <3>7 DEF UpdatesKeep
    <3> QED
      BY <3>6, <3>8
  <2> QED
    BY <2>3, <2>4
<1> QED
  BY <1>1, <1>6, <1>7, <1>8, <1>10, <1>11, <1>12, <1>13 DEF Kinds

\* An erasure or the purge takes a Reminder with its Summary or leaves its row.
LEMMA ErasingKeepsEdits ==
    ASSUME StoreTyped, UpdatesKeep, KeptUnlessCrossed, Erasing \/ Passing
    PROVE  UpdatesKeep' /\ KeptUnlessCrossed'
<1> DEFINE Left(s) ==
      \/ /\ copy'["reminder"][s].held = copy["reminder"][s].held
         /\ copy'["reminder"][s].row = copy["reminder"][s].row
         /\ summary[s] = "gone" => summary'[s] = "gone"
      \/ ~ copy'["reminder"][s].held /\ summary'[s] = "gone"
<1>1. ASSUME UNCHANGED <<call, asked, crossed>>, \A s \in Summaries : Left(s)
      PROVE  UpdatesKeep' /\ KeptUnlessCrossed'
  <2>1. \A s \in Summaries :
             /\ copy'["reminder"][s].held =>
                  /\ copy["reminder"][s].held
                  /\ copy'["reminder"][s].row = copy["reminder"][s].row
             /\ copy["reminder"][s].held \/ summary[s] = "gone" =>
                  copy'["reminder"][s].held \/ summary'[s] = "gone"
    BY <1>1
  <2>2. \A c \in Calls : Writes(c, "update")' => call'[c] = call[c]
    BY <1>1
  <2> QED
    BY <1>1, <2>1, <2>2, EditsUndisturbed
<1>2. "reminder" \in Kinds /\ StoreTypeOK /\ \A s \in Summaries : copy["reminder"][s] \in Copies
  BY CopyTyped DEF Kinds, StoreTyped
<1>3. ASSUME NEW gone \in SUBSET Summaries, NEW how \in {"purged", "erased"}, Vanish(gone, how),
             NEW s \in Summaries
      PROVE  Left(s)
  <2>1. /\ summary'[s] = IF s \in gone THEN "gone" ELSE summary[s]
        /\ s \notin gone \/ ~ Held("reminder", s) => copy'["reminder"][s] = copy["reminder"][s]
        /\ s \in gone /\ Held("reminder", s) /\ Doomed("reminder", s) => copy'["reminder"][s] = NoCopy
        /\ s \in gone /\ Held("reminder", s) /\ ~ Doomed("reminder", s) =>
             copy'["reminder"][s] = [copy["reminder"][s] EXCEPT !.link = how]
    BY <1>2, <1>3, Vanished
  <2>2. ~ NoCopy.held
    BY DEF NoCopy
  <2>3. CASE s \notin gone \/ ~ Held("reminder", s)
    BY <2>1, <2>3
  <2>4. CASE s \in gone /\ Held("reminder", s) /\ Doomed("reminder", s)
    BY <2>1, <2>2, <2>4
  <2>5. CASE s \in gone /\ Held("reminder", s) /\ ~ Doomed("reminder", s)
    BY <1>2, <2>1, <2>5 DEF Copies
  <2> QED
    BY <2>3, <2>4, <2>5
<1>4. ASSUME NEW g \in Groups, EraseReminders(g) \/ EraseMemories(g)
      PROVE  UpdatesKeep' /\ KeptUnlessCrossed'
  BY <1>1, <1>4 DEF EraseReminders, EraseMemories, EraseCopies
<1>5. ASSUME NEW g \in Groups, EraseGroup(g)
      PROVE  UpdatesKeep' /\ KeptUnlessCrossed'
  <2>1. {s \in Of(g) : Alive(s)} \in SUBSET Summaries
    BY DEF Of
  <2>2. Vanish({s \in Of(g) : Alive(s)}, "erased")
    BY <1>5 DEF EraseGroup
  <2>3. \A s \in Summaries : Left(s)
    BY <1>3, <2>1, <2>2
  <2> QED
    BY <1>1, <1>5, <2>3 DEF EraseGroup
<1>6. ASSUME NEW g \in Groups, EraseThrows(g)
      PROVE  UpdatesKeep' /\ KeptUnlessCrossed'
  <2>1. ASSUME NEW s \in Summaries
        PROVE  Left(s)
    <3>1. copy'["reminder"][s] = [copy["reminder"][s] EXCEPT !.late = @ /\ GroupOf[s] # g]
      BY <1>2, <1>6 DEF EraseThrows
    <3> QED
      BY <1>2, <1>6, <3>1 DEF EraseThrows, Copies
  <2> QED
    BY <1>1, <1>6, <2>1 DEF EraseThrows
<1>7. ASSUME NEW r \in Summaries, Age(r)
      PROVE  UpdatesKeep' /\ KeptUnlessCrossed'
  <2>1. \A s \in Summaries : Left(s)
    BY <1>2, <1>7 DEF Age, StoreTypeOK
  <2> QED
    BY <1>1, <1>7, <2>1 DEF Age
<1>8. ASSUME NEW r \in Summaries, Purge(r)
      PROVE  UpdatesKeep' /\ KeptUnlessCrossed'
  <2>1. Vanish({r}, "purged") /\ {r} \in SUBSET Summaries
    BY <1>8 DEF Purge
  <2>2. \A s \in Summaries : Left(s)
    BY <1>3, <2>1
  <2> QED
    BY <1>1, <1>8, <2>2 DEF Purge
<1> QED
  BY <1>4, <1>5, <1>6, <1>7, <1>8 DEF Erasing, Passing

-----------------------------------------------------------------------------
(* The Store as a whole. *)

\* The pages change the requests, not the rows; a Group is switched off or on.
LEMMA PagesKeepStore ==
    ASSUME StoreInv, CallsTyped', UNCHANGED <<summary, state, copy, erase, asked, crossed>>,
           group' \in [Groups -> {"on", "off", "erased"}],
           \A g \in Groups : group'[g] = "erased" <=> group[g] = "erased",
           \A c \in Calls : Writes(c, "update")' => call'[c] = call[c]
    PROVE  StoreInv'
<1>1. StoreTyped'
  BY DEF StoreInv, ErasureInv, StoreTyped, StoreTypeOK
<1>2. Touched
  BY DEF Touched, Same
<1>3. ErasureInv'
  BY <1>1, <1>2, RequestsKeepErasure DEF StoreInv
<1>4. UpdatesKeep' /\ KeptUnlessCrossed'
  BY EditsUndisturbed DEF StoreInv
<1> QED
  BY <1>3, <1>4 DEF StoreInv

LEMMA StoreStepKeepsStore ==
    ASSUME StoreInv, Serve \/ Erasing \/ Passing
    PROVE  StoreInv'
<1>1. CASE Serve
  <2>1. StoreTyped' /\ Touched /\ UNCHANGED <<group, summary, erase>>
    BY <1>1, ServeTyped, ServeTouches DEF StoreInv, ErasureInv
  <2> QED
    BY <1>1, <2>1, RequestsKeepErasure, ServeKeepsEdits DEF StoreInv, ErasureInv
<1>2. CASE Erasing \/ Passing
  BY <1>2, ErasingKeepsErasure, ErasingKeepsEdits DEF StoreInv, ErasureInv
<1> QED
  BY <1>1, <1>2

\* Nothing is held, nothing is asked for.
LEMMA StoreStarts == StoreInit => StoreInv
<1> SUFFICES ASSUME StoreInit PROVE StoreInv
  OBVIOUS
<1> USE DEF StoreInit
<1>1. Fresh \in Rows /\ NoCopy \in Copies /\ ~ NoCopy.held
  BY DEF Rows, Fresh, Values, NoCopy, Copies, Links
<1>2. StoreTypeOK
  BY <1>1 DEF StoreTypeOK, States
<1>3. CallsTyped
  BY DEF CallsTyped, CallStates, Parsed, Idle
<1>4. erase \in [Groups -> EraseStates] /\ \A g \in Groups : erase[g].at = "idle"
  BY DEF EraseStates, Resting
<1>5. \A k \in Kinds, s \in Summaries : ~ copy[k][s].held
  BY <1>1
<1>6. LinksFollow /\ LateOnes /\ CopiesOutlive
  BY <1>4, <1>5 DEF LinksFollow, LateOnes, CopiesOutlive, Survivors, PassedOver, Held, Kinds
<1>7. UpdatesKeep /\ KeptUnlessCrossed
  BY <1>5 DEF UpdatesKeep, KeptUnlessCrossed, Held, Kinds, Writes, Idle
<1> QED
  BY <1>2, <1>3, <1>4, <1>6, <1>7 DEF StoreInv, ErasureInv, StoreTyped

-----------------------------------------------------------------------------
(* What a row of the Console shows. *)

ToggleStates ==
  {NoToggle} \cup [button : Buttons, next : States, awaited : BOOLEAN, drawn : BOOLEAN,
                   alone : BOOLEAN]

DeskTyped ==
  /\ shown \in [Summaries -> States] /\ toggle \in [Toggles -> ToggleStates]
  /\ locked \subseteq Buttons /\ muddled \in BOOLEAN

\* A toggle's requests all write its state, each to a Summary of its own; with
\* no toggle they are over, and the lists page sends none of that kind.
TogglesRequest ==
  /\ \A t \in Toggles, s \in Summaries :
       IF toggle[t] = NoToggle THEN call[<<t, s>>] = Idle
       ELSE \/ call[<<t, s>>].op = "answered"
            \/ call[<<t, s>>].op = "state" /\ call[<<t, s>>].sum = s
               /\ call[<<t, s>>].arg = toggle[t].next
  /\ \A c \in Edits : call[c].op # "state"

\* A toggle that runs alone is the only one out, and what it was answered about
\* is written.
AloneWrites ==
  \A t \in Toggles : toggle[t] # NoToggle /\ toggle[t].alone =>
    /\ \A u \in Toggles : u # t => toggle[u] = NoToggle
    /\ \A s \in Summaries :
         call[<<t, s>>].op = "answered" /\ call[<<t, s>>].reply = "ok" /\ Alive(s) =>
            state[s] = toggle[t].next

\* Where nothing failed or overlapped, what is out runs alone and is awaited.
Unmuddled ==
  ~ muddled => \A t \in Toggles : toggle[t] # NoToggle => toggle[t].alone /\ toggle[t].awaited

DeskInv == DeskTyped /\ TogglesRequest /\ AloneWrites /\ Unmuddled /\ RowTellsTheTruth

\* The pages' requests are two kinds, and a toggle's are its own.
LEMMA CallsApart ==
  /\ \A t \in Toggles, s \in Summaries : <<t, s>> \in Calls /\ <<t, s>> \notin Edits
  /\ \A c \in Calls : c \in Edits \/ \E t \in Toggles, s \in Summaries : c = <<t, s>>
BY CallsAreThePages

\* A step of a request moves it on, refuses it, answers it, or writes a state.
LEMMA ServeCalls ==
    ASSUME StoreTyped, Serve
    PROVE  \E c \in Calls :
             /\ \A d \in Calls : d # c => call'[d] = call[d]
             /\ call[c].op \in Ops
             /\ \/ /\ state' = state
                   /\ \/ /\ call'[c].op = call[c].op /\ call'[c].sum = call[c].sum
                         /\ call'[c].arg = call[c].arg
                      \/ call'[c] = [op |-> "answered", reply |-> "refused"]
                      \/ call[c].op # "state" /\ call'[c].op = "answered"
                \/ StateWrite(c)
<1>1. PICK c \in Calls :
        \/ StateRead(c) \/ StateWrite(c)
        \/ \E k \in Kinds : ConfirmRead(c, k) \/ ConfirmWrite(c, k) \/ ConfirmFind(c, k)
        \/ UpdateRead(c) \/ UpdateWrite(c)
        \/ EditRead(c) \/ EditWrite(c) \/ Drop(c)
  BY DEF Serve
<1>2. call[c] \in CallStates /\ CallsTyped
  BY DEF StoreTyped, CallsTyped
<1>3. ASSUME NEW r \in {"ok", "refused"}, Reply(c, r)
      PROVE  \A d \in Calls : call'[d] = IF d = c THEN [op |-> "answered", reply |-> r] ELSE call[d]
  BY <1>2, <1>3, Replied
<1>4. ASSUME NEW at, call[c].op \in Ops, call' = [call EXCEPT ![c].at = at]
      PROVE  /\ \A d \in Calls : d # c => call'[d] = call[d]
             /\ call'[c].op = call[c].op /\ call'[c].sum = call[c].sum
             /\ call'[c].arg = call[c].arg
  <2>1. call[c] \in Wanted({call[c].op}, {call[c].arg})
    BY <1>2, <1>4, WantedTyped
  <2>2. call' = [call EXCEPT ![c] = [call[c] EXCEPT !.at = at]]
    BY <1>2, <1>4 DEF CallsTyped
  <2> QED
    BY <1>2, <2>1, <2>2 DEF CallsTyped, Wanted
<1>5. CASE StateRead(c)
  <2>1. call[c].op \in Ops /\ state' = state /\ (Proceed(c) \/ Reply(c, "refused"))
    BY <1>5 DEF StateRead, Reads, Ops, Rest
  <2> QED
    BY <1>3, <1>4, <2>1 DEF Proceed
<1>6. CASE StateWrite(c)
  <2>1. call[c].op \in Ops /\ (Reply(c, "ok") \/ Reply(c, "refused"))
    BY <1>6 DEF StateWrite, Writes, Ops
  <2> QED
    BY <1>3, <1>6, <2>1
<1>7. ASSUME NEW k \in Kinds, ConfirmRead(c, k) \/ ConfirmWrite(c, k) \/ ConfirmFind(c, k)
      PROVE  /\ call[c].op \in Ops /\ call[c].op # "state" /\ state' = state
             /\ \/ \E at \in {"write", "find"} : call' = [call EXCEPT ![c].at = at]
                \/ \E r \in {"ok", "refused"} : Reply(c, r)
  BY <1>7 DEF ConfirmRead, ConfirmWrite, ConfirmFind, Reads, Writes, Ops, Kinds, Rest, Proceed
<1>8. CASE \E k \in Kinds : ConfirmRead(c, k) \/ ConfirmWrite(c, k) \/ ConfirmFind(c, k)
  <2>1. /\ call[c].op \in Ops /\ call[c].op # "state" /\ state' = state
        /\ \/ \E at \in {"write", "find"} : call' = [call EXCEPT ![c].at = at]
           \/ \E r \in {"ok", "refused"} : Reply(c, r)
    BY <1>7, <1>8
  <2> QED
    BY <1>3, <1>4, <2>1
<1>9. CASE UpdateRead(c)
  <2>1. call[c].op = "update" /\ state' = state
    BY <1>9 DEF UpdateRead, Reads
  <2>2. CASE Takes(c)
    <3> DEFINE r == [call[c] EXCEPT !.at = "write", !.seen = Laid(call[c].arg, copy["reminder"][call[c].sum].row)]
    <3>1. call[c] \in Wanted({call[c].op}, {call[c].arg})
      BY <1>2, <2>1, WantedTyped DEF Ops
    <3>2. call' = [call EXCEPT ![c] = r]
      BY <1>2, <1>9, <2>2 DEF UpdateRead, CallsTyped
    <3>3. r.op = call[c].op /\ r.sum = call[c].sum /\ r.arg = call[c].arg
      BY <3>1 DEF Wanted
    <3> HIDE DEF r
    <3> QED
      BY <1>2, <2>1, <3>2, <3>3 DEF CallsTyped, Ops
  <2>3. CASE ~ Takes(c)
    <3>1. Reply(c, "refused")
      BY <1>9, <2>3 DEF UpdateRead
    <3> QED
      BY <1>3, <2>1, <3>1 DEF Ops
  <2> QED
    BY <2>2, <2>3
<1>10. CASE UpdateWrite(c) \/ EditRead(c) \/ EditWrite(c) \/ Drop(c)
  <2>1. /\ call[c].op \in Ops /\ call[c].op # "state" /\ state' = state
        /\ Proceed(c) \/ Reply(c, "ok") \/ Reply(c, "refused")
    BY <1>10 DEF UpdateWrite, EditRead, EditWrite, Drop, Reads, Writes, Ops, Rest
  <2> QED
    BY <1>3, <1>4, <2>1 DEF Proceed
<1> QED
  BY <1>1, <1>5, <1>6, <1>8, <1>9, <1>10

\* A Summary that stays keeps its state.
LEMMA ErasingStates ==
    ASSUME StoreTyped, Erasing \/ Passing
    PROVE  /\ call' = call
           /\ \A s \in Summaries : Alive(s)' => Alive(s) /\ state'[s] = state[s]
<1>1. ASSUME NEW gone \in SUBSET Summaries, NEW how \in {"purged", "erased"}, Vanish(gone, how)
      PROVE  \A s \in Summaries : Alive(s)' => Alive(s) /\ state'[s] = state[s]
  <2>1. \A s \in Summaries : /\ summary'[s] = IF s \in gone THEN "gone" ELSE summary[s]
                             /\ state'[s] = IF s \in gone THEN "none" ELSE state[s]
    BY <1>1, Vanished DEF StoreTyped
  <2> QED
    BY <2>1 DEF Alive
<1>2. ASSUME NEW g \in Groups, EraseGroup(g)
      PROVE  \A s \in Summaries : Alive(s)' => Alive(s) /\ state'[s] = state[s]
  <2>1. {s \in Of(g) : Alive(s)} \in SUBSET Summaries
    BY DEF Of
  <2>2. Vanish({s \in Of(g) : Alive(s)}, "erased")
    BY <1>2 DEF EraseGroup
  <2> QED
    BY <1>1, <2>1, <2>2
<1>3. ASSUME NEW s \in Summaries, Purge(s)
      PROVE  \A r \in Summaries : Alive(r)' => Alive(r) /\ state'[r] = state[r]
  <2>1. Vanish({s}, "purged") /\ {s} \in SUBSET Summaries
    BY <1>3 DEF Purge
  <2> QED
    BY <1>1, <2>1
<1>4. ASSUME NEW g \in Groups, EraseReminders(g) \/ EraseMemories(g) \/ EraseThrows(g)
      PROVE  \A s \in Summaries : Alive(s)' => Alive(s) /\ state'[s] = state[s]
  BY <1>4 DEF EraseReminders, EraseMemories, EraseThrows, EraseCopies, Alive
<1>5. ASSUME NEW r \in Summaries, Age(r)
      PROVE  \A s \in Summaries : Alive(s)' => Alive(s) /\ state'[s] = state[s]
  BY <1>5 DEF Age, Alive, StoreTyped, StoreTypeOK
<1>6. call' = call
  BY DEF Erasing, Passing, EraseReminders, EraseMemories, EraseCopies, EraseGroup, EraseThrows,
         Age, Purge
<1> QED
  BY <1>2, <1>3, <1>4, <1>5, <1>6 DEF Erasing, Passing

\* What the Store does of itself keeps what the page relies on.
LEMMA StoreStepKeepsDesk ==
    ASSUME StoreTyped, DeskInv, Serve \/ Erasing \/ Passing, UNCHANGED pageVars
    PROVE  DeskInv'
<1> USE DEF DeskInv
<1>1. UNCHANGED <<shown, toggle, locked, muddled>> /\ DeskTyped' /\ Unmuddled'
  BY DEF pageVars, DeskTyped, Unmuddled
<1>2. CASE Erasing \/ Passing
  <2>1. /\ call' = call
        /\ \A s \in Summaries : Alive(s)' => Alive(s) /\ state'[s] = state[s]
    BY <1>2, ErasingStates
  <2>2. TogglesRequest'
    BY <1>1, <2>1 DEF TogglesRequest
  <2>3. AloneWrites'
    BY <1>1, <2>1 DEF AloneWrites
  <2>4. RowTellsTheTruth'
    BY <1>1, <2>1 DEF RowTellsTheTruth, AtRest, Out
  <2> QED
    BY <1>1, <2>2, <2>3, <2>4
<1>3. CASE Serve
  <2>1. PICK c \in Calls :
             /\ \A d \in Calls : d # c => call'[d] = call[d]
             /\ call[c].op \in Ops
             /\ \/ /\ state' = state
                   /\ \/ /\ call'[c].op = call[c].op /\ call'[c].sum = call[c].sum
                         /\ call'[c].arg = call[c].arg
                      \/ call'[c] = [op |-> "answered", reply |-> "refused"]
                      \/ call[c].op # "state" /\ call'[c].op = "answered"
                \/ StateWrite(c)
    BY <1>3, ServeCalls
  <2>2. summary' = summary
    BY <1>3, ServeTouches
  <2>3. CASE StateWrite(c)
    <3>1. call[c].op = "state" /\ call[c] \in CallStates /\ CallsTyped
      BY <2>3 DEF StateWrite, Writes, StoreTyped, CallsTyped
    <3>2. PICK t \in Toggles, s \in Summaries : c = <<t, s>>
      BY <3>1, CallsApart DEF TogglesRequest
    <3>3. toggle[t] # NoToggle /\ call[c].sum = s /\ call[c].arg = toggle[t].next
      BY <3>1, <3>2 DEF TogglesRequest, Idle
    <3>4. /\ call'[c].op = "answered"
          /\ \A r \in Summaries : r # s => state'[r] = state[r]
          /\ Alive(s) => state'[s] = toggle[t].next
      <4>1. Reply(c, "ok") \/ Reply(c, "refused")
        BY <2>3 DEF StateWrite
      <4>2. call'[c].op = "answered"
        BY <3>1, <4>1, Replied
      <4>3. state' = state \/ state' = [state EXCEPT ![s] = toggle[t].next]
        BY <2>3, <3>3 DEF StateWrite
      <4>4. Alive(s) => state' = [state EXCEPT ![s] = toggle[t].next]
        BY <2>3, <3>3 DEF StateWrite
      <4> QED
        BY <4>2, <4>3, <4>4 DEF StoreTyped, StoreTypeOK
    <3>5. TogglesRequest'
      <4>1. ASSUME NEW u \in Toggles, NEW r \in Summaries
            PROVE  IF toggle[u] = NoToggle THEN call'[<<u, r>>] = Idle
                   ELSE \/ call'[<<u, r>>].op = "answered"
                        \/ call'[<<u, r>>].op = "state" /\ call'[<<u, r>>].sum = r
                           /\ call'[<<u, r>>].arg = toggle[u].next
        <5>1. CASE <<u, r>> # c
          BY <2>1, <5>1, CallsApart DEF TogglesRequest
        <5>2. CASE <<u, r>> = c
          BY <3>2, <3>3, <3>4, <5>2
        <5> QED
          BY <5>1, <5>2
      <4>2. \A d \in Edits : call'[d].op # "state"
        BY <2>1, <3>2, CallsApart, CallsAreThePages DEF TogglesRequest
      <4> QED
        BY <1>1, <4>1, <4>2 DEF TogglesRequest
    <3>6. AloneWrites'
      <4>1. ASSUME NEW u \in Toggles, toggle[u] # NoToggle, toggle[u].alone
            PROVE  u = t
        BY <3>3, <4>1 DEF AloneWrites
      <4>2. ASSUME NEW r \in Summaries, toggle[t].alone, r # s
            PROVE  <<t, r>> # c /\ call'[<<t, r>>] = call[<<t, r>>] /\ state'[r] = state[r]
        BY <2>1, <3>2, <3>4, <4>2, CallsApart
      <4>3. ASSUME toggle[t].alone, NEW r \in Summaries, Alive(r),
                   call'[<<t, r>>].op = "answered", call'[<<t, r>>].reply = "ok"
            PROVE  state'[r] = toggle[t].next
        BY <3>3, <3>4, <4>2, <4>3 DEF AloneWrites
      <4>4. toggle[t].alone => \A u \in Toggles : u # t => toggle[u] = NoToggle
        BY <3>3 DEF AloneWrites
      <4> QED
        BY <1>1, <2>2, <4>1, <4>3, <4>4 DEF AloneWrites, Alive
    <3>7. RowTellsTheTruth'
      BY <1>1, <3>3 DEF RowTellsTheTruth, AtRest, Out
    <3> QED
      BY <1>1, <3>5, <3>6, <3>7
  <2>4. CASE ~ StateWrite(c)
    <3>1. TogglesRequest'
      <4>1. ASSUME NEW t \in Toggles, NEW s \in Summaries
            PROVE  IF toggle[t] = NoToggle THEN call'[<<t, s>>] = Idle
                   ELSE \/ call'[<<t, s>>].op = "answered"
                        \/ call'[<<t, s>>].op = "state" /\ call'[<<t, s>>].sum = s
                           /\ call'[<<t, s>>].arg = toggle[t].next
        <5>1. CASE <<t, s>> # c
          BY <2>1, <5>1, CallsApart DEF TogglesRequest
        <5>2. CASE <<t, s>> = c
          BY <2>1, <2>4, <5>2 DEF TogglesRequest, Idle, Ops
        <5> QED
          BY <5>1, <5>2
      <4>2. \A d \in Edits : call'[d].op # "state"
        BY <2>1, <2>4, CallsAreThePages DEF TogglesRequest
      <4> QED
        BY <1>1, <4>1, <4>2 DEF TogglesRequest
    <3>2. ASSUME NEW t \in Toggles, NEW s \in Summaries, toggle[t] # NoToggle,
                 call'[<<t, s>>].op = "answered", call'[<<t, s>>].reply = "ok"
          PROVE  call[<<t, s>>].op = "answered" /\ call[<<t, s>>].reply = "ok"
      <4>1. CASE <<t, s>> # c
        BY <2>1, <3>2, <4>1, CallsApart
      <4>2. CASE <<t, s>> = c
        <5>1. call[c].op = "state"
          BY <2>1, <3>2, <4>2 DEF TogglesRequest, Ops
        <5> QED
          BY <2>1, <2>4, <3>2, <4>2, <5>1
      <4> QED
        BY <4>1, <4>2
    <3>3. AloneWrites'
      BY <1>1, <2>1, <2>2, <2>4, <3>2 DEF AloneWrites, Alive
    <3>4. RowTellsTheTruth'
      BY <1>1, <2>1, <2>2, <2>4 DEF RowTellsTheTruth, AtRest, Out, Alive
    <3> QED
      BY <1>1, <3>1, <3>3, <3>4
  <2> QED
    BY <2>3, <2>4
<1> QED
  BY <1>2, <1>3

\* What the pages make of a request: one that has written nothing, or none.
Quiet(v) == v \in CallStates /\ Parsed(v) /\ ~ (v.op = "update" /\ v.at = "write")

\* A press, an answer that is heard, and what else the pages do: typed, and no
\* write of an update is started.
LEMMA PagesRequest ==
    ASSUME StoreTyped, DeskInv, Today \/ Redraw \/ Lists
    PROVE  /\ CallsTyped' /\ UNCHANGED <<group, summary, state, copy, erase, asked, crossed>>
           /\ \A c \in Calls : Writes(c, "update")' => call'[c] = call[c]
<1> DEFINE G == CallsTyped' /\ \A c \in Calls : Writes(c, "update")' => call'[c] = call[c]
<1> USE DEF StoreTyped
<1>1. ASSUME NEW f, call' = [c \in Calls |-> f[c]],
             \A c \in Calls : f[c] = call[c] \/ Quiet(f[c])
      PROVE  G
  BY <1>1 DEF CallsTyped, Writes, Quiet
<1>2. ASSUME NEW c \in Calls, NEW v, Quiet(v), call' = [call EXCEPT ![c] = v]
      PROVE  G
  BY <1>2 DEF CallsTyped, Writes, Quiet
<1>3. call' = call => G
  BY DEF CallsTyped, Writes
<1> HIDE DEF G
<1>4. Quiet(Idle) /\ \A r \in {"ok", "refused"} : Quiet([op |-> "answered", reply |-> r])
  BY DEF Quiet, CallStates, Parsed, Idle
<1>5. Fresh \in Rows
  BY DEF Fresh, Rows, Values
<1>6. ASSUME NEW op \in Ops, NEW s \in Summaries, NEW arg,
             \/ op = "state" /\ arg \in States
             \/ op = "update" /\ arg \in Patches
             \/ op \in {"edit", "reminder", "memory", "drop"} /\ arg \in 0 .. Bad
      PROVE  Quiet([op |-> op, sum |-> s, arg |-> arg, at |-> "read", seen |-> Fresh])
  BY <1>5, <1>6 DEF Quiet, CallStates, Wanted, Parsed, Ops
<1>7. ASSUME NEW t \in Toggles, call' = Free(t)
      PROVE  G
  <2> DEFINE f == [c \in Calls |-> IF c \in {t} \X Summaries THEN Idle ELSE call[c]]
  <2>1. call' = [c \in Calls |-> f[c]] /\ \A c \in Calls : f[c] = call[c] \/ Quiet(f[c])
    BY <1>4, <1>7 DEF Free
  <2> HIDE DEF f
  <2> QED
    BY <1>1, <2>1
<1>8. ASSUME NEW t \in Toggles, NEW b \in Buttons, Press(t, b)
      PROVE  G
  <2> DEFINE next == IF shown[First] = b THEN "none" ELSE b
             f == [c \in Calls |->
                     IF c \in {t} \X Summaries
                     THEN [op |-> "state", sum |-> c[2], arg |-> next, at |-> "read", seen |-> Fresh]
                     ELSE call[c]]
  <2>1. next \in States /\ "state" \in Ops
    BY DEF States, Buttons, Ops
  <2>2. call' = [c \in Calls |-> f[c]]
    BY <1>8 DEF Press
  <2> HIDE DEF next
  <2>3. ASSUME NEW c \in Calls
        PROVE  f[c] = call[c] \/ Quiet(f[c])
    <3>1. CASE c \in {t} \X Summaries
      <4>1. c[2] \in Summaries
        BY <3>1
      <4>2. Quiet([op |-> "state", sum |-> c[2], arg |-> next, at |-> "read", seen |-> Fresh])
        BY <1>6, <2>1, <4>1
      <4> QED
        BY <3>1, <4>2
    <3> QED
      BY <3>1
  <2> HIDE DEF f
  <2> QED
    BY <1>1, <2>2, <2>3
<1>9. ASSUME NEW t \in Toggles, Lose(t)
      PROVE  G
  <2>1. PICK s \in Summaries : Reply(<<t, s>>, "refused")
    BY <1>9 DEF Lose
  <2>2. call' = [call EXCEPT ![<<t, s>>] = [op |-> "answered", reply |-> "refused"]]
    BY <2>1 DEF Reply
  <2>3. Quiet([op |-> "answered", reply |-> "refused"]) /\ <<t, s>> \in Calls
    BY <1>4, CallsApart
  <2> QED
    BY <1>2, <2>2, <2>3
<1>10. ASSUME NEW c \in Edits, Send(c) \/ Hear(c)
       PROVE  G
  <2>1. c \in Calls
    BY CallsAreThePages
  <2>2. ASSUME NEW op \in {"reminder", "memory", "update", "edit", "drop"}, NEW s \in Quoted, NEW arg,
               Request(c, op, s, arg),
               \/ op = "update" /\ arg \in Bodies
               \/ op \in {"edit", "reminder", "memory", "drop"} /\ arg \in {0, 1, Bad}
        PROVE  G
    <3>1. s \in Summaries /\ op \in Ops /\ (arg \in Bodies => arg \in Patches)
          /\ (arg \in {0, 1, Bad} => arg \in 0 .. Bad)
      BY CallsAreThePages DEF Ops, Bad
    <3>2. Quiet([op |-> op, sum |-> s, arg |-> arg, at |-> "read", seen |-> Fresh])
      BY <1>6, <2>2, <3>1
    <3>3. call' = [call EXCEPT ![c] = [op |-> op, sum |-> s, arg |-> arg, at |-> "read", seen |-> Fresh]]
      BY <2>2 DEF Request
    <3> QED
      BY <1>2, <2>1, <3>2, <3>3
  <2>3. CASE Send(c)
    <3>1. PICK s \in Quoted :
            \/ \E k \in Kinds : Request(c, k, s, 0)
            \/ \E p \in Bodies : Request(c, "update", s, p)
            \/ \E v \in {1, Bad} : Request(c, "edit", s, v)
            \/ Request(c, "drop", s, 0)
      BY <2>3 DEF Send
    <3> QED
      BY <2>2, <3>1 DEF Kinds
  <2>4. CASE Hear(c)
    BY <1>2, <1>4, <2>1, <2>4 DEF Hear
  <2> QED
    BY <1>10, <2>3, <2>4
<1>11. CASE Lists
  BY <1>10, <1>11 DEF Lists, G
<1>12. CASE Redraw
  BY <1>3, <1>12 DEF Redraw, storeVars, G
<1>13. CASE Today
  <2>1. PICK t \in Toggles : Resolve(t) \/ Reject(t) \/ Forget(t) \/ Lose(t) \/ \E b \in Buttons : Press(t, b)
    BY <1>13 DEF Today
  <2>2. CASE Resolve(t) \/ Forget(t)
    BY <1>7, <2>2 DEF Resolve, Forget, G
  <2>3. CASE Reject(t)
    BY <1>3, <2>3 DEF Reject, storeVars, G
  <2>4. CASE Lose(t)
    BY <1>9, <2>4 DEF Lose, G
  <2>5. ASSUME NEW b \in Buttons, Press(t, b)
        PROVE  G /\ UNCHANGED <<group, summary, state, copy, erase, asked, crossed>>
    BY <1>8, <2>5 DEF Press
  <2> QED
    BY <2>1, <2>2, <2>3, <2>4, <2>5 DEF G
<1> QED
  BY <1>11, <1>12, <1>13

\* The page's own steps.
LEMMA PagesKeepDesk ==
    ASSUME StoreTyped, DeskInv, Today \/ Redraw \/ Lists
    PROVE  DeskInv'
<1> USE DEF DeskInv
<1>0. UNCHANGED <<summary, state>>
  BY PagesRequest
<1>1. call \in [Calls -> CallStates] /\ toggle \in [Toggles -> ToggleStates]
  BY DEF StoreTyped, CallsTyped, DeskTyped
<1>2. ASSUME NEW t \in Toggles, NEW b \in Buttons, Press(t, b)
      PROVE  DeskInv'
  <2> DEFINE next == IF shown[First] = b THEN "none" ELSE b
             pressed == [button |-> b, next |-> next, awaited |-> TRUE, drawn |-> TRUE, alone |-> Out = {}]
  <2>1. next \in States
    BY DEF States, Buttons
  <2> HIDE DEF next
  <2>2. pressed \in ToggleStates /\ pressed # NoToggle
    <3>1. (Out = {}) \in BOOLEAN /\ pressed.button # NoToggle.button
      BY DEF NoToggle, Buttons
    <3> QED
      BY <2>1, <3>1 DEF ToggleStates
  <2>3. \A u \in Toggles : toggle'[u] =
            IF u = t THEN pressed
            ELSE IF toggle[u] # NoToggle THEN [toggle[u] EXCEPT !.alone = FALSE] ELSE NoToggle
    <3>1. toggle' = [u \in Toggles |->
                       CASE u = t -> pressed
                         [] u \in Out -> [toggle[u] EXCEPT !.alone = FALSE]
                         [] OTHER -> toggle[u]]
      BY <1>2 DEF Press, next
    <3>2. t \notin Out
      BY <1>2 DEF Press, Out
    <3> QED
      BY <3>1, <3>2 DEF Out
  <2>4. \A u \in Toggles : toggle[u] # NoToggle =>
          /\ [toggle[u] EXCEPT !.alone = FALSE] \in ToggleStates
          /\ [toggle[u] EXCEPT !.alone = FALSE] # NoToggle
          /\ ~ [toggle[u] EXCEPT !.alone = FALSE].alone
          /\ [toggle[u] EXCEPT !.alone = FALSE].next = toggle[u].next
    BY <1>1 DEF ToggleStates, NoToggle, Buttons
  <2>5. /\ \A u \in Toggles, s \in Summaries : call'[<<u, s>>] =
             IF u = t THEN [op |-> "state", sum |-> s, arg |-> next, at |-> "read", seen |-> Fresh]
             ELSE call[<<u, s>>]
        /\ \A c \in Edits : call'[c] = call[c]
        /\ toggle[t] = NoToggle
    BY <1>2, CallsApart, CallsAreThePages DEF Press, next
  <2>6. /\ shown' = shown /\ locked' = locked \cup {b}
        /\ muddled' = (muddled \/ Out # {})
    BY <1>2 DEF Press
  <2>7. pressed.next = next /\ pressed.alone = (Out = {}) /\ pressed.awaited
    OBVIOUS
  <2> HIDE DEF pressed
  <2>8. DeskTyped'
    <3>1. toggle' \in [Toggles -> ToggleStates]
      <4>1. \A u \in Toggles : toggle'[u] \in ToggleStates
        BY <2>2, <2>3, <2>4 DEF ToggleStates
      <4>2. toggle' = [u \in Toggles |-> toggle'[u]]
        BY <1>2 DEF Press
      <4> QED
        BY <4>1, <4>2
    <3> QED
      BY <2>6, <3>1 DEF DeskTyped
  <2>9. TogglesRequest'
    <3>1. ASSUME NEW u \in Toggles, NEW s \in Summaries
          PROVE  IF toggle'[u] = NoToggle THEN call'[<<u, s>>] = Idle
                 ELSE \/ call'[<<u, s>>].op = "answered"
                      \/ call'[<<u, s>>].op = "state" /\ call'[<<u, s>>].sum = s
                         /\ call'[<<u, s>>].arg = toggle'[u].next
      <4>1. CASE u = t
        <5>1. /\ toggle'[u] = pressed
              /\ call'[<<u, s>>] = [op |-> "state", sum |-> s, arg |-> next, at |-> "read", seen |-> Fresh]
          BY <2>3, <2>5, <4>1
        <5> QED
          BY <2>2, <2>7, <5>1
      <4>2. CASE u # t
        <5>1. call'[<<u, s>>] = call[<<u, s>>]
          BY <2>5, <4>2
        <5>2. (toggle'[u] = NoToggle <=> toggle[u] = NoToggle)
              /\ (toggle[u] # NoToggle => toggle'[u].next = toggle[u].next)
          BY <2>3, <2>4, <4>2
        <5> QED
          BY <5>1, <5>2 DEF TogglesRequest
      <4> QED
        BY <4>1, <4>2
    <3>2. \A c \in Edits : call'[c].op # "state"
      BY <2>5 DEF TogglesRequest
    <3> QED
      BY <3>1, <3>2 DEF TogglesRequest
  <2>10. AloneWrites'
    <3>1. ASSUME NEW u \in Toggles, toggle'[u] # NoToggle, toggle'[u].alone
          PROVE  u = t /\ Out = {}
      BY <2>3, <2>4, <2>7, <3>1
    <3>2. ASSUME NEW s \in Summaries
          PROVE  call'[<<t, s>>].op # "answered"
      <4>1. call'[<<t, s>>] = [op |-> "state", sum |-> s, arg |-> next, at |-> "read", seen |-> Fresh]
        BY <2>5
      <4> QED
        BY <4>1
    <3>3. Out = {} => \A u \in Toggles : u # t => toggle'[u] = NoToggle
      BY <2>3 DEF Out
    <3> QED
      BY <3>1, <3>2, <3>3 DEF AloneWrites
  <2>11. Unmuddled'
    BY <2>3, <2>6, <2>7 DEF Unmuddled, Out
  <2>12. RowTellsTheTruth'
    BY <2>2, <2>3 DEF RowTellsTheTruth, AtRest, Out
  <2> QED
    BY <2>8, <2>9, <2>10, <2>11, <2>12
<1>3. ASSUME NEW t \in Toggles, toggle[t] # NoToggle, call' = Free(t)
      PROVE  /\ \A s \in Summaries : call'[<<t, s>>] = Idle
             /\ \A u \in Toggles, s \in Summaries : u # t => call'[<<u, s>>] = call[<<u, s>>]
             /\ \A c \in Edits : call'[c] = call[c]
  BY <1>3, CallsApart, CallsAreThePages DEF Free
<1>4. ASSUME NEW t \in Toggles, toggle[t] # NoToggle
      PROVE  /\ [toggle[t] EXCEPT !.drawn = FALSE] \in ToggleStates
             /\ [toggle[t] EXCEPT !.drawn = FALSE] # NoToggle
             /\ [toggle[t] EXCEPT !.drawn = FALSE].next = toggle[t].next
             /\ [toggle[t] EXCEPT !.drawn = FALSE].alone = toggle[t].alone
             /\ [toggle[t] EXCEPT !.drawn = FALSE].awaited = toggle[t].awaited
  BY <1>1, <1>4 DEF ToggleStates, NoToggle, Buttons
<1>5. ASSUME NEW t \in Toggles, Resolve(t)
      PROVE  DeskInv'
  <2>1. /\ toggle[t] # NoToggle /\ AllOk(t) /\ call' = Free(t)
        /\ shown' = [s \in Summaries |-> toggle[t].next] /\ locked' = {}
        /\ muddled' = (muddled /\ ~ toggle[t].alone)
        /\ toggle' = [Undrawn EXCEPT ![t] = NoToggle]
    BY <1>5 DEF Resolve, Out
  <2>2. \A u \in Toggles : toggle'[u] = IF u = t \/ toggle[u] = NoToggle THEN NoToggle
                                         ELSE [toggle[u] EXCEPT !.drawn = FALSE]
    BY <2>1 DEF Undrawn, Out
  <2>3. DeskTyped'
    <3>1. toggle' \in [Toggles -> ToggleStates]
      <4>1. \A u \in Toggles : toggle'[u] \in ToggleStates
        BY <1>4, <2>2 DEF ToggleStates
      <4>2. toggle' = [u \in Toggles |-> toggle'[u]]
        BY <2>1 DEF Undrawn
      <4> QED
        BY <4>1, <4>2
    <3>2. toggle[t].next \in States /\ toggle[t].alone \in BOOLEAN
      BY <1>1, <2>1 DEF ToggleStates
    <3> QED
      BY <2>1, <3>1, <3>2 DEF DeskTyped
  <2>4. TogglesRequest'
    <3>1. ASSUME NEW u \in Toggles, NEW s \in Summaries
          PROVE  IF toggle'[u] = NoToggle THEN call'[<<u, s>>] = Idle
                 ELSE \/ call'[<<u, s>>].op = "answered"
                      \/ call'[<<u, s>>].op = "state" /\ call'[<<u, s>>].sum = s
                         /\ call'[<<u, s>>].arg = toggle'[u].next
      <4>1. CASE u = t
        BY <1>3, <2>1, <2>2, <4>1
      <4>2. CASE u # t /\ toggle[u] = NoToggle
        <5>1. toggle'[u] = NoToggle /\ call'[<<u, s>>] = call[<<u, s>>]
          BY <1>3, <2>1, <2>2, <4>2
        <5> QED
          BY <4>2, <5>1 DEF TogglesRequest
      <4>3. CASE u # t /\ toggle[u] # NoToggle
        <5>1. toggle'[u] # NoToggle /\ toggle'[u].next = toggle[u].next /\ call'[<<u, s>>] = call[<<u, s>>]
          <6>1. toggle'[u] = [toggle[u] EXCEPT !.drawn = FALSE]
            BY <2>2, <4>3
          <6>2. call'[<<u, s>>] = call[<<u, s>>]
            BY <1>3, <2>1, <4>3
          <6> QED
            BY <1>4, <4>3, <6>1, <6>2
        <5> QED
          BY <4>3, <5>1 DEF TogglesRequest
      <4> QED
        BY <4>1, <4>2, <4>3
    <3> QED
      BY <1>3, <2>1, <3>1 DEF TogglesRequest
  <2>5. AloneWrites'
    <3>1. ASSUME NEW u \in Toggles, toggle'[u] # NoToggle, toggle'[u].alone
          PROVE  FALSE
      BY <1>4, <2>1, <2>2, <3>1 DEF AloneWrites
    <3> QED
      BY <3>1 DEF AloneWrites
  <2>6. Unmuddled'
    <3>1. ASSUME ~ muddled', NEW u \in Toggles, toggle'[u] # NoToggle
          PROVE  toggle'[u].alone /\ toggle'[u].awaited
      <4>1. CASE toggle[t].alone
        BY <2>1, <2>2, <3>1, <4>1 DEF AloneWrites
      <4>2. CASE ~ toggle[t].alone
        BY <1>4, <2>1, <2>2, <3>1, <4>2 DEF Unmuddled
      <4> QED
        BY <4>1, <4>2
    <3> QED
      BY <3>1 DEF Unmuddled
  <2>7. RowTellsTheTruth'
    <3>1. ASSUME ~ muddled', NEW s \in Summaries, Alive(s)
          PROVE  shown'[s] = state[s]
      <4>1. toggle[t].alone
        BY <2>1, <3>1 DEF Unmuddled
      <4>2. call[<<t, s>>].op = "answered" /\ call[<<t, s>>].reply = "ok"
        BY <2>1 DEF AllOk, Settled, Answered
      <4> QED
        BY <2>1, <3>1, <4>1, <4>2 DEF AloneWrites
    <3> QED
      BY <1>0, <3>1 DEF RowTellsTheTruth, AtRest, Alive
  <2> QED
    BY <2>3, <2>4, <2>5, <2>6, <2>7
<1>6. ASSUME NEW t \in Toggles, Forget(t)
      PROVE  DeskInv'
  <2>1. /\ toggle[t] # NoToggle /\ ~ toggle[t].awaited /\ call' = Free(t)
        /\ toggle' = [toggle EXCEPT ![t] = NoToggle] /\ UNCHANGED <<shown, locked, muddled>>
    BY <1>6 DEF Forget, Out
  <2>2. \A u \in Toggles : toggle'[u] = IF u = t THEN NoToggle ELSE toggle[u]
    BY <1>1, <2>1
  <2>3. DeskTyped'
    BY <2>1 DEF DeskTyped, ToggleStates
  <2>4. TogglesRequest'
    BY <1>3, <2>1, <2>2 DEF TogglesRequest
  <2>5. AloneWrites'
    BY <1>0, <1>3, <2>1, <2>2 DEF AloneWrites, Alive
  <2>6. muddled
    BY <2>1 DEF Unmuddled
  <2>7. Unmuddled' /\ RowTellsTheTruth'
    BY <2>1, <2>6 DEF Unmuddled, RowTellsTheTruth, AtRest
  <2> QED
    BY <2>3, <2>4, <2>5, <2>7
<1>7. ASSUME NEW t \in Toggles, Reject(t)
      PROVE  DeskInv'
  <2>1. /\ toggle[t] # NoToggle /\ call' = call /\ shown' = shown /\ muddled'
        /\ muddled' = TRUE /\ toggle' = [toggle EXCEPT ![t].awaited = FALSE] /\ locked' \subseteq locked
    BY <1>7 DEF Reject, Out, storeVars
  <2>2. /\ [toggle[t] EXCEPT !.awaited = FALSE] \in ToggleStates
        /\ [toggle[t] EXCEPT !.awaited = FALSE] # NoToggle
        /\ [toggle[t] EXCEPT !.awaited = FALSE].next = toggle[t].next
        /\ [toggle[t] EXCEPT !.awaited = FALSE].alone = toggle[t].alone
    BY <1>1, <2>1 DEF ToggleStates, NoToggle, Buttons
  <2>3. \A u \in Toggles : toggle'[u] = IF u = t THEN [toggle[t] EXCEPT !.awaited = FALSE] ELSE toggle[u]
    BY <1>1, <2>1
  <2>4. DeskTyped'
    BY <1>1, <2>1, <2>2 DEF DeskTyped
  <2>5. TogglesRequest'
    BY <2>1, <2>2, <2>3 DEF TogglesRequest
  <2>6. AloneWrites'
    BY <1>0, <2>1, <2>2, <2>3 DEF AloneWrites, Alive
  <2>7. Unmuddled' /\ RowTellsTheTruth'
    BY <2>1 DEF Unmuddled, RowTellsTheTruth, AtRest
  <2> QED
    BY <2>4, <2>5, <2>6, <2>7
<1>8. ASSUME NEW t \in Toggles, Lose(t)
      PROVE  DeskInv'
  <2>1. PICK s \in Summaries : Reply(<<t, s>>, "refused")
    BY <1>8 DEF Lose
  <2>2. toggle[t] # NoToggle /\ UNCHANGED <<shown, toggle, locked, muddled>>
    BY <1>8 DEF Lose, Out, pageVars
  <2>3. <<t, s>> \in Calls
    BY CallsApart
  <2>4. \A d \in Calls : call'[d] = IF d = <<t, s>> THEN [op |-> "answered", reply |-> "refused"] ELSE call[d]
    BY <2>1, <2>3, Replied DEF StoreTyped
  <2>5. /\ \A u \in Toggles, r \in Summaries :
             \/ call'[<<u, r>>] = call[<<u, r>>]
             \/ u = t /\ call'[<<u, r>>] = [op |-> "answered", reply |-> "refused"]
        /\ \A c \in Edits : call'[c] = call[c]
    BY <2>4, CallsApart, CallsAreThePages
  <2>6. DeskTyped' /\ Unmuddled'
    BY <2>2 DEF DeskTyped, Unmuddled
  <2>7. TogglesRequest'
    BY <2>2, <2>5 DEF TogglesRequest
  <2>8. AloneWrites'
    BY <1>0, <2>2, <2>5 DEF AloneWrites, Alive
  <2>9. RowTellsTheTruth'
    BY <2>2 DEF RowTellsTheTruth, AtRest, Out
  <2> QED
    BY <2>6, <2>7, <2>8, <2>9
<1>9. CASE Redraw
  <2>1. /\ call' = call /\ UNCHANGED <<shown, muddled>> /\ locked' = {}
        /\ toggle' = Undrawn
    BY <1>9 DEF Redraw, storeVars
  <2>2. \A u \in Toggles : toggle'[u] = IF toggle[u] = NoToggle THEN NoToggle
                                         ELSE [toggle[u] EXCEPT !.drawn = FALSE]
    BY <2>1 DEF Undrawn, Out
  <2>3. DeskTyped'
    <3>1. \A u \in Toggles : toggle'[u] \in ToggleStates
      BY <1>4, <2>2 DEF ToggleStates
    <3>2. toggle' = [u \in Toggles |-> toggle'[u]]
      BY <2>1 DEF Undrawn
    <3>3. toggle' \in [Toggles -> ToggleStates]
      BY <3>1, <3>2
    <3> QED
      BY <2>1, <3>3 DEF DeskTyped
  <2>4. \A u \in Toggles :
          /\ toggle'[u] = NoToggle <=> toggle[u] = NoToggle
          /\ toggle[u] # NoToggle => /\ toggle'[u].next = toggle[u].next
                                     /\ toggle'[u].alone = toggle[u].alone
                                     /\ toggle'[u].awaited = toggle[u].awaited
    BY <1>4, <2>2
  <2>5. TogglesRequest'
    BY <2>1, <2>4 DEF TogglesRequest
  <2>6. AloneWrites'
    BY <1>0, <2>1, <2>4 DEF AloneWrites, Alive
  <2>7. Unmuddled'
    BY <2>1, <2>4 DEF Unmuddled
  <2>8. RowTellsTheTruth'
    BY <1>0, <2>1, <2>4 DEF RowTellsTheTruth, AtRest, Out, Alive
  <2> QED
    BY <2>3, <2>5, <2>6, <2>7, <2>8
<1>10. CASE Lists
  <2>1. PICK c \in Edits : Send(c) \/ Hear(c)
    BY <1>10 DEF Lists
  <2>2. UNCHANGED <<shown, toggle, locked, muddled>>
    BY <1>10 DEF Lists, pageVars
  <2>3. \A d \in Calls : d # c => call'[d] = call[d]
    BY <1>1, <2>1 DEF Send, Hear, Request
  <2>4. call'[c].op # "state"
    <3>1. c \in Calls
      BY CallsAreThePages
    <3>2. CASE Hear(c)
      BY <1>1, <3>1, <3>2 DEF Hear, Idle
    <3>3. ASSUME NEW op, op # "state", NEW s, NEW arg, Request(c, op, s, arg)
          PROVE  call'[c].op # "state"
      <4>1. call'[c] = [op |-> op, sum |-> s, arg |-> arg, at |-> "read", seen |-> Fresh]
        BY <1>1, <3>1, <3>3 DEF Request
      <4> QED
        BY <3>3, <4>1
    <3>4. CASE Send(c)
      <4>1. PICK s \in Quoted :
              \/ \E k \in Kinds : Request(c, k, s, 0)
              \/ \E p \in Bodies : Request(c, "update", s, p)
              \/ \E v \in {1, Bad} : Request(c, "edit", s, v)
              \/ Request(c, "drop", s, 0)
        BY <3>4 DEF Send
      <4> QED
        BY <3>3, <4>1 DEF Kinds
    <3> QED
      BY <2>1, <3>2, <3>4
  <2>5. DeskTyped' /\ Unmuddled' /\ RowTellsTheTruth'
    BY <1>0, <2>2 DEF DeskTyped, Unmuddled, RowTellsTheTruth, AtRest, Out, Alive
  <2>6. \A u \in Toggles, s \in Summaries : call'[<<u, s>>] = call[<<u, s>>]
    BY <2>3, CallsApart
  <2>7. TogglesRequest'
    BY <2>2, <2>3, <2>4, <2>6, CallsAreThePages DEF TogglesRequest
  <2>8. AloneWrites'
    BY <1>0, <2>2, <2>6 DEF AloneWrites, Alive
  <2> QED
    BY <2>5, <2>7, <2>8
<1> QED
  BY <1>2, <1>5, <1>6, <1>7, <1>8, <1>9, <1>10 DEF Today

-----------------------------------------------------------------------------
(* What an answer may cite. *)

Sources == Messages \cup Passages
AskStates ==
  [at : {"idle", "messages", "summaries", "rank", "answer", "told"},
   from : SUBSET Sources, claims : SUBSET SUBSET Sources]

AskTyped ==
  /\ body \subseteq Messages
  /\ ask \in [Questions -> AskStates] /\ allowed \in [Questions -> SUBSET Sources]

\* A question's candidates and citations were readable since it was put, and
\* so is all that can be read now; no claim is left without a source.
SourcesReadable ==
  \A q \in Questions :
    /\ ask[q].from \subseteq allowed[q] /\ UNION ask[q].claims \subseteq allowed[q]
    /\ {} \notin ask[q].claims
    /\ ask[q] # NoQuestion => Readable \subseteq allowed[q]

AskInv == AskTyped /\ SourcesReadable

\* Both reads take only what is readable.
LEMMA ReadsReadable ==
    ASSUME AskTyped
    PROVE  Quotable \subseteq Readable /\ Texts \subseteq Readable /\ Readable \subseteq Sources
BY DEF Quotable, Texts, Readable, Messages, Authors, Passages, Sources, AskTyped, Alive

\* Unless a Group is enabled, what can be read only shrinks.
LEMMA ReadableShrinks ==
    ASSUME AskTyped, body' \subseteq body,
           \A g \in Groups : group'[g] = "on" => group[g] = "on",
           \A s \in Summaries : summary'[s] # "gone" => summary[s] # "gone"
    PROVE  Readable' \subseteq Readable
<1>1. ASSUME NEW m \in body', group'[m[2]] = "on"
      PROVE  m \in body /\ group[m[2]] = "on"
  <2>1. m \in Messages
    BY DEF AskTyped
  <2>2. m[2] \in Groups
    BY <2>1 DEF Messages
  <2> QED
    BY <1>1, <2>2
<1>2. ASSUME NEW p \in Passages, summary'[p[2]] # "gone", group'[p[3]] = "on"
      PROVE  summary[p[2]] # "gone" /\ group[p[3]] = "on"
  <2>1. p[2] \in Summaries /\ p[3] \in Groups
    BY GroupOfTyped DEF Passages
  <2> QED
    BY <1>2, <2>1
<1>3. Passages' = Passages
  BY DEF Passages
<1> QED
  BY <1>1, <1>2, <1>3 DEF Readable

\* A step that puts no question and enables no Group.
LEMMA AskUndisturbed ==
    ASSUME AskInv, UNCHANGED <<ask, allowed>>, body' \subseteq body,
           \A g \in Groups : group'[g] = "on" => group[g] = "on",
           \A s \in Summaries : summary'[s] # "gone" => summary[s] # "gone"
    PROVE  AskInv'
<1>1. Readable' \subseteq Readable
  BY ReadableShrinks DEF AskInv
<1>2. AskTyped'
  BY DEF AskInv, AskTyped, Messages, Passages, Sources, AskStates
<1>3. SourcesReadable'
  BY <1>1 DEF AskInv, SourcesReadable
<1> QED
  BY <1>2, <1>3 DEF AskInv

\* The Store and the pages enable no Group and bring no Summary back.
LEMMA DeskStepKeepsAsk ==
    ASSUME StoreTyped, DeskInv, AskInv, DeskNext, UNCHANGED askVars
    PROVE  AskInv'
<1>1. UNCHANGED <<body, ask, allowed>>
  BY DEF askVars
<1>2. CASE Today \/ Redraw \/ Lists
  <2>1. UNCHANGED <<group, summary>>
    BY <1>2, PagesRequest
  <2> QED
    BY <1>1, <2>1, AskUndisturbed
<1>3. CASE Serve
  <2>1. UNCHANGED <<group, summary>>
    BY <1>3, ServeTyped, ServeTouches
  <2> QED
    BY <1>1, <2>1, AskUndisturbed
<1>4. CASE Erasing \/ Passing
  <2>1. \A s \in Summaries : summary'[s] # "gone" => summary[s] # "gone"
    BY <1>4, ErasingStates DEF Alive
  <2>2. \A g \in Groups : group'[g] = "on" => group[g] = "on"
    BY <1>4 DEF Erasing, Passing, EraseReminders, EraseMemories, EraseCopies, EraseGroup,
                EraseThrows, Age, Purge, StoreTyped, StoreTypeOK
  <2> QED
    BY <1>1, <2>1, <2>2, AskUndisturbed
<1> QED
  BY <1>2, <1>3, <1>4 DEF DeskNext

\* A step of one question, which reads, ranks, answers or closes.
LEMMA QuestionMoves ==
    ASSUME AskInv, NEW q \in Questions, NEW a \in AskStates,
           UNCHANGED <<storeVars, body, allowed>>, ask' = [ask EXCEPT ![q] = a],
           ask[q] # NoQuestion, a.from \subseteq allowed[q], UNION a.claims \subseteq allowed[q],
           {} \notin a.claims
    PROVE  AskInv'
<1>1. UNCHANGED <<group, summary, body, allowed>>
  BY DEF storeVars
<1>2. Readable' = Readable
  BY <1>1 DEF Readable, Passages
<1>3. AskTyped'
  BY <1>1 DEF AskInv, AskTyped, Messages, Passages, Sources, AskStates
<1>4. \A p \in Questions : ask'[p] = IF p = q THEN a ELSE ask[p]
  BY DEF AskInv, AskTyped
<1>5. SourcesReadable'
  BY <1>1, <1>2, <1>4 DEF AskInv, SourcesReadable
<1> QED
  BY <1>3, <1>5 DEF AskInv

\* The steps of Ask keep what its answers rely on.
LEMMA AskStepKeepsAsk ==
    ASSUME StoreTyped, AskInv, AskNext
    PROVE  AskInv'
<1> USE DEF AskInv
<1>1. /\ body \subseteq Messages /\ ask \in [Questions -> AskStates]
      /\ allowed \in [Questions -> SUBSET Sources]
  BY DEF AskTyped
<1>2. ASSUME NEW q \in Questions
      PROVE  /\ ask[q].from \subseteq Sources /\ ask[q].claims \subseteq SUBSET Sources
             /\ ask[q].from \subseteq allowed[q] /\ UNION ask[q].claims \subseteq allowed[q]
             /\ {} \notin ask[q].claims
             /\ ask[q] # NoQuestion => Readable \subseteq allowed[q]
  BY <1>1 DEF AskStates, SourcesReadable
<1>3. NoQuestion \in AskStates /\ NoQuestion.from = {} /\ NoQuestion.claims = {} /\ NoQuestion.at = "idle"
  BY DEF NoQuestion, AskStates
<1>4. ASSUME NEW q \in Questions, Put(q)
      PROVE  AskInv'
  <2>1. /\ ask' = [ask EXCEPT ![q].at = "messages"] /\ allowed' = [allowed EXCEPT ![q] = Readable]
        /\ UNCHANGED <<group, summary, body>> /\ ask[q] = NoQuestion
    BY <1>4 DEF Put, storeVars
  <2>2. Readable' = Readable /\ Readable \subseteq Sources
    BY <2>1, ReadsReadable DEF Readable, Passages
  <2>3. ask'[q].from = {} /\ ask'[q].claims = {} /\ ask'[q] \in AskStates
    BY <1>1, <1>3, <2>1 DEF AskStates
  <2>4. \A p \in Questions : p # q => ask'[p] = ask[p] /\ allowed'[p] = allowed[p]
    BY <1>1, <2>1
  <2>5. AskTyped'
    <3>1. ask' \in [Questions -> AskStates]
      BY <1>1, <2>1, <2>3
    <3>2. allowed' \in [Questions -> SUBSET Sources]
      BY <1>1, <2>1, <2>2
    <3> QED
      BY <1>1, <2>1, <3>1, <3>2 DEF AskTyped, Messages, Passages, Sources, AskStates
  <2>6. allowed'[q] = Readable
    BY <1>1, <2>1
  <2>7. ASSUME NEW p \in Questions
        PROVE  /\ ask'[p].from \subseteq allowed'[p] /\ UNION ask'[p].claims \subseteq allowed'[p]
               /\ {} \notin ask'[p].claims
               /\ ask'[p] # NoQuestion => Readable' \subseteq allowed'[p]
    BY <1>2, <2>2, <2>3, <2>4, <2>6
  <2>8. SourcesReadable'
    BY <2>7 DEF SourcesReadable, NoQuestion
  <2> QED
    BY <2>5, <2>8
<1>5. ASSUME NEW q \in Questions, NEW from \in SUBSET allowed[q],
             NEW at \in {"summaries", "rank", "answer"},
             ask' = [ask EXCEPT ![q] = [ask[q] EXCEPT !.at = at, !.from = from]],
             ask[q] # NoQuestion, UNCHANGED <<storeVars, body, allowed>>
      PROVE  AskInv'
  <2>1. from \subseteq Sources
    BY <1>1, <1>5
  <2> DEFINE a == [ask[q] EXCEPT !.at = at, !.from = from]
  <2>2. a \in AskStates /\ a.from = from /\ a.claims = ask[q].claims
    BY <1>1, <2>1 DEF AskStates
  <2>3. ask' = [ask EXCEPT ![q] = a]
    BY <1>5
  <2> HIDE DEF a
  <2> QED
    BY <1>2, <1>5, <2>1, <2>2, <2>3, QuestionMoves
<1>6. ASSUME NEW q \in Questions, ReadMessages(q)
      PROVE  AskInv'
  <2>1. ask[q] # NoQuestion /\ Quotable \in SUBSET Readable /\ UNCHANGED <<storeVars, body, allowed>>
    BY <1>3, <1>6, ReadsReadable DEF ReadMessages, At
  <2>2. Quotable \in SUBSET allowed[q]
    BY <1>2, <2>1
  <2>3. ask' = [ask EXCEPT ![q] = [ask[q] EXCEPT !.at = "summaries", !.from = Quotable]]
    BY <1>1, <1>6 DEF ReadMessages
  <2> QED
    BY <1>5, <2>1, <2>2, <2>3
<1>7. ASSUME NEW q \in Questions, ReadSummaries(q)
      PROVE  AskInv'
  <2>1. ask[q] # NoQuestion /\ Texts \in SUBSET Readable /\ UNCHANGED <<storeVars, body, allowed>>
    BY <1>3, <1>7, ReadsReadable DEF ReadSummaries, At
  <2>2. ask[q].from \cup Texts \in SUBSET allowed[q]
    BY <1>2, <2>1
  <2>3. ask' = [ask EXCEPT ![q] = [ask[q] EXCEPT !.at = "rank", !.from = ask[q].from \cup Texts]]
    BY <1>1, <1>7 DEF ReadSummaries
  <2> QED
    BY <1>5, <2>1, <2>2, <2>3
<1>8. ASSUME NEW q \in Questions, Rank(q)
      PROVE  AskInv'
  <2>1. ask[q] # NoQuestion /\ UNCHANGED <<storeVars, body, allowed>>
    BY <1>3, <1>8 DEF Rank, At
  <2>2. PICK hits \in SUBSET ask[q].from :
          ask' = [ask EXCEPT ![q] = IF hits = {} THEN [NoQuestion EXCEPT !.at = "told"]
                                    ELSE [ask[q] EXCEPT !.at = "answer", !.from = hits]]
    BY <1>1, <1>8 DEF Rank
  <2>3. CASE hits = {}
    <3> DEFINE a == [NoQuestion EXCEPT !.at = "told"]
    <3>1. a \in AskStates /\ a.from = {} /\ a.claims = {}
      BY <1>3 DEF AskStates
    <3>2. ask' = [ask EXCEPT ![q] = a]
      BY <2>2, <2>3
    <3> HIDE DEF a
    <3> QED
      BY <2>1, <3>1, <3>2, QuestionMoves
  <2>4. CASE hits # {}
    <3>1. hits \in SUBSET allowed[q]
      BY <1>2
    <3>2. ask' = [ask EXCEPT ![q] = [ask[q] EXCEPT !.at = "answer", !.from = hits]]
      BY <2>2, <2>4
    <3> QED
      BY <1>5, <2>1, <3>1, <3>2
  <2> QED
    BY <2>3, <2>4
<1>9. ASSUME NEW q \in Questions, Answer(q)
       PROVE  AskInv'
  <2>1. ask[q] # NoQuestion /\ UNCHANGED <<storeVars, body, allowed>>
    BY <1>3, <1>9 DEF Answer, At
  <2>2. PICK x \in Messages \cup Passages \cup {Forged} :
          ask' = [ask EXCEPT ![q].at = "told",
                             ![q].claims = validateAnswer({{x, Forged}}, ask[q].from)]
    BY <1>9 DEF Answer
  <2> DEFINE claims == validateAnswer({{x, Forged}}, ask[q].from)
             a == [ask[q] EXCEPT !.at = "told", !.claims = claims]
  <2>3. claims \in SUBSET SUBSET Sources /\ UNION claims \subseteq ask[q].from /\ {} \notin claims
    BY <1>2 DEF validateAnswer
  <2>4. ask' = [ask EXCEPT ![q] = a]
    BY <1>1, <2>2
  <2> HIDE DEF claims
  <2>5. a \in AskStates /\ a.from = ask[q].from /\ a.claims = claims
    BY <1>1, <2>3 DEF AskStates
  <2> HIDE DEF a
  <2> QED
    BY <1>2, <2>1, <2>3, <2>4, <2>5, QuestionMoves
<1>10. ASSUME NEW q \in Questions, Close(q)
       PROVE  AskInv'
  <2>1. /\ ask[q] # NoQuestion /\ UNCHANGED <<storeVars, body, allowed>>
        /\ ask' = [ask EXCEPT ![q] = NoQuestion]
    BY <1>3, <1>10 DEF Close, At
  <2> QED
    BY <1>3, <2>1, QuestionMoves
<1>11. ASSUME NEW g \in Groups, Disable(g)
       PROVE  AskInv'
  <2>1. UNCHANGED <<summary, body, ask, allowed>> /\ group' = [group EXCEPT ![g] = "off"]
    BY <1>11 DEF Disable, askVars
  <2>2. \A h \in Groups : group'[h] = "on" => group[h] = "on"
    BY <2>1 DEF StoreTyped, StoreTypeOK
  <2> QED
    BY <2>1, <2>2, AskUndisturbed
<1>12. ASSUME NEW g \in Groups, Enable(g)
       PROVE  AskInv'
  <2>1. /\ UNCHANGED <<body, ask>>
        /\ allowed' = [q \in Questions |-> IF ask[q] = NoQuestion THEN {} ELSE allowed[q] \cup Readable']
    BY <1>12 DEF Enable
  <2>2. Readable' \subseteq Sources
    BY <1>1, <2>1 DEF Readable, Messages, Passages, Sources
  <2>3. AskTyped'
    BY <1>1, <2>1, <2>2 DEF AskTyped, Messages, Passages, Sources, AskStates
  <2>4. ASSUME NEW q \in Questions
        PROVE  /\ ask'[q].from \subseteq allowed'[q] /\ UNION ask'[q].claims \subseteq allowed'[q]
               /\ {} \notin ask'[q].claims
               /\ ask'[q] # NoQuestion => Readable' \subseteq allowed'[q]
    BY <1>2, <1>3, <2>1
  <2>5. SourcesReadable'
    BY <2>4 DEF SourcesReadable, NoQuestion
  <2> QED
    BY <2>3, <2>5
<1>13. ASSUME NEW m \in Messages, Expire(m)
       PROVE  AskInv'
  <2>1. UNCHANGED <<group, summary, ask, allowed>> /\ body' \subseteq body
    BY <1>13 DEF Expire, storeVars
  <2> QED
    BY <2>1, AskUndisturbed
<1> QED
  BY <1>4, <1>6, <1>7, <1>8, <1>9, <1>10, <1>11, <1>12, <1>13 DEF AskNext

\* The steps of Ask switch Groups and touch no row of the Store, no page.
LEMMA AskStepKeepsRest ==
    ASSUME StoreInv, DeskInv, AskNext, UNCHANGED pageVars
    PROVE  StoreInv' /\ DeskInv'
<1>1. UNCHANGED <<summary, state, copy, erase, call, asked, crossed>>
  BY DEF AskNext, Put, ReadMessages, ReadSummaries, Rank, Answer, Close, Disable, Enable, Expire,
         At, storeVars
<1>2. /\ group' \in [Groups -> {"on", "off", "erased"}]
      /\ \A g \in Groups : group'[g] = "erased" <=> group[g] = "erased"
  BY DEF AskNext, Put, ReadMessages, ReadSummaries, Rank, Answer, Close, Disable, Enable, Expire,
         At, storeVars, StoreInv, ErasureInv, StoreTyped, StoreTypeOK
<1>3. CallsTyped'
  BY <1>1 DEF StoreInv, ErasureInv, StoreTyped, CallsTyped
<1>4. StoreInv'
  BY <1>1, <1>2, <1>3, PagesKeepStore
<1>5. UNCHANGED <<shown, toggle, locked, muddled>>
  BY DEF pageVars
<1>6. DeskTyped' /\ TogglesRequest' /\ Unmuddled'
  BY <1>1, <1>5 DEF DeskInv, DeskTyped, TogglesRequest, Unmuddled
<1>7. AloneWrites' /\ RowTellsTheTruth'
  BY <1>1, <1>5 DEF DeskInv, AloneWrites, RowTellsTheTruth, AtRest, Out, Alive
<1> QED
  BY <1>4, <1>6, <1>7 DEF DeskInv

-----------------------------------------------------------------------------
(* The theorems. *)

HolderInv == StoreInv /\ DeskInv /\ AskInv

LEMMA HolderStarts == HolderInit => HolderInv
<1> SUFFICES ASSUME HolderInit PROVE HolderInv
  OBVIOUS
<1>1. StoreInit /\ DeskInit /\ AskInit
  BY DEF HolderInit, DeskInit
<1>2. StoreInv
  BY <1>1, StoreStarts
<1>3. \A t \in Toggles : toggle[t] = NoToggle
  BY <1>1 DEF DeskInit
<1>4. \A c \in Calls : call[c] = Idle
  BY <1>1 DEF StoreInit
<1>5. DeskTyped /\ Unmuddled /\ AloneWrites
  BY <1>1, <1>3 DEF DeskInit, DeskTyped, ToggleStates, States, Unmuddled, AloneWrites
<1>6. TogglesRequest
  BY <1>3, <1>4, CallsApart, CallsAreThePages DEF TogglesRequest, Idle
<1>7. RowTellsTheTruth
  BY <1>1 DEF DeskInit, StoreInit, RowTellsTheTruth
<1>8. AskInv
  BY <1>1 DEF AskInit, AskInv, AskTyped, SourcesReadable, AskStates, NoQuestion, Sources
<1> QED
  BY <1>2, <1>5, <1>6, <1>7, <1>8 DEF HolderInv, DeskInv

LEMMA HolderSteps == HolderInv /\ [HolderNext]_<<deskVars, askVars>> => HolderInv'
<1> SUFFICES ASSUME HolderInv, [HolderNext]_<<deskVars, askVars>> PROVE HolderInv'
  OBVIOUS
<1>0. StoreTyped
  BY DEF HolderInv, StoreInv, ErasureInv
<1>1. CASE DeskNext /\ UNCHANGED askVars
  <2>1. AskInv'
    BY <1>0, <1>1, DeskStepKeepsAsk DEF HolderInv
  <2>2. CASE Today \/ Redraw \/ Lists
    BY <1>0, <2>1, <2>2, PagesRequest, PagesKeepStore, PagesKeepDesk
       DEF HolderInv, StoreTyped, StoreTypeOK
  <2>3. CASE (Serve \/ Erasing \/ Passing) /\ UNCHANGED pageVars
    BY <1>0, <2>1, <2>3, StoreStepKeepsStore, StoreStepKeepsDesk DEF HolderInv
  <2> QED
    BY <1>1, <2>2, <2>3 DEF DeskNext
<1>2. CASE AskNext /\ UNCHANGED pageVars
  BY <1>0, <1>2, AskStepKeepsAsk, AskStepKeepsRest DEF HolderInv
<1>3. CASE UNCHANGED <<deskVars, askVars>>
  <2>1. /\ UNCHANGED <<group, summary, state, copy, erase, call, asked, crossed>>
        /\ UNCHANGED <<shown, toggle, locked, muddled>> /\ UNCHANGED <<body, ask, allowed>>
    BY <1>3 DEF deskVars, askVars, storeVars, pageVars
  <2>2. StoreInv'
    BY <2>1, PagesKeepStore DEF HolderInv, StoreInv, ErasureInv, StoreTyped, StoreTypeOK, CallsTyped
  <2>3. DeskTyped' /\ TogglesRequest' /\ Unmuddled'
    BY <2>1 DEF HolderInv, DeskInv, DeskTyped, TogglesRequest, Unmuddled
  <2>4. AloneWrites' /\ RowTellsTheTruth'
    BY <2>1 DEF HolderInv, DeskInv, AloneWrites, RowTellsTheTruth, AtRest, Out, Alive
  <2>5. AskInv'
    BY <2>1, AskUndisturbed DEF HolderInv
  <2> QED
    BY <2>2, <2>3, <2>4, <2>5 DEF HolderInv, DeskInv
<1> QED
  BY <1>1, <1>2, <1>3 DEF HolderNext

\* The invariant of what a holder works: the rows and requests are typed, links
\* and erasures agree (deleteGroupData, purgeExpired), what a page has asked for
\* matches its toggles (today.js), and what a question holds was readable.
THEOREM HolderInvariant == HolderSpec => []HolderInv
<1> QED
  BY HolderStarts, HolderSteps, PTL DEF HolderSpec

\* Every column and every row of the pages stays within its type.
THEOREM HolderTypeOK == HolderSpec => []DeskTypeOK
<1>1. HolderInv => DeskTypeOK
  BY DEF HolderInv, StoreInv, ErasureInv, StoreTyped, DeskInv, DeskTyped, DeskTypeOK, ToggleStates, Out
<1> QED
  BY <1>1, HolderInvariant, PTL

\* privacy.ts:130-145: a Reminder or Memory outlives the erasure of its Group
\* only if the 90-day purge had cut its link to the Summary, or it was confirmed
\* between two statements of the erasure.
THEOREM ErasureLeavesOnly == HolderSpec => []CopiesOutlive
<1>1. HolderInv => CopiesOutlive
  BY DEF HolderInv, StoreInv, ErasureInv
<1> QED
  BY <1>1, HolderInvariant, PTL

\* surfaces.ts:182-210: a Reminder holds the last value asked for in every field
\* unless two updates of it were under way at once.
THEOREM UpdatesKeepAbsentFields == HolderSpec => []KeptUnlessCrossed
<1>1. HolderInv => KeptUnlessCrossed
  BY DEF HolderInv, StoreInv
<1> QED
  BY <1>1, HolderInvariant, PTL

\* today.js:255-275: at rest, with no toggle failed or overlapped since one last
\* ran alone, the Console's row shows what every Summary that is left holds.
THEOREM ConsoleTellsTheTruth == HolderSpec => []RowTellsTheTruth
<1>1. HolderInv => RowTellsTheTruth
  BY DEF HolderInv, DeskInv
<1> QED
  BY <1>1, HolderInvariant, PTL

\* ask.ts:63-67: an answer cites only what an enabled Group let the holder read
\* at some moment since the question was put, and no claim is without a source.
THEOREM AnswersCiteReadable == HolderSpec => []CitesWereReadable
<1>1. HolderInv => CitesWereReadable
  BY DEF HolderInv, AskInv, SourcesReadable, CitesWereReadable
<1> QED
  BY <1>1, HolderInvariant, PTL
=============================================================================
