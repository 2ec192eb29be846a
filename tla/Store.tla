------------------------------- MODULE Store -------------------------------
(***************************************************************************)
(* What a holder keeps out of the Summaries: item states and Reminders     *)
(* (surfaces.ts), Memories (memory.ts), and the two things that take a     *)
(* Summary away from under them: deleteGroupData (privacy.ts) and the      *)
(* 90-day purge (retention.ts).  Each handler awaits the database between  *)
(* its statements, so one action here is one statement.                    *)
(*                                                                         *)
(* Every Summary has one item of each section, index 0.  A Reminder is a   *)
(* function over Fields: owner and due_at are one field, parsed and kept   *)
(* alike and sent together by the page.  Value 0 is what the confirmation  *)
(* copied (status: open), 1 what an edit writes, Bad what no parse takes.  *)
(***************************************************************************)
EXTENDS Naturals

CONSTANTS
  Groups, Summaries,
  GroupOf,            \* the Group of each Summary
  Calls               \* the requests that may be in flight at once

ASSUME GroupOfTyped == GroupOf \in [Summaries -> Groups]

Fields == {"details", "status"}
Values == 0 .. 1
Bad == 2
States == {"none", "complete", "dismissed"}
Patches == UNION {[F -> Values \cup {Bad}] : F \in SUBSET Fields \ {{}}}

VARIABLES
  group,      \* "on", "off" or "erased": groups.enabled, and the row itself
  summary,    \* "new", "old" (past the 7-day candidate window) or "gone"
  state,      \* item_states, "none" where no row exists
  copy,       \* reminders and memories, by kind and the Summary they quote
  erase,      \* deleteGroupData, by Group: its next statement, what it deleted
  call,       \* a request: its operation, next statement, and reply
  \* history
  asked,      \* the last value asked for in each field of a Reminder
  crossed     \* Reminders two updates of which were under way at once

storeVars == <<group, summary, state, copy, erase, call, asked, crossed>>

Kinds == {"reminder", "memory"}
Fresh == [f \in Fields |-> 0]
Rows == [Fields -> Values]
Links == {"whole", "purged", "erased"}     \* what became of summary_id
Copies == [held : BOOLEAN, link : Links, late : BOOLEAN, row : Rows]
NoCopy == [held |-> FALSE, link |-> "whole", late |-> FALSE, row |-> Fresh]

Idle == [op |-> "idle"]
Ops == {"state", "reminder", "memory", "update", "edit", "drop"}

Alive(s) == summary[s] # "gone"
Held(k, s) == copy[k][s].held

\* The rows a deleteGroupData under way has deleted and not yet committed.
Doomed(k, s) == <<k, s>> \in erase[GroupOf[s]].doomed

(***************************************************************************)
(* Requests                                                                *)
(***************************************************************************)
Request(c, op, s, arg) ==
  /\ call[c] = Idle
  /\ call' = [call EXCEPT ![c] = [op |-> op, sum |-> s, arg |-> arg, at |-> "read", seen |-> Fresh]]

Reply(c, r) == call' = [call EXCEPT ![c] = [op |-> "answered", reply |-> r]]
Answered(c) == call[c].op = "answered"

Reads(c, op) == call[c].op = op /\ call[c].at = "read"
Writes(c, op) == call[c].op = op /\ call[c].at = "write"
Proceed(c) == call' = [call EXCEPT ![c].at = "write"]

Rest(vars) == UNCHANGED <<group, summary, erase, crossed>> /\ UNCHANGED vars

\* setItemState: the tenant check first, then the value, then the write.  A
\* Summary deleted since the check breaks the insert's foreign key: a 500.
StateRead(c) ==
  /\ Reads(c, "state")
  /\ IF Alive(call[c].sum) THEN Proceed(c) ELSE Reply(c, "refused")
  /\ Rest(<<state, copy, asked>>)

StateWrite(c) ==
  LET s == call[c].sum  IN
  /\ Writes(c, "state")
  /\ IF Alive(s)
     THEN state' = [state EXCEPT ![s] = call[c].arg] /\ Reply(c, "ok")
     ELSE UNCHANGED state /\ Reply(c, IF call[c].arg = "none" THEN "ok" ELSE "refused")
  /\ Rest(<<copy, asked>>)

\* confirmActionItem and confirmCandidate: read the item, then insert the copy
\* unless one is there.  A candidate lapses with its window.
ConfirmRead(c, k) ==
  LET s == call[c].sum  IN
  /\ Reads(c, k)
  /\ IF Alive(s) /\ ~ (k = "memory" /\ summary[s] = "old")
     THEN Proceed(c) ELSE Reply(c, "refused")
  /\ Rest(<<state, copy, asked>>)

ConfirmWrite(c, k) ==
  LET s == call[c].sum  IN
  /\ Writes(c, k)
  /\ ~ Doomed(k, s)              \* the unique index waits for the deleter
  /\ IF Alive(s) /\ ~ Held(k, s)
     THEN /\ copy' = [copy EXCEPT ![k][s] =
                        [NoCopy EXCEPT !.held = TRUE, !.late = erase[GroupOf[s]].at # "idle"]]
          /\ asked' = IF k = "reminder" THEN [asked EXCEPT ![s] = Fresh] ELSE asked
     ELSE UNCHANGED <<copy, asked>>
  /\ IF Alive(s) /\ Held(k, s)
     THEN call' = [call EXCEPT ![c].at = "find"]
     ELSE Reply(c, IF Alive(s) THEN "ok" ELSE "refused")
  /\ Rest(<<state>>)

\* DO NOTHING returned no id, so the row that was in the way is looked up; it
\* may be gone by now, and rows[0].id throws.
ConfirmFind(c, k) ==
  LET s == call[c].sum  IN
  /\ call[c].op = k /\ call[c].at = "find"
  /\ Reply(c, IF Held(k, s) /\ copy[k][s].link = "whole" THEN "ok" ELSE "refused")
  /\ Rest(<<state, copy, asked>>)

\* updateReminder: the row is read, the body laid over it, all of it written.
Updating(s) == {c \in Calls : Writes(c, "update") /\ call[c].sum = s}

Takes(c) ==
  /\ Held("reminder", call[c].sum)
  /\ \A f \in DOMAIN call[c].arg : call[c].arg[f] # Bad

\* A patch laid over a row.
Laid(patch, row) == [f \in Fields |-> IF f \in DOMAIN patch THEN patch[f] ELSE row[f]]

\* Mutation: an absent field falls back to the default, not to the row.
UpdateReadBlank(c) ==
  /\ Reads(c, "update")
  /\ IF Takes(c)
     THEN call' = [call EXCEPT ![c].at = "write", ![c].seen = Laid(call[c].arg, Fresh)]
     ELSE Reply(c, "refused")
  /\ UNCHANGED <<group, summary, erase, state, copy, asked, crossed>>

UpdateRead(c) ==
  LET s == call[c].sum  IN
  /\ Reads(c, "update")
  /\ IF Takes(c)
     THEN call' = [call EXCEPT ![c].at = "write",
                               ![c].seen = Laid(call[c].arg, copy["reminder"][s].row)]
     ELSE Reply(c, "refused")
  /\ crossed' = IF Takes(c) /\ Updating(s) # {} THEN crossed \cup {s} ELSE crossed
  /\ UNCHANGED <<group, summary, erase, state, copy, asked>>

UpdateWrite(c) ==
  LET s == call[c].sum  IN
  /\ Writes(c, "update")
  /\ ~ Doomed("reminder", s)
  /\ Reply(c, "ok")              \* also when the row is gone: the count is not read
  /\ IF Held("reminder", s)
     THEN /\ copy' = [copy EXCEPT !["reminder"][s].row = call[c].seen]
          /\ asked' = [asked EXCEPT ![s] = Laid(call[c].arg, @)]
     ELSE UNCHANGED <<copy, asked>>
  /\ Rest(<<state>>)

\* updateMemory checks that the row is the holder's and writes the content
\* alone; deleteMemory is one statement.
EditRead(c) ==
  /\ Reads(c, "edit")
  /\ IF Held("memory", call[c].sum) /\ call[c].arg # Bad
     THEN Proceed(c) ELSE Reply(c, "refused")
  /\ Rest(<<state, copy, asked>>)

EditWrite(c) ==
  LET s == call[c].sum  IN
  /\ Writes(c, "edit")
  /\ ~ Doomed("memory", s)
  /\ Reply(c, "ok")
  /\ copy' = IF Held("memory", s)
             THEN [copy EXCEPT !["memory"][s].row["details"] = call[c].arg] ELSE copy
  /\ Rest(<<state, asked>>)

Drop(c) ==
  LET s == call[c].sum  IN
  /\ Reads(c, "drop")
  /\ ~ Doomed("memory", s)
  /\ Reply(c, IF Held("memory", s) THEN "ok" ELSE "refused")
  /\ copy' = [copy EXCEPT !["memory"][s] = NoCopy]
  /\ Rest(<<state, asked>>)

Serve ==
  \E c \in Calls :
    \/ StateRead(c) \/ StateWrite(c)
    \/ \E k \in Kinds : ConfirmRead(c, k) \/ ConfirmWrite(c, k) \/ ConfirmFind(c, k)
    \/ UpdateRead(c) \/ UpdateWrite(c)
    \/ EditRead(c) \/ EditWrite(c) \/ Drop(c)

(***************************************************************************)
(* The Summaries go                                                        *)
(***************************************************************************)
Resting == [at |-> "idle", doomed |-> {}]

\* What ON DELETE leaves behind: item states cascade, a copy loses its link.
Vanish(gone, how) ==
  /\ summary' = [s \in Summaries |-> IF s \in gone THEN "gone" ELSE summary[s]]
  /\ state' = [s \in Summaries |-> IF s \in gone THEN "none" ELSE state[s]]
  /\ copy' = [k \in Kinds |-> [s \in Summaries |->
                IF s \notin gone \/ ~ Held(k, s) THEN copy[k][s]
                ELSE IF Doomed(k, s) THEN NoCopy
                ELSE [copy[k][s] EXCEPT !.link = how]]]

Of(g) == {s \in Summaries : GroupOf[s] = g}

\* DELETE FROM reminders, then memories, WHERE summary_id IN the Group's own:
\* a copy that has lost its link is not among them.
EraseCopies(g, k, from, to) ==
  /\ group[g] # "erased" /\ erase[g].at = from
  /\ erase' = [erase EXCEPT ![g] =
                 [at |-> to, doomed |-> @.doomed \cup
                   {<<k, s>> : s \in {t \in Of(g) : Held(k, t) /\ copy[k][t].link = "whole"}}]]
  /\ UNCHANGED <<group, summary, state, copy, call, asked, crossed>>

\* Mutation: memories are left to the cascade, which only cuts their link.
EraseMemoriesNot(g) ==
  /\ erase[g].at = "memories"
  /\ erase' = [erase EXCEPT ![g].at = "group"]
  /\ UNCHANGED <<group, summary, state, copy, call, asked, crossed>>

EraseReminders(g) == EraseCopies(g, "reminder", "idle", "memories")
EraseMemories(g) == EraseCopies(g, "memory", "memories", "group")

\* DELETE FROM groups, its cascade, and the COMMIT.
EraseGroup(g) ==
  /\ erase[g].at = "group"
  /\ group' = [group EXCEPT ![g] = "erased"]
  /\ Vanish({s \in Of(g) : Alive(s)}, "erased")
  /\ erase' = [erase EXCEPT ![g] = Resting]
  /\ UNCHANGED <<call, asked, crossed>>

EraseThrows(g) ==
  /\ erase[g].at # "idle"
  /\ erase' = [erase EXCEPT ![g] = Resting]
  /\ copy' = [k \in Kinds |-> [s \in Summaries |->
                [copy[k][s] EXCEPT !.late = @ /\ GroupOf[s] # g]]]
  /\ UNCHANGED <<group, summary, state, call, asked, crossed>>

Age(s) ==
  /\ summary[s] = "new"
  /\ summary' = [summary EXCEPT ![s] = "old"]
  /\ UNCHANGED <<group, state, copy, erase, call, asked, crossed>>

\* purgeExpired: SET NULL has to wait for a row an erasure has deleted.
Purge(s) ==
  /\ summary[s] = "old"
  /\ \A k \in Kinds : ~ Doomed(k, s)
  /\ Vanish({s}, "purged")
  /\ UNCHANGED <<group, erase, call, asked, crossed>>

Erasing == \E g \in Groups : EraseReminders(g) \/ EraseMemories(g) \/ EraseGroup(g) \/ EraseThrows(g)
Passing == \E s \in Summaries : Age(s) \/ Purge(s)

StoreInit ==
  /\ group = [g \in Groups |-> "on"]
  /\ summary = [s \in Summaries |-> "new"]
  /\ state = [s \in Summaries |-> "none"]
  /\ copy = [k \in Kinds |-> [s \in Summaries |-> NoCopy]]
  /\ erase = [g \in Groups |-> Resting]
  /\ call = [c \in Calls |-> Idle]
  /\ asked = [s \in Summaries |-> Fresh]
  /\ crossed = {}

(***************************************************************************)
(* Properties                                                              *)
(***************************************************************************)
StoreTypeOK ==
  /\ group \in [Groups -> {"on", "off", "erased"}]
  /\ summary \in [Summaries -> {"new", "old", "gone"}]
  /\ state \in [Summaries -> States]
  /\ copy \in [Kinds -> [Summaries -> Copies]]
  /\ asked \in [Summaries -> Rows] /\ crossed \subseteq Summaries

Survivors == {p \in Kinds \X Summaries : Held(p[1], p[2]) /\ group[GroupOf[p[2]]] = "erased"}

\* privacy.ts:103-106: a group delete takes the Reminders and Memories copied
\* out of its Summaries.  The code does not keep this: see CopiesOutlive.
ErasureTakesCopies == Survivors = {}

\* What does hold of deleteGroupData (privacy.ts:130-145): a copy outlives the
\* erasure of its Group only if the 90-day purge had already cut its link to
\* the Summary, or its confirmation fell between two statements of the erasure.
CopiesOutlive ==
  \A p \in Survivors : copy[p[1]][p[2]].late \/ copy[p[1]][p[2]].link = "purged"

\* surfaces.ts:182: fields absent from an update keep their value.  They do
\* unless two updates of the Reminder are under way at once, when the later
\* write puts back what its own read saw (surfaces.ts:190-210).
AbsentFieldsKept ==
  \A s \in Summaries : Held("reminder", s) => copy["reminder"][s].row = asked[s]
KeptUnlessCrossed ==
  \A s \in Summaries \ crossed : Held("reminder", s) => copy["reminder"][s].row = asked[s]
=============================================================================
