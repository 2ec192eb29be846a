------------------------------- MODULE Desk --------------------------------
(***************************************************************************)
(* The pages a holder works the Store from.  The Console of today.js shows *)
(* one row for an item the Brief merged out of every Summary: Done and     *)
(* Dismiss write the row's state to each source by a request of its own    *)
(* and change the screen when all have answered.  lists.js sends its edits *)
(* one request at a time and re-reads its lists after each.                *)
(*                                                                         *)
(* A button is disabled while its own toggle is out, but every render      *)
(* draws new ones, so a second toggle may start before the first is back.  *)
(***************************************************************************)
EXTENDS Store

CONSTANTS
  Toggles,            \* how many presses of Done and Dismiss may overlap
  Edits,              \* how many requests of the lists page may
  Bodies,             \* the patches it sends
  Quoted              \* the Summaries it holds copies out of

Buttons == {"complete", "dismissed"}

ASSUME CallsAreThePages ==
  /\ Calls = (Toggles \X Summaries) \cup Edits
  /\ (Toggles \X Summaries) \cap Edits = {}
  /\ Bodies \subseteq Patches /\ Quoted \subseteq Summaries

VARIABLES
  shown,      \* the page's states map: source -> state
  toggle,     \* a press: what it writes, whether the page still awaits it
  locked,     \* the drawn buttons that are disabled
  \* history
  muddled     \* a toggle failed or overlapped another since one last ran alone

pageVars == <<shown, toggle, locked, muddled>>
deskVars == <<storeVars, pageVars>>

NoToggle == [button |-> "none"]

Out == {t \in Toggles : toggle[t] # NoToggle}
Settled(t) == \A s \in Summaries : Answered(<<t, s>>)
\* Mutation: Promise.allSettled for Promise.all.
AllOkOrNot(t) == Settled(t)

AllOk(t) == Settled(t) /\ \A s \in Summaries : call[<<t, s>>].reply = "ok"
Free(t) == [c \in Calls |-> IF c \in {t} \X Summaries THEN Idle ELSE call[c]]

\* The row shows the state of its first source; all carry the same after a
\* toggle, and any of them may be first in the Brief the page was drawn from.
First == CHOOSE s \in Summaries : TRUE

Press(t, b) ==
  LET next == IF shown[First] = b THEN "none" ELSE b  IN
  /\ toggle[t] = NoToggle /\ b \notin locked
  /\ \A s \in Summaries : call[<<t, s>>] = Idle
  /\ call' = [c \in Calls |->
                IF c \in {t} \X Summaries
                THEN [op |-> "state", sum |-> c[2], arg |-> next, at |-> "read",
                      seen |-> Fresh]
                ELSE call[c]]
  /\ toggle' = [u \in Toggles |->
                  CASE u = t -> [button |-> b, next |-> next, awaited |-> TRUE,
                                 drawn |-> TRUE, alone |-> Out = {}]
                    [] u \in Out -> [toggle[u] EXCEPT !.alone = FALSE]
                    [] OTHER -> toggle[u]]
  /\ locked' = locked \cup {b}
  /\ muddled' = (muddled \/ Out # {})
  /\ UNCHANGED <<group, summary, state, copy, erase, asked, crossed, shown>>

Undrawn == [u \in Toggles |-> IF u \in Out THEN [toggle[u] EXCEPT !.drawn = FALSE] ELSE toggle[u]]

\* Promise.all resolved: the map takes the new state for every source and the
\* rows are drawn again, with fresh buttons.
Resolve(t) ==
  /\ t \in Out /\ toggle[t].awaited /\ AllOk(t)
  /\ shown' = [s \in Summaries |-> toggle[t].next]
  /\ locked' = {}
  /\ toggle' = [Undrawn EXCEPT ![t] = NoToggle]
  /\ call' = Free(t)
  /\ muddled' = (muddled /\ ~ toggle[t].alone)
  /\ UNCHANGED <<group, summary, state, copy, erase, asked, crossed>>

\* The first refusal rejects it: the button comes back, the map stays as it
\* was, and the other requests run on unawaited.
Reject(t) ==
  /\ t \in Out /\ toggle[t].awaited
  /\ \E s \in Summaries : Answered(<<t, s>>) /\ call[<<t, s>>].reply # "ok"
  /\ toggle' = [toggle EXCEPT ![t].awaited = FALSE]
  /\ locked' = IF toggle[t].drawn THEN locked \ {toggle[t].button} ELSE locked
  /\ muddled' = TRUE
  /\ UNCHANGED <<storeVars, shown>>

Forget(t) ==
  /\ t \in Out /\ ~ toggle[t].awaited /\ Settled(t)
  /\ toggle' = [toggle EXCEPT ![t] = NoToggle]
  /\ call' = Free(t)
  /\ UNCHANGED <<group, summary, state, copy, erase, asked, crossed, shown, locked, muddled>>

\* A request that never arrives, or an answer that never comes back.
Lose(t) ==
  /\ t \in Out
  /\ \E s \in Summaries :
       /\ Reads(<<t, s>>, "state") \/ (Answered(<<t, s>>) /\ call[<<t, s>>].reply = "ok")
       /\ Reply(<<t, s>>, "refused")
  /\ UNCHANGED <<group, summary, state, copy, erase, asked, crossed, pageVars>>

\* Another tab of the Console, or the Console opened again.
Redraw ==
  /\ locked # {}
  /\ locked' = {} /\ toggle' = Undrawn
  /\ UNCHANGED <<storeVars, shown, muddled>>

\* today.js confirms a Reminder; lists.js edits it, keeps a candidate, edits or
\* deletes a Memory.
Send(c) ==
  \E s \in Quoted :
    \/ \E k \in Kinds : Request(c, k, s, 0)
    \/ \E p \in Bodies : Request(c, "update", s, p)
    \/ \E v \in {1, Bad} : Request(c, "edit", s, v)
    \/ Request(c, "drop", s, 0)

Hear(c) ==
  /\ Answered(c)
  /\ call' = [call EXCEPT ![c] = Idle]

Today == \E t \in Toggles : Resolve(t) \/ Reject(t) \/ Forget(t) \/ Lose(t) \/ \E b \in Buttons : Press(t, b)

Lists ==
  /\ \E c \in Edits : Send(c) \/ Hear(c)
  /\ UNCHANGED <<group, summary, state, copy, erase, asked, crossed, pageVars>>

DeskInit ==
  /\ StoreInit
  /\ shown = [s \in Summaries |-> "none"]
  /\ toggle = [t \in Toggles |-> NoToggle]
  /\ locked = {} /\ muddled = FALSE

DeskNext ==
  \/ Today \/ Redraw \/ Lists
  \/ (Serve \/ Erasing \/ Passing) /\ UNCHANGED pageVars

(***************************************************************************)
(* Properties                                                              *)
(***************************************************************************)
DeskTypeOK ==
  /\ StoreTypeOK
  /\ shown \in [Summaries -> States]
  /\ locked \subseteq Buttons /\ muddled \in BOOLEAN
  /\ \A t \in Out : toggle[t].button \in Buttons /\ toggle[t].next \in States

AtRest == Out = {} /\ ~ muddled

\* today.js:15-17: one row carries several keys, shows the first and writes to
\* all.  So once nothing is out, what the row shows is what every Summary that
\* still exists holds, unless a toggle failed part-way or two overlapped; and
\* the next toggle that runs alone puts that right too (today.js:255-275).
RowTellsTheTruth ==
  AtRest => \A s \in Summaries : Alive(s) => shown[s] = state[s]
=============================================================================
