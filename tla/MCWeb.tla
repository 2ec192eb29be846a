------------------------------- MODULE MCWeb --------------------------------
(***************************************************************************)
(* Instances of what a browser reaches besides the messages: the pages     *)
(* over the Store, questions, signing in, the data key, the settings, the  *)
(* Operator's console.                                                     *)
(*                                                                         *)
(* The parts share no column that a property relates, except those Desk    *)
(* and Ask share through Store, so each is explored with the others at     *)
(* rest: a step of one is taken only where the others are in their initial *)
(* states.  The states checked are the sum of the parts', not the product. *)
(* Within the Desk, toggles, Reminders and Memories have tables of their   *)
(* own; in the console, the Plan's form and the queue meet in the session  *)
(* alone; they are explored in turn likewise.                              *)
(***************************************************************************)
EXTENDS Desk, Ask, SignIn, AccountKeys, Pages, Operator, TLC

CONSTANTS g1, g2, s1, s2, t1, t2, e1, e2, q1, forged,
          b1, b2, b3, w1, w2, r1, r2, a1, a2, x1, x2, k1, k2

TwoGroups == s1 :> g1 @@ s2 :> g2
PageBodies == {"status" :> 1, "details" :> 1, "details" :> Bad}
PageCalls == (Toggles \X Summaries) \cup Edits
Interchangeable ==
  Permutations(Toggles) \cup Permutations(Edits) \cup Permutations(Errands) \cup Permutations(Accounts)

webVars == <<deskVars, askVars, signInVars, keysVars, pagesVars, operatorVars>>

(***************************************************************************)
(* At rest                                                                 *)
(***************************************************************************)
Untouched(s) == summary[s] = "new" /\ erase[GroupOf[s]] = Resting

NoCopies(k) == \A s \in Summaries : copy[k][s] = NoCopy
NoEdits(ops) == \A c \in Edits : call[c].op \notin ops

TogglesAtRest ==
  /\ shown = [s \in Summaries |-> "none"] /\ state = shown
  /\ toggle = [t \in Toggles |-> NoToggle] /\ locked = {} /\ ~ muddled
  /\ \A s \in Summaries \ Quoted : Untouched(s)

RemindersAtRest ==
  /\ NoCopies("reminder") /\ NoEdits({"reminder", "update"})
  /\ asked = [s \in Summaries |-> Fresh] /\ crossed = {}
MemoriesAtRest == NoCopies("memory") /\ NoEdits({"memory", "edit", "drop"})

OneAtWork ==
  \/ TogglesAtRest /\ (RemindersAtRest \/ MemoriesAtRest)
  \/ /\ RemindersAtRest /\ MemoriesAtRest /\ NoEdits({"answered"})
     /\ \A g \in Groups : erase[g] = Resting      \* with no copies, as a purge
     /\ \A s \in Quoted : Untouched(s)

DeskAtRest ==
  /\ shown = [s \in Summaries |-> "none"] /\ toggle = [t \in Toggles |-> NoToggle]
  /\ state = shown /\ locked = {} /\ ~ muddled /\ call = [c \in Calls |-> Idle]
  /\ \A k \in Kinds, s \in Summaries : ~ Held(k, s)
  /\ \A s \in Summaries \ Quoted : Untouched(s)

AsksAtRest == AskInit /\ \A g \in Groups : group[g] # "off"

PlanAtRest ==
  /\ plan = [a \in Accounts |-> "free"] /\ console.account = Nobody
  /\ \A e \in Errands : errand[e].op \notin {"look", "plan", "reread"}

QueueAtRest ==
  /\ OptedIn = {} /\ reviewed = {} /\ console.queue = {}
  /\ \A e \in Errands : errand[e].op \notin {"queue", "review"}

DeskPart ==
  \/ DeskNext /\ OneAtWork' /\ AsksAtRest /\ UNCHANGED askVars
  \/ AskNext /\ DeskAtRest /\ UNCHANGED pageVars
  \/ (Erasing \/ Passing) /\ UNCHANGED <<pageVars, askVars>> /\ DeskAtRest'

Init == DeskInit /\ AskInit /\ SignInInit /\ KeysInit /\ PagesInit /\ OperatorInit

\* The settings pages start in any of their initial states; the others run
\* beside one of them.
PagesWait == panel = "pause" /\ stored = 0 /\ PagesInit

Next ==
  \/ /\ DeskPart
     /\ SignInInit /\ KeysInit /\ PagesWait /\ OperatorInit
     /\ UNCHANGED <<signInVars, keysVars, pagesVars, operatorVars>>
  \/ /\ SignInNext
     /\ DeskInit /\ AskInit /\ KeysInit /\ PagesWait /\ OperatorInit
     /\ UNCHANGED <<deskVars, askVars, keysVars, pagesVars, operatorVars>>
  \/ /\ KeysNext
     /\ DeskInit /\ AskInit /\ SignInInit /\ PagesWait /\ OperatorInit
     /\ UNCHANGED <<deskVars, askVars, signInVars, pagesVars, operatorVars>>
  \/ /\ PagesNext
     /\ DeskInit /\ AskInit /\ SignInInit /\ KeysInit /\ OperatorInit
     /\ UNCHANGED <<deskVars, askVars, signInVars, keysVars, operatorVars>>
  \/ /\ OperatorNext /\ (PlanAtRest \/ QueueAtRest)'
     /\ DeskInit /\ AskInit /\ SignInInit /\ KeysInit /\ PagesWait
     /\ UNCHANGED <<deskVars, askVars, signInVars, keysVars, pagesVars>>

Spec == Init /\ [][Next]_webVars
=============================================================================
