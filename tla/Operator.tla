------------------------------ MODULE Operator ------------------------------
(***************************************************************************)
(* The Operator's console (public/ops.js, operator.ts, quality.ts and the  *)
(* /admin routes of app.ts): the session behind its cookie, the look-up of *)
(* an Account and its Plan, and the queue of Malay Summaries to review.    *)
(*                                                                         *)
(* Every request is authorised by one statement and acts in another.  The  *)
(* page awaits each of its own, but nothing stops a second look-up, or the *)
(* Plan's form, while one is out.  An Account has one Summary to review.   *)
(***************************************************************************)
EXTENDS Naturals

CONSTANTS
  Accounts,
  Errands,     \* how many requests of the console may be under way
  Tokens,      \* bound: the sessions ever opened
  Nobody       \* no Account, no token

Plans == {"free", "pro"}

VARIABLES
  session,     \* operator_sessions: what became of a token's row
  opCookie,    \* walao_op
  errand,      \* a request: what it asks, how far it is, what it found
  plan,        \* users.plan
  optIn,       \* users.quality_review_opt_in
  reviewed,    \* quality_reviews: Accounts whose Summary has one
  console,     \* the page: currentId, whether the console and the Account's
               \* panel are shown, the Plan's select, the queue
  \* history
  choiceFor,   \* the Account on the page when the select was last set
  leave        \* by request for the queue: Accounts opted in at a moment since

sessions == <<session, opCookie>>
rows == <<plan, optIn, reviewed>>
operatorVars == <<sessions, errand, rows, console, choiceFor, leave>>

NoErrand == [op |-> "none"]
Gate == [shown |-> FALSE, account |-> Nobody, open |-> FALSE, choice |-> "free", queue |-> {}]

OptedIn == {a \in Accounts : optIn[a]}

\* What the page sends: op, and the Account and the value it is about.
Ask4(op, acc, val) ==
  [op |-> op, acc |-> acc, val |-> val, key |-> opCookie, at |-> "sent", list |-> {},
   heard |-> TRUE]

Post(e, op, acc, val) ==
  /\ console.shown /\ errand[e] = NoErrand
  /\ errand' = [errand EXCEPT ![e] = Ask4(op, acc, val)]
  /\ leave' = [leave EXCEPT ![e] = IF op = "queue" THEN OptedIn ELSE {}]
  /\ UNCHANGED <<sessions, rows>>

----------------------------------------------------------------------------
(* The session. *)

\* POST /admin/session: the secret is traded for a token.
Trade(k) ==
  /\ ~ console.shown /\ session[k] = "unused"
  /\ session' = [session EXCEPT ![k] = "live"]
  /\ opCookie' = k
  /\ UNCHANGED <<errand, rows, console, choiceFor, leave>>

\* operatorSessionOk: expiry is part of the look-up.
LiveSession(k) == k # Nobody /\ session[k] = "live"

\* GET /admin/halt tells whether the cookie is still good.
ShowConsole ==
  /\ ~ console.shown /\ LiveSession(opCookie)
  /\ console' = [console EXCEPT !.shown = TRUE]
  /\ UNCHANGED <<sessions, errand, rows, choiceFor, leave>>

\* Twelve hours.
Lapse(k) ==
  /\ session[k] = "live"
  /\ session' = [session EXCEPT ![k] = "ended"]
  /\ UNCHANGED <<opCookie, errand, rows, console, choiceFor, leave>>

\* DELETE /admin/session, which may fail, and the page is loaded anew: what the
\* old one had asked for runs on unheard.
OpSignOut ==
  /\ console.shown
  /\ \/ UNCHANGED sessions
     \/ opCookie' = Nobody /\ session' = [k \in Tokens |-> IF k = opCookie THEN "ended" ELSE session[k]]
  /\ console' = Gate /\ choiceFor' = Nobody
  /\ errand' = [e \in Errands |->
                  IF errand[e] = NoErrand THEN NoErrand ELSE [errand[e] EXCEPT !.heard = FALSE]]
  /\ UNCHANGED <<rows, leave>>

----------------------------------------------------------------------------
(* The server. *)

Reach(e, place) == errand' = [errand EXCEPT ![e].at = place]
Asks(e, op) == errand[e].op = op /\ errand[e].at = "passed"

Authorise(e) ==
  /\ errand[e] # NoErrand /\ errand[e].at = "sent"
  /\ Reach(e, IF LiveSession(errand[e].key) THEN "passed" ELSE "refused")
  /\ UNCHANGED <<sessions, rows, console, choiceFor, leave>>

Found(e, value, list) ==
  /\ errand' = [errand EXCEPT ![e] = [op |-> @.op, acc |-> @.acc, key |-> @.key, heard |-> @.heard,
                                      at |-> "ok", val |-> value, list |-> list]]
  /\ UNCHANGED <<sessions, console, choiceFor, leave>>

accountMetadata(e) ==
  /\ Asks(e, "look") \/ Asks(e, "reread")
  /\ Found(e, plan[errand[e].acc], {}) /\ UNCHANGED rows

setPlan(e) ==
  /\ Asks(e, "plan")
  /\ plan' = [plan EXCEPT ![errand[e].acc] = errand[e].val]
  /\ Found(e, errand[e].val, {}) /\ UNCHANGED <<optIn, reviewed>>

\* Mutant: whoever has a Malay Summary.
queueOfAll(e) ==
  /\ Asks(e, "queue")
  /\ Found(e, "free", Accounts \ reviewed)
  /\ UNCHANGED rows

reviewQueue(e) ==
  /\ Asks(e, "queue")
  /\ Found(e, "free", OptedIn \ reviewed)
  /\ UNCHANGED rows

\* One statement: the opt-in is checked where the review is written, and a
\* second review of the Summary corrects the first.
recordReview(e) ==
  LET a == errand[e].acc  IN
  /\ Asks(e, "review")
  /\ UNCHANGED <<plan, optIn>>
  /\ \/ optIn[a] /\ reviewed' = reviewed \cup {a} /\ Found(e, "free", {})
     \/ /\ ~ optIn[a] /\ Reach(e, "refused")
        /\ UNCHANGED <<reviewed, sessions, console, choiceFor, leave>>

\* No such Account, a request that dies, or an answer that does.
Fail(e) ==
  /\ errand[e] # NoErrand /\ errand[e].at \in {"sent", "passed", "ok"}
  /\ Reach(e, "refused")
  /\ UNCHANGED <<sessions, rows, console, choiceFor, leave>>

\* The Account's own switch, and its Cancel.
ToggleOptIn(a) ==
  /\ optIn' = [optIn EXCEPT ![a] = ~ @]
  /\ leave' = [e \in Errands |-> IF errand[e] # NoErrand /\ errand[e].op = "queue"
                               THEN leave[e] \cup OptedIn' ELSE {}]
  /\ UNCHANGED <<sessions, errand, plan, reviewed, console, choiceFor>>

CancelOwn(a) ==
  /\ plan[a] # "free" /\ plan' = [plan EXCEPT ![a] = "free"]
  /\ UNCHANGED <<sessions, errand, optIn, reviewed, console, choiceFor, leave>>

----------------------------------------------------------------------------
(* The page. *)

\* Mutant: currentId is set when the look-up is submitted.
LookUpNamed(e, a) ==
  /\ Post(e, "look", a, "free")
  /\ console' = [console EXCEPT !.account = a]
  /\ UNCHANGED choiceFor
LookUp(e, a) == Post(e, "look", a, "free") /\ UNCHANGED <<console, choiceFor>>

Choose(v) ==
  /\ console.open
  /\ console' = [console EXCEPT !.choice = v]
  /\ choiceFor' = console.account
  /\ UNCHANGED <<sessions, errand, rows, leave>>

SubmitPlan(e) ==
  /\ console.open
  /\ Post(e, "plan", console.account, console.choice)
  /\ UNCHANGED <<console, choiceFor>>

Review(e, a) ==
  /\ a \in console.queue
  /\ Post(e, "review", a, "free")
  /\ UNCHANGED <<console, choiceFor>>

LoadQueue(e) == Post(e, "queue", Nobody, "free") /\ UNCHANGED <<console, choiceFor>>

Heard(e, ops, place) ==
  /\ errand[e] # NoErrand /\ errand[e].heard
  /\ errand[e].op \in ops /\ errand[e].at = place
  /\ UNCHANGED <<sessions, rows>>

Done(e) == errand' = [errand EXCEPT ![e] = NoErrand] /\ leave' = [leave EXCEPT ![e] = {}]

\* renderAccount
Rendered(e) ==
  /\ Heard(e, {"look", "reread"}, "ok") /\ Done(e)
  /\ console' = [console EXCEPT !.account = errand[e].acc, !.open = TRUE, !.choice = errand[e].val]
  /\ choiceFor' = errand[e].acc

\* A failed look-up hides the Account and leaves currentId as it was.
NotFound(e) ==
  /\ Heard(e, {"look"}, "refused") /\ Done(e)
  /\ console' = [console EXCEPT !.open = FALSE]
  /\ UNCHANGED choiceFor

\* The Plan is set: whichever Account is current by now is read again.
PlanSet(e) ==
  /\ Heard(e, {"plan"}, "ok")
  /\ errand' = [errand EXCEPT ![e] = Ask4("reread", console.account, "free")]
  /\ UNCHANGED <<console, choiceFor, leave>>

Reviewed(e) ==
  /\ Heard(e, {"review"}, "ok")
  /\ errand' = [errand EXCEPT ![e] = Ask4("queue", Nobody, "free")]
  /\ leave' = [leave EXCEPT ![e] = OptedIn]
  /\ UNCHANGED <<console, choiceFor>>

Listed(e) ==
  /\ \/ Heard(e, {"queue"}, "ok") /\ console' = [console EXCEPT !.queue = errand[e].list]
     \/ Heard(e, {"queue"}, "refused") /\ console' = [console EXCEPT !.queue = {}]
  /\ Done(e) /\ UNCHANGED choiceFor

\* An error beside the form, or nobody left to tell.
Unheard(e) ==
  /\ \/ Heard(e, {"plan", "reread", "review"}, "refused")
     \/ errand[e] # NoErrand /\ ~ errand[e].heard /\ errand[e].at \in {"ok", "refused"}
  /\ Done(e) /\ UNCHANGED <<sessions, rows, console, choiceFor>>

OperatorInit ==
  /\ session = [k \in Tokens |-> "unused"] /\ opCookie = Nobody
  /\ errand = [e \in Errands |-> NoErrand]
  /\ plan = [a \in Accounts |-> "free"]
  /\ optIn = [a \in Accounts |-> FALSE]
  /\ reviewed = {}
  /\ console = Gate /\ choiceFor = Nobody
  /\ leave = [e \in Errands |-> {}]

OperatorNext ==
  \/ ShowConsole \/ OpSignOut
  \/ \E k \in Tokens : Trade(k) \/ Lapse(k)
  \/ \E v \in Plans : Choose(v)
  \/ \E a \in Accounts : ToggleOptIn(a) \/ CancelOwn(a)
  \/ \E e \in Errands :
       \/ Authorise(e) \/ accountMetadata(e) \/ setPlan(e) \/ reviewQueue(e) \/ recordReview(e)
       \/ Fail(e) \/ SubmitPlan(e) \/ LoadQueue(e)
       \/ Rendered(e) \/ NotFound(e) \/ PlanSet(e) \/ Reviewed(e) \/ Listed(e) \/ Unheard(e)
       \/ \E a \in Accounts : LookUp(e, a) \/ Review(e, a)

OperatorSpec == OperatorInit /\ [][OperatorNext]_operatorVars

----------------------------------------------------------------------------
\* The rows, the console and its requests.
OperatorTypeOK ==
  /\ session \in [Tokens -> {"unused", "live", "ended"}] /\ opCookie \in Tokens \cup {Nobody}
  /\ plan \in [Accounts -> Plans] /\ optIn \in [Accounts -> BOOLEAN]
  /\ reviewed \subseteq Accounts
  /\ console.account \in Accounts \cup {Nobody} /\ console.choice \in Plans
  /\ console.queue \subseteq Accounts

\* ops.js:68-143.  Look-ups may overlap each other and the Plan's form, and
\* fail: a Plan the Operator can submit is one that was chosen, or drawn, with
\* the Account it would be written to on the page.
PlanFollowsTheFace == console.open => choiceFor = console.account

\* quality.ts:8-10: revoking pulls an Account's Summaries out of the queue at
\* once.  A page drawn before goes on showing them; a queue asked for since the
\* revocation does not have them, whatever came in between.
ListedWhileOptedIn ==
  \A e \in Errands :
    errand[e] # NoErrand /\ errand[e].op = "queue" /\ errand[e].at = "ok" =>
      errand[e].list \subseteq leave[e]
=============================================================================
