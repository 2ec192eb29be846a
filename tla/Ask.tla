-------------------------------- MODULE Ask --------------------------------
(***************************************************************************)
(* Ask (ask.ts): two reads of what the holder's enabled Groups still hold, *)
(* a ranking, one call to the answerer, and validateAnswer over what it    *)
(* said.  Groups are switched and erased, messages expire and Summaries    *)
(* are purged while a question is out.                                     *)
(*                                                                         *)
(* A Group has one message somebody else sent and one of the holder's own. *)
(***************************************************************************)
EXTENDS Store

CONSTANTS
  Questions,
  Forged              \* an id the answerer makes up

VARIABLES
  body,       \* the messages still within their retention
  ask,        \* a question: its next statement, candidates, and answer
  allowed     \* history: the sources readable at a moment since it was asked

askVars == <<body, ask, allowed>>

Authors == {"them", "me"}
Messages == {<<"message", g, a>> : g \in Groups, a \in Authors}
Passages == {<<"summary", s, GroupOf[s]>> : s \in Summaries}

NoQuestion == [at |-> "idle", from |-> {}, claims |-> {}]

Quotable == {m \in body : group[m[2]] = "on" /\ m[3] # "me"}
Texts == {p \in Passages : Alive(p[2]) /\ group[p[3]] = "on"}

\* What enabled Groups hold that somebody else wrote, whatever retrieval does.
Readable ==
  {m \in body : group[m[2]] = "on" /\ m[3] = "them"}
    \cup {p \in Passages : summary[p[2]] # "gone" /\ group[p[3]] = "on"}

At(q, from) == ask[q].at = from /\ UNCHANGED <<storeVars, body, allowed>>

\* A blank or over-long question is refused before anything is read.
Put(q) ==
  /\ ask[q] = NoQuestion
  /\ ask' = [ask EXCEPT ![q].at = "messages"]
  /\ allowed' = [allowed EXCEPT ![q] = Readable]
  /\ UNCHANGED <<storeVars, body>>

\* retrieveSources
ReadMessages(q) ==
  /\ At(q, "messages")
  /\ ask' = [ask EXCEPT ![q].at = "summaries", ![q].from = Quotable]

\* Mutation: the Summaries are read without g.enabled.
ReadAnySummaries(q) ==
  /\ At(q, "summaries")
  /\ ask' = [ask EXCEPT ![q].at = "rank", ![q].from = @ \cup {p \in Passages : Alive(p[2])}]

ReadSummaries(q) ==
  /\ At(q, "summaries")
  /\ ask' = [ask EXCEPT ![q].at = "rank", ![q].from = @ \cup Texts]

\* Full-text hits among the candidates; with none the answer is "I don't know".
Rank(q) ==
  /\ At(q, "rank")
  /\ \E hits \in SUBSET ask[q].from :
       ask' = [ask EXCEPT ![q] = IF hits = {} THEN [NoQuestion EXCEPT !.at = "told"]
                                 ELSE [@ EXCEPT !.at = "answer", !.from = hits]]

\* validateAnswer: a claim keeps the ids it was given sources for, and goes
\* when none is left.  Each claim is checked alone: an answer here has one, that
\* cites two ids, or none.
validateAnswer(claims, valid) == {c \cap valid : c \in claims} \ {{}}

Answer(q) ==
  /\ At(q, "answer")
  /\ \E x \in Messages \cup Passages \cup {Forged} :
       ask' = [ask EXCEPT ![q].at = "told",
                          ![q].claims = validateAnswer({{x, Forged}}, ask[q].from)]

Close(q) ==
  /\ At(q, "told")
  /\ ask' = [ask EXCEPT ![q] = NoQuestion]

(***************************************************************************)
(* What happens meanwhile                                                  *)
(***************************************************************************)
Disable(g) ==
  /\ group[g] = "on"
  /\ group' = [group EXCEPT ![g] = "off"]
  /\ UNCHANGED <<summary, state, copy, erase, call, asked, crossed, askVars>>

Enable(g) ==
  /\ group[g] = "off"
  /\ group' = [group EXCEPT ![g] = "on"]
  /\ UNCHANGED <<summary, state, copy, erase, call, asked, crossed, body, ask>>
  /\ allowed' = [q \in Questions |-> IF ask[q] = NoQuestion THEN {} ELSE allowed[q] \cup Readable']

Expire(m) ==
  /\ m \in body
  /\ body' = body \ {m}
  /\ UNCHANGED <<storeVars, ask, allowed>>

AskInit ==
  /\ body = Messages
  /\ ask = [q \in Questions |-> NoQuestion]
  /\ allowed = [q \in Questions |-> {}]

AskNext ==
  \/ \E q \in Questions :
       Put(q) \/ ReadMessages(q) \/ ReadSummaries(q) \/ Rank(q) \/ Answer(q) \/ Close(q)
  \/ \E g \in Groups : Disable(g) \/ Enable(g)
  \/ \E m \in Messages : Expire(m)

(***************************************************************************)
(* Properties                                                              *)
(***************************************************************************)
\* ask.ts:63-67: an answer cites only what the holder could read through an
\* enabled Group, within its retention, at some moment since the question was
\* put; never the holder's own messages, never an id that was not retrieved.
\* It does not promise that the Group is still enabled when the answer lands.
CitesWereReadable ==
  \A q \in Questions : ask[q].at = "told" =>
    /\ UNION ask[q].claims \subseteq allowed[q]
    /\ {} \notin ask[q].claims
=============================================================================
