------------------------------- MODULE Pages -------------------------------
(***************************************************************************)
(* The controls that show a stored setting and change it: Pause, quality   *)
(* review, retention, the daily message and Cancel on the settings page,   *)
(* Enable and the schedule form on the Groups page, Halt on the Operator's *)
(* console.  A behaviour follows one of them, on one page.                 *)
(*                                                                         *)
(* Some adopt what the write answers; the Groups page and Cancel write and *)
(* load again.  A request is served once or never, and answered, refused,  *)
(* or its answer is lost; answers are heard in any order, and other pages  *)
(* write the same setting.                                                 *)
(*                                                                         *)
(* A setting is 0 or 1, a box holds 0 .. MaxDays + 1; an empty box is sent *)
(* as 0, which the server clamps (retention) or refuses (the time).        *)
(***************************************************************************)
EXTENDS Naturals

CONSTANTS
  Requests,           \* how many requests of the page may overlap
  MinDays, MaxDays,   \* what a box may be set to
  Nothing             \* what a control shows before it is drawn, or after an error

ASSUME DaysAssumption == MinDays \in Nat /\ MaxDays \in Nat /\ 0 < MinDays /\ MinDays <= MaxDays

VARIABLES
  panel,      \* the control followed
  stored,     \* the setting in the database
  face,       \* what the page shows
  typed,      \* the box was typed in since it was last filled from an answer
  barred,     \* the control is disabled
  flight,     \* the page's requests
  masked,     \* a halt, or an unpaid Account, outranks the pause in the status
  astray      \* history: why the page may be wrong, see PageTellsTheTruth

pagesVars == <<panel, stored, face, typed, barred, flight, masked, astray>>

Boxes == {"retention", "digest", "schedule"}
Panels == {"pause", "quality", "halt", "group", "plan"} \cup Boxes
Settings == IF panel \in Boxes THEN MinDays .. MaxDays ELSE 0 .. 1

Unsent == [op |-> "none"]
InFlight == {r \in Requests : flight[r] # Unsent}

Sending(op, val, alone) ==
  [op |-> op, val |-> val, at |-> "out", reply |-> "none", alone |-> alone]

\* A second request spoils the first: either answer may be heard last.
Issue(r, op, val) ==
  /\ flight[r] = Unsent
  /\ flight' = [q \in Requests |->
                  CASE q = r -> Sending(op, val, InFlight = {})
                    [] q \in InFlight -> [flight[q] EXCEPT !.alone = FALSE]
                    [] OTHER -> Unsent]

----------------------------------------------------------------------------
(* The server. *)

\* setRetentionDays: out of range is clamped, an empty box too.
Parsed(v) ==
  CASE panel # "retention" -> v
    [] panel = "retention" /\ v < MinDays -> MinDays
    [] panel = "retention" /\ v > MaxDays -> MaxDays
    [] OTHER -> v

\* setDigest and setSchedule refuse a time that is not one.
Valid(v) == panel \in {"digest", "schedule"} => v \in MinDays .. MaxDays

\* The page reads the pause off the status, where a halt outranks it.
Told == IF panel = "pause" /\ masked THEN 0 ELSE stored

AnswerWith(r, reply, val, sound) ==
  flight' = [flight EXCEPT ![r] = [op |-> @.op, val |-> val, at |-> "back", reply |-> reply,
                                   alone |-> @.alone /\ sound]]

ServeLoad(r) ==
  /\ flight[r].op = "load" /\ flight[r].at = "out"
  /\ AnswerWith(r, "ok", Told, Told = stored)
  /\ UNCHANGED <<panel, stored, face, typed, barred, masked, astray>>

ServeSave(r) ==
  LET v == flight[r].val  IN
  /\ flight[r].op = "save" /\ flight[r].at = "out" /\ Valid(v)
  /\ stored' = Parsed(v)
  /\ \E reply \in {"ok", "lost"} : AnswerWith(r, reply, Parsed(v), TRUE)
  /\ UNCHANGED <<panel, face, typed, barred, masked, astray>>

\* Invalid, throttled, over the Plan's cap, or failed before anything was written.
Refuse(r) ==
  /\ flight[r].op # "none" /\ flight[r].at = "out"
  /\ \E reply \in {"refused", "lost"} : AnswerWith(r, reply, flight[r].val, TRUE)
  /\ UNCHANGED <<panel, stored, face, typed, barred, masked, astray>>

\* Another page, the Operator, the Plan's end; answers already given are old.
OtherWriter ==
  /\ stored' \in Settings \ {stored}
  /\ flight' = [r \in Requests |->
                  IF r \in InFlight /\ flight[r].at = "back"
                  THEN [flight[r] EXCEPT !.alone = FALSE] ELSE flight[r]]
  /\ astray' = TRUE
  /\ UNCHANGED <<panel, face, typed, barred, masked>>

Mask ==
  /\ masked' = ~ masked
  /\ UNCHANGED <<panel, stored, face, typed, barred, flight, astray>>

----------------------------------------------------------------------------
(* Hearing an answer. *)

Came(r, op) == flight[r].op = op /\ flight[r].at = "back"
Ok(r) == flight[r].reply = "ok"

\* The page now shows v.  It is right if the answer was asked for alone and
\* nobody has written since.
Adopt(r, v) ==
  /\ face' = v /\ typed' = FALSE /\ barred' = FALSE
  /\ flight' = [flight EXCEPT ![r] = Unsent]
  /\ astray' = (~ flight[r].alone)
  /\ UNCHANGED <<panel, stored, masked>>

\* The page shows v and an error; after a lost write, nobody knows.
Give(r, v, bar, doubt) ==
  /\ face' = v /\ barred' = bar
  /\ flight' = [flight EXCEPT ![r] = Unsent]
  /\ astray' = (astray \/ doubt)
  /\ UNCHANGED <<panel, stored, typed, masked>>

Unsure(r) == flight[r].reply = "lost"

LoadedOk(r) == Came(r, "load") /\ Ok(r) /\ Adopt(r, flight[r].val)

\* mount answers null, and the page takes that for not paused.
PauseUnknown(r) == panel = "pause" /\ Give(r, 0, FALSE, TRUE)

\* The checkbox stays disabled; a box stays empty and can be saved all the same.
LeftBlank(r) ==
  /\ panel \in {"quality", "retention", "digest", "halt"}
  /\ Give(r, face, barred, FALSE)

\* The list, or the Plan line, gives way to the error.
Replaced(r) == panel \in {"group", "schedule", "plan"} /\ Give(r, Nothing, FALSE, FALSE)

LoadFailed(r) ==
  /\ Came(r, "load") /\ ~ Ok(r)
  /\ PauseUnknown(r) \/ LeftBlank(r) \/ Replaced(r)

\* The answer says what was stored.
AdoptSaved(r) ==
  /\ Came(r, "save") /\ Ok(r) /\ panel \in {"pause", "quality", "halt", "retention", "digest"}
  /\ Adopt(r, flight[r].val)

\* load again, and the form with it.
Again(r) ==
  /\ flight' = [flight EXCEPT ![r] = Sending("load", 0, InFlight = {r})]
  /\ UNCHANGED <<panel, stored, face, typed, masked>>

ReloadSaved(r) ==
  /\ Came(r, "save") /\ Ok(r) /\ panel \in {"schedule", "plan"}
  /\ barred' = (panel = "schedule")
  /\ Again(r) /\ UNCHANGED astray

\* setEnabled loads again whatever became of its request.
GroupSaved(r) ==
  /\ Came(r, "save") /\ panel = "group"
  /\ Again(r) /\ UNCHANGED <<barred, astray>>

\* Mutant: the checkbox is left as the browser ticked it.
QualityLeft(r) ==
  /\ Came(r, "save") /\ ~ Ok(r) /\ panel = "quality"
  /\ Give(r, face, FALSE, Unsure(r))

\* The browser had ticked the box; the page unticks it.
QualityFailed(r) ==
  /\ Came(r, "save") /\ ~ Ok(r) /\ panel = "quality"
  /\ Give(r, 1 - face, FALSE, Unsure(r))

SaveFailed(r) ==
  /\ Came(r, "save") /\ ~ Ok(r) /\ panel \notin {"quality", "group"}
  /\ Give(r, face, FALSE, Unsure(r))

----------------------------------------------------------------------------
(* The holder. *)

\* The page opens.  Pause and quality are out of reach until their load is back.
Open(r) ==
  /\ InFlight = {}
  /\ face' = Nothing /\ typed' = FALSE
  /\ barred' = (panel \in {"pause", "quality"})
  /\ Issue(r, "load", 0)
  /\ UNCHANGED <<panel, stored, masked, astray>>

\* The gate's form is submitted twice before it is hidden.
GateAgain(r) ==
  /\ panel = "halt" /\ face = Nothing /\ InFlight # {}
  /\ Issue(r, "load", 0)
  /\ UNCHANGED <<panel, stored, face, typed, barred, masked, astray>>

Change(r, val, look, bar) ==
  /\ ~ barred /\ face # Nothing
  /\ Issue(r, "save", val)
  /\ face' = look /\ barred' = bar
  /\ UNCHANGED <<panel, stored, typed, masked, astray>>

PressPause(r) == panel = "pause" /\ Change(r, 1 - face, face, TRUE)
Tick(r) == panel = "quality" /\ Change(r, 1 - face, 1 - face, TRUE)
PressHalt(r) == panel = "halt" /\ Change(r, 1 - face, face, TRUE)
PressCancel(r) == panel = "plan" /\ face = 1 /\ Change(r, 0, face, TRUE)
\* Nothing disables the button of a row while its request is out.
PressEnable(r) == panel = "group" /\ Change(r, 1 - face, face, FALSE)

TypeIn ==
  /\ panel \in Boxes /\ (face = Nothing => panel # "schedule")
  /\ face' \in 0 .. MaxDays + 1
  /\ typed' = TRUE
  /\ UNCHANGED <<panel, stored, barred, flight, masked, astray>>

SaveBox(r) ==
  /\ panel \in Boxes /\ ~ barred /\ (face = Nothing => panel # "schedule")
  /\ Issue(r, "save", IF face = Nothing THEN 0 ELSE face)
  /\ barred' = TRUE
  /\ UNCHANGED <<panel, stored, face, typed, masked, astray>>

PagesInit ==
  /\ panel \in Panels /\ stored \in Settings
  /\ face = Nothing /\ typed = FALSE /\ barred = TRUE
  /\ flight = [r \in Requests |-> Unsent]
  /\ masked = FALSE /\ astray = FALSE

PagesNext ==
  \/ OtherWriter \/ Mask \/ TypeIn
  \/ \E r \in Requests :
       \/ ServeLoad(r) \/ ServeSave(r) \/ Refuse(r)
       \/ LoadedOk(r) \/ LoadFailed(r)
       \/ AdoptSaved(r) \/ ReloadSaved(r) \/ GroupSaved(r) \/ QualityFailed(r) \/ SaveFailed(r)
       \/ Open(r) \/ GateAgain(r)
       \/ PressPause(r) \/ Tick(r) \/ PressHalt(r) \/ PressCancel(r) \/ PressEnable(r)
       \/ SaveBox(r)

PagesSpec == PagesInit /\ [][PagesNext]_pagesVars

----------------------------------------------------------------------------
(* The setting, what is drawn of it, and the requests. *)
PagesTypeOK ==
  /\ panel \in Panels /\ stored \in Settings
  /\ face \in (0 .. MaxDays + 1) \cup {Nothing}
  /\ {typed, barred, masked, astray} \subseteq BOOLEAN
  /\ \A r \in InFlight : flight[r].at \in {"out", "back"} /\ flight[r].alone \in BOOLEAN

\* "The state is on the face of the control" (ops.js:47) and on every other
\* settings control: with no request out, what is shown is what is stored,
\* unless the holder typed over it.  The exceptions the code leaves are the
\* ones astray records, and the next answer asked for alone ends them: a write
\* whose answer was lost, another writer, answers of overlapping requests, and
\* the pause read off a status that failed or that a halt outranks
\* (settings.js:14-18).
PageTellsTheTruth ==
  InFlight = {} /\ ~ astray => typed \/ face \in {stored, Nothing}
=============================================================================
