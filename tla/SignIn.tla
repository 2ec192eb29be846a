------------------------------- MODULE SignIn -------------------------------
(***************************************************************************)
(* Signing in to one address from several browsers: public/signin.js and   *)
(* api.js on one side, src/src/accounts.ts and the unauthenticated routes  *)
(* of app.ts on the other.  Codes and tokens are numbered in the order in  *)
(* which they are made; the row of users holds one of each, and verifying  *)
(* reads it in one statement and writes it in another.                     *)
(***************************************************************************)
EXTENDS Naturals

CONSTANTS
  Browsers,
  Limit,       \* EMAIL_CODE_PER_EMAIL.limit, of the one window followed
  MaxDeaths    \* bound: crashes of the process

ASSUME SignInAssumption == Limit \in Nat /\ MaxDeaths \in Nat

VARIABLES
  known,     \* the address has a row of users
  attested,  \* and an Attestation of the data-processing terms
  code,      \* the code its row holds, 0 when NULL or expired
  issued,    \* codes issued so far
  token,     \* the live token, 0 when NULL or expired
  minted,    \* tokens minted so far
  asks,      \* requests for a code counted against the address
  at,        \* browser -> its page, or the statement its request is about to run
  held,      \* browser -> the code its request carries
  cookie,    \* browser -> the token in its walao_session cookie
  mailed,    \* codes that arrived in the mailbox
  entered,   \* <<code, browser>>: a token was minted for the code there (history)
  deaths

signInVars == <<known, attested, code, issued, token, minted, asks, at, held, cookie,
                mailed, entered, deaths>>
user == <<known, attested>>
tokens == <<token, minted, cookie>>

\* The pages; then the places where a handler awaits.
Places == {"email", "code", "in", "attest", "issue", "send", "mint", "signout"}

\* The columns of users and the state of the pages.
SignInTypeOK ==
  /\ known \in BOOLEAN /\ attested \in BOOLEAN
  /\ code \in Nat /\ issued \in Nat /\ token \in Nat /\ minted \in Nat
  /\ asks \in Nat /\ deaths \in Nat
  /\ at \in [Browsers -> Places]
  /\ held \in [Browsers -> Nat] /\ cookie \in [Browsers -> Nat]
  /\ mailed \subseteq Nat /\ entered \subseteq Nat \X Browsers

SignInInit ==
  /\ known = FALSE /\ attested = FALSE
  /\ code = 0 /\ issued = 0 /\ token = 0 /\ minted = 0 /\ asks = 0 /\ deaths = 0
  /\ at = [b \in Browsers |-> "email"]
  /\ held = [b \in Browsers |-> 0] /\ cookie = [b \in Browsers |-> 0]
  /\ mailed = {} /\ entered = {}

Move(b, from, to) == at[b] = from /\ at' = [at EXCEPT ![b] = to]

----------------------------------------------------------------------------
(* Asking for a code. *)

\* allowBoth: over the limit of the address, or over the source's on account
\* of its other addresses, the answer is the 202 of a request that went through.
Throttled(b) ==
  /\ Move(b, "email", "code")
  /\ UNCHANGED <<user, code, issued, tokens, asks, held, mailed, entered, deaths>>

\* Mutant: the terms are recorded by whoever verifies.
signupUnattested(b) ==
  /\ asks < Limit /\ asks' = asks + 1
  /\ known' = TRUE
  /\ Move(b, "email", "issue")
  /\ UNCHANGED <<attested, code, issued, tokens, held, mailed, entered, deaths>>
\* POST /v1/signup with the version of the terms shown: the row is upserted.
signup(b) ==
  /\ asks < Limit /\ asks' = asks + 1
  /\ known' = TRUE
  /\ Move(b, "email", "attest")
  /\ UNCHANGED <<attested, code, issued, tokens, held, mailed, entered, deaths>>

recordAttestation(b) ==
  /\ Move(b, "attest", "issue")
  /\ attested' = TRUE
  /\ UNCHANGED <<known, code, issued, tokens, asks, held, mailed, entered, deaths>>

\* POST /v1/login: the same answer whether or not the address is known.
login(b) ==
  /\ asks < Limit /\ asks' = asks + 1
  /\ Move(b, "email", IF known THEN "issue" ELSE "code")
  /\ UNCHANGED <<user, code, issued, tokens, held, mailed, entered, deaths>>

\* The row has room for one code: the newest.
issueCode(b) ==
  /\ Move(b, "issue", "send")
  /\ issued' = issued + 1 /\ code' = issued + 1
  /\ held' = [held EXCEPT ![b] = issued + 1]
  /\ UNCHANGED <<user, tokens, asks, mailed, entered, deaths>>

\* The mail arrives; or sending it throws, and the form says so.
SendCode(b) ==
  /\ \/ Move(b, "send", "code") /\ mailed' = mailed \cup {held[b]}
     \/ Move(b, "send", "email") /\ UNCHANGED mailed
  /\ held' = [held EXCEPT ![b] = 0]
  /\ UNCHANGED <<user, code, issued, tokens, asks, entered, deaths>>

\* Fifteen minutes.
ExpireCode ==
  /\ code # 0 /\ code' = 0
  /\ UNCHANGED <<user, issued, tokens, asks, at, held, mailed, entered, deaths>>

----------------------------------------------------------------------------
(* Turning it into a session. *)

\* "back".  A wrong or throttled code leaves the form as it is.
Back(b) ==
  /\ Move(b, "code", "email")
  /\ UNCHANGED <<user, code, issued, tokens, asks, held, mailed, entered, deaths>>

\* verify's SELECT finds the code that was typed.
verify(b) ==
  /\ code # 0 /\ code \in mailed
  /\ Move(b, "code", "mint")
  /\ held' = [held EXCEPT ![b] = code]
  /\ UNCHANGED <<user, code, issued, tokens, asks, mailed, entered, deaths>>

MintLeaving(b, rest) ==
  /\ Move(b, "mint", "in")
  /\ minted' = minted + 1 /\ token' = minted + 1
  /\ cookie' = [cookie EXCEPT ![b] = minted + 1]
  /\ code' = rest
  /\ entered' = entered \cup {<<held[b], b>>}
  /\ held' = [held EXCEPT ![b] = 0]
  /\ UNCHANGED <<user, issued, asks, mailed, deaths>>
\* Mutant: the code stays until it expires.
MintKeeping(b) == MintLeaving(b, code)
\* verify's UPDATE, by id alone: a new token over whatever was there, no code.
Mint(b) == MintLeaving(b, 0)

\* Any request with a dead cookie: 401, and api.js goes back to the form.
SessionEnded(b) ==
  /\ cookie[b] # token
  /\ Move(b, "in", "email")
  /\ UNCHANGED <<user, code, issued, tokens, asks, held, mailed, entered, deaths>>

\* Thirty days.
ExpireToken ==
  /\ token # 0 /\ token' = 0
  /\ UNCHANGED <<user, code, issued, minted, asks, at, held, cookie, mailed, entered, deaths>>

\* POST /v1/logout has authenticated.
logout(b) ==
  /\ cookie[b] = token
  /\ Move(b, "in", "signout")
  /\ UNCHANGED <<user, code, issued, tokens, asks, held, mailed, entered, deaths>>

\* The UPDATE clears whatever token the row holds by now.
SignOut(b) ==
  /\ Move(b, "signout", "email")
  /\ token' = 0 /\ cookie' = [cookie EXCEPT ![b] = 0]
  /\ UNCHANGED <<user, code, issued, minted, asks, held, mailed, entered, deaths>>

\* A request under way fails and the page it came from stays.
Die ==
  /\ deaths < MaxDeaths /\ deaths' = deaths + 1
  /\ at' = [b \in Browsers |->
              CASE at[b] \in {"attest", "issue", "send"} -> "email"
                [] at[b] = "mint" -> "code"
                [] at[b] = "signout" -> "in"
                [] OTHER -> at[b]]
  /\ held' = [b \in Browsers |-> 0]
  /\ UNCHANGED <<user, code, issued, tokens, asks, mailed, entered>>

SignInNext ==
  \/ ExpireCode \/ ExpireToken \/ Die
  \/ \E b \in Browsers :
       \/ Throttled(b) \/ signup(b) \/ recordAttestation(b) \/ login(b) \/ issueCode(b)
       \/ SendCode(b) \/ Back(b) \/ verify(b) \/ Mint(b) \/ SessionEnded(b)
       \/ logout(b) \/ SignOut(b)

SignInSpec == SignInInit /\ [][SignInNext]_signInVars

----------------------------------------------------------------------------
\* Verifying consumes the code: once a token has been minted for it the row never
\* holds it again, so no verification that begins later lets anybody in; and those
\* already past their SELECT let in other browsers, one token for each.
CodeConsumed ==
  /\ code # 0 => \A b \in Browsers : <<code, b>> \notin entered
  /\ \A b \in Browsers : at[b] = "mint" => <<held[b], b>> \notin entered

\* Nobody is signed in to an Account whose terms were not affirmed, unless a
\* signup died between creating the row and recording them, or is still on
\* its way there while a login of the same address overtakes it.
TermsBeforeSession ==
  token # 0 => attested \/ deaths > 0 \/ \E b \in Browsers : at[b] = "attest"

----------------------------------------------------------------------------
(* What the repository says and the code does not do. *)

\* "Verifying consumes the code" (accounts.ts): one code lets in one browser.
CodeWorksOnce == \A e, f \in entered : e[1] = f[1] => e = f
=============================================================================
