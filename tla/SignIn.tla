------------------------------- MODULE SignIn -------------------------------
(***************************************************************************)
(* Accounts and sign-in (internal/auth, internal/users): local sign-up and *)
(* login, the second factor, single sign-on (OIDC) and the links sent by   *)
(* mail.  A handler reads the account, works on what it has read            *)
(* (bcrypt, TOTP), and writes in another statement; handlers of different  *)
(* clients interleave between the two.  A client sends one request at a    *)
(* time.                                                                   *)
(***************************************************************************)
EXTENDS Naturals, FiniteSets, Functions

CONSTANTS
  Ids,           \* the rows of users
  Emails, Passwords,
  Subjects,      \* accounts at the identity provider
  Secrets,       \* TOTP secrets
  MailTokens,    \* tokens of verification and reset mails
  Browsers,       \* browsers, each with a session of its own
  None,
  MaxArrivals    \* bound: requests of all clients together

Account == [email : Emails \cup {None}, pass : Passwords \cup {None},
            subject : Subjects \cup {None}, secret : Secrets \cup {None},
            enabled : BOOLEAN, verified : BOOLEAN]
MailToken   == [kind : {"reset", "verify"}, user : Ids, used : BOOLEAN, expired : BOOLEAN]

ASSUME NoneAssumption ==
  None \notin UNION {Ids, Emails, Passwords, Subjects, Secrets, MailTokens, Account, MailToken}
ASSUME BoundAssumption == MaxArrivals \in Nat

VARIABLES
  users,      \* users[u]: the row of u, None if there is none
  minted,     \* minted[t]: the mail token, None if it has not been sent
  session,    \* session[c]: what the session of c holds
  stmt,       \* stmt[c]: the next statement of the request of c
  job,        \* job[c]: what the request has read and computed
  arrivals,   \* how many requests there have been
  gated       \* gated[c]: who has had MFA on since the request of c began;
              \* no part of the program

vars == <<users, minted, session, stmt, job, arrivals, gated>>

Session == [user : Ids \cup {None}, pending : Ids \cup {None}]
Unknown == [user |-> None, row |-> None, arg |-> None, token |-> None, email |-> None]
Job     == [user : Ids \cup {None}, row : Account \cup {None},
            arg : Secrets \cup Passwords \cup Subjects \cup {None},
            token : MailTokens \cup {None}, email : Emails \cup {None}]
Steps   == {"idle", "grant", "complete", "setSecret", "enable", "disable", "welcome",
            "reset", "verify", "byEmail", "link", "insert"}

TypeOK ==
  /\ users \in [Ids -> Account \cup {None}]
  /\ minted \in [MailTokens -> MailToken \cup {None}]
  /\ session \in [Browsers -> Session]
  /\ stmt \in [Browsers -> Steps]
  /\ job \in [Browsers -> Job]
  /\ arrivals \in 0..MaxArrivals
  /\ gated \in [Browsers -> SUBSET Ids]

Users == {u \in Ids : users[u] # None}

\* requireMFA
RequireMFA(row) == row.enabled /\ row.secret # None

NoAccount == [email |-> None, pass |-> None, subject |-> None, secret |-> None,
              enabled |-> FALSE, verified |-> FALSE]

\* One local account, with or without MFA; the others sign up.
Init ==
  /\ \E u \in Ids, e \in Emails, p \in Passwords, s \in Secrets, on \in BOOLEAN :
       users = [i \in Ids |->
         IF i # u THEN None
         ELSE [NoAccount EXCEPT !.email = e, !.pass = p, !.enabled = on,
                                !.secret = IF on THEN s ELSE None]]
  /\ minted = [t \in MailTokens |-> None]
  /\ session = [c \in Browsers |-> [user |-> None, pending |-> None]]
  /\ stmt = [c \in Browsers |-> "idle"]
  /\ job = [c \in Browsers |-> Unknown]
  /\ arrivals = 0
  /\ gated = [c \in Browsers |-> {}]

Gated == {u \in Users : RequireMFA(users[u])}

-----------------------------------------------------------------------------
\* A request begins.
Begin(c) == stmt[c] = "idle" /\ arrivals < MaxArrivals /\ arrivals' = arrivals + 1

Continue(c, step) == stmt[c] = step /\ UNCHANGED arrivals

\* The request goes on with a step, or has been answered.
Then(c, step, known) ==
  /\ stmt' = [stmt EXCEPT ![c] = step]
  /\ job' = [job EXCEPT ![c] = known]
Finish(c) == Then(c, "idle", Unknown)

Rows(col, value) == {u \in Users : users[u][col] = value}

\* An INSERT or UPDATE of the row u that the unique indexes on email and on
\* subject allow.
Unique(u, row) ==
  /\ row.email # None => Rows("email", row.email) \subseteq {u}
  /\ row.subject # None => Rows("subject", row.subject) \subseteq {u}

\* The token of the next mail.
Mint(kind, u) ==
  \E t \in MailTokens :
    /\ minted[t] = None
    /\ minted' = [minted EXCEPT ![t] =
                    [kind |-> kind, user |-> u, used |-> FALSE, expired |-> FALSE]]

\* startSession: what is pending stays in the session.
StartSession(c, u) == session' = [session EXCEPT ![c].user = u]

-----------------------------------------------------------------------------
\* Register; then a verification mail, if a mailer is configured.
Register(c) ==
  /\ Begin(c)
  /\ \E e \in Emails, p \in Passwords, u \in Ids \ Users :
       LET row == [NoAccount EXCEPT !.email = e, !.pass = p]
       IN  IF Unique(u, row)
             THEN /\ users' = [users EXCEPT ![u] = row]
                  /\ StartSession(c, u)
                  /\ Then(c, "welcome", [Unknown EXCEPT !.user = u])
             ELSE Finish(c) /\ UNCHANGED <<users, session>>
  /\ UNCHANGED minted

\* SendVerificationOnRegister
Welcome(c) ==
  /\ Continue(c, "welcome")
  /\ Mint("verify", job[c].user) \/ UNCHANGED minted
  /\ Finish(c)
  /\ UNCHANGED <<users, session>>

\* Login finds the account and compares the password.
Login(c) ==
  /\ Begin(c)
  /\ \E e \in Emails, p \in Passwords :
       IF \E u \in Rows("email", e) : users[u].pass = p
         THEN \E u \in Rows("email", e) :
                Then(c, "grant", [Unknown EXCEPT !.user = u, !.row = users[u]])
         ELSE Finish(c)
  /\ UNCHANGED <<users, minted, session>>

\* Faulty variant: the session starts and the code is asked for in passing.
GrantAtOnce(c) ==
  /\ Continue(c, "grant")
  /\ session' = [session EXCEPT ![c].user = job[c].user,
        ![c].pending = IF RequireMFA(job[c].row) THEN job[c].user ELSE @]
  /\ Finish(c)
  /\ UNCHANGED <<users, minted>>

\* The MFA gate.
Grant(c) ==
  /\ Continue(c, "grant")
  /\ IF RequireMFA(job[c].row)
       THEN session' = [session EXCEPT ![c].pending = job[c].user]
       ELSE StartSession(c, job[c].user)
  /\ Finish(c)
  /\ UNCHANGED <<users, minted>>

\* LoginMFA reads the account of the challenge and checks the code.
LoginMFA(c) ==
  /\ Begin(c)
  /\ \E code \in Secrets :
       LET u == session[c].pending
       IN  IF u # None /\ RequireMFA(users[u]) /\ users[u].secret = code
             THEN Then(c, "complete", [Unknown EXCEPT !.user = u, !.arg = code])
             ELSE Finish(c)
  /\ UNCHANGED <<users, minted, session>>

CompleteMFA(c) ==
  /\ Continue(c, "complete")
  /\ session' = [session EXCEPT ![c] = [user |-> job[c].user, pending |-> None]]
  /\ Finish(c)
  /\ UNCHANGED <<users, minted>>

Logout(c) ==
  /\ Begin(c)
  /\ session' = [session EXCEPT ![c] = [user |-> None, pending |-> None]]
  /\ Finish(c)
  /\ UNCHANGED <<users, minted>>

-----------------------------------------------------------------------------
\* The account that the session cookie stands for (middleware.Identity).
Identity(c) == session[c].user

\* MFASetupStart: a new secret, whether or not there was one.
SetupStart(c) ==
  /\ Begin(c)
  /\ \E s \in Secrets :
       /\ s \notin {users[u].secret : u \in Users} \cup {job[d].arg : d \in Browsers}
       /\ IF Identity(c) = None
            THEN Finish(c)
            ELSE Then(c, "setSecret", [Unknown EXCEPT !.user = Identity(c), !.arg = s])
  /\ UNCHANGED <<users, minted, session>>

SetTOTPSecret(c) ==
  /\ Continue(c, "setSecret")
  /\ users' = [users EXCEPT ![job[c].user] =
                  [@ EXCEPT !.secret = job[c].arg, !.enabled = FALSE]]
  /\ Finish(c)
  /\ UNCHANGED <<minted, session>>

\* MFASetupConfirm compares the code with the secret it has read.
SetupConfirm(c) ==
  /\ Begin(c)
  /\ \E code \in Secrets :
       LET u == Identity(c)
       IN  IF u # None /\ users[u].secret = code /\ ~users[u].enabled
             THEN Then(c, "enable", [Unknown EXCEPT !.user = u, !.arg = code])
             ELSE Finish(c)
  /\ UNCHANGED <<users, minted, session>>

ConfirmTOTP(c) ==
  /\ Continue(c, "enable")
  /\ users' = [users EXCEPT ![job[c].user].enabled = TRUE]
  /\ Finish(c)
  /\ UNCHANGED <<minted, session>>

MFADisable(c) ==
  /\ Begin(c)
  /\ \E code \in Secrets :
       LET u == Identity(c)
       IN  IF u # None /\ users[u].enabled /\ users[u].secret = code
             THEN Then(c, "disable", [Unknown EXCEPT !.user = u])
             ELSE Finish(c)
  /\ UNCHANGED <<users, minted, session>>

DisableTOTP(c) ==
  /\ Continue(c, "disable")
  /\ users' = [users EXCEPT ![job[c].user] = [@ EXCEPT !.secret = None, !.enabled = FALSE]]
  /\ Finish(c)
  /\ UNCHANGED <<minted, session>>

-----------------------------------------------------------------------------
\* ForgotPassword: a reset mail to an account with a password.
ForgotPassword(c) ==
  /\ Begin(c)
  /\ \E u \in Users : users[u].pass # None /\ Mint("reset", u)
  /\ Finish(c)
  /\ UNCHANGED <<users, session>>

\* ResendVerification
ResendVerification(c) ==
  /\ Begin(c)
  /\ LET u == Identity(c)
     IN  u # None /\ users[u].email # None /\ ~users[u].verified /\ Mint("verify", u)
  /\ Finish(c)
  /\ UNCHANGED <<users, session>>

TokenExpires(t) ==
  /\ minted[t] # None /\ ~minted[t].expired
  /\ minted' = [minted EXCEPT ![t].expired = TRUE]
  /\ UNCHANGED <<users, session, stmt, job, arrivals>>

Redeemable(t, kind) ==
  minted[t] # None /\ minted[t].kind = kind /\ ~minted[t].used /\ ~minted[t].expired

\* ResetPassword looks up the token, and hashes the new password.
ResetPassword(c) ==
  /\ Begin(c)
  /\ \E t \in MailTokens, p \in Passwords :
       IF Redeemable(t, "reset")
         THEN Then(c, "reset", [Unknown EXCEPT !.user = minted[t].user, !.arg = p, !.token = t])
         ELSE Finish(c)
  /\ UNCHANGED <<users, minted, session>>

\* Faulty variant: the update does not ask whether the token is unused.
StillUnusedAlways(t) == minted[t] # None

\* WHERE token_hash = ? AND used_at IS NULL
StillUnused(t) == ~minted[t].used

\* Its transaction, rolled back if the token has been used meanwhile.
CommitReset(c) ==
  /\ Continue(c, "reset")
  /\ LET t == job[c].token
     IN  IF StillUnused(t)
           THEN /\ users' = [users EXCEPT ![job[c].user].pass = job[c].arg]
                /\ minted' = [minted EXCEPT ![t].used = TRUE]
           ELSE UNCHANGED <<users, minted>>
  /\ Finish(c)
  /\ UNCHANGED session

\* VerifyEmail looks up the token.
VerifyEmail(c) ==
  /\ Begin(c)
  /\ \E t \in MailTokens :
       IF Redeemable(t, "verify")
         THEN Then(c, "verify", [Unknown EXCEPT !.user = minted[t].user, !.token = t])
         ELSE Finish(c)
  /\ UNCHANGED <<users, minted, session>>

CommitVerify(c) ==
  /\ Continue(c, "verify")
  /\ users' = [users EXCEPT ![job[c].user].verified = TRUE]
  /\ minted' = [minted EXCEPT ![job[c].token].used = TRUE]
  /\ Finish(c)
  /\ UNCHANGED session

-----------------------------------------------------------------------------
\* completeOIDC with what the identity provider says; EnsureFromOIDC looks for
\* an account that is linked already.
CompleteOIDC(c) ==
  /\ Begin(c)
  /\ \E subject \in Subjects, e \in Emails \cup {None} :
       IF Rows("subject", subject) # {}
         THEN /\ \E u \in Rows("subject", subject) : StartSession(c, u)
              /\ Finish(c)
         ELSE /\ Then(c, "byEmail", [Unknown EXCEPT !.arg = subject, !.email = e])
              /\ UNCHANGED session
  /\ UNCHANGED <<users, minted>>

\* ... for one with this e-mail address, which must not be linked otherwise ...
FindByEmail(c) ==
  /\ Continue(c, "byEmail")
  /\ LET found == IF job[c].email = None THEN {} ELSE Rows("email", job[c].email)
     IN  \/ found = {} /\ Then(c, "insert", job[c]) /\ UNCHANGED session
         \/ \E u \in found :
              CASE users[u].subject = None ->
                     Then(c, "link", [job[c] EXCEPT !.user = u]) /\ UNCHANGED session
                [] users[u].subject = job[c].arg -> StartSession(c, u) /\ Finish(c)
                [] OTHER -> Finish(c) /\ UNCHANGED session
  /\ UNCHANGED <<users, minted>>

\* ... and links it, ...
Link(c) ==
  /\ Continue(c, "link")
  /\ LET u   == job[c].user
         row == [users[u] EXCEPT !.subject = job[c].arg]
     IN  IF Unique(u, row)
           THEN users' = [users EXCEPT ![u] = row] /\ StartSession(c, u)
           ELSE UNCHANGED <<users, session>>
  /\ Finish(c)
  /\ UNCHANGED minted

OIDCRow(known) == [NoAccount EXCEPT !.email = known.email, !.subject = known.arg]

\* ... or makes a new one; the INSERT may fail.
InsertOIDC(c) ==
  /\ Continue(c, "insert")
  /\ \/ \E u \in Ids \ Users :
          /\ Unique(u, OIDCRow(job[c]))
          /\ users' = [users EXCEPT ![u] = OIDCRow(job[c])]
          /\ StartSession(c, u)
     \/ UNCHANGED <<users, session>>
  /\ Finish(c)
  /\ UNCHANGED minted

\* An admin strips the MFA of a user (AdminDisableUserMFA).
AdminDisableMFA(u) ==
  /\ u \in Users /\ users[u].secret # None
  /\ users' = [users EXCEPT ![u] = [@ EXCEPT !.secret = None, !.enabled = FALSE]]
  /\ UNCHANGED <<minted, session, stmt, job, arrivals>>

-----------------------------------------------------------------------------
Turn(c) ==
  \/ Register(c) \/ Welcome(c) \/ Login(c) \/ Grant(c) \/ LoginMFA(c)
  \/ CompleteMFA(c) \/ Logout(c)
  \/ SetupStart(c) \/ SetTOTPSecret(c) \/ SetupConfirm(c) \/ ConfirmTOTP(c)
  \/ MFADisable(c) \/ DisableTOTP(c)
  \/ ForgotPassword(c) \/ ResendVerification(c) \/ ResetPassword(c) \/ CommitReset(c)
  \/ VerifyEmail(c) \/ CommitVerify(c)
  \/ CompleteOIDC(c) \/ FindByEmail(c) \/ Link(c) \/ InsertOIDC(c)

\* Who has had MFA on since the request of a client began.
Note ==
  gated' = [c \in Browsers |->
    IF stmt'[c] = "idle" THEN {}
    ELSE Gated' \cap (IF stmt[c] = "idle" THEN Gated ELSE gated[c])]

Quiet == arrivals = MaxArrivals /\ (\A c \in Browsers : stmt[c] = "idle") /\ UNCHANGED vars

Next ==
  \/ /\ \/ \E c \in Browsers : Turn(c)
        \/ \E t \in MailTokens : TokenExpires(t)
        \/ \E u \in Ids : AdminDisableMFA(u)
     /\ Note
  \/ Quiet

Spec == Init /\ [][Next]_vars

-----------------------------------------------------------------------------
(***************************************************************************)
(* Properties                                                              *)
(***************************************************************************)
\* A password changes only by a reset that spends an unused token of its
\* account: "so a successful reset can't be replayed" (reset.go:96).
PasswordNeedsToken ==
  [][\A u \in Users : users'[u].pass # users[u].pass =>
       \E t \in MailTokens : /\ minted[t] # None /\ minted[t].kind = "reset"
                             /\ minted[t].user = u /\ ~minted[t].used
                             /\ minted'[t].used]_vars

\* An account that has had MFA on since the request began is signed in to with
\* a code or by the identity provider, never with a password alone, although
\* Login decides on the row it has read earlier (auth.go:147).
SecondFactor ==
  [][\A c \in Browsers :
       LET u == session'[c].user
       IN  u # session[c].user /\ u \in gated[c] =>
             stmt[c] \in {"complete", "byEmail", "link", "insert"}]_vars

\* An account that is linked to the identity provider keeps its link:
\* "silently overwriting would let one IdP take over another's identity"
\* (users.go:154).  It fails: Link does not ask again what FindByEmail has seen
\* in another statement (users.go:173-182).
LinkIsKept ==
  [][\A u \in Users : users[u].subject # None =>
       users'[u].subject = users[u].subject]_vars

-----------------------------------------------------------------------------
(***************************************************************************)
(* The inductive invariant behind these                                    *)
(***************************************************************************)
\* What a request has read when it reaches a statement.
KnownAt(c) ==
  LET known == job[c]
  IN  /\ stmt[c] \in {"grant", "complete", "setSecret", "enable", "disable", "welcome", "link"} =>
           known.user \in Users
      /\ stmt[c] = "grant" => known.row # None
      /\ stmt[c] = "setSecret" => known.arg \in Secrets
      /\ stmt[c] \in {"reset", "verify"} =>
           /\ known.token # None /\ minted[known.token] # None
           /\ minted[known.token].kind = stmt[c] /\ minted[known.token].user = known.user
      /\ stmt[c] = "reset" => known.arg \in Passwords
      /\ stmt[c] \in {"byEmail", "link", "insert"} => known.arg \in Subjects

\* Login has read MFA on for whoever has had it on since.
GateSeen ==
  \A c \in Browsers :
    /\ stmt[c] = "idle" => gated[c] = {}
    /\ stmt[c] = "grant" /\ job[c].user \in gated[c] => RequireMFA(job[c].row)

\* Sessions and tokens belong to accounts.
Owned ==
  /\ \A c \in Browsers : {session[c].user, session[c].pending} \subseteq Users \cup {None}
  /\ \A t \in MailTokens : minted[t] # None => minted[t].user \in Users

IndInv == TypeOK /\ Owned /\ (\A c \in Browsers : KnownAt(c)) /\ GateSeen

=============================================================================
