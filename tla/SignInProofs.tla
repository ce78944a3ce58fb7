---------------------------- MODULE SignInProofs ----------------------------
(***************************************************************************)
(* Proofs about SignIn, for any number of accounts, clients, tokens and    *)
(* requests.                                                               *)
(***************************************************************************)
EXTENDS SignIn, TLAPS

\* What a step does to each variable; KnownAt and the rest of IndInv follow.
UsersMove ==
  /\ users' \in [Ids -> Account \cup {None}]
  /\ \A u \in Users : u \in Users'

TokensStay ==
  \A t \in MailTokens : minted[t] # None =>
    minted'[t] # None /\ minted'[t].kind = minted[t].kind /\ minted'[t].user = minted[t].user
TokensOwned == \A t \in MailTokens : minted[t] # None => minted[t].user \in Users
TokensMove == minted' \in [MailTokens -> MailToken \cup {None}] /\ TokensStay /\ TokensOwned'

\* What Login hands to Grant.
JustRead(c) ==
  stmt'[c] = "grant" => stmt[c] = "idle" /\ users' = users /\ job'[c].row = users[job'[c].user]

JobMove(c) ==
  /\ stmt' \in [Browsers -> Steps] /\ job' \in [Browsers -> Job]
  /\ \A d \in Browsers \ {c} : stmt'[d] = stmt[d] /\ job'[d] = job[d]
  /\ KnownAt(c)' /\ JustRead(c)

\* How a client gets to be somebody.
SignedIn(c) ==
  session'[c].user \notin {None, session[c].user} =>
    \/ stmt[c] \in {"idle", "complete", "byEmail", "link", "insert"}
    \/ stmt[c] = "grant" /\ session'[c].user = job[c].user /\ ~RequireMFA(job[c].row)

SessionOwned(c) == {session[c].user, session[c].pending} \subseteq Users \cup {None}

SessionMove(c) ==
  /\ session' \in [Browsers -> Session]
  /\ \A d \in Browsers \ {c} : session'[d] = session[d]
  /\ SessionOwned(c)' /\ SignedIn(c)

-----------------------------------------------------------------------------
LEMMA NewRow ==
  ASSUME users \in [Ids -> Account \cup {None}], NEW u \in Ids, NEW row \in Account,
         users' = [users EXCEPT ![u] = row]
  PROVE  UsersMove
BY NoneAssumption DEF UsersMove, Users

LEMMA RowChange ==
  ASSUME NEW row \in Account
  PROVE  /\ \A p \in Passwords : [row EXCEPT !.pass = p] \in Account
         /\ \A s \in Subjects : [row EXCEPT !.subject = s] \in Account
         /\ \A k \in Secrets \cup {None} :
              [row EXCEPT !.secret = k, !.enabled = FALSE] \in Account
         /\ [row EXCEPT !.verified = TRUE] \in Account
         /\ [row EXCEPT !.enabled = TRUE] \in Account
BY DEF Account

LEMMA FreshRow ==
  ASSUME NEW e \in Emails \cup {None}
  PROVE  /\ \A p \in Passwords : [NoAccount EXCEPT !.email = e, !.pass = p] \in Account
         /\ \A s \in Subjects : [NoAccount EXCEPT !.email = e, !.subject = s] \in Account
BY DEF Account, NoAccount

LEMMA UsersStep ==
  ASSUME IndInv, NEW c \in Browsers, Turn(c)
  PROVE  UsersMove
<1>1. TypeOK /\ KnownAt(c)
  BY DEF IndInv
<1>2. \A u \in Users : u \in Ids /\ users[u] \in Account
  BY <1>1 DEF Users, TypeOK
<1>3. CASE users' = users
  BY <1>1, <1>3 DEF UsersMove, Users, TypeOK
<1>4. CASE Register(c)
  BY <1>1, <1>4, NewRow, FreshRow, <1>3 DEF Register, TypeOK
<1>5. CASE SetTOTPSecret(c)
  <2>1. job[c].user \in Users /\ job[c].arg \in Secrets
    BY <1>1, <1>5 DEF SetTOTPSecret, Continue, KnownAt
  <2>2. QED
    BY <1>1, <1>2, <1>5, <2>1, NewRow, RowChange DEF TypeOK, SetTOTPSecret
<1>6. CASE ConfirmTOTP(c)
  <2>1. job[c].user \in Users
    BY <1>1, <1>6 DEF ConfirmTOTP, Continue, KnownAt
  <2>2. QED
    BY <1>1, <1>2, <1>6, <2>1, NewRow, RowChange DEF TypeOK, ConfirmTOTP
<1>7. CASE DisableTOTP(c)
  <2>1. job[c].user \in Users
    BY <1>1, <1>7 DEF DisableTOTP, Continue, KnownAt
  <2>2. QED
    BY <1>1, <1>2, <1>7, <2>1, NewRow, RowChange DEF TypeOK, DisableTOTP
<1>8. CASE CommitReset(c)
  <2>1. job[c].user \in Users /\ job[c].arg \in Passwords
    BY <1>1, <1>8 DEF CommitReset, Continue, KnownAt, IndInv, Owned, TypeOK, Job
  <2>2. QED
    BY <1>1, <1>2, <1>3, <1>8, <2>1, NewRow, RowChange DEF TypeOK, CommitReset
<1>9. CASE CommitVerify(c)
  <2>1. job[c].user \in Users
    BY <1>1, <1>9 DEF CommitVerify, Continue, KnownAt, IndInv, Owned, TypeOK, Job
  <2>2. QED
    BY <1>1, <1>2, <1>9, <2>1, NewRow, RowChange DEF TypeOK, CommitVerify
<1>10. CASE Link(c)
  <2>1. job[c].user \in Users /\ job[c].arg \in Subjects
    BY <1>1, <1>10 DEF Link, Continue, KnownAt
  <2>2. QED
    BY <1>1, <1>2, <1>3, <1>10, <2>1, NewRow, RowChange DEF TypeOK, Link
<1>11. CASE InsertOIDC(c)
  <2>1. job[c].email \in Emails \cup {None} /\ job[c].arg \in Subjects
    BY <1>1, <1>11 DEF InsertOIDC, Continue, KnownAt, TypeOK, Job
  <2>2. OIDCRow(job[c]) \in Account
    BY <2>1, FreshRow DEF OIDCRow, Account, NoAccount
  <2>3. QED
    BY <1>1, <1>3, <1>11, <2>2, NewRow DEF TypeOK, InsertOIDC
<1>12. QED
  BY <1>3, <1>4, <1>5, <1>6, <1>7, <1>8, <1>9, <1>10, <1>11
  DEF Turn, Welcome, Login, Grant, LoginMFA, CompleteMFA, Logout, SetupStart, SetupConfirm,
      MFADisable, ForgotPassword, ResendVerification, ResetPassword, VerifyEmail,
      CompleteOIDC, FindByEmail

-----------------------------------------------------------------------------
LEMMA MintMove ==
  ASSUME TypeOK, TokensOwned, UsersMove, NEW u \in Users, NEW kind \in {"reset", "verify"},
         Mint(kind, u)
  PROVE  TokensMove
<1>1. PICK t \in MailTokens :
        /\ minted[t] = None
        /\ minted' = [minted EXCEPT ![t] =
                        [kind |-> kind, user |-> u, used |-> FALSE, expired |-> FALSE]]
  BY DEF Mint
<1>2. [kind |-> kind, user |-> u, used |-> FALSE, expired |-> FALSE] \in MailToken
  BY DEF MailToken, Users
<1>3. QED
  BY <1>1, <1>2, NoneAssumption DEF TokensMove, TokensStay, TokensOwned, UsersMove, TypeOK

LEMMA ChangeMove ==
  ASSUME TypeOK, TokensOwned, UsersMove, NEW t \in MailTokens, minted[t] # None,
         \/ minted' = [minted EXCEPT ![t].used = TRUE]
         \/ minted' = [minted EXCEPT ![t].expired = TRUE]
  PROVE  TokensMove
<1>1. minted[t] \in MailToken
  BY DEF TypeOK
<1>2. /\ [minted[t] EXCEPT !.used = TRUE] \in MailToken
      /\ [minted[t] EXCEPT !.expired = TRUE] \in MailToken
  BY <1>1 DEF MailToken
<1>3. PICK tok \in MailToken : /\ minted' = [minted EXCEPT ![t] = tok]
                          /\ tok.kind = minted[t].kind /\ tok.user = minted[t].user
  BY <1>1, <1>2 DEF MailToken
<1>4. QED
  BY <1>3, NoneAssumption DEF TokensMove, TokensStay, TokensOwned, UsersMove, TypeOK

LEMMA TokensStep ==
  ASSUME IndInv, NEW c \in Browsers, Turn(c), UsersMove
  PROVE  TokensMove
<1>1. TypeOK /\ KnownAt(c) /\ TokensOwned
  BY DEF IndInv, Owned, TokensOwned
<1>2. CASE minted' = minted
  BY <1>1, <1>2 DEF TokensMove, TokensStay, TokensOwned, UsersMove, TypeOK
<1>3. CASE Welcome(c)
  <2>1. job[c].user \in Users
    BY <1>1, <1>3 DEF Welcome, Continue, KnownAt
  <2>2. QED
    BY <1>1, <1>2, <1>3, <2>1, MintMove DEF Welcome
<1>4. CASE ForgotPassword(c)
  BY <1>1, <1>4, MintMove DEF ForgotPassword
<1>5. CASE ResendVerification(c)
  <2>1. session[c].user # None => session[c].user \in Users
    BY DEF IndInv, Owned
  <2>2. QED
    BY <1>1, <1>5, <2>1, MintMove DEF ResendVerification, Identity
<1>6. CASE CommitReset(c) \/ CommitVerify(c)
  <2>1. job[c].token \in MailTokens /\ minted[job[c].token] # None
    BY <1>1, <1>6 DEF CommitReset, CommitVerify, Continue, KnownAt, TypeOK, Job
  <2>2. QED
    BY <1>1, <1>2, <1>6, <2>1, ChangeMove DEF CommitReset, CommitVerify
<1>7. QED
  BY <1>2, <1>3, <1>4, <1>5, <1>6
  DEF Turn, Register, Login, Grant, LoginMFA, CompleteMFA, Logout, SetupStart, SetupConfirm,
      SetTOTPSecret, ConfirmTOTP, MFADisable, DisableTOTP, ResetPassword, VerifyEmail,
      CompleteOIDC, FindByEmail, Link, InsertOIDC

-----------------------------------------------------------------------------
LEMMA ThenMove ==
  ASSUME TypeOK, NEW c \in Browsers, NEW step \in Steps, NEW known \in Job,
         Then(c, step, known)
  PROVE  /\ stmt' \in [Browsers -> Steps] /\ job' \in [Browsers -> Job]
         /\ \A d \in Browsers \ {c} : stmt'[d] = stmt[d] /\ job'[d] = job[d]
         /\ stmt'[c] = step /\ job'[c] = known
BY DEF Then, TypeOK

LEMMA AnswerMove ==
  ASSUME TypeOK, NEW c \in Browsers, Finish(c)
  PROVE  JobMove(c)
<1>1. "idle" \in Steps /\ Unknown \in Job
  BY DEF Steps, Unknown, Job
<1>2. stmt'[c] = "idle"
  BY <1>1, ThenMove DEF Finish
<1>3. KnownAt(c)' /\ JustRead(c)
  BY <1>2 DEF KnownAt, JustRead
<1>4. QED
  BY <1>1, <1>3, ThenMove DEF Finish, JobMove

LEMMA Knowledge ==
  ASSUME NEW u \in Ids
  PROVE  /\ [Unknown EXCEPT !.user = u] \in Job
         /\ \A row \in Account : [Unknown EXCEPT !.user = u, !.row = row] \in Job
         /\ \A s \in Secrets : [Unknown EXCEPT !.user = u, !.arg = s] \in Job
         /\ \A t \in MailTokens : [Unknown EXCEPT !.user = u, !.token = t] \in Job
         /\ \A t \in MailTokens, p \in Passwords :
              [Unknown EXCEPT !.user = u, !.arg = p, !.token = t] \in Job
         /\ \A j \in Job : [j EXCEPT !.user = u] \in Job
BY DEF Unknown, Job

LEMMA JobStep ==
  ASSUME IndInv, NEW c \in Browsers, Turn(c), UsersMove, TokensMove
  PROVE  JobMove(c)
<1>1. TypeOK /\ KnownAt(c)
  BY DEF IndInv
<1>2. CASE Finish(c)
  BY <1>1, <1>2, AnswerMove
<1>3. ASSUME NEW step \in Steps \ {"idle"}, NEW known \in Job, Then(c, step, known),
             /\ step \in {"grant", "complete", "setSecret", "enable", "disable", "welcome",
                          "link"} => known.user \in Users'
             /\ step = "grant" =>
                  /\ stmt[c] = "idle" /\ users' = users
                  /\ known.row # None /\ known.row = users[known.user]
             /\ step = "setSecret" => known.arg \in Secrets
             /\ step \in {"reset", "verify"} =>
                  /\ known.token # None /\ known.token \in MailTokens
                  /\ minted[known.token] # None
                  /\ minted[known.token].kind = step
                  /\ minted[known.token].user = known.user
             /\ step = "reset" => known.arg \in Passwords
             /\ step \in {"byEmail", "link", "insert"} => known.arg \in Subjects
      PROVE  JobMove(c)
  <2>1. /\ stmt' \in [Browsers -> Steps] /\ job' \in [Browsers -> Job]
        /\ \A d \in Browsers \ {c} : stmt'[d] = stmt[d] /\ job'[d] = job[d]
        /\ stmt'[c] = step /\ job'[c] = known
    BY <1>1, <1>3, ThenMove
  <2>2. KnownAt(c)'
    BY <1>3, <2>1 DEF KnownAt, TokensMove, TokensStay
  <2>3. JustRead(c)
    BY <1>3, <2>1 DEF JustRead
  <2>4. QED
    BY <2>1, <2>2, <2>3 DEF JobMove
<1>4. /\ \A u \in Users : u \in Ids /\ u \in Users' /\ users[u] \in Account /\ users[u] # None
      /\ {session[c].user, session[c].pending} \subseteq Users \cup {None}
      /\ \A t \in MailTokens : minted[t] # None => minted[t].user \in Users
  BY <1>1 DEF IndInv, Owned, Users, UsersMove, TypeOK
<1>5. CASE Register(c)
  <2>1. SUFFICES ASSUME NEW u \in Ids, NEW row \in Account, users' = [users EXCEPT ![u] = row],
                        Then(c, "welcome", [Unknown EXCEPT !.user = u])
                 PROVE  JobMove(c)
    BY <1>2, <1>5, FreshRow DEF Register
  <2>2. u \in Users'
    BY <1>1, <2>1, NoneAssumption DEF Users, TypeOK
  <2>3. QED
    BY <1>3, <2>1, <2>2, Knowledge DEF Steps, Unknown
<1>6. CASE Login(c)
  BY <1>1, <1>2, <1>3, <1>4, <1>6, Knowledge DEF Login, Begin, Steps, Unknown, Rows
<1>7. CASE LoginMFA(c)
  BY <1>1, <1>2, <1>3, <1>4, <1>7, Knowledge DEF LoginMFA, Steps, Unknown
<1>8. CASE SetupStart(c)
  BY <1>1, <1>2, <1>3, <1>4, <1>8, Knowledge DEF SetupStart, Identity, Steps, Unknown
<1>9. CASE SetupConfirm(c)
  BY <1>1, <1>2, <1>3, <1>4, <1>9, Knowledge DEF SetupConfirm, Identity, Steps, Unknown
<1>10. CASE MFADisable(c)
  BY <1>1, <1>2, <1>3, <1>4, <1>10, Knowledge DEF MFADisable, Identity, Steps, Unknown
<1>11. CASE ResetPassword(c)
  BY <1>1, <1>2, <1>3, <1>4, <1>11, Knowledge, NoneAssumption
  DEF ResetPassword, Redeemable, Steps, Unknown, MailToken
<1>12. CASE VerifyEmail(c)
  BY <1>1, <1>2, <1>3, <1>4, <1>12, Knowledge, NoneAssumption
  DEF VerifyEmail, Redeemable, Steps, Unknown
<1>13. CASE CompleteOIDC(c)
  BY <1>1, <1>2, <1>3, <1>13 DEF CompleteOIDC, Steps, Unknown, Job
<1>14. CASE FindByEmail(c)
  <2>1. job[c] \in Job /\ job[c].arg \in Subjects
    BY <1>1, <1>14 DEF FindByEmail, Continue, KnownAt, TypeOK
  <2>2. ASSUME NEW u \in Users, Then(c, "link", [job[c] EXCEPT !.user = u])
        PROVE  JobMove(c)
    <3>1. [job[c] EXCEPT !.user = u] \in Job
      BY <1>4, <2>1, Knowledge
    <3>2. /\ [job[c] EXCEPT !.user = u].user = u
          /\ [job[c] EXCEPT !.user = u].arg = job[c].arg
      BY <2>1 DEF Job
    <3>3. QED
      BY <1>3, <1>4, <2>1, <2>2, <3>1, <3>2 DEF Steps
  <2>3. ASSUME Then(c, "insert", job[c]) PROVE JobMove(c)
    BY <1>3, <2>1, <2>3 DEF Steps
  <2>4. QED
    BY <1>2, <1>14, <2>2, <2>3 DEF FindByEmail, Rows
<1>15. QED
  BY <1>2, <1>5, <1>6, <1>7, <1>8, <1>9, <1>10, <1>11, <1>12, <1>13, <1>14
  DEF Turn, Welcome, Grant, CompleteMFA, Logout, SetTOTPSecret, ConfirmTOTP, DisableTOTP,
      ForgotPassword, ResendVerification, CommitReset, CommitVerify, Link, InsertOIDC

-----------------------------------------------------------------------------
LEMMA SessionStep ==
  ASSUME IndInv, NEW c \in Browsers, Turn(c), UsersMove
  PROVE  SessionMove(c)
<1>1. TypeOK /\ KnownAt(c)
  BY DEF IndInv
<1>2. /\ session[c] \in Session
      /\ {session[c].user, session[c].pending} \subseteq Users \cup {None}
      /\ {session[c].user, session[c].pending} \subseteq Users' \cup {None}
      /\ \A u \in Users : u \in Users'
  BY <1>1 DEF IndInv, Owned, TypeOK, UsersMove
<1>3. CASE session' = session
  BY <1>1, <1>2, <1>3 DEF SessionMove, SessionOwned, SignedIn, TypeOK
<1>4. ASSUME NEW new \in Session, session' = [session EXCEPT ![c] = new],
             {new.user, new.pending} \subseteq Users' \cup {None},
             new.user \in {None, session[c].user}
               \/ stmt[c] \in {"idle", "complete", "byEmail", "link", "insert"}
               \/ (stmt[c] = "grant" /\ new.user = job[c].user /\ ~RequireMFA(job[c].row))
      PROVE  SessionMove(c)
  BY <1>1, <1>4 DEF SessionMove, SessionOwned, SignedIn, TypeOK
<1>5. ASSUME NEW u \in Users', StartSession(c, u),
             \/ stmt[c] \in {"idle", "complete", "byEmail", "link", "insert"}
             \/ (stmt[c] = "grant" /\ u = job[c].user /\ ~RequireMFA(job[c].row))
      PROVE  SessionMove(c)
  <2>1. [session[c] EXCEPT !.user = u] = [user |-> u, pending |-> session[c].pending]
    BY <1>2 DEF Session
  <2>2. [user |-> u, pending |-> session[c].pending] \in Session
    BY <1>2, <1>5 DEF Session, Users
  <2>3. QED
    BY <1>2, <1>4, <1>5, <2>1, <2>2 DEF StartSession
<1>6. CASE Register(c)
  <2>1. SUFFICES ASSUME NEW u \in Ids, NEW row \in Account, users' = [users EXCEPT ![u] = row],
                        StartSession(c, u)
                 PROVE  SessionMove(c)
    BY <1>3, <1>6, FreshRow DEF Register
  <2>2. u \in Users'
    BY <1>1, <2>1, NoneAssumption DEF Users, TypeOK
  <2>3. QED
    BY <1>5, <1>6, <2>1, <2>2 DEF Register, Begin
<1>7. CASE Grant(c)
  <2>1. job[c].user \in Users /\ job[c].user \in Users'
    BY <1>1, <1>2, <1>7 DEF Grant, Continue, KnownAt
  <2>2. CASE RequireMFA(job[c].row)
    <3>1. /\ session' = [session EXCEPT ![c] =
                           [user |-> session[c].user, pending |-> job[c].user]]
          /\ [user |-> session[c].user, pending |-> job[c].user] \in Session
      BY <1>1, <1>2, <1>7, <2>1, <2>2 DEF Grant, Session, TypeOK, Users
    <3>2. QED
      BY <1>2, <1>4, <2>1, <3>1
  <2>3. CASE ~RequireMFA(job[c].row)
    BY <1>5, <1>7, <2>1, <2>3 DEF Grant, Continue
  <2>4. QED
    BY <2>2, <2>3
<1>8. CASE CompleteMFA(c)
  <2>1. job[c].user \in Users /\ job[c].user \in Users'
    BY <1>1, <1>2, <1>8 DEF CompleteMFA, Continue, KnownAt
  <2>2. [user |-> job[c].user, pending |-> None] \in Session
    BY <2>1 DEF Session, Users
  <2>3. QED
    BY <1>4, <1>8, <2>1, <2>2 DEF CompleteMFA, Continue
<1>9. CASE Logout(c)
  <2>1. [user |-> None, pending |-> None] \in Session
    BY DEF Session
  <2>2. QED
    BY <1>4, <1>9, <2>1 DEF Logout
<1>10. CASE CompleteOIDC(c)
  BY <1>2, <1>3, <1>5, <1>10 DEF CompleteOIDC, Begin, Rows
<1>11. CASE FindByEmail(c)
  BY <1>2, <1>3, <1>5, <1>11 DEF FindByEmail, Continue, Rows
<1>12. CASE Link(c)
  <2>1. job[c].user \in Users'
    BY <1>1, <1>2, <1>12 DEF Link, Continue, KnownAt
  <2>2. QED
    BY <1>3, <1>5, <1>12, <2>1 DEF Link, Continue
<1>13. CASE InsertOIDC(c)
  <2>1. SUFFICES ASSUME NEW u \in Ids, users' = [users EXCEPT ![u] = OIDCRow(job[c])],
                        StartSession(c, u)
                 PROVE  SessionMove(c)
    BY <1>3, <1>13 DEF InsertOIDC
  <2>2. OIDCRow(job[c]) # None
    <3>1. job[c].email \in Emails \cup {None} /\ job[c].arg \in Subjects
      BY <1>1, <1>13 DEF InsertOIDC, Continue, KnownAt, TypeOK, Job
    <3>2. QED
      BY <3>1, FreshRow, NoneAssumption DEF OIDCRow
  <2>3. QED
    BY <1>1, <1>5, <1>13, <2>1, <2>2 DEF InsertOIDC, Continue, Users, TypeOK
<1>14. QED
  BY <1>3, <1>6, <1>7, <1>8, <1>9, <1>10, <1>11, <1>12, <1>13
  DEF Turn, Welcome, Login, LoginMFA, SetupStart, SetTOTPSecret, SetupConfirm, ConfirmTOTP,
      MFADisable, DisableTOTP, ForgotPassword, ResendVerification, ResetPassword, CommitReset,
      VerifyEmail, CommitVerify

-----------------------------------------------------------------------------
LEMMA StillKnown ==
  ASSUME UsersMove, TokensMove, TypeOK, NEW d \in Browsers, KnownAt(d),
         stmt'[d] = stmt[d], job'[d] = job[d]
  PROVE  KnownAt(d)'
BY DEF KnownAt, UsersMove, TokensMove, TokensStay, TypeOK, Job

LEMMA GateStep ==
  ASSUME TypeOK, GateSeen, Note,
         \A d \in Browsers : JustRead(d) \/ (stmt'[d] = stmt[d] /\ job'[d] = job[d])
  PROVE  GateSeen' /\ gated' \in [Browsers -> SUBSET Ids]
<1>1. gated' \in [Browsers -> SUBSET Ids]
  BY DEF Note, TypeOK, Gated, Users
<1>2. ASSUME NEW d \in Browsers
      PROVE  /\ stmt'[d] = "idle" => gated'[d] = {}
             /\ stmt'[d] = "grant" /\ job'[d].user \in gated'[d] => RequireMFA(job'[d].row)
  <2>1. CASE stmt'[d] # "grant"
    BY <2>1 DEF Note
  <2>2. CASE stmt'[d] = "grant" /\ stmt[d] = "grant" /\ job'[d] = job[d]
    BY <2>2 DEF Note, GateSeen
  <2>3. CASE stmt'[d] = "grant" /\ JustRead(d)
    <3>1. gated'[d] \subseteq Gated
      BY <2>3 DEF Note, JustRead
    <3>2. QED
      BY <2>3, <3>1 DEF JustRead, Gated
  <2>4. QED
    BY <2>1, <2>2, <2>3
<1>3. QED
  BY <1>1, <1>2 DEF GateSeen, RequireMFA

-----------------------------------------------------------------------------
LEMMA InitInd == Init => IndInv
<1> SUFFICES ASSUME Init PROVE IndInv
  OBVIOUS
<1>1. TypeOK
  <2>1. users \in [Ids -> Account \cup {None}]
    <3>1. PICK u \in Ids, e \in Emails, p \in Passwords, s \in Secrets, on \in BOOLEAN :
            users = [i \in Ids |->
              IF i # u THEN None
              ELSE [NoAccount EXCEPT !.email = e, !.pass = p, !.enabled = on,
                                     !.secret = IF on THEN s ELSE None]]
      BY DEF Init
    <3>2. [NoAccount EXCEPT !.email = e, !.pass = p, !.enabled = on,
                            !.secret = IF on THEN s ELSE None] \in Account
      BY DEF NoAccount, Account
    <3>3. QED
      BY <3>1, <3>2
  <2>2. QED
    BY <2>1, BoundAssumption DEF Init, TypeOK, Session, Job, Unknown, Steps, MailToken
<1>2. Owned
  BY DEF Init, Owned
<1>3. (\A c \in Browsers : KnownAt(c)) /\ GateSeen
  BY DEF Init, KnownAt, GateSeen
<1>4. QED
  BY <1>1, <1>2, <1>3 DEF IndInv

LEMMA OwnedStep ==
  ASSUME Owned, UsersMove, TokensMove,
         \A d \in Browsers : SessionOwned(d)' \/ session'[d] = session[d]
  PROVE  Owned'
BY DEF Owned, UsersMove, TokensMove, TokensOwned, SessionOwned

LEMMA RequestStep ==
  ASSUME NEW c \in Browsers, Turn(c)
  PROVE  \/ arrivals' = arrivals
         \/ arrivals < MaxArrivals /\ arrivals' = arrivals + 1
<1>1. CASE Begin(c)
  BY <1>1 DEF Begin
<1>2. CASE \E step \in Steps : Continue(c, step)
  BY <1>2 DEF Continue
<1>3. CASE \/ Register(c) \/ Login(c) \/ LoginMFA(c) \/ Logout(c) \/ SetupStart(c)
           \/ SetupConfirm(c) \/ MFADisable(c) \/ ForgotPassword(c) \/ ResendVerification(c)
           \/ ResetPassword(c) \/ VerifyEmail(c) \/ CompleteOIDC(c)
  BY <1>1, <1>3 DEF Register, Login, LoginMFA, Logout, SetupStart, SetupConfirm, MFADisable,
                    ForgotPassword, ResendVerification, ResetPassword, VerifyEmail, CompleteOIDC
<1>4. CASE \/ Welcome(c) \/ Grant(c) \/ CompleteMFA(c) \/ SetTOTPSecret(c) \/ ConfirmTOTP(c)
           \/ DisableTOTP(c) \/ CommitReset(c) \/ CommitVerify(c) \/ FindByEmail(c)
           \/ Link(c) \/ InsertOIDC(c)
  BY <1>2, <1>4 DEF Steps, Welcome, Grant, CompleteMFA, SetTOTPSecret, ConfirmTOTP, DisableTOTP,
                    CommitReset, CommitVerify, FindByEmail, Link, InsertOIDC
<1>5. QED
  BY <1>3, <1>4 DEF Turn

LEMMA NextInd == IndInv /\ [Next]_vars => IndInv'
<1> SUFFICES ASSUME IndInv, [Next]_vars PROVE IndInv'
  OBVIOUS
<1>1. TypeOK /\ Owned /\ (\A c \in Browsers : KnownAt(c)) /\ GateSeen
  BY DEF IndInv
<1>2. CASE UNCHANGED vars
  BY <1>1, <1>2 DEF vars, IndInv, TypeOK, Owned, KnownAt, GateSeen, Users
<1>3. ASSUME NEW c \in Browsers, Turn(c), Note PROVE IndInv'
  <2>1. UsersMove
    BY <1>3, UsersStep
  <2>2. TokensMove
    BY <1>3, <2>1, TokensStep
  <2>3. JobMove(c) /\ SessionMove(c)
    BY <1>3, <2>1, <2>2, JobStep, SessionStep
  <2>4. arrivals' \in 0..MaxArrivals
    BY <1>1, <1>3, RequestStep, BoundAssumption DEF TypeOK
  <2>5. \A d \in Browsers : KnownAt(d)'
    BY <1>1, <2>1, <2>2, <2>3, StillKnown DEF JobMove
  <2>6. GateSeen' /\ gated' \in [Browsers -> SUBSET Ids]
    BY <1>1, <1>3, <2>3, GateStep DEF JobMove
  <2>7. Owned'
    BY <1>1, <2>1, <2>2, <2>3, OwnedStep DEF SessionMove
  <2>8. QED
    BY <2>1, <2>2, <2>3, <2>4, <2>5, <2>6, <2>7
    DEF IndInv, TypeOK, UsersMove, TokensMove, JobMove, SessionMove
<1>4. ASSUME UNCHANGED <<session, stmt, job, arrivals>>, Note, UsersMove, TokensMove
      PROVE  IndInv'
  <2>1. \A d \in Browsers : KnownAt(d)'
    BY <1>1, <1>4, StillKnown
  <2>2. GateSeen' /\ gated' \in [Browsers -> SUBSET Ids]
    BY <1>1, <1>4, GateStep
  <2>3. Owned'
    BY <1>1, <1>4, OwnedStep
  <2>4. QED
    BY <1>1, <1>4, <2>1, <2>2, <2>3 DEF IndInv, TypeOK, UsersMove, TokensMove
<1>5. ASSUME NEW t \in MailTokens, TokenExpires(t), Note PROVE IndInv'
  <2>1. UsersMove
    BY <1>1, <1>5 DEF TokenExpires, UsersMove, Users, TypeOK
  <2>2. TokensMove
    BY <1>1, <1>5, <2>1, ChangeMove DEF TokenExpires, Owned, TokensOwned
  <2>3. QED
    BY <1>4, <1>5, <2>1, <2>2 DEF TokenExpires
<1>6. ASSUME NEW u \in Ids, AdminDisableMFA(u), Note PROVE IndInv'
  <2>1. users[u] \in Account
    BY <1>1, <1>6 DEF AdminDisableMFA, Users, TypeOK
  <2>2. UsersMove
    BY <1>1, <1>6, <2>1, RowChange, NewRow DEF AdminDisableMFA, TypeOK
  <2>3. TokensMove
    BY <1>1, <1>6, <2>2
    DEF AdminDisableMFA, TokensMove, TokensStay, TokensOwned, UsersMove, TypeOK, Owned
  <2>4. QED
    BY <1>4, <1>6, <2>2, <2>3 DEF AdminDisableMFA
<1>7. QED
  BY <1>2, <1>3, <1>5, <1>6 DEF Next, Quiet

\* What a request has read, whom sessions and tokens belong to, and that Login
\* has seen MFA on for whoever has had it on since (IndInv), is inductive.
THEOREM SignInInvariance == Spec => []IndInv
<1>1. QED
  BY InitInd, NextInd, PTL DEF Spec

LEMMA SecondFactorStep ==
  ASSUME IndInv, [Next]_vars, NEW c \in Browsers,
         session'[c].user # session[c].user, session'[c].user \in gated[c]
  PROVE  stmt[c] \in {"complete", "byEmail", "link", "insert"}
<1>1. TypeOK /\ GateSeen
  BY DEF IndInv
<1>2. session'[c].user # None
  BY <1>1, NoneAssumption DEF TypeOK
<1>3. CASE session' = session
  BY <1>3
<1>4. ASSUME NEW d \in Browsers, Turn(d)
      PROVE  stmt[c] \in {"complete", "byEmail", "link", "insert"}
  <2>1. SessionMove(d)
    BY <1>4, UsersStep, SessionStep
  <2>2. SignedIn(c)
    BY <2>1 DEF SessionMove
  <2>3. QED
    BY <1>1, <1>2, <2>2 DEF SignedIn, GateSeen
<1>5. QED
  BY <1>3, <1>4 DEF Next, Quiet, TokenExpires, AdminDisableMFA, vars

\* Nobody gets past the MFA of an account with a password alone, whatever
\* happens between the reading of the account and the session.
THEOREM NoPasswordAlone == Spec => SecondFactor
<1>1. IndInv /\ [Next]_vars =>
        [\A c \in Browsers :
           LET u == session'[c].user
           IN  u # session[c].user /\ u \in gated[c] =>
                 stmt[c] \in {"complete", "byEmail", "link", "insert"}]_vars
  BY SecondFactorStep
<1>2. QED
  BY <1>1, SignInInvariance, PTL DEF Spec, SecondFactor

LEMMA SamePasswords ==
  ASSUME TypeOK, NEW v \in Ids, NEW row, users' = [users EXCEPT ![v] = row],
         v \in Users => row.pass = users[v].pass, NEW u \in Users
  PROVE  users'[u].pass = users[u].pass
BY DEF TypeOK, Users

LEMMA PasswordsStay ==
  ASSUME IndInv, NEW c \in Browsers, Turn(c), ~CommitReset(c), NEW u \in Users
  PROVE  users'[u].pass = users[u].pass
<1>1. TypeOK /\ KnownAt(c)
  BY DEF IndInv
<1>2. CASE users' = users
  BY <1>2
<1>3. CASE Register(c)
  BY <1>1, <1>2, <1>3, SamePasswords DEF Register
<1>4. CASE InsertOIDC(c)
  BY <1>1, <1>2, <1>4, SamePasswords DEF InsertOIDC
<1>5. ASSUME NEW v \in Users
      PROVE  v \in Ids /\ users[v] \in Account
  BY <1>1 DEF Users, TypeOK
<1>6. CASE SetTOTPSecret(c) \/ ConfirmTOTP(c) \/ DisableTOTP(c) \/ Link(c)
  <2>1. job[c].user \in Users
    BY <1>1, <1>6 DEF SetTOTPSecret, ConfirmTOTP, DisableTOTP, Link, Continue, KnownAt
  <2>2. QED
    BY <1>1, <1>2, <1>5, <1>6, <2>1, SamePasswords
    DEF SetTOTPSecret, ConfirmTOTP, DisableTOTP, Link, Account
<1>7. CASE CommitVerify(c)
  <2>1. job[c].user \in Users
    BY <1>1, <1>7 DEF CommitVerify, Continue, KnownAt, IndInv, Owned, TypeOK, Job
  <2>2. QED
    BY <1>1, <1>5, <1>7, <2>1, SamePasswords DEF CommitVerify, Account
<1>8. QED
  BY <1>2, <1>3, <1>4, <1>6, <1>7
  DEF Turn, Welcome, Login, Grant, LoginMFA, CompleteMFA, Logout, SetupStart, SetupConfirm,
      MFADisable, ForgotPassword, ResendVerification, ResetPassword, VerifyEmail,
      CompleteOIDC, FindByEmail

LEMMA PasswordStep ==
  ASSUME IndInv, [Next]_vars, NEW u \in Users, users'[u].pass # users[u].pass
  PROVE  \E t \in MailTokens : /\ minted[t] # None /\ minted[t].kind = "reset"
                               /\ minted[t].user = u /\ ~minted[t].used
                               /\ minted'[t].used
<1>1. TypeOK /\ users[u] \in Account
  BY DEF IndInv, TypeOK, Users
<1>2. ASSUME NEW c \in Browsers, CommitReset(c)
      PROVE  \E t \in MailTokens : /\ minted[t] # None /\ minted[t].kind = "reset"
                                   /\ minted[t].user = u /\ ~minted[t].used
                                   /\ minted'[t].used
  <2>1. /\ job[c].token \in MailTokens /\ minted[job[c].token] \in MailToken
        /\ minted[job[c].token] # None
        /\ minted[job[c].token].kind = "reset" /\ minted[job[c].token].user = job[c].user
    BY <1>1, <1>2 DEF CommitReset, Continue, IndInv, KnownAt, TypeOK, Job
  <2>2. /\ StillUnused(job[c].token)
        /\ users' = [users EXCEPT ![job[c].user].pass = job[c].arg]
        /\ minted' = [minted EXCEPT ![job[c].token].used = TRUE]
    BY <1>2 DEF CommitReset
  <2>3. job[c].user = u
    BY <1>1, <2>2 DEF TypeOK, Users
  <2>4. minted'[job[c].token].used
    BY <1>1, <2>1, <2>2 DEF TypeOK, MailToken
  <2>5. QED
    BY <2>1, <2>2, <2>3, <2>4 DEF StillUnused
<1>3. ASSUME NEW v \in Ids, AdminDisableMFA(v) PROVE FALSE
  <2>1. users[v] \in Account
    BY <1>1, <1>3 DEF AdminDisableMFA, Users, TypeOK
  <2>2. QED
    BY <1>1, <1>3, <2>1, SamePasswords DEF AdminDisableMFA, Account
<1>4. users' # users
  OBVIOUS
<1>5. QED
  BY <1>2, <1>3, <1>4, PasswordsStay DEF Next, Quiet, TokenExpires, vars

\* A password changes only by a reset that spends a token of the account that
\* nobody has used: each mailed token resets at most once.
THEOREM ResetsSpendTokens == Spec => PasswordNeedsToken
<1>1. IndInv /\ [Next]_vars =>
        [\A u \in Users : users'[u].pass # users[u].pass =>
           \E t \in MailTokens : /\ minted[t] # None /\ minted[t].kind = "reset"
                                 /\ minted[t].user = u /\ ~minted[t].used
                                 /\ minted'[t].used]_vars
  BY PasswordStep
<1>2. QED
  BY <1>1, SignInInvariance, PTL DEF Spec, PasswordNeedsToken
=============================================================================
