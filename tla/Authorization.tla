---------------------------- MODULE Authorization ----------------------------
(***************************************************************************)
(* Who may do what (internal/permissions, groups, tokens, middleware and   *)
(* api/authorize.go).  A request reads its token, the account, its groups, *)
(* the rules and the configuration in separate statements, while admins    *)
(* change each of them.                                                    *)
(***************************************************************************)
EXTENDS Naturals, Sequences, FiniteSets

CONSTANTS
  Accounts, Groups, Docs, Tokens, Clients, Absent,
  Rules,             \* the rules that admins write
  Scopes,            \* the scopes that tokens are given
  Needs,             \* what handlers ask for: sequences of a document and a level
  FileAnonymousRead, \* auth.allow_anonymous_read in the configuration file
  Bootstrap,         \* the account of STEELPAGE_BOOTSTRAP_ADMIN, or Absent
  MaxRequests        \* bound: requests of all clients together

Read == 1
Comment == 2
Write == 3
Levels == Read..Write
Roles == {"user", "admin"}

Need  == [doc : Docs, level : Levels]
Scope == [level : Levels, on : SUBSET Docs]
Rule  == [on : SUBSET Docs, type : {"anonymous", "authenticated", "role", "group", "user"},
          value : Roles \cup Groups \cup Accounts \cup {Absent}, level : Levels]
Token == [owner : Accounts, scopes : SUBSET Scopes, live : BOOLEAN]

ASSUME DataAssumption ==
  /\ Rules \subseteq Rule /\ Scopes \subseteq Scope /\ Needs \subseteq Seq(Need) \ {<<>>}
  /\ FileAnonymousRead \in BOOLEAN /\ Bootstrap \in Accounts \cup {Absent}
  /\ MaxRequests \in Nat
ASSUME AbsentAssumption ==
  /\ Absent \notin Accounts /\ Absent \notin Groups /\ Absent \notin Roles /\ Absent \notin Tokens
  /\ Absent \notin Token /\ \A scopes \in SUBSET Scopes : scopes # Absent

VARIABLES
  role,       \* role[u]: the role of u, Absent before u has signed up
  groups,     \* the groups there are
  member,     \* user_groups
  rules,      \* the table permissions
  tokens,     \* tokens[t]: the bearer token, Absent before it is minted
  anonRead,   \* auth.allow_anonymous_read, live
  pc,         \* pc[c]: the next statement of the request of c
  req,        \* req[c]: what c sends
  who,        \* who[c]: whom the middleware takes c for
  at,         \* at[c]: the need that is checked next
  granted,    \* granted[c]: the needs that have been allowed
  requests,   \* how many requests there have been
  seen        \* seen[c]: what c could have been allowed since its request began,
              \* and how many edits there were; no part of the program

access == <<role, groups, member, rules, tokens, anonRead>>
accessVars == <<access, pc, req, who, at, granted, requests, seen>>

Kinds == {"doc", "list", "admin", "token"}
Request == [kind : Kinds, needs : Seq(Need), token : Tokens \cup {Absent},
            session : Accounts \cup {Absent}]
Caller  == [user : Accounts \cup {Absent}, role : Roles \cup {Absent}, groups : SUBSET Groups,
            scopes : {Absent} \cup SUBSET Scopes]
Seen    == [could : SUBSET Need, admin : BOOLEAN, edits : 0..2]

Nobody  == [user |-> Absent, role |-> Absent, groups |-> {}, scopes |-> Absent]
Nothing == [kind |-> "doc", needs |-> <<>>, token |-> Absent, session |-> Absent]
Unseen  == [could |-> {}, admin |-> FALSE, edits |-> 0]

AccessTypeOK ==
  /\ role \in [Accounts -> Roles \cup {Absent}]
  /\ groups \subseteq Groups
  /\ member \subseteq Accounts \X groups
  /\ rules \subseteq Rules
  /\ tokens \in [Tokens -> Token \cup {Absent}]
  /\ anonRead \in BOOLEAN
  /\ pc \in [Clients -> {"idle", "user", "groups", "run", "default", "done"}]
  /\ req \in [Clients -> Request]
  /\ who \in [Clients -> Caller]
  /\ at \in [Clients -> Nat \ {0}]
  /\ granted \in [Clients -> SUBSET Nat]
  /\ requests \in 0..MaxRequests
  /\ seen \in [Clients -> Seen]

-----------------------------------------------------------------------------
(***************************************************************************)
(* The decision                                                            *)
(***************************************************************************)
AllowsAction(scopes, doc, level) == \E s \in scopes : s.level >= level /\ doc \in s.on

Effective(doc) == {r \in rules : doc \in r.on}

SubjectMatches(r, caller) ==
  \/ r.type = "anonymous"
  \/ /\ caller.user # Absent
     /\ \/ r.type = "authenticated"
        \/ r.type = "role" /\ caller.role = r.value
        \/ r.type = "group" /\ r.value \in caller.groups
        \/ r.type = "user" /\ caller.user = r.value

\* Check: some rule grants at least the level.
Allows(caller, doc, level) ==
  \E r \in Effective(doc) : SubjectMatches(r, caller) /\ r.level >= level

\* The defaults, where no rule mentions the document.
Default(caller, level) == (level = Read /\ anonRead) \/ caller.user # Absent

InScope(caller, doc, level) ==
  caller.scopes # Absent => AllowsAction(caller.scopes, doc, level)

\* authorize
Authorize(caller, doc, level) ==
  /\ InScope(caller, doc, level)
  /\ IF Effective(doc) # {} THEN Allows(caller, doc, level) ELSE Default(caller, level)

\* canRead, which filters the tree and the search results.
CanRead(caller, doc) ==
  IF Effective(doc) # {} THEN Allows(caller, doc, Read)
  ELSE FileAnonymousRead \/ caller.user # Absent

\* FindByPlaintext
Live(t) == t # Absent /\ tokens[t] # Absent /\ tokens[t].live

GroupsOf(u) == {g \in groups : <<u, g>> \in member}

\* Whom a request stands for: the owner of its token or else of its session.
Holder(r) ==
  IF Live(r.token)
    THEN [Nobody EXCEPT !.user = tokens[r.token].owner, !.scopes = tokens[r.token].scopes]
    ELSE [Nobody EXCEPT !.user = r.session]

-----------------------------------------------------------------------------
\* An installation with an admin, groups and rules.
AccessInit ==
  /\ \E a \in Accounts, others \in SUBSET Accounts :
       /\ role = [u \in Accounts |-> IF u = a THEN "admin"
                                    ELSE IF u \in others THEN "user" ELSE Absent]
       /\ member \in SUBSET ((others \cup {a}) \X Groups)
  /\ groups = Groups
  /\ rules \in SUBSET Rules
  /\ tokens = [t \in Tokens |-> Absent]
  /\ anonRead = FileAnonymousRead
  /\ pc = [c \in Clients |-> "idle"]
  /\ req = [c \in Clients |-> Nothing]
  /\ who = [c \in Clients |-> Nobody]
  /\ at = [c \in Clients |-> 1]
  /\ granted = [c \in Clients |-> {}]
  /\ requests = 0
  /\ seen = [c \in Clients |-> Unseen]

\* Identity, up to the look-up of the token.
Identify(c, r) ==
  /\ req' = [req EXCEPT ![c] = r]
  /\ who' = [who EXCEPT ![c] = Holder(r)]
  /\ pc' = [pc EXCEPT ![c] = IF Holder(r).user = Absent THEN "run" ELSE "user"]

\* A request arrives with its credentials.
Arrive(c) ==
  /\ pc[c] = "idle" /\ requests < MaxRequests
  /\ requests' = requests + 1
  /\ \E kind \in Kinds, needs \in Needs \cup {<<>>},
        t \in {v \in Tokens : tokens[v] # Absent} \cup {Absent},
        u \in {v \in Accounts : role[v] # Absent} \cup {Absent} :
       /\ needs = <<>> <=> kind \in {"admin", "token"}
       /\ kind = "list" => \A i \in DOMAIN needs : needs[i].level = Read
       /\ Identify(c, [kind |-> kind, needs |-> needs, token |-> t, session |-> u])
  /\ UNCHANGED <<access, at, granted>>

\* GetByID
ReadUser(c) ==
  /\ pc[c] = "user"
  /\ who' = [who EXCEPT ![c].role = role[who[c].user]]
  /\ pc' = [pc EXCEPT ![c] = "groups"]
  /\ UNCHANGED <<access, req, at, granted, requests>>

\* GroupsOf; without its answer the request goes on as if in no group.
ReadGroups(c) ==
  /\ pc[c] = "groups"
  /\ \E gs \in {GroupsOf(who[c].user), {}} : who' = [who EXCEPT ![c].groups = gs]
  /\ pc' = [pc EXCEPT ![c] = "run"]
  /\ UNCHANGED <<access, req, at, granted, requests>>

\* The request has been answered.
Answer(c) ==
  /\ pc' = [pc EXCEPT ![c] = "idle"]
  /\ req' = [req EXCEPT ![c] = Nothing]
  /\ who' = [who EXCEPT ![c] = Nobody]
  /\ at' = [at EXCEPT ![c] = 1]
  /\ granted' = [granted EXCEPT ![c] = {}]
  /\ UNCHANGED requests

-----------------------------------------------------------------------------
Asked(c) == req[c].needs[at[c]]

\* On to the next need, or to the work itself.
Advance(c) ==
  /\ at' = [at EXCEPT ![c] = @ + 1]
  /\ pc' = [pc EXCEPT ![c] = IF at[c] < Len(req[c].needs) THEN "run" ELSE "done"]
  /\ UNCHANGED <<req, who, requests>>

\* Faulty variant: one check for all that a request needs.
AllowWhole(c) ==
  /\ at' = [at EXCEPT ![c] = Len(req[c].needs)]
  /\ pc' = [pc EXCEPT ![c] = "done"]
  /\ granted' = [granted EXCEPT ![c] = DOMAIN req[c].needs]
  /\ UNCHANGED <<req, who, requests>>

Allow(c) == Advance(c) /\ granted' = [granted EXCEPT ![c] = @ \cup {at[c]}]

\* authorize reads the rules; scopes first.
Check(c) ==
  /\ pc[c] = "run" /\ req[c].kind = "doc"
  /\ LET doc == Asked(c).doc
         level == Asked(c).level
     IN  IF InScope(who[c], doc, level) /\ Effective(doc) = {}
           THEN /\ pc' = [pc EXCEPT ![c] = "default"]
                /\ UNCHANGED <<req, who, at, granted, requests>>
           ELSE IF InScope(who[c], doc, level) /\ Allows(who[c], doc, level)
                  THEN Allow(c)
                  ELSE Answer(c)
  /\ UNCHANGED access

\* No rule: the configuration decides.
CheckDefault(c) ==
  /\ pc[c] = "default"
  /\ IF Default(who[c], Asked(c).level) THEN Allow(c) ELSE Answer(c)
  /\ UNCHANGED access

\* Tree and Search drop the documents that the caller cannot read.
List(c) ==
  /\ pc[c] = "run" /\ req[c].kind = "list"
  /\ IF CanRead(who[c], Asked(c).doc) THEN Allow(c) ELSE Advance(c) /\ UNCHANGED granted
  /\ UNCHANGED access

Respond(c) ==
  /\ pc[c] = "done"
  /\ Answer(c)
  /\ UNCHANGED access

-----------------------------------------------------------------------------
(***************************************************************************)
(* What admins change                                                      *)
(***************************************************************************)
SetRole ==
  /\ \E u \in Accounts, r \in Roles :
       IF role[u] # Absent THEN role' = [role EXCEPT ![u] = r] ELSE UNCHANGED role
  /\ UNCHANGED <<groups, member, rules, tokens, anonRead>>

CreateGroup ==
  /\ \E g \in Groups : groups' = groups \cup {g}
  /\ UNCHANGED <<role, member, rules, tokens, anonRead>>

\* ON DELETE CASCADE; the rules that name the group stay.
DeleteGroup ==
  /\ \E g \in groups : /\ groups' = groups \ {g}
                       /\ member' = member \ (Accounts \X {g})
  /\ UNCHANGED <<role, rules, tokens, anonRead>>

AddMember ==
  /\ \E u \in Accounts, g \in groups : role[u] # Absent /\ member' = member \cup {<<u, g>>}
  /\ UNCHANGED <<role, groups, rules, tokens, anonRead>>

RemoveMember ==
  /\ \E u \in Accounts, g \in groups : member' = member \ {<<u, g>>}
  /\ UNCHANGED <<role, groups, rules, tokens, anonRead>>

CreateRule ==
  /\ \E r \in Rules : rules' = rules \cup {r}
  /\ UNCHANGED <<role, groups, member, tokens, anonRead>>

DeleteRule ==
  /\ \E r \in rules : rules' = rules \ {r}
  /\ UNCHANGED <<role, groups, member, tokens, anonRead>>

\* AdminConfigPatch
SetAnonymousRead ==
  /\ anonRead' \in BOOLEAN
  /\ UNCHANGED <<role, groups, member, rules, tokens>>

\* Faulty variant: anybody who is signed in is let through.
RequireAuth(c) == who[c].user # Absent

RequireAdmin(c) == who[c].role = "admin"

Administer(c) ==
  /\ pc[c] = "run" /\ req[c].kind = "admin"
  /\ \/ /\ RequireAdmin(c)
        /\ \/ SetRole \/ CreateGroup \/ DeleteGroup \/ AddMember \/ RemoveMember
           \/ CreateRule \/ DeleteRule \/ SetAnonymousRead
     \/ ~RequireAdmin(c) /\ UNCHANGED access
  /\ Answer(c)

-----------------------------------------------------------------------------
\* CreateMyToken needs a session.
MayMint(c) == who[c].user # Absent /\ who[c].scopes = Absent

CreateMyToken(c) ==
  /\ \E t \in Tokens, scopes \in SUBSET Scopes \ {{}} :
       /\ tokens[t] = Absent
       /\ tokens' = [tokens EXCEPT ![t] =
                       [owner |-> who[c].user, scopes |-> scopes, live |-> TRUE]]
  /\ UNCHANGED <<role, groups, member, rules, anonRead>>

\* ... WHERE id = ? AND user_id = ?
DeleteMyToken(c) ==
  /\ \E t \in Tokens :
       IF tokens[t] # Absent /\ tokens[t].owner = who[c].user
         THEN tokens' = [tokens EXCEPT ![t].live = FALSE]
         ELSE UNCHANGED tokens
  /\ UNCHANGED <<role, groups, member, rules, anonRead>>

ManageTokens(c) ==
  /\ pc[c] = "run" /\ req[c].kind = "token"
  /\ \/ MayMint(c) /\ CreateMyToken(c)
     \/ who[c].user # Absent /\ DeleteMyToken(c)
     \/ UNCHANGED access
  /\ Answer(c)

-----------------------------------------------------------------------------
Expire(t) ==
  /\ Live(t)
  /\ tokens' = [tokens EXCEPT ![t].live = FALSE]
  /\ UNCHANGED <<role, groups, member, rules, anonRead, pc, req, who, at, granted, requests>>

\* Registration (SignIn).
SignUp(u) ==
  /\ role[u] = Absent
  /\ role' = [role EXCEPT ![u] = "user"]
  /\ UNCHANGED <<groups, member, rules, tokens, anonRead, pc, req, who, at, granted, requests>>

\* bootstrapAdmin: an account that is not an admin any more is in the way.
BootstrapAdmin ==
  role' = IF /\ Bootstrap # Absent /\ role[Bootstrap] = Absent
             /\ \A u \in Accounts : role[u] # "admin"
            THEN [role EXCEPT ![Bootstrap] = "admin"]
            ELSE role

Restart ==
  /\ BootstrapAdmin
  /\ pc' = [c \in Clients |-> "idle"]
  /\ req' = [c \in Clients |-> Nothing]
  /\ who' = [c \in Clients |-> Nobody]
  /\ at' = [c \in Clients |-> 1]
  /\ granted' = [c \in Clients |-> {}]
  /\ UNCHANGED <<groups, member, rules, tokens, anonRead, requests>>

Step(c) ==
  \/ Arrive(c) \/ ReadUser(c) \/ ReadGroups(c)
  \/ Check(c) \/ CheckDefault(c) \/ List(c) \/ Respond(c)
  \/ Administer(c) \/ ManageTokens(c)

-----------------------------------------------------------------------------
\* What a request is entitled to if everything is read at once.
CallerNow(r) ==
  LET u == Holder(r).user
  IN  [user |-> u, scopes |-> Holder(r).scopes,
       role |-> IF u = Absent THEN Absent ELSE role[u],
       groups |-> IF u = Absent THEN {} ELSE GroupsOf(u)]

May(r, caller, n) ==
  IF r.kind = "list" THEN CanRead(caller, n.doc) ELSE Authorize(caller, n.doc, n.level)

EntitledAs(r, caller) == {n \in {r.needs[i] : i \in DOMAIN r.needs} : May(r, caller, n)}

Entitled(r) == EntitledAs(r, CallerNow(r))

IsAdmin(u) == u # Absent /\ role[u] = "admin"

Watch ==
  seen' = [c \in Clients |->
    IF pc'[c] = "idle" THEN Unseen
    ELSE [could |-> seen[c].could \cup Entitled(req[c])',
          admin |-> seen[c].admin \/ IsAdmin(who[c].user)',
          edits |-> IF access' = access \/ seen[c].edits = 2 THEN seen[c].edits
                    ELSE seen[c].edits + 1]]

AllAnswered == requests = MaxRequests /\ (\A c \in Clients : pc[c] = "idle") /\ UNCHANGED accessVars

AccessNext ==
  \/ /\ \/ \E c \in Clients : Step(c)
        \/ \E t \in Tokens : Expire(t)
        \/ \E u \in Accounts : SignUp(u)
        \/ Restart
     /\ Watch
  \/ AllAnswered

AccessSpec == AccessInit /\ [][AccessNext]_accessVars

-----------------------------------------------------------------------------
(***************************************************************************)
(* Properties                                                              *)
(***************************************************************************)
\* A request that at most one edit overlaps is allowed nothing but what it was
\* entitled to before or after the edit, although it reads token, account,
\* groups and rules one after the other.
DecisionIsCurrent ==
  \A c \in Clients : seen[c].edits <= 1 =>
    \A i \in granted[c] : req[c].needs[i] \in seen[c].could

\* Rules, groups, configuration and the roles of existing accounts are changed
\* for an account that has been an admin since the request began; a new account
\* starts as an admin only where there is none ("If no admin exists",
\* main.go:182).
EditsByAdmins ==
  [][\/ /\ UNCHANGED <<groups, member, rules, anonRead>>
        /\ \A u \in Accounts : role'[u] # role[u] =>
             /\ role[u] = Absent
             /\ role'[u] = "admin" => \A v \in Accounts : role[v] # "admin"
     \/ \E c \in Clients : pc[c] = "run" /\ req[c].kind = "admin" /\ seen[c].admin]_accessVars

\* "Token-authenticated callers can't mint new tokens" (me_tokens.go:46).
MintedInSession ==
  [][\A t \in Tokens : tokens[t] = Absent /\ tokens'[t] # Absent =>
       \E c \in Clients : pc[c] = "run" /\ req[c].session = tokens'[t].owner]_accessVars

\* Everybody there is, with a session, with a token of any scopes, or neither.
Callers ==
  {[user |-> p[1], role |-> role[p[1]], groups |-> GroupsOf(p[1]), scopes |-> p[2]] :
     p \in {u \in Accounts : role[u] # Absent} \X ({Absent} \cup SUBSET Scopes)}
  \cup {Nobody}

\* "Permissions imply lower ones (write > comment > read)" (README.md:20), with
\* rules, defaults and scopes of tokens alike.
LevelsNest ==
  \A caller \in Callers, doc \in Docs, level \in Levels : Authorize(caller, doc, level) =>
    \A lower \in Read..level : Authorize(caller, doc, lower)

\* Everybody who may ask for a list, with what there is of sessions and tokens.
Credentials ==
  [kind : {"list"}, needs : {<<>>}, token : {t \in Tokens : tokens[t] # Absent} \cup {Absent},
   session : {u \in Accounts : role[u] # Absent} \cup {Absent}]

\* canRead, which filters tree and search, "mirrors `authorize`" (tree.go:30).
\* It does not: scopes of tokens and the live allow_anonymous_read are left out.
ListsMirror ==
  \A r \in Credentials, doc \in Docs :
    CanRead(CallerNow(r), doc) <=> Authorize(CallerNow(r), doc, Read)

-----------------------------------------------------------------------------
(***************************************************************************)
(* The inductive invariant behind these                                    *)
(***************************************************************************)
\* The caller as the request will take it to be if nothing changes any more.
Believed(c) ==
  LET u == who[c].user
  IN  [user |-> u, scopes |-> who[c].scopes,
       role |-> IF pc[c] = "user" THEN role[u] ELSE who[c].role,
       groups |-> IF pc[c] \in {"user", "groups"} THEN GroupsOf(u) ELSE who[c].groups]

\* What a request has read so far.
Identified(c) ==
  /\ pc[c] \in {"user", "groups"} => who[c].user \in Accounts
  /\ pc[c] # "idle" /\ who[c].scopes = Absent => who[c].user = req[c].session
  /\ pc[c] = "idle" => at[c] = 1 /\ granted[c] = {} /\ seen[c] = Unseen
  /\ pc[c] # "idle" /\ who[c].role = "admin" => seen[c].admin
  /\ pc[c] \in {"user", "groups", "run"} /\ req[c].kind \in {"doc", "list"} =>
       at[c] \in DOMAIN req[c].needs
  /\ pc[c] = "default" => req[c].kind = "doc" /\ at[c] \in DOMAIN req[c].needs

\* Before the first edit it goes by what holds, but for groups it could not read.
Fresh(c) ==
  pc[c] # "idle" /\ seen[c].edits = 0 =>
    /\ Believed(c) \in {CallerNow(req[c]), [CallerNow(req[c]) EXCEPT !.groups = {}]}
    /\ pc[c] = "default" => /\ Effective(Asked(c).doc) = {}
                            /\ InScope(who[c], Asked(c).doc, Asked(c).level)

\* Up to the first edit it will be allowed only what it is, or was, entitled to.
Sound(c) ==
  pc[c] # "idle" /\ seen[c].edits <= 1 =>
    /\ EntitledAs(req[c], Believed(c)) \subseteq seen[c].could
    /\ pc[c] = "default" /\ Default(who[c], Asked(c).level) => Asked(c) \in seen[c].could
    /\ \A i \in granted[c] : req[c].needs[i] \in seen[c].could

AccessInv == AccessTypeOK /\ \A c \in Clients : Identified(c) /\ Fresh(c) /\ Sound(c)
=============================================================================
