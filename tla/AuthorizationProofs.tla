------------------------ MODULE AuthorizationProofs ------------------------
(***************************************************************************)
(* Proofs about Authorization for any accounts, groups, rules, scopes,     *)
(* tokens, documents and requests.                                         *)
(***************************************************************************)
EXTENDS Authorization, TLAPS

-----------------------------------------------------------------------------
(***************************************************************************)
(* The decision                                                            *)
(***************************************************************************)
\* More groups never take anything away: every rule grants.
LEMMA GroupsOnlyAdd ==
  ASSUME NEW r, NEW k, k \in Caller
  PROVE  EntitledAs(r, [k EXCEPT !.groups = {}]) \subseteq EntitledAs(r, k)
<1> DEFINE less == [k EXCEPT !.groups = {}]
<1>1. /\ less.user = k.user /\ less.role = k.role /\ less.scopes = k.scopes
      /\ less.groups = {}
  BY DEF Caller
<1> HIDE DEF less
<1>2. ASSUME NEW rule, SubjectMatches(rule, less) PROVE SubjectMatches(rule, k)
  BY <1>1, <1>2 DEF SubjectMatches
<1>3. ASSUME NEW doc, NEW level, Allows(less, doc, level) PROVE Allows(k, doc, level)
  BY <1>2, <1>3 DEF Allows
<1>4. ASSUME NEW doc, CanRead(less, doc) PROVE CanRead(k, doc)
  BY <1>1, <1>3, <1>4 DEF CanRead
<1>5. ASSUME NEW doc, NEW level, Authorize(less, doc, level) PROVE Authorize(k, doc, level)
  BY <1>1, <1>3, <1>5 DEF Authorize, InScope, Default
<1>6. ASSUME NEW n, May(r, less, n) PROVE May(r, k, n)
  BY <1>4, <1>5, <1>6 DEF May
<1>7. EntitledAs(r, less) \subseteq EntitledAs(r, k)
  BY <1>6 DEF EntitledAs
<1>8. QED
  BY <1>7 DEF less

\* What the decision is for a need depends on rules and configuration only.
LEMMA DecisionStays ==
  ASSUME UNCHANGED <<rules, anonRead>>, NEW c,
         req'[c] = req[c], Believed(c)' = Believed(c)
  PROVE  EntitledAs(req[c], Believed(c))' = EntitledAs(req[c], Believed(c))
BY DEF EntitledAs, May, CanRead, Authorize, Allows, Effective, Default, InScope

\* Whoever is granted a level of a document is granted the levels below.
THEOREM LevelsAreNested == AccessTypeOK => LevelsNest
<1> SUFFICES ASSUME AccessTypeOK, NEW k \in Callers, NEW doc \in Docs, NEW level \in Levels,
                    Authorize(k, doc, level), NEW lower \in Read..level
             PROVE  Authorize(k, doc, lower)
  BY DEF LevelsNest
<1>1. lower \in Nat /\ level \in Nat /\ lower <= level
  BY DEF Levels, Read, Write
<1>2. \A r \in rules : r.level \in Nat
  <2>1. ASSUME NEW r \in rules PROVE r \in Rule
    BY DataAssumption DEF AccessTypeOK
  <2>2. \A n \in Levels : n \in Nat
    BY DEF Levels, Read, Write
  <2>3. QED
    BY <2>1, <2>2 DEF Rule
<1>3. \A s \in Scopes : s.level \in Nat
  BY DataAssumption DEF Scope, Levels, Read, Write
<1>4. k.scopes # Absent => k.scopes \subseteq Scopes
  <2>1. CASE k = Nobody
    BY <2>1 DEF Nobody
  <2>2. CASE k # Nobody
    <3>1. PICK p \in {u \in Accounts : role[u] # Absent} \X ({Absent} \cup SUBSET Scopes) :
            k = [user |-> p[1], role |-> role[p[1]], groups |-> GroupsOf(p[1]),
                 scopes |-> p[2]]
      BY <2>2 DEF Callers
    <3>2. k.scopes = p[2] /\ p[2] \in {Absent} \cup SUBSET Scopes
      BY <3>1
    <3>3. QED
      BY <3>2
  <2>3. QED
    BY <2>1, <2>2
<1>5. InScope(k, doc, lower)
  BY <1>1, <1>3, <1>4 DEF Authorize, InScope, AllowsAction
<1>6. Allows(k, doc, level) => Allows(k, doc, lower)
  BY <1>1, <1>2 DEF Allows, Effective
<1>7. Default(k, level) => Default(k, lower)
  BY <1>1 DEF Default, Levels, Read, Write
<1>8. QED
  BY <1>5, <1>6, <1>7 DEF Authorize

-----------------------------------------------------------------------------
(***************************************************************************)
(* Types                                                                   *)
(***************************************************************************)
AccessOK ==
  /\ role \in [Accounts -> Roles \cup {Absent}]
  /\ groups \subseteq Groups
  /\ member \subseteq Accounts \X groups
  /\ rules \subseteq Rules
  /\ tokens \in [Tokens -> Token \cup {Absent}]
  /\ anonRead \in BOOLEAN

RequestsOK ==
  /\ pc \in [Clients -> {"idle", "user", "groups", "run", "default", "done"}]
  /\ req \in [Clients -> Request]
  /\ who \in [Clients -> Caller]
  /\ at \in [Clients -> Nat \ {0}]
  /\ granted \in [Clients -> SUBSET Nat]
  /\ requests \in 0..MaxRequests

LEMMA Constants ==
  /\ Nothing \in Request /\ Nobody \in Caller /\ Unseen \in Seen
  /\ Nothing.kind = "doc" /\ Nobody.scopes = Absent /\ Nobody.role = Absent
<1>1. Nothing \in Request
  BY DEF Nothing, Request, Kinds
<1>2. Nobody \in Caller
  BY DEF Nobody, Caller
<1>3. Unseen \in Seen
  BY DEF Unseen, Seen
<1>4. QED
  BY <1>1, <1>2, <1>3 DEF Nothing, Nobody

\* Whoever the middleware finds: the owner of the token or of the session.
LEMMA HolderIs ==
  ASSUME AccessOK, NEW r \in Request
  PROVE  /\ Holder(r) \in Caller
         /\ Holder(r).role = Absent /\ Holder(r).groups = {}
         /\ Holder(r).scopes = Absent => Holder(r).user = r.session
<1>1. CASE Live(r.token)
  <2>1. r.token \in Tokens /\ tokens[r.token] \in Token
    BY <1>1 DEF Live, AccessOK, Request
  <2>2. tokens[r.token].owner \in Accounts /\ tokens[r.token].scopes \in SUBSET Scopes
    BY <2>1 DEF Token
  <2>3. tokens[r.token].scopes # Absent
    BY <2>2, AbsentAssumption
  <2>4. QED
    BY <1>1, <2>2, <2>3 DEF Holder, Nobody, Caller
<1>2. CASE ~Live(r.token)
  BY <1>2 DEF Holder, Nobody, Caller, Request
<1>3. QED
  BY <1>1, <1>2

LEMMA CallerNowIs ==
  ASSUME AccessOK, NEW r \in Request
  PROVE  /\ CallerNow(r) \in Caller
         /\ CallerNow(r).user = Holder(r).user /\ CallerNow(r).scopes = Holder(r).scopes
<1>1. CASE Holder(r).user = Absent
  BY <1>1, HolderIs DEF CallerNow, Caller
<1>2. CASE Holder(r).user # Absent
  <2>1. Holder(r) \in Caller /\ Holder(r).user \in Accounts
    BY <1>2, HolderIs DEF Caller
  <2>2. role[Holder(r).user] \in Roles \cup {Absent} /\ GroupsOf(Holder(r).user) \subseteq Groups
    BY <2>1 DEF AccessOK, GroupsOf
  <2>3. QED
    BY <1>2, <2>1, <2>2 DEF CallerNow, Caller
<1>3. QED
  BY <1>1, <1>2

LEMMA EditTypes ==
  ASSUME AccessOK,
         \/ SetRole \/ CreateGroup \/ DeleteGroup \/ AddMember \/ RemoveMember
         \/ CreateRule \/ DeleteRule \/ SetAnonymousRead
  PROVE  AccessOK'
<1>1. CASE SetRole
  BY <1>1 DEF SetRole, AccessOK
<1>2. CASE CreateGroup
  BY <1>2 DEF CreateGroup, AccessOK
<1>3. CASE DeleteGroup
  BY <1>3 DEF DeleteGroup, AccessOK
<1>4. CASE AddMember
  BY <1>4 DEF AddMember, AccessOK
<1>5. CASE RemoveMember
  BY <1>5 DEF RemoveMember, AccessOK
<1>6. CASE CreateRule \/ DeleteRule \/ SetAnonymousRead
  BY <1>6 DEF CreateRule, DeleteRule, SetAnonymousRead, AccessOK
<1>7. QED
  BY <1>1, <1>2, <1>3, <1>4, <1>5, <1>6

LEMMA ManageTypes ==
  ASSUME AccessOK, RequestsOK, NEW c \in Clients, ManageTokens(c)
  PROVE  AccessOK'
<1>1. CASE MayMint(c) /\ CreateMyToken(c)
  <2>1. who[c].user \in Accounts
    BY <1>1 DEF MayMint, RequestsOK, Caller
  <2>2. PICK t \in Tokens, scopes \in SUBSET Scopes \ {{}} :
          tokens' = [tokens EXCEPT ![t] = [owner |-> who[c].user, scopes |-> scopes,
                                           live |-> TRUE]]
    BY <1>1 DEF CreateMyToken
  <2>3. [owner |-> who[c].user, scopes |-> scopes, live |-> TRUE] \in Token
    BY <2>1 DEF Token
  <2>4. tokens' \in [Tokens -> Token \cup {Absent}]
    BY <2>2, <2>3 DEF AccessOK
  <2>5. QED
    BY <1>1, <2>4 DEF CreateMyToken, AccessOK
<1>2. CASE DeleteMyToken(c)
  BY <1>2 DEF DeleteMyToken, AccessOK, Token
<1>3. CASE UNCHANGED access
  BY <1>3 DEF access, AccessOK
<1>4. QED
  BY <1>1, <1>2, <1>3 DEF ManageTokens

LEMMA AnswerTypes ==
  ASSUME RequestsOK, NEW c \in Clients, Answer(c)
  PROVE  RequestsOK'
BY Constants DEF Answer, RequestsOK

LEMMA AdvanceTypes ==
  ASSUME RequestsOK, NEW c \in Clients, Advance(c),
         granted' = granted \/ granted' = [granted EXCEPT ![c] = @ \cup {at[c]}]
  PROVE  RequestsOK'
BY DEF Advance, RequestsOK

\* What arrives is a request with something to check, or none to be checked.
LEMMA Arriving ==
  ASSUME NEW c \in Clients, Arrive(c)
  PROVE  \E r \in Request : /\ Identify(c, r)
                            /\ r.kind \in {"doc", "list"} => 1 \in DOMAIN r.needs
<1>1. PICK kind \in Kinds, needs \in Needs \cup {<<>>},
           t \in {v \in Tokens : tokens[v] # Absent} \cup {Absent},
           u \in {v \in Accounts : role[v] # Absent} \cup {Absent} :
        /\ needs = <<>> <=> kind \in {"admin", "token"}
        /\ Identify(c, [kind |-> kind, needs |-> needs, token |-> t, session |-> u])
  BY Zenon DEF Arrive
<1>2. needs \in Seq(Need)
  <2>1. <<>> \in Seq(Need)
    OBVIOUS
  <2>2. Needs \subseteq Seq(Need)
    BY DataAssumption
  <2>3. QED
    BY <2>1, <2>2
<1>3. kind \in {"doc", "list"} => 1 \in DOMAIN needs
  BY <1>1, <1>2
<1>4. [kind |-> kind, needs |-> needs, token |-> t, session |-> u] \in Request
  BY <1>2 DEF Request
<1>5. QED
  BY <1>1, <1>3, <1>4

LEMMA ArriveTypes ==
  ASSUME AccessOK, RequestsOK, NEW c \in Clients, Arrive(c)
  PROVE  RequestsOK'
<1>1. PICK r \in Request : Identify(c, r)
  BY Arriving
<1>2. Holder(r) \in Caller
  BY HolderIs
<1>3. requests' \in 0..MaxRequests
  BY DataAssumption DEF Arrive, RequestsOK
<1>4. QED
  BY <1>1, <1>2, <1>3 DEF Identify, Arrive, RequestsOK

LEMMA StepTypes ==
  ASSUME AccessOK, RequestsOK, NEW c \in Clients, Identified(c), Step(c)
  PROVE  AccessOK' /\ RequestsOK'
<1>1. ASSUME UNCHANGED access PROVE AccessOK'
  BY <1>1 DEF access, AccessOK
<1>2. CASE Arrive(c)
  BY <1>1, <1>2, ArriveTypes DEF Arrive
<1>3. CASE ReadUser(c)
  <2>1. role[who[c].user] \in Roles \cup {Absent}
    BY <1>3 DEF ReadUser, Identified, AccessOK
  <2>2. RequestsOK'
    BY <1>3, <2>1 DEF ReadUser, RequestsOK, Caller
  <2>3. QED
    BY <1>1, <1>3, <2>2 DEF ReadUser
<1>4. CASE ReadGroups(c)
  <2>1. GroupsOf(who[c].user) \subseteq Groups
    BY DEF GroupsOf, AccessOK
  <2>2. RequestsOK'
    BY <1>4, <2>1 DEF ReadGroups, RequestsOK, Caller
  <2>3. QED
    BY <1>1, <1>4, <2>2 DEF ReadGroups
<1>5. CASE Check(c)
  <2>1. CASE Allow(c)
    BY <1>1, <1>5, <2>1, AdvanceTypes DEF Check, Allow
  <2>2. CASE Answer(c)
    BY <1>1, <1>5, <2>2, AnswerTypes DEF Check
  <2>3. CASE /\ pc' = [pc EXCEPT ![c] = "default"]
             /\ UNCHANGED <<req, who, at, granted, requests>>
    BY <1>1, <1>5, <2>3 DEF Check, RequestsOK
  <2>4. QED
    BY <1>5, <2>1, <2>2, <2>3 DEF Check
<1>6. CASE CheckDefault(c)
  BY <1>1, <1>6, AdvanceTypes, AnswerTypes DEF CheckDefault, Allow
<1>7. CASE List(c)
  BY <1>1, <1>7, AdvanceTypes DEF List, Allow
<1>8. CASE Respond(c)
  BY <1>1, <1>8, AnswerTypes DEF Respond
<1>9. CASE Administer(c)
  BY <1>1, <1>9, AnswerTypes, EditTypes DEF Administer
<1>10. CASE ManageTokens(c)
  BY <1>10, AnswerTypes, ManageTypes DEF ManageTokens
<1>11. QED
  BY <1>2, <1>3, <1>4, <1>5, <1>6, <1>7, <1>8, <1>9, <1>10 DEF Step

LEMMA ExpireTypes ==
  ASSUME AccessOK, RequestsOK, NEW t \in Tokens, Expire(t)
  PROVE  AccessOK' /\ RequestsOK'
<1>1. tokens' \in [Tokens -> Token \cup {Absent}]
  BY DEF Expire, Live, AccessOK, Token
<1>2. QED
  BY <1>1 DEF Expire, AccessOK, RequestsOK

LEMMA SignUpTypes ==
  ASSUME AccessOK, RequestsOK, NEW u \in Accounts, SignUp(u)
  PROVE  AccessOK' /\ RequestsOK'
BY DEF SignUp, AccessOK, RequestsOK, Roles

LEMMA RestartTypes ==
  ASSUME AccessOK, RequestsOK, Restart
  PROVE  AccessOK' /\ RequestsOK'
<1>1. role' \in [Accounts -> Roles \cup {Absent}]
  BY DataAssumption DEF Restart, BootstrapAdmin, AccessOK, Roles
<1>2. QED
  BY <1>1, Constants DEF Restart, AccessOK, RequestsOK

LEMMA WatchTypes ==
  ASSUME seen \in [Clients -> Seen], RequestsOK', Watch
  PROVE  seen' \in [Clients -> Seen]
<1>1. ASSUME NEW c \in Clients PROVE Entitled(req[c])' \subseteq Need
  <2>1. req'[c].needs \in Seq(Need)
    BY DEF RequestsOK, Request
  <2>2. \A i \in DOMAIN req'[c].needs : req'[c].needs[i] \in Need
    BY <2>1
  <2>3. QED
    BY <2>2 DEF Entitled, EntitledAs
<1>2. ASSUME NEW c \in Clients
      PROVE  [could |-> seen[c].could \cup Entitled(req[c])',
              admin |-> seen[c].admin \/ IsAdmin(who[c].user)',
              edits |-> IF access' = access \/ seen[c].edits = 2 THEN seen[c].edits
                        ELSE seen[c].edits + 1] \in Seen
  <2>1. seen[c].could \cup Entitled(req[c])' \subseteq Need
    BY <1>1 DEF Seen
  <2>2. (seen[c].admin \/ IsAdmin(who[c].user)') \in BOOLEAN
    OBVIOUS
  <2>3. (IF access' = access \/ seen[c].edits = 2 THEN seen[c].edits
         ELSE seen[c].edits + 1) \in 0..2
    BY DEF Seen
  <2>4. QED
    BY <2>1, <2>2, <2>3 DEF Seen
<1>3. QED
  BY <1>2, Constants DEF Watch

-----------------------------------------------------------------------------
(***************************************************************************)
(* What a request knows                                                    *)
(***************************************************************************)
Ind(c) == Identified(c) /\ Fresh(c) /\ Sound(c)

Still(c) == /\ pc'[c] = pc[c] /\ req'[c] = req[c] /\ who'[c] = who[c]
            /\ at'[c] = at[c] /\ granted'[c] = granted[c]

LEMMA Watched ==
  ASSUME NEW c \in Clients, Watch
  PROVE  /\ pc'[c] = "idle" => seen'[c] = Unseen
         /\ pc'[c] # "idle" =>
              /\ seen'[c].could = seen[c].could \cup Entitled(req[c])'
              /\ seen'[c].admin = (seen[c].admin \/ IsAdmin(who[c].user)')
              /\ seen'[c].edits = IF access' = access \/ seen[c].edits = 2
                                     THEN seen[c].edits ELSE seen[c].edits + 1
BY DEF Watch

LEMMA IdleInd ==
  ASSUME NEW c \in Clients, pc'[c] = "idle", at'[c] = 1, granted'[c] = {}, Watch
  PROVE  Ind(c)'
BY Watched DEF Ind, Identified, Fresh, Sound

\* What a request without its groups is entitled to, it is entitled to.
LEMMA FreshEntitled ==
  ASSUME NEW r, NEW k, NEW n, k \in Caller, n \in {k, [k EXCEPT !.groups = {}]}
  PROVE  EntitledAs(r, n) \subseteq EntitledAs(r, k)
BY GroupsOnlyAdd

LEMMA BelievedStays ==
  ASSUME NEW c, Still(c), UNCHANGED <<role, groups, member>>
  PROVE  Believed(c)' = Believed(c)
BY DEF Believed, Still, GroupsOf

LEMMA CallerStays ==
  ASSUME NEW c, Still(c), UNCHANGED <<role, groups, member, tokens>>
  PROVE  CallerNow(req[c])' = CallerNow(req[c])
BY DEF CallerNow, Still, GroupsOf, Holder, Live

LEMMA IdentifiedStays ==
  ASSUME NEW c \in Clients, Identified(c), Still(c), Watch
  PROVE  Identified(c)'
BY Watched DEF Identified, Still

\* A request that waits while nothing is edited.
LEMMA WaitInd ==
  ASSUME NEW c \in Clients, seen \in [Clients -> Seen], Ind(c), Still(c), UNCHANGED access, Watch
  PROVE  Ind(c)'
<1>1. UNCHANGED <<role, groups, member, rules, tokens, anonRead>>
  BY DEF access
<1>2. Believed(c)' = Believed(c) /\ CallerNow(req[c])' = CallerNow(req[c])
  BY <1>1, BelievedStays, CallerStays
<1>3. EntitledAs(req[c], Believed(c))' = EntitledAs(req[c], Believed(c))
  BY <1>1, <1>2, DecisionStays DEF Still
<1>4. CASE pc[c] = "idle"
  BY <1>4, IdleInd DEF Ind, Identified, Still
<1>5. CASE pc[c] # "idle"
  <2>1. /\ seen'[c].edits = seen[c].edits
        /\ seen[c].could \subseteq seen'[c].could
    BY <1>5, Watched DEF Still
  <2>2. Fresh(c)'
    BY <1>1, <1>2, <2>1 DEF Ind, Fresh, Still, Effective, InScope, Asked
  <2>3. Sound(c)'
    BY <1>1, <1>2, <1>3, <2>1 DEF Ind, Sound, Still, Default, Asked
  <2>4. QED
    BY <2>2, <2>3, IdentifiedStays DEF Ind
<1>6. QED
  BY <1>4, <1>5

\* In every state, whatever group memberships have been missed.
FewerGroups(c) ==
  /\ CallerNow(req[c]) \in Caller
  /\ Believed(c) \in {CallerNow(req[c]), [CallerNow(req[c]) EXCEPT !.groups = {}]}
  => EntitledAs(req[c], Believed(c)) \subseteq Entitled(req[c])

LEMMA FewerNow == \A c : FewerGroups(c)
BY FreshEntitled DEF FewerGroups, Entitled

LEMMA FewerNext == (\A c : FewerGroups(c))'
BY FewerNow, PTL

\* A request that has not read the edited data yet will go by the new ones.
LEMMA ReadsNew ==
  ASSUME AccessOK, RequestsOK, NEW c \in Clients, Identified(c), Still(c), UNCHANGED tokens,
         Believed(c) \in {CallerNow(req[c]), [CallerNow(req[c]) EXCEPT !.groups = {}]},
         \/ pc[c] \in {"user", "groups"} /\ UNCHANGED role
         \/ pc[c] = "user"
  PROVE  Believed(c)' = CallerNow(req[c])'
<1> DEFINE h == Holder(req[c])
           u == who[c].user
<1>1. /\ req[c] \in Request /\ u \in Accounts /\ u # Absent
      /\ CallerNow(req[c]) \in Caller
  BY CallerNowIs, AbsentAssumption DEF Identified, RequestsOK
<1>2. /\ Believed(c).user = CallerNow(req[c]).user
      /\ Believed(c).scopes = CallerNow(req[c]).scopes
      /\ Believed(c).role = CallerNow(req[c]).role
  BY <1>1 DEF Caller
<1>3. h.user = u /\ h.scopes = who[c].scopes
  BY <1>2 DEF Believed, CallerNow
<1>4. pc[c] # "user" => who[c].role = role[u]
  BY <1>1, <1>2, <1>3 DEF Believed, CallerNow
<1>5. Holder(req[c])' = h
  BY DEF Still, Holder, Live
<1>6. CallerNow(req[c])' = [user |-> u, scopes |-> h.scopes, role |-> role'[u],
                            groups |-> GroupsOf(u)']
  BY <1>1, <1>3, <1>5 DEF CallerNow, GroupsOf, Still
<1>7. Believed(c)' = [user |-> u, scopes |-> who[c].scopes, role |-> role'[u],
                      groups |-> GroupsOf(u)']
  BY <1>4 DEF Believed, Still, GroupsOf
<1>8. QED
  BY <1>3, <1>6, <1>7

\* One thing is edited at a time.
OneEdit ==
  \/ UNCHANGED <<role, groups, member, tokens, anonRead>>
  \/ UNCHANGED <<role, groups, member, tokens, rules>>
  \/ UNCHANGED <<role, groups, member, rules, anonRead>>
  \/ UNCHANGED <<role, tokens, rules, anonRead>>
  \/ UNCHANGED <<groups, member, tokens, rules, anonRead>>

\* A request that waits while something is edited.  If it is the first edit, the
\* request goes on by what holds before or by what holds now.
LEMMA EditInd ==
  ASSUME AccessOK, RequestsOK, seen \in [Clients -> Seen],
         NEW c \in Clients, Ind(c), Still(c), OneEdit, Watch
  PROVE  Ind(c)'
<1>1. CASE access' = access
  BY <1>1, WaitInd
<1>2. CASE pc[c] = "idle"
  BY <1>2, IdleInd DEF Ind, Identified, Still
<1>3. CASE access' # access /\ pc[c] # "idle"
  <2>1. /\ seen'[c].edits = IF seen[c].edits = 2 THEN 2 ELSE seen[c].edits + 1
        /\ seen'[c].could = seen[c].could \cup Entitled(req[c])'
    BY <1>3, Watched DEF Still
  <2>2. seen[c].edits \in 0..2
    BY DEF Seen
  <2>3. Fresh(c)'
    BY <2>1, <2>2 DEF Fresh
  <2>4. SUFFICES ASSUME seen'[c].edits <= 1
                 PROVE  Sound(c)'
    BY <2>3, IdentifiedStays DEF Ind, Sound
  <2>5. seen[c].edits = 0
    BY <2>1, <2>2, <2>4
  <2>6. /\ Believed(c) \in {CallerNow(req[c]), [CallerNow(req[c]) EXCEPT !.groups = {}]}
        /\ pc[c] = "default" => /\ Effective(Asked(c).doc) = {}
                                /\ InScope(who[c], Asked(c).doc, Asked(c).level)
    BY <1>3, <2>5 DEF Ind, Fresh
  <2>7. CallerNow(req[c]) \in Caller
    BY CallerNowIs DEF RequestsOK
  <2>8. \A i \in granted[c] : req[c].needs[i] \in seen[c].could
    BY <1>3, <2>5 DEF Ind, Sound
  <2>9. EntitledAs(req[c], Believed(c)) \subseteq seen[c].could
    BY <1>3, <2>5 DEF Ind, Sound
  <2>10. pc[c] = "default" /\ Default(who[c], Asked(c).level) => Asked(c) \in seen[c].could
    BY <1>3, <2>5 DEF Ind, Sound
  <2>11. EntitledAs(req[c], Believed(c))' \subseteq seen'[c].could
    <3>1. CASE UNCHANGED <<role, groups, member, tokens>>
      <4>1. Believed(c)' = Believed(c) /\ CallerNow(req[c])' = CallerNow(req[c])
        BY <3>1, BelievedStays, CallerStays
      <4>2. EntitledAs(req[c], Believed(c))' \subseteq Entitled(req[c])'
        BY <2>6, <2>7, <4>1, FewerNext DEF FewerGroups
      <4>3. QED
        BY <2>1, <4>2
    <3>2. CASE UNCHANGED <<rules, anonRead>> /\ Believed(c)' = Believed(c)
      <4>1. EntitledAs(req[c], Believed(c))' = EntitledAs(req[c], Believed(c))
        BY <3>2, DecisionStays DEF Still
      <4>2. QED
        BY <2>1, <2>9, <4>1
    <3>3. CASE Believed(c)' = CallerNow(req[c])'
      <4>1. EntitledAs(req[c], Believed(c))' = Entitled(req[c])'
        BY <3>3 DEF Entitled, EntitledAs, May, CanRead, Authorize, Allows, Effective,
                    Default, InScope
      <4>2. QED
        BY <2>1, <4>1
    <3>4. CASE UNCHANGED <<role, tokens, rules, anonRead>>
      <4>1. CASE pc[c] \in {"user", "groups"}
        BY <2>6, <3>3, <3>4, <4>1, ReadsNew DEF Ind
      <4>2. CASE pc[c] \notin {"user", "groups"}
        BY <3>2, <3>4, <4>2 DEF Believed, Still
      <4>3. QED
        BY <4>1, <4>2
    <3>5. CASE UNCHANGED <<groups, member, tokens, rules, anonRead>>
      <4>1. CASE pc[c] = "user"
        BY <2>6, <3>3, <3>5, <4>1, ReadsNew DEF Ind
      <4>2. CASE pc[c] # "user"
        BY <3>2, <3>5, <4>2 DEF Believed, Still, GroupsOf
      <4>3. QED
        BY <4>1, <4>2
    <3>6. CASE UNCHANGED <<role, groups, member, rules, anonRead>>
      BY <3>2, <3>6, BelievedStays
    <3>7. QED
      BY <3>1, <3>4, <3>5, <3>6 DEF OneEdit
  <2>12. ASSUME pc[c] = "default", Default(who[c], Asked(c).level)'
         PROVE  Asked(c)' \in seen'[c].could
    <3>1. Asked(c)' = Asked(c)
      BY DEF Asked, Still
    <3>2. CASE UNCHANGED anonRead
      BY <2>1, <2>10, <2>12, <3>1, <3>2 DEF Default, Still
    <3>3. CASE UNCHANGED <<role, groups, member, tokens, rules>>
      <4>1. Believed(c)' = Believed(c) /\ Believed(c) = who[c]
        BY <2>12, <3>3, BelievedStays DEF Believed, RequestsOK, Caller
      <4>2. req[c].kind = "doc" /\ at[c] \in DOMAIN req[c].needs
        BY <2>12 DEF Ind, Identified
      <4>3. Authorize(who[c], Asked(c).doc, Asked(c).level)'
        BY <2>6, <2>12, <3>1, <3>3 DEF Authorize, Effective, InScope, Still
      <4>4. May(req[c], Believed(c), Asked(c))'
        BY <4>1, <4>2, <4>3 DEF May, Still, Authorize, InScope, Effective, Allows, Default
      <4>5. Asked(c)' \in EntitledAs(req[c], Believed(c))'
        BY <3>1, <4>2, <4>4 DEF EntitledAs, Asked, Still, May, CanRead, Authorize, InScope,
                                Effective, Allows, Default
      <4>6. QED
        BY <2>11, <4>5
    <3>4. QED
      BY <3>2, <3>3 DEF OneEdit
  <2>13. QED
    BY <2>1, <2>8, <2>11, <2>12 DEF Sound, Still
<1>4. QED
  BY <1>1, <1>2, <1>3

-----------------------------------------------------------------------------
(***************************************************************************)
(* The steps of a request                                                  *)
(***************************************************************************)
LEMMA AnswerInd ==
  ASSUME RequestsOK, NEW c \in Clients, Answer(c), Watch
  PROVE  Ind(c)'
BY IdleInd DEF Answer, RequestsOK

LEMMA ArriveInd ==
  ASSUME AccessOK, RequestsOK, NEW c \in Clients, Ind(c), Arrive(c), Watch
  PROVE  Ind(c)'
<1>1. PICK r \in Request : /\ Identify(c, r)
                           /\ r.kind \in {"doc", "list"} => 1 \in DOMAIN r.needs
  BY Arriving
<1>2. /\ req'[c] = r /\ who'[c] = Holder(r)
      /\ pc'[c] = IF Holder(r).user = Absent THEN "run" ELSE "user"
      /\ UNCHANGED <<access, at, granted>> /\ pc[c] = "idle"
  BY <1>1 DEF Identify, Arrive, RequestsOK
<1>3. UNCHANGED <<role, groups, member, rules, tokens, anonRead>>
  BY <1>2 DEF access
<1>4. seen[c] = Unseen /\ at[c] = 1 /\ granted[c] = {}
  BY <1>2 DEF Ind, Identified
<1>5. /\ Holder(r) \in Caller /\ Holder(r).role = Absent /\ Holder(r).groups = {}
      /\ Holder(r).scopes = Absent => Holder(r).user = r.session
  BY HolderIs
<1>6. Holder(req[c])' = Holder(r)
  BY <1>2, <1>3 DEF Holder, Live
<1>7. Believed(c)' = CallerNow(req[c])'
  <2>1. PICK h : h = Holder(r)
    OBVIOUS
  <2>2. who'[c] = h /\ Holder(req[c])' = h /\ h.role = Absent /\ h.groups = {}
    BY <1>2, <1>5, <1>6, <2>1
  <2>3. pc'[c] = IF h.user = Absent THEN "run" ELSE "user"
    BY <1>2, <2>1
  <2>4. CASE h.user = Absent
    BY <2>2, <2>3, <2>4 DEF Believed, CallerNow
  <2>5. CASE h.user # Absent
    BY <2>2, <2>3, <2>5 DEF Believed, CallerNow, GroupsOf
  <2>6. QED
    BY <2>4, <2>5
<1>8. seen'[c].edits = 0 /\ seen'[c].could = Entitled(req[c])'
  <2>1. pc'[c] # "idle" /\ access' = access
    BY <1>2
  <2>2. /\ seen'[c].could = seen[c].could \cup Entitled(req[c])'
        /\ seen'[c].edits = seen[c].edits
    BY <2>1, Watched
  <2>3. seen[c].could = {} /\ seen[c].edits = 0
    BY <1>4 DEF Unseen
  <2>4. QED
    BY <2>2, <2>3
<1>9. Entitled(req[c])' = EntitledAs(req[c], Believed(c))'
  BY <1>7 DEF Entitled, EntitledAs, May, CanRead, Authorize, Allows, Effective, Default,
              InScope
<1>10. Identified(c)'
  <2>1. Holder(r).user # Absent => Holder(r).user \in Accounts
    BY <1>5 DEF Caller
  <2>2. Absent # "admin"
    BY AbsentAssumption DEF Roles
  <2>3. QED
    BY <1>1, <1>2, <1>4, <1>5, <2>1, <2>2 DEF Identified
<1>11. QED
  BY <1>2, <1>4, <1>7, <1>8, <1>9, <1>10 DEF Ind, Fresh, Sound

\* A step of c that leaves its request and what it will be believed to be as they are.
LEMMA StepKeeps ==
  ASSUME NEW c \in Clients, Ind(c), pc[c] # "idle", pc'[c] # "idle", UNCHANGED access,
         req'[c] = req[c], Believed(c)' = Believed(c), Watch
  PROVE  /\ CallerNow(req[c])' = CallerNow(req[c])
         /\ seen'[c].edits = seen[c].edits
         /\ seen[c].could \subseteq seen'[c].could
         /\ seen[c].edits <= 1 =>
              EntitledAs(req[c], Believed(c))' \subseteq seen'[c].could
         /\ seen[c].edits = 0 => Believed(c)' \in {CallerNow(req[c])',
                                   [CallerNow(req[c])' EXCEPT !.groups = {}]}
<1>1. UNCHANGED <<role, groups, member, rules, tokens, anonRead>>
  BY DEF access
<1>2. CallerNow(req[c])' = CallerNow(req[c])
  BY <1>1 DEF CallerNow, GroupsOf, Holder, Live
<1>3. EntitledAs(req[c], Believed(c))' = EntitledAs(req[c], Believed(c))
  BY <1>1, DecisionStays
<1>4. seen'[c].edits = seen[c].edits /\ seen[c].could \subseteq seen'[c].could
  BY Watched
<1>5. QED
  BY <1>2, <1>3, <1>4 DEF Ind, Fresh, Sound

LEMMA ReadUserInd ==
  ASSUME RequestsOK, NEW c \in Clients, Ind(c), ReadUser(c), Watch
  PROVE  Ind(c)'
<1>1. /\ pc[c] = "user" /\ pc'[c] = "groups" /\ req'[c] = req[c]
      /\ UNCHANGED <<access, at, granted>>
      /\ who'[c] = [who[c] EXCEPT !.role = role[who[c].user]] /\ who[c] \in Caller
      /\ who[c].user \in Accounts
  BY DEF ReadUser, RequestsOK, Ind, Identified
<1>2. UNCHANGED <<role, groups, member>>
  BY <1>1 DEF access
<1>3. /\ who'[c].user = who[c].user /\ who'[c].scopes = who[c].scopes
      /\ who'[c].role = role[who[c].user]
  BY <1>1 DEF Caller
<1>4. Believed(c)' = Believed(c)
  BY <1>1, <1>2, <1>3 DEF Believed, GroupsOf
<1>5. Identified(c)'
  <2>1. who'[c].role = "admin" => IsAdmin(who[c].user)'
    BY <1>1, <1>2, <1>3, AbsentAssumption DEF IsAdmin
  <2>2. who'[c].role = "admin" => seen'[c].admin
    BY <1>1, <2>1, Watched
  <2>3. QED
    BY <1>1, <1>3, <2>2 DEF Ind, Identified
<1>6. Fresh(c)' /\ Sound(c)'
  BY <1>1, <1>4, StepKeeps DEF Ind, Fresh, Sound
<1>7. QED
  BY <1>5, <1>6 DEF Ind

LEMMA ReadGroupsInd ==
  ASSUME AccessOK, RequestsOK, NEW c \in Clients, Ind(c), ReadGroups(c), Watch
  PROVE  Ind(c)'
<1>1. PICK gs \in {GroupsOf(who[c].user), {}} : who' = [who EXCEPT ![c].groups = gs]
  BY DEF ReadGroups
<1>2. /\ pc[c] = "groups" /\ pc'[c] = "run" /\ req'[c] = req[c] /\ UNCHANGED <<access, granted>>
      /\ who'[c] = [who[c] EXCEPT !.groups = gs] /\ who[c] \in Caller
      /\ who[c].user \in Accounts /\ at'[c] = at[c]
  BY <1>1 DEF ReadGroups, RequestsOK, Ind, Identified
<1>3. UNCHANGED <<role, groups, member, rules, tokens, anonRead>>
  BY <1>2 DEF access
<1>4. /\ who'[c].user = who[c].user /\ who'[c].scopes = who[c].scopes
      /\ who'[c].role = who[c].role /\ who'[c].groups = gs
  BY <1>2 DEF Caller
<1>5. Identified(c)'
  <2>1. seen[c].admin => seen'[c].admin
    BY <1>2, Watched
  <2>2. QED
    BY <1>2, <1>4, <2>1 DEF Ind, Identified
<1>6. CASE gs = GroupsOf(who[c].user)
  <2>1. Believed(c)' = Believed(c)
    BY <1>2, <1>3, <1>4, <1>6 DEF Believed
  <2>2. Fresh(c)' /\ Sound(c)'
    BY <1>2, <2>1, StepKeeps DEF Ind, Fresh, Sound
  <2>3. QED
    BY <1>5, <2>2 DEF Ind
<1>7. CASE gs = {}
  <2>1. PICK b : b = Believed(c)
    OBVIOUS
  <2>2. PICK n : n = [b EXCEPT !.groups = {}]
    OBVIOUS
  <2>3. b \in Caller
    <3>1. GroupsOf(who[c].user) \in SUBSET Groups
      BY DEF GroupsOf, AccessOK
    <3>2. QED
      BY <1>2, <2>1, <3>1 DEF Believed, Caller
  <2>4. Believed(c)' = n
    BY <1>2, <1>4, <1>7, <2>1, <2>2, <2>3 DEF Believed, Caller
  <2>5. EntitledAs(req[c], Believed(c))' = EntitledAs(req[c], n)
    BY <1>2, <1>3, <2>4 DEF EntitledAs, May, CanRead, Authorize, Allows, Effective,
                            Default, InScope
  <2>6. EntitledAs(req[c], n) \subseteq EntitledAs(req[c], Believed(c))
    BY <2>1, <2>2, <2>3, GroupsOnlyAdd
  <2>7. CallerNow(req[c])' = CallerNow(req[c]) /\ CallerNow(req[c]) \in Caller
    BY <1>2, <1>3, CallerNowIs DEF RequestsOK, CallerNow, GroupsOf, Holder, Live
  <2>8. /\ seen'[c].edits = seen[c].edits /\ seen[c].could \subseteq seen'[c].could
    BY <1>2, Watched
  <2>9. Fresh(c)'
    <3>1. PICK m \in Caller : m = CallerNow(req[c])
      BY <2>7
    <3>2. b \in {m, [m EXCEPT !.groups = {}]} => n = [m EXCEPT !.groups = {}]
      BY <2>2, <3>1 DEF Caller
    <3>3. seen[c].edits = 0 => b \in {m, [m EXCEPT !.groups = {}]}
      BY <1>2, <2>1, <3>1 DEF Ind, Fresh
    <3>4. QED
      BY <1>2, <2>4, <2>7, <2>8, <3>1, <3>2, <3>3 DEF Fresh
  <2>10. Sound(c)'
    BY <1>2, <2>5, <2>6, <2>8 DEF Ind, Sound
  <2>11. QED
    BY <1>5, <2>9, <2>10 DEF Ind
<1>8. QED
  BY <1>6, <1>7

\* On to the next need, with the present one granted if that is right.
LEMMA AdvanceInd ==
  ASSUME RequestsOK, NEW c \in Clients, Ind(c), Advance(c), UNCHANGED access, Watch,
         pc[c] \in {"run", "default"}, at[c] \in DOMAIN req[c].needs,
         \/ granted' = granted
         \/ /\ granted' = [granted EXCEPT ![c] = @ \cup {at[c]}]
            /\ seen[c].edits <= 1 => Asked(c) \in seen[c].could
  PROVE  Ind(c)'
<1>1. /\ pc'[c] = (IF at[c] < Len(req[c].needs) THEN "run" ELSE "done")
      /\ at'[c] = at[c] + 1 /\ req'[c] = req[c] /\ who'[c] = who[c] /\ who[c] \in Caller
      /\ req[c].needs \in Seq(Need) /\ at[c] \in Nat \ {0}
  BY DEF Advance, RequestsOK, Request
<1>2. Believed(c)' = Believed(c)
  BY <1>1 DEF Believed
<1>3. pc'[c] = "run" => at'[c] \in DOMAIN req'[c].needs
  BY <1>1
<1>4. seen[c].admin => seen'[c].admin
  BY <1>1, Watched
<1>5. Identified(c)'
  BY <1>1, <1>3, <1>4 DEF Ind, Identified
<1>6. Fresh(c)'
  BY <1>1, <1>2, StepKeeps DEF Fresh
<1>7. ASSUME seen[c].edits <= 1, NEW i \in granted'[c] PROVE req[c].needs[i] \in seen[c].could
  <2>1. CASE i \in granted[c]
    BY <1>7, <2>1 DEF Ind, Sound
  <2>2. CASE i \notin granted[c]
    BY <1>7, <2>2 DEF RequestsOK, Asked
  <2>3. QED
    BY <2>1, <2>2
<1>8. Sound(c)'
  BY <1>1, <1>2, <1>7, StepKeeps DEF Sound
<1>9. QED
  BY <1>5, <1>6, <1>8 DEF Ind

LEMMA CheckInd ==
  ASSUME RequestsOK, NEW c \in Clients, Ind(c), Check(c), Watch
  PROVE  Ind(c)'
<1>1. pc[c] = "run" /\ req[c].kind = "doc" /\ UNCHANGED access
  BY DEF Check
<1>2. at[c] \in DOMAIN req[c].needs /\ who[c] \in Caller
  BY <1>1 DEF Ind, Identified, RequestsOK
<1>3. Believed(c) = who[c]
  BY <1>1, <1>2 DEF Believed, Caller
<1>4. CASE Answer(c)
  BY <1>4, AnswerInd
<1>5. CASE /\ InScope(who[c], Asked(c).doc, Asked(c).level)
           /\ Allows(who[c], Asked(c).doc, Asked(c).level)
           /\ Allow(c)
  <2>1. May(req[c], who[c], Asked(c))
    BY <1>1, <1>5 DEF May, Authorize, Allows
  <2>2. Asked(c) \in EntitledAs(req[c], Believed(c))
    BY <1>2, <1>3, <2>1 DEF EntitledAs, Asked
  <2>3. QED
    BY <1>1, <1>2, <1>5, <2>2, AdvanceInd DEF Allow, Ind, Sound
<1>6. CASE /\ InScope(who[c], Asked(c).doc, Asked(c).level) /\ Effective(Asked(c).doc) = {}
           /\ pc' = [pc EXCEPT ![c] = "default"]
           /\ UNCHANGED <<req, who, at, granted, requests>>
  <2>1. /\ pc'[c] = "default" /\ req'[c] = req[c] /\ who'[c] = who[c] /\ at'[c] = at[c]
        /\ granted'[c] = granted[c]
    BY <1>6 DEF RequestsOK
  <2>2. UNCHANGED <<rules, anonRead>> /\ Believed(c)' = Believed(c)
    BY <1>1, <2>1 DEF access, Believed
  <2>3. Asked(c)' = Asked(c)
    BY <2>1 DEF Asked
  <2>4. seen[c].admin => seen'[c].admin
    BY <2>1, Watched
  <2>5. Identified(c)'
    BY <1>1, <1>2, <2>1, <2>4 DEF Ind, Identified
  <2>6. Fresh(c)'
    BY <1>1, <1>6, <2>1, <2>2, <2>3, StepKeeps DEF Fresh, Effective, InScope
  <2>7. ASSUME Default(who[c], Asked(c).level)' PROVE Asked(c) \in EntitledAs(req[c], Believed(c))
    <3>1. Default(who[c], Asked(c).level)
      BY <2>1, <2>2, <2>3, <2>7 DEF Default
    <3>2. May(req[c], who[c], Asked(c))
      BY <1>1, <1>6, <3>1 DEF May, Authorize
    <3>3. QED
      BY <1>2, <1>3, <3>2 DEF EntitledAs, Asked
  <2>8. Sound(c)'
    BY <1>1, <2>1, <2>2, <2>3, <2>7, StepKeeps DEF Ind, Sound
  <2>9. QED
    BY <2>5, <2>6, <2>8 DEF Ind
<1>7. QED
  BY <1>4, <1>5, <1>6 DEF Check

LEMMA CheckDefaultInd ==
  ASSUME RequestsOK, NEW c \in Clients, Ind(c), CheckDefault(c), Watch
  PROVE  Ind(c)'
<1>1. pc[c] = "default" /\ UNCHANGED access
  BY DEF CheckDefault
<1>2. at[c] \in DOMAIN req[c].needs
  BY <1>1 DEF Ind, Identified
<1>3. CASE Answer(c)
  BY <1>3, AnswerInd
<1>4. CASE Default(who[c], Asked(c).level) /\ Allow(c)
  BY <1>1, <1>2, <1>4, AdvanceInd DEF Allow, Ind, Sound
<1>5. QED
  BY <1>3, <1>4 DEF CheckDefault

LEMMA ListInd ==
  ASSUME RequestsOK, NEW c \in Clients, Ind(c), List(c), Watch
  PROVE  Ind(c)'
<1>1. pc[c] = "run" /\ req[c].kind = "list" /\ UNCHANGED access
  BY DEF List
<1>2. at[c] \in DOMAIN req[c].needs /\ who[c] \in Caller
  BY <1>1 DEF Ind, Identified, RequestsOK
<1>3. Believed(c) = who[c]
  BY <1>1, <1>2 DEF Believed, Caller
<1>4. CASE CanRead(who[c], Asked(c).doc) /\ Allow(c)
  <2>1. May(req[c], who[c], Asked(c))
    BY <1>1, <1>4 DEF May
  <2>2. Asked(c) \in EntitledAs(req[c], Believed(c))
    BY <1>2, <1>3, <2>1 DEF EntitledAs, Asked
  <2>3. QED
    BY <1>1, <1>2, <1>4, <2>2, AdvanceInd DEF Allow, Ind, Sound
<1>5. CASE Advance(c) /\ UNCHANGED granted
  BY <1>1, <1>2, <1>5, AdvanceInd
<1>6. QED
  BY <1>4, <1>5 DEF List

\* A step of a request is one edit, if any, and touches no other request.
LEMMA StepEdits ==
  ASSUME RequestsOK, NEW c \in Clients, Step(c)
  PROVE  OneEdit /\ \A d \in Clients \ {c} : Still(d)
<1>1. UNCHANGED access => OneEdit
  BY DEF access, OneEdit
<1>2. Answer(c) => \A d \in Clients \ {c} : Still(d)
  BY DEF Answer, Still, RequestsOK
<1>3. ASSUME Advance(c),
             granted' = granted \/ granted' = [granted EXCEPT ![c] = @ \cup {at[c]}]
      PROVE  \A d \in Clients \ {c} : Still(d)
  BY <1>3 DEF Advance, Still, RequestsOK
<1>4. CASE Arrive(c)
  <2>1. PICK r \in Request : Identify(c, r)
    BY <1>4, Arriving
  <2>2. \A d \in Clients \ {c} : Still(d)
    BY <1>4, <2>1 DEF Identify, Arrive, Still, RequestsOK
  <2>3. QED
    BY <1>1, <1>4, <2>2 DEF Arrive
<1>5. CASE ReadUser(c)
  BY <1>1, <1>5 DEF ReadUser, Still, RequestsOK
<1>6. CASE ReadGroups(c)
  BY <1>1, <1>6 DEF ReadGroups, Still, RequestsOK
<1>7. CASE Check(c)
  <2>1. CASE /\ pc' = [pc EXCEPT ![c] = "default"]
             /\ UNCHANGED <<req, who, at, granted, requests>>
    BY <1>1, <1>7, <2>1 DEF Check, Still, RequestsOK
  <2>2. QED
    BY <1>1, <1>2, <1>3, <1>7, <2>1 DEF Check, Allow
<1>8. CASE CheckDefault(c)
  BY <1>1, <1>2, <1>3, <1>8 DEF CheckDefault, Allow
<1>9. CASE List(c)
  BY <1>1, <1>3, <1>9 DEF List, Allow
<1>10. CASE Respond(c)
  BY <1>1, <1>2, <1>10 DEF Respond
<1>11. CASE Administer(c)
  BY <1>1, <1>2, <1>11
     DEF Administer, OneEdit, SetRole, CreateGroup, DeleteGroup, AddMember, RemoveMember,
         CreateRule, DeleteRule, SetAnonymousRead
<1>12. CASE ManageTokens(c)
  BY <1>1, <1>2, <1>12 DEF ManageTokens, OneEdit, CreateMyToken, DeleteMyToken
<1>13. QED
  BY <1>4, <1>5, <1>6, <1>7, <1>8, <1>9, <1>10, <1>11, <1>12 DEF Step

LEMMA StepInd ==
  ASSUME AccessOK, RequestsOK, NEW c \in Clients, Ind(c), Step(c), Watch
  PROVE  Ind(c)'
BY ArriveInd, ReadUserInd, ReadGroupsInd, CheckInd, CheckDefaultInd, ListInd, AnswerInd
   DEF Step, Respond, Administer, ManageTokens

-----------------------------------------------------------------------------
(***************************************************************************)
(* The inductive invariant                                                 *)
(***************************************************************************)
LEMMA TypesSplit == AccessTypeOK <=> AccessOK /\ RequestsOK /\ seen \in [Clients -> Seen]
BY DEF AccessTypeOK, AccessOK, RequestsOK

LEMMA InitInd == AccessInit => AccessInv
<1> SUFFICES ASSUME AccessInit PROVE AccessInv
  OBVIOUS
<1>1. AccessOK
  BY DataAssumption DEF AccessInit, AccessOK, Roles
<1>2. RequestsOK /\ seen \in [Clients -> Seen]
  BY Constants, DataAssumption DEF AccessInit, RequestsOK
<1>3. \A c \in Clients : Identified(c) /\ Fresh(c) /\ Sound(c)
  BY DEF AccessInit, Identified, Fresh, Sound
<1>4. QED
  BY <1>1, <1>2, <1>3, TypesSplit DEF AccessInv

LEMMA NextInd == AccessInv /\ [AccessNext]_accessVars => AccessInv'
<1> SUFFICES ASSUME AccessInv, [AccessNext]_accessVars PROVE AccessInv'
  OBVIOUS
<1>1. AccessOK /\ RequestsOK /\ seen \in [Clients -> Seen] /\ \A c \in Clients : Ind(c)
  BY TypesSplit DEF AccessInv, Ind
<1>2. SUFFICES /\ AccessOK' /\ RequestsOK' /\ seen' \in [Clients -> Seen]
               /\ \A c \in Clients : Ind(c)'
  BY DEF AccessInv, Ind, AccessTypeOK, AccessOK, RequestsOK
<1>3. CASE UNCHANGED accessVars
  <2>1. AccessOK' /\ RequestsOK' /\ seen' \in [Clients -> Seen]
    BY <1>1, <1>3 DEF accessVars, access, AccessOK, RequestsOK
  <2>2. ASSUME NEW c \in Clients PROVE Ind(c)'
    <3>1. Still(c) /\ UNCHANGED <<role, groups, member, rules, tokens, anonRead, seen>>
      BY <1>3 DEF accessVars, access, Still
    <3>2. Believed(c)' = Believed(c) /\ CallerNow(req[c])' = CallerNow(req[c])
      BY <3>1, BelievedStays, CallerStays
    <3>3. EntitledAs(req[c], Believed(c))' = EntitledAs(req[c], Believed(c))
      BY <3>1, <3>2, DecisionStays DEF Still
    <3>4. Identified(c)'
      BY <1>1, <2>2, <3>1 DEF Ind, Identified, Still
    <3>5. Fresh(c)'
      BY <1>1, <2>2, <3>1, <3>2 DEF Ind, Fresh, Still, Effective, InScope, Asked
    <3>6. Sound(c)'
      BY <1>1, <2>2, <3>1, <3>3 DEF Ind, Sound, Still, Default, Asked
    <3>7. QED
      BY <3>4, <3>5, <3>6 DEF Ind
  <2>3. QED
    BY <2>1, <2>2
<1>4. CASE \E c \in Clients : Step(c) /\ Watch
  <2>1. PICK c \in Clients : Step(c) /\ Watch
    BY <1>4
  <2>2. AccessOK' /\ RequestsOK'
    BY <1>1, <2>1, StepTypes DEF Ind
  <2>3. seen' \in [Clients -> Seen]
    BY <1>1, <2>1, <2>2, WatchTypes
  <2>4. ASSUME NEW d \in Clients PROVE Ind(d)'
    BY <1>1, <2>1, <2>4, StepInd, StepEdits, EditInd
  <2>5. QED
    BY <2>2, <2>3, <2>4
<1>5. CASE \E t \in Tokens : Expire(t) /\ Watch
  <2>1. PICK t \in Tokens : Expire(t) /\ Watch
    BY <1>5
  <2>2. AccessOK' /\ RequestsOK'
    BY <1>1, <2>1, ExpireTypes
  <2>3. seen' \in [Clients -> Seen]
    BY <1>1, <2>1, <2>2, WatchTypes
  <2>4. OneEdit /\ \A d \in Clients : Still(d)
    BY <2>1 DEF Expire, OneEdit, Still
  <2>5. QED
    BY <1>1, <2>1, <2>2, <2>3, <2>4, EditInd
<1>6. CASE \E u \in Accounts : SignUp(u) /\ Watch
  <2>1. PICK u \in Accounts : SignUp(u) /\ Watch
    BY <1>6
  <2>2. AccessOK' /\ RequestsOK'
    BY <1>1, <2>1, SignUpTypes
  <2>3. seen' \in [Clients -> Seen]
    BY <1>1, <2>1, <2>2, WatchTypes
  <2>4. OneEdit /\ \A d \in Clients : Still(d)
    BY <2>1 DEF SignUp, OneEdit, Still
  <2>5. QED
    BY <1>1, <2>1, <2>2, <2>3, <2>4, EditInd
<1>7. CASE Restart /\ Watch
  <2>1. AccessOK' /\ RequestsOK'
    BY <1>1, <1>7, RestartTypes
  <2>2. seen' \in [Clients -> Seen]
    BY <1>1, <1>7, <2>1, WatchTypes
  <2>3. \A c \in Clients : pc'[c] = "idle" /\ at'[c] = 1 /\ granted'[c] = {}
    BY <1>7 DEF Restart
  <2>4. QED
    BY <1>7, <2>1, <2>2, <2>3, IdleInd
<1>8. QED
  BY <1>3, <1>4, <1>5, <1>6, <1>7 DEF AccessNext, AllAnswered

\* What a request has read and believes, with the types, in every reachable state.
THEOREM AccessInvariance == AccessSpec => []AccessInv
BY InitInd, NextInd, PTL DEF AccessSpec

\* Type correctness, memberships of existing groups only among them.
THEOREM AccessTypes == AccessSpec => []AccessTypeOK
<1>1. AccessInv => AccessTypeOK
  BY DEF AccessInv
<1>2. QED
  BY <1>1, AccessInvariance, PTL

\* A request that at most one edit overlaps is allowed only what it was entitled
\* to at one moment.
THEOREM DecisionsAreCurrent == AccessSpec => []DecisionIsCurrent
<1>1. AccessInv => DecisionIsCurrent
  <2> SUFFICES ASSUME AccessInv, NEW c \in Clients, seen[c].edits <= 1, NEW i \in granted[c]
               PROVE  req[c].needs[i] \in seen[c].could
    BY DEF DecisionIsCurrent
  <2>1. Identified(c) /\ Sound(c)
    BY DEF AccessInv
  <2>2. QED
    BY <2>1 DEF Identified, Sound
<1>2. QED
  BY <1>1, AccessInvariance, PTL

\* Levels nest in every reachable state.
THEOREM LevelsAlwaysNest == AccessSpec => []LevelsNest
BY LevelsAreNested, AccessTypes, PTL

\* Only accounts that were admins while their request ran change who may do what.
THEOREM OnlyAdminsEdit == AccessSpec => EditsByAdmins
<1> DEFINE Lawful ==
      \/ /\ UNCHANGED <<groups, member, rules, anonRead>>
         /\ \A u \in Accounts : role'[u] # role[u] =>
              /\ role[u] = Absent
              /\ role'[u] = "admin" => \A v \in Accounts : role[v] # "admin"
      \/ \E c \in Clients : pc[c] = "run" /\ req[c].kind = "admin" /\ seen[c].admin
<1>1. AccessInv /\ [AccessNext]_accessVars => [Lawful]_accessVars
  <2> SUFFICES ASSUME AccessInv, AccessNext PROVE Lawful \/ UNCHANGED accessVars
    OBVIOUS
  <2>1. UNCHANGED access => Lawful
    BY DEF access
  <2>2. ASSUME NEW c \in Clients, Step(c) PROVE Lawful
    <3>1. CASE Administer(c) /\ RequireAdmin(c)
      <4>1. seen[c].admin
        BY <3>1 DEF AccessInv, Identified, Administer, RequireAdmin
      <4>2. QED
        BY <3>1, <4>1 DEF Administer
    <3>2. CASE Administer(c) /\ ~RequireAdmin(c)
      BY <2>1, <3>2 DEF Administer
    <3>3. CASE ManageTokens(c)
      BY <2>1, <3>3 DEF ManageTokens, CreateMyToken, DeleteMyToken
    <3>4. QED
      BY <2>1, <2>2, <3>1, <3>2, <3>3
         DEF Step, Arrive, ReadUser, ReadGroups, Check, CheckDefault, List, Respond
  <2>3. ASSUME NEW t \in Tokens, Expire(t) PROVE Lawful
    BY <2>3 DEF Expire
  <2>4. ASSUME NEW u \in Accounts, SignUp(u) PROVE Lawful
    BY <2>4 DEF SignUp, AccessInv, AccessTypeOK
  <2>5. ASSUME Restart PROVE Lawful
    BY <2>5 DEF Restart, BootstrapAdmin, AccessInv, AccessTypeOK
  <2>6. QED
    BY <2>2, <2>3, <2>4, <2>5 DEF AccessNext, AllAnswered
<1>2. QED
  BY <1>1, AccessInvariance, PTL DEF AccessSpec, EditsByAdmins

\* A token is minted only for whoever is signed in to the session of the request.
THEOREM SessionsMint == AccessSpec => MintedInSession
<1> DEFINE Minted ==
      \A t \in Tokens : tokens[t] = Absent /\ tokens'[t] # Absent =>
        \E c \in Clients : pc[c] = "run" /\ req[c].session = tokens'[t].owner
<1>1. AccessInv /\ [AccessNext]_accessVars => [Minted]_accessVars
  <2> SUFFICES ASSUME AccessInv, AccessNext PROVE Minted \/ UNCHANGED accessVars
    OBVIOUS
  <2>1. UNCHANGED tokens => Minted
    OBVIOUS
  <2>2. ASSUME NEW c \in Clients, ManageTokens(c) PROVE Minted
    <3>1. CASE MayMint(c) /\ CreateMyToken(c)
      <4>1. pc[c] = "run" /\ who[c].user = req[c].session
        BY <2>2, <3>1 DEF ManageTokens, MayMint, AccessInv, Identified
      <4>2. PICK t \in Tokens, scopes \in SUBSET Scopes \ {{}} :
              tokens' = [tokens EXCEPT ![t] = [owner |-> who[c].user, scopes |-> scopes,
                                               live |-> TRUE]]
        BY <3>1 DEF CreateMyToken
      <4>3. QED
        BY <4>1, <4>2 DEF AccessInv, AccessTypeOK
    <3>2. CASE DeleteMyToken(c)
      BY <3>2 DEF DeleteMyToken, AccessInv, AccessTypeOK
    <3>3. QED
      BY <2>1, <2>2, <3>1, <3>2 DEF ManageTokens, access
  <2>3. ASSUME NEW c \in Clients, Step(c), ~ManageTokens(c) PROVE Minted
    BY <2>1, <2>3
       DEF Step, Arrive, ReadUser, ReadGroups, Check, CheckDefault, List, Respond, Administer,
           access, SetRole, CreateGroup, DeleteGroup, AddMember, RemoveMember, CreateRule,
           DeleteRule, SetAnonymousRead
  <2>4. ASSUME NEW t \in Tokens, Expire(t) PROVE Minted
    BY <2>4 DEF Expire, Live, AccessInv, AccessTypeOK
  <2>5. QED
    BY <2>1, <2>2, <2>3, <2>4 DEF AccessNext, AllAnswered, SignUp, Restart
<1>2. QED
  BY <1>1, AccessInvariance, PTL DEF AccessSpec, MintedInSession
=============================================================================
