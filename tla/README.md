# A TLA+ model of Steelpage

Steelpage is a git-backed Markdown wiki: one Go process serves documents from a
git working tree, keeps comments, search index, sessions, tokens, permissions
and configuration overrides in SQLite, and mails links for verification and
password reset. This directory models the parts of it that keep state,
model-checks them with TLC on small instances and proves the most important
results with TLAPS.

## 1. Inventory

| Component | State | Operations | Interacts with |
|---|---|---|---|
| Document handlers, `internal/api/docs.go`, `docs_ops.go` | one mutex per path (`API.pathLock`) | `PutDoc`, `DeleteDoc`, `MoveDoc`, `CopyDoc` | files, git, comments, index, git sync |
| Content repository, `internal/gitstore`, `internal/docs` | working tree, git index, branch, paused rebase, `lastSync` | `Write`, `Commit`, `MoveFile`, `RemoveFile`, `Sync`, `PullRebase`, `Push`, `AbortRebase` | shared by all handlers, without a lock |
| Comments, `internal/comments`, `internal/api/comments.go` | rows: path, line, anchor text, status, parent | `Create`, `Update`, `MovePath`, `DeletePath`, `MarkPath` | called by the document handlers after the commit |
| Frontmatter, `internal/frontmatter` | none; a file is a header of YAML between two fences, and a body | `Split`, `Parse`, `Serialize`, `ApplyUpdate`, `Recombine` | `PutDoc`, `CopyDoc`, the index |
| Search index, `internal/search` | tables `documents`, `documents_fts` | `IndexAll`, `IndexOne`, `Remove`, queries | called by the document handlers, reads files |
| Live configuration, `internal/configsvc` | snapshot, override rows, listeners | `Set`, `Unset`, `Snapshot`, `Subscribe` | mailer, handlers |
| Mailer, `internal/mailer` | the sender in use | `Live.Update`, `Send` | listener of the configuration |
| Authorization, `internal/permissions`, `groups`, `tokens`, `api/authorize.go` | rules, memberships, bearer tokens | `Check`, `authorize`, `canRead`, rule and token editing | every handler |
| Accounts, `internal/users` | users, OIDC links, roles, TOTP secrets | `Create`, `EnsureFromOIDC`, `SetRole`, `SetTOTP`, `ConfirmTOTP` | sign-in, admin API, bootstrap |
| Sign-in, `internal/auth`, `internal/middleware` | sessions, e-mail and reset tokens | login, MFA set-up and verification, `VerifyEmail`, `ResetPassword`, `Logout` | accounts, mailer |
| Server start, `cmd/steelpage`, and migrations, `internal/db` | the schema and the applied files | `main`, `Migrate`, `bootstrapAdmin`, `ListenAndServe` | all of the database; another server on it, the supervisor |
| Frontend stores, `frontend/src/lib` | address, open document, draft, listed comments | `load`, `forceReload`, `toggleEdit`, `setDraft`, `save`, `loadForPath` | document and comment API |

What makes each of them correct:

* documents: an acknowledged change is in the branch, whole and once; no save
  overwrites a version it has not seen; index and comments follow the files; no
  request waits for ever;
* repository synchronisation: a save is never lost by a pull, a push or an
  aborted rebase, and a conflict is shown to the admin until it is resolved;
* configuration: memory, table, audit and mailer agree, whoever edits at once;
* comments: a comment is re-anchored to the text it was written on or orphaned,
  threads stay one level deep;
* sign-in: one account per address and identity, a reset token works once,
  nobody gets past a second factor with a password;
* authorization: what a request is allowed is what its caller was entitled to
  at one moment, although it is read piece by piece; only admins edit;
* start: a server serves on a complete schema, whatever it or another was doing
  when it was killed; no account is lost, and no second first admin is made;
* frontmatter and index: what was acknowledged is what is shown, the details of a
  document outlive a save, and the index says what the file says;
* frontend: no text gets into another page, a revision is not edited, and what
  is shown is what was asked for and what is stored.

Hard behaviours: one process with a goroutine per request; several external
commands per request on a shared git index; several SQL statements per
operation without a transaction; errors after the commit that are only logged;
a restart between any two calls; background synchronisation. `PROJECT.json`
lists each hazard with its line and the properties that cover it.

## 2. Modules

| Component | Specification | For TLC | Abstraction | Proofs |
|---|---|---|---|---|
| content repository | `GitRepo` | | | |
| document handlers | `DocPipeline` (extends `GitRepo`) | `MCDocPipeline` | `AtomicDocs`, mapping in `DocRefinement` | `DocPipelineProofs` |
| live configuration, mailer | `ConfigService` | `MCServer` | `AtomicConfig`, mapping in `ConfigService` | `ConfigServiceProofs` |
| git synchronisation | `GitSync` | `MCContents` | | `GitSyncProofs` |
| comments | `CommentStore` (extends `Anchoring`) | `MCCommentStore` | `Ladder` in `Anchoring` | `TextProofs` |
| sign-in, accounts | `SignIn` | `MCAccess` | | `SignInProofs` |
| authorization | `Authorization` | `MCAuthorization`, `MCAccess` | | `AuthorizationProofs` |
| frontend stores | `DocumentStore` | `MCContents` | | `DocumentStoreProofs` |
| server start, migrations | `Startup` | `MCServer` | | `StartupProofs` |
| frontmatter, search index | `DocText` | `MCDocText`, `MCContents` | | `TextProofs` |

In every module an action is what the code does between two points at which
another goroutine can change what it goes on: one SQL statement or transaction,
one git command, one file operation, one acquisition of a mutex. `pc` (`stmt` in
`SignIn`, `sync` in `GitSync`, `stage` in `Startup`) names the next one. Definitions whose comment begins with "Faulty variant" are not part of
the specification: each is a plausible bug which, put in the place of the
definition after it, makes TLC refute a property. `mutants` in `PROJECT.json`
says which.

`MCServer`, `MCAccess` and `MCContents` each put two or three models into one instance.
The models share no state: a variable `part` says which one a behaviour is about, and
the variables of the others stay as they start. That is why the names of `Startup`,
`DocumentStore`, `Authorization` and `GitSync` carry a prefix (`StartupInit`, `TabSpec`,
`accessVars`).

### GitRepo and DocPipeline

`wt`, `staged` and `log` are the working tree, the git index and the branch; each
commit carries the request that made it, for the user it names as author. A document is a version (the frontmatter's) and a token for its body. Each git
command is atomic, because git locks its index, and commands of different
requests interleave, because `gitstore.Store` takes no lock. `os.WriteFile` is
two steps, truncation and write.

A request `r` has a program counter `pc[r]` that names its next call, the mutexes
it holds (`lock`), its operation and paths (`req`) and the document it is writing
(`out`). `onpath` is the path column of the comments, `idx` what the search index
holds. The calls of the handlers:

| | calls |
|---|---|
| put | lock, load, truncate, fill, `git add`, `git diff`, `git commit`, index, response |
| copy | lock of the destination, load both, then as put |
| delete | lock, load, `git rm`, `git commit`, delete comments, remove from index, response |
| move | two locks in path order, load both, `git mv`, `git commit`, move comments, remove, index, response |
| comment | one INSERT, no lock |

A fault (`MaxFaults`) makes one call fail, the building of the file (`Recombine`)
included: before and at the commit the handler answers 500 and undoes nothing, after it the error is only logged (`lapsed`). A
crash (`MaxCrashes`) ends every handler in flight and frees the mutexes, which
live in memory; the restart runs `IndexAll`. `git diff` failing with an exit
status is taken for "something is staged", as in the code. `HeadSHA` after a
commit can fail a request whose change is in.

`AtomicDocs` says what the branch promises: each request takes effect whole, at most once,
in one commit and before it is answered 2xx. A commit may take several requests along, and
names one that is under way. That this one need not be the request whose change it takes
along is what `SavesAreSigned` denies and the run `SaveSigned` shows (section 6).

Left out of this module: the background `Sync` (auto_push is off by default),
other spellings of one path, the status that `MarkPath` sets, a file that
cannot be read although it exists.

### ConfigService

`rows` and `audit` are the two tables, `overrides` the map in memory, `mu` the
holder of `Service.mu`, `mail` the configuration the mailer was built from.
`pc[a]` is where the PATCH of admin `a` is, `edit[a]` what it asks, `prev[a]` and
`snap[a]` what `Set` or `Unset` has read and is going to hand to the listeners.

| Action | Code |
|---|---|
| `Patch` | `AdminConfigPatch`: refuse, keep a secret that is sent empty, or go on |
| `Lock` | `s.mu.Lock()` and the previous value |
| `Commit`, `RollBack` | the transaction on row and audit; its failure |
| `Install` | the map in memory, the snapshot, `Unlock` |
| `Call`, `Reload` | the listeners, after the mutex: `mailer.Live.Reload` for e-mail keys |
| `ShowEffective` | `Effective` for the answer, under the read lock |
| `Crash` | process restart: `New` loads the table |

A value is a raw JSON value of the right type, `null`, the empty string or absent;
`Validate` says which of them a field takes: `null` decodes to the zero value and
passes everything but an enum, the empty string only a plain text. `overtaken` is
history and no part of the program: whether the last e-mail setting was installed while
another edit was about to call the listeners.

### GitSync

A history is the set of changes it contains. `remote`, `branch` and the detached
HEAD of a paused `rebase` are histories; `rebase.todo` is what is still to be
replayed, `unmerged` the conflicting documents, `runner` the pull that works on
it. `written` and `staged` are the changes of saves on their way to a commit.
`sync[s]` is where a `Sync` or `PullRebase` is.

| Action | Code |
|---|---|
| `WriteDoc`, `Add`, `Commit` | `PutDoc` under its path lock, as far as git sees it; its background `Sync` follows |
| `Press` | `AdminGitPull`, `AdminGitPush` |
| `PullRebase` | the check for a rebase in progress |
| `Fetch`, `BeginRebase`, `Pick`, `FinishRebase`, `LoseRebase` | the steps of `git pull --rebase`, an external process |
| `Inspect`, `ConflictFiles` (`ListUnmerged`) | how `PullRebase` reads a failure |
| `Push` | `git push` |
| `AbortRebase`, `Resolve`, `Upstream` | the abort button, a shell on the server, another clone |

`auto_push` is on and a remote is configured: without them `Sync` does nothing.
What git does (refuse to rebase a dirty tree, to commit with unmerged documents,
to push a detached HEAD) is modelled from git's behaviour, as external.

Any git command may fail for a reason of its own, `MaxFaults` times: the fetch for the
network, the remote or credentials (`Sync` stops with the error), the commit, the push, and
the `git diff` of `ConflictFiles`, whose error the code takes for "no conflict". `lost`, no
part of the program, remembers in which syncs the fetch and that `git diff` failed. `git diff
--cached` and `git commit` of `Commit` are one step here; `DocPipeline` has them apart.

### Anchoring and CommentStore

`Anchoring` translates `classify`, `nearbyExact`, `nearbyFuzzy` and the rolling row
of `levenshtein.go`, and next to them defines the ladder that the comment on
`MarkPath` promises, without loops: which lines fit, which of them is closest,
and "similar" by edits actually made. In `CommentStore`, `CreateComment` and
`UpdateComment` are the statements they are (`Start`, `LookUpParent`, `InsertRow`,
`GetRow`, `WriteRow`), `MarkPath` reads (`MarkRead`) and then writes in a
transaction (`MarkWrite`, `MarkFails`), while `SaveDoc`, `MovePath` and `DeletePath` change
the document. `LeftBehind` is the move or deletion whose call of `MovePath` or `DeletePath`
fails: the error is only logged, and the comments stay where the document was. The body, the author and the creation times are left out. `apart`,
no part of the program, remembers the replies that a move has overtaken between the
look-up of their parent and their INSERT. `Pages`, `Documents` and `Characters` are the
paths, contents and characters there are. Its specification is `CommentSpec`, so that
one module of proofs can extend both this one and `DocText`.

### SignIn

`users` is the table (address, password, identity-provider subject, TOTP secret
and flag, verified), `minted` the mails sent, `session[c]` what the session cookie
of browser `c` stands for and the MFA challenge pending in it, `job[c]` what its
request has read. Each handler is split where it has read what it will act
on: `Login`/`Grant`, `LoginMFA`/`CompleteMFA`, `SetupStart`/`SetTOTPSecret`,
`SetupConfirm`/`ConfirmTOTP`, `MFADisable`/`DisableTOTP`, `ResetPassword`/`CommitReset`,
`VerifyEmail`/`CommitVerify`, `CompleteOIDC`/`FindByEmail`/`Link`/`InsertOIDC`,
`Register`/`Welcome`. `TokenExpires` and `AdminDisableMFA` interfere. `gated[c]`, which is
no part of the program, remembers who has had MFA on since the request began.

### Authorization

`role`, `groups`, `member`, `rules`, `tokens` and `anonRead` are the tables and the
live value of `auth.allow_anonymous_read`. A request reads them one after the
other: `Arrive` (session and `FindByPlaintext`), `ReadUser`, `ReadGroups` (whose
failure the middleware ignores), `Check` for each need of its handler (scopes, then
`Effective`), `CheckDefault` where no rule speaks, or `List` with `canRead` for the
tree and the search, then `Respond`. `Administer` and `ManageTokens` are the editing
handlers, `Restart` includes `bootstrapAdmin`, `SignUp` stands for the sign-ups of
`SignIn`. A rule's glob is the set of documents it matches. `seen[c]` is a history
variable, no part of the program: what `c` could have been allowed since its
request began, and how many edits there were.

### DocumentStore

One tab in which somebody who may write is signed in. `route` is the address
(`currentDoc`, `currentRef`), `key` is `lastLoadKey`, `view` the stores of
`document-store.ts`, `sidebar` those of `comments-store.ts`, `pages` what the server has.
`net` is the set of requests; `Serve` answers one, and its answer is used at any
time after: `Loaded`, `Saved`, `Created`, `Deleted`, `Listed`. `Fails` stands for a refusal,
a lost request and a lost answer. A text is known by the page and the revision
it is of and by the last change typed. `now` and `odd` (with `at`, which tells saves apart) are no part of the program: `now`
marks the requests since which nothing has been loaded, `odd` remembers that an
answer came late, that a save was sent while another was under way, and that an
answer to a change, or a list of comments, was lost.

| Action | Code |
|---|---|
| `Open` | `navigate`, the Back button, and the reactive `load` of `DocumentView` |
| `Retry` | the button of the error page: `forceReload` without the revision |
| `ToggleEdit`, `Type`, `SaveDraft` | the buttons of `CarbonShell`, `setDraft`, `save` |
| `Create`, `Delete` | `NotFound`, `FileActions` |

Left out: previews, the dialogs that move and copy, the editing of comments,
other tabs (a page changes under a tab only by its own requests), the login and
admin views.

### Startup

`disk` is what is committed in the database (the migration files whose statements
have taken effect, those recorded, the accounts, whether comments refer to them),
`tx` the write transaction that is open and what it sees, `stage[s]` the next call of the
process `s`, `todo[s]` the files it has found unrecorded. `missed[s]` says that its
`bootstrapAdmin` could not ask the database. `deposed`, no part of the program,
remembers that the last admin has been demoted.

| Action | Code |
|---|---|
| `Load` | `config.Load`, `db.Open` |
| `LoadApplied` | `loadApplied`, once and before the loop |
| `ApplyBody`, `Record`, `CommitFile` | `applyOne`: the file, its row in `schema_migrations`, Commit |
| `Migrated`, `Wire`, `IndexAll` | the end of the loop, the stores and services, the index |
| `AnyAdmin`, `CreateAdmin` | `bootstrapAdmin`: count, hash, insert |
| `Listen` | `ListenAndServe`, which fails when the port is in use |
| `Fails`, `Kill` | a call that fails, with what the code makes of it; a process killed |
| `Register`, `SetRole` | requests to a server that serves, as far as they change admins |

A file is a number. What is told apart is whether all of it is IF NOT EXISTS, and the one that
copies `users` into a new table and drops the old one (003), with ids and names only.
A transaction commits atomically and one writes at a time: SQLite, external.

### DocText

A file is a sequence of lines; a line is a fence, a heading, code, prose or an entry
of YAML, with its line end. `Opens`, `Closing`, `Close`, `Header` and `Body` are `Split`;
`Parse` and `Malformed` are what YAML makes of a header, `ApplyUpdate` and `Recombine` what
a save makes of it, `NextVersion` with the width of an int. A value is told apart by
what `int()`, the tests for empty and JSON make of it: an entry of kind "opaque" is one that
YAML reads and `encoding/json` refuses, a map with keys that are no strings or `.nan`.
`Readable` is the parse of YAML, `Encodable` the encoder, and `Shows` both: what GET and PUT
answer with a document. `Title`, `Headings`, `Prose` and
`IndexFromRaw` are the extraction for the index.

Each handler is one step (`PutDoc`, `CopyDoc`, `MoveDoc`, `DeleteDoc`, and `IndexAll` for a
restart): `DocPipeline` has the steps between which others run, and what
fails. `Edit` is a pull or a shell on the server, which may leave anything. `acked`,
`foreign` and `opaque`, no part of the program, remember what clients have been told,
which files others have written since they were indexed, and which have a header in
which others have left an opaque entry. A line of code that begins like a heading counts as one
for the title and the headings, as in `firstH1` and `collectHeadings`. Left out: `updated` and
`updated_by`, tags and descriptions, which are read like the title; fences inside code
blocks; the syntax of YAML but for what makes a header unreadable.

## 3. Runs

| Run | Instance | What it shows |
|---|---|---|
| `Documents` | 2 paths; 2 requests of any kind, 1 comment, 1 fault and 1 restart, or 3 puts, deletes and moves without faults | `AckedIsCommitted`, `IndexCoherent`, `CommentsOnDocs`, `VersionsAdvance`, `QuietPathIsClean`, `NoWaitCycle`, `AtomicCommits`, `EveryRequestAnswered` |
| `CommentThreads` | 3 requests, 2 paths, 4 documents, 1 save, 2 moves or deletions, 1 fault | `FlatThreads`, `ThreadsTogether`, `PlansFollowLadder` |
| `Server` | start: 2 servers, 4 files, 3 rows, 2 addresses, 1 failing call, 1 kill | `SchemaIsRecorded`, `ServingIsMigrated`, `AdminAfterStart`, `AccountsSurvive`, `NoSecondAdmin`, `ServersServe` |
| | configuration: 2 admins, a sensitive e-mail text and another text, 3 edits, 1 fault, 1 restart | `MemoryIsRows`, `AuditIsHistory`, `AtomicEdits`, `EveryEditAnswered`, `MailerFollows` |
| `Access` | sign-in: 2 browsers, 4 requests, 2 rows, addresses and passwords, 1 subject, secret and mail token | `PasswordNeedsToken`, `SecondFactor` |
| | access: 2 requests, 2 accounts, 1 group, 2 documents, 1 token, 3 rules | `DecisionIsCurrent`, `EditsByAdmins` |
| `Contents` | history: 2 saves, 1 button, 1 foreign push, 2 paths, 1 failing git command, one abort, one resolution | `AckedIsInHistory`, `ConflictReported`, `QuietIsPushed`, `BranchKeepsSaves` |
| | texts: 2 paths, one of them not walked, 10 files, 4 texts, 3 steps | `SavedIsShown`, `IndexIsText`, `DetailsSurvive` |
| | tab: 2 pages, the start page there, 1 revision, 3 acts that send a request, 1 change typed, 1 fault | `PagesKeepTheirText`, `AddressShown`, `ShownIsStored`, `CommentsOfDoc` |

Seven more runs check one property each, which says what a comment or the README says and
which the code does not keep; TLC finds the counterexample (section 6).

| Run | Instance | Property |
|---|---|---|
| `SaveSigned` | 2 puts, 2 paths, no fault | `SavesAreSigned` |
| `SyncStopped` | 2 saves, 1 foreign push, no fault | `PulledIsTrue` |
| `MailerStale` | 2 admins, 2 edits, no fault | `MailerIsCurrent` |
| `CommentResolved` | 2 requests, 1 path, 1 save | `ResolvedLeftAlone` |
| `LinkOverwritten` | 2 browsers, 1 account, 2 subjects with one address | `LinkIsKept` |
| `ListsDiffer` | 1 client, 2 tokens, 3 rules | `ListsMirror` |
| `RevisionEdited` | 2 pages, 1 revision, 2 acts, no fault | `RevisionsReadOnly` |

What the properties say, and of which code, stands above each of them. The inductive
invariants of section 4, each of which begins with the type invariant of its module, are
proved for every instance and no run repeats them.

Why the bounds are enough.

* Documents: a race on the index needs two requests, and a third to sweep up
  what both have staged (`Light` of `MCDocPipeline` keeps the third to runs of puts,
  deletes and moves in which nothing fails); a wait in a circle needs as many moves as documents in
  it. One fault and one restart reach every place where either can happen,
  because they are enabled at every call.
* Configuration: the keys are told apart by whether the mailer subscribes to them and
  the audit hides them; an enum, which only refuses more, is in `MailerStale`. An edit that overtakes another needs two admins, and a previous value to
  be lost needs a first edit. The third edit lets a row be set, reset and set again.
* Synchronisation: a conflict needs one local and one foreign change of a
  document, a save that hits the paused rebase a second; both assignments of
  changes to the same and to different documents are initial states.
* Comments: a thread of three is the smallest that is not flat. The documents
  let a line stay, move, appear twice at equal distance, change or go; radii 1
  and 2 take the place of 10 and 20, so that lines lie inside and outside both.
* Sign-in: two rows and two browsers race for an address, a subject, a secret or
  a token; four requests are the longest way from a password to a changed one
  with somebody else between. One secret is enough where only its presence decides,
  and `LinkOverwritten` has the two subjects that an address is torn between.
* Authorization: one request that reads while another edits; two documents make
  a need that is checked second. Three rules cover a group's, an account's and
  everybody's grant on one or both documents.
* Frontend: two pages and a revision are three things to load; an answer that is
  late, one in time and a save between them are three requests, and the answers
  to them send more (lists of comments, reloads). The second page may be missing at the
  start, the first one goes by `Delete`.
* Start: a file applied while another process applies it, or after it, needs two
  servers. Of the four files two can be repeated, one is the rebuild and one is like
  the rest, and every initial database from the empty one to the complete one
  is a start. One row stays free for `bootstrapAdmin`.
* Texts: two paths make a copy, a move and a swap; the files are what an
  editor on Windows, a script or a merge may leave, and of the four texts two begin
  like a file with a header. Every set of files is a start, so three steps are a
  save of a save of what others wrote.

`IndexCoherent` and `CommentsOnDocs` except the documents of a request that
failed, was lost in a crash or had an error logged: the code leaves those as they
are. `QuietPathIsClean` and `VersionsAdvance` are stated without faults: a failed
commit leaves its change staged. `ConflictReported` excepts the sync whose own `git diff`
failed, and `QuietIsPushed` a push that is still owed by a sync that was failed by the
network or the remote, or by the pull button, which does not push: nothing tries again
until the next save. `MailerFollows` excepts exactly the order of listeners that `MailerStale`
shows. `DecisionIsCurrent` speaks of requests that
at most one edit overlaps: with two, an old membership and a new rule may meet, and nothing
in the code or its documentation promises more. Nothing in `document-store.ts` drops a late
answer: it replaces the page shown by then, with its draft, even a revision under an
open editor (`RevisionEdited`). `AddressShown` and `ShownIsStored` except that, and
`ShownIsStored` and `CommentsOfDoc` also saves that overtake each other and lost answers;
`PagesKeepTheirText` excepts nothing. `SavedIsShown` excepts the document in whose header
others have left an entry that JSON has no form for, `DetailsSurvive` the header that YAML
cannot read, the empty time of creation and the greatest int. `AdminAfterStart` excepts the
address that is taken and the last admin demoted (section 6).

Fairness (`FairSpec` of `DocPipeline` and `ConfigService`, which `MCSpec` and
`ServerSpec` take over): weak fairness of each
handler's steps. `net/http` runs each handler in a goroutine of its own, the
calls return, and Go's mutexes are handed to waiters in order, so a waiter
whose mutex is freed again and again gets it. TLC shows that weak fairness is
enough, since each request takes a mutex a bounded number of times. Starting,
failing and crashing are not fair. `StartupFairSpec` is weak fairness of the
steps of each process: its calls return, and systemd starts it again when it has
exited with an error (`Restart=on-failure` in `scripts/install.sh`). `ServersServe`
excepts the one file that can fail for good. The other modules state safety only.

## 4. Proofs

Each theorem holds for any number of requests, documents, accounts, changes and
so on, under the named `ASSUME`s of the module it is about: that the model values are
distinct, that bounds are numbers, that paths are numbered in string order. They
follow one pattern: an inductive invariant (`IndInv`; `SyncInv`, `AccessInv`, `TabInv`,
`StartupInv`, `CommentInv`), which TLC has confirmed first, its three facts, and the
properties from it.

* `DocPipelineProofs`. `IndInv` is `TypeOK`, `RequestShape` (which operation makes
  which call), `LockShape` (a mutex is held exactly by the requests between
  its Lock and the deferred Unlock) and `Progress` (how far the change of each
  request has come: file, index, HEAD). `AckedIsCommitted` alone is not inductive: that
  HEAD keeps the change of `r` until `r` answers depends on the locks keeping
  everybody else off the paths of `r`, and on whoever commits the index taking
  along a change that is already staged. `DeadlockFree`: in a set of handlers that
  wait for each other, everybody who is waited for is between its two locks; the
  one with the greatest second path waits for a mutex whose holder waits for a
  greater one, a contradiction. `DerivedInv`: where index or comments do not follow the
  files, somebody has still to see to it, or has failed to (`IndexFollows`,
  `CommentsFollow`). `CleanInv`: while nothing has failed, whatever differs between file,
  index and HEAD is somebody's work in progress, and what replaces a document is newer
  (`QuietPathsAreClean`, `VersionsOnlyAdvance`). `DocsAreAtomic` adds `BasisInv`: the
  change of a request starts from what HEAD has, until a commit, its own or that
  of another request, has taken it along; a commit maps to the commit, by the request
  that makes it, of all requests whose change is staged.
* `ConfigServiceProofs`. `IndInv` adds `EditShape`, `Exclusive` (the holder of the mutex is
  the one between Lock and Unlock) and `Lag` (memory differs from the table only
  by the edit that is committed and not installed). From it `MemoryAgrees`, and
  `EditsAreAtomic`: every step of the service is a step of `AtomicConfig` or stutters.
  `AuditTellsHistory` needs `PrevRead` as well: the owner of the mutex knows the override
  it replaces, so each record begins where the last of its key ended. For
  `MailerFollowsEdits`, `MailLag`: unless an edit has been overtaken, at most one edit is
  about to call the listeners, with a snapshot that is up to date, and at any other time the
  mailer is.
* `GitSyncProofs`. `SyncInv` adds `Replays` (head and todo of a rebase contain all of the branch),
  `PathExclusive`, `Tracked` (where the change of an
  unfinished save is) and `AckedIsInHistory`. From it `AnsweredSavesStay` and the action
  property `BranchGrows`. `ConflictIsReported` follows from `ConflictAwaited`: a sync that left
  a rebase in a conflict has reported it, is about to, or could not list its files. `AllIsPushed` follows from
  `PushAwaited`: while no sync owes a push and nothing has been aborted, an answered save that is not on the
  remote has somebody under way who will push it.
* `SignInProofs`. `IndInv` adds `Owned` (sessions and tokens belong to accounts), `KnownAt`
  (what a request has read) and `GateSeen`. A password cannot get past MFA
  because `Grant` decides on the row it has read: had MFA been on ever since, the
  row says so. From it `NoPasswordAlone` and `ResetsSpendTokens`.
* `AuthorizationProofs`. `AccessInv` adds for each client `Identified` (what it has read),
  `Fresh` and `Sound`. Until the first edit a request believes what holds, but for
  groups it could not read (`Fresh`). Rules only grant, so fewer groups mean fewer
  rights. An edit changes one of role, groups and memberships, rules, tokens and
  the configuration; those that have been read already no longer matter and those
  still to be read are read after it. So what it will be allowed is what it was
  entitled to before the edit or is after it (`Sound`). From it `DecisionsAreCurrent` and
  `OnlyAdminsEdit`; `SessionsMint` and `LevelsAlwaysNest` need less of it.
* `StartupProofs`. `StartupInv` adds `TxFits` (what a transaction holds follows from what is
  committed), `TodoCovers` (the files a server has still to apply are the last ones, and
  those before them are recorded), `SchemaIsRecorded`, `NothingToLose` and `StaleLookup`. A
  file that another server has applied meanwhile fails or collides on its record, and
  either way is rolled back; so 003 takes effect once, before there are addresses to
  lose. From it `SchemaStaysRecorded`, `ServersAreMigrated`, `AccountsAlwaysSurvive`,
  `BootstrapsOnce` and `AdminsArePresent`.
* `TextProofs`, first part, about `DocText`. `SplitRecombine`, for every header and text: splitting what was
  recombined gives back both, because the first fence closes, a serialized header has
  none, and the fence it ends with takes no character of the text. From it, and
  `IndInv` with `OpaqueIsForeign` (no opaque entry comes from the program), `SavesAreShown`, `IndexAgrees` and `DetailsAlwaysSurvive`.
* `TextProofs`, second part, about `Anchoring`, for all words, documents and radii.
  `DistanceCountsEdits`: the rolling row computes the edit distance. It runs through
  the table of distances between prefixes (`RollingRowIs`). Along a path through
  that table, the words that begin with `b` up to `j` and go on with `a` after `i` (`Splice`) are one
  edit apart, so that many edits do (`TableReaches`); and one edit brings a word nearer
  to `b` by at most one, because the tables of the two words agree up to the edit
  (`TablePrefix`) and differ by at most one after it (`TableSuffix`), so fewer do not
  (`TableBounds`). `ScanIs`: after each line the loop holds the closest of the lines so far.
  From both, `ClassifyClimbsLadder`: the code finds the line and status that the comment on
  `MarkPath` promises. Inductions over the length of a word or a document are over
  the subset of `0..n` where the claim holds (`UpTo`), which needs no operator as a parameter.
* `TextProofs`, third part, about `CommentStore`. `FlatThreads` and `ThreadsTogether` are not
  inductive: a reply is inserted under a parent looked up earlier. `CommentInv` adds
  `RequestsFit` (what a request has asked and read; a row is there only once its request
  has been answered), `RepliesFit` (a reply on its way goes to a comment that was answered, so
  it cannot come back once deleted, and that is a root while it exists, on the page of the reply
  unless a move has come between) and `PlansFit` (what `MarkPath` is about to write is what
  `Classify` makes of the rows and the document as they are, since the path lock keeps saves,
  moves and deletions of that page away, and no other page's transaction has rows of it). From it
  `ThreadsStayFlat`, `ThreadsStayTogether` and, with `ClassifyClimbsLadder`, `PlansAreLadder`.
  That pages and documents are not `None` and that documents are sequences of words
  is assumed (`CommentNoneAssumption`, `DocumentsAssumption`).
* `DocumentStoreProofs`. `TabInv` adds `DraftFits` and `TextsFit` (the draft and every text on
  its way belong to the document and revision they are for), `AwaitedAlone` (while
  the page asked for last is awaited, nothing is shown or edited, and no save or
  other load is for it) and `ClosedForRevisions` (a revision is under the editor only after a
  late answer). From it `TextsStayInPlace`, because `load` and `save` set document
  and draft together. Three
  invariants more say that what is shown is right or its answer is still under way:
  `AddressInv` for the page (`AddressIsShown`), `CommentsInv` for the list
  (`CommentsAreOfDoc`), `StoredInv` for the text (`ShownIsWhatIsStored`).

Only model-checked: liveness (`EveryRequestAnswered`, `EveryEditAnswered`, `ServersServe`), which is out of the
prover's reach.

## 5. What is not modelled, and the plan

Left out of the modules above: other spellings of one path; that `CopyDoc` does not
call `MarkPath`; a file that cannot be read although it exists; two requests of one
browser at once, and failing SQL statements, in `SignIn` and `Authorization` (but for the
group lookup; a failing `GetByID` of a token's owner, after which the middleware goes on
with the session, is among them); `lastSync` and other values for display.

Not modelled: rendering, static files, SMTP and MIME, routing, the syntax of YAML, the
Svelte views, the install scripts: conversions or I/O without state of their own.

What could follow, in the order of importance:

1. `DocPipeline` with `Authorization`: rights checked before a path lock is
   awaited, and the path of a comment that moves meanwhile.
2. Previews, moves and copies in `DocumentStore`, and two tabs.
3. `SafeJoin`: two spellings of one path, and their two locks.

## 6. Where code and documentation differ

Shown by a run:

* `SaveSigned`: "every save becomes a commit authored by the signed-in user" (README.md:16),
  "the commit above already records who saved what" (docs.go:136). `Commit` stages one
  document and commits the whole index: a save may go into the commit of another request,
  under its name, and then finds nothing left to commit.
* `SyncStopped`: "the caller must NOT proceed to push and should expose the conflict
  to the operator." (gitstore.go:287). A rebase that stops because of a save under
  way has no unmerged file and is taken for a success; and a `git diff` that fails in
  `ConflictFiles` (gitstore.go:241) makes the same of one that has.
* `MailerStale`: callers of the mailer "always see the latest behaviour" (mailer.go:33);
  edits "apply immediately" (README.md:126). Listeners run after the unlock
  (configsvc.go:170): of two overlapping edits the older snapshot may be the mailer's last.
* `CommentResolved`: "Resolved comments are left alone" (comments.go:210). One that is
  resolved between the read and the write of `MarkPath` is reopened.
* `LinkOverwritten`: "silently overwriting would let one IdP take over another's identity"
  (users.go:154). Of two sign-ins that both found the account without a link, the second
  overwrites the link of the first (users.go:179).
* `ListsDiffer`: `canRead` "mirrors `authorize`" (tree.go:30). It leaves out the scopes of
  tokens and takes `allow_anonymous_read` from the file.
* `RevisionEdited`: "editing is force-disabled in that case" (document-store.ts:24). The late
  answer of a revision comes under the open editor of the page opened since.

Seen while modelling, and named as exceptions in the properties:

* The bootstrap "creates an admin if no admin user exists yet" (README.md:137, main.go:182):
  not when the address belongs to an ordinary account or to the last admin, demoted
  (`AdminAfterStart`).
* `writeJSON` drops the error of the encoder (api.go:103): a header such as
  `years: {2024: x}` is answered 200 without a document, by GET and by PUT (`SavedIsShown`).
* Retry of a revision that failed to load asks for the current document
  (DocumentView.svelte:59), under the address that "pins the current doc to a historical
  revision" (router.ts:53; `Retry`, and `key.ref` in `AddressShown`).
