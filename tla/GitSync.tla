------------------------------- MODULE GitSync ------------------------------
(***************************************************************************)
(* Synchronisation of the content repository (internal/gitstore, with      *)
(* api/admin_git.go and the background Sync of PutDoc): saves commit while *)
(* syncs pull, rebase and push in the same working tree.  A git pull       *)
(* --rebase is several steps of an external process; gitstore.Store keeps  *)
(* nobody out meanwhile.  A history is the set of changes it contains, and *)
(* each save and each push of another clone is one change of one document. *)
(* auto_push is on and the remote is configured.                           *)
(***************************************************************************)
EXTENDS Naturals, FiniteSets

CONSTANTS
  Documents,
  Savers,      \* saves of documents, each with a background Sync
  Admins,      \* uses of the pull and push buttons
  Devs,        \* pushes of other clones
  None,
  Tools,       \* what people may use once: the abort button, a shell
  MaxFaults    \* bound: git commands that fail for reasons of their own

Changes == Savers \cup Devs
Syncs   == Savers \cup Admins

ASSUME SyncAssumption ==
  /\ Savers \cap (Admins \cup Devs) = {}
  /\ Tools \subseteq {"abort", "shell"}
  /\ MaxFaults \in Nat

VARIABLES
  path,      \* path[c]: the document that change c is about; never changes
  remote,    \* the branch of the remote
  branch,    \* the local branch
  rebase,    \* None, or the state in .git/rebase-merge
  written,   \* changes in the working tree only
  staged,    \* changes in the index
  save,      \* save[w]: how far PutDoc has come
  sync,      \* sync[s]: the next step of a Sync or PullRebase
  button,    \* button[s]: "pull" for AdminGitPull, else "sync"
  fetched,   \* fetched[s]: what the pull of s has fetched
  res,       \* res[s]: the SyncResult or answer under construction
  used,      \* tools that have been used
  faults,
  lost       \* history: for each kind of call, the syncs in which it failed

files == <<written, staged>>
repo  == <<remote, branch, rebase, files>>
run   == <<sync, button, fetched, res>>
syncVars  == <<path, repo, save, run, used, faults, lost>>

\* onto upstream, head is the detached HEAD; runner is the pull that works on
\* it, None once it has stopped.
Rebase == [head : SUBSET Changes, todo : SUBSET Changes,
           unmerged : SUBSET Documents, runner : Syncs \cup {None}]

ASSUME NoneAssumption == None \notin Rebase \cup Syncs

Result == [pulled : BOOLEAN, pushed : BOOLEAN, conflict : BOOLEAN,
           error : {"none", "rebasing", "pull", "push"}]

NoResult == [pulled |-> FALSE, pushed |-> FALSE, conflict |-> FALSE, error |-> "none"]

LostCalls == {"fetch", "files"}

SyncSteps == {"idle", "start", "fetch", "begin", "pick", "inspect", "files",
              "push", "done"}

SyncTypeOK ==
  /\ path \in [Changes -> Documents]
  /\ remote \subseteq Changes /\ branch \subseteq Changes
  /\ rebase \in Rebase \cup {None}
  /\ written \subseteq Savers /\ staged \subseteq Savers
  /\ save \in [Savers -> {"idle", "written", "added", "ok", "failed"}]
  /\ sync \in [Syncs -> SyncSteps]
  /\ button \in [Syncs -> {"sync", "pull"}]
  /\ fetched \in [Syncs -> SUBSET Changes]
  /\ res \in [Syncs -> Result]
  /\ used \subseteq Tools /\ faults \in 0..MaxFaults /\ lost \in [LostCalls -> SUBSET Syncs]

SyncInit ==
  /\ path \in [Changes -> Documents]
  /\ remote = {} /\ branch = {} /\ rebase = None
  /\ written = {} /\ staged = {}
  /\ save = [w \in Savers |-> "idle"]
  /\ sync = [s \in Syncs |-> "idle"]
  /\ button = [s \in Syncs |-> "sync"]
  /\ fetched = [s \in Syncs |-> {}]
  /\ res = [s \in Syncs |-> NoResult]
  /\ used = {} /\ faults = 0 /\ lost = [c \in LostCalls |-> {}]

IsRebaseInProgress == rebase # None

HEAD == IF IsRebaseInProgress THEN rebase.head ELSE branch

\* A git command fails: the network, the remote, credentials, a lock file.
Fault == faults < MaxFaults /\ faults' = faults + 1

Lose(call, s) == Fault /\ lost' = [lost EXCEPT ![call] = @ \cup {s}]

-----------------------------------------------------------------------------
(***************************************************************************)
(* Saves: PutDoc under its path lock, as far as git sees it                *)
(***************************************************************************)
\* The path lock is free.
PathFree(w) == \A v \in Savers : save[v] \in {"written", "added"} => path[v] # path[w]

WriteDoc(w) ==
  /\ save[w] = "idle"
  /\ PathFree(w)
  /\ save' = [save EXCEPT ![w] = "written"]
  /\ written' = written \cup {w}
  /\ UNCHANGED <<path, remote, branch, rebase, staged, run, used, faults, lost>>

\* git add: replaces what is staged of the document, and settles a conflict.
Add(w) ==
  /\ save[w] = "written"
  /\ save' = [save EXCEPT ![w] = "added"]
  /\ written' = written \ {w}
  /\ staged' = {v \in staged : path[v] # path[w]} \cup (written \cap {w})
  /\ rebase' = IF IsRebaseInProgress
                 THEN [rebase EXCEPT !.unmerged = @ \ {path[w]}] ELSE None
  /\ UNCHANGED <<path, remote, branch, run, used, faults, lost>>

\* Faulty variant: no Sync is started.
AcknowledgeOnly(w) == save' = [save EXCEPT ![w] = "ok"] /\ UNCHANGED sync

\* The save is in and its background Sync starts.
Acknowledge(w) ==
  /\ save' = [save EXCEPT ![w] = "ok"]
  /\ sync' = [sync EXCEPT ![w] = "start"]

\* Faulty variant: the error of git commit is ignored.
CommitUnchecked(w) ==
  /\ save[w] = "added"
  /\ IF IsRebaseInProgress
       THEN /\ rebase' = [rebase EXCEPT !.head =
                            @ \cup IF rebase.unmerged = {} THEN staged ELSE {}]
            /\ UNCHANGED branch
       ELSE branch' = branch \cup staged /\ UNCHANGED rebase
  /\ staged' = IF IsRebaseInProgress /\ rebase.unmerged # {} THEN staged ELSE {}
  /\ Acknowledge(w)
  /\ UNCHANGED <<path, remote, written, button, fetched, res, used, faults, lost>>

\* git diff --cached and git commit, on the branch or on the detached HEAD of
\* a rebase.  Git refuses to commit while a document is unmerged.
Commit(w) ==
  /\ save[w] = "added"
  /\ \/ /\ w \notin staged
        /\ Acknowledge(w)
        /\ UNCHANGED <<branch, rebase, staged, faults>>
     \/ /\ w \in staged
        /\ IsRebaseInProgress => rebase.unmerged = {}
        /\ IF IsRebaseInProgress
             THEN rebase' = [rebase EXCEPT !.head = @ \cup staged] /\ UNCHANGED branch
             ELSE branch' = branch \cup staged /\ UNCHANGED rebase
        /\ staged' = {}
        /\ Acknowledge(w)
        /\ UNCHANGED faults
     \/ /\ w \in staged
        /\ \/ IsRebaseInProgress /\ rebase.unmerged # {} /\ UNCHANGED faults
           \/ Fault
        /\ save' = [save EXCEPT ![w] = "failed"]
        /\ UNCHANGED <<branch, rebase, staged, sync>>
  /\ UNCHANGED <<path, remote, written, button, fetched, res, used, lost>>

-----------------------------------------------------------------------------
(***************************************************************************)
(* Sync and PullRebase                                                     *)
(***************************************************************************)
Goto(s, step) == sync' = [sync EXCEPT ![s] = step]

\* The handlers AdminGitPull and AdminGitPush.
Press(a) ==
  /\ sync[a] = "idle"
  /\ \E b \in {"sync", "pull"} : button' = [button EXCEPT ![a] = b]
  /\ Goto(a, "start")
  /\ UNCHANGED <<path, repo, save, fetched, res, used, faults, lost>>

Fail(s, error) == res' = [res EXCEPT ![s].error = error] /\ Goto(s, "done")

\* git diff --diff-filter=U lists the unmerged documents.  When it fails,
\* ConflictFiles answers what it answers when there are none.
ListUnmerged(s, found) ==
  \/ found = (rebase.unmerged # {}) /\ UNCHANGED <<faults, lost>>
  \/ ~found /\ Lose("files", s)

\* PullRebase refuses while a rebase is in progress, whoever runs it.  Only
\* AdminGitPull shows the conflicting files along with the error.
PullRebase(s) ==
  /\ sync[s] = "start"
  /\ \/ /\ IsRebaseInProgress
        /\ \E found \in BOOLEAN :
             /\ ListUnmerged(s, found)
             /\ res' = [res EXCEPT ![s].error = "rebasing",
                                  ![s].conflict = found /\ button[s] = "pull"]
        /\ Goto(s, "done")
     \/ ~IsRebaseInProgress /\ Goto(s, "fetch") /\ UNCHANGED <<res, faults, lost>>
  /\ UNCHANGED <<path, repo, save, button, fetched, used>>

\* The first half of git pull.
Fetch(s) ==
  /\ sync[s] = "fetch"
  /\ \/ /\ fetched' = [fetched EXCEPT ![s] = remote]
        /\ Goto(s, "begin")
        /\ UNCHANGED <<faults, lost>>
     \/ /\ Lose("fetch", s)
        /\ Goto(s, "inspect")
        /\ UNCHANGED fetched
  /\ UNCHANGED <<path, repo, save, button, res, used>>

\* What Sync and AdminGitPull do after a pull that was, or is taken for, a
\* success: Sync pushes.
Pulled(s) ==
  /\ res' = [res EXCEPT ![s].pulled = TRUE]
  /\ Goto(s, IF button[s] = "sync" THEN "push" ELSE "done")

\* git refuses to rebase another rebase's tree or one with uncommitted changes.
\* If there is nothing to replay, the branch is fast-forwarded.
BeginRebase(s) ==
  /\ sync[s] = "begin"
  /\ \/ /\ IsRebaseInProgress \/ written \cup staged # {}
        /\ Goto(s, "inspect")
        /\ UNCHANGED <<branch, rebase, res>>
     \/ /\ ~IsRebaseInProgress /\ written \cup staged = {}
        /\ IF fetched[s] \subseteq branch \/ branch \subseteq fetched[s]
             THEN /\ branch' = branch \cup fetched[s]
                  /\ Pulled(s)
                  /\ UNCHANGED rebase
             ELSE /\ rebase' = [head |-> fetched[s], todo |-> branch \ fetched[s],
                                unmerged |-> {}, runner |-> s]
                  /\ Goto(s, "pick")
                  /\ UNCHANGED <<branch, res>>
  /\ UNCHANGED <<path, remote, files, save, button, fetched, used, faults, lost>>

Stop(unmerged) == rebase' = [rebase EXCEPT !.unmerged = unmerged, !.runner = None]

\* One commit is replayed.  Two changes of one document merge or conflict; what
\* a save has written, staged or committed under way makes git stop with
\* nothing unmerged.
Pick(s) ==
  /\ sync[s] = "pick" /\ IsRebaseInProgress /\ rebase.runner = s
  /\ \E c \in rebase.todo :
       \/ /\ rebase' = [rebase EXCEPT !.head = @ \cup {c}, !.todo = @ \ {c}]
          /\ UNCHANGED sync
       \/ /\ \E d \in rebase.head \ branch : path[d] = path[c]
          /\ Stop({path[c]})
          /\ Goto(s, "inspect")
       \/ /\ written \cup staged \cup (rebase.head \ (branch \cup fetched[s])) # {}
          /\ Stop({})
          /\ Goto(s, "inspect")
  /\ UNCHANGED <<path, remote, branch, files, save, button, fetched, res, used, faults, lost>>

\* The branch is set to the detached HEAD.
FinishRebase(s) ==
  /\ sync[s] = "pick" /\ IsRebaseInProgress /\ rebase.runner = s
  /\ rebase.todo = {}
  /\ branch' = rebase.head
  /\ rebase' = None
  /\ Pulled(s)
  /\ UNCHANGED <<path, remote, files, save, button, fetched, used, faults, lost>>

\* The rebase was aborted under the pull.
LoseRebase(s) ==
  /\ sync[s] = "pick"
  /\ IsRebaseInProgress => rebase.runner # s
  /\ Goto(s, "inspect")
  /\ UNCHANGED <<path, repo, save, button, fetched, res, used, faults, lost>>

\* Faulty variant: a failed pull is only an error.
InspectNothing(s) ==
  /\ sync[s] = "inspect"
  /\ Fail(s, "pull")
  /\ UNCHANGED <<path, repo, save, button, fetched, used, faults, lost>>

\* The pull has failed: a rebase in progress is taken for its conflict.
Inspect(s) ==
  /\ sync[s] = "inspect"
  /\ IF IsRebaseInProgress THEN Goto(s, "files") /\ UNCHANGED res
                           ELSE Fail(s, "pull")
  /\ UNCHANGED <<path, repo, save, button, fetched, used, faults, lost>>

\* No conflicting file, or none that git could list, is taken for no conflict.
ConflictFiles(s) ==
  /\ sync[s] = "files"
  /\ \/ /\ IsRebaseInProgress /\ ListUnmerged(s, TRUE)
        /\ res' = [res EXCEPT ![s].conflict = TRUE]
        /\ Goto(s, "done")
     \/ IsRebaseInProgress /\ ListUnmerged(s, FALSE) /\ Pulled(s)
     \/ ~IsRebaseInProgress /\ Pulled(s) /\ UNCHANGED <<faults, lost>>
  /\ UNCHANGED <<path, repo, save, button, fetched, used>>

\* git refuses to push a detached HEAD, and what is not a fast-forward.
CanPush == ~IsRebaseInProgress /\ remote \subseteq branch

Push(s) ==
  /\ sync[s] = "push"
  /\ \/ /\ CanPush
        /\ remote' = branch
        /\ res' = [res EXCEPT ![s].pushed = TRUE]
        /\ Goto(s, "done")
        /\ UNCHANGED faults
     \/ /\ Fail(s, "push")
        /\ (~CanPush /\ UNCHANGED faults) \/ Fault
        /\ UNCHANGED remote
  /\ UNCHANGED <<path, branch, rebase, files, save, button, fetched, used, lost>>

-----------------------------------------------------------------------------
Use(tool) == tool \in Tools \ used /\ used' = used \cup {tool}

\* Another clone pushes.
Upstream(d) ==
  /\ d \notin remote
  /\ remote' = remote \cup {d}
  /\ UNCHANGED <<path, branch, rebase, files, save, run, used, faults, lost>>

\* Somebody finishes a stopped rebase in a shell on the server.
Resolve ==
  /\ Use("shell")
  /\ IsRebaseInProgress /\ rebase.runner = None
  /\ written = {}
  /\ branch' = rebase.head \cup rebase.todo \cup staged
  /\ rebase' = None
  /\ staged' = {}
  /\ UNCHANGED <<path, remote, written, save, run, faults, lost>>

\* Faulty variant: git rebase --skip instead of --abort.
AbortBySkipping ==
  /\ Use("abort")
  /\ IsRebaseInProgress
  /\ branch' = rebase.head
  /\ rebase' = None /\ written' = {} /\ staged' = {}
  /\ UNCHANGED <<path, remote, save, run, faults, lost>>

\* AdminGitAbort: HEAD, index and files go back to the branch.
AbortRebase ==
  /\ Use("abort")
  /\ IsRebaseInProgress
  /\ rebase' = None /\ written' = {} /\ staged' = {}
  /\ UNCHANGED <<path, remote, branch, save, run, faults, lost>>

SyncStep(s) ==
  \/ PullRebase(s) \/ Fetch(s) \/ BeginRebase(s) \/ Pick(s) \/ FinishRebase(s)
  \/ LoseRebase(s) \/ Inspect(s) \/ ConflictFiles(s) \/ Push(s)

Quiet ==
  /\ \A w \in Savers : save[w] \notin {"written", "added"}
  /\ \A s \in Syncs : sync[s] \in {"idle", "done"}

\* Everything the instance has to offer has happened.
Idle ==
  /\ Quiet /\ Devs \subseteq remote
  /\ \A w \in Savers : save[w] # "idle"
  /\ UNCHANGED syncVars

SyncNext ==
  \/ \E w \in Savers : WriteDoc(w) \/ Add(w) \/ Commit(w)
  \/ \E a \in Admins : Press(a)
  \/ \E s \in Syncs : SyncStep(s)
  \/ \E d \in Devs : Upstream(d)
  \/ Resolve \/ AbortRebase
  \/ Idle

SyncSpec == SyncInit /\ [][SyncNext]_syncVars

-----------------------------------------------------------------------------
(***************************************************************************)
(* Properties                                                              *)
(***************************************************************************)
\* Syncs, pulls, stopped rebases, their resolution and their abortion never
\* take a commit off the branch: a rebase replays every commit it has not
\* skipped before the branch moves (gitstore.go:303, 252).
BranchKeepsSaves == [][branch \subseteq branch']_syncVars

InHistory(w) == w \in branch \cup HEAD

\* While nobody aborts a rebase, a save that has been answered is in the
\* history, whatever rebase it was committed into.
AckedIsInHistory == "abort" \notin used => \A w \in Savers : save[w] = "ok" => InHistory(w)

\* Once everything has ended, a rebase that waits for its conflict to be
\* resolved has been reported as a conflict to somebody, unless the git command
\* that lists the conflicting files failed: its error is dropped
\* (gitstore.go:241-243), and that sync goes on to push.
ConflictReported ==
  Quiet /\ IsRebaseInProgress /\ rebase.unmerged # {} =>
    \E s \in Syncs : res[s].conflict \/ s \in lost["files"]

\* A sync that a push may still be owed after: the network or the remote failed
\* it or refused its push, or it was a pull button, whose rebase turns the syncs
\* of others away and which does not push.
OwesPush(s) == s \in lost["fetch"] \/ res[s].error = "push" \/ button[s] = "pull"

\* Once everything has ended, all saves answered are on the remote, although
\* syncs fail while other saves are between their write and their commit, or
\* while another sync is rebasing: one of the later syncs takes them along.
\* Excepted are a failed commit, which leaves its change in the index and the
\* tree dirty, a stopped rebase, the tools, and syncs that owe a push: nothing
\* tries again until the next save or button.
QuietIsPushed ==
  Quiet /\ ~IsRebaseInProgress /\ used = {}
    /\ (\A w \in Savers : save[w] # "failed") /\ (\A s \in Syncs : ~OwesPush(s))
    => \A w \in Savers : save[w] = "ok" => w \in remote

-----------------------------------------------------------------------------
(***************************************************************************)
(* The inductive invariant behind BranchKeepsSaves and AckedIsInHistory    *)
(***************************************************************************)
\* A rebase still has to replay, or has replayed, every commit of the branch.
Replays == IsRebaseInProgress => branch \subseteq rebase.head \cup rebase.todo

\* One save of a document at a time: PutDoc holds the path lock.
PathExclusive ==
  \A v, w \in Savers :
    v # w /\ {save[v], save[w]} \subseteq {"written", "added"} => path[v] # path[w]

\* Without an abort, the change of a save under way is where the save left it,
\* or in the history already, committed by another save.
Tracked ==
  "abort" \notin used =>
    \A w \in Savers : /\ save[w] = "written" => w \in written
                      /\ save[w] = "added" => w \in staged \/ InHistory(w)

SyncInv == SyncTypeOK /\ Replays /\ PathExclusive /\ Tracked /\ AckedIsInHistory

-----------------------------------------------------------------------------
(***************************************************************************)
(* What comments and messages say and the code does not keep               *)
(***************************************************************************)
\* A pull that is reported as done has brought the remote's changes to the
\* branch: on a stopped rebase "the caller must NOT proceed to push and should
\* expose the conflict to the operator" (gitstore.go:287).
PulledIsTrue == \A s \in Syncs : res[s].pulled => fetched[s] \subseteq branch
=============================================================================
