----------------------------- MODULE DocPipeline ----------------------------
(***************************************************************************)
(* The document handlers of internal/api: PutDoc, DeleteDoc, MoveDoc and   *)
(* CopyDoc, with CreateComment, which takes no lock.  A handler is a       *)
(* sequence of calls (file system, git, comments table, search index);     *)
(* each call is one action, so handlers interleave between any two calls.  *)
(* Path locks are the mutexes of API.pathLock.  A fault makes one call     *)
(* fail; a crash ends the process, and the restart runs IndexAll.          *)
(* auto_push is off, its default.                                          *)
(***************************************************************************)
EXTENDS GitRepo, FiniteSets

CONSTANTS
  Comments,    \* comments that exist before the first request
  Ops,         \* the operations the requests may ask for
  MaxFaults,   \* bound: calls that fail
  MaxCrashes   \* bound: restarts of the server

ASSUME OpsAssumption == Ops \subseteq {"put", "delete", "move", "copy", "comment"}
ASSUME CommentsAssumption == Comments \cap Reqs = {}
ASSUME BoundsAssumption == MaxFaults \in Nat /\ MaxCrashes \in Nat

VARIABLES
  lock,     \* lock[p]: the request holding the mutex of p
  pc,       \* pc[r]: the next call of r, or its answer
  req,      \* req[r]: operation and paths
  out,      \* out[r]: the document r is writing (put, copy)
  onpath,   \* onpath[c]: the path column of comment c
  idx,      \* idx[p]: the document the search index holds for p
  lapsed,   \* requests of which a logged-only call failed
  faults, crashes

derived == <<onpath, idx>>
env     == <<faults, crashes>>
vars    == <<repo, lock, pc, req, out, derived, lapsed, env>>

\* 2xx, 4xx, 5xx, and no answer because the server stopped
Answers == {"ok", "refused", "failed", "lost"}
Calls   == {"lock1", "lock2", "check", "truncate", "fill", "add", "diff", "mv",
            "rm", "commit", "comments", "unindex", "index", "respond", "insert"}
Request == [op : {"put", "delete", "move", "copy", "comment"},
            from : Paths, to : Paths]
CommentIds == Comments \cup Reqs   \* a comment request creates the comment r

ASSUME RequestAssumption == None \notin Request

TypeOK ==
  /\ RepoTypeOK
  /\ lock \in [Paths -> Reqs \cup {None}]
  /\ pc \in [Reqs -> {"idle"} \cup Calls \cup Answers]
  /\ req \in [Reqs -> Request \cup {None}]
  /\ out \in [Reqs -> File]
  /\ onpath \in [CommentIds -> Paths \cup {None}]
  /\ idx \in Tree
  /\ lapsed \subseteq Reqs
  /\ faults \in 0..MaxFaults
  /\ crashes \in 0..MaxCrashes

Init ==
  /\ RepoInit
  /\ lock = [p \in Paths |-> None]
  /\ pc = [r \in Reqs |-> "idle"]
  /\ req = [r \in Reqs |-> None]
  /\ out = [r \in Reqs |-> None]
  /\ onpath \in [CommentIds -> {p \in Paths : wt[p] # None} \cup {None}]
  /\ \A r \in Reqs : onpath[r] = None
  /\ idx = wt
  /\ lapsed = {}
  /\ faults = 0
  /\ crashes = 0

-----------------------------------------------------------------------------
Op(r) == req[r].op
To(r) == req[r].to
From(r) == req[r].from

\* Faulty variant: source before destination.
LockSeqUnordered(r) == IF Op(r) # "move" THEN <<To(r)>> ELSE <<From(r), To(r)>>

\* The mutexes of a request in the order it takes them: a move takes two, the
\* smaller path first.
LockSeq(r) ==
  IF Op(r) # "move" THEN <<To(r)>>
  ELSE IF From(r) < To(r) THEN <<From(r), To(r)>> ELSE <<To(r), From(r)>>

Active(r) == pc[r] \notin {"idle"} \cup Answers

Goto(r, call) == pc' = [pc EXCEPT ![r] = call]

\* Answering returns from the handler, which runs the deferred unlocks.
Answer(r, how) ==
  /\ Goto(r, how)
  /\ lock' = [p \in Paths |-> IF lock[p] = r THEN None ELSE lock[p]]

Fault == faults < MaxFaults /\ faults' = faults + 1
NoFault == UNCHANGED faults

-----------------------------------------------------------------------------
\* The router hands a request to its handler, which refuses a malformed or
\* unauthorized one before it touches anything.  Comments are posted from the
\* page of a document.
Start(r) ==
  /\ pc[r] = "idle"
  /\ \E op \in Ops, p, q \in Paths :
       /\ (p = q) <=> op \notin {"move", "copy"}
       /\ op = "comment" => wt[q] # None
       /\ req' = [req EXCEPT ![r] = [op |-> op, from |-> p, to |-> q]]
       /\ \/ Goto(r, "refused")
          \/ Goto(r, IF op = "comment" THEN "insert" ELSE "lock1")
  /\ UNCHANGED <<repo, lock, out, derived, lapsed, env>>

\* Faulty variants: the mutex keeps nobody out.
TakeFirstLockUnguarded(r) ==
  /\ pc[r] = "lock1"
  /\ lock' = [lock EXCEPT ![LockSeq(r)[1]] = r]
  /\ Goto(r, IF Op(r) = "move" THEN "lock2" ELSE "check")
  /\ UNCHANGED <<repo, req, out, derived, lapsed, env>>

TakeSecondLockUnguarded(r) ==
  /\ pc[r] = "lock2"
  /\ lock' = [lock EXCEPT ![LockSeq(r)[2]] = r]
  /\ Goto(r, "check")
  /\ UNCHANGED <<repo, req, out, derived, lapsed, env>>

TakeFirstLock(r) ==
  /\ pc[r] = "lock1"
  /\ lock[LockSeq(r)[1]] = None
  /\ lock' = [lock EXCEPT ![LockSeq(r)[1]] = r]
  /\ Goto(r, IF Op(r) = "move" THEN "lock2" ELSE "check")
  /\ UNCHANGED <<repo, req, out, derived, lapsed, env>>

TakeSecondLock(r) ==
  /\ pc[r] = "lock2"
  /\ lock[LockSeq(r)[2]] = None
  /\ lock' = [lock EXCEPT ![LockSeq(r)[2]] = r]
  /\ Goto(r, "check")
  /\ UNCHANGED <<repo, req, out, derived, lapsed, env>>

\* frontmatter.ApplyUpdate: one more than the version on disk, else 1.
NextVersion(file) == IF file = None THEN 1 ELSE file.ver + 1

\* PutDoc loads the stored frontmatter and builds the document it will write.
PutLoad(r) ==
  /\ pc[r] = "check" /\ Op(r) = "put"
  /\ out' = [out EXCEPT ![r] = [ver |-> NextVersion(wt[To(r)]), body |-> r]]
  /\ Goto(r, "truncate")
  /\ UNCHANGED <<repo, lock, req, derived, lapsed, env>>

DeleteCheck(r) ==
  /\ pc[r] = "check" /\ Op(r) = "delete"
  /\ IF wt[To(r)] # None THEN Goto(r, "rm") /\ UNCHANGED lock
                         ELSE Answer(r, "refused")
  /\ UNCHANGED <<repo, req, out, derived, lapsed, env>>

MoveCheck(r) ==
  /\ pc[r] = "check" /\ Op(r) = "move"
  /\ IF wt[From(r)] # None /\ wt[To(r)] = None
       THEN Goto(r, "mv") /\ UNCHANGED lock
       ELSE Answer(r, "refused")
  /\ UNCHANGED <<repo, req, out, derived, lapsed, env>>

\* CopyDoc reads its source without the source's lock and keeps its body
\* under fresh frontmatter.
CopyLoad(r) ==
  /\ pc[r] = "check" /\ Op(r) = "copy"
  /\ IF wt[From(r)] # None /\ wt[To(r)] = None
       THEN /\ out' = [out EXCEPT ![r] = [ver |-> 1, body |-> wt[From(r)].body]]
            /\ Goto(r, "truncate")
            /\ UNCHANGED lock
       ELSE /\ Answer(r, "refused")
            /\ UNCHANGED out
  /\ UNCHANGED <<repo, req, derived, lapsed, env>>

WriteTruncate(r) ==
  /\ pc[r] = "truncate"
  /\ TruncateFile(To(r))
  /\ Goto(r, "fill")
  /\ UNCHANGED <<lock, req, out, derived, lapsed, env>>

WriteFill(r) ==
  /\ pc[r] = "fill"
  /\ FillFile(To(r), out[r])
  /\ Goto(r, "add")
  /\ UNCHANGED <<lock, req, out, derived, lapsed, env>>

-----------------------------------------------------------------------------
\* gitstore.Commit: add, diff, commit.
GitAdd(r) ==
  /\ pc[r] = "add"
  /\ Add(To(r))
  /\ Goto(r, "diff")
  /\ UNCHANGED <<lock, req, out, derived, lapsed, env>>

\* The call after the commit is in.
AfterCommit(r) == IF Op(r) \in {"move", "delete"} THEN "comments" ELSE "index"

\* Commit and MoveFile end with HeadSHA, whose failure fails the request
\* although its change is in the branch; RemoveFile does not ask for it.
Landed(r) ==
  \/ Goto(r, AfterCommit(r)) /\ UNCHANGED <<lock, faults>>
  \/ Op(r) # "delete" /\ Fault /\ Answer(r, "failed")

\* Faulty variant: an error of git diff taken for a clean index.
GitDiffErrorIsClean(r) ==
  /\ pc[r] = "diff"
  /\ \/ NothingStaged(To(r)) /\ Landed(r)
     \/ ~NothingStaged(To(r)) /\ Goto(r, "commit") /\ UNCHANGED <<lock, faults>>
     \/ Fault /\ Goto(r, AfterCommit(r)) /\ UNCHANGED lock
  /\ UNCHANGED <<repo, req, out, derived, lapsed, crashes>>

\* Nothing staged for the path is a success.  Any exit status of git diff but
\* zero, its errors included, leads to the commit.
GitDiff(r) ==
  /\ pc[r] = "diff"
  /\ \/ NothingStaged(To(r)) /\ Landed(r)
     \/ ~NothingStaged(To(r)) /\ Goto(r, "commit") /\ UNCHANGED <<lock, faults>>
     \/ Fault /\ Goto(r, "commit") /\ UNCHANGED lock
  /\ UNCHANGED <<repo, req, out, derived, lapsed, crashes>>

GitMv(r) ==
  /\ pc[r] = "mv"
  /\ \/ CanMv(From(r), To(r)) /\ Mv(From(r), To(r))
        /\ Goto(r, "commit") /\ UNCHANGED lock
     \/ ~CanMv(From(r), To(r)) /\ Answer(r, "failed") /\ UNCHANGED repo
  /\ UNCHANGED <<req, out, derived, lapsed, env>>

\* Faulty variant: the file is removed, not with git, and nothing is staged.
RemoveUnstaged(r) ==
  /\ pc[r] = "rm"
  /\ TruncateFile(To(r))
  /\ Goto(r, "commit")
  /\ UNCHANGED <<lock, req, out, derived, lapsed, env>>

GitRm(r) ==
  /\ pc[r] = "rm"
  /\ \/ CanRm(To(r)) /\ Rm(To(r)) /\ Goto(r, "commit") /\ UNCHANGED lock
     \/ ~CanRm(To(r)) /\ Answer(r, "failed") /\ UNCHANGED repo
  /\ UNCHANGED <<req, out, derived, lapsed, env>>

GitCommit(r) ==
  /\ pc[r] = "commit"
  /\ \/ CanCommit /\ CommitIndex(r) /\ Landed(r)
     \/ ~CanCommit /\ Answer(r, "failed") /\ UNCHANGED <<repo, faults>>
  /\ UNCHANGED <<req, out, derived, lapsed, crashes>>

-----------------------------------------------------------------------------
\* The calls after the commit only log their errors.
Log(r) == Fault /\ lapsed' = lapsed \cup {r}
Quiet  == NoFault /\ UNCHANGED lapsed

\* Faulty variant: DeletePath is called, MovePath is not.
DeleteCommentsOnly(r) ==
  /\ pc[r] = "comments"
  /\ \/ onpath' = [c \in CommentIds |->
                     IF onpath[c] = From(r) /\ Op(r) = "delete" THEN None ELSE onpath[c]]
        /\ Quiet
     \/ UNCHANGED onpath /\ Log(r)
  /\ Goto(r, "unindex")
  /\ UNCHANGED <<repo, lock, req, out, idx, crashes>>

\* MovePath or DeletePath, one UPDATE or DELETE.  (PutDoc's MarkPath changes
\* no path.)
UpdateComments(r) ==
  /\ pc[r] = "comments"
  /\ LET new == IF Op(r) = "move" THEN To(r) ELSE None
     IN \/ onpath' = [c \in CommentIds |->
                        IF onpath[c] = From(r) THEN new ELSE onpath[c]]
           /\ Quiet
        \/ UNCHANGED onpath /\ Log(r)
  /\ Goto(r, "unindex")
  /\ UNCHANGED <<repo, lock, req, out, idx, crashes>>

\* Faulty variant: the new path is removed instead of the old one.
UnindexTarget(r) ==
  /\ pc[r] = "unindex"
  /\ \/ idx' = [idx EXCEPT ![To(r)] = None] /\ Quiet
     \/ UNCHANGED idx /\ Log(r)
  /\ Goto(r, IF Op(r) = "move" THEN "index" ELSE "respond")
  /\ UNCHANGED <<repo, lock, req, out, onpath, crashes>>

\* Indexer.Remove of the path that is gone.
Unindex(r) ==
  /\ pc[r] = "unindex"
  /\ \/ idx' = [idx EXCEPT ![From(r)] = None] /\ Quiet
     \/ UNCHANGED idx /\ Log(r)
  /\ Goto(r, IF Op(r) = "move" THEN "index" ELSE "respond")
  /\ UNCHANGED <<repo, lock, req, out, onpath, crashes>>

\* Indexer.IndexOne: frontmatter from disk, body from the handler.
Index(r) ==
  /\ pc[r] = "index"
  /\ LET body == IF Op(r) = "move" THEN wt[To(r)].body ELSE out[r].body
     IN \/ idx' = [idx EXCEPT ![To(r)] = [ver |-> wt[To(r)].ver, body |-> body]]
           /\ Quiet
        \/ UNCHANGED idx /\ Log(r)
  /\ Goto(r, "respond")
  /\ UNCHANGED <<repo, lock, req, out, onpath, crashes>>

\* Only PutDoc answers 500 when it cannot build the response.
Respond(r) ==
  /\ pc[r] = "respond"
  /\ \/ Answer(r, "ok") /\ NoFault
     \/ Op(r) = "put" /\ Fault /\ Answer(r, "failed")
  /\ UNCHANGED <<repo, req, out, derived, lapsed, crashes>>

\* CreateComment takes no path lock and does not look at the file.
InsertComment(r) ==
  /\ pc[r] = "insert"
  /\ onpath' = [onpath EXCEPT ![r] = To(r)]
  /\ Answer(r, "ok")
  /\ UNCHANGED <<repo, req, out, idx, lapsed, env>>

-----------------------------------------------------------------------------
\* A call fails and has no effect, or, for the write of a truncated file,
\* leaves it truncated; the handler answers 500 and undoes nothing.
FallibleCalls ==
  {"check", "truncate", "fill", "add", "diff", "mv", "rm", "commit", "insert"}

CallFails(r) ==
  /\ pc[r] \in FallibleCalls
  /\ Fault
  /\ Answer(r, "failed")
  /\ UNCHANGED <<repo, req, out, derived, lapsed, crashes>>

\* The process stops with every handler in flight.  The mutexes go with it;
\* files, index, branch and database stay.  IndexAll then indexes the files
\* that exist and removes nothing.
Crash ==
  /\ crashes < MaxCrashes
  /\ crashes' = crashes + 1
  /\ pc' = [r \in Reqs |-> IF Active(r) THEN "lost" ELSE pc[r]]
  /\ lock' = [p \in Paths |-> None]
  /\ idx' = [p \in Paths |-> IF wt[p] # None THEN wt[p] ELSE idx[p]]
  /\ UNCHANGED <<repo, req, out, onpath, lapsed, faults>>

Step(r) ==
  \/ TakeFirstLock(r) \/ TakeSecondLock(r)
  \/ PutLoad(r) \/ DeleteCheck(r) \/ MoveCheck(r) \/ CopyLoad(r)
  \/ WriteTruncate(r) \/ WriteFill(r)
  \/ GitAdd(r) \/ GitDiff(r) \/ GitMv(r) \/ GitRm(r) \/ GitCommit(r)
  \/ UpdateComments(r) \/ Unindex(r) \/ Index(r) \/ Respond(r)
  \/ InsertComment(r)

\* All requests have been answered.
Idle == (\A r \in Reqs : pc[r] \in Answers) /\ UNCHANGED vars

Next ==
  \/ \E r \in Reqs : Start(r) \/ Step(r) \/ CallFails(r)
  \/ Crash
  \/ Idle

Spec == Init /\ [][Next]_vars

\* net/http runs each handler to its return, and a mutex that is released
\* again and again is handed to every waiter.
FairSpec == Spec /\ \A r \in Reqs : WF_vars(Step(r))

-----------------------------------------------------------------------------
(***************************************************************************)
(* Properties                                                              *)
(***************************************************************************)
Awaited(r) == IF pc[r] = "lock1" THEN {LockSeq(r)[1]}
              ELSE IF pc[r] = "lock2" THEN {LockSeq(r)[2]} ELSE {}

\* No set of handlers wait for each other's path locks, however many moves
\* and saves overlap: MoveDoc's ordered locking (docs_ops.go:85).
NoWaitCycle ==
  \A S \in (SUBSET Reqs) \ {{}} :
    ~ \A r \in S : \E p \in Awaited(r) : lock[p] \in S

\* tree shows what r was asked to do.
Done(r, tree) ==
  /\ Op(r) \in {"put", "copy"} => tree[To(r)] = out[r]
  /\ Op(r) = "delete" => tree[To(r)] = None
  /\ Op(r) = "move" => tree[From(r)] = None /\ tree[To(r)] # None

\* When a handler is about to answer 2xx, HEAD holds what it did, whoever
\* committed it: other requests share the index between its git add, mv or rm
\* and its git commit, may commit its change or bring along theirs.
AckedIsCommitted == \A r \in Reqs : pc[r] = "respond" => Done(r, HEAD)

Undisturbed == faults = 0 /\ crashes = 0

Supersedes(new, old) == old # None /\ new # None /\ old # new => old.ver < new.ver

\* While no call has failed, a document that is changed in place only moves to
\* a higher version: no save starts from a version that another one replaced.
VersionsAdvance ==
  Undisturbed => \A i \in 1..(Len(log) - 1), p \in Paths :
                   Supersedes(log[i + 1].tree[p], log[i].tree[p])

\* While no call has failed, a document nobody is working on has no uncommitted
\* change, also after requests that lost their commit to another one.
QuietPathIsClean ==
  Undisturbed => \A p \in Paths :
                   lock[p] = None => wt[p] = staged[p] /\ staged[p] = HEAD[p]

\* p was given to a request that did not run to its end.
Disturbed(p) ==
  \E r \in Reqs : /\ pc[r] \in {"failed", "lost"} \/ r \in lapsed
                 /\ p \in {From(r), To(r)}

\* The search index holds what is on disk, for every document at rest that no
\* failed request left behind.
IndexCoherent ==
  \A p \in Paths : lock[p] = None /\ ~Disturbed(p) => idx[p] = wt[p]

\* A comment stays on a document that exists: move and delete take the
\* comments of the path along.
CommentsOnDocs ==
  \A c \in Comments :
    LET p == onpath[c]
    IN  p # None /\ lock[p] = None /\ ~Disturbed(p) => wt[p] # None

\* Every handler that has started answers.
EveryRequestAnswered == \A r \in Reqs : Active(r) ~> pc[r] \in Answers

-----------------------------------------------------------------------------
(***************************************************************************)
(* The inductive invariant behind NoWaitCycle and AckedIsCommitted          *)
(***************************************************************************)
\* The operations that make a call.
OpsOf(call) ==
  CASE call = "lock2"    -> {"move"}
    [] call = "mv"       -> {"move"}
    [] call = "rm"       -> {"delete"}
    [] call \in {"truncate", "fill", "add", "diff"} -> {"put", "copy"}
    [] call \in {"comments", "unindex"} -> {"move", "delete"}
    [] call = "index"    -> {"put", "copy", "move"}
    [] call = "insert"   -> {"comment"}
    [] call \in {"lock1", "check", "commit", "respond"} ->
                            {"put", "copy", "move", "delete"}
    [] OTHER -> {"put", "copy", "move", "delete", "comment"}

RequestShape ==
  \A r \in Reqs : pc[r] # "idle" =>
    /\ req[r] \in Request
    /\ Op(r) \in OpsOf(pc[r])
    /\ From(r) = To(r) <=> Op(r) \notin {"move", "copy"}

\* The mutexes r holds before the call pc[r].
Held(r) ==
  IF pc[r] \in {"idle", "lock1", "insert"} \cup Answers THEN {}
  ELSE IF pc[r] = "lock2" THEN {LockSeq(r)[1]}
  ELSE IF Op(r) = "move" THEN {From(r), To(r)} ELSE {To(r)}

LockShape == \A r \in Reqs, p \in Paths : lock[p] = r <=> p \in Held(r)

AfterCommitCalls == {"comments", "unindex", "index", "respond"}
AfterStageCalls  == {"diff", "commit"} \cup AfterCommitCalls
AfterWriteCalls  == {"add"} \cup AfterStageCalls

\* How far the change of r has come, while its locks keep the others off.
ProgressOf(r) ==
  /\ (/\ pc[r] \in {"truncate", "fill"} \cup AfterWriteCalls
      /\ Op(r) \in {"put", "copy"}) => out[r] # None
  /\ pc[r] \in AfterWriteCalls  => Done(r, wt)
  /\ pc[r] \in AfterStageCalls  => Done(r, staged)
  /\ pc[r] \in AfterCommitCalls => Done(r, HEAD)

Progress == \A r \in Reqs : ProgressOf(r)

IndInv == TypeOK /\ RequestShape /\ LockShape /\ Progress

=============================================================================
