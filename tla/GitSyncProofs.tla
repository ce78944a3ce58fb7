--------------------------- MODULE GitSyncProofs ---------------------------
(***************************************************************************)
(* Proofs about GitSync for any number of saves, syncs, admins and pushes  *)
(* of other clones.                                                        *)
(***************************************************************************)
EXTENDS GitSync, TLAPS

\* At the start there is no rebase and nothing is answered.
LEMMA InitInd == SyncInit => SyncInv
<1> SUFFICES ASSUME SyncInit PROVE SyncInv
  OBVIOUS
<1>1. SyncTypeOK
  BY SyncAssumption DEF SyncInit, SyncTypeOK, NoResult, Result, Syncs, SyncSteps
<1>2. Replays
  BY DEF SyncInit, Replays, IsRebaseInProgress
<1>3. AckedIsInHistory
  BY DEF SyncInit, AckedIsInHistory
<1>4. PathExclusive /\ Tracked
  BY DEF SyncInit, PathExclusive, Tracked
<1>5. QED
  BY <1>1, <1>2, <1>3, <1>4 DEF SyncInv

-----------------------------------------------------------------------------
\* A commit of the changes, on the branch or on the HEAD of a rebase.
CommitOf(changes) ==
  IF IsRebaseInProgress
    THEN rebase' = [rebase EXCEPT !.head = @ \cup changes] /\ UNCHANGED branch
    ELSE branch' = branch \cup changes /\ UNCHANGED rebase

LEMMA FailType ==
  ASSUME res \in [Syncs -> Result], NEW s \in Syncs,
         NEW e \in {"rebasing", "pull", "push"}, Fail(s, e)
  PROVE  res' \in [Syncs -> Result]
BY DEF Fail, Result

LEMMA PulledType ==
  ASSUME res \in [Syncs -> Result], NEW s \in Syncs, Pulled(s)
  PROVE  res' \in [Syncs -> Result]
BY DEF Pulled, Result

LEMMA AnswerType ==
  ASSUME res \in [Syncs -> Result], NEW s \in Syncs
  PROVE  /\ PullRebase(s) => res' \in [Syncs -> Result]
         /\ ConflictFiles(s) => res' \in [Syncs -> Result]
         /\ Push(s) => res' \in [Syncs -> Result]
<1>1. ASSUME PullRebase(s) PROVE res' \in [Syncs -> Result]
  <2>1. ASSUME NEW c \in BOOLEAN
        PROVE  [res EXCEPT ![s].error = "rebasing", ![s].conflict = c]
                 \in [Syncs -> Result]
    BY DEF Result
  <2>2. \A found \in BOOLEAN : (found /\ button[s] = "pull") \in BOOLEAN
    OBVIOUS
  <2>3. QED
    BY <1>1, <2>1, <2>2, Zenon DEF PullRebase
<1>2. ASSUME ConflictFiles(s) PROVE res' \in [Syncs -> Result]
  BY <1>2, PulledType DEF ConflictFiles, Result
<1>3. ASSUME Push(s) PROVE res' \in [Syncs -> Result]
  BY <1>3, FailType DEF Push, Result
<1>4. QED
  BY <1>1, <1>2, <1>3

\* A git command fails, or none does.
LEMMA LoseType ==
  ASSUME SyncTypeOK, NEW s \in Syncs, NEW call \in LostCalls,
         UNCHANGED <<faults, lost>> \/ Lose(call, s)
  PROVE  /\ faults' \in 0..MaxFaults /\ lost' \in [LostCalls -> SUBSET Syncs]
         /\ \A c \in LostCalls : lost[c] \subseteq lost'[c]
BY SyncAssumption DEF SyncTypeOK, Lose, Fault

LEMMA GotoType ==
  ASSUME sync \in [Syncs -> SyncSteps], NEW s \in Syncs, NEW step \in SyncSteps,
         Goto(s, step)
  PROVE  sync' \in [Syncs -> SyncSteps]
BY DEF Goto

LEMMA PickType ==
  ASSUME SyncTypeOK, NEW s \in Syncs, Pick(s)
  PROVE  rebase' \in Rebase
<1>1. PICK c \in rebase.todo :
        \/ rebase' = [rebase EXCEPT !.head = @ \cup {c}, !.todo = @ \ {c}]
        \/ Stop({path[c]})
        \/ Stop({})
  BY DEF Pick
<1>2. rebase \in Rebase /\ c \in Changes
  BY DEF Pick, SyncTypeOK, IsRebaseInProgress, Rebase
<1>3. CASE rebase' = [rebase EXCEPT !.head = @ \cup {c}, !.todo = @ \ {c}]
  BY <1>2, <1>3 DEF Rebase
<1>4. ASSUME NEW u \in SUBSET Documents, Stop(u) PROVE rebase' \in Rebase
  BY <1>2, <1>4 DEF Stop, Rebase
<1>5. {path[c]} \in SUBSET Documents /\ {} \in SUBSET Documents
  BY <1>2 DEF SyncTypeOK
<1>6. QED
  BY <1>1, <1>3, <1>4, <1>5

LEMMA CommitType ==
  ASSUME SyncTypeOK, IsRebaseInProgress, CommitOf(staged)
  PROVE  /\ rebase' \in Rebase /\ branch' = branch
         /\ rebase'.head = rebase.head \cup staged
         /\ rebase'.todo = rebase.todo
<1>1. rebase \in Rebase /\ staged \subseteq Changes
  BY DEF SyncTypeOK, IsRebaseInProgress, Changes
<1>2. rebase' = [rebase EXCEPT !.head = rebase.head \cup staged] /\ branch' = branch
  BY DEF CommitOf
<1>3. QED
  BY <1>1, <1>2 DEF Rebase

\* Every step keeps the types.
LEMMA TypeStep == SyncTypeOK /\ [SyncNext]_syncVars => SyncTypeOK'
<1> SUFFICES ASSUME SyncTypeOK, [SyncNext]_syncVars PROVE SyncTypeOK'
  OBVIOUS
<1> USE SyncAssumption, NoneAssumption DEF SyncTypeOK, Rebase, IsRebaseInProgress,
        run, repo, files
<1>1. ASSUME NEW w \in Savers, WriteDoc(w) PROVE SyncTypeOK'
  BY <1>1 DEF WriteDoc
<1>2. ASSUME NEW w \in Savers, Add(w) PROVE SyncTypeOK'
  BY <1>2 DEF Add
<1>3. ASSUME NEW w \in Savers, Commit(w) PROVE SyncTypeOK'
  <2>1. w \in Syncs /\ staged \subseteq Changes /\ "start" \in SyncSteps
    BY DEF Syncs, Changes, SyncSteps
  <2>2. CASE w \notin staged /\ Acknowledge(w) /\ UNCHANGED <<branch, rebase, staged, faults>>
    BY <1>3, <2>1, <2>2 DEF Commit, Acknowledge
  <2>3. CASE Acknowledge(w) /\ CommitOf(staged) /\ staged' = {} /\ UNCHANGED faults
    BY <1>3, <2>1, <2>3 DEF Commit, Acknowledge, CommitOf
  <2>4. CASE /\ save' = [save EXCEPT ![w] = "failed"]
             /\ (UNCHANGED faults \/ Fault)
             /\ UNCHANGED <<branch, rebase, staged, sync>>
    BY <1>3, <2>1, <2>4 DEF Commit, Fault
  <2>5. QED
    BY <1>3, <2>2, <2>3, <2>4 DEF Commit, CommitOf
<1>4. ASSUME NEW a \in Admins, Press(a) PROVE SyncTypeOK'
  <2>1. a \in Syncs
    BY DEF Syncs
  <2>2. sync' \in [Syncs -> SyncSteps]
    BY <1>4, <2>1, GotoType DEF Press, SyncSteps
  <2>3. button' \in [Syncs -> {"sync", "pull"}]
    BY <1>4, <2>1 DEF Press
  <2>4. QED
    BY <1>4, <2>2, <2>3 DEF Press
<1>5. ASSUME NEW s \in Syncs, SyncStep(s) PROVE SyncTypeOK'
  <2>1. CASE PullRebase(s)
    <3>1. sync' \in [Syncs -> SyncSteps]
      BY <2>1, GotoType DEF PullRebase, Fail, SyncSteps, Goto
    <3>2. res' \in [Syncs -> Result]
      BY <2>1, AnswerType
    <3>3. UNCHANGED <<faults, lost>> \/ Lose("files", s)
      BY <2>1 DEF PullRebase, ListUnmerged
    <3>4. faults' \in 0..MaxFaults /\ lost' \in [LostCalls -> SUBSET Syncs]
      BY <3>3, LoseType DEF LostCalls
    <3>5. QED
      BY <2>1, <3>1, <3>2, <3>4 DEF PullRebase
  <2>2. CASE Fetch(s)
    <3>1. sync' \in [Syncs -> SyncSteps]
      BY <2>2, GotoType DEF Fetch, SyncSteps, Goto
    <3>2. res' \in [Syncs -> Result]
      BY <2>2 DEF Fetch
    <3>3. UNCHANGED <<faults, lost>> \/ Lose("fetch", s)
      BY <2>2 DEF Fetch
    <3>4. faults' \in 0..MaxFaults /\ lost' \in [LostCalls -> SUBSET Syncs]
      BY <3>3, LoseType DEF LostCalls
    <3>5. QED
      BY <2>2, <3>1, <3>2, <3>4 DEF Fetch
  <2>3. CASE BeginRebase(s)
    <3>1. sync' \in [Syncs -> SyncSteps]
      BY <2>3, GotoType DEF BeginRebase, Pulled, SyncSteps, Goto
    <3>2. res' \in [Syncs -> Result]
      BY <2>3, PulledType DEF BeginRebase
    <3>3. QED
      BY <2>3, <3>1, <3>2 DEF BeginRebase, Changes
  <2>4. CASE Pick(s)
    <3>1. sync' \in [Syncs -> SyncSteps]
      BY <2>4, GotoType DEF Pick, SyncSteps, Goto
    <3>2. res' \in [Syncs -> Result]
      BY <2>4 DEF Pick
    <3>3. rebase' \in Rebase
      BY <2>4, PickType
    <3>4. QED
      BY <2>4, <3>1, <3>2, <3>3 DEF Pick
  <2>5. CASE FinishRebase(s)
    <3>1. sync' \in [Syncs -> SyncSteps]
      BY <2>5, GotoType DEF FinishRebase, Pulled, SyncSteps, Goto
    <3>2. res' \in [Syncs -> Result]
      BY <2>5, PulledType DEF FinishRebase
    <3>3. QED
      BY <2>5, <3>1, <3>2 DEF FinishRebase
  <2>6. CASE LoseRebase(s)
    <3>1. sync' \in [Syncs -> SyncSteps]
      BY <2>6, GotoType DEF LoseRebase, SyncSteps, Goto
    <3>2. res' \in [Syncs -> Result]
      BY <2>6 DEF LoseRebase
    <3>3. QED
      BY <2>6, <3>1, <3>2 DEF LoseRebase
  <2>7. CASE Inspect(s)
    <3>1. sync' \in [Syncs -> SyncSteps]
      BY <2>7, GotoType DEF Inspect, Fail, SyncSteps, Goto
    <3>2. res' \in [Syncs -> Result]
      BY <2>7, FailType DEF Inspect
    <3>3. QED
      BY <2>7, <3>1, <3>2 DEF Inspect
  <2>8. CASE ConflictFiles(s)
    <3>1. sync' \in [Syncs -> SyncSteps]
      BY <2>8, GotoType DEF ConflictFiles, Pulled, SyncSteps, Goto
    <3>2. res' \in [Syncs -> Result]
      BY <2>8, AnswerType
    <3>3. UNCHANGED <<faults, lost>> \/ Lose("files", s)
      BY <2>8 DEF ConflictFiles, ListUnmerged
    <3>4. faults' \in 0..MaxFaults /\ lost' \in [LostCalls -> SUBSET Syncs]
      BY <3>3, LoseType DEF LostCalls
    <3>5. QED
      BY <2>8, <3>1, <3>2, <3>4 DEF ConflictFiles
  <2>9. CASE Push(s)
    <3>1. sync' \in [Syncs -> SyncSteps]
      BY <2>9, GotoType DEF Push, Fail, SyncSteps, Goto
    <3>2. res' \in [Syncs -> Result]
      BY <2>9, AnswerType
    <3>3. QED
      BY <2>9, <3>1, <3>2 DEF Push, Fault
  <2>10. QED
    BY <1>5, <2>1, <2>2, <2>3, <2>4, <2>5, <2>6, <2>7, <2>8, <2>9 DEF SyncStep
<1>6. ASSUME NEW d \in Devs, Upstream(d) PROVE SyncTypeOK'
  BY <1>6 DEF Upstream, Changes
<1>7. CASE Resolve
  BY <1>7 DEF Resolve, Use, Changes
<1>8. CASE AbortRebase
  BY <1>8 DEF AbortRebase, Use
<1>9. CASE UNCHANGED syncVars
  BY <1>9 DEF syncVars
<1>10. QED
  BY <1>1, <1>2, <1>3, <1>4, <1>5, <1>6, <1>7, <1>8, <1>9 DEF SyncNext, Idle

-----------------------------------------------------------------------------
\* What a step does to the history: the branch grows, a rebase keeps what it
\* has and owes, and only an abort takes commits off the HEAD.
LEMMA HistoryStep ==
  ASSUME SyncInv, [SyncNext]_syncVars
  PROVE  /\ branch \subseteq branch'
         /\ "abort" \notin used' => HEAD \subseteq (branch \cup HEAD)'
         /\ Replays'
         /\ used \subseteq used'
<1> USE NoneAssumption DEF IsRebaseInProgress, HEAD, Replays
<1>1. Replays /\ (rebase # None => rebase \in Rebase)
  BY DEF SyncInv, SyncTypeOK
<1> DEFINE Goal == /\ branch \subseteq branch'
                   /\ "abort" \notin used' => HEAD \subseteq (branch \cup HEAD)'
                   /\ Replays'
                   /\ used \subseteq used'
<1>2. ASSUME UNCHANGED <<branch, rebase, used>> PROVE Goal
  BY <1>1, <1>2
<1>3. ASSUME NEW w \in Savers, Add(w) PROVE Goal
  BY <1>1, <1>3 DEF Add, Rebase
<1>4. ASSUME NEW w \in Savers, Commit(w) PROVE Goal
  <2>1. used' = used /\ (UNCHANGED <<branch, rebase>> \/ CommitOf(staged))
    BY <1>4 DEF Commit, CommitOf
  <2>2. CASE CommitOf(staged)
    <3>1. CASE rebase = None
      BY <2>1, <2>2, <3>1 DEF CommitOf
    <3>2. CASE rebase # None
      BY <1>1, <2>1, <2>2, <3>2, CommitType DEF SyncInv
    <3>3. QED
      BY <3>1, <3>2
  <2>3. QED
    BY <1>2, <2>1, <2>2
<1>5. ASSUME NEW s \in Syncs, BeginRebase(s) PROVE Goal
  BY <1>1, <1>5 DEF BeginRebase
<1>6. ASSUME NEW s \in Syncs, Pick(s) PROVE Goal
  <2>1. rebase \in Rebase /\ UNCHANGED <<branch, used>>
    BY <1>1, <1>6 DEF Pick
  <2>2. \E c \in rebase.todo :
          \/ rebase' = [rebase EXCEPT !.head = rebase.head \cup {c},
                                     !.todo = rebase.todo \ {c}]
          \/ \E u : Stop(u)
    BY <1>6 DEF Pick
  <2>3. /\ rebase.head \subseteq rebase'.head
        /\ rebase.head \cup rebase.todo \subseteq rebase'.head \cup rebase'.todo
    BY <2>1, <2>2 DEF Stop, Rebase
  <2>4. rebase' \in Rebase
    BY <1>6, PickType DEF SyncInv
  <2>5. QED
    BY <1>1, <2>1, <2>3, <2>4
<1>7. ASSUME NEW s \in Syncs, FinishRebase(s) PROVE Goal
  BY <1>1, <1>7 DEF FinishRebase
<1>8. CASE Resolve
  BY <1>1, <1>8 DEF Resolve, Use
<1>9. CASE AbortRebase
  BY <1>1, <1>9 DEF AbortRebase, Use
<1>10. \/ \E w \in Savers : Add(w) \/ Commit(w)
       \/ \E s \in Syncs : BeginRebase(s) \/ Pick(s) \/ FinishRebase(s)
       \/ Resolve \/ AbortRebase
       \/ UNCHANGED <<branch, rebase, used>>
  BY DEF SyncNext, SyncStep, WriteDoc, Press, PullRebase, Fetch, LoseRebase, Inspect,
         ConflictFiles, Push, Upstream, Idle, syncVars, repo
<1>11. QED
  BY <1>2, <1>3, <1>4, <1>5, <1>6, <1>7, <1>8, <1>9, <1>10

-----------------------------------------------------------------------------
\* Every step keeps track of the saves under way.
LEMMA SaveStep ==
  ASSUME SyncInv, [SyncNext]_syncVars
  PROVE  PathExclusive' /\ Tracked' /\ AckedIsInHistory'
<1> USE DEF SyncInv, SyncTypeOK, InHistory
<1>1. \A w \in Savers : "abort" \notin used' /\ InHistory(w) => InHistory(w)'
  BY HistoryStep
<1>2. used \subseteq used'
  BY HistoryStep
<1>3. ASSUME UNCHANGED <<path, written, staged, save>>
      PROVE  PathExclusive' /\ Tracked' /\ AckedIsInHistory'
  BY <1>1, <1>2, <1>3 DEF PathExclusive, Tracked, AckedIsInHistory
<1>4. ASSUME NEW w \in Savers, WriteDoc(w)
      PROVE  PathExclusive' /\ Tracked' /\ AckedIsInHistory'
  <2>1. PathExclusive'
    BY <1>4 DEF WriteDoc, PathFree, PathExclusive
  <2>2. Tracked' /\ AckedIsInHistory'
    BY <1>1, <1>2, <1>4 DEF WriteDoc, Tracked, AckedIsInHistory
  <2>3. QED
    BY <2>1, <2>2
<1>5. ASSUME NEW w \in Savers, Add(w)
      PROVE  PathExclusive' /\ Tracked' /\ AckedIsInHistory'
  <2>1. PathExclusive'
    BY <1>5 DEF Add, PathExclusive
  <2>2. \A v \in Savers \ {w} : save[v] = "added" => path[v] # path[w]
    BY <1>5 DEF Add, PathExclusive
  <2>3. Tracked'
    BY <1>1, <1>2, <1>5, <2>2 DEF Add, Tracked
  <2>4. AckedIsInHistory'
    BY <1>1, <1>2, <1>5 DEF Add, AckedIsInHistory
  <2>5. QED
    BY <2>1, <2>3, <2>4
<1>6. ASSUME NEW w \in Savers, Commit(w)
      PROVE  PathExclusive' /\ Tracked' /\ AckedIsInHistory'
  <2>1. /\ save' \in {[save EXCEPT ![w] = "ok"], [save EXCEPT ![w] = "failed"]}
        /\ UNCHANGED <<path, written, used>>
    BY <1>6 DEF Commit, Acknowledge
  <2>2. PathExclusive'
    BY <2>1 DEF PathExclusive
  <2>3. \A v \in staged : v \in staged' \/ InHistory(v)'
    <3>1. UNCHANGED staged \/ CommitOf(staged)
      BY <1>6 DEF Commit, CommitOf
    <3>2. CASE CommitOf(staged) /\ rebase # None
      BY <3>2, CommitType, NoneAssumption DEF HEAD, IsRebaseInProgress
    <3>3. CASE CommitOf(staged) /\ rebase = None
      BY <3>3 DEF CommitOf, IsRebaseInProgress
    <3>4. QED
      BY <3>1, <3>2, <3>3
  <2>4. save'[w] = "ok" => w \notin staged'
    BY <1>6 DEF Commit, Acknowledge
  <2>5. Tracked'
    BY <1>1, <2>1, <2>3 DEF Tracked
  <2>6. AckedIsInHistory'
    BY <1>1, <1>6, <2>1, <2>3, <2>4 DEF AckedIsInHistory, Tracked, Commit
  <2>7. QED
    BY <2>2, <2>5, <2>6
<1>7. CASE Resolve
  <2>1. staged \subseteq branch' /\ written = {} /\ UNCHANGED <<path, written, save>>
    BY <1>7 DEF Resolve
  <2>2. QED
    BY <1>1, <1>2, <2>1 DEF PathExclusive, Tracked, AckedIsInHistory
<1>8. CASE AbortRebase
  BY <1>8 DEF AbortRebase, Use, PathExclusive, Tracked, AckedIsInHistory
<1>9. \/ \E w \in Savers : WriteDoc(w) \/ Add(w) \/ Commit(w)
      \/ Resolve \/ AbortRebase
      \/ UNCHANGED <<path, written, staged, save>>
  BY DEF SyncNext, SyncStep, BeginRebase, Pick, FinishRebase, Press, PullRebase, Fetch,
         LoseRebase, Inspect, ConflictFiles, Push, Upstream, Idle, syncVars, repo, files
<1>10. QED
  BY <1>3, <1>4, <1>5, <1>6, <1>7, <1>8, <1>9

-----------------------------------------------------------------------------
\* The invariant of the synchronisation: types, the commits a rebase owes, and
\* the whereabouts of every save's change.
THEOREM SyncInvariance == SyncSpec => []SyncInv
<1>1. SyncInv /\ [SyncNext]_syncVars => SyncInv'
  BY TypeStep, HistoryStep, SaveStep DEF SyncInv
<1>2. QED
  BY InitInd, <1>1, PTL DEF SyncSpec

\* A save that has been answered is in the history, whatever syncs, rebases and
\* resolutions ran meanwhile, as long as nobody aborts a rebase
\* (gitstore.go:104-121, 289-312).
THEOREM AnsweredSavesStay == SyncSpec => []AckedIsInHistory
<1>1. SyncInv => AckedIsInHistory
  BY DEF SyncInv
<1>2. QED
  BY SyncInvariance, <1>1, PTL

\* No step takes a commit off the branch, an abort included (gitstore.go:252).
THEOREM BranchGrows == SyncSpec => BranchKeepsSaves
<1>1. SyncInv /\ [SyncNext]_syncVars => [branch \subseteq branch']_syncVars
  BY HistoryStep
<1>2. QED
  BY SyncInvariance, <1>1, PTL DEF SyncSpec, BranchKeepsSaves
-----------------------------------------------------------------------------
(***************************************************************************)
(* What somebody is told, and what somebody will still push                *)
(***************************************************************************)
\* A sync starts when its save is in, and has its result when it ends.
Awaited ==
  /\ \A w \in Savers : save[w] # "ok" => sync[w] = "idle"
  /\ \A s \in Syncs : /\ sync[s] = "idle" => button[s] = "sync"
                      /\ sync[s] # "done" => res[s].error = "none" /\ ~res[s].conflict

\* A sync that has its rebase stopped by a conflict reports it, or is about to.
ConflictAwaited ==
  IsRebaseInProgress /\ rebase.unmerged # {} =>
    \E s \in Syncs : \/ sync[s] \in {"inspect", "files"}
                     \/ res[s].conflict
                     \/ s \in lost["files"]

\* The premises of QuietIsPushed, as they are at any time.
Undisturbed ==
  /\ used = {}
  /\ \A w \in Savers : save[w] # "failed"
  /\ \A s \in Syncs : ~OwesPush(s)
  /\ IsRebaseInProgress => rebase.runner # None

\* A save or a sync under way that a push will follow.
Busy ==
  \/ \E w \in Savers : save[w] \in {"written", "added"}
  \/ \E s \in Syncs : sync[s] \in {"start", "fetch", "begin", "push"}
  \/ IsRebaseInProgress

PushAwaited ==
  Undisturbed =>
    /\ \A w \in written : save[w] = "written"
    /\ \A w \in staged : save[w] = "added"
    /\ IsRebaseInProgress => rebase.unmerged = {} /\ sync[rebase.runner] = "pick"
    /\ \A w \in Savers : save[w] = "ok" => w \in remote \/ Busy

\* A successful pull goes on without an error or a conflict of its own.
LEMMA PulledShape ==
  ASSUME SyncTypeOK, NEW s \in Syncs, Pulled(s)
  PROVE  /\ sync'[s] \in {"push", "done"}
         /\ button[s] = "sync" => sync'[s] = "push"
         /\ \A t \in Syncs \ {s} : sync'[t] = sync[t] /\ res'[t] = res[t]
         /\ res'[s].error = res[s].error /\ res'[s].conflict = res[s].conflict
<1>1. res[s] \in Result
  BY DEF SyncTypeOK
<1>2. /\ \A t \in Syncs \ {s} : res'[t] = res[t]
      /\ res'[s] = [res[s] EXCEPT !.pulled = TRUE]
  BY DEF Pulled, SyncTypeOK
<1>3. res'[s].error = res[s].error /\ res'[s].conflict = res[s].conflict
  BY <1>1, <1>2 DEF Result
<1>4. QED
  BY <1>2, <1>3 DEF Pulled, Goto, SyncTypeOK

\* A step of a sync: it has begun and has not ended, it concerns nobody else's
\* result, and it is over when there is an error or a conflict to report.
LEMMA SyncStepShape ==
  ASSUME SyncTypeOK, NEW s \in Syncs, SyncStep(s)
  PROVE  /\ UNCHANGED <<path, files, save, button, used>>
         /\ \A c \in LostCalls : lost[c] \subseteq lost'[c]
         /\ sync[s] \notin {"idle", "done"} /\ sync'[s] # "idle"
         /\ \A t \in Syncs \ {s} : sync'[t] = sync[t] /\ res'[t] = res[t]
         /\ sync'[s] # "done" =>
              res'[s].error = res[s].error /\ res'[s].conflict = res[s].conflict
<1> USE DEF SyncTypeOK, Goto, LostCalls
<1>1. CASE PullRebase(s)
  <2>1. sync' = [sync EXCEPT ![s] = "done"] \/ (sync' = [sync EXCEPT ![s] = "fetch"] /\ res' = res)
    BY <1>1 DEF PullRebase
  <2>2. \A t \in Syncs \ {s} : res'[t] = res[t]
    BY <1>1 DEF PullRebase
  <2>3. \A c \in LostCalls : lost[c] \subseteq lost'[c]
    BY <1>1, LoseType DEF PullRebase, ListUnmerged
  <2>4. QED
    BY <1>1, <2>1, <2>2, <2>3 DEF PullRebase, repo, files
<1>2. CASE Fetch(s)
  <2>1. \A c \in LostCalls : lost[c] \subseteq lost'[c]
    BY <1>2, LoseType DEF Fetch
  <2>2. QED
    BY <1>2, <2>1 DEF Fetch, repo, files
<1>3. CASE BeginRebase(s)
  <2>1. Pulled(s) \/ (UNCHANGED res /\ \E t \in {"inspect", "pick"} : Goto(s, t))
    BY <1>3 DEF BeginRebase
  <2>2. QED
    BY <1>3, <2>1, PulledShape DEF BeginRebase, files
<1>4. CASE Pick(s)
  BY <1>4 DEF Pick, files
<1>5. CASE FinishRebase(s)
  BY <1>5, PulledShape DEF FinishRebase, files
<1>6. CASE LoseRebase(s)
  BY <1>6 DEF LoseRebase, repo, files
<1>7. CASE Inspect(s)
  BY <1>7 DEF Inspect, Fail, repo, files
<1>8. CASE ConflictFiles(s)
  <2>1. \/ Pulled(s)
        \/ (sync' = [sync EXCEPT ![s] = "done"] /\ res' = [res EXCEPT ![s].conflict = TRUE])
    BY <1>8 DEF ConflictFiles
  <2>2. \A c \in LostCalls : lost[c] \subseteq lost'[c]
    BY <1>8, LoseType DEF ConflictFiles, ListUnmerged
  <2>3. QED
    BY <1>8, <2>1, <2>2, PulledShape DEF ConflictFiles, repo, files
<1>9. CASE Push(s)
  <2>1. sync' = [sync EXCEPT ![s] = "done"]
    BY <1>9 DEF Push, Fail
  <2>2. \A t \in Syncs \ {s} : res'[t] = res[t]
    BY <1>9 DEF Push, Fail
  <2>3. QED
    BY <1>9, <2>1, <2>2 DEF Push, files
<1>10. QED
  BY <1>1, <1>2, <1>3, <1>4, <1>5, <1>6, <1>7, <1>8, <1>9 DEF SyncStep

LEMMA AwaitedStep == SyncTypeOK /\ Awaited /\ [SyncNext]_syncVars => Awaited'
<1> SUFFICES ASSUME SyncTypeOK, Awaited, [SyncNext]_syncVars PROVE Awaited'
  OBVIOUS
<1> USE DEF Awaited
<1>1. ASSUME NEW w \in Savers, Commit(w) PROVE Awaited'
  <2>1. /\ UNCHANGED <<button, res>> /\ save[w] = "added" /\ sync[w] = "idle"
        /\ \/ UNCHANGED sync /\ save' = [save EXCEPT ![w] = "failed"]
           \/ /\ sync' = [sync EXCEPT ![w] = "start"]
              /\ save' = [save EXCEPT ![w] = "ok"]
    BY <1>1 DEF Commit, Acknowledge
  <2>2. QED
    BY <2>1, Savers \subseteq Syncs DEF SyncTypeOK, Syncs
<1>2. ASSUME NEW w \in Savers, WriteDoc(w) \/ Add(w) PROVE Awaited'
  BY <1>2 DEF WriteDoc, Add, run, SyncTypeOK
<1>3. ASSUME NEW a \in Admins, Press(a) PROVE Awaited'
  BY <1>3, SyncAssumption DEF Press, Goto, SyncTypeOK, Syncs
<1>4. ASSUME NEW s \in Syncs, SyncStep(s) PROVE Awaited'
  BY <1>4, SyncStepShape DEF Syncs
<1>5. CASE UNCHANGED <<save, run>>
  BY <1>5 DEF run
<1>6. QED
  BY <1>1, <1>2, <1>3, <1>4, <1>5 DEF SyncNext, Upstream, Resolve, AbortRebase, Idle, syncVars

LEMMA ConflictStep ==
  SyncTypeOK /\ Awaited /\ ConflictAwaited /\ [SyncNext]_syncVars => ConflictAwaited'
<1> SUFFICES ASSUME SyncTypeOK, Awaited, ConflictAwaited, [SyncNext]_syncVars,
                    IsRebaseInProgress', rebase'.unmerged # {}
             PROVE  \E s \in Syncs : \/ sync'[s] \in {"inspect", "files"}
                                      \/ res'[s].conflict
                                      \/ s \in lost'["files"]
  BY DEF ConflictAwaited
<1> DEFINE Told == \E s \in Syncs : \/ sync'[s] \in {"inspect", "files"}
                                    \/ res'[s].conflict
                                    \/ s \in lost'["files"]
<1> USE NoneAssumption DEF IsRebaseInProgress, SyncTypeOK
<1>1. ASSUME rebase # None, rebase.unmerged # {},
             \A s \in Syncs : /\ sync[s] \in {"inspect", "files"} => sync'[s] = sync[s]
                              /\ res'[s].conflict = res[s].conflict,
             lost["files"] \subseteq lost'["files"]
      PROVE  Told
  BY <1>1 DEF ConflictAwaited
<1>2. ASSUME NEW w \in Savers, WriteDoc(w) \/ Add(w) \/ Commit(w) PROVE Told
  <2>1. w \in Syncs /\ UNCHANGED <<res, lost>> /\ (sync' = sync \/ sync' = [sync EXCEPT ![w] = "start"])
    BY <1>2 DEF WriteDoc, Add, Commit, Acknowledge, run, Syncs
  <2>2. save[w] # "ok"
    BY <1>2 DEF WriteDoc, Add, Commit
  <2>3. sync[w] = "idle"
    BY <2>2 DEF Awaited
  <2>4. rebase # None /\ rebase.unmerged # {}
    BY <1>2 DEF WriteDoc, Add, Commit, Rebase
  <2>5. QED
    BY <1>1, <2>1, <2>3, <2>4
<1>3. ASSUME NEW a \in Admins, Press(a) PROVE Told
  BY <1>1, <1>3 DEF Press, Goto, repo, Syncs
<1>4. ASSUME NEW s \in Syncs, SyncStep(s) PROVE Told
  <2>0. lost["files"] \subseteq lost'["files"]
    BY <1>4, SyncStepShape DEF LostCalls
  <2>1. CASE BeginRebase(s)
    <3>1. UNCHANGED rebase /\ rebase # None
      BY <2>1 DEF BeginRebase
    <3>2. QED
      BY <1>1, <2>0, <2>1, <3>1 DEF BeginRebase, Goto
  <2>2. CASE Pick(s)
    <3>1. CASE sync'[s] = "inspect"
      BY <3>1
    <3>2. CASE rebase'.unmerged = rebase.unmerged /\ sync' = sync
      BY <1>1, <2>0, <2>2, <3>2 DEF Pick
    <3>3. \/ sync' = sync /\ \E c \in rebase.todo :
                 rebase' = [rebase EXCEPT !.head = @ \cup {c}, !.todo = @ \ {c}]
          \/ sync' = [sync EXCEPT ![s] = "inspect"]
      BY <2>2 DEF Pick, Goto
    <3>4. rebase \in Rebase
      BY <2>2 DEF Pick
    <3>5. \A c : [rebase EXCEPT !.head = @ \cup {c}, !.todo = @ \ {c}].unmerged = rebase.unmerged
      BY <3>4 DEF Rebase
    <3>6. CASE sync' = [sync EXCEPT ![s] = "inspect"]
      BY <3>1, <3>6
    <3>7. QED
      BY <3>2, <3>3, <3>5, <3>6
  <2>3. CASE FinishRebase(s)
    BY <2>3 DEF FinishRebase
  <2>4. CASE LoseRebase(s)
    BY <2>4 DEF LoseRebase, Goto
  <2>5. CASE Inspect(s)
    BY <2>5 DEF Inspect, Goto, repo
  <2>6. CASE ConflictFiles(s)
    <3>1. UNCHANGED rebase
      BY <2>6 DEF ConflictFiles, repo
    <3>2. \/ res' = [res EXCEPT ![s].conflict = TRUE]
          \/ Lose("files", s)
      BY <2>6, <3>1 DEF ConflictFiles, ListUnmerged
    <3>3. CASE res' = [res EXCEPT ![s].conflict = TRUE]
      <4>1. res'[s].conflict
        BY <3>3 DEF Result
      <4>2. QED
        BY <4>1
    <3>4. CASE Lose("files", s)
      <4>1. s \in lost'["files"]
        BY <3>4 DEF Lose, LostCalls
      <4>2. QED
        BY <4>1
    <3>5. QED
      BY <3>2, <3>3, <3>4
  <2>7. CASE PullRebase(s) \/ Fetch(s) \/ Push(s)
    <3>0. PullRebase(s) \/ Fetch(s) => rebase' = rebase
      BY DEF PullRebase, Fetch, repo
    <3>1. sync[s] \in {"start", "fetch", "push"} /\ UNCHANGED rebase
      BY <2>7, <3>0 DEF PullRebase, Fetch, Push
    <3>2. ~res[s].conflict
      BY <3>1 DEF Awaited
    <3>3. PICK t \in Syncs : \/ sync[t] \in {"inspect", "files"}
                             \/ res[t].conflict
                             \/ t \in lost["files"]
      BY <3>1 DEF ConflictAwaited
    <3>4. CASE t \in lost["files"]
      BY <2>0, <3>4
    <3>5. CASE t \notin lost["files"]
      <4>1. t # s
        BY <3>1, <3>2, <3>3, <3>5
      <4>2. QED
        BY <1>4, <3>3, <3>5, <4>1, SyncStepShape
    <3>6. QED
      BY <3>4, <3>5
  <2>8. QED
    BY <1>4, <2>1, <2>2, <2>3, <2>4, <2>5, <2>6, <2>7 DEF SyncStep
<1>5. CASE Resolve \/ AbortRebase
  BY <1>5 DEF Resolve, AbortRebase
<1>6. CASE UNCHANGED <<rebase, run, lost>>
  BY <1>1, <1>6 DEF run
<1>7. QED
  BY <1>2, <1>3, <1>4, <1>5, <1>6 DEF SyncNext, Upstream, Idle, syncVars, repo

\* A rebase that stops on a conflict is shown to somebody, whatever saves and
\* other syncs run or fail meanwhile, but for a sync whose git diff failed
\* (gitstore.go:239-243, 303-312, 332-340).
THEOREM ConflictIsReported == SyncSpec => []ConflictReported
<1> DEFINE Inv == Awaited /\ ConflictAwaited
<1>1. SyncInit => Inv
  BY DEF SyncInit, Awaited, ConflictAwaited, NoResult, IsRebaseInProgress, Syncs
<1>2. SyncInv /\ Inv /\ [SyncNext]_syncVars => Inv'
  BY AwaitedStep, ConflictStep DEF SyncInv
<1>3. Inv => ConflictReported
  <2> SUFFICES ASSUME Inv, Quiet, IsRebaseInProgress, rebase.unmerged # {}
               PROVE  \E s \in Syncs : res[s].conflict \/ s \in lost["files"]
    BY DEF ConflictReported
  <2>1. QED
    BY DEF ConflictAwaited, Quiet
<1>4. QED
  BY <1>1, <1>2, <1>3, SyncInvariance, PTL DEF SyncSpec

\* A save may settle a conflict of a rebase; otherwise it leaves the rebase alone.
LEMMA SaveKeepsRebase ==
  ASSUME SyncTypeOK, NEW w \in Savers, WriteDoc(w) \/ Add(w) \/ Commit(w)
  PROVE  /\ ~IsRebaseInProgress => ~IsRebaseInProgress'
         /\ IsRebaseInProgress =>
              /\ IsRebaseInProgress' /\ rebase'.runner = rebase.runner
              /\ rebase'.unmerged \subseteq rebase.unmerged
<1> USE NoneAssumption DEF IsRebaseInProgress, SyncTypeOK
<1>1. CASE UNCHANGED rebase
  BY <1>1
<1>2. CASE Add(w)
  BY <1>2 DEF Add, Rebase
<1>3. CASE CommitOf(staged)
  <2>1. CASE rebase # None
    <3>1. rebase' = [rebase EXCEPT !.head = rebase.head \cup staged]
      BY <1>3, <2>1 DEF CommitOf
    <3>2. rebase' \in Rebase
      BY <1>3, <2>1, CommitType
    <3>3. QED
      BY <2>1, <3>1, <3>2 DEF Rebase
  <2>2. CASE rebase = None
    BY <1>3, <2>2 DEF CommitOf
  <2>3. QED
    BY <2>1, <2>2
<1>4. QED
  BY <1>1, <1>2, <1>3 DEF WriteDoc, Commit, CommitOf

\* What is disturbed stays so: nothing takes a failed save, a tool that was used,
\* a push that is owed or a stopped rebase back.
LEMMA UndisturbedBefore ==
  SyncTypeOK /\ Awaited /\ [SyncNext]_syncVars /\ Undisturbed' => Undisturbed
<1> SUFFICES ASSUME SyncTypeOK, Awaited, [SyncNext]_syncVars, Undisturbed' PROVE Undisturbed
  OBVIOUS
<1> USE NoneAssumption DEF Undisturbed, IsRebaseInProgress, SyncTypeOK
<1>1. ASSUME UNCHANGED <<rebase, run, save, lost, used>> PROVE Undisturbed
  BY <1>1 DEF run, OwesPush
<1>2. ASSUME NEW w \in Savers, WriteDoc(w) \/ Add(w) \/ Commit(w) PROVE Undisturbed
  <2>1. UNCHANGED <<button, res, used, lost>>
    BY <1>2 DEF WriteDoc, Add, Commit, Acknowledge, run
  <2>2. \A v \in Savers : save[v] # "failed"
    BY <1>2 DEF WriteDoc, Add, Commit, Acknowledge
  <2>3. rebase # None => rebase' # None /\ rebase'.runner = rebase.runner
    BY <1>2, SaveKeepsRebase
  <2>4. QED
    BY <2>1, <2>2, <2>3 DEF OwesPush
<1>3. ASSUME NEW a \in Admins, Press(a) PROVE Undisturbed
  <2>1. sync[a] = "idle" /\ a \in Syncs
    BY <1>3 DEF Press, Syncs
  <2>2. button[a] = "sync"
    BY <2>1 DEF Awaited
  <2>3. QED
    BY <1>3, <2>2 DEF Press, repo, OwesPush
<1>4. ASSUME NEW s \in Syncs, SyncStep(s) PROVE Undisturbed
  <2>1. \A t \in Syncs : res[t].error # "push"
    BY <1>4, SyncStepShape DEF Awaited, OwesPush
  <2>2. UNCHANGED <<button, save, used>> /\ lost["fetch"] \subseteq lost'["fetch"]
    BY <1>4, SyncStepShape DEF LostCalls
  <2>3. rebase # None => rebase.runner # None
    <3>1. CASE UNCHANGED rebase
      BY <3>1
    <3>2. CASE BeginRebase(s) /\ ~UNCHANGED rebase
      BY <3>2 DEF BeginRebase
    <3>3. CASE Pick(s) \/ FinishRebase(s)
      <4>1. rebase # None /\ rebase.runner = s
        BY <3>3, Zenon DEF Pick, FinishRebase
      <4>2. QED
        BY <4>1
    <3>4. QED
      BY <1>4, <3>1, <3>2, <3>3
         DEF SyncStep, PullRebase, Fetch, LoseRebase, Inspect, ConflictFiles, Push, repo
  <2>4. QED
    BY <2>1, <2>2, <2>3 DEF OwesPush
<1>5. CASE \E d \in Devs : Upstream(d)
  BY <1>1, <1>5 DEF Upstream
<1>6. CASE Resolve \/ AbortRebase
  BY <1>6 DEF Resolve, AbortRebase, Use
<1>7. QED
  BY <1>1, <1>2, <1>3, <1>4, <1>5, <1>6 DEF SyncNext, Idle, syncVars, repo

\* Nobody's push is lost: as long as nothing disturbs the syncs, an answered
\* save that is not on the remote has somebody under way who will push it.
LEMMA PushStep ==
  SyncInv /\ Awaited /\ PushAwaited /\ [SyncNext]_syncVars => PushAwaited'
<1> SUFFICES ASSUME SyncInv, SyncTypeOK, Awaited, PushAwaited, [SyncNext]_syncVars, Undisturbed'
             PROVE  /\ \A w \in written' : save'[w] = "written"
                    /\ \A w \in staged' : save'[w] = "added"
                    /\ IsRebaseInProgress' =>
                         rebase'.unmerged = {} /\ sync'[rebase'.runner] = "pick"
                    /\ \A w \in Savers : save'[w] = "ok" => w \in remote' \/ Busy'
  BY DEF PushAwaited, SyncInv
<1> DEFINE Files == /\ \A w \in written' : save'[w] = "written"
                    /\ \A w \in staged' : save'[w] = "added"
           Runs == rebase' # None => rebase'.unmerged = {} /\ sync'[rebase'.runner] = "pick"
           Sent == \A w \in Savers : save'[w] = "ok" => w \in remote' \/ Busy'
<1> USE NoneAssumption DEF IsRebaseInProgress, SyncTypeOK
<1>0. /\ SyncTypeOK /\ Undisturbed
      /\ \A w \in written : save[w] = "written"
      /\ \A w \in staged : save[w] = "added"
      /\ rebase # None => rebase.unmerged = {} /\ sync[rebase.runner] = "pick"
      /\ \A w \in Savers : save[w] = "ok" => w \in remote \/ Busy
  BY UndisturbedBefore DEF SyncInv, PushAwaited
<1>a. rebase # None => rebase \in Rebase /\ rebase.runner \in Syncs
  BY <1>0 DEF Undisturbed, Rebase
<1>1. ASSUME NEW w \in Savers, WriteDoc(w) PROVE Files /\ Runs /\ Sent
  BY <1>0, <1>1 DEF WriteDoc, run, Busy
<1>2. ASSUME NEW w \in Savers, Add(w) PROVE Files /\ Runs /\ Sent
  <2>1. rebase # None => rebase' # None /\ rebase'.unmerged \subseteq rebase.unmerged
                         /\ rebase'.runner = rebase.runner
    BY <1>2, SaveKeepsRebase
  <2>2. rebase = None => rebase' = None
    BY <1>2, SaveKeepsRebase
  <2>3. Runs
    BY <1>0, <1>2, <2>1, <2>2 DEF Add, run
  <2>4. Files
    BY <1>0, <1>2 DEF Add
  <2>5. Busy'
    BY <1>2 DEF Add, Busy
  <2>6. QED
    BY <2>3, <2>4, <2>5
<1>3. ASSUME NEW w \in Savers, Commit(w) PROVE Files /\ Runs /\ Sent
  <2>1. w \in Syncs /\ UNCHANGED written
    BY <1>3 DEF Commit, Syncs
  <2>2. sync[w] = "idle"
    BY <1>3 DEF Awaited, Commit
  <2>3. save'[w] # "failed"
    BY DEF Undisturbed
  <2>4. /\ Acknowledge(w)
        /\ \/ w \notin staged /\ UNCHANGED <<rebase, staged>>
           \/ staged' = {} /\ CommitOf(staged)
    BY <1>0, <1>3, <2>3 DEF Commit, CommitOf
  <2>5. Files
    BY <1>0, <2>1, <2>4, <1>3 DEF Acknowledge, Commit
  <2>6. rebase' # None => /\ rebase # None /\ rebase'.unmerged \subseteq rebase.unmerged
                          /\ rebase'.runner = rebase.runner
    BY <1>3, SaveKeepsRebase
  <2>7. Runs
    BY <1>0, <1>a, <2>2, <2>4, <2>6, <2>1 DEF Acknowledge
  <2>8. Busy'
    BY <2>1, <2>4 DEF Acknowledge, Busy
  <2>9. QED
    BY <2>5, <2>7, <2>8
<1>4. ASSUME NEW a \in Admins, Press(a) PROVE Files /\ Runs /\ Sent
  <2>1. a \in Syncs /\ sync[a] = "idle" /\ sync' = [sync EXCEPT ![a] = "start"]
        /\ UNCHANGED <<rebase, written, staged, save>>
    BY <1>4 DEF Press, Goto, Syncs, repo, files
  <2>2. Busy'
    BY <2>1 DEF Busy
  <2>3. QED
    BY <1>0, <1>a, <2>1, <2>2
<1>5. ASSUME NEW s \in Syncs, SyncStep(s) PROVE Files /\ Runs /\ Sent
  <2>1. /\ UNCHANGED <<written, staged, save>>
        /\ sync[s] \notin {"idle", "done"}
        /\ \A t \in Syncs \ {s} : sync'[t] = sync[t]
        /\ button[s] = "sync"
    BY <1>0, <1>5, SyncStepShape DEF files, Undisturbed, OwesPush
  <2>2. Files
    BY <1>0, <2>1
  <2>3. ASSUME UNCHANGED <<rebase, remote>>, sync[s] # "pick",
               sync'[s] \in {"start", "fetch", "begin", "push"} \/ sync[s] \in {"inspect", "files"}
        PROVE  Files /\ Runs /\ Sent
    <3>1. Runs
      BY <1>0, <1>a, <2>1, <2>3
    <3>2. Busy => Busy'
      BY <2>1, <2>3 DEF Busy
    <3>3. QED
      BY <1>0, <2>1, <2>2, <2>3, <3>1, <3>2
  <2>4. ASSUME UNCHANGED rebase, sync[s] # "pick", Busy' PROVE Files /\ Runs /\ Sent
    BY <1>0, <1>a, <2>1, <2>2, <2>4
  <2>5. CASE PullRebase(s)
    BY <2>4, <2>5 DEF PullRebase, Goto, Busy, repo
  <2>6. CASE Fetch(s)
    <3>1. ~Lose("fetch", s)
      BY <1>0 DEF Undisturbed, OwesPush, Lose, LostCalls
    <3>2. QED
      BY <2>4, <2>6, <3>1 DEF Fetch, Goto, Busy, repo
  <2>7. CASE BeginRebase(s)
    <3>1. CASE rebase # None
      BY <2>4, <2>7, <3>1 DEF BeginRebase, Busy
    <3>2. CASE rebase = None /\ written \cup staged # {}
      <4>1. \E w \in Savers : save'[w] \in {"written", "added"}
        BY <1>0, <2>1, <3>2
      <4>2. QED
        BY <2>4, <2>7, <3>2, <4>1 DEF BeginRebase, Busy
    <3>3. CASE Pulled(s) /\ UNCHANGED rebase
      <4>1. sync'[s] = "push"
        BY <1>0, <2>1, <3>3, PulledShape
      <4>2. QED
        BY <2>4, <2>7, <3>3, <4>1 DEF BeginRebase, Busy
    <3>4. CASE /\ rebase' = [head |-> fetched[s], todo |-> branch \ fetched[s],
                             unmerged |-> {}, runner |-> s]
               /\ Goto(s, "pick")
      <4>1. rebase' # None
        BY <1>0, <3>4 DEF Rebase, Changes
      <4>2. QED
        BY <2>2, <3>4, <4>1 DEF Goto, Busy
    <3>5. QED
      BY <2>7, <3>1, <3>2, <3>3, <3>4 DEF BeginRebase
  <2>8. CASE Pick(s)
    <3>1. rebase \in Rebase /\ rebase.runner = s
      BY <1>a, <2>8 DEF Pick
    <3>2. rebase' \in Rebase
      BY <1>0, <2>8, PickType
    <3>3. rebase'.runner # None
      BY <3>2 DEF Undisturbed
    <3>4. PICK c \in rebase.todo :
            rebase' = [rebase EXCEPT !.head = @ \cup {c}, !.todo = @ \ {c}]
            /\ UNCHANGED sync
      <4>1. ASSUME NEW u, Stop(u) PROVE FALSE
        BY <3>1, <3>2, <3>3, <4>1 DEF Stop, Rebase
      <4>2. QED
        BY <2>8, <4>1, Zenon DEF Pick
    <3>5. rebase'.unmerged = rebase.unmerged /\ rebase'.runner = rebase.runner
      BY <3>1, <3>4 DEF Rebase
    <3>6. QED
      BY <1>0, <2>2, <2>8, <3>1, <3>2, <3>4, <3>5 DEF Pick, Busy
  <2>9. CASE FinishRebase(s)
    BY <1>0, <2>1, <2>9, PulledShape DEF FinishRebase, Busy
  <2>10. CASE LoseRebase(s)
    <3>1. sync[s] = "pick" /\ UNCHANGED <<rebase, remote>> /\ sync' = [sync EXCEPT ![s] = "inspect"]
      BY <2>10 DEF LoseRebase, Goto, repo
    <3>2. rebase # None => rebase.runner # s
      BY <2>10 DEF LoseRebase
    <3>3. Runs
      BY <1>0, <1>a, <3>1, <3>2
    <3>4. Busy => Busy'
      BY <2>1, <3>1 DEF Busy
    <3>5. QED
      BY <1>0, <2>1, <3>1, <3>3, <3>4
  <2>11. CASE Inspect(s)
    BY <2>3, <2>11 DEF Inspect, repo
  <2>12. CASE ConflictFiles(s)
    BY <2>3, <2>12 DEF ConflictFiles, repo
  <2>13. CASE Push(s)
    <3>1. res'[s].error # "push"
      BY DEF Undisturbed, OwesPush
    <3>2. rebase = None /\ remote' = branch
      <4>1. Fail(s, "push") => res'[s].error = "push"
        BY <1>0 DEF Fail, Result
      <4>2. QED
        BY <2>13, <3>1, <4>1 DEF Push, CanPush
    <3>3. \A w \in Savers : save[w] = "ok" => w \in branch
      BY <1>0, <3>2 DEF SyncInv, AckedIsInHistory, InHistory, HEAD, Undisturbed
    <3>4. QED
      BY <2>1, <2>2, <2>13, <3>2, <3>3 DEF Push
  <2>14. QED
    BY <1>5, <2>2, <2>5, <2>6, <2>7, <2>8, <2>9, <2>10, <2>11, <2>12, <2>13 DEF SyncStep
<1>6. ASSUME NEW d \in Devs, Upstream(d) PROVE Files /\ Runs /\ Sent
  BY <1>0, <1>6 DEF Upstream, run, files, Busy
<1>7. ASSUME Resolve \/ AbortRebase PROVE FALSE
  BY <1>7 DEF Resolve, AbortRebase, Use, Undisturbed
<1>8. CASE UNCHANGED syncVars
  BY <1>0, <1>8 DEF syncVars, repo, files, run, Busy
<1>9. QED
  BY <1>1, <1>2, <1>3, <1>4, <1>5, <1>6, <1>7, <1>8 DEF SyncNext, Idle

\* Once everything has ended and no sync owes a push, all answered saves
\* are on the remote, for any number of saves, syncs and foreign pushes
\* (docs.go:136-153, gitstore.go:316-350).
THEOREM AllIsPushed == SyncSpec => []QuietIsPushed
<1> DEFINE Inv == Awaited /\ PushAwaited
<1>1. SyncInit => Inv
  BY DEF SyncInit, Awaited, PushAwaited, NoResult, IsRebaseInProgress, Syncs
<1>2. SyncInv /\ Inv /\ [SyncNext]_syncVars => Inv'
  BY AwaitedStep, PushStep DEF SyncInv
<1>3. Inv => QuietIsPushed
  <2> SUFFICES ASSUME Inv, Quiet, ~IsRebaseInProgress, used = {},
                      \A w \in Savers : save[w] # "failed", \A s \in Syncs : ~OwesPush(s)
               PROVE  \A w \in Savers : save[w] = "ok" => w \in remote
    BY DEF QuietIsPushed
  <2>1. QED
    BY DEF PushAwaited, Undisturbed, Quiet, Busy
<1>4. QED
  BY <1>1, <1>2, <1>3, SyncInvariance, PTL DEF SyncSpec
=============================================================================
