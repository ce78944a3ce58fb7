-------------------------- MODULE DocPipelineProofs --------------------------
(***************************************************************************)
(* Proofs about DocPipeline for any number of requests, paths, comments,   *)
(* faults and restarts.                                                    *)
(***************************************************************************)
EXTENDS DocRefinement, WellFoundedInduction, TLAPS

(***************************************************************************)
(* HEAD is the tree of the last commit.                                    *)
(***************************************************************************)
LEMMA HeadType == RepoTypeOK => HEAD \in Tree
<1>1. ASSUME RepoTypeOK PROVE log[Len(log)] \in Commits
  BY <1>1 DEF RepoTypeOK
<1>2. QED
  BY <1>1 DEF HEAD, Commits

LEMMA HeadAfterCommit ==
  ASSUME RepoTypeOK, NEW author \in Reqs, CommitIndex(author)
  PROVE  HEAD' = staged /\ RepoTypeOK'
BY DEF RepoTypeOK, CommitIndex, HEAD, Commits

LEMMA HeadUnchanged == ASSUME UNCHANGED log PROVE HEAD' = HEAD
BY DEF HEAD

-----------------------------------------------------------------------------
(***************************************************************************)
(* Types                                                                   *)
(***************************************************************************)
LEMMA SeedIsFile == SeedDoc \in Content /\ TornDoc \in Content
BY DEF SeedDoc, TornDoc, Content, Bodies

LEMMA InitType == Init => TypeOK /\ RequestShape
<1> SUFFICES ASSUME Init PROVE TypeOK /\ RequestShape
  OBVIOUS
<1>1. wt \in Tree /\ staged \in Tree
  BY SeedIsFile DEF Init, RepoInit, Tree, File
<1>2. log \in Seq(Commits) /\ Len(log) > 0
  BY <1>1 DEF Init, RepoInit, Commits
<1>3. onpath \in [CommentIds -> Paths \cup {None}]
  BY DEF Init
<1>4. QED
  BY <1>1, <1>2, <1>3, BoundsAssumption
  DEF Init, RepoInit, TypeOK, RepoTypeOK, RequestShape, File, Tree

PcSet == {"idle"} \cup Calls \cup Answers

LEMMA GotoType ==
  ASSUME pc \in [Reqs -> PcSet], NEW r \in Reqs, NEW c \in PcSet, Goto(r, c)
  PROVE  pc' \in [Reqs -> PcSet]
BY DEF Goto

LEMMA AnswerType ==
  ASSUME pc \in [Reqs -> PcSet], lock \in [Paths -> Reqs \cup {None}],
         NEW r \in Reqs, NEW how \in Answers, Answer(r, how)
  PROVE  pc' \in [Reqs -> PcSet] /\ lock' \in [Paths -> Reqs \cup {None}]
<1>1. how \in PcSet
  BY DEF PcSet
<1>2. QED
  BY <1>1, GotoType DEF Answer

ControlType ==
  /\ pc \in [Reqs -> PcSet]
  /\ lock \in [Paths -> Reqs \cup {None}]

ReqType == req \in [Reqs -> Request \cup {None}]

LEMMA LandedType ==
  ASSUME ControlType, faults \in 0..MaxFaults, NEW r \in Reqs, Landed(r)
  PROVE  ControlType' /\ faults' \in 0..MaxFaults
<1>1. AfterCommit(r) \in PcSet /\ "failed" \in Answers
  BY DEF AfterCommit, PcSet, Calls, Answers
<1>2. CASE Goto(r, AfterCommit(r)) /\ UNCHANGED <<lock, faults>>
  BY <1>1, <1>2, GotoType DEF ControlType
<1>3. CASE Fault /\ Answer(r, "failed")
  BY <1>1, <1>3, AnswerType, BoundsAssumption DEF ControlType, Fault
<1>4. QED
  BY <1>2, <1>3 DEF Landed

\* Every step of a handler leaves it at a call or answered, and every mutex
\* free or held by a request.
LEMMA ControlStep ==
  ASSUME ControlType, faults \in 0..MaxFaults,
         NEW r \in Reqs, Start(r) \/ Step(r) \/ CallFails(r)
  PROVE  ControlType' /\ faults' \in 0..MaxFaults
<1>1. CASE Start(r)
  BY <1>1, GotoType DEF ControlType, PcSet, Calls, Answers, Start, env
<1>2. CASE TakeFirstLock(r)
  BY <1>2, GotoType DEF ControlType, PcSet, Calls, Answers, TakeFirstLock, env
<1>3. CASE TakeSecondLock(r)
  BY <1>3, GotoType DEF ControlType, PcSet, Calls, Answers, TakeSecondLock, env
<1>4. CASE PutLoad(r)
  BY <1>4, GotoType DEF ControlType, PcSet, Calls, Answers, PutLoad, env
<1>5. CASE DeleteCheck(r)
  BY <1>5, GotoType, AnswerType DEF ControlType, PcSet, Calls, Answers, DeleteCheck, env
<1>6. CASE MoveCheck(r)
  BY <1>6, GotoType, AnswerType DEF ControlType, PcSet, Calls, Answers, MoveCheck, env
<1>7. CASE CopyLoad(r)
  BY <1>7, GotoType, AnswerType DEF ControlType, PcSet, Calls, Answers, CopyLoad, env
<1>8. CASE WriteTruncate(r)
  BY <1>8, GotoType DEF ControlType, PcSet, Calls, Answers, WriteTruncate, env
<1>9. CASE WriteFill(r)
  BY <1>9, GotoType DEF ControlType, PcSet, Calls, Answers, WriteFill, env
<1>10. CASE GitAdd(r)
  BY <1>10, GotoType DEF ControlType, PcSet, Calls, Answers, GitAdd, env
<1>11. CASE GitDiff(r)
  BY <1>11, GotoType, LandedType, BoundsAssumption DEF ControlType, PcSet, Calls, Answers, GitDiff, Fault
<1>12. CASE GitMv(r)
  BY <1>12, GotoType, AnswerType DEF ControlType, PcSet, Calls, Answers, GitMv, env
<1>13. CASE GitRm(r)
  BY <1>13, GotoType, AnswerType DEF ControlType, PcSet, Calls, Answers, GitRm, env
<1>14. CASE GitCommit(r)
  BY <1>14, AnswerType, LandedType, BoundsAssumption DEF ControlType, PcSet, Calls, Answers, GitCommit, Fault
<1>15. CASE UpdateComments(r)
  BY <1>15, GotoType, BoundsAssumption DEF ControlType, PcSet, Calls, Answers, UpdateComments, Quiet, Log, NoFault, Fault
<1>16. CASE Unindex(r)
  BY <1>16, GotoType, BoundsAssumption DEF ControlType, PcSet, Calls, Answers, Unindex, Quiet, Log, NoFault, Fault
<1>17. CASE Index(r)
  BY <1>17, GotoType, BoundsAssumption DEF ControlType, PcSet, Calls, Answers, Index, Quiet, Log, NoFault, Fault
<1>18. CASE Respond(r)
  BY <1>18, AnswerType, BoundsAssumption DEF ControlType, PcSet, Calls, Answers, Respond, Fault, NoFault
<1>19. CASE InsertComment(r)
  BY <1>19, AnswerType DEF ControlType, PcSet, Calls, Answers, InsertComment, env
<1>20. CASE CallFails(r)
  BY <1>20, AnswerType, BoundsAssumption DEF ControlType, PcSet, Calls, Answers, CallFails, Fault
<1>21. QED
  BY <1>1, <1>2, <1>3, <1>4, <1>5, <1>6, <1>7, <1>8, <1>9, <1>10, <1>11, <1>12, <1>13, <1>14, <1>15, <1>16, <1>17, <1>18, <1>19, <1>20 DEF Step

\* The variables a handler's call changes besides pc and lock.
DataType ==
  /\ RepoTypeOK
  /\ out \in [Reqs -> File]
  /\ onpath \in [CommentIds -> Paths \cup {None}]
  /\ idx \in Tree
  /\ lapsed \subseteq Reqs

LEMMA TypeSplit ==
  TypeOK <=> /\ ControlType /\ DataType
             /\ ReqType
             /\ faults \in 0..MaxFaults /\ crashes \in 0..MaxCrashes
BY DEF TypeOK, ControlType, DataType, ReqType, PcSet

LEMMA VersionType == ASSUME NEW f \in File PROVE NextVersion(f) \in Nat
BY DEF NextVersion, File, Content

LEMMA PathTypes ==
  ASSUME RequestShape, NEW r \in Reqs, pc[r] # "idle"
  PROVE  From(r) \in Paths /\ To(r) \in Paths
BY DEF RequestShape, From, To, Request

\* Every step of a handler keeps the repository, the comments and the index
\* well typed.
LEMMA DataStep ==
  ASSUME DataType, RequestShape, Progress, NEW r \in Reqs,
         Start(r) \/ Step(r) \/ CallFails(r)
  PROVE  DataType'
<1> USE PathTypes DEF DataType
<1>1. CASE Start(r)
  BY <1>1 DEF Start, derived, repo, RepoTypeOK
<1>2. CASE TakeFirstLock(r)
  BY <1>2 DEF TakeFirstLock, derived, repo, RepoTypeOK
<1>3. CASE TakeSecondLock(r)
  BY <1>3 DEF TakeSecondLock, derived, repo, RepoTypeOK
<1>4. CASE PutLoad(r)
  BY <1>4, VersionType DEF PutLoad, derived, repo, RepoTypeOK, Tree, File, Content, Bodies
<1>5. CASE DeleteCheck(r)
  BY <1>5 DEF DeleteCheck, derived, repo, RepoTypeOK
<1>6. CASE MoveCheck(r)
  BY <1>6 DEF MoveCheck, derived, repo, RepoTypeOK
<1>7. CASE CopyLoad(r)
  BY <1>7 DEF CopyLoad, derived, repo, RepoTypeOK, Tree, File, Content
<1>8. CASE WriteTruncate(r)
  BY <1>8, SeedIsFile DEF WriteTruncate, TruncateFile, derived, RepoTypeOK, Tree, File
<1>9. CASE WriteFill(r)
  BY <1>9 DEF WriteFill, FillFile, derived, RepoTypeOK, Tree
<1>10. CASE GitAdd(r)
  BY <1>10 DEF GitAdd, Add, derived, RepoTypeOK, Tree
<1>11. CASE GitDiff(r)
  BY <1>11 DEF GitDiff, derived, repo, RepoTypeOK
<1>12. CASE GitMv(r)
  BY <1>12 DEF GitMv, Mv, derived, repo, RepoTypeOK, Tree, File
<1>13. CASE GitRm(r)
  BY <1>13 DEF GitRm, Rm, derived, repo, RepoTypeOK, Tree, File
<1>14. CASE GitCommit(r)
  BY <1>14, HeadAfterCommit DEF GitCommit, derived, repo, RepoTypeOK
<1>15. CASE UpdateComments(r)
  BY <1>15 DEF UpdateComments, repo, RepoTypeOK, Quiet, Log
<1>16. CASE Unindex(r)
  BY <1>16 DEF Unindex, repo, RepoTypeOK, Quiet, Log, Tree, File
<1>17. CASE Index(r)
  <2>1. wt[To(r)] \in Content
    BY <1>17 DEF Index, Progress, ProgressOf, Done, AfterWriteCalls, AfterStageCalls,
                 AfterCommitCalls, RequestShape, OpsOf, RepoTypeOK, Tree, File
  <2>2. Op(r) # "move" => out[r] \in Content
    BY <1>17 DEF Index, Progress, ProgressOf, AfterWriteCalls, AfterStageCalls,
                 AfterCommitCalls, RequestShape, OpsOf, File
  <2>3. QED
    BY <1>17, <2>1, <2>2
    DEF Index, repo, RepoTypeOK, Quiet, Log, Tree, File, Content
<1>18. CASE Respond(r)
  BY <1>18 DEF Respond, derived, repo, RepoTypeOK
<1>19. CASE InsertComment(r)
  BY <1>19 DEF InsertComment, repo, RepoTypeOK, CommentIds
<1>20. CASE CallFails(r)
  BY <1>20 DEF CallFails, derived, repo, RepoTypeOK
<1>21. QED
  BY <1>1, <1>2, <1>3, <1>4, <1>5, <1>6, <1>7, <1>8, <1>9, <1>10, <1>11, <1>12, <1>13, <1>14, <1>15, <1>16, <1>17, <1>18, <1>19, <1>20 DEF Step

-----------------------------------------------------------------------------
(***************************************************************************)
(* Requests: which operations make which call                              *)
(***************************************************************************)
LEMMA GotoAt ==
  ASSUME pc \in [Reqs -> PcSet], NEW r \in Reqs, NEW c, Goto(r, c)
  PROVE  pc'[r] = c /\ \A s \in Reqs \ {r} : pc'[s] = pc[s]
BY DEF Goto

LEMMA AnswerAt ==
  ASSUME ControlType, NEW r \in Reqs, NEW c, Answer(r, c)
  PROVE  /\ pc'[r] = c
         /\ \A s \in Reqs \ {r} : pc'[s] = pc[s]
         /\ \A p \in Paths : lock'[p] = IF lock[p] = r THEN None ELSE lock[p]
BY GotoAt DEF Answer, ControlType

LEMMA ReqStep ==
  ASSUME ReqType, crashes \in 0..MaxCrashes, NEW r \in Reqs,
         Start(r) \/ Step(r) \/ CallFails(r)
  PROVE  ReqType' /\ crashes' \in 0..MaxCrashes
<1>1. CASE Start(r)
  <2>1. \A op \in Ops, p, q \in Paths : [op |-> op, from |-> p, to |-> q] \in Request
    BY OpsAssumption DEF Request
  <2>2. QED
    BY <1>1, <2>1 DEF Start, ReqType, env
<1>2. CASE Step(r)
  BY <1>2 DEF ReqType, env, Step, TakeFirstLock, TakeSecondLock, PutLoad, DeleteCheck,
    MoveCheck, CopyLoad, WriteTruncate, WriteFill, GitAdd, GitDiff, GitMv, GitRm,
    GitCommit, UpdateComments, Unindex, Index, Respond, InsertComment
<1>3. CASE CallFails(r)
  BY <1>3 DEF CallFails, ReqType
<1>4. QED
  BY <1>1, <1>2, <1>3

LEMMA ShapeKept ==
  ASSUME RequestShape, NEW r \in Reqs, UNCHANGED req,
         \A s \in Reqs \ {r} : pc'[s] = pc[s],
         pc[r] # "idle", Op(r) \in OpsOf(pc'[r])
  PROVE  RequestShape'
<1>1. ASSUME NEW s \in Reqs PROVE /\ Op(s)' = Op(s)
                                 /\ From(s)' = From(s) /\ To(s)' = To(s)
  BY DEF Op, From, To
<1>2. ASSUME NEW s \in Reqs, pc'[s] # "idle"
      PROVE  pc[s] # "idle" /\ Op(s) \in OpsOf(pc'[s])
  BY <1>2 DEF RequestShape
<1>3. QED
  BY <1>1, <1>2 DEF RequestShape

LEMMA AnswerOps ==
  \A a \in Answers : OpsOf(a) = {"put", "copy", "move", "delete", "comment"}
BY DEF Answers, OpsOf

\* Every step leaves each request at a call its operation makes.
LEMMA ShapeStep ==
  ASSUME ControlType, ReqType, RequestShape, NEW r \in Reqs,
         Start(r) \/ Step(r) \/ CallFails(r)
  PROVE  RequestShape'
<1>1. CASE Start(r)
  <2>1. PICK op \in Ops, p \in Paths, q \in Paths :
          /\ (p = q) <=> op \notin {"move", "copy"}
          /\ req' = [req EXCEPT ![r] = [op |-> op, from |-> p, to |-> q]]
          /\ \/ Goto(r, "refused")
             \/ Goto(r, IF op = "comment" THEN "insert" ELSE "lock1")
    BY <1>1 DEF Start
  <2>2. /\ req'[r] = [op |-> op, from |-> p, to |-> q]
        /\ \A s \in Reqs \ {r} : req'[s] = req[s] /\ pc'[s] = pc[s]
        /\ pc'[r] \in {"refused", IF op = "comment" THEN "insert" ELSE "lock1"}
    BY <2>1, GotoAt DEF ControlType, ReqType
  <2>3. op \in OpsOf(pc'[r])
    BY <2>2, OpsAssumption DEF OpsOf
  <2>4. [op |-> op, from |-> p, to |-> q] \in Request
    BY OpsAssumption DEF Request
  <2>5. ASSUME NEW s \in Reqs, pc'[s] # "idle"
        PROVE  /\ req'[s] \in Request
               /\ req'[s].op \in OpsOf(pc'[s])
               /\ req'[s].from = req'[s].to <=> req'[s].op \notin {"move", "copy"}
    BY <2>1, <2>2, <2>3, <2>4, <2>5 DEF RequestShape, Op, From, To
  <2>6. QED
    BY <2>5 DEF RequestShape, Op, From, To
<1>2. CASE TakeFirstLock(r)
  BY <1>2, ShapeKept, GotoAt, AnswerAt
  DEF TakeFirstLock, RequestShape, OpsOf, ControlType
<1>3. CASE TakeSecondLock(r)
  BY <1>3, ShapeKept, GotoAt, AnswerAt
  DEF TakeSecondLock, RequestShape, OpsOf, ControlType
<1>4. CASE PutLoad(r)
  BY <1>4, ShapeKept, GotoAt, AnswerAt
  DEF PutLoad, RequestShape, OpsOf, ControlType
<1>5. CASE DeleteCheck(r)
  BY <1>5, ShapeKept, GotoAt, AnswerAt, AnswerOps
  DEF DeleteCheck, Answers, RequestShape, OpsOf, ControlType
<1>6. CASE MoveCheck(r)
  BY <1>6, ShapeKept, GotoAt, AnswerAt, AnswerOps
  DEF MoveCheck, Answers, RequestShape, OpsOf, ControlType
<1>7. CASE CopyLoad(r)
  BY <1>7, ShapeKept, GotoAt, AnswerAt, AnswerOps
  DEF CopyLoad, Answers, RequestShape, OpsOf, ControlType
<1>8. CASE WriteTruncate(r)
  BY <1>8, ShapeKept, GotoAt, AnswerAt
  DEF WriteTruncate, RequestShape, OpsOf, ControlType
<1>9. CASE WriteFill(r)
  BY <1>9, ShapeKept, GotoAt, AnswerAt
  DEF WriteFill, RequestShape, OpsOf, ControlType
<1>10. CASE GitAdd(r)
  BY <1>10, ShapeKept, GotoAt, AnswerAt
  DEF GitAdd, RequestShape, OpsOf, ControlType
<1>11. CASE GitDiff(r)
  BY <1>11, ShapeKept, GotoAt, AnswerAt, AnswerOps
  DEF GitDiff, Answers, Landed, AfterCommit, RequestShape, OpsOf, ControlType
<1>12. CASE GitMv(r)
  BY <1>12, ShapeKept, GotoAt, AnswerAt, AnswerOps
  DEF GitMv, Answers, RequestShape, OpsOf, ControlType
<1>13. CASE GitRm(r)
  BY <1>13, ShapeKept, GotoAt, AnswerAt, AnswerOps
  DEF GitRm, Answers, RequestShape, OpsOf, ControlType
<1>14. CASE GitCommit(r)
  BY <1>14, ShapeKept, GotoAt, AnswerAt, AnswerOps
  DEF GitCommit, Answers, Landed, AfterCommit, RequestShape, OpsOf, ControlType
<1>15. CASE UpdateComments(r)
  BY <1>15, ShapeKept, GotoAt, AnswerAt
  DEF UpdateComments, RequestShape, OpsOf, ControlType
<1>16. CASE Unindex(r)
  BY <1>16, ShapeKept, GotoAt, AnswerAt
  DEF Unindex, RequestShape, OpsOf, ControlType
<1>17. CASE Index(r)
  BY <1>17, ShapeKept, GotoAt, AnswerAt
  DEF Index, RequestShape, OpsOf, ControlType
<1>18. CASE Respond(r)
  BY <1>18, ShapeKept, GotoAt, AnswerAt, AnswerOps
  DEF Respond, Answers, RequestShape, OpsOf, ControlType
<1>19. CASE InsertComment(r)
  BY <1>19, ShapeKept, GotoAt, AnswerAt, AnswerOps
  DEF InsertComment, Answers, RequestShape, OpsOf, ControlType
<1>20. CASE CallFails(r)
  BY <1>20, ShapeKept, GotoAt, AnswerAt, AnswerOps
  DEF CallFails, FallibleCalls, Answers, RequestShape, OpsOf, ControlType
<1>21. QED
  BY <1>1, <1>2, <1>3, <1>4, <1>5, <1>6, <1>7, <1>8, <1>9, <1>10, <1>11, <1>12, <1>13, <1>14, <1>15, <1>16, <1>17, <1>18, <1>19, <1>20 DEF Step

-----------------------------------------------------------------------------
(***************************************************************************)
(* Locks                                                                   *)
(***************************************************************************)
\* The calls a handler makes with all its mutexes held.
LockedCalls == Calls \ {"lock1", "lock2", "insert"}

OwnPaths(r) == IF Op(r) = "move" THEN {From(r), To(r)} ELSE {To(r)}

LEMMA HeldLocked ==
  ASSUME NEW r \in Reqs, pc[r] \in LockedCalls
  PROVE  Held(r) = OwnPaths(r)
BY DEF LockedCalls, Calls, Held, OwnPaths, Answers

LEMMA HeldFrame ==
  ASSUME NEW s \in Reqs, req'[s] = req[s], pc'[s] = pc[s]
  PROVE  Held(s)' = Held(s)
BY DEF Held, LockSeq, Op, From, To

LEMMA LockKept ==
  ASSUME LockShape, NEW r \in Reqs, UNCHANGED lock, Held(r)' = Held(r),
         \A s \in Reqs \ {r} : req'[s] = req[s] /\ pc'[s] = pc[s]
  PROVE  LockShape'
<1>1. ASSUME NEW s \in Reqs PROVE Held(s)' = Held(s)
  BY HeldFrame
<1>2. QED
  BY <1>1 DEF LockShape

LEMMA LockKeptWorking ==
  ASSUME ControlType, LockShape, UNCHANGED <<lock, req>>, NEW r \in Reqs,
         pc[r] \in LockedCalls, NEW c \in LockedCalls, Goto(r, c)
  PROVE  LockShape'
<1>1. pc'[r] = c /\ \A s \in Reqs \ {r} : pc'[s] = pc[s]
  BY GotoAt DEF ControlType
<1>2. Held(r)' = OwnPaths(r)' /\ Held(r) = OwnPaths(r)
  BY <1>1, HeldLocked DEF LockedCalls, Calls, Held, OwnPaths, Answers
<1>3. OwnPaths(r)' = OwnPaths(r)
  BY DEF OwnPaths, Op, From, To
<1>4. QED
  BY <1>1, <1>2, <1>3, LockKept

LEMMA LockReleased ==
  ASSUME ControlType, LockShape, UNCHANGED req,
         NEW r \in Reqs, NEW how \in Answers, Answer(r, how)
  PROVE  LockShape'
<1>1. Held(r)' = {}
  BY AnswerAt DEF Held
<1>2. ASSUME NEW s \in Reqs, s # r PROVE Held(s)' = Held(s)
  BY <1>2, AnswerAt, HeldFrame
<1>3. ASSUME NEW s \in Reqs, NEW p \in Paths
      PROVE  lock'[p] = s <=> lock[p] = s /\ s # r
  BY AnswerAt, NoneAssumption DEF ControlType
<1>4. QED
  BY <1>1, <1>2, <1>3 DEF LockShape

LEMMA LockTaken ==
  ASSUME ControlType, LockShape, NEW r \in Reqs, NEW p \in Paths,
         lock[p] = None, lock' = [lock EXCEPT ![p] = r], UNCHANGED req,
         NEW c, Goto(r, c), Held(r)' = Held(r) \cup {p}
  PROVE  LockShape'
<1>1. ASSUME NEW s \in Reqs, s # r PROVE Held(s)' = Held(s)
  BY <1>1, HeldFrame, GotoAt DEF ControlType
<1>2. ASSUME NEW s \in Reqs, NEW q \in Paths
      PROVE  lock'[q] = s <=> lock[q] = s \/ (q = p /\ s = r)
  BY NoneAssumption DEF ControlType
<1>3. QED
  BY <1>1, <1>2 DEF LockShape

\* Every step of a handler leaves the mutexes with the requests that the
\* code's Lock and deferred Unlock calls give them to.
LEMMA LockStep ==
  ASSUME ControlType, ReqType, RequestShape, LockShape, NEW r \in Reqs,
         Start(r) \/ Step(r) \/ CallFails(r)
  PROVE  LockShape'
<1>1. CASE Start(r)
  <2>1. \A s \in Reqs \ {r} : req'[s] = req[s] /\ pc'[s] = pc[s]
    BY <1>1, GotoAt DEF Start, ControlType, ReqType
  <2>2. pc[r] = "idle" /\ pc'[r] \in {"refused", "insert", "lock1"}
    BY <1>1, GotoAt DEF Start, ControlType
  <2>3. Held(r) = {} /\ Held(r)' = {}
    BY <2>2 DEF Held, Answers
  <2>4. QED
    BY <1>1, <2>1, <2>3, LockKept DEF Start
<1>2. CASE TakeFirstLock(r)
  <2>1. LockSeq(r)[1] \in Paths
    BY <1>2, PathTypes DEF TakeFirstLock, LockSeq
  <2>2. pc'[r] = IF Op(r) = "move" THEN "lock2" ELSE "check"
    BY <1>2, GotoAt DEF TakeFirstLock, ControlType
  <2>3. Held(r) = {}
    BY <1>2 DEF TakeFirstLock, Held
  <2>4. Held(r)' = {LockSeq(r)[1]}
    BY <1>2, <2>2 DEF TakeFirstLock, Held, Answers, LockSeq, Op, To, From
  <2>5. QED
    BY <1>2, <2>1, <2>3, <2>4, LockTaken DEF TakeFirstLock
<1>3. CASE TakeSecondLock(r)
  <2>1. Op(r) = "move" /\ From(r) \in Paths /\ To(r) \in Paths
    BY <1>3, PathTypes DEF TakeSecondLock, RequestShape, OpsOf
  <2>2. LockSeq(r)[2] \in Paths /\ {LockSeq(r)[1], LockSeq(r)[2]} = {From(r), To(r)}
    BY <2>1 DEF LockSeq
  <2>3. pc'[r] = "check" /\ Op(r)' = Op(r) /\ From(r)' = From(r) /\ To(r)' = To(r)
    BY <1>3, GotoAt DEF TakeSecondLock, ControlType, Op, From, To
  <2>4. Held(r) = {LockSeq(r)[1]} /\ Held(r)' = {From(r), To(r)}
    BY <1>3, <2>1, <2>3 DEF TakeSecondLock, Held, Answers
  <2>5. QED
    BY <1>3, <2>2, <2>4, LockTaken DEF TakeSecondLock
<1>4. CASE PutLoad(r)
  BY <1>4, LockKeptWorking
  DEF PutLoad, LockedCalls, Calls
<1>5. CASE DeleteCheck(r)
  BY <1>5, LockKeptWorking, LockReleased
  DEF DeleteCheck, LockedCalls, Calls, Answers
<1>6. CASE MoveCheck(r)
  BY <1>6, LockKeptWorking, LockReleased
  DEF MoveCheck, LockedCalls, Calls, Answers
<1>7. CASE CopyLoad(r)
  BY <1>7, LockKeptWorking, LockReleased
  DEF CopyLoad, LockedCalls, Calls, Answers
<1>8. CASE WriteTruncate(r)
  BY <1>8, LockKeptWorking
  DEF WriteTruncate, LockedCalls, Calls
<1>9. CASE WriteFill(r)
  BY <1>9, LockKeptWorking
  DEF WriteFill, LockedCalls, Calls
<1>10. CASE GitAdd(r)
  BY <1>10, LockKeptWorking
  DEF GitAdd, LockedCalls, Calls
<1>11. CASE GitDiff(r)
  BY <1>11, LockKeptWorking, LockReleased
  DEF GitDiff, LockedCalls, Calls, Answers, Landed, AfterCommit
<1>12. CASE GitMv(r)
  BY <1>12, LockKeptWorking, LockReleased
  DEF GitMv, LockedCalls, Calls, Answers
<1>13. CASE GitRm(r)
  BY <1>13, LockKeptWorking, LockReleased
  DEF GitRm, LockedCalls, Calls, Answers
<1>14. CASE GitCommit(r)
  BY <1>14, LockKeptWorking, LockReleased
  DEF GitCommit, LockedCalls, Calls, Answers, Landed, AfterCommit
<1>15. CASE UpdateComments(r)
  BY <1>15, LockKeptWorking
  DEF UpdateComments, LockedCalls, Calls
<1>16. CASE Unindex(r)
  BY <1>16, LockKeptWorking
  DEF Unindex, LockedCalls, Calls
<1>17. CASE Index(r)
  BY <1>17, LockKeptWorking
  DEF Index, LockedCalls, Calls
<1>18. CASE Respond(r)
  BY <1>18, LockReleased
  DEF Respond, LockedCalls, Calls, Answers
<1>19. CASE InsertComment(r)
  BY <1>19, LockReleased
  DEF InsertComment, Answers
<1>20. CASE CallFails(r)
  BY <1>20, LockReleased
  DEF CallFails, Answers
<1>21. QED
  BY <1>1, <1>2, <1>3, <1>4, <1>5, <1>6, <1>7, <1>8, <1>9, <1>10, <1>11, <1>12, <1>13, <1>14, <1>15, <1>16, <1>17, <1>18, <1>19, <1>20 DEF Step

-----------------------------------------------------------------------------
(***************************************************************************)
(* Progress of the changes                                                 *)
(***************************************************************************)
LEMMA CallSets ==
  /\ AfterWriteCalls \subseteq LockedCalls
  /\ AfterStageCalls \subseteq AfterWriteCalls
  /\ AfterCommitCalls \subseteq AfterStageCalls
  /\ {"truncate", "fill"} \subseteq LockedCalls
  /\ \A a \in Answers \cup {"idle"} :
        a \notin {"truncate", "fill"} \cup AfterWriteCalls
BY DEF AfterWriteCalls, AfterStageCalls, AfterCommitCalls, LockedCalls, Calls, Answers

\* Two handlers past their locks work on different paths.
LEMMA Apart ==
  ASSUME LockShape, RequestShape, NEW r \in Reqs, NEW s \in Reqs, r # s,
         pc[r] \in LockedCalls, pc[s] \in LockedCalls
  PROVE  \A p \in OwnPaths(s) : p \in Paths \ OwnPaths(r)
<1>1. Held(r) = OwnPaths(r) /\ Held(s) = OwnPaths(s)
  BY HeldLocked
<1>2. OwnPaths(s) \subseteq Paths
  BY PathTypes DEF OwnPaths, LockedCalls, Calls
<1>3. QED
  BY <1>1, <1>2 DEF LockShape

LEMMA DoneInTree ==
  ASSUME NEW s \in Reqs, req'[s] = req[s], out'[s] = out[s],
         \A p \in OwnPaths(s) : wt'[p] = wt[p], Done(s, wt)
  PROVE  Done(s, wt)'
BY DEF Done, OwnPaths, Op, From, To

LEMMA DoneInIndex ==
  ASSUME NEW s \in Reqs, req'[s] = req[s], out'[s] = out[s],
         \A p \in OwnPaths(s) : staged'[p] = staged[p], Done(s, staged)
  PROVE  Done(s, staged)'
BY DEF Done, OwnPaths, Op, From, To

LEMMA DoneAtHead ==
  ASSUME NEW s \in Reqs, req'[s] = req[s], out'[s] = out[s],
         Done(s, staged), Done(s, HEAD), HEAD' \in {HEAD, staged}
  PROVE  Done(s, HEAD)'
BY DEF Done, OwnPaths, Op, From, To

\* A step of r does not disturb the change of another request s: it writes
\* only on its own paths, and a commit of r takes the staged change of s along.
LEMMA OthersKeep ==
  ASSUME RequestShape, LockShape, Progress,
         NEW r \in Reqs, NEW s \in Reqs, s # r,
         pc'[s] = pc[s], req'[s] = req[s], out'[s] = out[s],
         \/ UNCHANGED <<wt, staged>>
         \/ /\ pc[r] \in LockedCalls
            /\ \A p \in Paths \ OwnPaths(r) : wt'[p] = wt[p] /\ staged'[p] = staged[p],
         HEAD' \in {HEAD, staged}
  PROVE  ProgressOf(s)'
<1>1. ProgressOf(s)
  BY DEF Progress
<1>2. Op(s)' = Op(s)
  BY DEF Op
<1>3. ASSUME pc[s] \in AfterWriteCalls
      PROVE  \A p \in OwnPaths(s) : wt'[p] = wt[p] /\ staged'[p] = staged[p]
  BY <1>3, Apart, CallSets
<1>4. pc[s] \in AfterWriteCalls => Done(s, wt)'
  BY <1>1, <1>3, DoneInTree DEF ProgressOf
<1>5. pc[s] \in AfterStageCalls => Done(s, staged)'
  BY <1>1, <1>3, DoneInIndex, CallSets DEF ProgressOf
<1>6. pc[s] \in AfterCommitCalls => Done(s, HEAD)'
  BY <1>1, DoneAtHead, CallSets DEF ProgressOf
<1>7. QED
  BY <1>1, <1>2, <1>4, <1>5, <1>6 DEF ProgressOf

\* What r itself keeps when it makes a call that changes neither files nor
\* index nor branch.
LEMMA OwnKeeps ==
  ASSUME Progress, NEW r \in Reqs, UNCHANGED <<repo, req, out>>,
         \/ pc'[r] \in Answers \cup {"idle"}
         \/ pc'[r] = pc[r]
         \/ pc[r] \in AfterCommitCalls /\ pc'[r] \in AfterCommitCalls
         \/ pc'[r] \notin {"truncate", "fill"} \cup AfterWriteCalls
  PROVE  ProgressOf(r)'
<1>1. ProgressOf(r) /\ HEAD' = HEAD
  BY HeadUnchanged DEF Progress, repo
<1>2. /\ Done(r, wt) => Done(r, wt)'
      /\ Done(r, staged) => Done(r, staged)'
      /\ Done(r, HEAD) => Done(r, HEAD)'
      /\ Op(r)' = Op(r)
  BY <1>1 DEF Done, Op, From, To, repo
<1>3. CASE pc'[r] \notin {"truncate", "fill"} \cup AfterWriteCalls
  BY <1>3, CallSets DEF ProgressOf
<1>4. CASE pc'[r] = pc[r]
  BY <1>1, <1>2, <1>4 DEF ProgressOf
<1>5. CASE pc[r] \in AfterCommitCalls /\ pc'[r] \in AfterCommitCalls
  BY <1>1, <1>2, <1>5, CallSets DEF ProgressOf
<1>6. QED
  BY <1>3, <1>4, <1>5, CallSets

\* A step of r changes the paths of r only, and HEAD, if at all, to the index.
LEMMA StepFrame ==
  ASSUME ControlType, ReqType, DataType, RequestShape, NEW r \in Reqs,
         Start(r) \/ Step(r) \/ CallFails(r)
  PROVE  /\ \A s \in Reqs \ {r} :
              pc'[s] = pc[s] /\ req'[s] = req[s] /\ out'[s] = out[s]
         /\ \/ UNCHANGED <<wt, staged>>
            \/ /\ pc[r] \in LockedCalls
               /\ \A p \in Paths \ OwnPaths(r) :
                    wt'[p] = wt[p] /\ staged'[p] = staged[p]
         /\ HEAD' \in {HEAD, staged}
<1> USE GotoAt, AnswerAt, HeadUnchanged DEF ControlType, ReqType, DataType, repo
<1>1. CASE Start(r)
  BY <1>1
  DEF Start
<1>2. CASE TakeFirstLock(r)
  BY <1>2
  DEF TakeFirstLock
<1>3. CASE TakeSecondLock(r)
  BY <1>3
  DEF TakeSecondLock
<1>4. CASE PutLoad(r)
  BY <1>4
  DEF PutLoad
<1>5. CASE DeleteCheck(r)
  BY <1>5
  DEF DeleteCheck
<1>6. CASE MoveCheck(r)
  BY <1>6
  DEF MoveCheck
<1>7. CASE CopyLoad(r)
  BY <1>7
  DEF CopyLoad
<1>8. CASE WriteTruncate(r)
  BY <1>8
  DEF WriteTruncate, TruncateFile, OwnPaths, LockedCalls, Calls, RequestShape, OpsOf, RepoTypeOK, Tree
<1>9. CASE WriteFill(r)
  BY <1>9
  DEF WriteFill, FillFile, OwnPaths, LockedCalls, Calls, RequestShape, OpsOf, RepoTypeOK, Tree
<1>10. CASE GitAdd(r)
  BY <1>10
  DEF GitAdd, Add, OwnPaths, LockedCalls, Calls, RequestShape, OpsOf, RepoTypeOK, Tree
<1>11. CASE GitDiff(r)
  BY <1>11
  DEF GitDiff, Landed
<1>12. CASE GitMv(r)
  BY <1>12
  DEF GitMv, Mv, OwnPaths, LockedCalls, Calls, RequestShape, OpsOf, RepoTypeOK, Tree
<1>13. CASE GitRm(r)
  BY <1>13
  DEF GitRm, Rm, OwnPaths, LockedCalls, Calls, RequestShape, OpsOf, RepoTypeOK, Tree
<1>14. CASE GitCommit(r)
  BY <1>14, HeadAfterCommit
  DEF GitCommit, Landed, CommitIndex
<1>15. CASE UpdateComments(r)
  BY <1>15
  DEF UpdateComments
<1>16. CASE Unindex(r)
  BY <1>16
  DEF Unindex
<1>17. CASE Index(r)
  BY <1>17
  DEF Index
<1>18. CASE Respond(r)
  BY <1>18
  DEF Respond
<1>19. CASE InsertComment(r)
  BY <1>19
  DEF InsertComment
<1>20. CASE CallFails(r)
  BY <1>20
  DEF CallFails
<1>21. QED
  BY <1>1, <1>2, <1>3, <1>4, <1>5, <1>6, <1>7, <1>8, <1>9, <1>10, <1>11, <1>12, <1>13, <1>14, <1>15, <1>16, <1>17, <1>18, <1>19, <1>20 DEF Step

\* Every step of r takes its own change on: from the file to the index to HEAD.
LEMMA OwnStep ==
  ASSUME ControlType, ReqType, DataType, RequestShape, Progress, NEW r \in Reqs,
         Start(r) \/ Step(r) \/ CallFails(r)
  PROVE  ProgressOf(r)'
<1> DEFINE quiet == {"truncate", "fill"} \cup AfterWriteCalls
<1>0. ProgressOf(r) /\ wt \in Tree /\ staged \in Tree
  BY DEF Progress, DataType, RepoTypeOK
<1>q. ASSUME pc'[r] \notin quiet PROVE ProgressOf(r)'
  BY <1>q, CallSets DEF ProgressOf
<1>a. ASSUME NEW how \in Answers, Answer(r, how) PROVE ProgressOf(r)'
  BY <1>a, <1>q, AnswerAt, CallSets
<1> USE DEF ControlType
<1>1. CASE Start(r)
  BY <1>1, <1>q, GotoAt DEF Start, AfterWriteCalls, AfterStageCalls, AfterCommitCalls
<1>2. CASE TakeFirstLock(r)
  BY <1>2, <1>q, <1>a, GotoAt DEF TakeFirstLock, AfterWriteCalls, AfterStageCalls, AfterCommitCalls, Answers
<1>3. CASE TakeSecondLock(r)
  BY <1>3, <1>q, <1>a, GotoAt DEF TakeSecondLock, AfterWriteCalls, AfterStageCalls, AfterCommitCalls, Answers
<1>4. CASE PutLoad(r)
  <2>1. CASE pc'[r] = "truncate"
    <3>1. out'[r] \in Content
      BY <1>4, <1>0, <2>1, PathTypes, VersionType, AnswerAt
      DEF PutLoad, Tree, File, Content, Bodies, DataType, Answers
    <3>2. QED
      BY <2>1, <3>1, NoneAssumption DEF ProgressOf, AfterWriteCalls, AfterStageCalls, AfterCommitCalls
  <2>2. CASE pc'[r] # "truncate"
    BY <1>4, <2>2, <1>a, GotoAt DEF PutLoad, Answers
  <2>3. QED
    BY <2>1, <2>2
<1>5. CASE DeleteCheck(r)
  BY <1>5, <1>q, <1>a, GotoAt DEF DeleteCheck, AfterWriteCalls, AfterStageCalls, AfterCommitCalls, Answers
<1>6. CASE MoveCheck(r)
  BY <1>6, <1>q, <1>a, GotoAt DEF MoveCheck, AfterWriteCalls, AfterStageCalls, AfterCommitCalls, Answers
<1>7. CASE CopyLoad(r)
  <2>1. CASE pc'[r] = "truncate"
    <3>1. out'[r] \in Content
      BY <1>7, <1>0, <2>1, PathTypes, VersionType, AnswerAt
      DEF CopyLoad, Tree, File, Content, Bodies, DataType, Answers
    <3>2. QED
      BY <2>1, <3>1, NoneAssumption DEF ProgressOf, AfterWriteCalls, AfterStageCalls, AfterCommitCalls
  <2>2. CASE pc'[r] # "truncate"
    BY <1>7, <2>2, <1>a, GotoAt DEF CopyLoad, Answers
  <2>3. QED
    BY <2>1, <2>2
<1>8. CASE WriteTruncate(r)
  <2>1. pc[r] = "truncate" /\ pc'[r] = "fill" /\ out' = out /\ Op(r)' = Op(r)
    BY <1>8, GotoAt DEF WriteTruncate, Op
  <2>2. QED
    BY <1>0, <2>1 DEF ProgressOf, AfterWriteCalls, AfterStageCalls, AfterCommitCalls
<1>9. CASE WriteFill(r)
  <2>1. pc[r] = "fill" /\ pc'[r] = "add" /\ out' = out /\ Op(r)' = Op(r)
    BY <1>9, GotoAt DEF WriteFill, Op
  <2>2. To(r) \in Paths /\ To(r)' = To(r) /\ Op(r) \in {"put", "copy"}
    BY <1>9, PathTypes DEF WriteFill, RequestShape, OpsOf, To
  <2>3. Done(r, wt)'
    BY <1>9, <1>0, <2>1, <2>2 DEF WriteFill, FillFile, Done, Tree
  <2>4. QED
    BY <1>0, <2>1, <2>3 DEF ProgressOf, AfterWriteCalls, AfterStageCalls, AfterCommitCalls
<1>10. CASE GitAdd(r)
  <2>1. pc[r] = "add" /\ pc'[r] = "diff" /\ UNCHANGED <<wt, req, out>>
    BY <1>10, GotoAt DEF GitAdd, Add
  <2>2. To(r) \in Paths /\ Op(r) \in {"put", "copy"}
    BY <1>10, PathTypes DEF GitAdd, RequestShape, OpsOf
  <2>3. Done(r, wt)' /\ Op(r)' = Op(r)
    BY <1>0, <2>1, DoneInTree DEF ProgressOf, Op, AfterWriteCalls, AfterStageCalls, AfterCommitCalls
  <2>4. Done(r, staged)'
    BY <1>10, <1>0, <2>1, <2>2 DEF GitAdd, Add, ProgressOf, Done, Op, To, From, Tree, AfterWriteCalls, AfterStageCalls, AfterCommitCalls
  <2>5. QED
    BY <1>0, <2>1, <2>3, <2>4 DEF ProgressOf, AfterWriteCalls, AfterStageCalls, AfterCommitCalls
<1>11. CASE GitDiff(r)
  <2>1. pc[r] = "diff" /\ UNCHANGED <<wt, staged, req, out>> /\ HEAD' = HEAD
    BY <1>11, HeadUnchanged DEF GitDiff, repo
  <2>2. Op(r) \in {"put", "copy"}
    BY <2>1 DEF RequestShape, OpsOf
  <2>3. Done(r, wt)' /\ Done(r, staged)' /\ Op(r)' = Op(r)
    BY <1>0, <2>1 DEF ProgressOf, Done, Op, To, From, AfterWriteCalls, AfterStageCalls, AfterCommitCalls
  <2>4. CASE pc'[r] = "commit"
    BY <1>0, <2>1, <2>3, <2>4 DEF ProgressOf, AfterWriteCalls, AfterStageCalls, AfterCommitCalls
  <2>5. CASE NothingStaged(To(r)) /\ pc'[r] = "index"
    <3>1. Done(r, HEAD)'
      BY <1>0, <2>1, <2>2, <2>5
      DEF ProgressOf, Done, NothingStaged, Op, To, From, AfterWriteCalls, AfterStageCalls, AfterCommitCalls
    <3>2. QED
      BY <1>0, <2>1, <2>3, <2>5, <3>1 DEF ProgressOf, AfterWriteCalls, AfterStageCalls, AfterCommitCalls
  <2>6. QED
    BY <1>11, <1>a, <2>2, <2>4, <2>5, GotoAt DEF GitDiff, Landed, AfterCommit, Answers
<1>12. CASE GitMv(r)
  <2>1. CASE CanMv(From(r), To(r)) /\ Mv(From(r), To(r)) /\ pc'[r] = "commit"
    <3>1. pc[r] = "mv" /\ UNCHANGED <<req, out>> /\ Op(r) = "move"
      BY <1>12 DEF GitMv, RequestShape, OpsOf
    <3>2. From(r) \in Paths /\ To(r) \in Paths /\ (Op(r) = "move" => From(r) # To(r))
      BY <3>1, PathTypes DEF RequestShape
    <3>3. Done(r, wt)' /\ Done(r, staged)'
      BY <1>12, <1>0, <2>1, <3>1, <3>2
      DEF GitMv, CanMv, Mv, Done, Op, To, From, Tree, repo
    <3>4. QED
      BY <2>1, <3>1, <3>3 DEF ProgressOf, Op, AfterWriteCalls, AfterStageCalls, AfterCommitCalls
  <2>2. QED
    BY <1>12, <1>a, <2>1, GotoAt DEF GitMv, Answers
<1>13. CASE GitRm(r)
  <2>1. CASE CanRm(To(r)) /\ Rm(To(r)) /\ pc'[r] = "commit"
    <3>1. pc[r] = "rm" /\ UNCHANGED <<req, out>> /\ Op(r) = "delete"
      BY <1>13 DEF GitRm, RequestShape, OpsOf
    <3>2. From(r) \in Paths /\ To(r) \in Paths /\ (Op(r) = "move" => From(r) # To(r))
      BY <3>1, PathTypes DEF RequestShape
    <3>3. Done(r, wt)' /\ Done(r, staged)'
      BY <1>13, <1>0, <2>1, <3>1, <3>2
      DEF GitRm, CanRm, Rm, Done, Op, To, From, Tree, repo
    <3>4. QED
      BY <2>1, <3>1, <3>3 DEF ProgressOf, Op, AfterWriteCalls, AfterStageCalls, AfterCommitCalls
  <2>2. QED
    BY <1>13, <1>a, <2>1, GotoAt DEF GitRm, Answers
<1>14. CASE GitCommit(r)
  <2>1. pc[r] = "commit" /\ UNCHANGED <<wt, staged, req, out>>
    BY <1>14 DEF GitCommit, CommitIndex, repo
  <2>2. Done(r, wt)' /\ Done(r, staged)' /\ Op(r)' = Op(r)
    BY <1>0, <2>1 DEF ProgressOf, Done, Op, To, From, AfterWriteCalls, AfterStageCalls, AfterCommitCalls
  <2>3. CASE CommitIndex(r) /\ pc'[r] = AfterCommit(r)
    <3>1. HEAD' = staged
      BY <2>3, HeadAfterCommit DEF DataType
    <3>2. Done(r, HEAD)'
      BY <1>0, <2>1, <3>1 DEF ProgressOf, Done, Op, To, From, AfterWriteCalls, AfterStageCalls, AfterCommitCalls
    <3>3. pc'[r] \in AfterCommitCalls /\ pc'[r] \notin {"truncate", "fill"}
      BY <2>3 DEF AfterCommit, AfterCommitCalls
    <3>4. QED
      BY <1>0, <2>1, <2>2, <3>2, <3>3 DEF ProgressOf, AfterWriteCalls, AfterStageCalls
  <2>4. QED
    BY <1>14, <1>a, <2>3, GotoAt DEF GitCommit, Landed, Answers
<1>15. CASE UpdateComments(r)
  BY <1>15, OwnKeeps, GotoAt DEF UpdateComments, repo, AfterCommitCalls
<1>16. CASE Unindex(r)
  BY <1>16, OwnKeeps, GotoAt DEF Unindex, repo, AfterCommitCalls
<1>17. CASE Index(r)
  BY <1>17, OwnKeeps, GotoAt DEF Index, repo, AfterCommitCalls
<1>18. CASE Respond(r)
  BY <1>18, <1>a DEF Respond, Answers
<1>19. CASE InsertComment(r)
  BY <1>19, <1>a DEF InsertComment, Answers
<1>20. CASE CallFails(r)
  BY <1>20, <1>a DEF CallFails, Answers
<1>21. QED
  BY <1>1, <1>2, <1>3, <1>4, <1>5, <1>6, <1>7, <1>8, <1>9, <1>10, <1>11, <1>12, <1>13, <1>14, <1>15, <1>16, <1>17, <1>18, <1>19, <1>20 DEF Step

LEMMA ProgressStep ==
  ASSUME ControlType, ReqType, DataType, RequestShape, LockShape, Progress,
         NEW r \in Reqs, Start(r) \/ Step(r) \/ CallFails(r)
  PROVE  Progress'
<1>1. ASSUME NEW s \in Reqs, s # r PROVE ProgressOf(s)'
  BY <1>1, StepFrame, OthersKeep
<1>2. ProgressOf(r)'
  BY OwnStep
<1>3. QED
  BY <1>1, <1>2 DEF Progress

-----------------------------------------------------------------------------
(***************************************************************************)
(* Restart, and the theorems                                               *)
(***************************************************************************)
LEMMA CrashStep ==
  ASSUME TypeOK, RequestShape, LockShape, Progress, Crash
  PROVE  IndInv'
<1>1. \A r \in Reqs : pc'[r] \in {"idle"} \cup Answers
  BY DEF Crash, Active, Answers, TypeOK
<1>2. TypeOK'
  <2>1. RepoTypeOK'
    BY DEF TypeOK, Crash, repo, RepoTypeOK
  <2>2. pc' \in [Reqs -> {"idle"} \cup Calls \cup Answers]
    BY <1>1 DEF Crash
  <2>3. idx' \in Tree
    BY DEF TypeOK, Crash, RepoTypeOK, Tree
  <2>4. crashes' \in 0..MaxCrashes
    BY BoundsAssumption DEF TypeOK, Crash
  <2>5. QED
    BY <2>1, <2>2, <2>3, <2>4 DEF TypeOK, Crash
<1>3. RequestShape'
  <2>1. ASSUME NEW r \in Reqs, pc'[r] # "idle" PROVE pc[r] # "idle"
    BY <2>1 DEF Crash, Active, TypeOK
  <2>2. QED
    BY <1>1, <2>1, AnswerOps DEF RequestShape, Crash, Request, Op, From, To
<1>4. LockShape'
  BY <1>1, NoneAssumption DEF LockShape, Crash, Held
<1>5. Progress'
  BY <1>1, CallSets DEF Progress, ProgressOf
<1>6. QED
  BY <1>2, <1>3, <1>4, <1>5 DEF IndInv

LEMMA InitInd == Init => IndInv
<1> SUFFICES ASSUME Init PROVE IndInv
  OBVIOUS
<1>1. \A r \in Reqs : pc[r] = "idle"
  BY DEF Init
<1>2. LockShape
  BY <1>1, NoneAssumption DEF Init, LockShape, Held
<1>3. Progress
  BY <1>1, CallSets DEF Progress, ProgressOf
<1>4. QED
  BY <1>2, <1>3, InitType DEF IndInv

LEMMA StepInd == IndInv /\ [Next]_vars => IndInv'
<1> SUFFICES ASSUME IndInv, [Next]_vars PROVE IndInv'
  OBVIOUS
<1>1. /\ TypeOK /\ RequestShape /\ LockShape /\ Progress
      /\ ControlType /\ DataType /\ ReqType
      /\ faults \in 0..MaxFaults /\ crashes \in 0..MaxCrashes
  BY TypeSplit DEF IndInv
<1>2. ASSUME NEW r \in Reqs, Start(r) \/ Step(r) \/ CallFails(r) PROVE IndInv'
  <2>1. ControlType' /\ faults' \in 0..MaxFaults /\ DataType'
    BY <1>1, <1>2, ControlStep, DataStep
  <2>2. ReqType' /\ crashes' \in 0..MaxCrashes
    BY <1>1, <1>2, ReqStep
  <2>3. RequestShape' /\ LockShape' /\ Progress'
    BY <1>1, <1>2, ShapeStep, LockStep, ProgressStep
  <2>4. TypeOK'
    BY <2>1, <2>2, TypeSplit DEF TypeOK, ControlType, DataType, ReqType, PcSet
  <2>5. QED
    BY <2>3, <2>4 DEF IndInv
<1>3. CASE Crash
  BY <1>1, <1>3, CrashStep
<1>4. CASE UNCHANGED vars
  <2>1. HEAD' = HEAD
    BY <1>4 DEF HEAD, vars, repo
  <2>2. TypeOK' /\ RequestShape'
    BY <1>1, <1>4
    DEF TypeOK, RepoTypeOK, RequestShape, Op, From, To, vars, repo, derived, env
  <2>3. LockShape'
    BY <1>1, <1>4, HeldFrame DEF LockShape, vars
  <2>4. Progress'
    BY <1>1, <1>4, <2>1 DEF Progress, ProgressOf, Done, Op, From, To, vars, repo
  <2>5. QED
    BY <2>2, <2>3, <2>4 DEF IndInv
<1>5. QED
  BY <1>2, <1>3, <1>4 DEF Next, Idle

\* The types, the calls each operation makes, the owners of the path locks and
\* the progress of each change are as stated in every reachable state.
THEOREM Invariance == Spec => []IndInv
BY InitInd, StepInd, PTL DEF Spec

\* Type correctness of the document pipeline.
THEOREM TypeCorrect == Spec => []TypeOK
<1>1. IndInv => TypeOK
  BY DEF IndInv
<1>2. QED
  BY <1>1, Invariance, PTL

\* What a handler is about to answer 2xx to is in HEAD: the saved or copied
\* document, the absence of the deleted one, both ends of the move, for any
\* number of requests that share the git index, any faults and any restarts.
THEOREM AckedChangeIsCommitted == Spec => []AckedIsCommitted
<1>1. IndInv => AckedIsCommitted
  BY DEF IndInv, Progress, ProgressOf, AfterCommitCalls, AckedIsCommitted
<1>2. QED
  BY <1>1, Invariance, PTL

-----------------------------------------------------------------------------
(***************************************************************************)
(* Freedom from deadlock                                                   *)
(***************************************************************************)
\* A nonempty bounded set of numbers has a greatest element.
LEMMA Greatest ==
  ASSUME NEW n \in Nat, NEW W \in SUBSET (0..n), W # {}
  PROVE  \E w \in W : \A v \in W : v <= w
<1> DEFINE T == {n - w : w \in W}
<1>1. T \subseteq Nat /\ T # {}
  <2>1. ASSUME NEW w \in W PROVE n - w \in Nat
    <3>1. w \in 0..n
      OBVIOUS
    <3>2. QED
      BY <3>1
  <2>2. QED
    BY <2>1
<1>2. PICK x \in T : \A y \in T : ~ (<<y, x>> \in OpToRel(<, Nat))
  BY <1>1, NatLessThanWellFounded, WFMin
<1>3. ASSUME NEW y \in T PROVE x <= y
  <2>1. x \in Nat /\ y \in Nat
    BY <1>1
  <2>2. ~ (y < x)
    BY <1>2, <2>1 DEF OpToRel
  <2>3. QED
    BY <2>1, <2>2
<1>4. PICK w \in W : x = n - w
  OBVIOUS
<1>5. ASSUME NEW v \in W PROVE v <= w
  <2>1. x <= n - v
    BY <1>3
  <2>2. QED
    BY <1>4, <2>1
<1>6. QED
  BY <1>5

LEMMA PathsAreNumbers == Paths \subseteq Nat
BY PathsAssumption DEF Paths

\* A handler that waits for its second mutex holds one of a smaller path.
LEMMA LocksAscend ==
  ASSUME RequestShape, NEW r \in Reqs, pc[r] = "lock2"
  PROVE  /\ LockSeq(r)[1] \in Paths /\ LockSeq(r)[2] \in Paths
         /\ LockSeq(r)[1] < LockSeq(r)[2]
<1>1. From(r) \in Paths /\ To(r) \in Paths /\ Op(r) = "move" /\ From(r) # To(r)
  BY PathTypes DEF RequestShape, OpsOf
<1>2. From(r) \in Nat /\ To(r) \in Nat
  BY <1>1, PathsAreNumbers
<1>3. QED
  BY <1>1, <1>2 DEF LockSeq

LEMMA NoCycle == TypeOK /\ RequestShape /\ LockShape => NoWaitCycle
<1> SUFFICES ASSUME TypeOK, RequestShape, LockShape,
                    NEW S \in SUBSET Reqs, S # {},
                    \A r \in S : \E p \in Awaited(r) : lock[p] \in S
             PROVE  FALSE
  BY DEF NoWaitCycle
<1> DEFINE W == {LockSeq(r)[2] : r \in {s \in S : pc[s] = "lock2"}}
\* Whoever is waited for holds a mutex and waits: it is between its two locks.
<1>1. ASSUME NEW r \in S
      PROVE  \E q \in S : pc[q] = "lock2" /\ LockSeq(q)[1] \in Awaited(r)
  <2>1. PICK p \in Awaited(r) : lock[p] \in S
    OBVIOUS
  <2>2. p \in Paths
    BY <2>1, PathTypes, LocksAscend DEF Awaited, LockSeq
  <2>3. PICK q \in S : lock[p] = q /\ p \in Held(q)
    BY <2>1, <2>2 DEF LockShape
  <2>4. pc[q] \in {"lock1", "lock2"}
    <3>1. Awaited(q) # {}
      OBVIOUS
    <3>2. QED
      BY <3>1 DEF Awaited
  <2>5. pc[q] = "lock2" /\ p = LockSeq(q)[1]
    BY <2>3, <2>4 DEF Held, Answers
  <2>6. QED
    BY <2>5
<1>2. W # {}
  BY <1>1
<1>3. NumPaths \in Nat /\ Paths \subseteq 0..NumPaths
  BY PathsAssumption DEF Paths
<1>4. W \in SUBSET (0..NumPaths)
  BY <1>3, LocksAscend
<1>5. PICK r \in S : pc[r] = "lock2" /\ \A v \in W : v <= LockSeq(r)[2]
  BY <1>2, <1>3, <1>4, Greatest
<1>6. PICK q \in S : pc[q] = "lock2" /\ LockSeq(q)[1] = LockSeq(r)[2]
  BY <1>1, <1>5 DEF Awaited
<1>7. LockSeq(q)[2] \in W
  BY <1>6
<1>8. LockSeq(q)[2] <= LockSeq(q)[1]
  BY <1>5, <1>6, <1>7
<1>9. LockSeq(q)[1] \in Nat /\ LockSeq(q)[2] \in Nat
  BY <1>6, LocksAscend, PathsAreNumbers
<1>10. QED
  BY <1>6, <1>8, <1>9, LocksAscend

\* No set of handlers, however large, waits for each other's path locks.
THEOREM DeadlockFree == Spec => []NoWaitCycle
<1>1. IndInv => NoWaitCycle
  BY NoCycle DEF IndInv
<1>2. QED
  BY <1>1, Invariance, PTL
-----------------------------------------------------------------------------
(***************************************************************************)
(* Index and comments                                                      *)
(***************************************************************************)
\* r has changed p and has not brought the index up to date.
Unfinished(r, p) ==
  \/ /\ Op(r) \in {"put", "copy"} /\ p = To(r)
     /\ pc[r] \in {"fill", "add", "diff", "commit", "index"}
  \/ /\ Op(r) \in {"delete", "move"} /\ p = From(r)
     /\ pc[r] \in {"commit", "comments", "unindex"}
  \/ /\ Op(r) = "move" /\ p = To(r)
     /\ pc[r] \in {"commit", "comments", "unindex", "index"}

\* r has taken the document away from p and still has the comments to move.
Orphaning(r, p) ==
  /\ Op(r) \in {"delete", "move"} /\ p = From(r)
  /\ pc[r] \in {"commit", "comments"}

LapsedShape == \A r \in lapsed : pc[r] # "idle"

IndexAt(p) == idx[p] = wt[p] \/ Disturbed(p) \/ \E r \in Reqs : Unfinished(r, p)

CommentAt(c) ==
  LET p == onpath[c]
  IN  p # None => wt[p] # None \/ Disturbed(p) \/ \E r \in Reqs : Orphaning(r, p)

DerivedInv ==
  /\ LapsedShape
  /\ \A p \in Paths : IndexAt(p)
  /\ \A c \in Comments : CommentAt(c)

\* What a step of r does to the requests, the lapses and the index.
LEMMA StepTrace ==
  ASSUME ControlType, DataType, RequestShape, NEW r \in Reqs,
         Start(r) \/ Step(r) \/ CallFails(r)
  PROVE  /\ pc[r] \notin Answers /\ pc'[r] # "idle" /\ pc'[r] # "lost"
         /\ pc[r] # "idle" => UNCHANGED req
         /\ lapsed \subseteq lapsed' /\ lapsed' \subseteq lapsed \cup {r}
         /\ \/ UNCHANGED idx
            \/ /\ pc[r] \in LockedCalls
               /\ \A p \in Paths \ OwnPaths(r) : idx'[p] = idx[p]
         /\ \A c \in Comments : onpath'[c] # onpath[c] => UpdateComments(r)
<1> USE GotoAt, AnswerAt, CommentsAssumption
    DEF ControlType, DataType, derived, Answers
<1>1. CASE Start(r)
  BY <1>1 DEF Start
<1>2. CASE TakeFirstLock(r)
  BY <1>2 DEF TakeFirstLock
<1>3. CASE TakeSecondLock(r)
  BY <1>3 DEF TakeSecondLock
<1>4. CASE PutLoad(r)
  BY <1>4 DEF PutLoad
<1>5. CASE DeleteCheck(r)
  BY <1>5 DEF DeleteCheck
<1>6. CASE MoveCheck(r)
  BY <1>6 DEF MoveCheck
<1>7. CASE CopyLoad(r)
  BY <1>7 DEF CopyLoad
<1>8. CASE WriteTruncate(r)
  BY <1>8 DEF WriteTruncate
<1>9. CASE WriteFill(r)
  BY <1>9 DEF WriteFill
<1>10. CASE GitAdd(r)
  BY <1>10 DEF GitAdd
<1>11. CASE GitDiff(r)
  BY <1>11 DEF GitDiff, Landed, AfterCommit
<1>12. CASE GitMv(r)
  BY <1>12 DEF GitMv
<1>13. CASE GitRm(r)
  BY <1>13 DEF GitRm
<1>14. CASE GitCommit(r)
  BY <1>14 DEF GitCommit, Landed, AfterCommit
<1>15. CASE UpdateComments(r)
  BY <1>15 DEF UpdateComments, Log, Quiet
<1>16. CASE Unindex(r)
  BY <1>16 DEF Unindex, Log, Quiet, OwnPaths, RequestShape, OpsOf, LockedCalls, Calls, Tree
<1>17. CASE Index(r)
  BY <1>17 DEF Index, Log, Quiet, OwnPaths, LockedCalls, Calls, Tree
<1>18. CASE Respond(r)
  BY <1>18 DEF Respond
<1>19. CASE InsertComment(r)
  BY <1>19 DEF InsertComment, CommentIds
<1>20. CASE CallFails(r)
  BY <1>20 DEF CallFails, FallibleCalls
<1>21. QED
  BY <1>1, <1>2, <1>3, <1>4, <1>5, <1>6, <1>7, <1>8, <1>9, <1>10, <1>11, <1>12, <1>13, <1>14, <1>15, <1>16, <1>17, <1>18, <1>19, <1>20 DEF Step

LEMMA DisturbedKept ==
  ASSUME ControlType, ReqType, DataType, RequestShape, LapsedShape, NEW r \in Reqs,
         Start(r) \/ Step(r) \/ CallFails(r)
  PROVE  LapsedShape' /\ \A p \in Paths : Disturbed(p) => Disturbed(p)'
<1>1. \A s \in Reqs \ {r} : pc'[s] = pc[s] /\ req'[s] = req[s]
  BY StepFrame
<1>2. LapsedShape'
  BY <1>1, StepTrace DEF LapsedShape, DataType
<1>3. ASSUME NEW p \in Paths, Disturbed(p) PROVE Disturbed(p)'
  <2>1. PICK s \in Reqs : /\ pc[s] \in {"failed", "lost"} \/ s \in lapsed
                          /\ p \in {From(s), To(s)}
    BY <1>3 DEF Disturbed
  <2>2. pc[s] # "idle" /\ (s \in lapsed => s \in lapsed')
    BY <2>1, StepTrace DEF LapsedShape
  <2>3. req'[s] = req[s] /\ (pc[s] \in {"failed", "lost"} => pc'[s] = pc[s])
    BY <1>1, <2>2, StepTrace DEF Answers
  <2>4. QED
    BY <2>1, <2>2, <2>3 DEF Disturbed, From, To
<1>4. QED
  BY <1>2, <1>3

\* A request that fails, or skips one of its last calls, disturbs its paths.
LEMMA FailureDisturbs ==
  ASSUME NEW r \in Reqs, pc'[r] = "failed" \/ r \in lapsed', UNCHANGED req
  PROVE  \A p \in {From(r), To(r)} : Disturbed(p)'
BY DEF Disturbed, From, To

LEMMA UnfinishedLocked ==
  ASSUME RequestShape, NEW r \in Reqs, NEW p, Unfinished(r, p) \/ Orphaning(r, p)
  PROVE  pc[r] \in LockedCalls /\ p \in OwnPaths(r)
BY DEF RequestShape, Unfinished, Orphaning, LockedCalls, Calls, OwnPaths

\* A handler that changes a document indexes it, or removes it from the index,
\* before it answers 2xx.
LEMMA OwnIndex ==
  ASSUME ControlType, DataType, RequestShape, Progress, NEW r \in Reqs,
         Step(r) \/ CallFails(r), pc[r] \in LockedCalls,
         NEW p \in OwnPaths(r), idx[p] = wt[p] \/ Unfinished(r, p)
  PROVE  \/ idx'[p] = wt'[p] \/ Unfinished(r, p)'
         \/ pc'[r] = "failed" \/ r \in lapsed'
<1>0. /\ p \in Paths /\ From(r) \in Paths /\ To(r) \in Paths
      /\ UNCHANGED req /\ pc[r] # "idle"
  BY PathTypes, StepTrace DEF OwnPaths, LockedCalls, Calls
<1>00. Op(r)' = Op(r) /\ From(r)' = From(r) /\ To(r)' = To(r)
  BY <1>0 DEF Op, From, To
<1>01. Op(r) \in OpsOf(pc[r]) /\ (From(r) = To(r) <=> Op(r) \notin {"move", "copy"})
  BY <1>0 DEF RequestShape
<1> USE <1>0, <1>00, <1>01, GotoAt, AnswerAt DEF ControlType, derived
<1>1. CASE TakeFirstLock(r)
  BY <1>1 DEF TakeFirstLock, LockedCalls
<1>2. CASE TakeSecondLock(r)
  BY <1>2 DEF TakeSecondLock, LockedCalls
<1>3. CASE PutLoad(r)
  BY <1>3 DEF PutLoad, Unfinished, repo
<1>4. CASE DeleteCheck(r)
  BY <1>4 DEF DeleteCheck, Unfinished, repo
<1>5. CASE MoveCheck(r)
  BY <1>5 DEF MoveCheck, Unfinished, repo
<1>6. CASE CopyLoad(r)
  BY <1>6 DEF CopyLoad, Unfinished, repo
<1>7. CASE WriteTruncate(r)
  BY <1>7 DEF WriteTruncate, Unfinished, OwnPaths, OpsOf
<1>8. CASE WriteFill(r)
  BY <1>8 DEF WriteFill, Unfinished, OwnPaths, OpsOf
<1>9. CASE GitAdd(r)
  BY <1>9 DEF GitAdd, Unfinished, OwnPaths, OpsOf
<1>10. CASE GitDiff(r)
  BY <1>10 DEF GitDiff, Landed, AfterCommit, Unfinished, OwnPaths, OpsOf, repo
<1>11. CASE GitMv(r)
  BY <1>11 DEF GitMv, Unfinished, OwnPaths, OpsOf
<1>12. CASE GitRm(r)
  BY <1>12 DEF GitRm, Unfinished, OwnPaths, OpsOf
<1>13. CASE GitCommit(r)
  BY <1>13 DEF GitCommit, Landed, AfterCommit, CommitIndex, Unfinished, OwnPaths, OpsOf, repo
<1>14. CASE UpdateComments(r)
  BY <1>14 DEF UpdateComments, Unfinished, OpsOf, repo
<1>15. CASE Unindex(r)
  <2>1. Done(r, wt) /\ Op(r) \in {"move", "delete"}
    BY <1>15 DEF Unindex, Progress, ProgressOf, OpsOf, AfterWriteCalls, AfterStageCalls, AfterCommitCalls
  <2>2. CASE Log(r)
    BY <2>2 DEF Log
  <2>3. CASE p = To(r) /\ Op(r) = "move"
    BY <1>15, <2>3 DEF Unindex, Unfinished
  <2>4. CASE p = From(r) /\ idx' = [idx EXCEPT ![From(r)] = None]
    BY <1>15, <2>1, <2>4 DEF Unindex, Done, DataType, Tree, repo
  <2>5. QED
    BY <1>15, <2>1, <2>2, <2>3, <2>4 DEF Unindex, OwnPaths
<1>16. CASE Index(r)
  <2>1. /\ Done(r, wt) /\ Op(r) \in {"put", "copy", "move"}
        /\ (Op(r) # "move" => out[r] # None)
    BY <1>16 DEF Index, Progress, ProgressOf, OpsOf, AfterWriteCalls, AfterStageCalls, AfterCommitCalls
  <2>2. CASE Log(r)
    BY <2>2 DEF Log
  <2>3. CASE p # To(r)
    BY <1>16, <2>1, <2>3 DEF Index, Unfinished, OwnPaths, repo, DataType, Tree
  <2>4. CASE p = To(r) /\ ~Log(r)
    <3>1. wt[p] \in Content
      BY <2>1, <2>4 DEF Done, DataType, RepoTypeOK, Tree, File
    <3>2. idx'[p] = [ver |-> wt[p].ver, body |-> IF Op(r) = "move" THEN wt[p].body ELSE out[r].body]
      BY <1>16, <2>4 DEF Index, DataType, Tree
    <3>3. Op(r) # "move" => out[r] = wt[p]
      BY <2>1, <2>4 DEF Done
    <3>4. idx'[p] = wt[p]
      BY <3>1, <3>2, <3>3 DEF Content
    <3>5. QED
      BY <1>16, <3>4 DEF Index, repo
  <2>5. QED
    BY <2>2, <2>3, <2>4
<1>17. CASE Respond(r)
  BY <1>17 DEF Respond, Unfinished, repo
<1>18. CASE InsertComment(r)
  BY <1>18 DEF InsertComment, LockedCalls
<1>19. CASE CallFails(r)
  BY <1>19 DEF CallFails
<1>20. QED
  BY <1>1, <1>2, <1>3, <1>4, <1>5, <1>6, <1>7, <1>8, <1>9, <1>10, <1>11, <1>12, <1>13, <1>14, <1>15, <1>16, <1>17, <1>18, <1>19 DEF Step

LEMMA IndexStep ==
  ASSUME ControlType, ReqType, DataType, RequestShape, LockShape, Progress, LapsedShape,
         NEW r \in Reqs, Start(r) \/ Step(r) \/ CallFails(r),
         NEW p \in Paths, IndexAt(p)
  PROVE  IndexAt(p)'
<1>1. \A s \in Reqs \ {r} : Unfinished(s, p) => Unfinished(s, p)'
  BY StepFrame DEF Unfinished, Op, From, To
<1>2. Disturbed(p) => Disturbed(p)'
  BY DisturbedKept
<1>3. CASE pc[r] \notin LockedCalls \/ p \notin OwnPaths(r)
  <2>1. wt'[p] = wt[p] /\ idx'[p] = idx[p] /\ ~Unfinished(r, p)
    BY <1>3, StepFrame, StepTrace, UnfinishedLocked
  <2>2. QED
    BY <1>1, <1>2, <2>1 DEF IndexAt
<1>4. CASE pc[r] \in LockedCalls /\ p \in OwnPaths(r)
  <2>1. \A s \in Reqs \ {r} : ~Unfinished(s, p)
    BY <1>4, Apart, UnfinishedLocked
  <2>2. CASE Disturbed(p)
    BY <1>2, <2>2 DEF IndexAt
  <2>3. CASE idx[p] = wt[p] \/ Unfinished(r, p)
    <3>1. UNCHANGED req /\ ~Start(r)
      BY <1>4, StepTrace DEF LockedCalls, Calls, Start
    <3>2. \/ idx'[p] = wt'[p] \/ Unfinished(r, p)'
          \/ pc'[r] = "failed" \/ r \in lapsed'
      BY <1>4, <2>3, <3>1, OwnIndex
    <3>3. pc'[r] = "failed" \/ r \in lapsed' => Disturbed(p)'
      BY <1>4, <3>1, FailureDisturbs DEF OwnPaths
    <3>4. QED
      BY <3>2, <3>3 DEF IndexAt
  <2>4. QED
    BY <2>1, <2>2, <2>3 DEF IndexAt
<1>5. QED
  BY <1>3, <1>4

\* A document disappears from a path only while a delete, or the move away
\* from there, still has the comments to take along.
LEMMA OwnComments ==
  ASSUME ControlType, DataType, RequestShape, Progress, NEW r \in Reqs,
         Step(r) \/ CallFails(r), pc[r] \in LockedCalls,
         NEW p \in OwnPaths(r), wt[p] # None
  PROVE  wt'[p] # None \/ Orphaning(r, p)'
<1>0. /\ p \in Paths /\ From(r) \in Paths /\ To(r) \in Paths
      /\ UNCHANGED req /\ pc[r] # "idle"
  BY PathTypes, StepTrace DEF OwnPaths, LockedCalls, Calls
<1>00. Op(r)' = Op(r) /\ From(r)' = From(r) /\ To(r)' = To(r)
  BY <1>0 DEF Op, From, To
<1>01. Op(r) \in OpsOf(pc[r]) /\ (From(r) = To(r) <=> Op(r) \notin {"move", "copy"})
  BY <1>0 DEF RequestShape
<1>02. wt \in Tree
  BY DEF DataType, RepoTypeOK
<1> USE <1>0, <1>00, <1>01
<1>1. CASE WriteTruncate(r)
  BY <1>1, <1>02, SeedIsFile, NoneAssumption DEF WriteTruncate, TruncateFile, Tree
<1>2. CASE WriteFill(r)
  BY <1>2, <1>02 DEF WriteFill, FillFile, Tree, Progress, ProgressOf, OpsOf
<1>3. CASE GitMv(r)
  <2>1. CASE Mv(From(r), To(r)) /\ CanMv(From(r), To(r)) /\ Goto(r, "commit")
    <3>1. pc'[r] = "commit" /\ Op(r) = "move" /\ From(r) # To(r)
      BY <1>3, <2>1, GotoAt DEF ControlType, GitMv, OpsOf
    <3>2. wt'[To(r)] = wt[From(r)] /\ wt[From(r)] # None
      BY <1>02, <2>1, <3>1 DEF Mv, CanMv, Tree
    <3>3. QED
      BY <3>1, <3>2 DEF OwnPaths, Orphaning
  <2>2. QED
    BY <1>3, <2>1 DEF GitMv, repo
<1>4. CASE GitRm(r)
  <2>1. CASE Rm(To(r)) /\ Goto(r, "commit")
    <3>1. pc'[r] = "commit" /\ Op(r) = "delete" /\ From(r) = To(r)
      BY <1>4, <2>1, GotoAt DEF ControlType, GitRm, OpsOf
    <3>2. QED
      BY <3>1 DEF OwnPaths, Orphaning
  <2>2. QED
    BY <1>4, <2>1 DEF GitRm, repo
<1>5. CASE UNCHANGED wt
  BY <1>5
<1>6. QED
  BY <1>1, <1>2, <1>3, <1>4, <1>5 DEF Step, CallFails, TakeFirstLock, TakeSecondLock,
    PutLoad, DeleteCheck, MoveCheck, CopyLoad, GitAdd, Add, GitDiff, GitCommit, CommitIndex,
    UpdateComments, Unindex, Index, Respond, InsertComment, repo

\* Whoever has comments to move moves them, skips that, or fails.
LEMMA OrphansTaken ==
  ASSUME ControlType, RequestShape, NEW r \in Reqs, Step(r) \/ CallFails(r),
         NEW c \in Comments, Orphaning(r, onpath[c]), onpath'[c] = onpath[c],
         onpath \in [CommentIds -> Paths \cup {None}]
  PROVE  Orphaning(r, onpath[c])' \/ pc'[r] = "failed" \/ r \in lapsed'
<1> USE GotoAt, AnswerAt DEF ControlType, derived
<1>1. Op(r) \in {"delete", "move"} /\ onpath[c] = From(r) /\ pc[r] \in {"commit", "comments"}
  BY DEF Orphaning
<1>2. CASE GitCommit(r)
  BY <1>1, <1>2 DEF GitCommit, Landed, AfterCommit, Orphaning, Op, From
<1>3. CASE UpdateComments(r)
  <2>1. CASE Log(r)
    BY <2>1 DEF Log
  <2>2. CASE onpath' = [d \in CommentIds |->
                          IF onpath[d] = From(r) THEN IF Op(r) = "move" THEN To(r) ELSE None
                          ELSE onpath[d]]
    <3>1. From(r) # To(r) \/ Op(r) = "delete"
      BY <1>1 DEF RequestShape
    <3>2. From(r) \in Paths
      BY <1>1, PathTypes
    <3>3. onpath'[c] # From(r)
      BY <1>1, <2>2, <3>1, <3>2, NoneAssumption DEF CommentIds
    <3>4. QED
      BY <1>1, <3>3
  <2>3. QED
    BY <1>3, <2>1, <2>2 DEF UpdateComments
<1>4. CASE CallFails(r)
  BY <1>4 DEF CallFails
<1>5. QED
  BY <1>1, <1>2, <1>3, <1>4 DEF Step, TakeFirstLock, TakeSecondLock,
    PutLoad, DeleteCheck, MoveCheck, CopyLoad, WriteTruncate, WriteFill, GitAdd, GitDiff,
    GitMv, GitRm, Unindex, Index, Respond, InsertComment

LEMMA CommentStep ==
  ASSUME ControlType, ReqType, DataType, RequestShape, LockShape, Progress, LapsedShape,
         NEW r \in Reqs, Start(r) \/ Step(r) \/ CallFails(r),
         NEW c \in Comments, CommentAt(c)
  PROVE  CommentAt(c)'
<1>0. onpath[c] \in Paths \cup {None}
  BY DEF DataType, CommentIds
<1>1. CASE onpath'[c] # onpath[c]
  <2>1. UpdateComments(r)
    BY <1>1, StepTrace
  <2>2. Op(r) \in {"move", "delete"} /\ Done(r, wt) /\ wt' = wt
    BY <2>1 DEF UpdateComments, RequestShape, OpsOf, Progress, ProgressOf, AfterWriteCalls,
                AfterStageCalls, AfterCommitCalls, repo
  <2>3. onpath'[c] = IF Op(r) = "move" THEN To(r) ELSE None
    BY <1>1, <2>1 DEF UpdateComments, CommentIds
  <2>4. QED
    BY <2>2, <2>3 DEF CommentAt, Done
<1>2. CASE onpath'[c] = onpath[c] /\ onpath[c] # None
  <2>0. PICK p \in Paths : p = onpath[c]
    BY <1>0, <1>2
  <2>1. \A s \in Reqs \ {r} : Orphaning(s, p) => Orphaning(s, p)'
    BY <1>2, StepFrame DEF Orphaning, Op, From, To
  <2>2. Disturbed(p) => Disturbed(p)'
    BY DisturbedKept
  <2>3. CASE Disturbed(p)
    BY <1>2, <2>0, <2>2, <2>3 DEF CommentAt
  <2>4. CASE Orphaning(r, p)
    <3>1. pc[r] \in LockedCalls /\ p \in {From(r), To(r)}
      BY <2>4, UnfinishedLocked DEF Orphaning
    <3>2. UNCHANGED req /\ ~Start(r)
      BY <3>1, StepTrace DEF LockedCalls, Calls, Start
    <3>3. Orphaning(r, p)' \/ pc'[r] = "failed" \/ r \in lapsed'
      BY <1>2, <2>0, <2>4, <3>2, OrphansTaken DEF DataType, Orphaning
    <3>4. QED
      BY <1>2, <2>0, <3>1, <3>2, <3>3, FailureDisturbs DEF CommentAt
  <2>5. CASE \E s \in Reqs \ {r} : Orphaning(s, p)
    BY <1>2, <2>0, <2>1, <2>5 DEF CommentAt
  <2>6. CASE wt[p] # None
    <3>1. CASE pc[r] \notin LockedCalls \/ p \notin OwnPaths(r)
      BY <1>2, <2>0, <2>6, <3>1, StepFrame DEF CommentAt
    <3>2. CASE pc[r] \in LockedCalls /\ p \in OwnPaths(r)
      <4>1. ~Start(r)
        BY <3>2 DEF LockedCalls, Calls, Start
      <4>2. wt'[p] # None \/ Orphaning(r, p)'
        BY <2>6, <3>2, <4>1, OwnComments
      <4>3. QED
        BY <1>2, <2>0, <4>2 DEF CommentAt
    <3>3. QED
      BY <3>1, <3>2
  <2>7. QED
    BY <1>2, <2>0, <2>3, <2>4, <2>5, <2>6 DEF CommentAt
<1>3. CASE onpath'[c] = None
  BY <1>3 DEF CommentAt
<1>4. QED
  BY <1>1, <1>2, <1>3

LEMMA DerivedCrash ==
  ASSUME IndInv, DerivedInv, Crash
  PROVE  DerivedInv'
<1>1. /\ pc' = [r \in Reqs |-> IF Active(r) THEN "lost" ELSE pc[r]]
      /\ UNCHANGED <<wt, req, onpath, lapsed>>
      /\ idx' = [p \in Paths |-> IF wt[p] # None THEN wt[p] ELSE idx[p]]
  BY DEF Crash, repo
<1>2. LapsedShape'
  BY <1>1 DEF DerivedInv, LapsedShape, IndInv, TypeOK, Active
<1>3. ASSUME NEW p \in Paths, Disturbed(p) PROVE Disturbed(p)'
  BY <1>1, <1>3 DEF Disturbed, From, To, Active, Answers
<1>4. ASSUME NEW p \in Paths, NEW r \in Reqs, Unfinished(r, p) \/ Orphaning(r, p)
      PROVE  Disturbed(p)'
  <2>1. pc'[r] = "lost"
    BY <1>1, <1>4 DEF Unfinished, Orphaning, Active, Answers
  <2>2. p \in {From(r), To(r)}
    BY <1>4 DEF Unfinished, Orphaning
  <2>3. QED
    BY <1>1, <2>1, <2>2 DEF Disturbed, From, To
<1>5. ASSUME NEW p \in Paths PROVE IndexAt(p)'
  <2>1. idx[p] = wt[p] => idx'[p] = wt'[p]
    BY <1>1
  <2>2. QED
    BY <1>3, <1>4, <2>1 DEF DerivedInv, IndexAt
<1>6. ASSUME NEW c \in Comments PROVE CommentAt(c)'
  <2>1. onpath[c] \in Paths \cup {None} /\ onpath' = onpath /\ wt' = wt
    BY <1>1 DEF IndInv, TypeOK, CommentIds
  <2>2. ASSUME onpath[c] # None, Disturbed(onpath[c]) PROVE Disturbed(onpath[c])'
    BY <1>3, <2>1, <2>2 DEF Disturbed
  <2>3. ASSUME onpath[c] # None, NEW r \in Reqs, Orphaning(r, onpath[c])
        PROVE  Disturbed(onpath[c])'
    BY <1>4, <2>1, <2>3 DEF Disturbed
  <2>4. QED
    BY <2>1, <2>2, <2>3 DEF DerivedInv, CommentAt
<1>7. QED
  BY <1>2, <1>5, <1>6 DEF DerivedInv

LEMMA DerivedInit == Init => DerivedInv
<1> SUFFICES ASSUME Init PROVE DerivedInv
  OBVIOUS
<1>1. \A c \in Comments : onpath[c] \in {p \in Paths : wt[p] # None} \cup {None}
  BY DEF Init, CommentIds
<1>2. QED
  BY <1>1 DEF Init, DerivedInv, LapsedShape, IndexAt, CommentAt

LEMMA DerivedStep == IndInv /\ DerivedInv /\ [Next]_vars => DerivedInv'
<1> SUFFICES ASSUME IndInv, DerivedInv, [Next]_vars PROVE DerivedInv'
  OBVIOUS
<1>1. /\ RequestShape /\ LockShape /\ Progress
      /\ ControlType /\ DataType /\ ReqType
  BY TypeSplit DEF IndInv
<1>2. ASSUME NEW r \in Reqs, Start(r) \/ Step(r) \/ CallFails(r) PROVE DerivedInv'
  <2>1. LapsedShape'
    BY <1>1, <1>2, DisturbedKept DEF DerivedInv
  <2>2. \A p \in Paths : IndexAt(p)'
    BY <1>1, <1>2, IndexStep DEF DerivedInv
  <2>3. \A c \in Comments : CommentAt(c)'
    BY <1>1, <1>2, CommentStep DEF DerivedInv
  <2>4. QED
    BY <2>1, <2>2, <2>3 DEF DerivedInv
<1>3. CASE UNCHANGED vars
  BY <1>3 DEF DerivedInv, LapsedShape, IndexAt, CommentAt, Disturbed, Unfinished,
              Orphaning, Op, From, To, vars, repo, derived
<1>4. QED
  BY <1>2, <1>3, DerivedCrash DEF Next, Idle

\* Every document that nobody is working on and no failed request left behind
\* is in the search index as it is on disk.
THEOREM IndexFollows == Spec => []IndexCoherent
<1>1. IndInv /\ DerivedInv => IndexCoherent
  <2> SUFFICES ASSUME IndInv, DerivedInv, NEW p \in Paths,
                      lock[p] = None, ~Disturbed(p)
               PROVE  idx[p] = wt[p]
    BY DEF IndexCoherent
  <2>1. ASSUME NEW r \in Reqs, Unfinished(r, p) PROVE FALSE
    BY <2>1, UnfinishedLocked, HeldLocked, NoneAssumption DEF IndInv, LockShape
  <2>2. QED
    BY <2>1 DEF DerivedInv, IndexAt
<1>2. QED
  BY <1>1, DerivedInit, DerivedStep, Invariance, PTL DEF Spec

\* The comments that were there before go with their document, whatever moves
\* and deletes overlap.
THEOREM CommentsFollow == Spec => []CommentsOnDocs
<1>1. IndInv /\ DerivedInv => CommentsOnDocs
  <2> SUFFICES ASSUME IndInv, DerivedInv, NEW c \in Comments, onpath[c] # None,
                      lock[onpath[c]] = None, ~Disturbed(onpath[c])
               PROVE  wt[onpath[c]] # None
    BY DEF CommentsOnDocs
  <2>0. onpath[c] \in Paths
    BY DEF IndInv, TypeOK, CommentIds
  <2>1. ASSUME NEW r \in Reqs, Orphaning(r, onpath[c]) PROVE FALSE
    BY <2>0, <2>1, UnfinishedLocked, HeldLocked, NoneAssumption DEF IndInv, LockShape
  <2>2. QED
    BY <2>1 DEF DerivedInv, CommentAt
<1>2. QED
  BY <1>1, DerivedInit, DerivedStep, Invariance, PTL DEF Spec
-----------------------------------------------------------------------------
(***************************************************************************)
(* Uncommitted changes and versions, while no call fails                   *)
(***************************************************************************)
Writing(r, p) == pc[r] \in {"fill", "add"} /\ p \in OwnPaths(r)
Staging(r, p) == pc[r] \in {"diff", "commit"} /\ p \in OwnPaths(r)

\* What differs between file, index and HEAD, somebody is at work on.
CleanAt(p) ==
  /\ wt[p] = staged[p] \/ \E r \in Reqs : Writing(r, p)
  /\ staged[p] = HEAD[p] \/ \E r \in Reqs : Staging(r, p)

\* A document about to be written is newer than the one it replaces.
IsNewer(r) ==
  pc[r] \in {"truncate", "fill", "add"} =>
    HEAD[To(r)] = None \/ HEAD[To(r)].ver < out[r].ver

CleanInv ==
  Undisturbed =>
    /\ \A p \in Paths : CleanAt(p) /\ Supersedes(staged[p], HEAD[p])
    /\ \A r \in Reqs : IsNewer(r)
    /\ VersionsAdvance

LEMMA AtWork ==
  ASSUME NEW r \in Reqs, NEW p, Writing(r, p) \/ Staging(r, p)
  PROVE  pc[r] \in LockedCalls /\ p \in OwnPaths(r)
BY DEF Writing, Staging, LockedCalls, Calls

LEMMA NoFaultStep ==
  ASSUME faults \in 0..MaxFaults, NEW r \in Reqs,
         Start(r) \/ Step(r) \/ CallFails(r), Undisturbed'
  PROVE  ~Fault /\ Undisturbed /\ ~CallFails(r)
<1>1. ~Fault
  BY BoundsAssumption DEF Fault, Undisturbed
<1>2. UNCHANGED env
  BY <1>1 DEF Start, Step, CallFails, TakeFirstLock, TakeSecondLock, PutLoad, DeleteCheck,
    MoveCheck, CopyLoad, WriteTruncate, WriteFill, GitAdd, GitDiff, GitMv, GitRm,
    GitCommit, UpdateComments, Unindex, Index, Respond, InsertComment, Landed, Log,
    Quiet, NoFault, env
<1>3. QED
  BY <1>1, <1>2 DEF Undisturbed, env, CallFails

\* A handler without faults leaves its own paths clean or is still at work.
LEMMA OwnClean ==
  ASSUME ControlType, DataType, RequestShape, NEW r \in Reqs, ~Fault,
         Step(r), pc[r] \in LockedCalls, NEW p \in OwnPaths(r),
         \A q \in OwnPaths(r) : /\ wt[q] = staged[q] \/ Writing(r, q)
                                /\ staged[q] = HEAD[q] \/ Staging(r, q)
  PROVE  /\ wt'[p] = staged'[p] \/ Writing(r, p)'
         /\ staged'[p] = HEAD'[p] \/ Staging(r, p)'
<1>0. /\ p \in Paths /\ From(r) \in Paths /\ To(r) \in Paths
      /\ UNCHANGED req /\ pc[r] # "idle"
  BY PathTypes, StepTrace DEF OwnPaths, LockedCalls, Calls
<1>00. OwnPaths(r)' = OwnPaths(r)
  BY <1>0 DEF OwnPaths, Op, From, To
<1>01. Op(r) \in OpsOf(pc[r]) /\ (From(r) = To(r) <=> Op(r) \notin {"move", "copy"})
  BY <1>0 DEF RequestShape
<1>02. wt \in Tree /\ staged \in Tree
  BY DEF DataType, RepoTypeOK
<1>03. pc[r] \notin {"fill", "add"} => wt[p] = staged[p]
  BY DEF Writing
<1> USE <1>0, <1>00, <1>01, GotoAt, AnswerAt, HeadUnchanged DEF ControlType, Writing, Staging, repo
<1>1. CASE TakeFirstLock(r)
  BY <1>1 DEF TakeFirstLock, LockedCalls
<1>2. CASE TakeSecondLock(r)
  BY <1>2 DEF TakeSecondLock, LockedCalls
<1>3. CASE PutLoad(r)
  BY <1>3 DEF PutLoad
<1>4. CASE DeleteCheck(r)
  BY <1>4 DEF DeleteCheck
<1>5. CASE MoveCheck(r)
  BY <1>5 DEF MoveCheck
<1>6. CASE CopyLoad(r)
  BY <1>6 DEF CopyLoad
<1>7. CASE WriteTruncate(r)
  BY <1>7, <1>02 DEF WriteTruncate, TruncateFile, OwnPaths, OpsOf, Tree
<1>8. CASE WriteFill(r)
  BY <1>8, <1>02 DEF WriteFill, FillFile, OwnPaths, OpsOf, Tree
<1>9. CASE GitAdd(r)
  BY <1>9, <1>02 DEF GitAdd, Add, OwnPaths, OpsOf, Tree
<1>10. CASE GitDiff(r)
  <2>1. UNCHANGED <<wt, staged>> /\ HEAD' = HEAD /\ p = To(r) /\ pc[r] = "diff"
    BY <1>10 DEF GitDiff, OwnPaths, OpsOf
  <2>2. staged[p] = HEAD[p] \/ pc'[r] = "commit"
    BY <1>10, <2>1 DEF GitDiff, NothingStaged
  <2>3. wt[p] = staged[p]
    BY <1>03, <2>1
  <2>4. QED
    BY <2>1, <2>2, <2>3
<1>11. CASE GitMv(r)
  <2>1. CASE Mv(From(r), To(r)) /\ pc'[r] = "commit"
    <3>1. From(r) \in OwnPaths(r) /\ From(r) # To(r) /\ p \in {From(r), To(r)}
      BY <1>11 DEF GitMv, OwnPaths, OpsOf
    <3>2. wt[From(r)] = staged[From(r)]
      BY <1>11, <3>1 DEF GitMv
    <3>3. wt'[p] = staged'[p]
      BY <1>02, <2>1, <3>1, <3>2 DEF Mv, Tree
    <3>4. QED
      BY <2>1, <3>3
  <2>2. QED
    BY <1>11, <2>1 DEF GitMv
<1>12. CASE GitRm(r)
  BY <1>12, <1>02 DEF GitRm, Rm, OwnPaths, OpsOf, Tree
<1>13. CASE GitCommit(r)
  <2>1. UNCHANGED <<wt, staged>> /\ HEAD' = staged
    BY <1>13, HeadAfterCommit DEF GitCommit, CanCommit, CommitIndex, DataType
  <2>2. wt[p] = staged[p]
    BY <1>03, <1>13 DEF GitCommit
  <2>3. QED
    BY <2>1, <2>2
<1>14. CASE UpdateComments(r)
  BY <1>14 DEF UpdateComments
<1>15. CASE Unindex(r)
  BY <1>15 DEF Unindex
<1>16. CASE Index(r)
  BY <1>16 DEF Index
<1>17. CASE Respond(r)
  BY <1>17 DEF Respond
<1>18. CASE InsertComment(r)
  BY <1>18 DEF InsertComment, LockedCalls
<1>19. QED
  BY <1>1, <1>2, <1>3, <1>4, <1>5, <1>6, <1>7, <1>8, <1>9, <1>10, <1>11, <1>12, <1>13, <1>14, <1>15, <1>16, <1>17, <1>18 DEF Step

LEMMA CleanStep ==
  ASSUME ControlType, ReqType, DataType, RequestShape, LockShape, NEW r \in Reqs,
         ~Fault, Start(r) \/ Step(r), \A q \in Paths : CleanAt(q), NEW p \in Paths
  PROVE  CleanAt(p)'
<1>1. \A s \in Reqs \ {r} : /\ Writing(s, p) => Writing(s, p)'
                            /\ Staging(s, p) => Staging(s, p)'
  BY StepFrame DEF Writing, Staging, OwnPaths, Op, From, To
<1>2. CASE pc[r] \notin LockedCalls \/ p \notin OwnPaths(r)
  <2>1. wt'[p] = wt[p] /\ staged'[p] = staged[p] /\ HEAD' \in {HEAD, staged}
    BY <1>2, StepFrame
  <2>2. ~Writing(r, p) /\ ~Staging(r, p)
    BY <1>2, AtWork
  <2>3. QED
    BY <1>1, <2>1, <2>2 DEF CleanAt
<1>3. CASE pc[r] \in LockedCalls /\ p \in OwnPaths(r)
  <2>0. \A q \in OwnPaths(r) : q \in Paths
    BY <1>3, PathTypes DEF LockedCalls, Calls, OwnPaths
  <2>1. \A q \in OwnPaths(r), s \in Reqs \ {r} : ~Writing(s, q) /\ ~Staging(s, q)
    BY <1>3, Apart, AtWork
  <2>2. ~Start(r)
    BY <1>3 DEF LockedCalls, Calls, Start
  <2>3. /\ wt'[p] = staged'[p] \/ Writing(r, p)'
        /\ staged'[p] = HEAD'[p] \/ Staging(r, p)'
    BY <1>3, <2>0, <2>1, <2>2, OwnClean DEF CleanAt
  <2>4. QED
    BY <2>3 DEF CleanAt
<1>4. QED
  BY <1>2, <1>3

\* The holder of the mutexes of p finds p clean until it changes p itself.
LEMMA HolderFindsClean ==
  ASSUME RequestShape, LockShape, NEW r \in Reqs,
         NEW p \in OwnPaths(r), CleanAt(p), pc[r] \in LockedCalls
  PROVE  /\ pc[r] \notin {"fill", "add"} => wt[p] = staged[p]
         /\ pc[r] \notin {"diff", "commit"} => staged[p] = HEAD[p]
<1>1. \A s \in Reqs \ {r} : ~Writing(s, p) /\ ~Staging(s, p)
  BY Apart, AtWork
<1>2. QED
  BY <1>1 DEF CleanAt, Writing, Staging

LEMMA SupersedeStep ==
  ASSUME ControlType, ReqType, DataType, RequestShape, LockShape, Progress,
         NEW r \in Reqs, Start(r) \/ Step(r), IsNewer(r),
         \A q \in Paths : CleanAt(q),
         NEW p \in Paths, Supersedes(staged[p], HEAD[p])
  PROVE  Supersedes(staged[p], HEAD[p])'
<1>0. wt \in Tree /\ staged \in Tree
  BY DEF DataType, RepoTypeOK
<1>1. CASE staged'[p] = staged[p]
  <2>1. HEAD' \in {HEAD, staged}
    BY StepFrame
  <2>2. QED
    BY <1>1, <2>1 DEF Supersedes
<1>2. CASE staged'[p] # staged[p]
  <2>1. pc[r] \in LockedCalls /\ p \in OwnPaths(r) /\ pc[r] # "idle"
    BY <1>2, StepFrame DEF LockedCalls, Calls
  <2>2. GitAdd(r) \/ GitMv(r) \/ GitRm(r)
    BY <1>2 DEF Start, Step, TakeFirstLock, TakeSecondLock, PutLoad, DeleteCheck, MoveCheck,
      CopyLoad, WriteTruncate, TruncateFile, WriteFill, FillFile, GitDiff, GitCommit,
      CommitIndex, UpdateComments, Unindex, Index, Respond, InsertComment, repo
  <2>3. From(r) \in Paths /\ To(r) \in Paths /\ Op(r) \in OpsOf(pc[r])
    BY <2>1, PathTypes DEF RequestShape
  <2>4. CASE GitAdd(r)
    <3>1. staged'[p] = wt[p] /\ p = To(r) /\ HEAD' = HEAD
      BY <1>0, <2>1, <2>3, <2>4, HeadUnchanged DEF GitAdd, Add, OwnPaths, OpsOf, Tree
    <3>2. wt[p] = out[r]
      BY <2>3, <2>4, <3>1 DEF GitAdd, OpsOf, Progress, ProgressOf, Done, AfterWriteCalls
    <3>3. QED
      BY <2>4, <3>1, <3>2 DEF GitAdd, IsNewer, Supersedes
  <2>5. CASE GitMv(r)
    <3>1. CanMv(From(r), To(r)) /\ Mv(From(r), To(r)) /\ pc[r] = "mv" /\ HEAD' = HEAD
      BY <1>2, <2>5, HeadUnchanged DEF GitMv, Mv, repo
    <3>2. p = From(r) => staged'[p] = None
      BY <1>0, <3>1 DEF Mv, Tree
    <3>3. p = To(r) => HEAD[p] = None
      BY <2>1, <2>3, <3>1, HolderFindsClean DEF CanMv
    <3>4. QED
      BY <2>1, <2>3, <3>1, <3>2, <3>3 DEF OwnPaths, OpsOf, Supersedes
  <2>6. CASE GitRm(r)
    <3>1. staged'[p] = None
      BY <1>0, <1>2, <2>1, <2>3, <2>6 DEF GitRm, Rm, OwnPaths, OpsOf, Tree, repo
    <3>2. QED
      BY <3>1 DEF Supersedes
  <2>7. QED
    BY <2>2, <2>4, <2>5, <2>6
<1>3. QED
  BY <1>1, <1>2

LEMMA NewerStep ==
  ASSUME ControlType, ReqType, DataType, RequestShape, LockShape,
         NEW r \in Reqs, Start(r) \/ Step(r), \A q \in Paths : CleanAt(q),
         NEW s \in Reqs, IsNewer(s)
  PROVE  IsNewer(s)'
<1>0. SUFFICES ASSUME pc'[s] \in {"truncate", "fill", "add"} PROVE IsNewer(s)'
  BY DEF IsNewer
<1>1. CASE s # r
  <2>1. pc'[s] = pc[s] /\ To(s)' = To(s) /\ out'[s] = out[s] /\ HEAD' \in {HEAD, staged}
    BY <1>1, StepFrame DEF To
  <2>2. pc[s] \in LockedCalls /\ To(s) \in Paths /\ To(s) \in OwnPaths(s)
    BY <1>0, <2>1, PathTypes DEF LockedCalls, Calls, OwnPaths
  <2>3. staged[To(s)] = HEAD[To(s)]
    BY <1>0, <2>1, <2>2, HolderFindsClean
  <2>4. QED
    BY <1>0, <2>1, <2>3 DEF IsNewer
<1>2. CASE s = r
  <2>1. PutLoad(r) \/ CopyLoad(r) \/ WriteTruncate(r) \/ WriteFill(r)
    BY <1>0, <1>2, GotoAt, AnswerAt DEF ControlType, Answers, Start, Step, TakeFirstLock, TakeSecondLock, DeleteCheck,
      MoveCheck, GitAdd, GitDiff, GitMv, GitRm, GitCommit, Landed, AfterCommit, UpdateComments,
      Unindex, Index, Respond, InsertComment
  <2>2. HEAD' = HEAD /\ To(r)' = To(r) /\ To(r) \in Paths /\ To(r) \in OwnPaths(r)
    BY <2>1, HeadUnchanged, PathTypes
    DEF PutLoad, CopyLoad, WriteTruncate, TruncateFile, WriteFill, FillFile, To, OwnPaths, repo
  <2>3. CASE PutLoad(r) \/ CopyLoad(r)
    <3>1. wt[To(r)] = HEAD[To(r)]
      BY <2>2, <2>3, HolderFindsClean DEF PutLoad, CopyLoad, LockedCalls, Calls
    <3>2. wt[To(r)] = None \/ wt[To(r)].ver \in Nat
      BY <2>2 DEF DataType, RepoTypeOK, Tree, File, Content
    <3>3. CASE PutLoad(r)
      <4>1. out'[r].ver = NextVersion(wt[To(r)])
        BY <3>3 DEF PutLoad, DataType
      <4>2. QED
        BY <1>2, <2>2, <3>1, <3>2, <4>1 DEF IsNewer, NextVersion
    <3>4. CASE CopyLoad(r)
      <4>1. pc'[r] \notin Answers
        BY <1>0, <1>2 DEF Answers
      <4>2. wt[To(r)] = None
        BY <3>4, <4>1, AnswerAt DEF CopyLoad, Answers
      <4>3. QED
        BY <1>2, <2>2, <3>1, <4>2 DEF IsNewer
    <3>5. QED
      BY <2>3, <3>3, <3>4
  <2>4. CASE WriteTruncate(r) \/ WriteFill(r)
    BY <1>2, <2>2, <2>4 DEF WriteTruncate, WriteFill, IsNewer
  <2>5. QED
    BY <2>1, <2>3, <2>4
<1>3. QED
  BY <1>1, <1>2

LEMMA LogStep ==
  ASSUME DataType, NEW r \in Reqs, Start(r) \/ Step(r) \/ CallFails(r)
  PROVE  UNCHANGED log \/ log' = Append(log, [author |-> r, tree |-> staged])
BY DEF Start, Step, CallFails, TakeFirstLock, TakeSecondLock, PutLoad, DeleteCheck,
  MoveCheck, CopyLoad, WriteTruncate, TruncateFile, WriteFill, FillFile, GitAdd, Add, GitDiff,
  GitMv, Mv, GitRm, Rm, GitCommit, CommitIndex, UpdateComments, Unindex, Index, Respond,
  InsertComment, repo

LEMMA AdvanceStep ==
  ASSUME DataType, NEW r \in Reqs, Start(r) \/ Step(r) \/ CallFails(r),
         Undisturbed, VersionsAdvance, \A p \in Paths : Supersedes(staged[p], HEAD[p])
  PROVE  VersionsAdvance'
<1>1. CASE UNCHANGED log
  BY <1>1 DEF VersionsAdvance, Supersedes
<1>2. CASE log' = Append(log, [author |-> r, tree |-> staged])
  <2>1. log \in Seq(Commits) /\ Len(log) \in Nat /\ Len(log) > 0
    BY DEF DataType, RepoTypeOK
  <2>2. [author |-> r, tree |-> staged] \in Commits
    BY DEF DataType, RepoTypeOK, Commits
  <2>3. Len(log') = Len(log) + 1 /\ log'[Len(log) + 1] = [author |-> r, tree |-> staged]
    BY <1>2, <2>1, <2>2
  <2>4. \A i \in 1..Len(log) : log'[i] = log[i]
    BY <1>2, <2>1, <2>2
  <2>5. ASSUME NEW i \in 1..Len(log), NEW p \in Paths
        PROVE  Supersedes(log'[i + 1].tree[p], log'[i].tree[p])
    <3>1. CASE i = Len(log)
      BY <2>1, <2>3, <2>4, <3>1 DEF HEAD
    <3>2. CASE i # Len(log)
      <4>1. i \in 1..(Len(log) - 1) /\ i + 1 \in 1..Len(log)
        BY <2>1, <3>2
      <4>2. QED
        BY <2>4, <4>1 DEF VersionsAdvance
    <3>3. QED
      BY <3>1, <3>2
  <2>6. Len(log') - 1 = Len(log)
    BY <2>1, <2>3
  <2>7. QED
    BY <2>5, <2>6 DEF VersionsAdvance, Supersedes
<1>3. QED
  BY <1>1, <1>2, LogStep

LEMMA CleanInit == Init => CleanInv
<1> SUFFICES ASSUME Init PROVE CleanInv
  OBVIOUS
<1>1. HEAD = wt /\ staged = wt /\ Len(log) = 1
  BY DEF Init, RepoInit, HEAD
<1>2. VersionsAdvance
  BY <1>1 DEF VersionsAdvance
<1>3. QED
  BY <1>1, <1>2 DEF Init, CleanInv, CleanAt, Supersedes, IsNewer

LEMMA CleanNext == IndInv /\ CleanInv /\ [Next]_vars => CleanInv'
<1> SUFFICES ASSUME IndInv, CleanInv, [Next]_vars, Undisturbed'
             PROVE  /\ \A p \in Paths : CleanAt(p)' /\ Supersedes(staged[p], HEAD[p])'
                    /\ \A r \in Reqs : IsNewer(r)'
                    /\ VersionsAdvance'
  BY DEF CleanInv
<1>1. /\ RequestShape /\ LockShape /\ Progress
      /\ ControlType /\ DataType /\ ReqType
      /\ faults \in 0..MaxFaults /\ crashes \in 0..MaxCrashes
  BY TypeSplit DEF IndInv
<1>2. CASE \E r \in Reqs : Start(r) \/ Step(r) \/ CallFails(r)
  <2>1. PICK r \in Reqs : Start(r) \/ Step(r) \/ CallFails(r)
    BY <1>2
  <2>2. ~Fault /\ Undisturbed /\ ~CallFails(r)
    BY <1>1, <2>1, NoFaultStep
  <2>3. /\ \A p \in Paths : CleanAt(p) /\ Supersedes(staged[p], HEAD[p])
        /\ \A s \in Reqs : IsNewer(s)
        /\ VersionsAdvance
    BY <2>2 DEF CleanInv
  <2>4. ASSUME NEW p \in Paths PROVE CleanAt(p)' /\ Supersedes(staged[p], HEAD[p])'
    BY <1>1, <2>1, <2>2, <2>3, CleanStep, SupersedeStep
  <2>5. ASSUME NEW s \in Reqs PROVE IsNewer(s)'
    BY <1>1, <2>1, <2>2, <2>3, NewerStep
  <2>6. VersionsAdvance'
    BY <1>1, <2>1, <2>2, <2>3, AdvanceStep
  <2>7. QED
    BY <2>4, <2>5, <2>6
<1>3. CASE Crash
  BY <1>1, <1>3, BoundsAssumption DEF Crash, Undisturbed
<1>4. CASE UNCHANGED vars
  <2>1. HEAD' = HEAD
    BY <1>4 DEF HEAD, vars, repo
  <2>2. Undisturbed
    BY <1>4 DEF Undisturbed, vars, env
  <2>3. QED
    BY <1>4, <2>1, <2>2 DEF CleanInv, CleanAt, Supersedes, IsNewer, VersionsAdvance, Undisturbed,
       Writing, Staging, OwnPaths, Op, From, To, vars, repo
<1>5. QED
  BY <1>2, <1>3, <1>4 DEF Next, Idle

\* While no call has failed, a document nobody is working on is committed as
\* it is on disk, although all requests share one index.
THEOREM QuietPathsAreClean == Spec => []QuietPathIsClean
<1>1. IndInv /\ CleanInv => QuietPathIsClean
  <2> SUFFICES ASSUME IndInv, CleanInv, Undisturbed, NEW p \in Paths, lock[p] = None
               PROVE  wt[p] = staged[p] /\ staged[p] = HEAD[p]
    BY DEF QuietPathIsClean
  <2>1. ASSUME NEW r \in Reqs, Writing(r, p) \/ Staging(r, p) PROVE FALSE
    BY <2>1, AtWork, HeldLocked, NoneAssumption DEF IndInv, LockShape
  <2>2. QED
    BY <2>1 DEF CleanInv, CleanAt
<1>2. QED
  BY <1>1, CleanInit, CleanNext, Invariance, PTL DEF Spec

\* While no call has failed, no save replaces a version it has not seen.
THEOREM VersionsOnlyAdvance == Spec => []VersionsAdvance
<1>1. CleanInv => VersionsAdvance
  BY DEF CleanInv, VersionsAdvance
<1>2. QED
  BY <1>1, CleanInit, CleanNext, Invariance, PTL DEF Spec
-----------------------------------------------------------------------------
(***************************************************************************)
(* The pipeline implements AtomicDocs                                      *)
(***************************************************************************)
\* The change of r starts from what HEAD has.
BasedOnHead(r) ==
  /\ Op(r) = "put" =>
       out[r] = [ver |-> NextVersion(HEAD[To(r)]), body |-> r]
  /\ Op(r) = "move" /\ pc[r] = "commit" =>
       HEAD[To(r)] = None /\ HEAD[From(r)] # None /\ staged[To(r)] = HEAD[From(r)]

Based(r) ==
  /\ pc[r] \in {"truncate", "fill", "add"} => BasedOnHead(r)
  /\ pc[r] \in {"diff", "commit"} => Applied(r) \/ BasedOnHead(r)

Asked ==
  \A r \in Reqs : IF pc[r] = "idle" THEN req[r] = None ELSE Op(r) \in {"put", "delete", "move"}

BasisInv == Asked /\ \A r \in Reqs : Based(r)

\* What holds until a call fails or somebody copies or comments.
PlainInv == Plain => BasisInv

\* The state of r in AtomicDocs.
StateOf(r) ==
  IF pc[r] \in Answers THEN pc[r] ELSE IF Applied(r) THEN "applied" ELSE "waiting"

LEMMA PlainBefore ==
  ASSUME IndInv, [Next]_vars, Plain'
  PROVE  Plain /\ ~Fault /\ ~Crash
<1>1. /\ RequestShape /\ ControlType /\ DataType /\ ReqType
      /\ faults \in 0..MaxFaults /\ crashes \in 0..MaxCrashes
  BY TypeSplit DEF IndInv
<1>2. ~Fault /\ ~Crash
  BY <1>1, BoundsAssumption DEF Fault, Crash, Plain, Undisturbed
<1>3. ASSUME NEW r \in Reqs, Start(r) \/ Step(r) \/ CallFails(r)
      PROVE  Plain
  <2>1. Undisturbed
    BY <1>1, <1>3, NoFaultStep DEF Plain
  <2>2. ASSUME NEW s \in Reqs, pc[s] # "idle"
        PROVE  Op(s) \in {"put", "delete", "move"}
    <3>1. pc'[s] # "idle" /\ req'[s] = req[s]
      BY <1>1, <1>3, <2>2, StepTrace, StepFrame
    <3>2. QED
      BY <3>1 DEF Plain, Op
  <2>3. QED
    BY <2>1, <2>2 DEF Plain
<1>4. CASE UNCHANGED vars
  <2>1. UNCHANGED <<pc, req, faults, crashes>>
    BY <1>4 DEF vars, env
  <2>2. Undisturbed
    BY <2>1 DEF Plain, Undisturbed
  <2>3. ASSUME NEW r \in Reqs, pc[r] # "idle"
        PROVE  Op(r) \in {"put", "delete", "move"}
    <3>1. pc'[r] # "idle" /\ req'[r] = req[r]
      BY <2>1, <2>3
    <3>2. QED
      BY <3>1 DEF Plain, Op
  <2>4. QED
    BY <1>2, <2>2, <2>3 DEF Plain
<1>5. QED
  BY <1>2, <1>3, <1>4 DEF Next, Idle

LEMMA AskedStep ==
  ASSUME ControlType, ReqType, DataType, RequestShape, Asked, Plain', NEW r \in Reqs,
         Start(r) \/ Step(r)
  PROVE  Asked'
<1>1. ASSUME NEW s \in Reqs, pc'[s] = "idle"
      PROVE  req'[s] = None
  BY <1>1, StepFrame, StepTrace DEF Asked
<1>2. ASSUME NEW s \in Reqs, pc'[s] # "idle"
      PROVE  Op(s)' \in {"put", "delete", "move"}
  BY <1>2 DEF Plain
<1>3. QED
  BY <1>1, <1>2 DEF Asked

LEMMA TwoPaths ==
  ASSUME RequestShape, Asked, NEW r \in Reqs, pc[r] # "idle"
  PROVE  /\ OwnPaths(r) = {From(r), To(r)}
         /\ From(r) \in Paths /\ To(r) \in Paths
         /\ Op(r) \in {"put", "delete", "move"} /\ Op(r) \in OpsOf(pc[r])
         /\ From(r) = To(r) <=> Op(r) # "move"
BY PathTypes DEF RequestShape, Asked, OwnPaths

\* Whoever else steps, r keeps its basis, or a commit has taken its change along.
LEMMA OthersBased ==
  ASSUME ControlType, ReqType, DataType, RequestShape, LockShape, Asked,
         \A q \in Paths : CleanAt(q), NEW r \in Reqs, Start(r) \/ Step(r),
         NEW s \in Reqs \ {r}, Based(s)
  PROVE  Based(s)'
<1>1. /\ pc'[s] = pc[s] /\ req'[s] = req[s] /\ out'[s] = out[s]
      /\ Op(s)' = Op(s) /\ From(s)' = From(s) /\ To(s)' = To(s)
      /\ HEAD' \in {HEAD, staged}
  BY StepFrame DEF Op, From, To
<1>2. CASE pc[s] \in {"truncate", "fill", "add"}
  <2>1. Op(s) = "put" /\ To(s) \in OwnPaths(s) /\ To(s) \in Paths /\ pc[s] \in LockedCalls
    BY <1>2, TwoPaths DEF OpsOf, LockedCalls, Calls
  <2>2. staged[To(s)] = HEAD[To(s)]
    BY <1>2, <2>1, HolderFindsClean
  <2>3. QED
    BY <1>1, <1>2, <2>1, <2>2 DEF Based, BasedOnHead
<1>3. CASE pc[s] \in {"diff", "commit"}
  <2>1. pc[s] \in LockedCalls /\ OwnPaths(s) = {From(s), To(s)}
    BY <1>3, TwoPaths DEF LockedCalls, Calls
  <2>2. \A p \in {From(s), To(s)} : staged'[p] = staged[p]
    BY <2>1, StepFrame, Apart
  <2>3. CASE HEAD' = staged
    BY <1>1, <1>3, <2>2, <2>3 DEF Based, Applied
  <2>4. CASE HEAD' = HEAD
    BY <1>1, <1>3, <2>2, <2>4 DEF Based, BasedOnHead, Applied
  <2>5. QED
    BY <1>1, <2>3, <2>4
<1>4. QED
  BY <1>1, <1>2, <1>3 DEF Based

LEMMA OwnBased ==
  ASSUME ControlType, ReqType, DataType, RequestShape, LockShape, Asked,
         \A q \in Paths : CleanAt(q), NEW r \in Reqs, Start(r) \/ Step(r), Based(r)
  PROVE  Based(r)'
<1>0. SUFFICES ASSUME pc'[r] \in {"truncate", "fill", "add", "diff", "commit"}
               PROVE  Based(r)'
  BY DEF Based
<1>1. PutLoad(r) \/ CopyLoad(r) \/ WriteTruncate(r) \/ WriteFill(r) \/ GitAdd(r)
      \/ GitDiff(r) \/ GitMv(r) \/ GitRm(r)
  BY <1>0, GotoAt, AnswerAt DEF ControlType, Answers, Start, Step, TakeFirstLock, TakeSecondLock,
    DeleteCheck, MoveCheck, GitCommit, Landed, AfterCommit, UpdateComments, Unindex, Index,
    Respond, InsertComment
<1>2. pc[r] # "idle" /\ pc[r] \in LockedCalls
  BY <1>1 DEF PutLoad, CopyLoad, WriteTruncate, WriteFill, GitAdd, GitDiff, GitMv, GitRm,
    LockedCalls, Calls
<1>3. /\ HEAD' = HEAD /\ req' = req
      /\ Op(r)' = Op(r) /\ From(r)' = From(r) /\ To(r)' = To(r)
  <2>1. HEAD' = HEAD
    BY <1>1, HeadUnchanged DEF PutLoad, CopyLoad, WriteTruncate, TruncateFile, WriteFill,
      FillFile, GitAdd, Add, GitDiff, GitMv, Mv, GitRm, Rm, repo
  <2>2. QED
    BY <1>2, <2>1, StepTrace DEF Op, From, To
<1>4. /\ OwnPaths(r) = {From(r), To(r)} /\ From(r) \in Paths /\ To(r) \in Paths
      /\ Op(r) \in {"put", "delete", "move"} /\ Op(r) \in OpsOf(pc[r])
      /\ From(r) = To(r) <=> Op(r) # "move"
  BY <1>2, TwoPaths
<1>5. wt \in Tree /\ staged \in Tree
  BY DEF DataType, RepoTypeOK
<1>6. CASE PutLoad(r)
  <2>1. wt[To(r)] = HEAD[To(r)]
    BY <1>2, <1>4, <1>6, HolderFindsClean DEF PutLoad
  <2>2. out'[r] = [ver |-> NextVersion(HEAD[To(r)]), body |-> r]
    BY <1>6, <2>1 DEF PutLoad, DataType
  <2>3. QED
    BY <1>3, <1>6, <2>2, GotoAt DEF PutLoad, ControlType, Based, BasedOnHead
<1>7. CASE CopyLoad(r)
  BY <1>4, <1>7 DEF CopyLoad
<1>8. CASE WriteTruncate(r) \/ WriteFill(r)
  BY <1>3, <1>8, GotoAt DEF WriteTruncate, WriteFill, ControlType, Based, BasedOnHead
<1>9. CASE GitAdd(r)
  <2>1. pc[r] = "add" /\ pc'[r] = "diff" /\ out' = out /\ Op(r) = "put"
    BY <1>4, <1>9, GotoAt DEF GitAdd, ControlType, OpsOf
  <2>2. QED
    BY <1>3, <2>1 DEF Based, BasedOnHead
<1>10. CASE GitDiff(r)
  <2>1. /\ pc[r] = "diff" /\ Op(r) = "put" /\ pc'[r] \in {"commit", "index"} \cup Answers
        /\ out' = out /\ staged' = staged
    BY <1>4, <1>10, GotoAt, AnswerAt
    DEF GitDiff, Landed, AfterCommit, ControlType, OpsOf, Answers, repo
  <2>2. pc'[r] = "commit"
    BY <1>0, <2>1 DEF Answers
  <2>3. QED
    BY <1>3, <2>1, <2>2 DEF Based, BasedOnHead, Applied
<1>11. CASE GitMv(r)
  <2>1. pc[r] = "mv" /\ Op(r) = "move" /\ CanMv(From(r), To(r)) /\ Mv(From(r), To(r))
    BY <1>0, <1>4, <1>11, AnswerAt DEF GitMv, OpsOf, ControlType, Answers
  <2>2. /\ wt[From(r)] = staged[From(r)] /\ staged[From(r)] = HEAD[From(r)]
        /\ wt[To(r)] = staged[To(r)] /\ staged[To(r)] = HEAD[To(r)]
    BY <1>2, <1>4, <2>1, HolderFindsClean
  <2>3. staged'[To(r)] = staged[From(r)]
    BY <1>4, <1>5, <2>1 DEF Mv, Tree
  <2>4. QED
    BY <1>3, <1>11, <2>1, <2>2, <2>3, GotoAt
    DEF GitMv, CanMv, ControlType, Based, BasedOnHead
<1>12. CASE GitRm(r)
  <2>1. Op(r) = "delete" /\ pc'[r] \in {"commit", "failed"}
    BY <1>4, <1>12, GotoAt, AnswerAt DEF GitRm, OpsOf, ControlType, Answers
  <2>2. QED
    BY <1>0, <1>3, <2>1 DEF Based, BasedOnHead
<1>13. QED
  BY <1>1, <1>6, <1>7, <1>8, <1>9, <1>10, <1>11, <1>12

LEMMA BasisNext ==
  ASSUME IndInv, CleanInv, PlainInv, [Next]_vars, Plain'
  PROVE  BasisInv'
<1>1. /\ RequestShape /\ LockShape /\ ControlType /\ DataType /\ ReqType
  BY TypeSplit DEF IndInv
<1>2. /\ \A q \in Paths : CleanAt(q)
      /\ ~Fault /\ ~Crash /\ BasisInv
  BY PlainBefore DEF CleanInv, PlainInv, Plain
<1>3. ASSUME NEW r \in Reqs, Start(r) \/ Step(r) PROVE BasisInv'
  <2>1. Asked'
    BY <1>1, <1>2, <1>3, AskedStep DEF BasisInv
  <2>2. ASSUME NEW s \in Reqs PROVE Based(s)'
    BY <1>1, <1>2, <1>3, OthersBased, OwnBased DEF BasisInv
  <2>3. QED
    BY <2>1, <2>2 DEF BasisInv
<1>4. CASE UNCHANGED vars
  <2>1. HEAD' = HEAD
    BY <1>4 DEF HEAD, vars, repo
  <2>2. QED
    BY <1>2, <1>4, <2>1 DEF BasisInv, Asked, Based, BasedOnHead, Applied, Op, From, To, vars, repo
<1>5. QED
  BY <1>2, <1>3, <1>4 DEF Next, Idle, CallFails

-----------------------------------------------------------------------------
LEMMA OthersState ==
  ASSUME ControlType, ReqType, DataType, RequestShape, LockShape, Asked,
         NEW r \in Reqs, Start(r) \/ Step(r), HEAD' = HEAD, NEW s \in Reqs \ {r}
  PROVE  StateOf(s)' = StateOf(s)
<1>1. /\ pc'[s] = pc[s] /\ From(s)' = From(s) /\ To(s)' = To(s)
  BY StepFrame DEF From, To
<1>2. CASE pc[s] \in {"diff", "commit"}
  <2>1. pc[s] \in LockedCalls /\ OwnPaths(s) = {From(s), To(s)}
    BY <1>2, TwoPaths DEF LockedCalls, Calls
  <2>2. \A p \in {From(s), To(s)} : staged'[p] = staged[p]
    BY <2>1, StepFrame, Apart
  <2>3. QED
    BY <1>1, <1>2, <2>2 DEF StateOf, Applied
<1>3. CASE pc[s] \notin {"diff", "commit"}
  BY <1>1, <1>3 DEF StateOf, Applied
<1>4. QED
  BY <1>2, <1>3

\* A step that commits nothing leaves r where it was or answers it.
LEMMA OwnState ==
  ASSUME ControlType, ReqType, DataType, RequestShape, LockShape, Progress, Asked,
         \A q \in Paths : CleanAt(q), NEW r \in Reqs, IsNewer(r), ~Fault,
         Step(r), log' = log
  PROVE  \/ StateOf(r)' = StateOf(r)
         \/ StateOf(r) = "applied" /\ StateOf(r)' \in {"ok", "failed"}
         \/ StateOf(r) = "waiting" /\ StateOf(r)' \in {"refused", "failed"}
<1>1. pc[r] # "idle"
  BY DEF Step, TakeFirstLock, TakeSecondLock, PutLoad, DeleteCheck,
    MoveCheck, CopyLoad, WriteTruncate, WriteFill, GitAdd, GitDiff, GitMv, GitRm,
    GitCommit, UpdateComments, Unindex, Index, Respond, InsertComment
<1>2. /\ HEAD' = HEAD /\ pc[r] \notin Answers
      /\ Op(r)' = Op(r) /\ From(r)' = From(r) /\ To(r)' = To(r)
  BY <1>1, HeadUnchanged, StepTrace DEF Op, From, To
<1>3. /\ OwnPaths(r) = {From(r), To(r)} /\ From(r) \in Paths /\ To(r) \in Paths
      /\ Op(r) \in {"put", "delete", "move"} /\ Op(r) \in OpsOf(pc[r])
      /\ From(r) = To(r) <=> Op(r) # "move"
  BY <1>1, TwoPaths
<1>4. wt \in Tree /\ staged \in Tree
  BY DEF DataType, RepoTypeOK
<1>5. StateOf(r) = IF Applied(r) THEN "applied" ELSE "waiting"
  BY <1>2 DEF StateOf
<1>6. CASE TakeFirstLock(r) \/ TakeSecondLock(r) \/ PutLoad(r) \/ CopyLoad(r)
           \/ WriteTruncate(r) \/ WriteFill(r)
  BY <1>3, <1>5, <1>6, GotoAt DEF ControlType, Answers, StateOf, Applied, TakeFirstLock,
    TakeSecondLock, PutLoad, CopyLoad, WriteTruncate, WriteFill
<1>7. CASE DeleteCheck(r) \/ MoveCheck(r)
  <2>1. StateOf(r) = "waiting" /\ pc'[r] \in {"rm", "mv", "refused"}
    BY <1>5, <1>7, GotoAt, AnswerAt DEF ControlType, Answers, Applied, DeleteCheck, MoveCheck
  <2>2. QED
    BY <2>1 DEF StateOf, Applied, Answers
<1>8. CASE GitAdd(r)
  <2>1. pc[r] = "add" /\ pc'[r] = "diff" /\ Op(r) = "put" /\ out[r] # None
    BY <1>3, <1>8, GotoAt
    DEF GitAdd, ControlType, OpsOf, Progress, ProgressOf, AfterWriteCalls
  <2>2. staged'[To(r)] = out[r]
    BY <1>3, <1>4, <1>8, <2>1
    DEF GitAdd, Add, Tree, Progress, ProgressOf, AfterWriteCalls, Done
  <2>3. out[r].ver \in Nat
    BY <2>1 DEF DataType, File, Content
  <2>4. staged'[To(r)] # HEAD[To(r)]
    BY <2>1, <2>2, <2>3 DEF IsNewer
  <2>5. ~Applied(r) /\ ~Applied(r)'
    BY <1>2, <2>1, <2>4 DEF Applied
  <2>6. QED
    BY <1>5, <2>1, <2>5 DEF StateOf, Answers
<1>9. CASE GitDiff(r)
  <2>1. pc[r] = "diff" /\ Op(r) = "put" /\ staged' = staged /\ From(r) = To(r)
    BY <1>3, <1>9 DEF GitDiff, OpsOf, repo
  <2>2. CASE pc'[r] = "commit"
    BY <1>2, <1>5, <2>1, <2>2 DEF StateOf, Applied, Answers
  <2>3. CASE pc'[r] = "index" /\ NothingStaged(To(r))
    BY <1>2, <1>5, <2>1, <2>3 DEF StateOf, Applied, Answers, NothingStaged
  <2>4. QED
    BY <1>9, <2>1, <2>2, <2>3, GotoAt DEF ControlType, GitDiff, Landed, AfterCommit
<1>10. CASE GitMv(r)
  <2>1. pc[r] = "mv" /\ Op(r) = "move" /\ StateOf(r) = "waiting"
    BY <1>3, <1>5, <1>10 DEF GitMv, OpsOf, Applied
  <2>2. CASE pc'[r] = "failed"
    BY <2>1, <2>2 DEF StateOf, Answers
  <2>3. CASE CanMv(From(r), To(r)) /\ Mv(From(r), To(r)) /\ pc'[r] = "commit"
    <3>1. staged'[From(r)] = None
      BY <1>3, <1>4, <2>1, <2>3 DEF Mv, Tree
    <3>2. staged[From(r)] = HEAD[From(r)]
      BY <1>3, <2>1, HolderFindsClean DEF LockedCalls, Calls
    <3>3. HEAD[From(r)] # None
      BY <2>3, <3>2 DEF CanMv
    <3>4. QED
      BY <1>2, <2>1, <2>3, <3>1, <3>3 DEF StateOf, Applied, Answers
  <2>4. QED
    BY <1>10, <2>2, <2>3, GotoAt, AnswerAt DEF GitMv, ControlType, Answers
<1>11. CASE GitRm(r)
  <2>1. pc[r] = "rm" /\ Op(r) = "delete" /\ StateOf(r) = "waiting"
    BY <1>3, <1>5, <1>11 DEF GitRm, OpsOf, Applied
  <2>2. CASE pc'[r] = "failed"
    BY <2>1, <2>2 DEF StateOf, Answers
  <2>3. CASE CanRm(To(r)) /\ Rm(To(r)) /\ pc'[r] = "commit"
    <3>1. staged'[To(r)] = None
      BY <1>3, <1>4, <2>3 DEF Rm, Tree
    <3>2. HEAD[To(r)] # None
      BY <2>3 DEF CanRm
    <3>3. QED
      BY <1>2, <2>1, <2>3, <3>1, <3>2 DEF StateOf, Applied, Answers
  <2>4. QED
    BY <1>11, <2>2, <2>3, GotoAt, AnswerAt DEF GitRm, ControlType, Answers
<1>12. CASE GitCommit(r)
  <2>1. ~CommitIndex(r)
    <3>1. SUFFICES ASSUME CommitIndex(r) PROVE FALSE
      OBVIOUS
    <3>2. Len(log') = Len(log) + 1 /\ Len(log) \in Nat
      BY <3>1, HeadAfterCommit DEF CommitIndex, DataType, RepoTypeOK, Commits
    <3>3. QED
      BY <3>2
  <2>2. pc'[r] = "failed"
    BY <1>12, <2>1, AnswerAt DEF GitCommit, Answers
  <2>3. QED
    BY <1>5, <2>2 DEF StateOf, Answers
<1>13. CASE UpdateComments(r) \/ Unindex(r) \/ Index(r)
  BY <1>5, <1>13, GotoAt DEF ControlType, UpdateComments, Unindex, Index, StateOf, Applied, Answers
<1>14. CASE Respond(r)
  BY <1>5, <1>14, AnswerAt DEF Respond, StateOf, Applied, Answers
<1>15. CASE InsertComment(r)
  BY <1>3, <1>15 DEF InsertComment, OpsOf
<1>16. QED
  BY <1>6, <1>7, <1>8, <1>9, <1>10, <1>11, <1>12, <1>13, <1>14, <1>15 DEF Step

LEMMA AuthorAfterCommit ==
  ASSUME NEW r \in Reqs, log \in Seq(Commits), staged \in Tree, CommitIndex(r)
  PROVE  Author' = r
<1>1. [author |-> r, tree |-> staged] \in Commits
  BY DEF Commits
<1>2. QED
  BY <1>1 DEF CommitIndex, Author

\* A git commit takes the changes of all requests that have staged theirs.
LEMMA CommitSimulates ==
  ASSUME ControlType, ReqType, DataType, RequestShape, LockShape, Progress, BasisInv,
         \A q \in Paths : CleanAt(q), NEW r \in Reqs, ~Fault,
         GitCommit(r), CanCommit, CommitIndex(r)
  PROVE  \E S \in (SUBSET Reqs) \ {{}}, a \in Reqs : Atomic!Commit(S, a)
<1> DEFINE S == {s \in Reqs : pc[s] \in {"diff", "commit"} /\ ~Applied(s)}
<1>0. /\ staged \in Tree /\ HEAD \in Tree /\ HEAD' = staged /\ staged' = staged /\ req' = req
      /\ pc[r] = "commit" /\ pc'[r] = AfterCommit(r)
      /\ \A s \in Reqs \ {r} : pc'[s] = pc[s]
  BY HeadType, HeadAfterCommit, GotoAt
  DEF DataType, RepoTypeOK, GitCommit, CommitIndex, Landed, ControlType
<1>1. ASSUME NEW s \in Reqs, pc[s] # "idle"
      PROVE  /\ OwnPaths(s) = {From(s), To(s)}
             /\ From(s) \in Paths /\ To(s) \in Paths
             /\ Op(s) \in {"put", "delete", "move"} /\ Op(s) \in OpsOf(pc[s])
             /\ From(s) = To(s) <=> Op(s) # "move"
  BY <1>1, TwoPaths DEF BasisInv
<1>2. ASSUME NEW p \in Paths, staged[p] # HEAD[p]
      PROVE  \E s \in S : p \in {From(s), To(s)}
  <2>1. PICK s \in Reqs : Staging(s, p)
    BY <1>2 DEF CleanAt
  <2>2. pc[s] \in {"diff", "commit"} /\ p \in {From(s), To(s)}
    BY <1>1, <2>1 DEF Staging
  <2>3. ~Applied(s)
    BY <1>2, <2>2 DEF Applied
  <2>4. QED
    BY <2>2, <2>3
<1>3. S # {}
  <2>1. PICK p \in Paths : staged[p] # HEAD[p]
    BY <1>0 DEF CanCommit, Tree
  <2>2. QED
    BY <1>2, <2>1
<1>4. ASSUME NEW s \in S PROVE req[s] # None /\ AbstractState[s] = "waiting"
  <2>1. pc[s] # "idle" /\ pc[s] \notin Answers
    BY DEF Answers
  <2>2. req[s] # None
    BY <2>1, RequestAssumption DEF RequestShape
  <2>3. QED
    BY <2>1, <2>2 DEF AbstractState
<1>5. ASSUME NEW s \in S, NEW t \in S, s # t
      PROVE  Atomic!Touched(s) \cap Atomic!Touched(t) = {}
  <2>1. pc[s] \in LockedCalls /\ pc[t] \in LockedCalls /\ pc[s] # "idle" /\ pc[t] # "idle"
    BY DEF LockedCalls, Calls
  <2>2. \A p \in OwnPaths(t) : p \notin OwnPaths(s)
    BY <1>5, <2>1, Apart
  <2>3. QED
    BY <1>1, <2>1, <2>2 DEF Atomic!Touched, From, To
<1>6. ASSUME NEW s \in S PROVE Atomic!Effect(s, HEAD')
  <2>1. /\ pc[s] \in {"diff", "commit"} /\ pc[s] # "idle" /\ ~Applied(s) /\ BasedOnHead(s)
        /\ Done(s, staged)
    BY DEF BasisInv, Based, Progress, ProgressOf, AfterStageCalls
  <2>2. CASE Op(s) = "put"
    BY <1>0, <2>1, <2>2 DEF Atomic!Effect, Atomic!NextVersion, NextVersion, BasedOnHead, Done, Op, To
  <2>3. CASE Op(s) = "delete"
    <3>1. staged[To(s)] = None /\ HEAD[To(s)] # None
      BY <1>1, <2>1, <2>3 DEF Applied, Done
    <3>2. QED
      BY <1>0, <2>3, <3>1 DEF Atomic!Effect, Op, To
  <2>4. CASE Op(s) = "move"
    <3>1. pc[s] = "commit"
      BY <1>1, <2>1, <2>4 DEF OpsOf
    <3>2. /\ HEAD[To(s)] = None /\ HEAD[From(s)] # None
          /\ staged[To(s)] = HEAD[From(s)] /\ staged[From(s)] = None
      BY <2>1, <2>4, <3>1 DEF BasedOnHead, Done
    <3>3. QED
      BY <1>0, <2>4, <3>2 DEF Atomic!Effect, Op, To, From
  <2>5. QED
    BY <1>1, <2>1, <2>2, <2>3, <2>4
<1>7. ASSUME NEW p \in Paths \ UNION {Atomic!Touched(s) : s \in S}
      PROVE  HEAD'[p] = HEAD[p]
  BY <1>0, <1>2 DEF Atomic!Touched, From, To
<1>8. ASSUME NEW s \in Reqs
      PROVE  AbstractState'[s] = IF s \in S THEN "applied" ELSE AbstractState[s]
  <2>1. From(s)' = From(s) /\ To(s)' = To(s)
    BY <1>0 DEF From, To
  <2>2. CASE s = r
    BY <1>0, <2>1, <2>2 DEF AbstractState, Applied, Answers, AfterCommit
  <2>3. CASE s # r
    BY <1>0, <2>1, <2>3 DEF AbstractState, Applied, Answers
  <2>4. QED
    BY <2>2, <2>3
<1>9. AbstractState' = [s \in Reqs |-> IF s \in S THEN "applied" ELSE AbstractState[s]]
  <2>1. AbstractState' = [s \in Reqs |-> AbstractState'[s]]
    BY DEF AbstractState
  <2>2. QED
    BY <1>8, <2>1
<1>10. AbstractState[r] = "applied" \/ r \in S
  BY <1>0 DEF AbstractState, Answers
<1>11. Author' = r
  BY <1>0, AuthorAfterCommit DEF GitCommit, DataType, RepoTypeOK
<1>12. Atomic!Commit(S, r)
  BY <1>0, <1>4, <1>5, <1>6, <1>7, <1>9, <1>10, <1>11 DEF Atomic!Commit
<1>13. QED
  BY <1>3, <1>12

LEMMA StepSimulates ==
  ASSUME IndInv, CleanInv, PlainInv, [Next]_vars, Plain'
  PROVE  [Atomic!Next]_(Atomic!vars)
<1>0. BasisInv /\ Undisturbed /\ ~Fault /\ ~Crash
  BY PlainBefore DEF PlainInv, Plain
<1>1. /\ RequestShape /\ LockShape /\ Progress /\ ControlType /\ DataType /\ ReqType /\ Asked
  BY <1>0, TypeSplit DEF IndInv, BasisInv
<1>2. /\ \A q \in Paths : CleanAt(q)
      /\ \A s \in Reqs : IsNewer(s)
      /\ ~Fault /\ ~Crash
  BY <1>0 DEF CleanInv
<1>3. /\ AbstractState = [s \in Reqs |-> StateOf(s)]
      /\ AbstractState' = [s \in Reqs |-> StateOf(s)']
  BY DEF AbstractState, StateOf
<1>4. ASSUME NEW r \in Reqs, Start(r) PROVE Atomic!Arrive(r)
  <2>1. pc[r] = "idle" /\ pc'[r] \in {"refused", "insert", "lock1"} /\ HEAD' = HEAD
        /\ Author' = Author
    BY <1>1, <1>4, GotoAt, HeadUnchanged DEF Start, ControlType, repo, Author
  <2>2. req[r] = None /\ req'[r] # None
    <3>1. req'[r] \in Request
      BY <1>1, <1>4, <2>1, OpsAssumption DEF Start, ReqType, Request
    <3>2. QED
      BY <1>1, <2>1, <3>1, RequestAssumption DEF Asked
  <2>3. \A s \in Reqs \ {r} : req'[s] = req[s] /\ StateOf(s)' = StateOf(s)
    BY <1>1, <1>4, <2>1, StepFrame, OthersState
  <2>4. StateOf(r) = "waiting" /\ StateOf(r)' \in {"waiting", "refused"}
    BY <2>1 DEF StateOf, Applied, Answers
  <2>5. AbstractState' \in {AbstractState, [AbstractState EXCEPT ![r] = "refused"]}
    BY <1>3, <2>3, <2>4
  <2>6. QED
    BY <2>1, <2>2, <2>3, <2>5 DEF Atomic!Arrive
<1>5. ASSUME NEW r \in Reqs, Step(r), log' = log
      PROVE  Atomic!Reply(r) \/ UNCHANGED Atomic!vars
  <2>1. HEAD' = HEAD /\ Author' = Author /\ pc[r] # "idle"
    BY <1>5, HeadUnchanged DEF Author, Step, TakeFirstLock, TakeSecondLock, PutLoad, DeleteCheck,
      MoveCheck, CopyLoad, WriteTruncate, WriteFill, GitAdd, GitDiff, GitMv, GitRm,
      GitCommit, UpdateComments, Unindex, Index, Respond, InsertComment
  <2>2. req' = req /\ req[r] # None
    BY <1>1, <1>5, <2>1, StepTrace, RequestAssumption DEF RequestShape
  <2>3. \A s \in Reqs \ {r} : StateOf(s)' = StateOf(s)
    BY <1>1, <1>5, <2>1, OthersState
  <2>4. CASE StateOf(r)' = StateOf(r)
    <3>1. AbstractState' = AbstractState
      BY <1>3, <2>3, <2>4
    <3>2. QED
      BY <2>1, <2>2, <3>1 DEF Atomic!vars
  <2>5. CASE StateOf(r)' # StateOf(r)
    <3>1. AbstractState' = [AbstractState EXCEPT ![r] = StateOf(r)']
      BY <1>3, <2>3
    <3>2. \/ StateOf(r) = "applied" /\ StateOf(r)' \in {"ok", "failed"}
          \/ StateOf(r) = "waiting" /\ StateOf(r)' \in {"refused", "failed"}
      BY <1>1, <1>2, <1>5, <2>5, OwnState
    <3>3. AbstractState[r] = StateOf(r)
      BY <1>3
    <3>4. QED
      BY <2>1, <2>2, <3>1, <3>2, <3>3 DEF Atomic!Reply
  <2>6. QED
    BY <2>4, <2>5
<1>6. ASSUME NEW r \in Reqs, Step(r), log' # log
      PROVE  \E S \in (SUBSET Reqs) \ {{}}, a \in Reqs : Atomic!Commit(S, a)
  <2>1. GitCommit(r) /\ CanCommit /\ CommitIndex(r)
    BY <1>6 DEF Step, TakeFirstLock, TakeSecondLock, PutLoad, DeleteCheck,
      MoveCheck, CopyLoad, WriteTruncate, TruncateFile, WriteFill, FillFile, GitAdd, Add,
      GitDiff, GitMv, Mv, GitRm, Rm, GitCommit, UpdateComments, Unindex, Index, Respond,
      InsertComment, repo
  <2>2. QED
    BY <1>0, <1>1, <1>2, <2>1, CommitSimulates
<1>7. CASE UNCHANGED vars
  <2>1. HEAD' = HEAD /\ Author' = Author /\ AbstractState' = AbstractState
    BY <1>7 DEF HEAD, Author, AbstractState, Applied, From, To, vars, repo
  <2>2. QED
    BY <1>7, <2>1 DEF Atomic!vars, vars
<1>8. QED
  BY <1>2, <1>4, <1>5, <1>6, <1>7 DEF Next, Idle, CallFails, Atomic!Next

\* As long as no call fails and nobody copies or comments, every run of the
\* pipeline is one of AtomicDocs: each request takes effect whole, at most once,
\* in one commit, on the version it replaces, and before it is answered 2xx.
THEOREM DocsAreAtomic == Spec => AtomicCommits
<1>1. Init => Atomic!Init
  BY DEF Init, RepoInit, Author, Atomic!Init, AbstractState, Applied, Answers
<1>2. Init => PlainInv
  BY DEF Init, PlainInv, BasisInv, Asked, Based
<1>3. IndInv /\ CleanInv /\ PlainInv /\ [Next]_vars => PlainInv'
  BY BasisNext DEF PlainInv
<1>4. IndInv /\ CleanInv /\ PlainInv /\ [Next]_vars
        => [Plain' => Atomic!Next]_(Atomic!vars)
  BY StepSimulates
<1>5. QED
  BY <1>1, <1>2, <1>3, <1>4, CleanInit, CleanNext, Invariance, PTL
  DEF Spec, AtomicCommits
=============================================================================
