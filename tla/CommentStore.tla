---------------------------- MODULE CommentStore ----------------------------
(***************************************************************************)
(* The comments table (internal/comments, internal/api/comments.go):       *)
(* CreateComment and UpdateComment read and write in separate statements   *)
(* and take no lock; MarkPath, which re-anchors the comments of a document *)
(* after a save, reads outside the transaction in which it writes.         *)
(* MarkPath, MovePath and DeletePath run under the path lock of their      *)
(* document.                                                               *)
(***************************************************************************)
EXTENDS Anchoring

CONSTANTS
  Pages,       \* the paths that documents may have
  Characters,
  Documents,   \* the contents a save may write: sequences of lines
  Reqs,        \* requests to create or update a comment
  None,
  MaxSaves,    \* bound: saves
  MaxMoves,    \* bound: moves and deletions
  MaxFaults    \* bound: MarkPath transactions that fail

ASSUME DocumentsAssumption ==
  Documents # {} /\ \A d \in Documents : d # <<>> /\ d \in Seq(Seq(Characters))
ASSUME BoundsAssumption == {MaxSaves, MaxMoves, MaxFaults} \subseteq Nat

VARIABLES
  docs,     \* docs[p]: the lines of the document, None if there is none
  rows,     \* rows[r]: the comment that r has created
  pc,       \* pc[r]: the next statement of r, or its answer
  asked,    \* asked[r]: the request
  read,     \* read[r]: the row that Update has read
  mark,     \* mark[p]: the next statement of MarkPath for p, or "idle"
  plans,    \* plans[p]: what MarkPath is going to write
  apart,    \* history: the replies whose document moved between the look-up of
            \* their parent and their insertion, and the replies to those
  saves, moves, faults

requests    == <<pc, asked, read>>
marking     == <<mark, plans>>
bounds      == <<saves, moves, faults>>
commentVars == <<docs, rows, requests, marking, apart, bounds>>

Lines    == UNION {ToSet(d) : d \in Documents}
LineNos  == UNION {DOMAIN d : d \in Documents}
Statuses == {"open", "resolved", "orphaned", "relocated"}
Row      == [path : Pages, line : LineNos, anchor : Lines, status : Statuses,
             resolvedAt : BOOLEAN, parent : Reqs \cup {None}]
Create   == [op : {"create"}, path : Pages, line : LineNos, anchor : Lines,
             parent : Reqs \cup {None}]
Update   == [op : {"update"}, id : Reqs, status : Statuses \cup {None}]
Plan     == [status : Statuses, line : LineNos \cup {0}]

ASSUME CommentNoneAssumption ==
  None \notin Documents \cup Lines \cup Reqs \cup Pages /\ None \notin Row

CommentTypeOK ==
  /\ docs \in [Pages -> Documents \cup {None}]
  /\ rows \in [Reqs -> Row \cup {None}]
  /\ pc \in [Reqs -> {"idle", "parent", "insert", "get", "write",
                      "ok", "refused", "failed"}]
  /\ asked \in [Reqs -> Create \cup Update \cup {None}]
  /\ read \in [Reqs -> Row \cup {None}]
  /\ mark \in [Pages -> {"idle", "read", "write"}]
  /\ plans = [p \in Pages |-> plans[p]]
  /\ \A p \in Pages : /\ DOMAIN plans[p] \subseteq Reqs
                     /\ \A i \in DOMAIN plans[p] : plans[p][i] \in Plan
  /\ apart \subseteq Reqs
  /\ saves \in 0..MaxSaves /\ moves \in 0..MaxMoves /\ faults \in 0..MaxFaults

CommentInit ==
  /\ docs \in [Pages -> Documents \cup {None}]
  /\ Cardinality({p \in Pages : docs[p] # None}) = 1
  /\ rows = [r \in Reqs |-> None]
  /\ pc = [r \in Reqs |-> "idle"]
  /\ asked = [r \in Reqs |-> None]
  /\ read = [r \in Reqs |-> None]
  /\ mark = [p \in Pages |-> "idle"]
  /\ plans = [p \in Pages |-> <<>>]
  /\ apart = {}
  /\ saves = 0 /\ moves = 0 /\ faults = 0

Goto(r, step) == pc' = [pc EXCEPT ![r] = step] /\ UNCHANGED <<asked, read>>

\* The answer; what the request was about is forgotten.
Answer(r, how) ==
  /\ pc' = [pc EXCEPT ![r] = how]
  /\ asked' = [asked EXCEPT ![r] = None]
  /\ read' = [read EXCEPT ![r] = None]

Present == {i \in Reqs : rows[i] # None}

-----------------------------------------------------------------------------
\* A comment is written on a line of the page that is shown; a reply is given
\* the line of the comment it answers.
Start(r) ==
  /\ pc[r] = "idle"
  /\ \E next \in {"insert", "parent", "get"} :
       /\ pc' = [pc EXCEPT ![r] = next]
       /\ \/ \E p \in Pages :
               /\ next = "insert" /\ docs[p] # None
               /\ \E n \in DOMAIN docs[p] :
                    asked' = [asked EXCEPT ![r] =
                      [op |-> "create", path |-> p, line |-> n,
                       anchor |-> docs[p][n], parent |-> None]]
          \/ \E i \in Present :
               /\ next = "parent"
               /\ asked' = [asked EXCEPT ![r] =
                    [op |-> "create", path |-> rows[i].path, line |-> rows[i].line,
                     anchor |-> rows[i].anchor, parent |-> i]]
          \/ \E i \in Present, s \in Statuses \cup {None} :
               /\ next = "get"
               /\ asked' = [asked EXCEPT ![r] = [op |-> "update", id |-> i, status |-> s]]
  /\ UNCHANGED <<docs, rows, read, marking, apart, bounds>>

\* Faulty variant: a parent is accepted on any document.
ParentFoundAnywhere(parent, path) == parent # None

ParentFound(parent, path) == parent # None /\ parent.path = path

\* Create looks up the parent; a reply to a reply goes to its root.
LookUpParent(r) ==
  /\ pc[r] = "parent"
  /\ LET parent == rows[asked[r].parent]
     IN  IF ~ParentFound(parent, asked[r].path)
           THEN Answer(r, "refused")
           ELSE /\ asked' = [asked EXCEPT ![r].parent =
                               IF parent.parent # None THEN parent.parent ELSE @]
                /\ pc' = [pc EXCEPT ![r] = "insert"]
                /\ UNCHANGED read
  /\ apart' = IF asked[r].parent \in apart THEN apart \cup {r} ELSE apart
  /\ UNCHANGED <<docs, rows, marking, bounds>>

\* The INSERT, refused by the foreign key if the parent is gone.
InsertRow(r) ==
  /\ pc[r] = "insert"
  /\ LET c == asked[r]
     IN  IF c.parent # None /\ rows[c.parent] = None
           THEN Answer(r, "failed") /\ UNCHANGED rows
           ELSE /\ rows' = [rows EXCEPT ![r] =
                     [path |-> c.path, line |-> c.line, anchor |-> c.anchor,
                      status |-> "open", resolvedAt |-> FALSE, parent |-> c.parent]]
                /\ Answer(r, "ok")
  /\ UNCHANGED <<docs, marking, apart, bounds>>

\* Update reads the row.
GetRow(r) ==
  /\ pc[r] = "get"
  /\ IF rows[asked[r].id] = None
       THEN Answer(r, "refused")
       ELSE /\ read' = [read EXCEPT ![r] = rows[asked[r].id]]
            /\ pc' = [pc EXCEPT ![r] = "write"]
            /\ UNCHANGED asked
  /\ UNCHANGED <<docs, rows, marking, apart, bounds>>

\* A comment that is resolved already keeps its time, one that is not loses it.
ResolvedAt(old, status) ==
  status = "resolved" /\ (old.status = "resolved" => old.resolvedAt)

NewStatus(u, old) == IF u.status = None THEN old.status ELSE u.status

\* The UPDATE writes all columns, those not asked for as they were read.
WriteRow(r) ==
  /\ pc[r] = "write"
  /\ LET u == asked[r]
         status == NewStatus(u, read[r])
     IN  IF rows[u.id] = None
           THEN Answer(r, "refused") /\ UNCHANGED rows
           ELSE /\ rows' = [rows EXCEPT ![u.id].status = status,
                                       ![u.id].resolvedAt = ResolvedAt(read[r], status)]
                /\ Answer(r, "ok")
  /\ UNCHANGED <<docs, marking, apart, bounds>>

-----------------------------------------------------------------------------
\* PutDoc has written and committed the document.
SaveDoc(p) ==
  /\ mark[p] = "idle"
  /\ saves < MaxSaves
  /\ saves' = saves + 1
  /\ \E d \in Documents : docs' = [docs EXCEPT ![p] = d]
  /\ mark' = [mark EXCEPT ![p] = "read"]
  /\ UNCHANGED <<rows, requests, plans, apart, moves, faults>>

\* MarkPath reads the active comments and classifies them.
MarkRead(p) ==
  /\ mark[p] = "read"
  /\ LET active == {i \in Present : rows[i].path = p /\ rows[i].status # "resolved"}
     IN  /\ plans' = [plans EXCEPT ![p] =
                        [i \in active |-> Classify(rows[i].line, rows[i].anchor, docs[p])]]
         /\ mark' = [mark EXCEPT ![p] = IF active = {} THEN "idle" ELSE "write"]
  /\ UNCHANGED <<docs, rows, requests, apart, bounds>>

Anchor(row, plan) ==
  [row EXCEPT !.status = plan.status,
              !.line = IF plan.line > 0 THEN plan.line ELSE @]

\* The transaction of MarkPath: one UPDATE per plan, by id.
MarkWrite(p) ==
  /\ mark[p] = "write"
  /\ rows' = [i \in Reqs |-> IF i \in DOMAIN plans[p] \cap Present
                              THEN Anchor(rows[i], plans[p][i]) ELSE rows[i]]
  /\ plans' = [plans EXCEPT ![p] = <<>>]
  /\ mark' = [mark EXCEPT ![p] = "idle"]
  /\ UNCHANGED <<docs, requests, apart, bounds>>

\* It fails, is rolled back and logged.
MarkFails(p) ==
  /\ mark[p] # "idle"
  /\ faults < MaxFaults
  /\ faults' = faults + 1
  /\ plans' = [plans EXCEPT ![p] = <<>>]
  /\ mark' = [mark EXCEPT ![p] = "idle"]
  /\ UNCHANGED <<docs, rows, requests, apart, saves, moves>>

\* MoveDoc and its MovePath; the time between the two is in DocPipeline.
MovePath(p, q) ==
  /\ mark[p] = "idle" /\ mark[q] = "idle"
  /\ docs[p] # None /\ docs[q] = None
  /\ moves < MaxMoves
  /\ moves' = moves + 1
  /\ docs' = [docs EXCEPT ![p] = None, ![q] = docs[p]]
  /\ rows' = [i \in Reqs |-> IF i \in Present /\ rows[i].path = p
                              THEN [rows[i] EXCEPT !.path = q] ELSE rows[i]]
  /\ apart' = apart \cup {r \in Reqs : /\ pc[r] = "insert" /\ asked[r].parent # None
                                      /\ asked[r].path = p}
  /\ UNCHANGED <<requests, marking, saves, faults>>

\* Faulty variant: a foreign key without ON DELETE SET NULL.
OrphanReplyNever(row, gone) == row

\* ON DELETE SET NULL.
OrphanReply(row, gone) == IF row.parent \in gone THEN [row EXCEPT !.parent = None] ELSE row

\* DeleteDoc and its DeletePath.
DeletePath(p) ==
  /\ mark[p] = "idle" /\ docs[p] # None
  /\ moves < MaxMoves
  /\ moves' = moves + 1
  /\ docs' = [docs EXCEPT ![p] = None]
  /\ LET gone == {i \in Present : rows[i].path = p}
     IN  rows' = [i \in Reqs |-> IF i \in gone \/ i \notin Present THEN None
                                  ELSE OrphanReply(rows[i], gone)]
  /\ UNCHANGED <<requests, marking, apart, saves, faults>>

\* MovePath or DeletePath fails, which is only logged: the document has moved or is
\* gone, and its comments are left behind.
LeftBehind(p) ==
  /\ mark[p] = "idle" /\ docs[p] # None
  /\ moves < MaxMoves /\ faults < MaxFaults
  /\ moves' = moves + 1 /\ faults' = faults + 1
  /\ \/ docs' = [docs EXCEPT ![p] = None]
     \/ \E q \in Pages :
          /\ mark[q] = "idle" /\ docs[q] = None
          /\ docs' = [docs EXCEPT ![p] = None, ![q] = docs[p]]
  /\ UNCHANGED <<rows, requests, marking, apart, saves>>

Idle ==
  /\ \A r \in Reqs : pc[r] \in {"idle", "ok", "refused", "failed"}
  /\ \A p \in Pages : mark[p] = "idle"
  /\ UNCHANGED commentVars

CommentNext ==
  \/ \E r \in Reqs : Start(r) \/ LookUpParent(r) \/ InsertRow(r) \/ GetRow(r) \/ WriteRow(r)
  \/ \E p \in Pages :
       \/ SaveDoc(p) \/ MarkRead(p) \/ MarkWrite(p) \/ MarkFails(p)
       \/ DeletePath(p) \/ LeftBehind(p)
  \/ \E p, q \in Pages : MovePath(p, q)
  \/ Idle

CommentSpec == CommentInit /\ [][CommentNext]_commentVars

-----------------------------------------------------------------------------
(***************************************************************************)
(* Properties                                                              *)
(***************************************************************************)
\* Threads are one level deep and every reply has its root, although the
\* parent is looked up before the reply is inserted (comments.go:79-107).
FlatThreads ==
  \A i \in Present : LET parent == rows[i].parent
                     IN  parent # None => parent \in Present /\ rows[parent].parent = None

\* A reply is on the document of the comment it answers, through moves,
\* deletions and new documents at the old path: the look-up of the parent refuses
\* a parent that has moved, and only a move between that look-up and the
\* insertion (comments.go:82-113), which take no lock, puts a thread apart.
ThreadsTogether ==
  \A i \in Present \ apart : LET parent == rows[i].parent
                             IN  parent # None => rows[parent].path = rows[i].path

\* What MarkPath is about to write follows the ladder for every comment that was
\* active, and is about the rows as they still are (comments.go:202-209).
PlansFollowLadder ==
  \A p \in Pages : \A i \in DOMAIN plans[p] \cap Present :
    LET rung == Ladder(rows[i].line, rows[i].anchor, docs[p])
        done == Anchor(rows[i], plans[p][i])
    IN  done.status = rung.status /\ done.line = rung.line

\* "Resolved comments are left alone — once closed, they don't follow the
\* doc." (comments.go:210): MarkPath writes to no row that is resolved.
ResolvedLeftAlone ==
  [][\A p \in Pages : MarkWrite(p) =>
       \A i \in Present : rows[i].status = "resolved" => rows'[i] = rows[i]]_commentVars

-----------------------------------------------------------------------------
(***************************************************************************)
(* Why they hold                                                           *)
(***************************************************************************)
\* What each request has asked and read; a row is only there once its request
\* has been answered.
RequestsFit ==
  \A r \in Reqs :
    /\ pc[r] \in {"parent", "insert"} => asked[r] \in Create
    /\ pc[r] = "parent" => asked[r].parent # None
    /\ pc[r] \in {"get", "write"} => asked[r] \in Update
    /\ pc[r] = "write" => read[r] \in Row
    /\ r \in Present => pc[r] = "ok"

\* A reply about to be inserted goes to a comment that has been answered, which
\* is a root for as long as it exists, on the page of the reply unless a move
\* has come between.
RepliesFit ==
  \A r \in Reqs : pc[r] = "insert" /\ asked[r].parent # None =>
    LET root == asked[r].parent
    IN  /\ pc[root] = "ok"
        /\ root \in Present => /\ rows[root].parent = None
                               /\ r \in apart \/ rows[root].path = asked[r].path

\* What MarkPath is about to write is about the document as it is and, where
\* the comments are still there, about the lines they still have: while it runs
\* the path lock keeps saves, moves and deletions away.
PlansFit ==
  \A p \in Pages :
    /\ mark[p] = "write" \/ DOMAIN plans[p] = {}
    /\ mark[p] = "idle" \/ docs[p] # None
    /\ \A i \in DOMAIN plans[p] : pc[i] = "ok"
    /\ \A i \in DOMAIN plans[p] \cap Present :
         /\ rows[i].path = p
         /\ plans[p][i] = Classify(rows[i].line, rows[i].anchor, docs[p])

CommentInv ==
  CommentTypeOK /\ RequestsFit /\ FlatThreads /\ RepliesFit /\ ThreadsTogether /\ PlansFit
=============================================================================
