------------------------------ MODULE GitRepo ------------------------------
(***************************************************************************)
(* The git repository below internal/gitstore: one working tree, one index *)
(* and one branch, shared by every request.  gitstore.Store takes no lock: *)
(* each git command is a process of its own, atomic because git locks its  *)
(* index, and commands of different requests interleave freely.            *)
(*                                                                         *)
(* A document is a record of its frontmatter version and a token for its   *)
(* body.  git is not part of the repository; its commands are modelled     *)
(* from the way gitstore.go uses them.                                     *)
(***************************************************************************)
EXTENDS Naturals, Sequences

CONSTANTS
  NumPaths,  \* bound: how many document paths there are
  Reqs,      \* HTTP requests, each by a different signed-in user
  None,      \* no file, no row, no holder
  Seed,      \* body of a document that was there from the start
  Torn       \* body of a file that has been truncated and not yet written

\* Document paths, numbered in the order of Go's string <.
Paths == 1..NumPaths

Bodies  == Reqs \cup {Seed, Torn}
Content == [ver : Nat, body : Bodies]

ASSUME PathsAssumption == NumPaths \in Nat
ASSUME NoneAssumption  == None \notin Reqs \cup Paths \cup Content
ASSUME BodyAssumption  == Seed # Torn /\ {Seed, Torn} \cap Reqs = {}

VARIABLES
  wt,      \* working tree: what docs.Load reads and docs.Write writes
  staged,  \* the git index
  log      \* the branch: a sequence of commits, each an author and a tree

repo == <<wt, staged, log>>

File == Content \cup {None}
Tree == [Paths -> File]
Commits == [author : Reqs \cup {None}, tree : Tree]

SeedDoc == [ver |-> 1, body |-> Seed]
TornDoc == [ver |-> 0, body |-> Torn]

HEAD == log[Len(log)].tree

RepoTypeOK ==
  /\ wt \in Tree
  /\ staged \in Tree
  /\ log \in Seq(Commits)
  /\ Len(log) > 0

\* The content repository is created and committed before the server starts.
RepoInit ==
  /\ wt \in [Paths -> {SeedDoc, None}]
  /\ staged = wt
  /\ log = <<[author |-> None, tree |-> wt]>>

-----------------------------------------------------------------------------
\* os.WriteFile: O_TRUNC empties the file, the write that follows fills it.
TruncateFile(p) ==
  /\ wt' = [wt EXCEPT ![p] = TornDoc]
  /\ UNCHANGED <<staged, log>>

FillFile(p, doc) ==
  /\ wt' = [wt EXCEPT ![p] = doc]
  /\ UNCHANGED <<staged, log>>

\* git add -- p
Add(p) ==
  /\ staged' = [staged EXCEPT ![p] = wt[p]]
  /\ UNCHANGED <<wt, log>>

\* git diff --cached --quiet -- p succeeds.
NothingStaged(p) == staged[p] = HEAD[p]

\* git commit without a pathspec records the whole index, and fails when the
\* index equals HEAD.
CanCommit == staged # HEAD

CommitIndex(author) ==
  /\ log' = Append(log, [author |-> author, tree |-> staged])
  /\ UNCHANGED <<wt, staged>>

\* git mv: the source is tracked and the destination is free.
CanMv(p, q) == staged[p] # None /\ wt[p] # None /\ wt[q] = None

Mv(p, q) ==
  /\ wt' = [wt EXCEPT ![q] = wt[p], ![p] = None]
  /\ staged' = [staged EXCEPT ![q] = staged[p], ![p] = None]
  /\ UNCHANGED log

\* git rm without -f: the file is tracked and carries no change, in the
\* working tree or in the index.
CanRm(p) == staged[p] # None /\ wt[p] = staged[p] /\ staged[p] = HEAD[p]

Rm(p) ==
  /\ wt' = [wt EXCEPT ![p] = None]
  /\ staged' = [staged EXCEPT ![p] = None]
  /\ UNCHANGED log
=============================================================================
