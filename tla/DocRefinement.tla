---------------------------- MODULE DocRefinement ---------------------------
(***************************************************************************)
(* DocPipeline implements AtomicDocs, with HEAD for the documents and its  *)
(* author, until a call fails, the server stops, or somebody copies or     *)
(* comments: CopyDoc reads its source without the source's lock and may    *)
(* copy what was never committed.                                          *)
(***************************************************************************)
EXTENDS DocPipeline

\* The change of r is staged or past that, and HEAD has it: committed by r or
\* swept up by the commit of another request.
Applied(r) ==
  \/ pc[r] \in {"comments", "unindex", "index", "respond"}
  \/ /\ pc[r] \in {"diff", "commit"}
     /\ \A p \in {From(r), To(r)} : staged[p] = HEAD[p]

AbstractState ==
  [r \in Reqs |-> IF pc[r] \in Answers THEN pc[r]
                  ELSE IF Applied(r) THEN "applied" ELSE "waiting"]

Author == log[Len(log)].author

Atomic == INSTANCE AtomicDocs WITH docs <- HEAD, author <- Author, state <- AbstractState

\* So far no call has failed and nobody has copied or commented.
Plain ==
  /\ Undisturbed
  /\ \A r \in Reqs : pc[r] # "idle" => Op(r) \in {"put", "delete", "move"}

\* Every commit of the pipeline is a set of whole requests, each acknowledged
\* request is in one, and none takes effect twice: no half of a move, no save
\* based on a version that is not the one it replaces, whatever the sharing of
\* the index does (gitstore.go:117,209,221).
AtomicCommits == Atomic!Init /\ [][Plain' => Atomic!Next]_(Atomic!vars)

\* The commit that takes the change of a request to the branch carries the name
\* of its user: "every save becomes a commit authored by the signed-in user"
\* (README.md:16), "the commit above already records who saved what"
\* (docs.go:136).  It fails: git commit takes along what other requests have
\* staged (gitstore.go:117).
SavesAreSigned ==
  [][\A r \in Reqs : AbstractState[r] = "waiting" /\ AbstractState'[r] = "applied" =>
       Author' = r]_vars
=============================================================================
