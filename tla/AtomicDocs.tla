----------------------------- MODULE AtomicDocs -----------------------------
(***************************************************************************)
(* What the document API promises about the branch, without mutexes, index *)
(* or calls: a request takes effect whole, at most once, in one commit,    *)
(* and before it is answered 2xx.  Requests on different documents may     *)
(* share a commit, which carries the name of one request under way: of one *)
(* it takes along, or of one that another commit has taken along already.  *)
(***************************************************************************)
EXTENDS Naturals

CONSTANTS Paths, Reqs, None

VARIABLES
  docs,    \* docs[p]: the document at HEAD
  author,  \* whose name HEAD carries, None for the commit there was
  req,     \* req[r]: operation and paths, None before the request arrives
  state    \* state[r]: how far r has come

vars == <<docs, author, req, state>>

Init ==
  /\ author = None
  /\ req = [r \in Reqs |-> None]
  /\ state = [r \in Reqs |-> "waiting"]

Touched(r) == {req[r].from, req[r].to}

NextVersion(file) == IF file = None THEN 1 ELSE file.ver + 1

\* The documents of r before and after it took effect.
Effect(r, new) ==
  LET p == req[r].from
      q == req[r].to
  IN CASE req[r].op = "put" -> new[q] = [ver |-> NextVersion(docs[q]), body |-> r]
       [] req[r].op = "delete" -> docs[q] # None /\ new[q] = None
       [] req[r].op = "move" -> /\ docs[p] # None /\ docs[q] = None
                                /\ new[q] = docs[p] /\ new[p] = None

Arrive(r) ==
  /\ req[r] = None
  /\ req'[r] # None
  /\ \A s \in Reqs \ {r} : req'[s] = req[s]
  /\ state' \in {state, [state EXCEPT ![r] = "refused"]}
  /\ UNCHANGED <<docs, author>>

\* One commit by a: the whole effect of every request in S, and nothing else.
Commit(S, a) ==
  /\ state[a] = "applied" \/ a \in S
  /\ author' = a
  /\ \A r \in S : req[r] # None /\ state[r] = "waiting"
  /\ \A r, s \in S : r # s => Touched(r) \cap Touched(s) = {}
  /\ \A r \in S : Effect(r, docs')
  /\ \A p \in Paths \ UNION {Touched(r) : r \in S} : docs'[p] = docs[p]
  /\ state' = [r \in Reqs |-> IF r \in S THEN "applied" ELSE state[r]]
  /\ UNCHANGED req

\* A request that took effect may still be told that it failed.
Reply(r) ==
  /\ req[r] # None
  /\ \/ state[r] = "applied" /\ state' = [state EXCEPT ![r] = "ok"]
     \/ state[r] = "waiting" /\ state' = [state EXCEPT ![r] = "refused"]
     \/ state[r] \in {"waiting", "applied"} /\ state' = [state EXCEPT ![r] = "failed"]
  /\ UNCHANGED <<docs, author, req>>

Next ==
  \/ \E r \in Reqs : Arrive(r) \/ Reply(r)
  \/ \E S \in (SUBSET Reqs) \ {{}}, a \in Reqs : Commit(S, a)

Spec == Init /\ [][Next]_vars
=============================================================================
