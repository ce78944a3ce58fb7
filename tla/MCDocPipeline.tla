---------------------------- MODULE MCDocPipeline ---------------------------
(* Instances of DocPipeline and of its refinement for TLC; the requests are  *)
(* numbers.                                                                  *)
EXTENDS DocRefinement

Begun == {r \in Reqs : pc[r] # "idle"}

\* Requests are interchangeable: they begin in their order.
InOrder == \A r \in Begun, s \in Reqs : s < r => s \in Begun

\* Bound: the third request of a run comes only where nothing fails, nobody
\* copies or comments, no comment is there, and the first document was there
\* from the start.
Light == Plain /\ (\A c \in CommentIds : onpath[c] = None) /\ log[1].tree[1] # None

\* The requests that have begun have been answered.
Rest == (\A r \in Begun : pc[r] \in Answers) /\ UNCHANGED vars

MCNext == (Next /\ InOrder' /\ (Cardinality(Begun') > 2 => Light')) \/ Rest

MCSpec == Init /\ [][MCNext]_vars /\ \A r \in Reqs : WF_vars(Step(r))
=============================================================================
