--------------------------- MODULE MCCommentStore ---------------------------
(* Instances of CommentStore for TLC.  aab and aac differ by one character. *)
EXTENDS CommentStore, TLC

aab == <<"a", "a", "b">>
aac == <<"a", "a", "c">>
xy  == <<"x", "y">>

MCCharacters == {"a", "b", "c", "x", "y"}

\* A line stays, moves by one or more, appears twice at the same distance,
\* changes or goes.
MCDocuments == { <<xy, aab>>, <<aab, xy, aab>>, <<xy, <<>>, aac>>, <<xy>> }

FewDocuments == { <<aab, xy>>, <<xy, aac>> }

Symmetry == Permutations(Reqs) \cup Permutations(Pages)
=============================================================================
