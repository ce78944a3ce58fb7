-------------------------- MODULE MCAuthorization --------------------------
(* Instances of Authorization for TLC. *)
EXTENDS Authorization

CONSTANTS u1, u2, g, d1, d2

MCRules ==
  {[on |-> {d1}, type |-> "group", value |-> g, level |-> Write],
   [on |-> {d1, d2}, type |-> "user", value |-> u2, level |-> Comment],
   [on |-> {d1}, type |-> "anonymous", value |-> Absent, level |-> Read]}

MCScopes == {[level |-> Comment, on |-> {d1}]}

N(doc, level) == [doc |-> doc, level |-> level]

MCNeeds == {<<N(d1, Read)>>, <<N(d1, Comment), N(d2, Write)>>}
=============================================================================
