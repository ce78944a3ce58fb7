----------------------------- MODULE MCContents -----------------------------
(***************************************************************************)
(* For TLC: the contents of the repository, their history (GitSync), the   *)
(* text of the files (DocText), and what a tab shows of them               *)
(* (DocumentStore).  The three models share no state.  A behaviour is one  *)
(* of any of them; the others stay as they start.                          *)
(***************************************************************************)
EXTENDS GitSync, MCDocText, DocumentStore

VARIABLE part   \* which of the three a behaviour is about

mcVars == <<syncVars, vars, tabVars, part>>

NoTexts == Init /\ DOMAIN file = {}
NoPages == TabInit /\ \A p \in DocPaths : pages[p] = Nil
OneDocument == SyncInit /\ path = CHOOSE f \in [Changes -> Documents] : TRUE

MCInit ==
  \/ part = "history" /\ SyncInit /\ NoTexts /\ NoPages
  \/ part = "texts" /\ OneDocument /\ Init /\ NoPages
  \/ part = "tab" /\ OneDocument /\ NoTexts /\ TabInit /\ pages[Home] # Nil

\* The bound on handlers is reached.
Finished == clock = MaxClock /\ UNCHANGED vars

MCNext ==
  \/ part = "history" /\ SyncNext /\ UNCHANGED <<vars, tabVars, part>>
  \/ part = "texts" /\ (Next \/ Finished) /\ UNCHANGED <<syncVars, tabVars, part>>
  \/ part = "tab" /\ TabNext /\ UNCHANGED <<syncVars, vars, part>>

MCSpec == MCInit /\ [][MCNext]_mcVars
=============================================================================
