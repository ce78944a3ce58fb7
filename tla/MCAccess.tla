------------------------------ MODULE MCAccess ------------------------------
(***************************************************************************)
(* For TLC: how clients sign in (SignIn) and what they may do then         *)
(* (Authorization).  The two models share no state.  A behaviour is one of *)
(* either; the other stays as it starts.                                   *)
(***************************************************************************)
EXTENDS SignIn, MCAuthorization

VARIABLE part   \* which of the two a behaviour is about

mcVars == <<vars, accessVars, part>>

OneAccount ==
  /\ Init
  /\ \E u \in Users : /\ u = CHOOSE i \in Ids : TRUE
                      /\ ~users[u].enabled
                      /\ users[u].email = CHOOSE e \in Emails : TRUE
                      /\ users[u].pass = CHOOSE p \in Passwords : TRUE

OneAdmin ==
  /\ AccessInit
  /\ role = [u \in Accounts |-> IF u = u1 THEN "admin" ELSE Absent]
  /\ member = {} /\ rules = {}

MCInit ==
  \/ part = "sign-in" /\ Init /\ OneAdmin
  \/ part = "access" /\ OneAccount /\ AccessInit

MCNext ==
  \/ part = "sign-in" /\ Next /\ UNCHANGED <<accessVars, part>>
  \/ part = "access" /\ AccessNext /\ UNCHANGED <<vars, part>>

MCSpec == MCInit /\ [][MCNext]_mcVars
=============================================================================
