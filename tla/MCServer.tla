------------------------------ MODULE MCServer ------------------------------
(***************************************************************************)
(* For TLC: how a server starts, and how its configuration is edited.  The *)
(* two models share no state.  A behaviour is one of either; the other     *)
(* stays as it starts.                                                     *)
(***************************************************************************)
EXTENDS Startup, ConfigService

VARIABLE part   \* which of the two a behaviour is about

serverVars == <<startupVars, vars, part>>

ServerInit ==
  \/ part = "start" /\ StartupInit /\ Init
  \/ part = "configuration" /\ StartupInit /\ disk = NoTx.disk /\ Init

ServerNext ==
  \/ part = "start" /\ StartupNext /\ UNCHANGED <<vars, part>>
  \/ part = "configuration" /\ Next /\ UNCHANGED <<startupVars, part>>

\* The fairness of either model, for the part that moves.
ServerSpec ==
  /\ ServerInit /\ [][ServerNext]_serverVars
  /\ \A s \in Servers : WF_startupVars(part = "start" /\ StartStep(s))
  /\ \A a \in Admins : WF_vars(part = "configuration" /\ Step(a))

\* After the last kill and failure somebody serves (SomebodyServes), in a behaviour
\* that is about servers.
ServersServe == part = "start" => SomebodyServes
=============================================================================
