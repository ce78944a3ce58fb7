---------------------------- MODULE AtomicConfig ----------------------------
(***************************************************************************)
(* What editing the live configuration promises, without mutex, rows or    *)
(* memory: an edit takes effect at one moment, at most once, and before it *)
(* is answered 200; the answer shows the configuration of one moment.      *)
(***************************************************************************)
CONSTANTS Admins, Keys, None

VARIABLES
  conf,    \* conf[k]: the override of k, None for the default
  edit,    \* edit[a]: the edit a asked for, None if it changes nothing
  state,   \* state[a]: how far the edit of a has come
  shown    \* shown[a]: the configuration a was last shown

vars == <<conf, edit, state, shown>>

Init ==
  /\ conf = [k \in Keys |-> None]
  /\ edit = [a \in Admins |-> None]
  /\ state = [a \in Admins |-> "idle"]
  /\ shown = [a \in Admins |-> None]

Arrive(a) ==
  /\ state[a] \notin {"waiting", "applied"}
  /\ \A b \in Admins \ {a} : edit'[b] = edit[b]
  /\ \/ state' = [state EXCEPT ![a] = "refused"]
     \/ edit'[a] # None /\ state' = [state EXCEPT ![a] = "waiting"]
     \/ edit'[a] = None /\ state' = [state EXCEPT ![a] = "applied"]
  /\ UNCHANGED <<conf, shown>>

Apply(a) ==
  /\ state[a] = "waiting"
  /\ conf' = [conf EXCEPT ![edit[a].key] = edit[a].value]
  /\ state' = [state EXCEPT ![a] = "applied"]
  /\ UNCHANGED <<edit, shown>>

Fail(a) ==
  /\ state[a] = "waiting"
  /\ state' = [state EXCEPT ![a] = "failed"]
  /\ UNCHANGED <<conf, edit, shown>>

Reply(a) ==
  /\ state[a] = "applied"
  /\ state' = [state EXCEPT ![a] = "ok"]
  /\ shown' = [shown EXCEPT ![a] = conf]
  /\ UNCHANGED <<conf, edit>>

\* The server stops; nobody is answered any more.
Stop ==
  /\ state' = [a \in Admins |->
                 IF state[a] \in {"waiting", "applied"} THEN "lost" ELSE state[a]]
  /\ UNCHANGED <<conf, edit, shown>>

Next == Stop \/ \E a \in Admins : Arrive(a) \/ Apply(a) \/ Fail(a) \/ Reply(a)

Spec == Init /\ [][Next]_vars
=============================================================================
