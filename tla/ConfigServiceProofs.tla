------------------------ MODULE ConfigServiceProofs ------------------------
(***************************************************************************)
(* Proofs about ConfigService for any number of admins, keys, edits,       *)
(* failing transactions and restarts.                                      *)
(***************************************************************************)
EXTENDS ConfigService, TLAPS

PcSet == {"idle"} \cup Steps \cup Answers

LEMMA GotoAt ==
  ASSUME pc \in [Admins -> PcSet], NEW a \in Admins, NEW c, Goto(a, c)
  PROVE  /\ pc'[a] = c
         /\ \A b \in Admins \ {a} : pc'[b] = pc[b]
         /\ c \in PcSet => pc' \in [Admins -> PcSet]
BY DEF Goto

LEMMA RedactType ==
  ASSUME NEW k \in Keys
  PROVE  /\ \A v \in Raw \cup {None} : Redact(k, v) \in Raw \cup {Hidden, None}
         /\ \A v \in Raw \cup {None} :
              Redact(k, BaseOrPrev(v)) \in Raw \cup {Default, Hidden}
BY DEF Redact, BaseOrPrev

\* At the start nobody edits, and table, memory and mailer are empty.
LEMMA InitInd == Init => IndInv
<1> SUFFICES ASSUME Init PROVE IndInv
  OBVIOUS
<1>1. NoOverrides \in Config
  BY DEF NoOverrides, Config
<1>2. TypeOK
  <2>1. overtaken \in BOOLEAN
    BY DEF Init
  <2>2. QED
    BY <1>1, <2>1, BoundsAssumption DEF Init, TypeOK
<1>3. \A a \in Admins : pc[a] = "idle" /\ mu = None
  BY DEF Init
<1>4. EditShape /\ Exclusive
  BY <1>3, NoneAssumption DEF EditShape, Exclusive, Steps
<1>5. Lag
  BY <1>3 DEF Lag, Init
<1>6. QED
  BY <1>2, <1>4, <1>5 DEF IndInv

-----------------------------------------------------------------------------
\* Every step keeps the types.
LEMMA TypeStep == IndInv /\ [Next]_vars => TypeOK'
<1> SUFFICES ASSUME IndInv, [Next]_vars PROVE TypeOK'
  OBVIOUS
<1> USE BoundsAssumption DEF TypeOK, IndInv
<1>0. pc \in [Admins -> PcSet]
  BY DEF PcSet
<1>1. ASSUME NEW a \in Admins, Patch(a) PROVE TypeOK'
  <2>1. edit' \in [Admins -> Edit \cup {None}]
    BY <1>1 DEF Patch, Edit
  <2>2. pc' \in [Admins -> PcSet]
    BY <1>1, <1>0, GotoAt DEF Patch, PcSet, Steps, Answers
  <2>3. edits' \in 0..MaxEdits /\ overtaken' \in BOOLEAN
    BY <1>1 DEF Patch
  <2>4. QED
    BY <1>1, <2>1, <2>2, <2>3 DEF Patch, db, service, PcSet
<1>2. ASSUME NEW a \in Admins, Lock(a) PROVE TypeOK'
  <2>1. pc' \in [Admins -> PcSet]
    BY <1>2, <1>0, GotoAt DEF Lock, PcSet, Steps
  <2>2. edit[a].key \in Keys
    BY <1>2 DEF Lock, EditShape, Steps, Edit
  <2>3. prev' \in [Admins -> Raw \cup {None}]
    BY <1>2, <2>2 DEF Lock, Config
  <2>4. QED
    BY <1>2, <2>1, <2>3 DEF Lock, db, env, PcSet
<1>3. ASSUME NEW a \in Admins, Commit(a) PROVE TypeOK'
  <2>1. edit[a].key \in Keys /\ edit[a].value \in Raw \cup {None}
    BY <1>3 DEF Commit, EditShape, Steps, Edit
  <2>2. rows' \in Config
    BY <1>3, <2>1 DEF Commit, Config
  <2>3. audit' \in Seq(Entry)
    <3>1. [key |-> edit[a].key, old |-> Redact(edit[a].key, BaseOrPrev(prev[a])),
           new |-> Redact(edit[a].key, edit[a].value)] \in Entry
      BY <2>1, RedactType DEF Entry
    <3>2. QED
      BY <1>3, <3>1 DEF Commit
  <2>4. pc' \in [Admins -> PcSet]
    BY <1>3, <1>0, GotoAt DEF Commit, PcSet, Steps
  <2>5. QED
    BY <1>3, <2>2, <2>3, <2>4 DEF Commit, service, env, PcSet
<1>4. ASSUME NEW a \in Admins, RollBack(a) PROVE TypeOK'
  <2>1. pc' \in [Admins -> PcSet]
    BY <1>4, <1>0, GotoAt DEF RollBack, PcSet, Answers
  <2>2. faults' \in 0..MaxFaults
    BY <1>4 DEF RollBack
  <2>3. QED
    BY <1>4, <2>1, <2>2 DEF RollBack, db, PcSet
<1>5. ASSUME NEW a \in Admins, Install(a) PROVE TypeOK'
  <2>1. edit[a].key \in Keys /\ edit[a].value \in Raw \cup {None}
    BY <1>5 DEF Install, EditShape, Steps, Edit
  <2>2. overrides' \in Config
    BY <1>5, <2>1 DEF Install, Config
  <2>3. snap' \in [Admins -> Config]
    BY <1>5, <2>2 DEF Install
  <2>4. pc' \in [Admins -> PcSet]
    BY <1>5, <1>0, GotoAt DEF Install, Call, PcSet, Steps
  <2>5. overtaken' \in BOOLEAN
    BY <1>5 DEF Install, Call
  <2>6. QED
    BY <1>5, <2>2, <2>3, <2>4, <2>5 DEF Install, db, PcSet
<1>6. ASSUME NEW a \in Admins, Reload(a) PROVE TypeOK'
  <2>1. pc' \in [Admins -> PcSet]
    BY <1>6, <1>0, GotoAt DEF Reload, PcSet, Steps
  <2>2. QED
    BY <1>6, <2>1 DEF Reload, db, env, PcSet
<1>7. ASSUME NEW a \in Admins, ShowEffective(a) PROVE TypeOK'
  <2>1. pc' \in [Admins -> PcSet]
    BY <1>7, <1>0, GotoAt DEF ShowEffective, PcSet, Answers
  <2>2. QED
    BY <1>7, <2>1 DEF ShowEffective, db, service, env, PcSet
<1>8. CASE Crash
  <2>1. pc' \in [Admins -> PcSet]
    BY <1>8, <1>0 DEF Crash, PcSet, Answers
  <2>2. crashes' \in 0..MaxCrashes
    BY <1>8 DEF Crash
  <2>3. QED
    BY <1>8, <2>1, <2>2 DEF Crash, db, PcSet
<1>9. CASE UNCHANGED vars
  BY <1>9 DEF vars, db, service, env
<1>10. QED
  BY <1>1, <1>2, <1>3, <1>4, <1>5, <1>6, <1>7, <1>8, <1>9 DEF Next, Step, Idle

-----------------------------------------------------------------------------
\* Every step keeps the owner of the mutex, the edits and the lag of memory
\* behind the table.
LEMMA StateStep == IndInv /\ [Next]_vars => EditShape' /\ Exclusive' /\ Lag'
<1> SUFFICES ASSUME IndInv, [Next]_vars PROVE EditShape' /\ Exclusive' /\ Lag'
  OBVIOUS
<1>0. /\ TypeOK /\ EditShape /\ Exclusive /\ Lag
      /\ pc \in [Admins -> PcSet] /\ edit \in [Admins -> Edit \cup {None}]
  BY DEF IndInv, TypeOK, PcSet
<1>1. ASSUME NEW a \in Admins, Patch(a) PROVE EditShape' /\ Exclusive' /\ Lag'
  <2>1. /\ pc[a] \notin Steps /\ pc'[a] \in {"refused", "effective", "lock"}
        /\ \A b \in Admins \ {a} : pc'[b] = pc[b] /\ edit'[b] = edit[b]
        /\ UNCHANGED <<rows, overrides, mu>>
    BY <1>1, <1>0, GotoAt DEF Patch, Steps, Answers, db, service
  <2>2. pc'[a] = "lock" => edit'[a] \in Edit
    BY <1>1, <1>0, GotoAt DEF Patch, Edit
  <2>3. EditShape'
    BY <1>0, <2>1, <2>2 DEF EditShape, Steps
  <2>4. Exclusive'
    BY <1>0, <2>1 DEF Exclusive, Steps
  <2>5. Lag'
    BY <1>0, <2>1 DEF Lag, Steps
  <2>6. QED
    BY <2>3, <2>4, <2>5
<1>2. ASSUME NEW a \in Admins, Lock(a) PROVE EditShape' /\ Exclusive' /\ Lag'
  <2>1. /\ pc[a] = "lock" /\ mu = None
        /\ \A b \in Admins \ {a} : pc'[b] = pc[b]
        /\ UNCHANGED <<rows, overrides, edit>>
        /\ \/ pc'[a] = "effective" /\ mu' = None
           \/ pc'[a] = "commit" /\ mu' = a
    BY <1>2, <1>0, GotoAt DEF Lock, db
  <2>2. EditShape'
    BY <1>0, <2>1 DEF EditShape, Steps
  <2>3. Exclusive'
    BY <1>0, <2>1, NoneAssumption DEF Exclusive
  <2>4. Lag'
    BY <1>0, <2>1 DEF Lag
  <2>5. QED
    BY <2>2, <2>3, <2>4
<1>3. ASSUME NEW a \in Admins, Commit(a) PROVE EditShape' /\ Exclusive' /\ Lag'
  <2>1. /\ pc[a] = "commit" /\ pc'[a] = "install" /\ mu = a
        /\ \A b \in Admins \ {a} : pc'[b] = pc[b] /\ pc[b] # "install"
        /\ UNCHANGED <<overrides, mu, edit>>
        /\ rows' = [rows EXCEPT ![edit[a].key] = edit[a].value]
    BY <1>3, <1>0, GotoAt DEF Commit, service, Exclusive
  <2>2. EditShape'
    BY <1>0, <2>1 DEF EditShape, Steps
  <2>3. Exclusive'
    BY <1>0, <2>1 DEF Exclusive
  <2>4. Lag'
    BY <1>0, <2>1 DEF Lag
  <2>5. QED
    BY <2>2, <2>3, <2>4
<1>4. ASSUME NEW a \in Admins, RollBack(a) PROVE EditShape' /\ Exclusive' /\ Lag'
  <2>1. /\ pc[a] = "commit" /\ pc'[a] = "failed" /\ mu = a /\ mu' = None
        /\ \A b \in Admins \ {a} : pc'[b] = pc[b]
        /\ UNCHANGED <<rows, overrides, edit>>
    BY <1>4, <1>0, GotoAt DEF RollBack, db, Exclusive
  <2>2. EditShape'
    BY <1>0, <2>1 DEF EditShape, Steps
  <2>3. Exclusive'
    BY <1>0, <2>1, NoneAssumption DEF Exclusive
  <2>4. Lag'
    BY <1>0, <2>1 DEF Lag
  <2>5. QED
    BY <2>2, <2>3, <2>4
<1>5. ASSUME NEW a \in Admins, Install(a) PROVE EditShape' /\ Exclusive' /\ Lag'
  <2>1. /\ pc[a] = "install" /\ pc'[a] \in {"notify", "effective"}
        /\ mu = a /\ mu' = None
        /\ \A b \in Admins \ {a} : pc'[b] = pc[b] /\ pc[b] # "install"
        /\ UNCHANGED <<rows, edit>> /\ overrides' = rows
    BY <1>5, <1>0, GotoAt DEF Install, Call, db, Exclusive, Lag
  <2>2. EditShape'
    BY <1>0, <2>1 DEF EditShape, Steps
  <2>3. Exclusive'
    BY <1>0, <2>1, NoneAssumption DEF Exclusive
  <2>4. Lag'
    BY <1>0, <2>1 DEF Lag
  <2>5. QED
    BY <2>2, <2>3, <2>4
<1>6. ASSUME NEW a \in Admins, Reload(a) \/ ShowEffective(a)
      PROVE  EditShape' /\ Exclusive' /\ Lag'
  <2>1. /\ pc[a] \in {"notify", "effective"} /\ pc'[a] \in {"effective", "ok"}
        /\ \A b \in Admins \ {a} : pc'[b] = pc[b]
        /\ UNCHANGED <<rows, overrides, mu, edit>>
    BY <1>6, <1>0, GotoAt DEF Reload, ShowEffective, db, service
  <2>2. EditShape'
    BY <1>0, <2>1 DEF EditShape, Steps
  <2>3. Exclusive' /\ Lag'
    BY <1>0, <2>1 DEF Exclusive, Lag
  <2>4. QED
    BY <2>2, <2>3
<1>7. CASE Crash
  <2>1. \A a \in Admins : pc'[a] \notin Steps
    BY <1>7, <1>0 DEF Crash, PcSet, Steps, Answers
  <2>2. QED
    BY <1>7, <2>1, NoneAssumption DEF Crash, db, EditShape, Exclusive, Lag, Steps
<1>8. CASE UNCHANGED vars
  BY <1>0, <1>8 DEF vars, db, service, EditShape, Exclusive, Lag
<1>9. QED
  BY <1>1, <1>2, <1>3, <1>4, <1>5, <1>6, <1>7, <1>8 DEF Next, Step, Idle

\* The types, the owner of the mutex and the lag of memory behind the table
\* are as stated in every reachable state.
THEOREM ConfigInvariance == Spec => []IndInv
<1>1. IndInv /\ [Next]_vars => IndInv'
  BY TypeStep, StateStep DEF IndInv
<1>2. QED
  BY <1>1, InitInd, PTL DEF Spec

\* Memory and table agree whenever the mutex is free, whatever transactions
\* fail and whenever the server restarts.
THEOREM MemoryAgrees == Spec => []MemoryIsRows
<1>1. IndInv => MemoryIsRows
  BY NoneAssumption DEF IndInv, Exclusive, Lag, MemoryIsRows
<1>2. QED
  BY <1>1, ConfigInvariance, PTL

-----------------------------------------------------------------------------
(***************************************************************************)
(* ConfigService implements AtomicConfig                                   *)
(***************************************************************************)
LEMMA InitMaps == Init => Atomic!Init
<1>1. ASSUME Init PROVE EditState = [a \in Admins |-> "idle"]
  BY <1>1 DEF Init, EditState, Phase
<1>2. QED
  BY <1>1 DEF Init, Atomic!Init, NoOverrides

\* EditState follows pc.
LEMMA StateFollows ==
  ASSUME pc \in [Admins -> PcSet], NEW a \in Admins, NEW c \in PcSet, Goto(a, c)
  PROVE  EditState' = [EditState EXCEPT ![a] = Phase(c)]
BY DEF Goto, EditState

\* Every step of the service is a step of the abstract one, or changes nothing
\* it can see.
LEMMA StepMaps == IndInv /\ [Next]_vars => [Atomic!Next]_(Atomic!vars)
<1> SUFFICES ASSUME IndInv, [Next]_vars PROVE [Atomic!Next]_(Atomic!vars)
  OBVIOUS
<1>0. /\ TypeOK /\ EditShape /\ Exclusive /\ Lag
      /\ pc \in [Admins -> PcSet] /\ edit \in [Admins -> Edit \cup {None}]
  BY DEF IndInv, TypeOK, PcSet
<1>1. ASSUME NEW a \in Admins, Patch(a) PROVE Atomic!Arrive(a)
  <2>1. EditState[a] \notin {"waiting", "applied"}
    BY <1>1 DEF Patch, EditState, Phase, Answers
  <2>2. /\ \A b \in Admins \ {a} : edit'[b] = edit[b]
        /\ UNCHANGED <<rows, shown>>
    BY <1>1, <1>0 DEF Patch, db
  <2>3. CASE Goto(a, "refused")
    BY <1>0, <2>1, <2>2, <2>3, StateFollows DEF Atomic!Arrive, Phase, PcSet, Answers
  <2>4. CASE edit'[a] = None /\ Goto(a, "effective")
    BY <1>0, <2>1, <2>2, <2>4, StateFollows DEF Atomic!Arrive, Phase, PcSet, Steps
  <2>5. CASE edit'[a] \in Edit /\ Goto(a, "lock")
    <3>1. edit'[a] # None
      BY <2>5, NoneAssumption DEF Edit
    <3>2. QED
      BY <1>0, <2>1, <2>2, <2>5, <3>1, StateFollows DEF Atomic!Arrive, Phase, PcSet, Steps
  <2>6. QED
    BY <1>1, <1>0, <2>3, <2>4, <2>5 DEF Patch, Edit
<1>2. ASSUME NEW a \in Admins, Lock(a) PROVE [Atomic!Next]_(Atomic!vars)
  <2>1. pc[a] = "lock" /\ UNCHANGED <<rows, edit, shown>> /\ EditState[a] = "waiting"
    BY <1>2 DEF Lock, db, EditState, Phase
  <2>2. CASE edit[a].value = None /\ prev'[a] = None /\ Goto(a, "effective")
    <3>1. edit[a].key \in Keys
      BY <1>0, <2>1 DEF EditShape, Steps, Edit
    <3>2. rows[edit[a].key] = None
      <4>1. \A b \in Admins : pc[b] # "install"
        BY <1>2, <1>0, NoneAssumption DEF Lock, Exclusive
      <4>2. QED
        BY <1>2, <1>0, <2>2, <4>1, <3>1 DEF Lock, Lag, TypeOK
    <3>3. rows' = [rows EXCEPT ![edit[a].key] = edit[a].value]
      BY <1>0, <2>1, <2>2, <3>1, <3>2 DEF TypeOK, Config
    <3>4. EditState' = [EditState EXCEPT ![a] = "applied"]
      BY <1>0, <2>2, StateFollows DEF PcSet, Steps, Phase
    <3>5. Atomic!Apply(a)
      BY <2>1, <3>3, <3>4 DEF Atomic!Apply
    <3>6. QED
      BY <3>5 DEF Atomic!Next
  <2>3. CASE Goto(a, "commit")
    <3>1. EditState' = [EditState EXCEPT ![a] = "waiting"]
      BY <1>0, <2>3, StateFollows DEF PcSet, Steps, Phase
    <3>2. EditState' = EditState
      BY <2>1, <3>1 DEF EditState
    <3>3. QED
      BY <2>1, <3>2 DEF Atomic!vars
  <2>4. QED
    BY <1>2, <2>2, <2>3 DEF Lock
<1>3. ASSUME NEW a \in Admins, Commit(a) PROVE Atomic!Apply(a)
  <2>1. EditState[a] = "waiting" /\ EditState' = [EditState EXCEPT ![a] = "applied"]
    BY <1>3, <1>0, StateFollows DEF Commit, PcSet, Steps, EditState, Phase
  <2>2. QED
    BY <1>3, <2>1 DEF Commit, Atomic!Apply
<1>4. ASSUME NEW a \in Admins, RollBack(a) PROVE Atomic!Fail(a)
  <2>1. EditState[a] = "waiting" /\ EditState' = [EditState EXCEPT ![a] = "failed"]
    BY <1>4, <1>0, StateFollows DEF RollBack, PcSet, Answers, EditState, Phase
  <2>2. QED
    BY <1>4, <2>1 DEF RollBack, db, Atomic!Fail
<1>5. ASSUME NEW a \in Admins, Install(a) \/ Reload(a) PROVE UNCHANGED Atomic!vars
  <2>1. EditState[a] = "applied" /\ EditState' = [EditState EXCEPT ![a] = "applied"]
    BY <1>5, <1>0, StateFollows DEF Install, Call, Reload, PcSet, Steps, EditState, Phase
  <2>2. EditState' = EditState
    BY <2>1 DEF EditState
  <2>3. QED
    BY <1>5, <2>2 DEF Install, Reload, db, Atomic!vars
<1>6. ASSUME NEW a \in Admins, ShowEffective(a) PROVE Atomic!Reply(a)
  <2>1. EditState[a] = "applied" /\ EditState' = [EditState EXCEPT ![a] = "ok"]
    BY <1>6, <1>0, StateFollows DEF ShowEffective, PcSet, Answers, EditState, Phase
  <2>2. overrides = rows
    BY <1>6, <1>0, NoneAssumption DEF ShowEffective, Exclusive, Lag
  <2>3. QED
    BY <1>6, <2>1, <2>2 DEF ShowEffective, db, Atomic!Reply
<1>7. CASE Crash
  <2>1. EditState' = [a \in Admins |-> IF EditState[a] \in {"waiting", "applied"}
                                       THEN "lost" ELSE EditState[a]]
    <3>1. ASSUME NEW a \in Admins
          PROVE  Phase(pc[a]) \in {"waiting", "applied"} <=> pc[a] \in Steps
      <4>1. pc[a] \in PcSet
        BY <1>0
      <4>2. CASE pc[a] \in {"lock", "commit"}
        BY <4>2 DEF Phase, Steps
      <4>3. CASE pc[a] \in {"install", "notify", "effective"}
        BY <4>3 DEF Phase, Steps
      <4>4. CASE pc[a] \in {"idle"} \cup Answers
        BY <4>4 DEF Phase, Steps, Answers
      <4>5. QED
        BY <4>1, <4>2, <4>3, <4>4 DEF PcSet, Steps
    <3>2. Phase("lost") = "lost"
      BY DEF Phase
    <3>3. ASSUME NEW a \in Admins
          PROVE  Phase(pc'[a]) = IF Phase(pc[a]) \in {"waiting", "applied"}
                                 THEN "lost" ELSE Phase(pc[a])
      BY <1>7, <3>1, <3>2 DEF Crash
    <3>4. QED
      BY <3>3 DEF EditState
  <2>2. Atomic!Stop
    BY <1>7, <2>1 DEF Crash, db, Atomic!Stop
  <2>3. QED
    BY <2>2 DEF Atomic!Next
<1>8. CASE UNCHANGED vars
  BY <1>8 DEF vars, db, EditState, Atomic!vars
<1>9. QED
  BY <1>1, <1>2, <1>3, <1>4, <1>5, <1>6, <1>7, <1>8 DEF Next, Step, Idle, Atomic!Next

\* Editing the configuration is atomic, for any number of admins.
THEOREM EditsAreAtomic == Spec => AtomicEdits
<1>1. Spec => Atomic!Spec
  BY InitMaps, StepMaps, ConfigInvariance, PTL DEF Spec, Atomic!Spec
<1>2. QED
  BY <1>1 DEF AtomicEdits
-----------------------------------------------------------------------------
(***************************************************************************)
(* The audit log                                                           *)
(***************************************************************************)
\* The owner of the mutex knows the override that it is going to replace.
PrevRead == \A a \in Admins : pc[a] = "commit" => prev[a] = overrides[edit[a].key]

LEMMA PrevStep == IndInv /\ PrevRead /\ [Next]_vars => PrevRead'
<1> SUFFICES ASSUME IndInv, PrevRead, [Next]_vars PROVE PrevRead'
  OBVIOUS
<1>0. /\ TypeOK /\ EditShape /\ Exclusive
      /\ pc \in [Admins -> PcSet] /\ edit \in [Admins -> Edit \cup {None}]
      /\ prev \in [Admins -> Raw \cup {None}]
  BY DEF IndInv, TypeOK, PcSet
<1>1. ASSUME NEW a \in Admins, Patch(a) PROVE PrevRead'
  <2>1. /\ pc'[a] # "commit" /\ UNCHANGED <<overrides, prev>>
        /\ \A b \in Admins \ {a} : pc'[b] = pc[b] /\ edit'[b] = edit[b]
    BY <1>1, <1>0, GotoAt DEF Patch, service
  <2>2. QED
    BY <2>1 DEF PrevRead
<1>2. ASSUME NEW a \in Admins, Lock(a) PROVE PrevRead'
  <2>1. /\ \A b \in Admins : pc[b] # "commit"
        /\ \A b \in Admins \ {a} : pc'[b] = pc[b]
        /\ prev'[a] = overrides[edit[a].key] /\ UNCHANGED <<overrides, edit>>
    BY <1>2, <1>0, GotoAt, NoneAssumption DEF Lock, Exclusive
  <2>2. QED
    BY <2>1 DEF PrevRead
<1>3. ASSUME NEW a \in Admins, Commit(a) \/ RollBack(a) \/ Reload(a) \/ ShowEffective(a)
      PROVE  PrevRead'
  <2>1. /\ pc'[a] # "commit" /\ UNCHANGED <<overrides, prev, edit>>
        /\ \A b \in Admins \ {a} : pc'[b] = pc[b]
    BY <1>3, <1>0, GotoAt DEF Commit, RollBack, Reload, ShowEffective, service
  <2>2. QED
    BY <2>1 DEF PrevRead
<1>4. ASSUME NEW a \in Admins, Install(a) PROVE PrevRead'
  <2>1. \A b \in Admins : pc'[b] # "commit"
    BY <1>4, <1>0, GotoAt DEF Install, Call, Exclusive
  <2>2. QED
    BY <2>1 DEF PrevRead
<1>5. CASE Crash
  <2>1. \A a \in Admins : pc'[a] # "commit"
    BY <1>5, <1>0 DEF Crash, PcSet, Steps, Answers
  <2>2. QED
    BY <2>1 DEF PrevRead
<1>6. CASE UNCHANGED vars
  BY <1>6 DEF vars, service, PrevRead
<1>7. QED
  BY <1>1, <1>2, <1>3, <1>4, <1>5, <1>6 DEF Next, Step, Idle

\* What the audit hides of a value, it hides of what the log says of the value.
LEMMA RedactTwice ==
  ASSUME NEW k \in Keys, NEW v \in Raw \cup {None}
  PROVE  Redact(k, BaseOrPrev(Redact(k, v))) = Redact(k, BaseOrPrev(v))
BY NoneAssumption DEF Redact, BaseOrPrev

\* The transaction appends an entry that starts from the row it replaces.
LEMMA CommitTells ==
  ASSUME IndInv, PrevRead, AuditIsHistory, NEW a \in Admins, Commit(a)
  PROVE  AuditIsHistory'
<1>a. TypeOK /\ edit[a] \in Edit /\ overrides = rows /\ prev[a] = rows[edit[a].key]
  <2>1. TypeOK /\ pc[a] = "commit" /\ edit[a] \in Edit /\ mu = a
    BY DEF IndInv, Commit, EditShape, Exclusive, Steps
  <2>2. \A b \in Admins : pc[b] # "install"
    BY <2>1 DEF IndInv, Exclusive
  <2>3. QED
    BY <2>1, <2>2 DEF IndInv, Lag, PrevRead
<1>b. PICK k0 \in Keys : k0 = edit[a].key
  BY <1>a DEF Edit
<1>c. PICK v \in Raw \cup {None} : v = edit[a].value
  BY <1>a DEF Edit
<1>d. PICK n \in Nat : n = Len(audit)
  BY <1>a DEF TypeOK
<1> DEFINE e == [key |-> k0, old |-> Redact(k0, BaseOrPrev(rows[k0])), new |-> Redact(k0, v)]
<1>1. /\ rows \in [Keys -> Raw \cup {None}] /\ rows[k0] \in Raw \cup {None}
      /\ audit \in Seq(Entry) /\ Len(audit) = n
  BY <1>a, <1>d DEF TypeOK, Config
<1>2. rows' = [rows EXCEPT ![k0] = v] /\ audit' = Append(audit, e)
  BY <1>a, <1>b, <1>c DEF Commit
<1>e. e.key = k0 /\ e.old = Redact(k0, BaseOrPrev(rows[k0])) /\ e.new = Redact(k0, v)
  OBVIOUS
<1> HIDE DEF e
<1>3. /\ Len(audit') = n + 1 /\ DOMAIN audit' = 1..n + 1 /\ DOMAIN audit = 1..n
      /\ audit'[n + 1] = e /\ \A i \in 1..n : audit'[i] = audit[i]
  BY <1>1, <1>2
<1>4. /\ e.key = k0 /\ e.old = Redact(k0, BaseOrPrev(rows[k0]))
      /\ e.new = Redact(k0, rows'[k0])
  BY <1>1, <1>2, <1>e
<1>5. ASSUME NEW k \in Keys, NEW m \in 0..n PROVE About(k, m)' = About(k, m)
  BY <1>1, <1>3 DEF About
<1>6. ASSUME NEW k \in Keys
      PROVE  About(k, n + 1)' = IF k = k0 THEN About(k, n) \cup {n + 1} ELSE About(k, n)
  BY <1>1, <1>3, <1>4 DEF About
<1>7. ASSUME NEW k \in Keys, NEW m \in 0..n + 1, NEW i \in About(k, m)' PROVE i \in 1..m
  BY <1>7 DEF About
<1>8. ASSUME NEW j \in 1..n, NEW k \in Keys, k = audit'[j].key
      PROVE  /\ About(k, j - 1)' = {} => audit'[j].old = Redact(k, Default)
             /\ \A i \in About(k, j - 1)' : About(k, i)' = About(k, j - 1)' =>
                  audit'[j].old = Redact(k, BaseOrPrev(audit'[i].new))
  <2>1. audit'[j] = audit[j] /\ k = audit[j].key /\ j - 1 \in 0..n /\ j \in DOMAIN audit
    BY <1>3, <1>8
  <2>2. About(k, j - 1)' = About(k, j - 1)
    BY <2>1, <1>5
  <2>3. ASSUME NEW i \in About(k, j - 1)
        PROVE  audit'[i] = audit[i] /\ About(k, i)' = About(k, i)
    <3>1. i \in 1..n
      BY <1>1 DEF About
    <3>2. QED
      BY <3>1, <2>1, <1>1, <1>3, <1>5
  <2>4. /\ About(k, j - 1) = {} => audit[j].old = Redact(k, Default)
        /\ \A i \in About(k, j - 1) : About(k, i) = About(k, j - 1) =>
             audit[j].old = Redact(k, BaseOrPrev(audit[i].new))
    BY <2>1 DEF AuditIsHistory
  <2>5. QED
    BY <2>1, <2>2, <2>3, <2>4
<1>9. /\ About(k0, n)' = {} => e.old = Redact(k0, Default)
      /\ \A i \in About(k0, n)' : About(k0, i)' = About(k0, n)' =>
           e.old = Redact(k0, BaseOrPrev(audit'[i].new))
  <2>1. About(k0, n)' = About(k0, n)
    BY <1>1, <1>5
  <2>2. About(k0, n) = {} => rows[k0] = None
    BY <1>1 DEF AuditIsHistory
  <2>3. ASSUME NEW i \in About(k0, n), About(k0, i)' = About(k0, n)'
        PROVE  e.old = Redact(k0, BaseOrPrev(audit'[i].new))
    <3>1. i \in 1..n
      BY <1>1 DEF About
    <3>2. About(k0, i) = About(k0, n) /\ audit'[i] = audit[i]
      BY <3>1, <2>1, <2>3, <1>1, <1>3, <1>5
    <3>3. audit[i].new = Redact(k0, rows[k0])
      BY <3>2, <1>1 DEF AuditIsHistory
    <3>4. QED
      BY <3>2, <3>3, <1>1, <1>4, RedactTwice
  <2>4. QED
    BY <2>1, <2>2, <2>3, <1>4 DEF BaseOrPrev
<1>10. ASSUME NEW k \in Keys
       PROVE  /\ About(k, n + 1)' = {} => rows'[k] = None
              /\ \A i \in About(k, n + 1)' : About(k, i)' = About(k, n + 1)' =>
                   audit'[i].new = Redact(k, rows'[k])
  <2>1. CASE k = k0
    <3>1. n + 1 \in About(k, n + 1)'
      BY <2>1, <1>6
    <3>2. ASSUME NEW i \in About(k, n + 1)', About(k, i)' = About(k, n + 1)'
          PROVE  i = n + 1
      <4>1. i \in 1..n + 1 /\ n + 1 \in About(k, i)'
        BY <3>1, <3>2, <1>1, <1>7
      <4>2. n + 1 \in 1..i
        BY <4>1, <1>1, <1>7
      <4>3. QED
        BY <4>1, <4>2, <1>1
    <3>3. QED
      BY <2>1, <3>1, <3>2, <1>3, <1>4
  <2>2. CASE k # k0
    <3>1. About(k, n + 1)' = About(k, n) /\ rows'[k] = rows[k]
      BY <2>2, <1>1, <1>2, <1>6
    <3>2. ASSUME NEW i \in About(k, n) PROVE About(k, i)' = About(k, i) /\ audit'[i] = audit[i]
      <4>1. i \in 1..n
        BY <1>1 DEF About
      <4>2. QED
        BY <4>1, <1>1, <1>3, <1>5
    <3>3. /\ About(k, n) = {} => rows[k] = None
          /\ \A i \in About(k, n) : About(k, i) = About(k, n) =>
               audit[i].new = Redact(k, rows[k])
      BY <1>1 DEF AuditIsHistory
    <3>4. QED
      BY <3>1, <3>2, <3>3
  <2>3. QED
    BY <2>1, <2>2
<1>11. ASSUME NEW j \in DOMAIN audit', NEW k, k = audit'[j].key
       PROVE  /\ About(k, j - 1)' = {} => audit'[j].old = Redact(k, Default)
              /\ \A i \in About(k, j - 1)' : About(k, i)' = About(k, j - 1)' =>
                   audit'[j].old = Redact(k, BaseOrPrev(audit'[i].new))
  <2>1. CASE j \in 1..n
    <3>1. audit'[j] = audit[j] /\ audit[j] \in Entry
      BY <2>1, <1>1, <1>3
    <3>2. k \in Keys
      BY <3>1, <1>11 DEF Entry
    <3>3. QED
      BY <3>2, <2>1, <1>8, <1>11
  <2>2. CASE j = n + 1
    <3>1. audit'[j] = e /\ j - 1 = n /\ k = k0
      BY <2>2, <1>1, <1>3, <1>4, <1>11
    <3>2. QED
      BY <3>1, <1>4, <1>9
  <2>3. QED
    BY <2>1, <2>2, <1>1, <1>3, <1>11
<1>12. QED
  <2>1. Len(audit') = n + 1
    BY <1>3
  <2>2. QED
    BY <2>1, <1>10, <1>11 DEF AuditIsHistory

\* Whatever overlaps, fails or is cut off by a restart, the audit log tells the
\* history of every key up to its row.
THEOREM AuditTellsHistory == Spec => []AuditIsHistory
<1> DEFINE Inv == PrevRead /\ AuditIsHistory
<1>1. Init => Inv
  BY DEF Init, PrevRead, AuditIsHistory, About, NoOverrides
<1>2. IndInv /\ Inv /\ [Next]_vars => AuditIsHistory'
  <2> SUFFICES ASSUME IndInv, Inv, [Next]_vars PROVE AuditIsHistory'
    OBVIOUS
  <2>1. ASSUME UNCHANGED <<rows, audit>> PROVE AuditIsHistory'
    BY <2>1 DEF AuditIsHistory, About
  <2>2. ASSUME NEW a \in Admins, Step(a) \/ Patch(a) \/ RollBack(a), ~Commit(a)
        PROVE  UNCHANGED <<rows, audit>>
    BY <2>2 DEF Step, Patch, Lock, Install, Reload, ShowEffective, RollBack, db
  <2>3. CASE Crash \/ UNCHANGED vars
    BY <2>1, <2>3 DEF Crash, vars, db
  <2>4. QED
    BY <2>1, <2>2, <2>3, CommitTells DEF Next, Step, Idle
<1>3. QED
  BY <1>1, <1>2, PrevStep, ConfigInvariance, PTL DEF Spec

-----------------------------------------------------------------------------
(***************************************************************************)
(* The mailer                                                              *)
(***************************************************************************)
\* Unless an edit has been overtaken, at most one edit is about to call the
\* listeners, with a snapshot that is up to date, and otherwise the mailer is.
Calling(a) == pc[a] = "notify"

MailLag ==
  ~overtaken =>
    /\ \A a, b \in Admins : Calling(a) /\ Calling(b) => a = b
    /\ \A a \in Admins : Calling(a) => EmailConfig(snap[a]) = EmailConfig(overrides)
    /\ (\A a \in Admins : ~Calling(a)) => EmailConfig(mail) = EmailConfig(overrides)

LEMMA SameMail ==
  ASSUME MailLag, \A a \in Admins : Calling(a)' <=> Calling(a),
         UNCHANGED <<overtaken, mail>>, EmailConfig(overrides)' = EmailConfig(overrides),
         \A a \in Admins : Calling(a) => snap'[a] = snap[a]
  PROVE  MailLag'
BY DEF MailLag, EmailConfig

LEMMA MailStep == IndInv /\ MailLag /\ [Next]_vars => MailLag'
<1> SUFFICES ASSUME IndInv, MailLag, [Next]_vars PROVE MailLag'
  OBVIOUS
<1>0. /\ pc \in [Admins -> PcSet] /\ snap \in [Admins -> Config] /\ overrides \in Config
      /\ edit \in [Admins -> Edit \cup {None}]
  BY DEF IndInv, TypeOK, PcSet
<1>1. ASSUME NEW a \in Admins,
             Patch(a) \/ Lock(a) \/ Commit(a) \/ RollBack(a) \/ ShowEffective(a)
      PROVE  MailLag'
  <2>1. /\ UNCHANGED <<mail, overrides, snap, overtaken>>
        /\ pc[a] # "notify" /\ pc'[a] # "notify" /\ \A b \in Admins \ {a} : pc'[b] = pc[b]
    BY <1>1, <1>0, GotoAt
    DEF Patch, Lock, Commit, RollBack, ShowEffective, service, env, Answers
  <2>2. QED
    BY <2>1, SameMail DEF EmailConfig, Calling
<1>2. ASSUME NEW a \in Admins, Install(a)
      PROVE  MailLag'
  <2>1. /\ snap' = [snap EXCEPT ![a] = overrides'] /\ UNCHANGED mail /\ ~Calling(a)
        /\ overrides' = [overrides EXCEPT ![edit[a].key] = edit[a].value]
        /\ \A b \in Admins \ {a} : Calling(b)' <=> Calling(b)
    BY <1>0, <1>2, GotoAt DEF Install, Call, Calling
  <2>2. CASE edit[a].key \in EmailKeys
    <3>1. Calling(a)' /\ overtaken' = \E b \in Admins \ {a} : Calling(b)
      BY <1>0, <1>2, <2>2, GotoAt DEF Install, Call, Calling
    <3>2. EmailConfig(snap[a])' = EmailConfig(overrides)'
      BY <1>0, <2>1 DEF EmailConfig
    <3>3. QED
      BY <2>1, <3>1, <3>2 DEF MailLag
  <2>3. CASE edit[a].key \notin EmailKeys
    <3>1. ~Calling(a)' /\ UNCHANGED overtaken
      BY <1>0, <1>2, <2>3, GotoAt DEF Install, Call, Calling
    <3>2. \A k \in EmailKeys : overrides'[k] = overrides[k]
      BY <1>0, <2>1, <2>3, KeysAssumption DEF Config
    <3>3. EmailConfig(overrides)' = EmailConfig(overrides)
      BY <3>2 DEF EmailConfig
    <3>4. \A b \in Admins : Calling(b) => snap'[b] = snap[b]
      BY <1>0, <2>1
    <3>5. QED
      BY <2>1, <3>1, <3>3, <3>4, SameMail
  <2>4. QED
    BY <2>2, <2>3
<1>3. ASSUME NEW a \in Admins, Reload(a)
      PROVE  MailLag'
  <2>1. /\ Calling(a) /\ mail' = snap[a] /\ UNCHANGED <<overrides, snap, overtaken>>
        /\ ~Calling(a)' /\ \A b \in Admins \ {a} : Calling(b)' <=> Calling(b)
    BY <1>3, <1>0, GotoAt DEF Reload, env, Calling
  <2>2. EmailConfig(mail)' = EmailConfig(snap[a]) /\ EmailConfig(overrides)' = EmailConfig(overrides)
    BY <2>1 DEF EmailConfig
  <2>3. ~overtaken =>
          /\ EmailConfig(snap[a]) = EmailConfig(overrides)
          /\ \A b \in Admins : ~Calling(b)'
    BY <2>1 DEF MailLag
  <2>4. QED
    BY <2>1, <2>2, <2>3 DEF MailLag
<1>4. CASE Crash
  <2>1. mail' = overrides' /\ \A a \in Admins : ~Calling(a)'
    BY <1>0, <1>4 DEF Crash, PcSet, Steps, Answers, Calling
  <2>2. QED
    BY <2>1 DEF MailLag, EmailConfig
<1>5. CASE UNCHANGED vars
  BY <1>5, SameMail DEF vars, service, env, EmailConfig, Calling
<1>6. QED
  BY <1>1, <1>2, <1>3, <1>4, <1>5 DEF Next, Step, Idle

\* The mailer is what the configuration says whenever no edit is under way,
\* after any failures and restarts, unless an edit has overtaken another one
\* between its unlock and its listeners.
THEOREM MailerFollowsEdits == Spec => []MailerFollows
<1>1. Init => MailLag
  BY DEF Init, MailLag, Calling, EmailConfig
<1>2. MailLag => MailerFollows
  BY DEF MailLag, MailerFollows, MailerIsCurrent, Settled, Steps, Calling
<1>3. QED
  BY <1>1, <1>2, MailStep, ConfigInvariance, PTL DEF Spec
=============================================================================
