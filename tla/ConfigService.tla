---------------------------- MODULE ConfigService ---------------------------
(***************************************************************************)
(* internal/configsvc and its subscriber, the mailer: AdminConfigPatch     *)
(* calls Set or Unset, which writes the row and the audit entry in one     *)
(* transaction, installs the override in memory, releases the mutex and    *)
(* then calls the listeners with the snapshot it took.                     *)
(***************************************************************************)
EXTENDS Naturals, Sequences

CONSTANTS
  Admins,         \* admins with an edit under way
  Keys,           \* editable keys
  EmailKeys,      \* the keys with the prefix "email.", to which the mailer subscribes
  SensitiveKeys,  \* keys whose values are hidden from answers and audit
  TextKeys,       \* keys of type string, for which the validator lets "" pass
  EnumKeys,       \* keys of type enum, for which it does not let null pass
  Values,         \* JSON values that every validator lets pass
  Default,        \* the value in config.yaml
  Null,           \* the JSON null
  Empty,          \* the JSON string ""
  None,           \* no row, no override, no edit
  Hidden,         \* "***"
  MaxEdits,       \* bound: requests
  MaxFaults,      \* bound: transactions that fail
  MaxCrashes      \* bound: restarts of the server

Raw == Values \cup {Null, Empty}

ASSUME KeysAssumption ==
  /\ EmailKeys \subseteq Keys /\ SensitiveKeys \subseteq Keys
  /\ TextKeys \subseteq Keys /\ EnumKeys \subseteq Keys \ TextKeys
ASSUME NoneAssumption == None \notin Admins \cup Raw \cup {Hidden}
                                      \cup [key : Keys, value : Raw \cup {None}]
ASSUME BoundsAssumption == {MaxEdits, MaxFaults, MaxCrashes} \subseteq Nat

VARIABLES
  rows,       \* table config_overrides
  audit,      \* table config_audit
  overrides,  \* Service.overrides
  mu,         \* holder of Service.mu for writing
  pc,         \* pc[a]: the next step of the request of a, or its answer
  edit,       \* edit[a]: key and new value (None: unset), None if nothing is asked
  prev,       \* prev[a]: the override that Set or Unset found
  snap,       \* snap[a]: the overrides the listeners of the edit will be given
  shown,      \* shown[a]: the overrides of the last Effective answered to a
  mail,       \* the overrides the mailer was built from
  overtaken,  \* history: when the last e-mail setting was installed, the
              \* listeners of another edit had not been called
  edits, faults, crashes

db      == <<rows, audit>>
service == <<overrides, mu, mail>>
env     == <<overtaken, edits, faults, crashes>>
vars    == <<db, service, pc, edit, prev, snap, shown, env>>

Config  == [Keys -> Raw \cup {None}]
Edit    == [key : Keys, value : Raw \cup {None}]
Entry   == [key : Keys, old : Raw \cup {Default, Hidden},
            new : Raw \cup {Hidden, None}]
Answers == {"ok", "refused", "failed", "lost"}
Steps   == {"lock", "commit", "install", "notify", "effective"}

TypeOK ==
  /\ rows \in Config
  /\ audit \in Seq(Entry)
  /\ overrides \in Config
  /\ mu \in Admins \cup {None}
  /\ pc \in [Admins -> {"idle"} \cup Steps \cup Answers]
  /\ edit \in [Admins -> Edit \cup {None}]
  /\ prev \in [Admins -> Raw \cup {None}]
  /\ snap \in [Admins -> Config]
  /\ shown \in [Admins -> Config \cup {None}]
  /\ mail \in Config
  /\ overtaken \in BOOLEAN
  /\ edits \in 0..MaxEdits /\ faults \in 0..MaxFaults /\ crashes \in 0..MaxCrashes

NoOverrides == [k \in Keys |-> None]

\* New reads an empty table, and NewLive builds the mailer from the snapshot.
Init ==
  /\ rows = NoOverrides
  /\ audit = <<>>
  /\ overrides = NoOverrides
  /\ mu = None
  /\ pc = [a \in Admins |-> "idle"]
  /\ edit = [a \in Admins |-> None]
  /\ prev = [a \in Admins |-> None]
  /\ snap = [a \in Admins |-> NoOverrides]
  /\ shown = [a \in Admins |-> None]
  /\ mail = NoOverrides
  /\ overtaken = FALSE
  /\ edits = 0 /\ faults = 0 /\ crashes = 0

-----------------------------------------------------------------------------
Goto(a, step) == pc' = [pc EXCEPT ![a] = step]

\* The value in force for an override: null decodes to "leave the default".
Effective(raw) == IF raw \in {None, Null} THEN Default ELSE raw

EmailConfig(conf) == [k \in EmailKeys |-> Effective(conf[k])]

\* What the audit log says of a value; an absent one stays absent.
Redact(k, raw) ==
  IF raw # None /\ k \in SensitiveKeys THEN Hidden ELSE raw

BaseOrPrev(raw) == IF raw = None THEN Default ELSE raw

\* Field.validate, for the values that are not plainly wrong.  Go decodes null
\* to the zero value, which is a text, a number in range and a truth value, but
\* no member of an enum.
Validate(k, raw) ==
  \/ raw \in Values
  \/ raw = Null /\ k \notin EnumKeys
  \/ raw = Empty /\ k \in TextKeys

\* AdminConfigPatch decodes the request.  An unknown or read-only key or a
\* value that does not validate is refused; an empty value for a sensitive key
\* means "keep".
Patch(a) ==
  /\ pc[a] \in {"idle"} \cup Answers
  /\ edits < MaxEdits
  /\ edits' = edits + 1
  /\ \/ /\ Goto(a, "refused")
        /\ UNCHANGED edit
     \/ /\ SensitiveKeys # {}
        /\ edit' = [edit EXCEPT ![a] = None]
        /\ Goto(a, "effective")
     \/ \E k \in Keys, v \in Raw \cup {None} :
          /\ ~(v = Empty /\ k \in SensitiveKeys)
          /\ v = None \/ Validate(k, v)
          /\ edit' = [edit EXCEPT ![a] = [key |-> k, value |-> v]]
          /\ Goto(a, "lock")
  /\ UNCHANGED <<db, service, prev, snap, shown, overtaken, faults, crashes>>

\* Faulty variant: the previous value is read before the mutex is taken.
LockLate(a) ==
  /\ pc[a] = "lock"
  /\ prev' = [prev EXCEPT ![a] = overrides[edit[a].key]]
  /\ \/ /\ edit[a].value = None /\ prev'[a] = None
        /\ Goto(a, "effective")
        /\ UNCHANGED mu
     \/ /\ ~(edit[a].value = None /\ prev'[a] = None)
        /\ Goto(a, "commit")
        /\ mu' = a
  /\ UNCHANGED <<db, overrides, mail, edit, snap, shown, env>>

\* Set and Unset take the mutex and look up the previous override.  Unset of a
\* key without one returns at once.
Lock(a) ==
  /\ pc[a] = "lock"
  /\ mu = None
  /\ prev' = [prev EXCEPT ![a] = overrides[edit[a].key]]
  /\ \/ /\ edit[a].value = None /\ prev'[a] = None
        /\ Goto(a, "effective")
        /\ UNCHANGED mu
     \/ /\ ~(edit[a].value = None /\ prev'[a] = None)
        /\ Goto(a, "commit")
        /\ mu' = a
  /\ UNCHANGED <<db, overrides, mail, edit, snap, shown, env>>

\* The transaction: upsert or delete the row, append the audit entry, commit.
Commit(a) ==
  /\ pc[a] = "commit"
  /\ LET k == edit[a].key
         v == edit[a].value
     IN /\ rows' = [rows EXCEPT ![k] = v]
        /\ audit' = Append(audit, [key |-> k, old |-> Redact(k, BaseOrPrev(prev[a])),
                                   new |-> Redact(k, v)])
  /\ Goto(a, "install")
  /\ UNCHANGED <<service, edit, prev, snap, shown, env>>

\* Faulty variant: a failed transaction leaves the mutex locked.
RollBackLocked(a) ==
  /\ pc[a] = "commit"
  /\ faults < MaxFaults
  /\ faults' = faults + 1
  /\ Goto(a, "failed")
  /\ UNCHANGED <<db, service, edit, prev, snap, shown, overtaken, edits, crashes>>

\* A statement or the commit fails; the handler answers 500.
RollBack(a) ==
  /\ pc[a] = "commit"
  /\ faults < MaxFaults
  /\ faults' = faults + 1
  /\ mu' = None
  /\ Goto(a, "failed")
  /\ UNCHANGED <<db, overrides, mail, edit, prev, snap, shown, overtaken, edits, crashes>>

\* Listeners whose prefix matches come next.
Call(a) ==
  IF edit[a].key \in EmailKeys
    THEN Goto(a, "notify") /\ overtaken' = \E b \in Admins \ {a} : pc[b] = "notify"
    ELSE Goto(a, "effective") /\ UNCHANGED overtaken

\* Faulty variant: the override is not removed from memory.
InstallSetOnly(a) ==
  /\ pc[a] = "install"
  /\ overrides' = IF edit[a].value = None THEN overrides
                  ELSE [overrides EXCEPT ![edit[a].key] = edit[a].value]
  /\ snap' = [snap EXCEPT ![a] = overrides']
  /\ mu' = None
  /\ Call(a)
  /\ UNCHANGED <<db, mail, edit, prev, shown, edits, faults, crashes>>

\* Faulty variant: the snapshot is taken before the override is installed.
InstallStaleSnapshot(a) ==
  /\ pc[a] = "install"
  /\ overrides' = [overrides EXCEPT ![edit[a].key] = edit[a].value]
  /\ snap' = [snap EXCEPT ![a] = overrides]
  /\ mu' = None
  /\ Call(a)
  /\ UNCHANGED <<db, mail, edit, prev, shown, edits, faults, crashes>>

\* The override is installed in memory, the snapshot taken and the mutex
\* released.
Install(a) ==
  /\ pc[a] = "install"
  /\ overrides' = [overrides EXCEPT ![edit[a].key] = edit[a].value]
  /\ snap' = [snap EXCEPT ![a] = overrides']
  /\ mu' = None
  /\ Call(a)
  /\ UNCHANGED <<db, mail, edit, prev, shown, edits, faults, crashes>>

\* The listener of main.go: mail.Reload(snap.Email), outside the mutex.
Reload(a) ==
  /\ pc[a] = "notify"
  /\ mail' = snap[a]
  /\ Goto(a, "effective")
  /\ UNCHANGED <<db, overrides, mu, edit, prev, snap, shown, env>>

\* Faulty variant: the answer is built without the read lock.
ShowEffectiveUnlocked(a) ==
  /\ pc[a] = "effective"
  /\ shown' = [shown EXCEPT ![a] = overrides]
  /\ Goto(a, "ok")
  /\ UNCHANGED <<db, service, edit, prev, snap, env>>

\* AdminConfigPatch answers with Effective, which takes the read lock.
ShowEffective(a) ==
  /\ pc[a] = "effective"
  /\ mu = None
  /\ shown' = [shown EXCEPT ![a] = overrides]
  /\ Goto(a, "ok")
  /\ UNCHANGED <<db, service, edit, prev, snap, env>>

\* The process stops and starts: New loads the rows, NewLive the snapshot.
Crash ==
  /\ crashes < MaxCrashes
  /\ crashes' = crashes + 1
  /\ overrides' = rows
  /\ mail' = rows
  /\ mu' = None
  /\ pc' = [a \in Admins |-> IF pc[a] \in Steps THEN "lost" ELSE pc[a]]
  /\ UNCHANGED <<db, edit, prev, snap, shown, overtaken, edits, faults>>

Step(a) ==
  Lock(a) \/ Commit(a) \/ Install(a) \/ Reload(a) \/ ShowEffective(a)

\* All requests have been answered and no more will come.
Idle ==
  /\ edits = MaxEdits
  /\ \A a \in Admins : pc[a] \in {"idle"} \cup Answers
  /\ UNCHANGED vars

Next ==
  \/ \E a \in Admins : Patch(a) \/ Step(a) \/ RollBack(a)
  \/ Crash
  \/ Idle

Spec == Init /\ [][Next]_vars

\* Handlers run to their return; the mutex is handed to its waiters.
FairSpec == Spec /\ \A a \in Admins : WF_vars(Step(a))

-----------------------------------------------------------------------------
(***************************************************************************)
(* The inductive invariant                                                 *)
(***************************************************************************)
EditShape == \A a \in Admins : pc[a] \in Steps \ {"effective"} => edit[a] \in Edit

Exclusive == \A a \in Admins : mu = a <=> pc[a] \in {"commit", "install"}

\* Memory is behind the table by the edit that is about to be installed.
Lag ==
  /\ (\A a \in Admins : pc[a] # "install") => overrides = rows
  /\ \A a \in Admins : pc[a] = "install" =>
        rows = [overrides EXCEPT ![edit[a].key] = edit[a].value]

IndInv == TypeOK /\ EditShape /\ Exclusive /\ Lag

-----------------------------------------------------------------------------
(***************************************************************************)
(* Properties                                                              *)
(***************************************************************************)
\* Whenever nobody is between Lock and Unlock, memory and table agree, also
\* after failed transactions and restarts.
MemoryIsRows == mu = None => overrides = rows

\* The audit log tells the history of the table: an entry starts from what the
\* entry before it about the same key ended with, or from the default, and the
\* last one ends with what is in the row.
About(k, n) == {i \in 1..n : audit[i].key = k}

AuditIsHistory ==
  /\ \A j \in DOMAIN audit : LET k == audit[j].key IN
       /\ About(k, j - 1) = {} => audit[j].old = Redact(k, Default)
       /\ \A i \in About(k, j - 1) : About(k, i) = About(k, j - 1) =>
            audit[j].old = Redact(k, BaseOrPrev(audit[i].new))
  /\ \A k \in Keys :
       /\ About(k, Len(audit)) = {} => rows[k] = None
       /\ \A i \in About(k, Len(audit)) : About(k, i) = About(k, Len(audit)) =>
            audit[i].new = Redact(k, rows[k])

Settled == \A a \in Admins : pc[a] \notin Steps

\* Callers of the mailer "always see the latest behaviour" (mailer.go:33)
\* whenever no edit is under way.  It fails: the listeners are called after the
\* unlock (configsvc.go:166-171), and of two edits that overlap the one with the
\* older snapshot may reach the mailer last.
MailerIsCurrent == Settled => EmailConfig(mail) = EmailConfig(overrides)

\* Nothing else keeps the mailer behind: it is current once every edit has been
\* answered, after any failures and restarts, unless the last e-mail setting was
\* installed between the unlock and the listeners of another edit.
MailerFollows == ~overtaken => MailerIsCurrent

\* Every edit is answered.
EveryEditAnswered == \A a \in Admins : pc[a] \in Steps ~> pc[a] \in Answers

\* An edit takes effect with the commit of its transaction.
Phase(step) == CASE step \in {"lock", "commit"} -> "waiting"
                 [] step \in {"install", "notify", "effective"} -> "applied"
                 [] OTHER -> step

EditState == [a \in Admins |-> Phase(pc[a])]

Atomic == INSTANCE AtomicConfig WITH conf <- rows, state <- EditState

\* Editing the configuration is atomic: between commit and installation nobody
\* reads a configuration that is neither the old nor the new one.
AtomicEdits == Atomic!Spec
=============================================================================
