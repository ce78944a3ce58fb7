------------------------------ MODULE Startup ------------------------------
(***************************************************************************)
(* From the command line to ListenAndServe: cmd/steelpage/main.go with     *)
(* internal/db.  A server opens the database, applies the migration files  *)
(* that are not recorded, each with its record in one transaction, wires   *)
(* the services, indexes, creates the first admin and binds its port.      *)
(* Nothing keeps a second server from starting on the same database until  *)
(* it fails to bind, and the supervisor starts again what has stopped.     *)
(***************************************************************************)
EXTENDS Naturals

CONSTANTS
  Servers,     \* processes that share the database and the port
  NumFiles,    \* the migration files are 1..NumFiles
  Repeatable,  \* files that say IF NOT EXISTS everywhere
  Rebuild,     \* the file that copies users into a new table (003)
  Ids,         \* rows of the table users
  Emails,
  Bootstrap,   \* the address in STEELPAGE_BOOTSTRAP_ADMIN, or Nil
  Nil,
  MaxErrors,   \* bound: calls that fail
  MaxKills     \* bound: servers killed

Files == 1..NumFiles

ASSUME FilesAssumption ==
  NumFiles \in Nat /\ Rebuild \in Files /\ Repeatable \subseteq Files \ {Rebuild}
ASSUME BootstrapAssumption == Bootstrap \in Emails \cup {Nil}
ASSUME NilAssumption == Nil \notin Emails \cup Servers
ASSUME StartBounds == {MaxErrors, MaxKills} \subseteq Nat

VARIABLES
  disk,      \* what is committed: schema, recorded, users, commented
  tx,        \* the open write transaction: its server and what it sees
  stage,     \* stage[s]: the next call of server s
  todo,      \* todo[s]: the files that s found unrecorded and has not applied
  missed,    \* missed[s]: a query of bootstrapAdmin failed
  deposed,   \* history: the last admin has been demoted
  errors, kills

startupVars == <<disk, tx, stage, todo, missed, deposed, errors, kills>>

Migrating == {"apply", "record", "commit"}
Bootstrapping == {"lookup", "create"}
Started == {"listen", "serving"}
Account == [email : Emails \cup {Nil}, admin : BOOLEAN]
Accounts == UNION {[ids -> Account] : ids \in SUBSET Ids}
Database == [schema : SUBSET Files, recorded : SUBSET Files,
             users : Accounts, commented : BOOLEAN]

StartupTypeOK ==
  /\ disk \in Database
  /\ tx \in [server : Servers \cup {Nil}, disk : Database]
  /\ stage \in [Servers -> {"down", "open", "wire", "index"} \cup Migrating
                          \cup Bootstrapping \cup Started]
  /\ todo \in [Servers -> SUBSET Files]
  /\ missed \in [Servers -> BOOLEAN]
  /\ deposed \in BOOLEAN
  /\ errors \in 0..MaxErrors /\ kills \in 0..MaxKills

AdminIds(users) == {i \in DOMAIN users : users[i].admin}
Taken(users, email) == \E i \in DOMAIN users : users[i].email = email
Prefixes == {1..k : k \in 0..NumFiles}
NoAccounts == [i \in {} |-> Nil]
NoTx == [server |-> Nil,
         disk |-> [schema |-> {}, recorded |-> {}, users |-> NoAccounts, commented |-> FALSE]]

\* A database of an earlier release, or a new one.  Before Rebuild the table
\* users has no e-mail addresses and no roles.
StartupInit ==
  /\ disk \in {d \in Database :
        /\ d.schema \in Prefixes /\ d.recorded = d.schema
        /\ d.schema = {} => d.users = NoAccounts
        /\ d.users = NoAccounts => ~d.commented
        /\ DOMAIN d.users # Ids
        /\ \A i, j \in DOMAIN d.users :
             /\ Rebuild \notin d.schema => d.users[i].email = Nil /\ ~d.users[i].admin
             /\ d.users[i].email = d.users[j].email => i = j \/ d.users[i].email = Nil}
  /\ tx = NoTx
  /\ stage = [s \in Servers |-> "down"]
  /\ todo = [s \in Servers |-> {}]
  /\ missed = [s \in Servers |-> FALSE]
  /\ deposed = FALSE
  /\ errors = 0 /\ kills = 0

-----------------------------------------------------------------------------
Proceed(s, call) == stage' = [stage EXCEPT ![s] = call]
EndTx(s) == tx' = IF tx.server = s THEN NoTx ELSE tx
Exit(s) == Proceed(s, "down") /\ EndTx(s)
WriterFree == tx.server = Nil
Least(files) == CHOOSE v \in files : \A w \in files : v <= w

\* What the statements of a file make of the database, and when one of them
\* fails: DROP TABLE users while comments refer to its rows, or CREATE and
\* ALTER TABLE of what is there.  Rebuild copies ids and names, nothing else.
BodyFails(v, d) ==
  \/ v = Rebuild /\ d.commented
  \/ v \in d.schema \ Repeatable

Body(v, d) ==
  [d EXCEPT !.schema = @ \cup {v},
            !.users = IF v = Rebuild
                      THEN [i \in DOMAIN @ |-> [email |-> Nil, admin |-> FALSE]]
                      ELSE @]

\* config.Load and db.Open.
Load(s) ==
  /\ stage[s] = "down"
  /\ Proceed(s, "open")
  /\ missed' = [missed EXCEPT ![s] = FALSE]
  /\ UNCHANGED <<disk, tx, todo, deposed, errors, kills>>

\* Faulty variant: the map of applied files stays empty.
LoadAppliedNothing(s) ==
  /\ stage[s] = "open"
  /\ todo' = [todo EXCEPT ![s] = Files]
  /\ Proceed(s, "apply")
  /\ UNCHANGED <<disk, tx, missed, deposed, errors, kills>>

\* Migrate reads the recorded versions once, before the loop.
LoadApplied(s) ==
  /\ stage[s] = "open"
  /\ todo' = [todo EXCEPT ![s] = Files \ disk.recorded]
  /\ Proceed(s, "apply")
  /\ UNCHANGED <<disk, tx, missed, deposed, errors, kills>>

\* Faulty variant: the statements run outside the transaction.
ApplyBodyDirectly(s) ==
  LET v == Least(todo[s]) IN
  /\ stage[s] = "apply" /\ todo[s] # {}
  /\ WriterFree
  /\ disk' = Body(v, disk)
  /\ IF BodyFails(v, disk)
     THEN Exit(s)
     ELSE tx' = [server |-> s, disk |-> Body(v, disk)] /\ Proceed(s, "record")
  /\ UNCHANGED <<todo, missed, deposed, errors, kills>>

\* Faulty variant: a file that fails is logged, and the loop goes on.
ApplyBodyOrSkip(s) ==
  LET v == Least(todo[s]) IN
  /\ stage[s] = "apply" /\ todo[s] # {}
  /\ WriterFree
  /\ IF BodyFails(v, disk)
     THEN todo' = [todo EXCEPT ![s] = @ \ {v}] /\ UNCHANGED <<tx, stage>>
     ELSE tx' = [server |-> s, disk |-> Body(v, disk)] /\ Proceed(s, "record") /\ UNCHANGED todo
  /\ UNCHANGED <<disk, missed, deposed, errors, kills>>

\* applyOne: Begin and the statements of the file.  SQLite admits one writer.
ApplyBody(s) ==
  LET v == Least(todo[s]) IN
  /\ stage[s] = "apply" /\ todo[s] # {}
  /\ WriterFree
  /\ IF BodyFails(v, disk)
     THEN Exit(s)
     ELSE tx' = [server |-> s, disk |-> Body(v, disk)] /\ Proceed(s, "record")
  /\ UNCHANGED <<disk, todo, missed, deposed, errors, kills>>

\* INSERT INTO schema_migrations: the version is the primary key.
Record(s) ==
  LET v == Least(todo[s]) IN
  /\ stage[s] = "record"
  /\ IF v \in tx.disk.recorded
     THEN Exit(s)
     ELSE tx' = [tx EXCEPT !.disk.recorded = @ \cup {v}] /\ Proceed(s, "commit")
  /\ UNCHANGED <<disk, todo, missed, deposed, errors, kills>>

CommitFile(s) ==
  /\ stage[s] = "commit"
  /\ disk' = tx.disk
  /\ EndTx(s)
  /\ todo' = [todo EXCEPT ![s] = @ \ {Least(@)}]
  /\ Proceed(s, "apply")
  /\ UNCHANGED <<missed, deposed, errors, kills>>

Migrated(s) ==
  /\ stage[s] = "apply" /\ todo[s] = {}
  /\ Proceed(s, "wire")
  /\ UNCHANGED <<disk, tx, todo, missed, deposed, errors, kills>>

\* The identity provider, the stores and configsvc.New.
Wire(s) ==
  /\ stage[s] = "wire"
  /\ Proceed(s, "index")
  /\ UNCHANGED <<disk, tx, todo, missed, deposed, errors, kills>>

\* IndexAll, whose failure is logged.  The index itself is in DocPipeline.
IndexAll(s) ==
  /\ stage[s] = "index"
  /\ Proceed(s, "lookup")
  /\ UNCHANGED <<disk, tx, todo, missed, deposed, errors, kills>>

\* Faulty variant: an account of any role counts as the admin.
AnyAdminAnyRole(s) ==
  /\ stage[s] = "lookup"
  /\ Proceed(s, IF Bootstrap = Nil \/ DOMAIN disk.users # {} THEN "listen" ELSE "create")
  /\ UNCHANGED <<disk, tx, todo, missed, deposed, errors, kills>>

\* Faulty variant: an account of another address does not count.
AnyAdminOfAddress(s) ==
  /\ stage[s] = "lookup"
  /\ Proceed(s, IF Bootstrap = Nil \/ Taken(disk.users, Bootstrap) THEN "listen" ELSE "create")
  /\ UNCHANGED <<disk, tx, todo, missed, deposed, errors, kills>>

\* bootstrapAdmin: is there an admin?
AnyAdmin(s) ==
  /\ stage[s] = "lookup"
  /\ Proceed(s, IF Bootstrap = Nil \/ AdminIds(disk.users) # {} THEN "listen" ELSE "create")
  /\ UNCHANGED <<disk, tx, todo, missed, deposed, errors, kills>>

Insert(email, admin) ==
  \E i \in Ids \ DOMAIN disk.users :
    disk' = [disk EXCEPT !.users = [j \in DOMAIN @ \cup {i} |->
               IF j = i THEN [email |-> email, admin |-> admin] ELSE @[j]]]

\* bootstrapAdmin after the hash: CreateLocal, in which the unique index on
\* the address decides.  An address that is taken is only logged.
CreateAdmin(s) ==
  /\ stage[s] = "create"
  /\ WriterFree
  /\ IF Taken(disk.users, Bootstrap) THEN UNCHANGED disk ELSE Insert(Bootstrap, TRUE)
  /\ Proceed(s, "listen")
  /\ UNCHANGED <<tx, todo, missed, deposed, errors, kills>>

\* ListenAndServe: a port that is in use ends the process.
Listen(s) ==
  /\ stage[s] = "listen"
  /\ IF \E r \in Servers : stage[r] = "serving"
     THEN Exit(s)
     ELSE Proceed(s, "serving") /\ UNCHANGED tx
  /\ UNCHANGED <<disk, todo, missed, deposed, errors, kills>>

\* A call fails.  Most are fatal; bootstrapAdmin and IndexAll are logged.
Fails(s) ==
  /\ errors < MaxErrors
  /\ errors' = errors + 1
  /\ \/ /\ stage[s] \in {"open", "wire", "listen"} \cup Migrating
        /\ Exit(s)
        /\ UNCHANGED missed
     \/ /\ stage[s] \in Bootstrapping
        /\ Proceed(s, "listen")
        /\ missed' = [missed EXCEPT ![s] = TRUE]
        /\ UNCHANGED tx
  /\ UNCHANGED <<disk, todo, deposed, kills>>

\* The process is killed; SQLite rolls back what it had open.
Kill(s) ==
  /\ stage[s] # "down"
  /\ kills < MaxKills
  /\ kills' = kills + 1
  /\ Exit(s)
  /\ UNCHANGED <<disk, todo, missed, deposed, errors>>

\* Requests to a server that serves: a sign-up (bound: one row stays free for
\* bootstrapAdmin), and an admin's SetRole.
Register(s) ==
  /\ stage[s] = "serving" /\ WriterFree
  /\ \A i \in Ids \ DOMAIN disk.users : DOMAIN disk.users \cup {i} # Ids
  /\ \E email \in Emails :
       ~Taken(disk.users, email) /\ Insert(email, FALSE)
  /\ UNCHANGED <<tx, stage, todo, missed, deposed, errors, kills>>

SetRole(s) ==
  /\ stage[s] = "serving" /\ WriterFree
  /\ AdminIds(disk.users) # {}
  /\ \E i \in DOMAIN disk.users, admin \in BOOLEAN :
       disk' = [disk EXCEPT !.users[i].admin = admin]
  /\ deposed' = (deposed \/ AdminIds(disk'.users) = {})
  /\ UNCHANGED <<tx, stage, todo, missed, errors, kills>>

StartStep(s) ==
  \/ Load(s) \/ LoadApplied(s) \/ ApplyBody(s) \/ Record(s) \/ CommitFile(s)
  \/ Migrated(s) \/ Wire(s) \/ IndexAll(s) \/ AnyAdmin(s) \/ CreateAdmin(s)
  \/ Listen(s)

StartupNext ==
  \E s \in Servers : StartStep(s) \/ Fails(s) \/ Kill(s) \/ Register(s) \/ SetRole(s)

StartupSpec == StartupInit /\ [][StartupNext]_startupVars

\* The calls of a start return, and the supervisor starts a server that has
\* exited again (Restart=on-failure in scripts/install.sh).
StartupFairSpec == StartupSpec /\ \A s \in Servers : WF_startupVars(StartStep(s))

-----------------------------------------------------------------------------
\* What a transaction holds follows from what is committed: nobody else
\* writes meanwhile.
TxFits ==
  \A s \in Servers :
    /\ tx.server = s <=> stage[s] \in {"record", "commit"}
    /\ tx.server = s =>
         LET v == Least(todo[s]) IN
         /\ todo[s] # {} /\ ~BodyFails(v, disk)
         /\ tx.disk = IF stage[s] = "record" THEN Body(v, disk)
                      ELSE [Body(v, disk) EXCEPT !.recorded = @ \cup {v}]
         /\ stage[s] = "commit" => v \notin disk.recorded

\* A server between loadApplied and the end of the loop has the last files
\* before it, and those before them are recorded; past the loop all are.
TodoCovers ==
  \A s \in Servers :
    /\ stage[s] \in Migrating =>
         \E v \in 1..NumFiles + 1 : todo[s] = v..NumFiles /\ 1..v - 1 \subseteq disk.recorded
    /\ stage[s] \in {"wire", "index"} \cup Bootstrapping \cup Started => disk.recorded = Files

\* Before Rebuild there is nothing in users that it could lose.
NothingToLose ==
  Rebuild \notin disk.recorded =>
    \A i \in DOMAIN disk.users : disk.users[i].email = Nil /\ ~disk.users[i].admin

\* A server that found no admin finds the address taken if there is one now.
StaleLookup ==
  \A s \in Servers : stage[s] = "create" =>
    Bootstrap # Nil /\ (AdminIds(disk.users) = {} \/ Taken(disk.users, Bootstrap))

\* The schema is what the records say, and no file is skipped: of two servers
\* that migrate at once, killed at any point, none applies a file twice or
\* without its record (applyOne).
SchemaIsRecorded == disk.schema = disk.recorded /\ disk.recorded \in Prefixes

\* The inductive invariant.
StartupInv ==
  StartupTypeOK /\ TxFits /\ TodoCovers /\ NothingToLose /\ StaleLookup /\ SchemaIsRecorded

\* Whoever serves has every table and column its queries name, also when it
\* was another server that migrated (main).
ServingIsMigrated ==
  \A s \in Servers : stage[s] = "serving" => disk.schema = Files

\* No start takes an account or its address away, although one file drops the
\* table users and copies only ids and names (003_auth_groups.sql).
AccountsSurvive ==
  [][\A i \in DOMAIN disk.users :
       i \in DOMAIN disk'.users /\ disk'.users[i].email = disk.users[i].email]_startupVars

\* STEELPAGE_BOOTSTRAP_ADMIN is a no-op once there is an admin (README.md:137):
\* two servers that both saw none do not create two.
NoSecondAdmin ==
  [][\A i \in Ids : (i \in DOMAIN disk'.users \ DOMAIN disk.users /\ disk'.users[i].admin)
       => AdminIds(disk.users) = {}]_startupVars

\* Behind a server whose bootstrapAdmin had no error there is an admin, unless
\* an ordinary account has the address or the last admin was demoted later.
AdminAfterStart ==
  \A s \in Servers : (stage[s] \in Started /\ ~missed[s] /\ Bootstrap # Nil) =>
    AdminIds(disk.users) # {} \/ Taken(disk.users, Bootstrap) \/ deposed

\* After the last kill and failure somebody serves, and goes on serving:
\* servers that get in each other's way while migrating start again, and find
\* more of it done.  Excepted is a database whose comments keep Rebuild from
\* dropping users.
SomebodyServes ==
  ~(disk.commented /\ Rebuild \notin disk.recorded)
    => <>[](\E s \in Servers : stage[s] = "serving")
=============================================================================
