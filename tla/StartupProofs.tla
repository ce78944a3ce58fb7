--------------------------- MODULE StartupProofs ---------------------------
(***************************************************************************)
(* Proofs about Startup, for any number of servers, migration files and    *)
(* accounts, and any failures and kills.                                   *)
(***************************************************************************)
EXTENDS Startup, TLAPS

Calls == {"down", "open", "wire", "index"} \cup Migrating \cup Bootstrapping \cup Started

\* The step of one server leaves the others where they are.
OneMoves(s) ==
  /\ stage' \in [Servers -> Calls] /\ todo' \in [Servers -> SUBSET Files]
  /\ \A r \in Servers \ {s} : stage'[r] = stage[r] /\ todo'[r] = todo[r]

\* The four ways in which the database changes.
CommitOf(s) ==
  LET v == Least(todo[s]) IN
  /\ stage[s] = "commit" /\ todo[s] # {} /\ ~BodyFails(v, disk) /\ v \notin disk.recorded
  /\ disk' = [Body(v, disk) EXCEPT !.recorded = @ \cup {v}]

InsertOf(s) ==
  /\ stage[s] \in {"create", "serving"} /\ WriterFree
  /\ \E i \in Ids \ DOMAIN disk.users, email \in Emails, admin \in BOOLEAN :
       /\ ~Taken(disk.users, email)
       /\ admin => stage[s] = "create" /\ email = Bootstrap
       /\ disk' = [disk EXCEPT !.users = [j \in DOMAIN @ \cup {i} |->
                     IF j = i THEN [email |-> email, admin |-> admin] ELSE @[j]]]

RoleOf(s) ==
  /\ stage[s] = "serving" /\ WriterFree /\ AdminIds(disk.users) # {}
  /\ \E i \in DOMAIN disk.users, admin \in BOOLEAN :
       disk' = [disk EXCEPT !.users[i].admin = admin]
  /\ deposed' = (deposed \/ AdminIds(disk'.users) = {})

DiskMoves(s) == disk' = disk \/ CommitOf(s) \/ InsertOf(s) \/ RoleOf(s)

ServerStep(s) == StartStep(s) \/ Fails(s) \/ Kill(s) \/ Register(s) \/ SetRole(s)

USE DEF Files

-----------------------------------------------------------------------------
LEMMA LeastOfRest ==
  ASSUME NEW v \in 1..NumFiles
  PROVE  Least(v..NumFiles) = v
<1>1. v \in v..NumFiles /\ \A w \in v..NumFiles : v <= w
  BY FilesAssumption
<1>2. \A u \in v..NumFiles : (\A w \in v..NumFiles : u <= w) => u = v
  BY FilesAssumption
<1>3. QED
  BY <1>1, <1>2 DEF Least

\* What a migrating server has before it are the files from the next one on.
LEMMA NextFile ==
  ASSUME StartupInv, NEW s \in Servers, stage[s] \in Migrating, todo[s] # {}
  PROVE  LET v == Least(todo[s]) IN
         v \in 1..NumFiles /\ todo[s] = v..NumFiles /\ 1..v - 1 \subseteq disk.recorded
<1>1. PICK v \in 1..NumFiles + 1 : todo[s] = v..NumFiles /\ 1..v - 1 \subseteq disk.recorded
  BY DEF StartupInv, TodoCovers
<1>2. v \in 1..NumFiles
  BY <1>1, FilesAssumption
<1>3. QED
  BY <1>1, <1>2, LeastOfRest

LEMMA BodyType ==
  ASSUME NEW d \in Database, NEW v \in Files
  PROVE  Body(v, d) \in Database /\ [Body(v, d) EXCEPT !.recorded = @ \cup {v}] \in Database
<1>1. ASSUME NEW users \in Accounts
      PROVE  [i \in DOMAIN users |-> [email |-> Nil, admin |-> FALSE]] \in Accounts
  BY DEF Accounts, Account
<1>2. QED
  BY <1>1 DEF Body, Database

LEMMA InsertType ==
  ASSUME NEW d \in Database, NEW i \in Ids, NEW email \in Emails, NEW admin \in BOOLEAN
  PROVE  [d EXCEPT !.users = [j \in DOMAIN @ \cup {i} |->
            IF j = i THEN [email |-> email, admin |-> admin] ELSE @[j]]] \in Database
<1>1. PICK ids \in SUBSET Ids : d.users \in [ids -> Account]
  BY DEF Database, Accounts
<1>2. [j \in DOMAIN d.users \cup {i} |->
         IF j = i THEN [email |-> email, admin |-> admin] ELSE d.users[j]]
      \in [ids \cup {i} -> Account]
  BY <1>1 DEF Account
<1>3. [j \in DOMAIN d.users \cup {i} |->
         IF j = i THEN [email |-> email, admin |-> admin] ELSE d.users[j]] \in Accounts
  BY <1>2 DEF Accounts
<1>4. QED
  BY <1>3 DEF Database

LEMMA RoleType ==
  ASSUME NEW d \in Database, NEW i \in DOMAIN d.users, NEW admin \in BOOLEAN
  PROVE  [d EXCEPT !.users[i].admin = admin] \in Database
<1>1. PICK ids \in SUBSET Ids : d.users \in [ids -> Account]
  BY DEF Database, Accounts
<1>2. [d.users EXCEPT ![i].admin = admin] \in [ids -> Account]
  BY <1>1 DEF Account
<1>3. [d.users EXCEPT ![i].admin = admin] \in Accounts
  BY <1>2 DEF Accounts
<1>4. QED
  BY <1>3 DEF Database

LEMMA BlankType == NoTx \in [server : {Nil}, disk : Database]
<1>1. NoAccounts \in [{} -> Account]
  BY DEF NoAccounts
<1>2. NoAccounts \in Accounts
  BY <1>1 DEF Accounts
<1>3. QED
  BY <1>2 DEF NoTx, Database

-----------------------------------------------------------------------------
LEMMA InitHolds == StartupInit => StartupInv
<1> SUFFICES ASSUME StartupInit PROVE StartupInv
  OBVIOUS
<1> USE DEF StartupInit
<1>1. StartupTypeOK
  <2>1. disk \in Database
    OBVIOUS
  <2>2. tx \in [server : Servers \cup {Nil}, disk : Database]
    BY BlankType
  <2>3. errors \in 0..MaxErrors /\ kills \in 0..MaxKills
    BY StartBounds
  <2>4. QED
    BY <2>1, <2>2, <2>3 DEF StartupTypeOK
<1>2. TxFits
  BY NilAssumption DEF TxFits, NoTx
<1>3. TodoCovers
  BY DEF TodoCovers, Migrating, Bootstrapping, Started
<1>4. NothingToLose
  BY <1>1 DEF NothingToLose
<1>5. StaleLookup
  BY DEF StaleLookup
<1>6. SchemaIsRecorded
  BY DEF SchemaIsRecorded
<1>7. QED
  BY <1>1, <1>2, <1>3, <1>4, <1>5, <1>6 DEF StartupInv

LEMMA OneServer ==
  ASSUME StartupInv, NEW s \in Servers, ServerStep(s)
  PROVE  OneMoves(s)
<1> USE DEF OneMoves, Calls, Migrating, Bootstrapping, Started, Proceed, Exit
<1>1. StartupTypeOK
  BY DEF StartupInv
<1>2. CASE LoadApplied(s)
  BY <1>1, <1>2 DEF StartupTypeOK, LoadApplied
<1>3. CASE CommitFile(s)
  BY <1>1, <1>3 DEF StartupTypeOK, CommitFile
<1>4. CASE Load(s) \/ ApplyBody(s) \/ Record(s) \/ Migrated(s)
  BY <1>1, <1>4 DEF StartupTypeOK, Load, ApplyBody, Record, Migrated
<1>5. CASE Wire(s) \/ IndexAll(s) \/ AnyAdmin(s) \/ CreateAdmin(s) \/ Listen(s)
  BY <1>1, <1>5 DEF StartupTypeOK, Wire, IndexAll, AnyAdmin, CreateAdmin, Listen
<1>6. CASE Fails(s) \/ Kill(s) \/ Register(s) \/ SetRole(s)
  BY <1>1, <1>6 DEF StartupTypeOK, Fails, Kill, Register, SetRole
<1>7. QED
  BY <1>2, <1>3, <1>4, <1>5, <1>6 DEF ServerStep, StartStep

LEMMA DiskStep ==
  ASSUME StartupInv, NEW s \in Servers, ServerStep(s)
  PROVE  DiskMoves(s)
<1> USE DEF DiskMoves
<1>1. StartupTypeOK /\ TxFits /\ StaleLookup
  BY DEF StartupInv
<1>2. CASE CommitFile(s)
  <2>1. tx.server = s /\ disk' = tx.disk
    BY <1>1, <1>2 DEF CommitFile, TxFits
  <2>2. QED
    BY <1>1, <1>2, <2>1 DEF CommitFile, TxFits, CommitOf
<1>3. CASE CreateAdmin(s)
  BY <1>1, <1>3, BootstrapAssumption DEF CreateAdmin, Insert, InsertOf, StaleLookup
<1>4. CASE Register(s)
  BY <1>4 DEF Register, Insert, InsertOf
<1>5. CASE SetRole(s)
  BY <1>5 DEF SetRole, RoleOf
<1>6. CASE disk' = disk
  BY <1>6
<1>7. QED
  BY <1>2, <1>3, <1>4, <1>5, <1>6
  DEF ServerStep, StartStep, Load, LoadApplied, ApplyBody, Record, Migrated, Wire, IndexAll,
      AnyAdmin, Listen, Fails, Kill

-----------------------------------------------------------------------------
\* The database a commit leaves behind.
LEMMA CommitAdvances ==
  ASSUME StartupInv, NEW s \in Servers, CommitOf(s)
  PROVE  LET v == Least(todo[s]) IN
         /\ v \in 1..NumFiles /\ disk.recorded = 1..v - 1
         /\ disk'.recorded = 1..v /\ disk'.schema = 1..v
         /\ disk'.commented = disk.commented
         /\ v # Rebuild => disk'.users = disk.users
<1> DEFINE v == Least(todo[s])
<1> HIDE DEF v
<1>1. StartupTypeOK /\ SchemaIsRecorded
  BY DEF StartupInv
<1>2. v \in 1..NumFiles /\ 1..v - 1 \subseteq disk.recorded /\ v \notin disk.recorded
  BY NextFile DEF CommitOf, Migrating, v
<1>3. PICK k \in 0..NumFiles : disk.recorded = 1..k
  BY <1>1 DEF SchemaIsRecorded, Prefixes
<1>4. k = v - 1
  BY <1>2, <1>3, FilesAssumption
<1>5. disk' = [Body(v, disk) EXCEPT !.recorded = @ \cup {v}]
  BY DEF CommitOf, v
<1>6. /\ disk'.recorded = 1..k \cup {v} /\ disk'.schema = 1..k \cup {v}
      /\ disk'.commented = disk.commented /\ (v # Rebuild => disk'.users = disk.users)
  BY <1>1, <1>3, <1>5 DEF Body, StartupTypeOK, Database, SchemaIsRecorded
<1>7. 1..k \cup {v} = 1..v
  BY <1>2, <1>4
<1>8. QED
  BY <1>2, <1>3, <1>4, <1>6, <1>7 DEF v

\* No record is taken back, and the accounts stay.
LEMMA DiskGrows ==
  ASSUME StartupInv, NEW s \in Servers, DiskMoves(s)
  PROVE  /\ disk' \in Database
         /\ SchemaIsRecorded'
         /\ disk.recorded \subseteq disk'.recorded
         /\ \A i \in DOMAIN disk.users :
              i \in DOMAIN disk'.users /\ disk'.users[i].email = disk.users[i].email
<1>1. StartupTypeOK /\ SchemaIsRecorded /\ NothingToLose
  BY DEF StartupInv
<1>2. disk \in Database
  BY <1>1 DEF StartupTypeOK
<1>3. PICK ids \in SUBSET Ids : disk.users \in [ids -> Account]
  BY <1>2 DEF Database, Accounts
<1>4. CASE disk' = disk
  BY <1>1, <1>2, <1>4 DEF SchemaIsRecorded
<1>5. CASE CommitOf(s)
  <2> DEFINE v == Least(todo[s])
  <2> HIDE DEF v
  <2>1. /\ v \in 1..NumFiles /\ disk.recorded = 1..v - 1
        /\ disk'.recorded = 1..v /\ disk'.schema = 1..v
        /\ v # Rebuild => disk'.users = disk.users
    BY <1>5, CommitAdvances DEF v
  <2>2. disk' = [Body(v, disk) EXCEPT !.recorded = @ \cup {v}]
    BY <1>5 DEF CommitOf, v
  <2>3. disk' \in Database
    BY <1>2, <2>1, <2>2, BodyType
  <2>4. SchemaIsRecorded'
    <3>1. v \in 0..NumFiles /\ disk'.recorded = 1..v /\ disk'.schema = disk'.recorded
      BY <2>1
    <3>2. QED
      BY <3>1 DEF SchemaIsRecorded, Prefixes
  <2>5. CASE v = Rebuild
    <3>1. \A i \in DOMAIN disk.users : disk.users[i].email = Nil
      BY <1>1, <2>1, <2>5 DEF NothingToLose
    <3>2. disk'.users = [i \in DOMAIN disk.users |-> [email |-> Nil, admin |-> FALSE]]
      BY <1>2, <2>2, <2>5 DEF Body, Database
    <3>3. QED
      BY <2>1, <2>3, <2>4, <3>1, <3>2
  <2>6. QED
    BY <2>1, <2>3, <2>4, <2>5
<1>6. CASE InsertOf(s)
  <2>1. PICK i \in Ids \ DOMAIN disk.users, email \in Emails, admin \in BOOLEAN :
          disk' = [disk EXCEPT !.users = [j \in DOMAIN @ \cup {i} |->
                     IF j = i THEN [email |-> email, admin |-> admin] ELSE @[j]]]
    BY <1>6 DEF InsertOf
  <2>2. disk' \in Database
    BY <1>2, <2>1, InsertType
  <2>3. /\ disk'.schema = disk.schema /\ disk'.recorded = disk.recorded
        /\ disk'.users = [j \in DOMAIN disk.users \cup {i} |->
             IF j = i THEN [email |-> email, admin |-> admin] ELSE disk.users[j]]
    BY <1>2, <2>1 DEF Database
  <2>4. QED
    BY <1>1, <2>2, <2>3 DEF SchemaIsRecorded
<1>7. CASE RoleOf(s)
  <2>1. PICK i \in DOMAIN disk.users, admin \in BOOLEAN :
          disk' = [disk EXCEPT !.users[i].admin = admin]
    BY <1>7 DEF RoleOf
  <2>2. disk' \in Database
    BY <1>2, <2>1, RoleType
  <2>3. /\ disk'.schema = disk.schema /\ disk'.recorded = disk.recorded
        /\ disk'.users = [disk.users EXCEPT ![i].admin = admin]
    BY <1>2, <2>1 DEF Database
  <2>4. QED
    BY <1>1, <1>3, <2>2, <2>3 DEF SchemaIsRecorded, Account
<1>8. QED
  BY <1>4, <1>5, <1>6, <1>7 DEF DiskMoves

-----------------------------------------------------------------------------
LEMMA TypeKept ==
  ASSUME StartupInv, NEW s \in Servers, ServerStep(s)
  PROVE  StartupTypeOK'
<1>1. StartupTypeOK
  BY DEF StartupInv
<1>2. stage' \in [Servers -> Calls] /\ todo' \in [Servers -> SUBSET Files]
  BY OneServer DEF OneMoves
<1>3. disk' \in Database
  BY DiskStep, DiskGrows
<1>4. tx' \in [server : Servers \cup {Nil}, disk : Database]
  <2>1. CASE tx' = tx \/ tx' = NoTx
    BY <1>1, <2>1, BlankType DEF StartupTypeOK
  <2>2. CASE ApplyBody(s) /\ tx' # NoTx /\ tx' # tx
    <3>1. Least(todo[s]) \in Files
      BY <2>2, NextFile DEF ApplyBody, Migrating
    <3>2. tx' = [server |-> s, disk |-> Body(Least(todo[s]), disk)]
      BY <2>2 DEF ApplyBody, Exit, EndTx
    <3>3. QED
      BY <1>1, <3>1, <3>2, BodyType DEF StartupTypeOK
  <2>3. CASE Record(s) /\ tx' # NoTx /\ tx' # tx
    <3>1. tx' = [tx EXCEPT !.disk.recorded = @ \cup {Least(todo[s])}]
      BY <2>3 DEF Record, Exit, EndTx
    <3>2. todo[s] # {}
      BY <2>3 DEF Record, StartupInv, TxFits
    <3>3. Least(todo[s]) \in Files
      BY <2>3, <3>2, NextFile DEF Record, Migrating
    <3>4. QED
      BY <1>1, <3>1, <3>3 DEF StartupTypeOK, Database
  <2>4. QED
    BY <2>1, <2>2, <2>3
    DEF ServerStep, StartStep, Load, LoadApplied, CommitFile, Migrated, Wire, IndexAll, AnyAdmin,
        CreateAdmin, Listen, Fails, Kill, Register, SetRole, Exit, EndTx, ApplyBody, Record
<1>5. missed' \in [Servers -> BOOLEAN] /\ deposed' \in BOOLEAN
  BY <1>1
  DEF StartupTypeOK, ServerStep, StartStep, Load, LoadApplied, ApplyBody, Record, CommitFile, Migrated, Wire,
      IndexAll, AnyAdmin, CreateAdmin, Listen, Fails, Kill, Register, SetRole
<1>6. errors' \in 0..MaxErrors /\ kills' \in 0..MaxKills
  <2>1. CASE Fails(s)
    BY <1>1, <2>1, StartBounds DEF StartupTypeOK, Fails
  <2>2. CASE Kill(s)
    BY <1>1, <2>2, StartBounds DEF StartupTypeOK, Kill
  <2>3. CASE errors' = errors /\ kills' = kills
    BY <1>1, <2>3 DEF StartupTypeOK
  <2>4. QED
    BY <2>1, <2>2, <2>3
    DEF ServerStep, StartStep, Load, LoadApplied, ApplyBody, Record, CommitFile, Migrated, Wire,
        IndexAll, AnyAdmin, CreateAdmin, Listen, Register, SetRole
<1>7. QED
  BY <1>2, <1>3, <1>4, <1>5, <1>6 DEF StartupTypeOK, Calls

\* Who is in a transaction keeps it, and nothing is written beside it.
LEMMA TxOwned ==
  ASSUME StartupInv, NEW s \in Servers, ServerStep(s), NEW r \in Servers, r # s, tx.server = r
  PROVE  tx' = tx /\ disk' = disk
<1>1. stage[s] \notin {"record", "commit"} /\ ~WriterFree
  BY NilAssumption DEF StartupInv, TxFits, WriterFree
<1>2. QED
  BY <1>1
  DEF ServerStep, StartStep, Load, LoadApplied, ApplyBody, Record, CommitFile, Migrated, Wire,
      IndexAll, AnyAdmin, CreateAdmin, Listen, Fails, Kill, Register, SetRole, Exit, EndTx

\* The transaction of the server that steps.
LEMMA OwnTx ==
  ASSUME StartupInv, NEW s \in Servers, ServerStep(s)
  PROVE  /\ tx'.server = s <=> stage'[s] \in {"record", "commit"}
         /\ tx'.server \in {Nil, s, tx.server}
         /\ stage'[s] = "record" => /\ todo' = todo /\ disk' = disk /\ todo[s] # {}
                                    /\ ~BodyFails(Least(todo[s]), disk)
                                    /\ tx'.disk = Body(Least(todo[s]), disk)
         /\ stage'[s] = "commit" => /\ stage[s] = "record" /\ todo' = todo /\ disk' = disk
                                    /\ tx' = [tx EXCEPT !.disk.recorded = @ \cup {Least(todo[s])}]
                                    /\ Least(todo[s]) \notin tx.disk.recorded
<1>1. StartupTypeOK /\ (tx.server = s <=> stage[s] \in {"record", "commit"})
  BY DEF StartupInv, TxFits
<1> USE DEF Proceed, Exit, EndTx, WriterFree
<1>a. stage \in [Servers -> Calls] /\ NoTx.server = Nil /\ s # Nil
  BY <1>1, NilAssumption DEF StartupTypeOK, Calls, NoTx
<1>2. CASE ApplyBody(s)
  BY <1>1, <1>a, <1>2 DEF ApplyBody
<1>3. CASE Record(s)
  BY <1>1, <1>a, <1>3 DEF Record, StartupTypeOK
<1>4. CASE CommitFile(s)
  BY <1>1, <1>a, <1>4 DEF CommitFile
<1>5. CASE Load(s) \/ LoadApplied(s) \/ Migrated(s) \/ Wire(s) \/ IndexAll(s)
  BY <1>1, <1>a, <1>5 DEF Load, LoadApplied, Migrated, Wire, IndexAll
<1>6. CASE AnyAdmin(s) \/ CreateAdmin(s) \/ Listen(s) \/ Register(s) \/ SetRole(s)
  BY <1>1, <1>a, <1>6 DEF AnyAdmin, CreateAdmin, Listen, Register, SetRole
<1>7. CASE Fails(s) \/ Kill(s)
  BY <1>1, <1>a, <1>7 DEF Fails, Kill, Bootstrapping, Migrating
<1>8. QED
  BY <1>2, <1>3, <1>4, <1>5, <1>6, <1>7 DEF ServerStep, StartStep

LEMMA TxKept ==
  ASSUME StartupInv, NEW s \in Servers, ServerStep(s)
  PROVE  TxFits'
<1>1. StartupTypeOK /\ TxFits
  BY DEF StartupInv
<1>2. SUFFICES ASSUME NEW r \in Servers
      PROVE /\ tx'.server = r <=> stage'[r] \in {"record", "commit"}
            /\ tx'.server = r =>
                 LET v == Least(todo'[r]) IN
                 /\ todo'[r] # {} /\ ~BodyFails(v, disk')
                 /\ tx'.disk = IF stage'[r] = "record" THEN Body(v, disk')
                               ELSE [Body(v, disk') EXCEPT !.recorded = @ \cup {v}]
                 /\ stage'[r] = "commit" => v \notin disk'.recorded
  BY DEF TxFits
<1>3. CASE r # s
  <2>1. stage'[r] = stage[r] /\ todo'[r] = todo[r]
    BY <1>3, OneServer DEF OneMoves
  <2>2. CASE tx.server = r
    <3>1. tx' = tx /\ disk' = disk
      BY <1>3, <2>2, TxOwned
    <3>2. QED
      BY <1>1, <2>1, <2>2, <3>1 DEF TxFits
  <2>3. CASE tx.server # r
    <3>1. tx'.server # r
      BY <1>3, <2>3, OwnTx, NilAssumption
    <3>2. QED
      BY <1>1, <2>1, <2>3, <3>1 DEF TxFits
  <2>4. QED
    BY <2>2, <2>3
<1>4. CASE r = s
  <2>1. tx'.server = s <=> stage'[s] \in {"record", "commit"}
    BY OwnTx
  <2>2. CASE stage'[s] = "record"
    BY <1>4, <2>1, <2>2, OwnTx
  <2>3. CASE stage'[s] = "commit"
    <3> DEFINE v == Least(todo[s])
    <3> HIDE DEF v
    <3>1. /\ stage[s] = "record" /\ todo' = todo /\ disk' = disk
          /\ tx' = [tx EXCEPT !.disk.recorded = @ \cup {v}] /\ v \notin tx.disk.recorded
      BY <2>3, OwnTx DEF v
    <3>2. todo[s] # {} /\ ~BodyFails(v, disk) /\ tx.disk = Body(v, disk)
      BY <1>1, <3>1 DEF TxFits, v
    <3>3. Body(v, disk).recorded = disk.recorded
      BY <1>1 DEF Body, StartupTypeOK, Database
    <3>4. tx'.disk = [Body(v, disk) EXCEPT !.recorded = @ \cup {v}]
      BY <1>1, <3>1, <3>2 DEF StartupTypeOK
    <3>5. QED
      BY <1>4, <2>1, <2>3, <3>1, <3>2, <3>3, <3>4 DEF v
  <2>4. QED
    BY <1>4, <2>1, <2>2, <2>3
<1>5. QED
  BY <1>3, <1>4

LEMMA TodoKept ==
  ASSUME StartupInv, NEW s \in Servers, ServerStep(s)
  PROVE  TodoCovers'
<1>1. StartupTypeOK /\ TodoCovers /\ SchemaIsRecorded
  BY DEF StartupInv
<1>2. /\ disk' \in Database /\ disk.recorded \subseteq disk'.recorded
  BY DiskStep, DiskGrows
<1>3. disk.recorded = Files => disk'.recorded = Files
  BY <1>2 DEF Database
<1> DEFINE Late == {"wire", "index"} \cup Bootstrapping \cup Started
           Covers(r) == /\ stage[r] \in Migrating =>
                            \E v \in 1..NumFiles + 1 :
                              todo[r] = v..NumFiles /\ 1..v - 1 \subseteq disk.recorded
                        /\ stage[r] \in Late => disk.recorded = Files
<1>4. \A r \in Servers : Covers(r)
  BY <1>1 DEF TodoCovers
<1>5. ASSUME NEW r \in Servers, stage'[r] = stage[r], todo'[r] = todo[r]
      PROVE  Covers(r)'
  BY <1>2, <1>3, <1>4, <1>5
<1>6. Covers(s)'
  <2> USE DEF Proceed, Exit, Migrating, Bootstrapping, Started
  <2>1. stage \in [Servers -> Calls] /\ todo \in [Servers -> SUBSET Files]
    BY <1>1 DEF StartupTypeOK, Calls
  <2>2. CASE LoadApplied(s)
    <3>1. PICK k \in 0..NumFiles : disk.recorded = 1..k
      BY <1>1 DEF SchemaIsRecorded, Prefixes
    <3>2. todo'[s] = (k + 1)..NumFiles /\ stage'[s] = "apply"
      BY <2>1, <2>2, <3>1, FilesAssumption DEF LoadApplied
    <3>3. k + 1 \in 1..NumFiles + 1 /\ 1..(k + 1) - 1 \subseteq disk'.recorded
      BY <1>2, <3>1, FilesAssumption
    <3>4. QED
      BY <3>2, <3>3
  <2>3. CASE CommitFile(s)
    <3> DEFINE v == Least(todo[s])
    <3> HIDE DEF v
    <3>0. todo[s] # {}
      BY <2>3 DEF CommitFile, StartupInv, TxFits
    <3>1. v \in 1..NumFiles /\ todo[s] = v..NumFiles /\ 1..v - 1 \subseteq disk.recorded
      BY <2>3, <3>0, NextFile DEF CommitFile, v
    <3>2. stage'[s] = "apply" /\ todo'[s] = todo[s] \ {v}
      BY <2>1, <2>3 DEF CommitFile, v
    <3>3. todo'[s] = (v + 1)..NumFiles
      BY <3>1, <3>2, FilesAssumption
    <3>4. v \in disk'.recorded
      <4>1. tx.server = s /\ disk' = tx.disk /\ stage[s] = "commit"
        BY <2>3 DEF CommitFile, StartupInv, TxFits
      <4>2. tx.disk = [Body(v, disk) EXCEPT !.recorded = @ \cup {v}]
        BY <4>1 DEF StartupInv, TxFits, v
      <4>3. QED
        BY <1>1, <4>1, <4>2 DEF Body, StartupTypeOK, Database
    <3>5. v + 1 \in 1..NumFiles + 1 /\ 1..(v + 1) - 1 \subseteq disk'.recorded
      BY <1>2, <3>1, <3>4, FilesAssumption
    <3>6. QED
      BY <3>2, <3>3, <3>5
  <2>4. CASE Migrated(s)
    <3>1. PICK v \in 1..NumFiles + 1 : todo[s] = v..NumFiles /\ 1..v - 1 \subseteq disk.recorded
      BY <1>4, <2>4 DEF Migrated
    <3>2. v = NumFiles + 1
      BY <2>4, <3>1, FilesAssumption DEF Migrated
    <3>a. v - 1 = NumFiles /\ disk.recorded \subseteq Files
      BY <1>1, <3>2, FilesAssumption DEF StartupTypeOK, Database
    <3>3. disk.recorded = Files
      BY <3>1, <3>a
    <3>4. QED
      BY <1>3, <2>1, <2>4, <3>3 DEF Migrated
  <2>5. CASE Load(s) \/ Kill(s)
    BY <2>1, <2>5 DEF Load, Kill
  <2>6. CASE ApplyBody(s) \/ Record(s)
    BY <1>2, <1>4, <2>1, <2>6 DEF ApplyBody, Record
  <2>7. CASE Wire(s) \/ IndexAll(s) \/ AnyAdmin(s) \/ CreateAdmin(s) \/ Listen(s)
    BY <1>3, <1>4, <2>1, <2>7 DEF Wire, IndexAll, AnyAdmin, CreateAdmin, Listen
  <2>8. CASE Fails(s)
    <3>1. stage'[s] = "down" \/ (stage[s] \in Bootstrapping /\ stage'[s] = "listen")
      BY <2>1, <2>8 DEF Fails
    <3>2. stage'[s] \notin Migrating /\ (stage'[s] \in Late => disk.recorded = Files)
      BY <1>4, <3>1
    <3>3. QED
      BY <1>3, <3>2
  <2>9. CASE Register(s) \/ SetRole(s)
    BY <1>5, <2>9 DEF Register, SetRole
  <2>10. QED
    BY <2>2, <2>3, <2>4, <2>5, <2>6, <2>7, <2>8, <2>9 DEF ServerStep, StartStep
<1>7. \A r \in Servers : Covers(r)'
  BY <1>5, <1>6, OneServer DEF OneMoves
<1>8. QED
  BY <1>7 DEF TodoCovers

LEMMA LateIsMigrated ==
  ASSUME StartupInv, NEW s \in Servers, stage[s] \in Bootstrapping \cup Started
  PROVE  disk.recorded = Files /\ disk.schema = Files
BY DEF StartupInv, TodoCovers, SchemaIsRecorded

LEMMA NothingKept ==
  ASSUME StartupInv, NEW s \in Servers, ServerStep(s)
  PROVE  NothingToLose'
<1>1. NothingToLose /\ disk.recorded \subseteq disk'.recorded
  BY DiskStep, DiskGrows DEF StartupInv
<1>2. SUFFICES ASSUME Rebuild \notin disk'.recorded
      PROVE  disk'.users = disk.users
  BY <1>1 DEF NothingToLose
<1>3. Rebuild \notin disk.recorded /\ stage[s] \notin Bootstrapping \cup Started
  BY <1>1, <1>2, LateIsMigrated, FilesAssumption
<1>4. CASE CommitOf(s)
  BY <1>2, <1>4, CommitAdvances
<1>5. QED
  BY <1>3, <1>4, DiskStep DEF DiskMoves, InsertOf, RoleOf, Bootstrapping, Started

LEMMA LookupKept ==
  ASSUME StartupInv, NEW s \in Servers, ServerStep(s)
  PROVE  StaleLookup'
<1>1. StartupTypeOK /\ StaleLookup /\ DiskMoves(s)
  BY DiskStep DEF StartupInv
<1>2. Taken(disk.users, Bootstrap) => Taken(disk'.users, Bootstrap)
  BY <1>1, DiskGrows DEF Taken
<1>3. SUFFICES ASSUME NEW r \in Servers, stage'[r] = "create"
      PROVE  Bootstrap # Nil /\ (AdminIds(disk'.users) = {} \/ Taken(disk'.users, Bootstrap))
  BY DEF StaleLookup
<1>4. CASE r = s
  <2>1. AnyAdmin(s)
    BY <1>1, <1>3, <1>4
    DEF StartupTypeOK, ServerStep, StartStep, Load, LoadApplied, ApplyBody, Record, CommitFile, Migrated,
        Wire, IndexAll, CreateAdmin, Listen, Fails, Kill, Register, SetRole, Proceed, Exit
  <2>2. QED
    BY <1>1, <1>3, <1>4, <2>1 DEF AnyAdmin, Proceed, StartupTypeOK
<1>5. CASE r # s
  <2>1. stage[r] = "create"
    BY <1>3, <1>5, OneServer DEF OneMoves
  <2>2. Bootstrap # Nil /\ (AdminIds(disk.users) = {} \/ Taken(disk.users, Bootstrap))
    BY <1>1, <2>1 DEF StaleLookup
  <2>3. ~CommitOf(s)
    BY <2>1, CommitAdvances, LateIsMigrated DEF CommitOf, Bootstrapping
  <2>4. CASE InsertOf(s)
    <3>1. PICK i \in Ids \ DOMAIN disk.users, email \in Emails, admin \in BOOLEAN :
            /\ admin => email = Bootstrap
            /\ disk' = [disk EXCEPT !.users = [j \in DOMAIN @ \cup {i} |->
                          IF j = i THEN [email |-> email, admin |-> admin] ELSE @[j]]]
      BY <2>4 DEF InsertOf
    <3>2. disk'.users = [j \in DOMAIN disk.users \cup {i} |->
                          IF j = i THEN [email |-> email, admin |-> admin] ELSE disk.users[j]]
      BY <1>1, <3>1 DEF StartupTypeOK, Database
    <3>3. CASE admin
      BY <2>2, <3>1, <3>2, <3>3 DEF Taken
    <3>4. CASE ~admin
      BY <1>2, <2>2, <3>2, <3>4 DEF AdminIds
    <3>5. QED
      BY <3>3, <3>4
  <2>5. CASE RoleOf(s)
    BY <1>2, <2>2, <2>5 DEF RoleOf
  <2>6. QED
    BY <1>1, <2>2, <2>3, <2>4, <2>5 DEF DiskMoves
<1>6. QED
  BY <1>4, <1>5

LEMMA NextKeeps ==
  ASSUME StartupInv, [StartupNext]_startupVars
  PROVE  StartupInv'
<1>1. CASE UNCHANGED startupVars
  BY <1>1
  DEF startupVars, StartupInv, StartupTypeOK, TxFits, TodoCovers, NothingToLose, StaleLookup, SchemaIsRecorded
<1>2. ASSUME NEW s \in Servers, ServerStep(s)
      PROVE  StartupInv'
  BY <1>2, TypeKept, TxKept, TodoKept, NothingKept, LookupKept, DiskStep, DiskGrows DEF StartupInv
<1>3. QED
  BY <1>1, <1>2 DEF StartupNext, ServerStep

-----------------------------------------------------------------------------
\* Types, what the open transaction holds, what each server has still to
\* apply, and the schema on disk are an inductive invariant.
THEOREM StartupInvariance == StartupSpec => []StartupInv
<1>1. StartupInit => StartupInv
  BY InitHolds
<1>2. StartupInv /\ [StartupNext]_startupVars => StartupInv'
  BY NextKeeps
<1>3. QED
  BY <1>1, <1>2, PTL DEF StartupSpec

\* However many servers start at once, and wherever they are killed: the
\* schema is what the records say, in order, without a gap (applyOne).
THEOREM SchemaStaysRecorded == StartupSpec => []SchemaIsRecorded
<1>1. StartupInv => SchemaIsRecorded
  BY DEF StartupInv
<1>2. QED
  BY <1>1, StartupInvariance, PTL

\* A server that serves has the whole schema (main).
THEOREM ServersAreMigrated == StartupSpec => []ServingIsMigrated
<1>1. StartupInv => ServingIsMigrated
  BY LateIsMigrated DEF ServingIsMigrated, Started
<1>2. QED
  BY <1>1, StartupInvariance, PTL

\* No step takes an account or its address away (003_auth_groups.sql).
THEOREM AccountsAlwaysSurvive == StartupSpec => AccountsSurvive
<1>1. ASSUME StartupInv, [StartupNext]_startupVars
      PROVE  [\A i \in DOMAIN disk.users :
                i \in DOMAIN disk'.users /\ disk'.users[i].email = disk.users[i].email]_startupVars
  BY <1>1, DiskStep, DiskGrows DEF StartupNext, ServerStep
<1>2. QED
  BY <1>1, StartupInvariance, PTL DEF StartupSpec, AccountsSurvive

\* bootstrapAdmin creates no second admin, whoever else starts or signs up.
THEOREM BootstrapsOnce == StartupSpec => NoSecondAdmin
<1> DEFINE OnlyFirst ==
      \A i \in Ids : (i \in DOMAIN disk'.users \ DOMAIN disk.users /\ disk'.users[i].admin)
        => AdminIds(disk.users) = {}
<1>1. ASSUME StartupInv, NEW s \in Servers, ServerStep(s)
      PROVE  OnlyFirst
  <2>1. StartupTypeOK /\ StaleLookup /\ DiskMoves(s)
    BY <1>1, DiskStep DEF StartupInv
  <2>2. CASE CommitOf(s)
    BY <2>1, <2>2 DEF CommitOf, Body, StartupTypeOK, Database
  <2>3. CASE RoleOf(s)
    BY <2>1, <2>3 DEF RoleOf, StartupTypeOK, Database
  <2>4. CASE InsertOf(s)
    <3>1. PICK i \in Ids \ DOMAIN disk.users, email \in Emails, admin \in BOOLEAN :
            /\ ~Taken(disk.users, email)
            /\ admin => stage[s] = "create" /\ email = Bootstrap
            /\ disk' = [disk EXCEPT !.users = [j \in DOMAIN @ \cup {i} |->
                          IF j = i THEN [email |-> email, admin |-> admin] ELSE @[j]]]
      BY <2>4 DEF InsertOf
    <3>2. disk'.users = [j \in DOMAIN disk.users \cup {i} |->
                          IF j = i THEN [email |-> email, admin |-> admin] ELSE disk.users[j]]
      BY <2>1, <3>1 DEF StartupTypeOK, Database
    <3>3. QED
      BY <2>1, <3>1, <3>2 DEF StaleLookup
  <2>5. QED
    BY <2>1, <2>2, <2>3, <2>4 DEF DiskMoves
<1>2. ASSUME StartupInv, [StartupNext]_startupVars
      PROVE  [OnlyFirst]_startupVars
  BY <1>1, <1>2 DEF StartupNext, ServerStep
<1>3. QED
  BY <1>2, StartupInvariance, PTL DEF StartupSpec, NoSecondAdmin

\* Behind a server that has started there is an admin, but for the exceptions
\* that AdminAfterStart names.
THEOREM AdminsArePresent == StartupSpec => []AdminAfterStart
<1>1. StartupInit => AdminAfterStart
  BY DEF StartupInit, AdminAfterStart, Started
<1>2. ASSUME StartupInv, AdminAfterStart, NEW s \in Servers, ServerStep(s)
      PROVE  AdminAfterStart'
  <2> DEFINE Present == AdminIds(disk.users) # {} \/ Taken(disk.users, Bootstrap) \/ deposed
  <2>1. StartupTypeOK /\ DiskMoves(s)
    BY <1>2, DiskStep DEF StartupInv
  <2>2. deposed => deposed'
    BY <1>2, <2>1
    DEF StartupTypeOK, ServerStep, StartStep, Load, LoadApplied, ApplyBody, Record, CommitFile, Migrated,
        Wire, IndexAll, AnyAdmin, CreateAdmin, Listen, Fails, Kill, Register, SetRole
  <2>3. Taken(disk.users, Bootstrap) => Taken(disk'.users, Bootstrap)
    BY <1>2, <2>1, DiskGrows DEF Taken
  <2>4. ASSUME disk.recorded = Files
        PROVE  Present => Present'
    <3>1. ~CommitOf(s)
      BY <1>2, <2>4, CommitAdvances DEF CommitOf
    <3>2. CASE InsertOf(s)
      <4>1. PICK i \in Ids \ DOMAIN disk.users, email \in Emails, admin \in BOOLEAN :
              disk' = [disk EXCEPT !.users = [j \in DOMAIN @ \cup {i} |->
                          IF j = i THEN [email |-> email, admin |-> admin] ELSE @[j]]]
        BY <3>2 DEF InsertOf
      <4>2. disk'.users = [j \in DOMAIN disk.users \cup {i} |->
                          IF j = i THEN [email |-> email, admin |-> admin] ELSE disk.users[j]]
        BY <2>1, <4>1 DEF StartupTypeOK, Database
      <4>3. \A j \in AdminIds(disk.users) : j \in AdminIds(disk'.users)
        BY <4>2 DEF AdminIds
      <4>4. QED
        BY <2>2, <2>3, <4>3
    <3>3. CASE RoleOf(s)
      BY <2>2, <2>3, <3>3 DEF RoleOf
    <3>4. CASE disk' = disk
      BY <2>2, <3>4
    <3>5. QED
      BY <2>1, <3>1, <3>2, <3>3, <3>4 DEF DiskMoves
  <2>5. SUFFICES ASSUME NEW r \in Servers, stage'[r] \in Started, ~missed'[r], Bootstrap # Nil
        PROVE  Present'
    BY DEF AdminAfterStart
  <2>6. CASE stage[r] \in Started /\ ~missed[r]
    <3>1. Present
      BY <1>2, <2>5, <2>6 DEF AdminAfterStart
    <3>2. QED
      BY <1>2, <2>4, <2>6, <3>1, LateIsMigrated
  <2>7. CASE AnyAdmin(r) /\ r = s
    BY <2>1, <2>5, <2>7 DEF AnyAdmin, Proceed, StartupTypeOK, Started
  <2>8. CASE CreateAdmin(r) /\ r = s
    <3>1. CASE Taken(disk.users, Bootstrap)
      BY <2>3, <3>1
    <3>2. CASE ~Taken(disk.users, Bootstrap)
      <4>1. PICK i \in Ids :
              disk' = [disk EXCEPT !.users = [j \in DOMAIN @ \cup {i} |->
                          IF j = i THEN [email |-> Bootstrap, admin |-> TRUE] ELSE @[j]]]
        BY <2>8, <3>2 DEF CreateAdmin, Insert
      <4>2. disk'.users = [j \in DOMAIN disk.users \cup {i} |->
                          IF j = i THEN [email |-> Bootstrap, admin |-> TRUE] ELSE disk.users[j]]
        BY <2>1, <4>1 DEF StartupTypeOK, Database
      <4>3. i \in AdminIds(disk'.users)
        BY <4>2 DEF AdminIds
      <4>4. QED
        BY <4>3
    <3>3. QED
      BY <3>1, <3>2
  <2>9. CASE r # s \/ ~(AnyAdmin(s) \/ CreateAdmin(s))
    <3>1. CASE r # s
      <4>1. stage'[r] = stage[r] /\ missed'[r] = missed[r]
        BY <1>2, <2>1, <3>1, OneServer
        DEF StartupTypeOK, OneMoves, ServerStep, StartStep, Load, LoadApplied, ApplyBody, Record, CommitFile,
            Migrated, Wire, IndexAll, AnyAdmin, CreateAdmin, Listen, Fails, Kill, Register, SetRole
      <4>2. QED
        BY <2>5, <2>6, <4>1
    <3>2. CASE r = s /\ ~(AnyAdmin(s) \/ CreateAdmin(s))
      <4>1. CASE Fails(s)
        BY <2>1, <2>5, <3>2, <4>1 DEF StartupTypeOK, Fails, Exit, Proceed, Started
      <4>2. CASE Listen(s)
        BY <2>1, <2>5, <2>6, <3>2, <4>2 DEF StartupTypeOK, Listen, Exit, Proceed, Started
      <4>3. CASE Register(s) \/ SetRole(s)
        BY <2>5, <2>6, <3>2, <4>3 DEF Register, SetRole, Started
      <4>4. QED
        BY <1>2, <2>1, <2>5, <3>2, <4>1, <4>2, <4>3
        DEF StartupTypeOK, ServerStep, StartStep, Load, LoadApplied, ApplyBody, Record, CommitFile, Migrated,
            Wire, IndexAll, Kill, Exit, Proceed, Started
    <3>3. QED
      BY <2>9, <3>1, <3>2
  <2>10. QED
    BY <2>6, <2>7, <2>8, <2>9
<1>3. ASSUME StartupInv, AdminAfterStart, [StartupNext]_startupVars
      PROVE  AdminAfterStart'
  <2>1. CASE UNCHANGED startupVars
    BY <1>3, <2>1 DEF startupVars, AdminAfterStart
  <2>2. QED
    BY <1>2, <1>3, <2>1 DEF StartupNext, ServerStep
<1>4. QED
  BY <1>1, <1>3, StartupInvariance, PTL DEF StartupSpec
=============================================================================
