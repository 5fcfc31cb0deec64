-------------------------- MODULE OperationsProofs --------------------------
(***************************************************************************)
(* Proofs about updating, backing up and restoring, for every set of       *)
(* releases, any number of scripts and of changes by users, whatever fails *)
(* or is interrupted and whenever: nothing that was saved when a script    *)
(* began is lost, and a script that says how it ended tells the truth.     *)
(***************************************************************************)
EXTENDS Operations, WellFoundedInduction, TLAPS

-----------------------------------------------------------------------------
(* Types *)

File    == Database \cup {Absent}
Setting == Nat \cup {Absent}
Archive == [db : Database, env : Setting, secret : Setting]
Kept    == [db : File, env : Setting]

ScriptType ==
  \/ script = NoScript
  \/ script \in [of : {"update"}, at : 1..10, version : Versions, archive : {Absent}]
  \/ script \in [of : {"restore"}, at : 1..10, version : {Absent}, archive : Archive]
  \/ script \in [of : {"restoreWithConfig"}, at : 1..13, version : {Absent},
                 archive : Archive]

\* Files, service, script and history have the shape they are meant to have.  A
\* release is always installed: that the installation keeps one is part of what
\* follows the scripts below.
Types ==
  /\ disk \in [bin : Versions, previous : Versions \cup {Absent}, db : File,
               env : Setting, secret : Setting, snapshots : Seq(Database),
               aside : Seq(Kept), nightly : Archive \cup {Absent}, kept : Archive]
  /\ service \in [version : Versions \cup {Absent}, healthy : BOOLEAN]
  /\ ScriptType
  /\ ledger \in [runs : Nat, writes : Nat, saved : SUBSET Nat,
                 said : {"nothing", "updated", "restored", "undone", "unhealthy"},
                 had : [bin : Versions, db : File, env : Setting, secret : Setting]]

-----------------------------------------------------------------------------
(* The inductive invariant *)

Saved(db) == IF db = Absent THEN {} ELSE db.saved

\* A directory of restore.sh holds the change x.
InAside(x) == \E i \in 1..Len(disk.aside) : x \in Saved(disk.aside[i].db)

UpdateAt(lo, hi) == script.of = "update" /\ script.at \in lo..hi

\* The same stretch of restore.sh without and with the configuration.  The stretch
\* 11..10 is empty: restore.sh without the configuration has no such commands.
RestoreAt(lo, hi, loC, hiC) ==
  \/ script.of = "restore" /\ script.at \in lo..hi
  \/ script.of = "restoreWithConfig" /\ script.at \in loC..hiC

\* restore.sh after the move aside and before the move back.
MovedAside == RestoreAt(3, 8, 3, 10)

\* What the database or a directory holds is safe.  An update that may still rewind
\* the database has it in the newest snapshot, a restore that may still drop the
\* database has it in the directories.
Safe ==
  /\ \A x \in ledger.saved : x \in Saved(disk.db) \/ InAside(x)
  /\ UpdateAt(2, 8) =>
       /\ disk.snapshots # <<>>
       /\ \A x \in ledger.saved : x \in Last(disk.snapshots).saved \/ InAside(x)
  /\ MovedAside => disk.aside # <<>> /\ \A x \in ledger.saved : InAside(x)

\* What a database must be to stand for the one there was when the script began.
Carries(db) ==
  /\ Opened(db, ledger.had.bin).schema = Opened(ledger.had.db, ledger.had.bin).schema
  /\ Saved(ledger.had.db) \subseteq Saved(db)

\* A service that answers has migrated the database there is.
Migrated == service.healthy => disk.db # Absent /\ disk.db.schema >= disk.bin

UpdateOnItsWay ==
  /\ UpdateAt(1, 10) => disk.env = ledger.had.env
  /\ UpdateAt(1, 3) \/ UpdateAt(8, 10) => disk.bin = ledger.had.bin
  /\ UpdateAt(4, 7) => disk.bin = script.version
  /\ UpdateAt(3, 7) => disk.previous = ledger.had.bin
  /\ UpdateAt(1, 1) \/ UpdateAt(9, 10) => Carries(disk.db)
  /\ UpdateAt(2, 8) =>
       /\ Carries(Last(disk.snapshots))
       /\ Saved(ledger.had.db) \subseteq Saved(disk.db)
  /\ UpdateAt(5, 5) \/ UpdateAt(10, 10) => service.version = disk.bin /\ Migrated

RestoreOnItsWay ==
  /\ RestoreAt(1, 10, 1, 13) => disk.bin = ledger.had.bin
  /\ RestoreAt(1, 10, 1, 4) \/ RestoreAt(11, 10, 12, 13) => disk.env = ledger.had.env
  /\ RestoreAt(1, 2, 1, 2) \/ RestoreAt(9, 10, 11, 13) => Carries(disk.db)
  /\ MovedAside => Carries(disk.aside[Dir].db)
  /\ RestoreAt(4, 6, 4, 8) => Saved(script.archive.db) \subseteq Saved(disk.db)
  /\ RestoreAt(8, 8, 10, 10) =>
       Opened(disk.db, disk.bin).schema = disk.bin
  /\ RestoreAt(11, 10, 5, 11) =>
       /\ disk.aside # <<>>
       /\ disk.aside[Dir].env = ledger.had.env
       /\ disk.env = script.archive.env
  /\ RestoreAt(5, 5, 7, 7) \/ RestoreAt(10, 10, 13, 13) =>
       service.version = disk.bin /\ Migrated

OnItsWay ==
  /\ script # NoScript => ledger.said = "nothing"
  /\ UpdateOnItsWay
  /\ RestoreOnItsWay

OInv == Types /\ Safe /\ OnItsWay

-----------------------------------------------------------------------------
(* What the operators do *)

LEMMA MaxOfTwo ==
  ASSUME NEW a \in Nat, NEW b \in Nat
  PROVE  Max({a, b}) = IF a >= b THEN a ELSE b
<1>1. CASE a >= b
  <2>1. \A x \in {a, b} : (\A y \in {a, b} : x >= y) => x = a
    BY <1>1
  <2>2. \A y \in {a, b} : a >= y
    BY <1>1
  <2>3. QED
    BY <1>1, <2>1, <2>2 DEF Max
<1>2. CASE ~(a >= b)
  <2>1. \A x \in {a, b} : (\A y \in {a, b} : x >= y) => x = b
    BY <1>2
  <2>2. \A y \in {a, b} : b >= y
    BY <1>2
  <2>3. QED
    BY <1>2, <2>1, <2>2 DEF Max
<1>3. QED
  BY <1>1, <1>2

\* A nonempty set of numbers has a smallest.
LEMMA FirstVersion == Min(Versions) \in Versions
<1>1. \E x \in Versions : \A y \in Versions : ~(<<y, x>> \in OpToRel(<, Nat))
  BY OperationsAssumption, NatLessThanWellFounded, WFMin
<1>2. PICK x \in Versions : \A y \in Versions : ~(y < x)
  BY <1>1, OperationsAssumption DEF OpToRel
<1>3. \A y \in Versions : x =< y
  BY <1>2, OperationsAssumption
<1>4. QED
  BY <1>3 DEF Min

\* Opening a database loses nothing, migrates to the version at least, and changes
\* nothing the second time.
LEMMA OpenedFacts ==
  ASSUME NEW db \in File, NEW v \in Versions
  PROVE  /\ Opened(db, v) \in Database /\ Opened(db, v) # Absent
         /\ Opened(db, v).schema \in Nat
         /\ Saved(Opened(db, v)) = Saved(db) /\ Opened(db, v).saved = Saved(db)
         /\ Opened(db, v).schema >= v
         /\ db # Absent => Opened(db, v).schema >= db.schema
         /\ db # Absent /\ db.schema >= v => Opened(db, v).schema = db.schema
         /\ Opened(Opened(db, v), v).schema = Opened(db, v).schema
<1>1. v \in Nat /\ Absent \notin Database
  BY OperationsAssumption
<1>2. CASE db = Absent
  <2>1. Opened(db, v) = [schema |-> v, saved |-> {}]
    BY <1>2 DEF Opened
  <2>2. [schema |-> v, saved |-> {}] \in Database
    BY <1>1 DEF Database
  <2>3. Opened(Opened(db, v), v) = [Opened(db, v) EXCEPT !.schema = Max({@, v})]
    BY <1>1, <2>1, <2>2 DEF Opened
  <2>4. Max({v, v}) = v
    BY <1>1, MaxOfTwo
  <2>5. QED
    BY <1>1, <1>2, <2>1, <2>2, <2>3, <2>4 DEF Saved
<1>3. CASE db # Absent
  <2>1. db \in Database /\ db.schema \in Nat /\ db.saved \in SUBSET Nat
    BY <1>3 DEF File, Database
  <2>2. PICK m \in Nat : m = Max({db.schema, v}) /\ m >= v /\ m >= db.schema
                         /\ (m = v \/ m = db.schema)
    BY <1>1, <2>1, MaxOfTwo
  <2>3. Opened(db, v) = [db EXCEPT !.schema = m]
    BY <1>3, <2>2 DEF Opened
  <2>4. [db EXCEPT !.schema = m] \in Database
    BY <2>1, <2>2 DEF Database
  <2>5. PICK new \in Database : new = [db EXCEPT !.schema = m]
    BY <2>4
  <2>6. new # Absent /\ new.schema = m /\ new.saved = db.saved /\ Max({m, v}) = m
    BY <1>1, <2>1, <2>2, <2>5, MaxOfTwo DEF Database
  <2>7. Opened(new, v) = [new EXCEPT !.schema = Max({m, v})]
    BY <2>6 DEF Opened
  <2>8. Opened(new, v).schema = m
    BY <2>6, <2>7 DEF Database
  <2>9. QED
    BY <1>1, <1>3, <2>1, <2>2, <2>3, <2>5, <2>6, <2>8 DEF Saved
<1>4. QED
  BY <1>2, <1>3

\* Where in the scripts each command stands.
LEMMA Places ==
  ASSUME ScriptType
  PROVE  /\ Doing("snapshot") => UpdateAt(1, 1)
         /\ Doing("keep") => UpdateAt(2, 2)
         /\ Doing("swap") => UpdateAt(3, 3)
         /\ Doing("unswap") => UpdateAt(7, 7)
         /\ Doing("rewind") => UpdateAt(8, 8)
         /\ Doing("aside") => RestoreAt(2, 2, 2, 2)
         /\ Doing("install") => RestoreAt(3, 3, 3, 3)
         /\ Doing("config") => RestoreAt(11, 10, 4, 4)
         /\ Doing("secret") => RestoreAt(11, 10, 5, 5)
         /\ Doing("clear") => RestoreAt(7, 7, 9, 9)
         /\ Doing("return") => RestoreAt(8, 8, 10, 10)
         /\ Doing("reconfigure") => RestoreAt(11, 10, 11, 11)
         /\ Doing("start") => \/ UpdateAt(4, 4) \/ UpdateAt(9, 9)
                             \/ RestoreAt(4, 4, 6, 6) \/ RestoreAt(9, 9, 12, 12)
         /\ Doing("stop") => \/ UpdateAt(6, 6) \/ RestoreAt(1, 1, 1, 1)
                            \/ RestoreAt(6, 6, 8, 8)
         /\ Doing("healthy") => UpdateAt(5, 5) \/ RestoreAt(5, 5, 7, 7)
         /\ Doing("report") => UpdateAt(10, 10) \/ RestoreAt(10, 10, 13, 13)
<1>1. CASE script.of = "update"
  <2>1. script.at \in 1..10 /\ script.of = "update"
    BY <1>1 DEF ScriptType, NoScript
  <2>2. Program[script.of] = <<"snapshot", "keep", "swap", "start", "healthy",
                               "stop", "unswap", "rewind", "start", "report">>
    BY <1>1 DEF Program
  <2>3. QED
    BY <2>1, <2>2 DEF Doing, UpdateAt, RestoreAt
<1>2. CASE script.of = "restore"
  <2>1. script.at \in 1..10 /\ script.of = "restore"
    BY <1>2 DEF ScriptType, NoScript
  <2>2. Program[script.of] = <<"stop", "aside", "install", "start", "healthy",
                               "stop", "clear", "return", "start", "report">>
    BY <1>2 DEF Program
  <2>3. QED
    BY <2>1, <2>2 DEF Doing, UpdateAt, RestoreAt
<1>3. CASE script.of = "restoreWithConfig"
  <2>1. script.at \in 1..13 /\ script.of = "restoreWithConfig"
    BY <1>3 DEF ScriptType, NoScript
  <2>2. Program[script.of] = <<"stop", "aside", "install", "config", "secret", "start",
                               "healthy", "stop", "clear", "return", "reconfigure",
                               "start", "report">>
    BY <1>3 DEF Program
  <2>3. QED
    BY <2>1, <2>2 DEF Doing, UpdateAt, RestoreAt
<1>4. CASE script.of = "none"
  BY <1>4 DEF Doing
<1>5. QED
  BY <1>1, <1>2, <1>3, <1>4 DEF ScriptType, NoScript

-----------------------------------------------------------------------------
(* What happens between commands *)

\* The database grows: it is migrated, or a user changes something.  A service that
\* is started or fails meanwhile is of the version that is installed.
LEMMA GrowthKeeps ==
  ASSUME OInv, NEW db \in File, NEW n \in Archive \cup {Absent},
         disk' = [disk EXCEPT !.db = db, !.nightly = n],
         Saved(disk.db) \subseteq Saved(db),
         Opened(db, disk.bin).schema = Opened(disk.db, disk.bin).schema,
         disk.db # Absent => db # Absent /\ db.schema >= disk.db.schema,
         service' \in [version : Versions \cup {Absent}, healthy : BOOLEAN],
         \/ service' = service
         \/ /\ service'.version = disk.bin
            /\ service'.healthy => db # Absent /\ db.schema >= disk.bin,
         UNCHANGED script,
         ledger' \in [runs : Nat, writes : Nat, saved : SUBSET Nat, said : {ledger.said},
                      had : {ledger.had}],
         ledger'.saved = ledger.saved
  PROVE  OInv'
<1>1. /\ disk'.db = db /\ disk'.bin = disk.bin /\ disk'.env = disk.env
      /\ disk'.aside = disk.aside /\ disk'.snapshots = disk.snapshots
      /\ disk'.previous = disk.previous
      /\ ledger'.had = ledger.had /\ ledger'.said = ledger.said
  BY DEF OInv, Types
<1>2. Types'
  BY <1>1 DEF OInv, Types, ScriptType
<1>3. Safe'
  BY <1>1 DEF OInv, Safe, InAside, UpdateAt, RestoreAt, MovedAside
<1>4. disk.bin \in Versions /\ disk.bin \in Nat
  BY OperationsAssumption DEF OInv, Types
<1>5. disk.db # Absent => disk.db.schema \in Nat
  BY DEF OInv, Types, File, Database
<1>6. db # Absent => db.schema \in Nat
  BY DEF File, Database
<1>7. service.version = disk.bin /\ Migrated => service'.version = disk'.bin /\ Migrated'
  BY <1>1, <1>4, <1>5, <1>6 DEF Migrated
<1>8. ASSUME disk.bin = ledger.had.bin, Carries(disk.db)
      PROVE  Carries(disk.db)'
  BY <1>1, <1>8 DEF Carries
<1>9. UpdateOnItsWay'
  BY <1>1, <1>7, <1>8 DEF OInv, OnItsWay, UpdateOnItsWay, UpdateAt, Carries
<1>10. RestoreOnItsWay'
  <2>1. Dir' = Dir
    BY <1>1 DEF Dir
  <2>2. QED
    BY <1>1, <1>7, <1>8, <2>1
       DEF OInv, OnItsWay, RestoreOnItsWay, RestoreAt, MovedAside, Carries
<1>11. QED
  BY <1>1, <1>2, <1>3, <1>9, <1>10 DEF OInv, OnItsWay

LEMMA RestartKeeps == OInv /\ RestartOnFailure => OInv'
<1> SUFFICES ASSUME OInv, RestartOnFailure PROVE OInv'
  OBVIOUS
<1>1. PICK migrates \in BOOLEAN, answers \in BOOLEAN :
        /\ answers => migrates
        /\ service' = [version |-> disk.bin, healthy |-> answers]
        /\ disk' = IF migrates THEN [disk EXCEPT !.db = Opened(disk.db, disk.bin)] ELSE disk
  BY DEF RestartOnFailure, Started, OInv, Types
<1> DEFINE db == IF migrates THEN Opened(disk.db, disk.bin) ELSE disk.db
<1>2. disk.db \in File /\ disk.bin \in Versions /\ disk.nightly \in Archive \cup {Absent}
  BY DEF OInv, Types
<1>3. disk' = [disk EXCEPT !.db = db, !.nightly = disk.nightly]
  BY <1>1 DEF OInv, Types
<1>4. /\ db \in File
      /\ Saved(disk.db) = Saved(db)
      /\ Opened(db, disk.bin).schema = Opened(disk.db, disk.bin).schema
      /\ disk.db # Absent => db # Absent /\ db.schema >= disk.db.schema
      /\ answers => db # Absent /\ db.schema >= disk.bin
  <2>1. disk.db # Absent => disk.db.schema >= disk.db.schema
    BY <1>2 DEF File, Database
  <2>2. QED
    BY <1>1, <1>2, <2>1, OpenedFacts DEF File
<1>5. /\ UNCHANGED <<script, ledger>>
      /\ ledger \in [runs : Nat, writes : Nat, saved : SUBSET Nat, said : {ledger.said},
                     had : {ledger.had}]
  BY DEF RestartOnFailure, OInv, Types
<1>6. service' \in [version : Versions \cup {Absent}, healthy : BOOLEAN]
  BY <1>1, <1>2
<1> HIDE DEF db
<1>7. QED
  BY <1>1, <1>2, <1>3, <1>4, <1>5, <1>6, GrowthKeeps

LEMMA UserWritesKeeps == OInv /\ UserWrites => OInv'
<1> SUFFICES ASSUME OInv, UserWrites PROVE OInv'
  OBVIOUS
<1> DEFINE db == [disk.db EXCEPT !.saved = @ \cup {ledger.writes + 1}]
<1>1. /\ disk.db \in Database /\ disk.db # Absent /\ disk.bin \in Versions
      /\ disk.nightly \in Archive \cup {Absent}
      /\ ledger.writes \in Nat
  BY DEF OInv, Types, File, UserWrites
<1>2. disk' = [disk EXCEPT !.db = db, !.nightly = disk.nightly]
  BY DEF UserWrites, OInv, Types
<1>3. /\ db \in Database /\ db # Absent /\ db.schema = disk.db.schema
      /\ Saved(disk.db) \subseteq Saved(db)
  BY <1>1, OperationsAssumption DEF Database, Saved
<1>4. Opened(db, disk.bin).schema = Opened(disk.db, disk.bin).schema
  <2>1. /\ Opened(disk.db, disk.bin).schema = Max({disk.db.schema, disk.bin})
        /\ Opened(db, disk.bin).schema = Max({db.schema, disk.bin})
    BY <1>1, <1>3 DEF Opened, Database
  <2>2. QED
    BY <1>3, <2>1
<1>5. /\ UNCHANGED <<script, service>> /\ ledger'.saved = ledger.saved
      /\ ledger' \in [runs : Nat, writes : Nat, saved : SUBSET Nat, said : {ledger.said},
                      had : {ledger.had}]
  <2>1. ledger \in [runs : Nat, writes : Nat, saved : SUBSET Nat, said : {ledger.said},
                    had : {ledger.had}]
    BY DEF OInv, Types
  <2>2. ledger' = [ledger EXCEPT !.writes = ledger.writes + 1] /\ UNCHANGED <<script, service>>
    BY DEF UserWrites
  <2>3. QED
    BY <1>1, <2>1, <2>2
<1>6. service \in [version : Versions \cup {Absent}, healthy : BOOLEAN]
  BY DEF OInv, Types
<1>7. db \in File /\ db.schema >= disk.db.schema
  BY <1>1, <1>3 DEF File, Database
<1> HIDE DEF db
<1>8. QED
  BY <1>1, <1>2, <1>3, <1>4, <1>5, <1>6, <1>7, GrowthKeeps

LEMMA BackupKeeps == OInv /\ Backup => OInv'
<1> SUFFICES ASSUME OInv, Backup PROVE OInv'
  OBVIOUS
<1> DEFINE db == Opened(disk.db, disk.bin)
           n  == [db |-> db, env |-> disk.env, secret |-> Absent]
<1>1. /\ disk.db \in File /\ disk.bin \in Versions /\ disk.env \in Setting
      /\ service \in [version : Versions \cup {Absent}, healthy : BOOLEAN]
      /\ ledger \in [runs : Nat, writes : Nat, saved : SUBSET Nat, said : {ledger.said},
                     had : {ledger.had}]
  BY DEF OInv, Types
<1>2. disk' = [disk EXCEPT !.db = db, !.nightly = n] /\ UNCHANGED <<service, script, ledger>>
  BY DEF Backup
<1>3. /\ db \in Database /\ db # Absent
      /\ Saved(disk.db) = Saved(db)
      /\ Opened(db, disk.bin).schema = Opened(disk.db, disk.bin).schema
      /\ disk.db # Absent => db.schema >= disk.db.schema
  BY <1>1, OpenedFacts
<1>4. db \in File /\ n \in Archive
  BY <1>1, <1>3 DEF File, Archive, Setting
<1> HIDE DEF db, n
<1>5. QED
  BY <1>1, <1>2, <1>3, <1>4, GrowthKeeps

\* Where no script runs any more, what is left to keep is what was saved.
LEMMA EndsKeeps ==
  ASSUME OInv, script' = NoScript, NEW db \in File, disk' = [disk EXCEPT !.db = db],
         Saved(disk.db) = Saved(db),
         service' \in [version : Versions \cup {Absent}, healthy : BOOLEAN],
         NEW message \in {"nothing", "updated", "restored", "undone", "unhealthy"},
         ledger' = [ledger EXCEPT !.said = message]
  PROVE  OInv'
<1>1. Types'
  BY DEF OInv, Types, ScriptType
<1>2. /\ ledger'.saved = ledger.saved /\ disk'.aside = disk.aside
      /\ disk'.db = db /\ script'.of = "none"
  BY DEF OInv, Types, NoScript
<1>3. Safe'
  BY <1>2 DEF OInv, Safe, InAside, UpdateAt, RestoreAt, MovedAside
<1>4. OnItsWay'
  BY <1>2 DEF OnItsWay, UpdateOnItsWay, RestoreOnItsWay, UpdateAt, RestoreAt, MovedAside
<1>5. QED
  BY <1>1, <1>3, <1>4 DEF OInv

LEMMA FaultsKeep == OInv /\ (Systemctl \/ Interrupt \/ Reboot) => OInv'
<1> SUFFICES ASSUME OInv, Systemctl \/ Interrupt \/ Reboot PROVE OInv'
  OBVIOUS
<1>1. /\ disk.db \in File /\ disk.bin \in Versions
      /\ service \in [version : Versions \cup {Absent}, healthy : BOOLEAN]
      /\ ledger.said \in {"nothing", "updated", "restored", "undone", "unhealthy"}
  BY DEF OInv, Types
<1>2. CASE Interrupt
  <2>1. disk' = [disk EXCEPT !.db = disk.db]
    BY <1>2 DEF Interrupt, OInv, Types
  <2>2. QED
    BY <1>1, <1>2, <2>1, EndsKeeps DEF Interrupt, Ends
<1>3. CASE Systemctl \/ Reboot
  <2>1. PICK db \in File : disk' = [disk EXCEPT !.db = db] /\ Saved(disk.db) = Saved(db)
    <3>1. Opened(disk.db, disk.bin) \in File /\ Saved(Opened(disk.db, disk.bin)) = Saved(disk.db)
      BY <1>1, OpenedFacts DEF File
    <3>2. \/ disk' = [disk EXCEPT !.db = disk.db]
          \/ disk' = [disk EXCEPT !.db = Opened(disk.db, disk.bin)]
      BY <1>3 DEF Systemctl, Reboot, Started, OInv, Types
    <3>3. QED
      BY <1>1, <3>1, <3>2
  <2>2. service' \in [version : Versions \cup {Absent}, healthy : BOOLEAN]
    BY <1>1, <1>3 DEF Systemctl, Reboot, Started
  <2>3. script' = NoScript
    BY <1>3 DEF Systemctl, Reboot, Ends
  <2>4. PICK message \in {"nothing", "updated", "restored", "undone", "unhealthy"} :
          ledger' = [ledger EXCEPT !.said = message]
    <3>1. ledger = [ledger EXCEPT !.said = ledger.said]
      BY DEF OInv, Types
    <3>2. QED
      BY <1>1, <1>3, <3>1 DEF Systemctl, Reboot, Ends
  <2>5. QED
    BY <2>1, <2>2, <2>3, <2>4, EndsKeeps
<1>4. QED
  BY <1>2, <1>3

LEMMA BeginKeeps ==
  ASSUME OInv, Begins(script'), ScriptType', script'.at = 1, script' # NoScript
  PROVE  OInv'
<1>1. UNCHANGED <<disk, service>>
  BY DEF Begins
<1>2. /\ ledger'.had = [bin |-> disk.bin, db |-> disk.db, env |-> disk.env,
                        secret |-> disk.secret]
      /\ ledger'.saved = ledger.saved \cup Saved(disk.db)
      /\ ledger'.said = "nothing"
  BY DEF Begins, OInv, Types, Saved
<1>3. Types'
  <2>1. Saved(disk.db) \subseteq Nat
    BY DEF OInv, Types, Saved, File, Database
  <2>2. ledger' = [ledger EXCEPT !.runs = @ + 1, !.said = "nothing",
                     !.had = [bin |-> disk.bin, db |-> disk.db, env |-> disk.env,
                              secret |-> disk.secret],
                     !.saved = ledger.saved \cup Saved(disk.db)]
    BY DEF Begins, Saved, OInv, Types
  <2>3. ledger.runs + 1 \in Nat /\ ledger.saved \cup Saved(disk.db) \in SUBSET Nat
    BY <2>1 DEF OInv, Types
  <2>4. [bin |-> disk.bin, db |-> disk.db, env |-> disk.env, secret |-> disk.secret]
          \in [bin : Versions, db : File, env : Setting, secret : Setting]
    BY DEF OInv, Types
  <2> DEFINE had == [bin |-> disk.bin, db |-> disk.db, env |-> disk.env,
                     secret |-> disk.secret]
             saved == ledger.saved \cup Saved(disk.db)
  <2> HIDE DEF had, saved
  <2>5. ledger' = [ledger EXCEPT !.runs = ledger.runs + 1, !.said = "nothing",
                                 !.had = had, !.saved = saved]
    BY <2>2 DEF had, saved
  <2>6. ledger' \in [runs : Nat, writes : Nat, saved : SUBSET Nat,
                     said : {"nothing", "updated", "restored", "undone", "unhealthy"},
                     had : [bin : Versions, db : File, env : Setting, secret : Setting]]
    BY <2>3, <2>4, <2>5 DEF had, saved, OInv, Types
  <2>7. QED
    BY <1>1, <2>6 DEF OInv, Types
<1>4. Safe'
  <2>1. \A x \in ledger.saved \cup Saved(disk.db) : x \in Saved(disk.db) \/ InAside(x)
    BY DEF OInv, Safe
  <2>2. QED
    BY <1>1, <1>2, <2>1 DEF Safe, InAside, UpdateAt, RestoreAt, MovedAside
<1>5. Carries(disk.db)'
  BY <1>1, <1>2 DEF Carries
<1>6. OnItsWay'
  BY <1>1, <1>2, <1>5
     DEF OnItsWay, UpdateOnItsWay, RestoreOnItsWay, UpdateAt, RestoreAt, MovedAside
<1>7. QED
  BY <1>3, <1>4, <1>6 DEF OInv

LEMMA BeginsKeep ==
  ASSUME OInv,
         \/ \E v \in Versions : BeginUpdate(v)
         \/ \E archive \in {disk.nightly, disk.kept}, withConfig \in BOOLEAN :
              BeginRestore(archive, withConfig)
  PROVE  OInv'
<1>1. CASE \E v \in Versions : BeginUpdate(v)
  <2>1. PICK v \in Versions : Begins([NoScript EXCEPT !.of = "update", !.version = v])
    BY <1>1 DEF BeginUpdate
  <2>2. script' = [of |-> "update", at |-> 1, version |-> v, archive |-> Absent]
    BY <2>1 DEF Begins, NoScript
  <2>3. ScriptType' /\ script'.of # "none" /\ script'.at = 1
    BY <2>2 DEF ScriptType
  <2>4. [NoScript EXCEPT !.of = "update", !.version = v] = script'
    BY <2>1 DEF Begins
  <2>5. script'.of # NoScript.of
    BY <2>3 DEF NoScript
  <2>6. Begins(script') /\ script' # NoScript
    BY <2>1, <2>4, <2>5
  <2>7. QED
    BY <2>3, <2>6, BeginKeeps
<1>2. CASE \E archive \in {disk.nightly, disk.kept}, withConfig \in BOOLEAN :
              BeginRestore(archive, withConfig)
  <2>1. PICK archive \in {disk.nightly, disk.kept}, withConfig \in BOOLEAN :
          BeginRestore(archive, withConfig)
    BY <1>2
  <2>2. archive \in Archive
    BY <2>1 DEF BeginRestore, OInv, Types
  <2>3. script' = [of |-> IF withConfig THEN "restoreWithConfig" ELSE "restore", at |-> 1,
                   version |-> Absent, archive |-> archive]
    BY <2>1 DEF BeginRestore, Begins, NoScript
  <2>4. ScriptType' /\ script'.of # "none" /\ script'.at = 1
    BY <2>2, <2>3 DEF ScriptType
  <2>5. Begins(script')
    BY <2>1 DEF BeginRestore, Begins
  <2>6. script' # NoScript
    BY <2>4 DEF NoScript
  <2>7. QED
    BY <2>4, <2>5, <2>6, BeginKeeps
<1>3. QED
  BY <1>1, <1>2

-----------------------------------------------------------------------------
(* The commands *)

\* After a command that is not the last the script is one place further.
LEMMA AdvanceType ==
  ASSUME OInv, Advance,
         \/ UpdateAt(1, 9)
         \/ RestoreAt(1, 9, 1, 12)
  PROVE  /\ ScriptType'
         /\ script'.of = script.of /\ script'.at = script.at + 1
         /\ script'.version = script.version /\ script'.archive = script.archive
         /\ script # NoScript
         /\ script.at \in Nat
<1>1. /\ script' = [script EXCEPT !.at = @ + 1]
      /\ script.of # NoScript.of /\ ScriptType
  BY DEF Advance, OInv, Types, UpdateAt, RestoreAt, NoScript
<1>2. CASE script.of = "update"
  <2>1. /\ script \in [of : {"update"}, at : 1..10, version : Versions, archive : {Absent}]
        /\ script.at \in 1..9
    BY <1>1, <1>2 DEF ScriptType, UpdateAt, RestoreAt
  <2>2. script' \in [of : {"update"}, at : 1..10, version : Versions, archive : {Absent}]
    BY <1>1, <2>1
  <2>3. QED
    BY <1>1, <2>1, <2>2 DEF ScriptType
<1>3. CASE script.of = "restore"
  <2>1. /\ script \in [of : {"restore"}, at : 1..10, version : {Absent}, archive : Archive]
        /\ script.at \in 1..9
    BY <1>1, <1>3 DEF ScriptType, UpdateAt, RestoreAt
  <2>2. script' \in [of : {"restore"}, at : 1..10, version : {Absent}, archive : Archive]
    BY <1>1, <2>1
  <2>3. QED
    BY <1>1, <2>1, <2>2 DEF ScriptType
<1>4. CASE script.of = "restoreWithConfig"
  <2>1. /\ script \in [of : {"restoreWithConfig"}, at : 1..13, version : {Absent},
                       archive : Archive]
        /\ script.at \in 1..12
    BY <1>1, <1>4 DEF ScriptType, UpdateAt, RestoreAt
  <2>2. script' \in [of : {"restoreWithConfig"}, at : 1..13, version : {Absent},
                    archive : Archive]
    BY <1>1, <2>1
  <2>3. QED
    BY <1>1, <2>1, <2>2 DEF ScriptType
<1>5. QED
  BY <1>1, <1>2, <1>3, <1>4 DEF UpdateAt, RestoreAt

LEMMA SnapshotKeeps == OInv /\ Snapshot => OInv'
<1> SUFFICES ASSUME OInv, Snapshot PROVE OInv'
  OBVIOUS
<1> DEFINE db  == Opened(disk.db, disk.bin)
           all == Append(disk.snapshots, db)
           new == IF Len(all) > 3 THEN Tail(all) ELSE all
<1>1. /\ disk.db \in File /\ disk.bin \in Versions /\ disk.snapshots \in Seq(Database)
      /\ UpdateAt(1, 1) /\ Advance
  BY Places DEF OInv, Types, Snapshot
<1>2. disk' = [disk EXCEPT !.db = db, !.snapshots = new] /\ UNCHANGED service
  BY DEF Snapshot
<1>3. /\ db \in Database /\ db \in File /\ db # Absent
      /\ Saved(db) = Saved(disk.db) /\ db.saved = Saved(disk.db)
      /\ Opened(db, disk.bin).schema = Opened(disk.db, disk.bin).schema
  BY <1>1, OpenedFacts DEF File
<1> HIDE DEF db
<1>4. new \in Seq(Database) /\ new # <<>> /\ Last(new) = db
  <2>1. all \in Seq(Database) /\ Len(all) \in Nat /\ Len(all) >= 1 /\ all[Len(all)] = db
    BY <1>1, <1>3
  <2> HIDE DEF all
  <2>2. CASE Len(all) > 3
    <3>1. /\ all # <<>> /\ Tail(all) \in Seq(Database) /\ Len(Tail(all)) = Len(all) - 1
      BY <2>1, <2>2
    <3>2. Len(all) - 1 \in 1..Len(Tail(all)) /\ (Len(all) - 1) + 1 = Len(all)
      BY <2>1, <2>2, <3>1
    <3>3. Tail(all)[Len(all) - 1] = all[(Len(all) - 1) + 1]
      BY <2>1, <3>1, <3>2
    <3>4. Len(Tail(all)) # Len(<<>>) /\ Last(Tail(all)) = db
      BY <2>1, <2>2, <3>1, <3>2, <3>3 DEF Last
    <3>5. new = Tail(all)
      BY <2>2
    <3>6. QED
      BY <3>1, <3>4, <3>5
  <2>3. CASE ~(Len(all) > 3)
    BY <2>1, <2>3 DEF Last
  <2>4. QED
    BY <2>2, <2>3
<1> HIDE DEF new
<1>5. /\ disk'.db = db /\ disk'.bin = disk.bin /\ disk'.env = disk.env
      /\ disk'.snapshots = new /\ disk'.aside = disk.aside
  BY <1>2 DEF OInv, Types
<1>6. /\ ScriptType' /\ script'.of = "update" /\ script'.at = 2 /\ script # NoScript
      /\ UNCHANGED ledger
  BY <1>1, AdvanceType DEF UpdateAt, Advance
<1>7. Types'
  BY <1>2, <1>3, <1>4, <1>6 DEF OInv, Types
<1>8. Safe'
  BY <1>3, <1>4, <1>5, <1>6 DEF OInv, Safe, InAside, UpdateAt, RestoreAt, MovedAside
<1>9. OnItsWay'
  BY <1>1, <1>3, <1>4, <1>5, <1>6
     DEF OInv, OnItsWay, UpdateOnItsWay, RestoreOnItsWay, UpdateAt, RestoreAt,
         MovedAside, Carries
<1>10. QED
  BY <1>7, <1>8, <1>9 DEF OInv

\* The commands of update.sh that change the versions.
LEMMA VersionsKeep ==
  ASSUME OInv, UpdateAt(2, 3) \/ UpdateAt(7, 7), Advance, UNCHANGED service,
         NEW bin \in Versions, NEW previous \in Versions \cup {Absent},
         disk' = [disk EXCEPT !.bin = bin, !.previous = previous],
         script.at = 2 => bin = disk.bin /\ previous = disk.bin,
         script.at = 3 => bin = script.version /\ previous = disk.previous,
         script.at = 7 => bin = ledger.had.bin
  PROVE  OInv'
<1>1. script.of = "update" /\ script.at \in {2, 3, 7}
  BY DEF UpdateAt
<1>2. /\ ScriptType' /\ script'.of = "update" /\ script'.at = script.at + 1
      /\ script'.version = script.version
      /\ script # NoScript
      /\ UNCHANGED ledger
  BY <1>1, AdvanceType DEF UpdateAt, Advance
<1>3. /\ disk'.db = disk.db /\ disk'.bin = bin /\ disk'.env = disk.env
      /\ disk'.snapshots = disk.snapshots /\ disk'.aside = disk.aside
      /\ disk'.previous = previous
  BY DEF OInv, Types
<1>4. Types'
  BY <1>2 DEF OInv, Types
<1>5. Safe'
  BY <1>1, <1>2, <1>3 DEF OInv, Safe, InAside, UpdateAt, RestoreAt, MovedAside
<1>6. OnItsWay'
  BY <1>1, <1>2, <1>3
     DEF OInv, OnItsWay, UpdateOnItsWay, RestoreOnItsWay, UpdateAt, RestoreAt,
         MovedAside, Carries
<1>7. QED
  BY <1>4, <1>5, <1>6 DEF OInv

LEMMA SwapsKeep == OInv /\ (KeepPrevious \/ Swap \/ SwapBack) => OInv'
<1> SUFFICES ASSUME OInv, KeepPrevious \/ Swap \/ SwapBack PROVE OInv'
  OBVIOUS
<1>1. /\ disk.bin \in Versions /\ ledger.had.bin \in Versions
      /\ disk.previous \in Versions \cup {Absent}
      /\ ScriptType
  BY DEF OInv, Types
<1>2. CASE KeepPrevious
  <2>1. UpdateAt(2, 2)
    BY <1>1, <1>2, Places DEF KeepPrevious
  <2>2. script.at = 2 /\ script.at # 3 /\ script.at # 7 /\ UpdateAt(2, 3)
    BY <2>1 DEF UpdateAt
  <2>3. disk' = [disk EXCEPT !.bin = disk.bin, !.previous = disk.bin]
    BY <1>2 DEF KeepPrevious, OInv, Types
  <2>4. QED
    BY <1>1, <1>2, <2>2, <2>3, VersionsKeep, Zenon DEF KeepPrevious
<1>3. CASE Swap
  <2>1. UpdateAt(3, 3)
    BY <1>1, <1>3, Places DEF Swap
  <2>2. /\ script.at = 3 /\ script.at # 2 /\ script.at # 7 /\ UpdateAt(2, 3)
        /\ script.version \in Versions
    BY <1>1, <2>1 DEF UpdateAt, ScriptType, NoScript
  <2>3. disk' = [disk EXCEPT !.bin = script.version, !.previous = disk.previous]
    BY <1>3 DEF Swap, OInv, Types
  <2>4. QED
    BY <1>1, <1>3, <2>2, <2>3, VersionsKeep, Zenon DEF Swap
<1>4. CASE SwapBack
  <2>1. UpdateAt(7, 7)
    BY <1>1, <1>4, Places DEF SwapBack
  <2>2. /\ script.at = 7 /\ script.at # 2 /\ script.at # 3
        /\ disk.previous = ledger.had.bin
    BY <2>1 DEF UpdateAt, OInv, OnItsWay, UpdateOnItsWay
  <2>3. disk' = [disk EXCEPT !.bin = ledger.had.bin, !.previous = Absent]
    BY <1>4, <2>2 DEF SwapBack
  <2>4. QED
    BY <1>1, <1>4, <2>1, <2>2, <2>3, VersionsKeep, Zenon DEF SwapBack
<1>5. QED
  BY <1>2, <1>3, <1>4

LEMMA RewindKeeps == OInv /\ Rewind => OInv'
<1> SUFFICES ASSUME OInv, Rewind PROVE OInv'
  OBVIOUS
<1> DEFINE db == Last(disk.snapshots)
<1>1. UpdateAt(8, 8) /\ Advance /\ UNCHANGED service /\ disk' = [disk EXCEPT !.db = db]
  BY Places DEF OInv, Types, Rewind
<1>2. disk.snapshots # <<>> /\ disk.snapshots \in Seq(Database) /\ Carries(db)
  BY <1>1 DEF OInv, Types, Safe, OnItsWay, UpdateOnItsWay, UpdateAt
<1>3. db \in Database /\ db \in File /\ db.saved = Saved(db)
  BY <1>2, OperationsAssumption DEF Last, File, Saved
<1>4. \A x \in ledger.saved : x \in Saved(db) \/ InAside(x)
  BY <1>1, <1>3 DEF OInv, Safe, UpdateAt
<1> HIDE DEF db
<1>5. /\ ScriptType' /\ script'.of = "update" /\ script'.at = 9 /\ script # NoScript
      /\ UNCHANGED ledger
  BY <1>1, AdvanceType DEF UpdateAt, Advance
<1>6. /\ disk'.db = db /\ disk'.bin = disk.bin /\ disk'.env = disk.env
      /\ disk'.aside = disk.aside
  BY <1>1 DEF OInv, Types
<1>7. Types'
  BY <1>1, <1>3, <1>5 DEF OInv, Types
<1>8. Safe'
  BY <1>4, <1>5, <1>6 DEF Safe, InAside, UpdateAt, RestoreAt, MovedAside
<1>9. OnItsWay'
  BY <1>1, <1>2, <1>5, <1>6
     DEF OInv, OnItsWay, UpdateOnItsWay, RestoreOnItsWay, UpdateAt, RestoreAt,
         MovedAside, Carries
<1>10. QED
  BY <1>7, <1>8, <1>9 DEF OInv

LEMMA MoveAsideKeeps == OInv /\ MoveAside => OInv'
<1> SUFFICES ASSUME OInv, MoveAside PROVE OInv'
  OBVIOUS
<1> DEFINE d == [db |-> disk.db, env |-> Absent]
<1>1. RestoreAt(2, 2, 2, 2) /\ Advance /\ UNCHANGED service
  BY Places DEF OInv, Types, MoveAside
<1>2. /\ disk' = [disk EXCEPT !.db = Absent, !.aside = Append(disk.aside, d)]
      /\ disk.aside \in Seq(Kept) /\ d \in Kept
  BY DEF MoveAside, OInv, Types, Kept, Setting
<1>3. /\ ScriptType' /\ script'.of = script.of /\ script'.at = 3 /\ script # NoScript
      /\ script.of \in {"restore", "restoreWithConfig"} /\ script.at = 2
      /\ UNCHANGED ledger
  BY <1>1, AdvanceType DEF RestoreAt, Advance
<1>4. d.db = disk.db
  OBVIOUS
<1> HIDE DEF d
<1>5. /\ disk'.bin = disk.bin /\ disk'.env = disk.env
      /\ disk'.aside = Append(disk.aside, d) /\ disk'.db = Absent
  BY <1>2 DEF OInv, Types
<1>6. /\ disk'.aside \in Seq(Kept) /\ disk'.aside # <<>>
      /\ Len(disk'.aside) = Len(disk.aside) + 1 /\ Len(disk.aside) \in Nat
      /\ \A i \in 1..Len(disk.aside) : disk'.aside[i] = disk.aside[i]
      /\ disk'.aside[Len(disk.aside) + 1] = d
  BY <1>2, <1>5
<1>7. Types'
  BY <1>1, <1>2, <1>3, <1>6 DEF OInv, Types, File
<1>8. \A x \in ledger.saved : InAside(x)'
  <2> TAKE x \in ledger.saved
  <2>1. CASE x \in Saved(disk.db)
    BY <1>4, <1>6, <2>1 DEF InAside
  <2>2. CASE InAside(x)
    BY <1>6, <2>2 DEF InAside
  <2>3. QED
    BY <2>1, <2>2 DEF OInv, Safe
<1>9. Safe'
  BY <1>3, <1>6, <1>8 DEF Safe, InAside, UpdateAt
<1>10. Carries(disk.aside[Dir].db)'
  <2>1. Carries(disk.db)
    BY <1>1 DEF OInv, OnItsWay, RestoreOnItsWay, RestoreAt
  <2>2. disk'.aside[Dir'].db = disk.db
    BY <1>4, <1>6 DEF Dir
  <2>3. QED
    BY <1>3, <2>1, <2>2 DEF Carries
<1>11. OnItsWay'
  BY <1>1, <1>3, <1>5, <1>10
     DEF OInv, OnItsWay, UpdateOnItsWay, RestoreOnItsWay, UpdateAt, RestoreAt,
         MovedAside
<1>12. QED
  BY <1>7, <1>9, <1>11 DEF OInv

LEMMA InstallKeeps == OInv /\ Install => OInv'
<1> SUFFICES ASSUME OInv, Install PROVE OInv'
  OBVIOUS
<1> DEFINE db == script.archive.db
<1>1. /\ RestoreAt(3, 3, 3, 3) /\ Advance /\ UNCHANGED service
      /\ disk' = [disk EXCEPT !.db = db]
  BY Places DEF OInv, Types, Install
<1>2. /\ ScriptType' /\ script'.of = script.of /\ script'.at = 4 /\ script # NoScript
      /\ script'.archive = script.archive /\ script.at = 3
      /\ script.of \in {"restore", "restoreWithConfig"}
      /\ UNCHANGED ledger
  BY <1>1, AdvanceType DEF RestoreAt, Advance
<1>3. db \in File
  BY <1>2 DEF OInv, Types, ScriptType, Archive, File, NoScript
<1>4. /\ disk'.db = db /\ disk'.bin = disk.bin /\ disk'.env = disk.env
      /\ disk'.aside = disk.aside
  BY <1>1 DEF OInv, Types
<1>5. Types'
  BY <1>1, <1>2, <1>3 DEF OInv, Types
<1>6. Safe'
  BY <1>2, <1>4 DEF OInv, Safe, InAside, UpdateAt, RestoreAt, MovedAside
<1>7. OnItsWay'
  BY <1>1, <1>2, <1>4
     DEF OInv, OnItsWay, UpdateOnItsWay, RestoreOnItsWay, UpdateAt, RestoreAt,
         MovedAside, Carries, Dir
<1>8. QED
  BY <1>5, <1>6, <1>7 DEF OInv

LEMMA ClearKeeps == OInv /\ Clear => OInv'
<1> SUFFICES ASSUME OInv, Clear PROVE OInv'
  OBVIOUS
<1>1. /\ RestoreAt(7, 7, 9, 9) /\ Advance /\ UNCHANGED service
      /\ disk' = [disk EXCEPT !.db = Absent]
  BY Places DEF OInv, Types, Clear
<1>2. /\ ScriptType' /\ script'.of = script.of /\ script'.at = script.at + 1
      /\ script # NoScript
      /\ script'.archive = script.archive
      /\ \/ script.of = "restore" /\ script.at = 7
         \/ script.of = "restoreWithConfig" /\ script.at = 9
      /\ UNCHANGED ledger
  BY <1>1, AdvanceType DEF RestoreAt, Advance
<1>3. /\ disk'.db = Absent /\ disk'.bin = disk.bin /\ disk'.env = disk.env
      /\ disk'.aside = disk.aside
  BY <1>1 DEF OInv, Types
<1>4. Types'
  BY <1>1, <1>2 DEF OInv, Types, File
<1>5. Safe'
  BY <1>2, <1>3 DEF OInv, Safe, InAside, UpdateAt, RestoreAt, MovedAside
<1>6. Opened(Absent, disk.bin).schema = disk.bin
  BY DEF Opened
<1>7. OnItsWay'
  BY <1>1, <1>2, <1>3, <1>6
     DEF OInv, OnItsWay, UpdateOnItsWay, RestoreOnItsWay, UpdateAt, RestoreAt,
         MovedAside, Carries, Dir
<1>8. QED
  BY <1>4, <1>5, <1>7 DEF OInv

LEMMA MoveBackKeeps == OInv /\ MoveBack => OInv'
<1> SUFFICES ASSUME OInv, MoveBack PROVE OInv'
  OBVIOUS
<1>1. RestoreAt(8, 8, 10, 10) /\ Advance /\ UNCHANGED service
  BY Places DEF OInv, Types, MoveBack
<1>2. /\ ScriptType' /\ script'.of = script.of /\ script'.at = script.at + 1
      /\ script # NoScript
      /\ script'.archive = script.archive
      /\ \/ script.of = "restore" /\ script.at = 8
         \/ script.of = "restoreWithConfig" /\ script.at = 10
      /\ UNCHANGED ledger
  BY <1>1, AdvanceType DEF RestoreAt, Advance
<1>3. /\ disk.aside \in Seq(Kept) /\ disk.aside # <<>>
      /\ \A x \in ledger.saved : InAside(x)
      /\ Carries(disk.aside[Dir].db)
      /\ disk.bin = ledger.had.bin
      /\ Opened(disk.db, disk.bin).schema = disk.bin
      /\ script.of = "restore" => disk.env = ledger.had.env
      /\ script.of = "restoreWithConfig" =>
           disk.aside[Dir].env = ledger.had.env /\ disk.env = script.archive.env
  BY <1>2 DEF OInv, Types, Safe, OnItsWay, RestoreOnItsWay, RestoreAt, MovedAside
<1>4. Dir \in 1..Len(disk.aside) /\ disk.aside[Dir] \in Kept
  BY <1>3 DEF Dir
<1>5. CASE disk.aside[Dir].db = Absent
  <2>1. disk' = disk
    BY <1>5 DEF MoveBack
  <2>2. Carries(disk.db)
    BY <1>3, <1>5 DEF Carries, Opened, Saved
  <2>3. Types'
    BY <1>1, <1>2, <2>1 DEF OInv, Types
  <2>4. Safe'
    BY <1>2, <1>3, <2>1 DEF Safe, InAside, UpdateAt, RestoreAt, MovedAside
  <2>5. OnItsWay'
    BY <1>1, <1>2, <1>3, <2>1, <2>2
       DEF OInv, OnItsWay, UpdateOnItsWay, RestoreOnItsWay, UpdateAt, RestoreAt,
           MovedAside, Carries, Dir
  <2>6. QED
    BY <2>3, <2>4, <2>5 DEF OInv
<1>6. CASE disk.aside[Dir].db # Absent
  <2> DEFINE db    == disk.aside[Dir].db
             d     == [disk.aside[Dir] EXCEPT !.db = Absent]
             aside == [disk.aside EXCEPT ![Dir] = d]
  <2>1. disk' = [disk EXCEPT !.db = db, !.aside = aside]
    BY <1>6 DEF MoveBack
  <2>2. /\ db \in File /\ d \in Kept /\ d.env = disk.aside[Dir].env
        /\ aside \in Seq(Kept) /\ Len(aside) = Len(disk.aside) /\ aside # <<>>
        /\ aside[Dir] = d
        /\ \A i \in 1..Len(disk.aside) : i # Dir => aside[i] = disk.aside[i]
    BY <1>3, <1>4 DEF Kept, File
  <2>3. Carries(db)
    BY <1>3
  <2>4. \A x : InAside(x) =>
          x \in Saved(db) \/ \E i \in 1..Len(aside) : x \in Saved(aside[i].db)
    BY <2>2 DEF InAside
  <2> HIDE DEF db, d, aside
  <2>5. /\ disk'.db = db /\ disk'.bin = disk.bin /\ disk'.env = disk.env
        /\ disk'.aside = aside
    BY <2>1 DEF OInv, Types
  <2>6. Types'
    BY <1>1, <1>2, <2>1, <2>2 DEF OInv, Types
  <2>7. Safe'
    BY <1>2, <1>3, <2>4, <2>5 DEF Safe, InAside, UpdateAt, RestoreAt, MovedAside
  <2>8. Dir' = Dir
    BY <2>2, <2>5 DEF Dir
  <2>9. OnItsWay'
    BY <1>1, <1>2, <1>3, <2>2, <2>3, <2>5, <2>8
       DEF OInv, OnItsWay, UpdateOnItsWay, RestoreOnItsWay, UpdateAt, RestoreAt,
           MovedAside, Carries
  <2>10. QED
    BY <2>6, <2>7, <2>9 DEF OInv
<1>7. QED
  BY <1>5, <1>6

\* The commands of restore.sh that change the configuration.
LEMMA ConfigKeeps ==
  ASSUME OInv, RestoreAt(11, 10, 4, 5) \/ RestoreAt(11, 10, 11, 11), Advance,
         UNCHANGED service,
         NEW env \in Setting, NEW kept \in Setting, NEW secret \in Setting,
         disk' = [disk EXCEPT !.env = env, !.secret = secret, !.aside[Dir].env = kept],
         script.at = 4 => kept = disk.env /\ env = script.archive.env,
         script.at = 5 => kept = disk.aside[Dir].env /\ env = disk.env,
         script.at = 11 => env = disk.aside[Dir].env
  PROVE  OInv'
<1>1. script.of = "restoreWithConfig" /\ script.at \in {4, 5, 11}
  BY DEF RestoreAt
<1>2. /\ ScriptType' /\ script'.of = script.of /\ script'.at = script.at + 1
      /\ script # NoScript
      /\ script'.archive = script.archive
      /\ UNCHANGED ledger
  BY <1>1, AdvanceType DEF RestoreAt, Advance
<1>3. disk.aside \in Seq(Kept) /\ disk.aside # <<>>
  BY <1>1 DEF OInv, Types, Safe, OnItsWay, RestoreOnItsWay, RestoreAt, MovedAside
<1>4. Dir \in 1..Len(disk.aside) /\ disk.aside[Dir] \in Kept
  BY <1>3 DEF Dir
<1> DEFINE d     == [disk.aside[Dir] EXCEPT !.env = kept]
           aside == [disk.aside EXCEPT ![Dir] = d]
<1>5. disk' = [disk EXCEPT !.env = env, !.secret = secret, !.aside = aside]
  OBVIOUS
<1>6. /\ d \in Kept /\ d.env = kept /\ d.db = disk.aside[Dir].db
      /\ aside \in Seq(Kept) /\ Len(aside) = Len(disk.aside) /\ aside # <<>>
      /\ aside[Dir] = d
      /\ \A i \in 1..Len(disk.aside) : aside[i].db = disk.aside[i].db
  BY <1>3, <1>4 DEF Kept
<1> HIDE DEF d, aside
<1>7. /\ disk'.db = disk.db /\ disk'.bin = disk.bin /\ disk'.env = env
      /\ disk'.aside = aside
  BY <1>5 DEF OInv, Types
<1>8. Dir' = Dir /\ \A x : InAside(x) <=> InAside(x)'
  BY <1>6, <1>7 DEF Dir, InAside
<1>9. Types'
  BY <1>2, <1>5, <1>6 DEF OInv, Types
<1>10. Safe'
  BY <1>1, <1>2, <1>6, <1>7, <1>8 DEF OInv, Safe, UpdateAt, RestoreAt, MovedAside
<1>11. OnItsWay'
  <2>1. /\ Carries(disk.db) => Carries(disk.db)'
        /\ Carries(disk.aside[Dir].db) => Carries(disk.aside[Dir].db)'
    BY <1>2, <1>6, <1>7, <1>8 DEF Carries
  <2>2. CASE script.at \in {4, 5}
    <3>1. /\ disk'.bin = ledger'.had.bin
          /\ Carries(disk.aside[Dir].db)'
          /\ Saved(script'.archive.db) \subseteq Saved(disk'.db)
          /\ disk'.aside[Dir'].env = ledger'.had.env
          /\ disk'.env = script'.archive.env
      <4>1. /\ disk.bin = ledger.had.bin /\ Carries(disk.aside[Dir].db)
            /\ Saved(script.archive.db) \subseteq Saved(disk.db)
            /\ script.at = 4 => disk.env = ledger.had.env
            /\ script.at = 5 => /\ disk.aside[Dir].env = ledger.had.env
                               /\ disk.env = script.archive.env
        BY <1>1, <2>2 DEF OInv, OnItsWay, RestoreOnItsWay, RestoreAt, MovedAside
      <4>2. disk'.aside[Dir'].env = kept
        BY <1>6, <1>7, <1>8
      <4>3. QED
        BY <1>2, <1>7, <2>1, <2>2, <4>1, <4>2
    <3>2. script'.of = "restoreWithConfig" /\ script'.at \in {5, 6}
      BY <1>1, <1>2, <2>2
    <3>3. QED
      BY <1>2, <1>6, <1>7, <3>1, <3>2
         DEF OInv, OnItsWay, UpdateOnItsWay, RestoreOnItsWay, UpdateAt, RestoreAt, MovedAside
  <2>3. CASE script.at = 11
    <3>1. /\ disk'.bin = ledger'.had.bin
          /\ Carries(disk.db)'
          /\ disk'.env = ledger'.had.env
      BY <1>1, <1>2, <1>7, <2>1, <2>3 DEF OInv, OnItsWay, RestoreOnItsWay, RestoreAt
    <3>2. script'.of = "restoreWithConfig" /\ script'.at = 12
      BY <1>1, <1>2, <2>3
    <3>3. QED
      BY <1>2, <3>1, <3>2
         DEF OInv, OnItsWay, UpdateOnItsWay, RestoreOnItsWay, UpdateAt, RestoreAt, MovedAside
  <2>4. QED
    BY <1>1, <2>2, <2>3
<1>12. QED
  BY <1>9, <1>10, <1>11 DEF OInv

LEMMA ConfigsKeep == OInv /\ (InstallConfig \/ InstallSecret \/ PutConfigBack) => OInv'
<1> SUFFICES ASSUME OInv, InstallConfig \/ InstallSecret \/ PutConfigBack PROVE OInv'
  OBVIOUS
<1>1. /\ RestoreAt(11, 10, 4, 5) \/ RestoreAt(11, 10, 11, 11)
      /\ Advance /\ UNCHANGED service
      /\ InstallConfig => script.at = 4
      /\ InstallSecret => script.at = 5
      /\ PutConfigBack => script.at = 11
  BY Places DEF OInv, Types, InstallConfig, InstallSecret, PutConfigBack, RestoreAt
<1>2. /\ disk.env \in Setting /\ disk.secret \in Setting
      /\ disk.aside \in Seq(Kept) /\ disk.aside # <<>>
      /\ script.archive \in Archive
  BY <1>1 DEF OInv, Types, ScriptType, NoScript, Safe, OnItsWay, RestoreOnItsWay,
              RestoreAt, MovedAside
<1>3. Dir \in 1..Len(disk.aside) /\ disk.aside[Dir] \in Kept
  BY <1>2 DEF Dir
<1>4. /\ disk.aside[Dir].env \in Setting
      /\ script.archive.env \in Setting /\ script.archive.secret \in Setting
  BY <1>2, <1>3 DEF Kept, Archive
<1>5. disk.aside = [disk.aside EXCEPT ![Dir].env = disk.aside[Dir].env]
  BY <1>2, <1>3 DEF Kept
<1>6. CASE InstallConfig
  <2>1. disk' = [disk EXCEPT !.env = script.archive.env, !.secret = disk.secret,
                             !.aside[Dir].env = disk.env]
    BY <1>6 DEF InstallConfig, OInv, Types
  <2>2. script.at = 4 /\ script.at # 5 /\ script.at # 11
    BY <1>1, <1>6
  <2>3. QED
    BY <1>1, <1>2, <1>4, <2>1, <2>2, ConfigKeeps, Zenon
<1>7. CASE InstallSecret
  <2>1. disk' = [disk EXCEPT !.env = disk.env, !.secret = script.archive.secret,
                             !.aside[Dir].env = disk.aside[Dir].env]
    BY <1>5, <1>7 DEF InstallSecret, OInv, Types
  <2>2. script.at = 5 /\ script.at # 4 /\ script.at # 11
    BY <1>1, <1>7
  <2>3. QED
    BY <1>1, <1>2, <1>4, <2>1, <2>2, ConfigKeeps, Zenon
<1>8. CASE PutConfigBack
  <2>1. disk' = [disk EXCEPT !.env = disk.aside[Dir].env, !.secret = disk.secret,
                             !.aside[Dir].env = disk.aside[Dir].env]
    BY <1>5, <1>8 DEF PutConfigBack, OInv, Types
  <2>2. script.at = 11 /\ script.at # 4 /\ script.at # 5
    BY <1>1, <1>8
  <2>3. QED
    BY <1>1, <1>2, <1>4, <2>1, <2>2, ConfigKeeps, Zenon
<1>9. QED
  BY <1>6, <1>7, <1>8

\* Starting the service is one of the ways a database grows, one place further.
LEMMA StartKeeps == OInv /\ Start => OInv'
<1> SUFFICES ASSUME OInv, Start PROVE OInv'
  OBVIOUS
<1>1. PICK migrates \in BOOLEAN, answers \in BOOLEAN :
        /\ answers => migrates
        /\ service' = [version |-> disk.bin, healthy |-> answers]
        /\ disk' = IF migrates THEN [disk EXCEPT !.db = Opened(disk.db, disk.bin)] ELSE disk
  BY DEF Start, Started, OInv, Types
<1> DEFINE db == IF migrates THEN Opened(disk.db, disk.bin) ELSE disk.db
<1>2. disk.db \in File /\ disk.bin \in Versions
  BY DEF OInv, Types
<1>3. disk' = [disk EXCEPT !.db = db]
  BY <1>1 DEF OInv, Types
<1>4. /\ db \in File
      /\ Saved(disk.db) = Saved(db)
      /\ Opened(db, disk.bin).schema = Opened(disk.db, disk.bin).schema
      /\ answers => db # Absent /\ db.schema >= disk.bin
  BY <1>1, <1>2, OpenedFacts DEF File
<1>5. /\ \/ UpdateAt(4, 4) \/ UpdateAt(9, 9)
         \/ RestoreAt(4, 4, 6, 6) \/ RestoreAt(9, 9, 12, 12)
      /\ Advance
  BY Places DEF OInv, Types, Start
<1>6. /\ ScriptType' /\ script'.of = script.of /\ script'.at = script.at + 1
      /\ script'.version = script.version /\ script'.archive = script.archive
      /\ script # NoScript
      /\ UNCHANGED ledger
  BY <1>5, AdvanceType DEF UpdateAt, RestoreAt, Advance
<1> HIDE DEF db
<1>7. /\ disk'.db = db /\ disk'.bin = disk.bin /\ disk'.env = disk.env
      /\ disk'.snapshots = disk.snapshots /\ disk'.aside = disk.aside
      /\ disk'.previous = disk.previous
  BY <1>3 DEF OInv, Types
<1>8. service'.version = disk'.bin /\ Migrated'
  BY <1>1, <1>4, <1>7 DEF Migrated
<1>9. Types'
  BY <1>1, <1>2, <1>3, <1>4, <1>6 DEF OInv, Types
<1>10. Safe'
  BY <1>4, <1>5, <1>6, <1>7 DEF OInv, Safe, InAside, UpdateAt, RestoreAt, MovedAside
<1>11. OnItsWay'
  <2>1. UpdateOnItsWay'
    BY <1>4, <1>5, <1>6, <1>7, <1>8
       DEF OInv, OnItsWay, UpdateOnItsWay, UpdateAt, RestoreAt, Carries
  <2>2. RestoreOnItsWay'
    BY <1>4, <1>5, <1>6, <1>7, <1>8
       DEF OInv, OnItsWay, RestoreOnItsWay, UpdateAt, RestoreAt, MovedAside, Carries, Dir
  <2>3. QED
    BY <1>6, <2>1, <2>2 DEF OInv, OnItsWay
<1>12. QED
  BY <1>9, <1>10, <1>11 DEF OInv

LEMMA StopKeeps == OInv /\ Stop => OInv'
<1> SUFFICES ASSUME OInv, Stop PROVE OInv'
  OBVIOUS
<1>1. /\ UpdateAt(6, 6) \/ RestoreAt(1, 1, 1, 1) \/ RestoreAt(6, 6, 8, 8)
      /\ Advance /\ UNCHANGED disk
      /\ service' = [version |-> Absent, healthy |-> FALSE]
  BY Places DEF OInv, Types, Stop, Stopped
<1>2. /\ ScriptType' /\ script'.of = script.of /\ script'.at = script.at + 1
      /\ script'.version = script.version /\ script'.archive = script.archive
      /\ script # NoScript
      /\ UNCHANGED ledger
  BY <1>1, AdvanceType DEF UpdateAt, RestoreAt, Advance
<1>3. Types'
  BY <1>1, <1>2 DEF OInv, Types
<1>4. Safe'
  BY <1>1, <1>2 DEF OInv, Safe, InAside, UpdateAt, RestoreAt, MovedAside
<1>5. OnItsWay'
  <2>1. UpdateOnItsWay'
    BY <1>1, <1>2 DEF OInv, OnItsWay, UpdateOnItsWay, UpdateAt, RestoreAt, Carries
  <2>2. RestoreOnItsWay'
    BY <1>1, <1>2
       DEF OInv, OnItsWay, RestoreOnItsWay, UpdateAt, RestoreAt, MovedAside, Carries, Dir
  <2>3. QED
    BY <1>2, <2>1, <2>2 DEF OInv, OnItsWay
<1>6. QED
  BY <1>3, <1>4, <1>5 DEF OInv

LEMMA WaitKeeps == OInv /\ (WaitHealthy \/ Report) => OInv'
<1> SUFFICES ASSUME OInv, WaitHealthy \/ Report PROVE OInv'
  OBVIOUS
<1>1. UNCHANGED <<disk, service>>
  BY DEF WaitHealthy, Report
<1>2. CASE WaitHealthy /\ ~service.healthy
  <2>1. Advance /\ (UpdateAt(5, 5) \/ RestoreAt(5, 5, 7, 7))
    BY <1>2, Places DEF OInv, Types, WaitHealthy
  <2>2. /\ ScriptType' /\ script'.of = script.of /\ script'.at = script.at + 1
        /\ script'.version = script.version /\ script'.archive = script.archive
        /\ script # NoScript
        /\ UNCHANGED ledger
    BY <2>1, AdvanceType DEF UpdateAt, RestoreAt, Advance
  <2>3. Types'
    BY <1>1, <2>2 DEF OInv, Types
  <2>4. Safe'
    BY <1>1, <2>1, <2>2 DEF OInv, Safe, InAside, UpdateAt, RestoreAt, MovedAside
  <2>5. UpdateOnItsWay'
    BY <1>1, <2>1, <2>2 DEF OInv, OnItsWay, UpdateOnItsWay, UpdateAt, RestoreAt, Carries
  <2>6. RestoreOnItsWay'
    BY <1>1, <2>1, <2>2
       DEF OInv, OnItsWay, RestoreOnItsWay, UpdateAt, RestoreAt, MovedAside, Carries, Dir
  <2>7. QED
    BY <2>2, <2>3, <2>4, <2>5, <2>6 DEF OInv, OnItsWay
<1>3. CASE ~(WaitHealthy /\ ~service.healthy)
  <2>1. PICK message \in {"updated", "restored", "undone", "unhealthy"} : Ends(message)
    BY <1>3 DEF WaitHealthy, Report
  <2>2. disk' = [disk EXCEPT !.db = disk.db] /\ disk.db \in File
    BY <1>1 DEF OInv, Types
  <2>3. service' \in [version : Versions \cup {Absent}, healthy : BOOLEAN]
    BY <1>1 DEF OInv, Types
  <2>4. QED
    BY <2>1, <2>2, <2>3, EndsKeeps DEF Ends
<1>4. QED
  BY <1>2, <1>3

-----------------------------------------------------------------------------
(* The invariant holds *)

LEMMA OInvBegins == OperationsInit => OInv
<1> SUFFICES ASSUME OperationsInit PROVE OInv
  OBVIOUS
<1> DEFINE old  == [schema |-> Min(Versions), saved |-> {}]
           kept == [db |-> old, env |-> 1, secret |-> 1]
<1>1. Min(Versions) \in Versions /\ Min(Versions) \in Nat
  BY FirstVersion, OperationsAssumption
<1>2. old \in Database /\ old \in File /\ kept \in Archive
      /\ <<old, old, old>> \in Seq(Database) /\ <<>> \in Seq(Kept)
  BY <1>1 DEF Database, File, Archive, Setting
<1> DEFINE snapshots == <<old, old, old>>
           had       == [bin |-> Min(Versions), db |-> old, env |-> 2, secret |-> 2]
<1>3. /\ disk = [bin |-> Min(Versions), previous |-> Absent, db |-> old, env |-> 2,
                 secret |-> 2, snapshots |-> snapshots, aside |-> <<>>,
                 nightly |-> Absent, kept |-> kept]
      /\ service = [version |-> Min(Versions), healthy |-> TRUE]
      /\ script = NoScript
      /\ ledger = [runs |-> 0, writes |-> 0, said |-> "nothing", saved |-> {}, had |-> had]
  BY DEF OperationsInit
<1>4. had \in [bin : Versions, db : File, env : Setting, secret : Setting]
  BY <1>1, <1>2 DEF Setting
<1> HIDE DEF old, kept, snapshots, had
<1>5. Types
  BY <1>1, <1>2, <1>3, <1>4 DEF Types, ScriptType, Setting, snapshots
<1>6. ledger.saved = {} /\ script.of = "none"
  BY <1>3 DEF NoScript
<1>7. Safe /\ OnItsWay
  BY <1>3, <1>6 DEF Safe, OnItsWay, UpdateOnItsWay, RestoreOnItsWay, UpdateAt, RestoreAt,
                    MovedAside
<1>8. QED
  BY <1>5, <1>7 DEF OInv

LEMMA OInvNext == OInv /\ [OperationsNext]_operationsVars => OInv'
<1> SUFFICES ASSUME OInv, [OperationsNext]_operationsVars PROVE OInv'
  OBVIOUS
<1>1. CASE UNCHANGED operationsVars
  BY <1>1 DEF operationsVars, OInv, Types, ScriptType, Safe, InAside, OnItsWay,
              UpdateOnItsWay, RestoreOnItsWay, UpdateAt, RestoreAt, MovedAside, Carries,
              Migrated, Dir
<1>2. CASE \/ \E v \in Versions : BeginUpdate(v)
           \/ \E archive \in {disk.nightly, disk.kept}, withConfig \in BOOLEAN :
                BeginRestore(archive, withConfig)
  BY <1>2, BeginsKeep
<1>3. CASE Snapshot \/ KeepPrevious \/ Swap \/ SwapBack \/ Rewind
  BY <1>3, SnapshotKeeps, SwapsKeep, RewindKeeps
<1>4. CASE \/ MoveAside \/ Install \/ InstallConfig \/ InstallSecret
           \/ Clear \/ MoveBack \/ PutConfigBack
  BY <1>4, MoveAsideKeeps, InstallKeeps, ConfigsKeep, ClearKeeps, MoveBackKeeps
<1>5. CASE Start \/ Stop \/ WaitHealthy \/ Report
  BY <1>5, StartKeeps, StopKeeps, WaitKeeps
<1>6. CASE \/ RestartOnFailure \/ UserWrites \/ Systemctl \/ Backup
           \/ Interrupt \/ Reboot
  BY <1>6, RestartKeeps, UserWritesKeeps, BackupKeeps, FaultsKeep
<1>7. QED
  BY <1>1, <1>2, <1>3, <1>4, <1>5, <1>6 DEF OperationsNext

LEMMA OInvCorrect == OperationsSpec => []OInv
BY OInvBegins, OInvNext, PTL DEF OperationsSpec

-----------------------------------------------------------------------------
(* The theorems *)

\* Whatever fails and wherever scripts are interrupted or run again, what users had
\* saved when a script began is in the database or where the scripts keep it: three
\* snapshots are enough for any number of updates, because an update only needs the
\* last one and a restore none.
THEOREM NothingSavedIsLostCorrect == OperationsSpec => []NothingSavedIsLost
<1>1. OInv => NothingSavedIsLost
  <2> SUFFICES ASSUME OInv, NEW x \in ledger.saved
               PROVE  \E c \in Copies : x \in c.saved
    BY DEF NothingSavedIsLost
  <2>1. CASE x \in Saved(disk.db)
    BY <2>1 DEF Saved, Copies
  <2>2. CASE InAside(x)
    <3>1. PICK i \in 1..Len(disk.aside) : x \in Saved(disk.aside[i].db)
      BY <2>2 DEF InAside
    <3>2. disk.aside[i] \in ToSet(disk.aside)
      BY DEF ToSet, OInv, Types
    <3>3. QED
      BY <3>1, <3>2 DEF Saved, Copies
  <2>3. QED
    BY <2>1, <2>2 DEF OInv, Safe
<1>2. QED
  BY <1>1, OInvCorrect, PTL

\* What an update that ends says.
LEMMA UpdateTellsTheTruth ==
  ASSUME OInv, script.of = "update", WaitHealthy \/ Report,
         ledger'.said \in {"updated", "restored", "undone"}
  PROVE  LET had == ledger.had
             Before == IF had.db = Absent THEN {} ELSE had.db.saved
             Holds(saved) == disk'.db # Absent /\ saved \subseteq disk'.db.saved
         IN  /\ ledger'.said = "updated" =>
                  /\ service' = [version |-> script.version, healthy |-> TRUE]
                  /\ disk'.bin = script.version
                  /\ Holds(Before) /\ disk'.db.schema >= script.version
             /\ ledger'.said # "restored"
             /\ ledger'.said = "undone" =>
                  /\ service' = [version |-> had.bin, healthy |-> TRUE]
                  /\ disk'.bin = had.bin
                  /\ Holds(Before) /\ disk'.db.schema = Opened(had.db, had.bin).schema
                  /\ disk'.env = had.env
<1>1. /\ UNCHANGED <<disk, service>> /\ disk.bin \in Versions
      /\ service \in [version : Versions \cup {Absent}, healthy : BOOLEAN]
      /\ disk.db \in File
  BY DEF WaitHealthy, Report, OInv, Types
<1>2. CASE WaitHealthy
  <2>1. UpdateAt(5, 5)
    BY <1>2, Places DEF WaitHealthy, OInv, Types, RestoreAt
  <2>2. ledger.said = "nothing" /\ ledger' = [ledger EXCEPT !.said = ledger'.said]
    BY <1>2, <2>1 DEF WaitHealthy, Ends, Advance, OInv, Types, OnItsWay, UpdateAt, NoScript
  <2>3. service.healthy /\ ledger'.said = "updated"
    BY <1>2, <2>1, <2>2 DEF WaitHealthy, Ends, Advance, OInv, Types
  <2>4. /\ service.version = disk.bin /\ disk.bin = script.version
        /\ disk.db # Absent /\ disk.db.schema >= disk.bin
        /\ Saved(ledger.had.db) \subseteq Saved(disk.db)
    BY <2>1, <2>3 DEF OInv, OnItsWay, UpdateOnItsWay, UpdateAt, Migrated
  <2>5. QED
    BY <1>1, <2>3, <2>4 DEF Saved
<1>3. CASE Report
  <2>1. UpdateAt(10, 10)
    BY <1>3, Places DEF Report, OInv, Types, RestoreAt
  <2>2. service.healthy /\ ledger'.said = "undone"
    BY <1>3 DEF Report, Ends, OInv, Types
  <2>3. /\ service.version = disk.bin /\ disk.bin = ledger.had.bin
        /\ disk.db # Absent /\ disk.db.schema >= disk.bin
        /\ Carries(disk.db) /\ disk.env = ledger.had.env
    BY <2>1, <2>2 DEF OInv, OnItsWay, UpdateOnItsWay, UpdateAt, Migrated
  <2>4. Opened(disk.db, disk.bin).schema = disk.db.schema
    BY <1>1, <2>3, OpenedFacts
  <2>5. QED
    BY <1>1, <2>2, <2>3, <2>4 DEF Saved, Carries
<1>4. QED
  BY <1>2, <1>3

\* What a restore that ends says.
LEMMA RestoreTellsTheTruth ==
  ASSUME OInv, script.of \in {"restore", "restoreWithConfig"}, WaitHealthy \/ Report,
         ledger'.said \in {"updated", "restored", "undone"}
  PROVE  LET had == ledger.had
             Before == IF had.db = Absent THEN {} ELSE had.db.saved
             Holds(saved) == disk'.db # Absent /\ saved \subseteq disk'.db.saved
         IN  /\ ledger'.said # "updated"
             /\ ledger'.said = "restored" =>
                  /\ service' = [version |-> disk'.bin, healthy |-> TRUE]
                  /\ Holds(script.archive.db.saved)
                  /\ script.of = "restoreWithConfig" => disk'.env = script.archive.env
             /\ ledger'.said = "undone" =>
                  /\ service' = [version |-> had.bin, healthy |-> TRUE]
                  /\ disk'.bin = had.bin
                  /\ Holds(Before) /\ disk'.db.schema = Opened(had.db, had.bin).schema
                  /\ disk'.env = had.env
<1>1. /\ UNCHANGED <<disk, service>> /\ disk.bin \in Versions
      /\ service \in [version : Versions \cup {Absent}, healthy : BOOLEAN]
      /\ disk.db \in File
  BY DEF WaitHealthy, Report, OInv, Types
<1>2. CASE WaitHealthy
  <2>1. RestoreAt(5, 5, 7, 7)
    BY <1>2, Places DEF WaitHealthy, OInv, Types, UpdateAt
  <2>2. ledger.said = "nothing"
    BY <2>1 DEF OInv, OnItsWay, RestoreAt, NoScript
  <2>3. service.healthy /\ ledger'.said = "restored"
    BY <1>2, <2>1, <2>2 DEF WaitHealthy, Ends, Advance, RestoreAt, OInv, Types
  <2>4. /\ service.version = disk.bin
        /\ disk.db # Absent
        /\ Saved(script.archive.db) \subseteq Saved(disk.db)
        /\ script.of = "restoreWithConfig" => disk.env = script.archive.env
    BY <2>1, <2>3 DEF OInv, OnItsWay, RestoreOnItsWay, RestoreAt, Migrated
  <2>5. Saved(script.archive.db) = script.archive.db.saved
    <3>1. script.archive.db \in Database
      BY <2>1 DEF OInv, Types, ScriptType, RestoreAt, NoScript, Archive
    <3>2. QED
      BY <3>1, OperationsAssumption DEF Saved
  <2>6. QED
    BY <1>1, <2>3, <2>4, <2>5 DEF Saved
<1>3. CASE Report
  <2>1. RestoreAt(10, 10, 13, 13)
    BY <1>3, Places DEF Report, OInv, Types, UpdateAt
  <2>2. service.healthy /\ ledger'.said = "undone"
    BY <1>3 DEF Report, Ends, OInv, Types
  <2>3. /\ service.version = disk.bin /\ disk.bin = ledger.had.bin
        /\ disk.db # Absent /\ disk.db.schema >= disk.bin
        /\ Carries(disk.db) /\ disk.env = ledger.had.env
    BY <2>1, <2>2 DEF OInv, OnItsWay, RestoreOnItsWay, RestoreAt, Migrated
  <2>4. Opened(disk.db, disk.bin).schema = disk.db.schema
    BY <1>1, <2>3, OpenedFacts
  <2>5. QED
    BY <1>1, <2>2, <2>3, <2>4 DEF Saved, Carries
<1>4. QED
  BY <1>2, <1>3

\* While a script runs, only its last command says how it ended.
LEMMA OthersSayNothing ==
  ASSUME OInv, [OperationsNext]_operationsVars, script # NoScript,
         ~(WaitHealthy \/ Report)
  PROVE  ledger'.said = "nothing"
<1>1. /\ ledger.said = "nothing"
      /\ ledger \in [runs : Nat, writes : Nat, saved : SUBSET Nat,
                     said : {"nothing", "updated", "restored", "undone", "unhealthy"},
                     had : [bin : Versions, db : File, env : Setting, secret : Setting]]
  BY DEF OInv, Types, OnItsWay
<1>2. CASE UNCHANGED ledger
  BY <1>1, <1>2
<1>3. CASE Interrupt \/ Reboot
  BY <1>1, <1>3 DEF Interrupt, Reboot, Ends
<1>4. CASE UserWrites
  BY <1>1, <1>4 DEF UserWrites
<1>5. QED
  BY <1>2, <1>3, <1>4
     DEF OperationsNext, operationsVars, BeginUpdate, BeginRestore, Begins, Snapshot,
         KeepPrevious, Swap, SwapBack, Rewind, MoveAside, Install, InstallConfig,
         InstallSecret, Clear, MoveBack, PutConfigBack, Start, Stop, RestartOnFailure,
         Systemctl, Backup, Advance

\* A script that says "updated", "restored" or that everything is back tells the
\* truth, for every release, every earlier history of the installation, and with
\* failures, backups and writes between any two of its commands.
THEOREM EndsAsItSaysCorrect == OperationsSpec => EndsAsItSays
<1> DEFINE TellsTheTruth ==
             LET had == ledger.had
                 Holds(saved) == disk'.db # Absent /\ saved \subseteq disk'.db.saved
                 Before == IF had.db = Absent THEN {} ELSE had.db.saved
                 Schema(db) == Opened(db, had.bin).schema
             IN  script # NoScript =>
                   /\ ledger'.said = "updated" =>
                        /\ service' = [version |-> script.version, healthy |-> TRUE]
                        /\ disk'.bin = script.version
                        /\ Holds(Before) /\ disk'.db.schema >= script.version
                   /\ ledger'.said = "restored" =>
                        /\ service' = [version |-> disk'.bin, healthy |-> TRUE]
                        /\ Holds(script.archive.db.saved)
                        /\ script.of = "restoreWithConfig" => disk'.env = script.archive.env
                   /\ ledger'.said = "undone" =>
                        /\ service' = [version |-> had.bin, healthy |-> TRUE]
                        /\ disk'.bin = had.bin
                        /\ Holds(Before) /\ disk'.db.schema = Schema(had.db)
                        /\ disk'.env = had.env
<1>1. OInv /\ [OperationsNext]_operationsVars => TellsTheTruth
  <2> SUFFICES ASSUME OInv, [OperationsNext]_operationsVars, script # NoScript
               PROVE  TellsTheTruth
    OBVIOUS
  <2>1. CASE ~(WaitHealthy \/ Report)
    BY <2>1, OthersSayNothing
  <2>2. CASE ledger'.said \notin {"updated", "restored", "undone"}
    BY <2>2
  <2>3. CASE (WaitHealthy \/ Report) /\ ledger'.said \in {"updated", "restored", "undone"}
    <3>1. script.of \in {"update", "restore", "restoreWithConfig"}
      BY DEF OInv, Types, ScriptType
    <3>2. CASE script.of = "update"
      BY <2>3, <3>2, UpdateTellsTheTruth
    <3>3. CASE script.of \in {"restore", "restoreWithConfig"}
      BY <2>3, <3>3, RestoreTellsTheTruth
    <3>4. QED
      BY <3>1, <3>2, <3>3
  <2>4. QED
    BY <2>1, <2>2, <2>3
<1>2. OInv /\ [OperationsNext]_operationsVars => [TellsTheTruth]_operationsVars
  BY <1>1
<1>3. QED
  BY <1>2, OInvCorrect, PTL DEF OperationsSpec, EndsAsItSays
=============================================================================
