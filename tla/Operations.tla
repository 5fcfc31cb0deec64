----------------------------- MODULE Operations -----------------------------
(***************************************************************************)
(* Updating, backing up and restoring an installation (scripts/update.sh,  *)
(* backup.sh, restore.sh, with the unit of deploy/trackstar.service and    *)
(* what `trackstar` does to a database it opens).                          *)
(*                                                                         *)
(* A script is a sequence of commands.  Between any two of them the        *)
(* service fails and is started again, the nightly backup runs, users      *)
(* write, a command fails or the script is interrupted, or the host is     *)
(* restarted.  One of update.sh and restore.sh runs at a time.             *)
(***************************************************************************)
EXTENDS Naturals, Sequences, SequencesExt, FiniteSetsExt

CONSTANTS
  Absent,     \* no file, no version
  Versions,   \* the releases there are, by the schema each migrates to
  MaxRuns,    \* bound of the model: scripts begun
  MaxWrites   \* bound of the model: changes by users

\* A database: its schema, and the changes of users that are in it.
Database == [schema : Nat, saved : SUBSET Nat]

ASSUME OperationsAssumption ==
  /\ Versions \subseteq Nat \ {0} /\ Versions # {}
  /\ {MaxRuns, MaxWrites} \subseteq Nat
  /\ Absent \notin Nat /\ Absent \notin Database

VARIABLES
  disk,     \* the files of the installation
  service,  \* the unit: which version runs, and whether /health answers
  script,   \* the script that runs and where it is
  ledger    \* history: what was there when scripts began, what the last one said

operationsVars == <<disk, service, script, ledger>>

\* update.sh and restore.sh (as it is, and --with-config), command by command.
\* What follows "healthy" undoes what comes before.
Program ==
  [update  |-> <<"snapshot", "keep", "swap", "start", "healthy",
                 "stop", "unswap", "rewind", "start", "report">>,
   restore |-> <<"stop", "aside", "install", "start", "healthy",
                 "stop", "clear", "return", "start", "report">>,
   restoreWithConfig |->
               <<"stop", "aside", "install", "config", "secret", "start", "healthy",
                 "stop", "clear", "return", "reconfigure", "start", "report">>]

NoScript == [of |-> "none", at |-> 1, version |-> Absent, archive |-> Absent]

Doing(command) ==
  /\ script.of # "none"
  /\ Program[script.of][script.at] = command

Advance == script' = [script EXCEPT !.at = @ + 1] /\ UNCHANGED ledger

Ends(message) == script' = NoScript /\ ledger' = [ledger EXCEPT !.said = message]

-----------------------------------------------------------------------------
(* The service *)

\* A database after `trackstar` of version v opened it: made if there is none,
\* and migrated.  An older version leaves a newer schema alone.
Opened(db, v) ==
  IF db = Absent THEN [schema |-> v, saved |-> {}]
                 ELSE [db EXCEPT !.schema = Max({@, v})]

\* The service starts; it may fail before it migrates, or after.
Started ==
  \E migrates, answers \in BOOLEAN :
    /\ answers => migrates
    /\ service' = [version |-> disk.bin, healthy |-> answers]
    /\ disk' = IF migrates THEN [disk EXCEPT !.db = Opened(@, disk.bin)] ELSE disk

Stopped == service' = [version |-> Absent, healthy |-> FALSE]

\* It failed, and systemd starts it again.
RestartOnFailure ==
  /\ service.version # Absent
  /\ Started
  /\ UNCHANGED <<script, ledger>>

UserWrites ==
  /\ service.healthy /\ disk.db # Absent
  /\ ledger.writes < MaxWrites
  /\ ledger' = [ledger EXCEPT !.writes = @ + 1]
  /\ disk' = [disk EXCEPT !.db.saved = @ \cup {ledger.writes + 1}]
  /\ UNCHANGED <<service, script>>

Systemctl ==
  /\ script = NoScript
  /\ Started
  /\ UNCHANGED <<script, ledger>>

-----------------------------------------------------------------------------
(* Faults *)

\* A command fails, or somebody interrupts the script.
Interrupt ==
  /\ script # NoScript
  /\ Ends("nothing")
  /\ UNCHANGED <<disk, service>>

Reboot ==
  /\ Ends("nothing")
  /\ Started

-----------------------------------------------------------------------------
(* backup.sh: the nightly archive, without secrets. *)

Backup ==
  LET db == Opened(disk.db, disk.bin)
  IN  /\ disk' = [disk EXCEPT !.db = db,
                              !.nightly = [db |-> db, env |-> disk.env, secret |-> Absent]]
      /\ UNCHANGED <<service, script, ledger>>

-----------------------------------------------------------------------------
(* update.sh and restore.sh begin once they have checked what they are      *)
(* given.                                                                   *)

Begins(s) ==
  /\ script = NoScript
  /\ ledger.runs < MaxRuns
  /\ script' = s
  /\ ledger' = [ledger EXCEPT !.runs = @ + 1, !.said = "nothing",
                  !.had = [bin |-> disk.bin, db |-> disk.db, env |-> disk.env,
                           secret |-> disk.secret],
                  !.saved = @ \cup IF disk.db = Absent THEN {} ELSE disk.db.saved]
  /\ UNCHANGED <<disk, service>>

\* A release that is installed already is left at that.
BeginUpdate(v) ==
  /\ v # disk.bin
  /\ Begins([NoScript EXCEPT !.of = "update", !.version = v])

\* The configuration comes only from an archive with secrets.
BeginRestore(archive, withConfig) ==
  /\ archive # Absent
  /\ withConfig => archive.secret # Absent
  /\ Begins([NoScript EXCEPT !.of = IF withConfig THEN "restoreWithConfig" ELSE "restore",
                             !.archive = archive])

-----------------------------------------------------------------------------
(* The commands of update.sh *)

\* The three most recent snapshots are kept, the new one last.
Snapshot ==
  LET db  == Opened(disk.db, disk.bin)
      all == Append(disk.snapshots, db)
  IN  /\ Doing("snapshot")
      /\ disk' = [disk EXCEPT !.db = db,
                              !.snapshots = IF Len(all) > 3 THEN Tail(all) ELSE all]
      /\ Advance
      /\ UNCHANGED service

KeepPrevious ==
  /\ Doing("keep")
  /\ disk' = [disk EXCEPT !.previous = disk.bin]
  /\ Advance
  /\ UNCHANGED service

Swap ==
  /\ Doing("swap")
  /\ disk' = [disk EXCEPT !.bin = script.version]
  /\ Advance
  /\ UNCHANGED service

SwapBack ==
  /\ Doing("unswap")
  /\ disk' = [disk EXCEPT !.bin = disk.previous, !.previous = Absent]
  /\ Advance
  /\ UNCHANGED service

\* The snapshot is copied next to the database and renamed over it.
Rewind ==
  /\ Doing("rewind")
  /\ disk' = [disk EXCEPT !.db = Last(disk.snapshots)]
  /\ Advance
  /\ UNCHANGED service

-----------------------------------------------------------------------------
(* The commands of restore.sh *)

Dir == Len(disk.aside)

\* Slip: into one directory, the same each time.
SlipMoveAside ==
  /\ Doing("aside")
  /\ disk' = [disk EXCEPT !.db = Absent, !.aside = <<[db |-> disk.db, env |-> Absent]>>]
  /\ Advance
  /\ UNCHANGED service

\* Into a new directory pre-restore-<time>.
MoveAside ==
  /\ Doing("aside")
  /\ disk' = [disk EXCEPT !.db = Absent,
                          !.aside = Append(@, [db |-> disk.db, env |-> Absent])]
  /\ Advance
  /\ UNCHANGED service

Install ==
  /\ Doing("install")
  /\ disk' = [disk EXCEPT !.db = script.archive.db]
  /\ Advance
  /\ UNCHANGED service

InstallConfig ==
  /\ Doing("config")
  /\ disk' = [disk EXCEPT !.aside[Dir].env = disk.env, !.env = script.archive.env]
  /\ Advance
  /\ UNCHANGED service

InstallSecret ==
  /\ Doing("secret")
  /\ disk' = [disk EXCEPT !.secret = script.archive.secret]
  /\ Advance
  /\ UNCHANGED service

Clear ==
  /\ Doing("clear")
  /\ disk' = [disk EXCEPT !.db = Absent]
  /\ Advance
  /\ UNCHANGED service

\* Only files that are there are moved back.
MoveBack ==
  /\ Doing("return")
  /\ disk' = IF disk.aside[Dir].db = Absent THEN disk
             ELSE [disk EXCEPT !.db = disk.aside[Dir].db, !.aside[Dir].db = Absent]
  /\ Advance
  /\ UNCHANGED service

\* Slip: the environment file stays as it was restored.
SlipPutConfigBack ==
  /\ Doing("reconfigure")
  /\ Advance
  /\ UNCHANGED <<disk, service>>

PutConfigBack ==
  /\ Doing("reconfigure")
  /\ disk' = [disk EXCEPT !.env = disk.aside[Dir].env]
  /\ Advance
  /\ UNCHANGED service

-----------------------------------------------------------------------------
(* Commands of both *)

Start ==
  /\ Doing("start")
  /\ Started
  /\ Advance

Stop ==
  /\ Doing("stop")
  /\ Stopped
  /\ Advance
  /\ UNCHANGED disk

\* wait_healthy: done, or on to undoing.
WaitHealthy ==
  /\ Doing("healthy")
  /\ IF service.healthy
     THEN Ends(IF script.of = "update" THEN "updated" ELSE "restored")
     ELSE Advance
  /\ UNCHANGED <<disk, service>>

Report ==
  /\ Doing("report")
  /\ Ends(IF service.healthy THEN "undone" ELSE "unhealthy")
  /\ UNCHANGED <<disk, service>>

-----------------------------------------------------------------------------

\* An installation in use, with three snapshots of former updates and an
\* archive with secrets from before its session secret and settings changed.
OperationsInit ==
  LET old  == [schema |-> Min(Versions), saved |-> {}]
      kept == [db |-> old, env |-> 1, secret |-> 1]
  IN  /\ disk = [bin |-> Min(Versions), previous |-> Absent,
                 db |-> old, env |-> 2, secret |-> 2,
                 snapshots |-> <<old, old, old>>, aside |-> <<>>,
                 nightly |-> Absent, kept |-> kept]
      /\ service = [version |-> Min(Versions), healthy |-> TRUE]
      /\ script = NoScript
      /\ ledger = [runs |-> 0, writes |-> 0, said |-> "nothing", saved |-> {},
                   had |-> [bin |-> Min(Versions), db |-> old, env |-> 2, secret |-> 2]]

OperationsNext ==
  \/ \E v \in Versions : BeginUpdate(v)
  \/ \E archive \in {disk.nightly, disk.kept}, withConfig \in BOOLEAN :
       BeginRestore(archive, withConfig)
  \/ Snapshot \/ KeepPrevious \/ Swap \/ SwapBack \/ Rewind
  \/ MoveAside \/ Install \/ InstallConfig \/ InstallSecret
  \/ Clear \/ MoveBack \/ PutConfigBack
  \/ Start \/ Stop \/ WaitHealthy \/ Report
  \/ RestartOnFailure \/ UserWrites \/ Systemctl \/ Backup
  \/ Interrupt \/ Reboot

OperationsSpec == OperationsInit /\ [][OperationsNext]_operationsVars

-----------------------------------------------------------------------------
(* Properties *)

Copies ==
  LET files == {disk.db} \cup ToSet(disk.snapshots) \cup {d.db : d \in ToSet(disk.aside)}
  IN  files \ {Absent}

\* What users had saved when a script began is never lost, whatever fails
\* afterwards, wherever scripts are interrupted and however often they are run
\* again: it is in the database, or where the scripts keep it (the snapshots of
\* update.sh, the pre-restore directories of restore.sh).
NothingSavedIsLost == ledger.saved \subseteq UNION {c.saved : c \in Copies}

\* A script that says how it ended tells the truth: an update runs the new
\* version on what was there, migrated; a restore runs what the archive holds;
\* and what was undone is back: the version, the data, a schema that the version
\* can read, and the configuration.
EndsAsItSays ==
  [][ LET had == ledger.had
          Holds(saved) == disk'.db # Absent /\ saved \subseteq disk'.db.saved
          Before == IF had.db = Absent THEN {} ELSE had.db.saved
          Schema(db) == Opened(db, had.bin).schema
      IN  script # NoScript =>
            /\ ledger'.said = "updated" =>
                 /\ service' = [version |-> script.version, healthy |-> TRUE]
                 /\ disk'.bin = script.version
                 /\ Holds(Before) /\ disk'.db.schema >= script.version
            /\ ledger'.said = "restored" =>
                 /\ service' = [version |-> disk'.bin, healthy |-> TRUE]
                 /\ Holds(script.archive.db.saved)
                 /\ script.of = "restoreWithConfig" => disk'.env = script.archive.env
            /\ ledger'.said = "undone" =>
                 /\ service' = [version |-> had.bin, healthy |-> TRUE]
                 /\ disk'.bin = had.bin
                 /\ Holds(Before) /\ disk'.db.schema = Schema(had.db)
                 /\ disk'.env = had.env
    ]_operationsVars

\* "The current data is moved to <data-dir>/pre-restore-<timestamp>/ first and is
\* put back automatically if the restored service does not become healthy"
\* (restore.sh): a restore that says the previous data is back in place leaves the
\* data directory as it found it, the session secret included.
PutsEverythingBack ==
  [][ ledger'.said = "undone" /\ ledger.said # "undone" /\ script.of # "update"
      => disk'.secret = ledger.had.secret ]_operationsVars
=============================================================================
