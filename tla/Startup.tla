------------------------------- MODULE Startup -------------------------------
(***************************************************************************)
(* A server from its start to its end, and then the next: the start        *)
(* (config/init.go, manager.go:80-149), the wizard that sets a new system  *)
(* up, and the migration of an old database (manager.go:373-475).  Each    *)
(* goes step by step, and the server may go down between two; a start has  *)
(* the flags and the environment of the one before.  The pages of the      *)
(* server offer the wizard while the system is new, migration while the    *)
(* database is old, and the settings otherwise.                            *)
(***************************************************************************)
EXTENDS Configure

CONSTANT Plans   \* bound: what there is at first, and what may happen to it

Given(f, key) == key \in DOMAIN f /\ f[key] \notin {"", Unset}

\* What a file lacks, the environment says or there is a default for.
CanStart(f, environment) ==
  \A key \in Mandatory : \/ key \in DOMAIN environment \/ Given(f, key)
                         \/ key \notin DOMAIN f /\ (key = "generated" => Given(f, "metadata"))

\* A database that is there at first is one that has been served, by no newer
\* program: a start with a newer database panics.
ASSUME PlanAssumption == \A p \in Plans : \A path \in DOMAIN p.dbs :
  /\ p.dbs[path] \in [version : 1..AppSchema, marked : {FALSE}, applied : Nat, rows : Nat]
  /\ p.dbs[path].applied = p.dbs[path].version

\* A file that is there at first is one with which a server has started.  What
\* the environment, the wizard (setSetupDefaults) and requests say is a value.
ASSUME FileAssumption == \A p \in Plans :
  /\ p.disk # NoFile => CanStart(p.disk, p.overrides)
  /\ \A key \in Mandatory \cap DOMAIN p.overrides : Given(p.overrides, key)
  /\ \A input \in p.setups : \A key \in Mandatory : Given(input, key)
  /\ DOMAIN p.inputs \subseteq Requests
  /\ \A op \in DOMAIN p.inputs : \A input \in p.inputs[op] : \A key \in Mandatory \cap DOMAIN input : input[key] # Unset

\* What is read as it is set: no blank for what is never blank.  A password is new, or
\* a hash that was told; an API key is made by the server.
ReadsBack(key, value) ==
  /\ value # Unset /\ key # "api_key"
  /\ key = "logLevel" => value \in LogLevels
  /\ key \in DOMAIN DefaultChoices => value # ""
  /\ key \in DOMAIN DefaultNumbers => value # 0
  /\ key \in Switches => value \in BOOLEAN
  /\ key = "password" => value = <<value[1], value[2]>> /\ value[1] \in {0, 1}
ReadAsGiven(p) ==
  /\ p.disk # NoFile => \A key \in DOMAIN p.disk \cap Compared :
       ReadsBack(key, p.disk[key]) /\ (key = "password" => Told(key, p.disk[key]) = p.disk[key])
  /\ \A op \in DOMAIN p.inputs : \A input \in p.inputs[op] : \A key \in DOMAIN input : ReadsBack(key, input[key])

VARIABLES
  stage,     \* "down", "starting", "serving", "failed"
  task,      \* what goes on besides requests, and its next step
  reason,    \* why the server did not start
  starts,
  emptied    \* history: the file was left empty, and nothing whole was written since

startupVars == <<stage, task, reason, starts, emptied>>
serverVars == <<settingVars, dbVars, configureVars, startupVars>>

NoTask == [job |-> "none", at |-> "none", input |-> <<>>]

\* Each step, and the one after it.
BootSteps == [existing |-> "initialize", initialize |-> "validate", validate |-> "initial"]
SetupSteps == [location |-> "generated", generated |-> "settings", settings |-> "write", write |-> "initial"]
PostInit == [initial |-> "refresh", refresh |-> "scrapers", scrapers |-> "database", database |-> "post migrate"]
MigrateSteps == [backup |-> "migrations", mark |-> "run", run |-> "clean", reopen |-> "post migrate"]
LastSteps == [boot |-> "serve", setup |-> "finalize", migrate |-> "remove backup"]
Following(step) ==
  CASE step = "post migrate" -> LastSteps[task.job]
    [] step \in DOMAIN BootSteps -> BootSteps[step]
    [] step \in DOMAIN SetupSteps -> SetupSteps[step]
    [] step \in DOMAIN PostInit -> PostInit[step]
    [] step \in DOMAIN MigrateSteps -> MigrateSteps[step]

----------------------------------------------------------------------------

StartupFrom(plans) ==
  /\ plan \in plans
  /\ disk = plan.disk /\ dbs = plan.dbs /\ wrote = [path \in DOMAIN dbs |-> dbs[path].rows]
  /\ overrides = plan.overrides
  /\ changed = <<>> /\ config = <<>> /\ defaults = <<>> /\ isNewSystem = FALSE
  /\ backups = <<>> /\ dbPath = Closed /\ databaseSchemaVersion = 0 /\ open = Closed
  /\ calls = [u \in Users |-> NoCall] /\ live = [paths |-> "", scrapers |-> ""]
  /\ left = {} /\ requested = 0 /\ faults = 0
  /\ stage = "down" /\ task = NoTask /\ reason = "none" /\ starts = 0 /\ emptied = FALSE

StartupInit == StartupFrom(Plans)

\* A server that is never started.
NoPlan ==
  [disk |-> NoFile, dbs |-> <<>>, overrides |-> <<>>, inputs |-> <<>>, setups |-> {}, requests |-> 0, faults |-> 0,
   starts |-> 0]

Initialize ==
  /\ stage = "down" /\ starts < plan.starts
  /\ ReadConfig
  /\ starts' = starts + 1
  /\ IF disk = NoFile /\ ~InitialisedByEnvironment THEN stage' = "serving" /\ task' = NoTask
     ELSE stage' = "starting" /\ task' = [NoTask EXCEPT !.job = "boot", !.at = "existing"]
  /\ UNCHANGED <<dbVars, configureVars, reason, emptied>>

Upcoming(step) == task.at = step
GoesTo(step) == task' = [task EXCEPT !.at = step]
Proceed == GoesTo(Following(task.at))

\* What cannot go on: a server does not start, the wizard tells so, and a migration is undone.
GivesUp(why) ==
  /\ IF task.job = "boot" THEN stage' = "failed" /\ reason' = why /\ task' = NoTask
     ELSE /\ UNCHANGED <<stage, reason>>
          /\ IF task.job = "migrate" /\ why = "migration" THEN GoesTo("restore") ELSE task' = NoTask

Fault(happens) == faults' = (IF happens THEN faults + 1 ELSE faults) /\ (happens => faults < plan.faults)
StepsOnly == UNCHANGED <<stage, reason, starts>>

\* What is written after these two steps has been checked, or chosen in the wizard.
Restored(outcome) == outcome = "written" /\ task.at \notin {"existing", "initialize"}

\* Writing what is set at a start; without the file, some of it is only in memory.
Saved(settings, outcome) ==
  /\ Fault(outcome # "written")
  /\ emptied' = (outcome = "emptied" \/ (emptied /\ ~Restored(outcome)))
  /\ left' = IF outcome = "written" THEN {l \in left : l[1] # "file"}
             ELSE left \cup InFile({key \in DOMAIN settings :
                                      outcome = "emptied" \/ disk = NoFile
                                      \/ key \notin DOMAIN disk \/ disk[key] # settings[key]})

SetsExistingDefaults ==
  /\ Upcoming("existing")
  /\ \E outcome \in Outcomes :
       /\ outcome # "written" => ExistingSystemDefaults # <<>>
       /\ SetExistingSystemDefaults(outcome)
       /\ Saved(Over(ExistingSystemDefaults, AllSettings), outcome)
       /\ IF outcome = "written" THEN Proceed /\ UNCHANGED <<stage, reason>> ELSE GivesUp("configuration")
  /\ UNCHANGED <<dbVars, plan, calls, live, requested, starts>>

\* The second time, an error is only logged.
SetsInitialConfig(step) ==
  /\ Upcoming(step)
  /\ \E outcome \in Outcomes :
       /\ SetInitialConfig(outcome)
       /\ Saved(InitialSettings, outcome)
       /\ IF outcome = "written" \/ step = "initial" THEN Proceed /\ UNCHANGED <<stage, reason>>
          ELSE GivesUp("configuration")
  /\ UNCHANGED <<dbVars, plan, calls, live, requested, starts>>

Validate ==
  /\ Upcoming("validate")
  /\ IF MissingFields = {} THEN Proceed /\ UNCHANGED <<stage, reason>> ELSE GivesUp("incomplete")
  /\ UNCHANGED <<settingVars, dbVars, configureVars, starts, emptied>>

MakesAnew ==
  /\ \/ Upcoming("refresh") /\ RefreshConfig
     \/ Upcoming("scrapers") /\ RefreshScraperCache
  /\ Proceed /\ StepsOnly
  /\ UNCHANGED <<settingVars, dbVars, plan, calls, requested, faults, emptied>>

----------------------------------------------------------------------------
(* The database. *)

\* One migration after the other, each begun with a mark and ended with its removal.
NextMigration(file) == GoesTo(IF file.version = AppSchema THEN "reopen" ELSE "mark")

OpensDatabase ==
  /\ Upcoming("database")
  /\ LET path == GetString("database") IN
       /\ dbPath' = path
       /\ IF path \in BadPaths THEN
            GivesUp("database") /\ UNCHANGED <<databaseSchemaVersion, open>>
          ELSE
            /\ Connect(path)
            /\ IF File(path).version = 0 THEN NextMigration(File(path)) ELSE Proceed
            /\ UNCHANGED <<stage, reason>>
  /\ UNCHANGED <<settingVars, dbs, backups, wrote, configureVars, starts, emptied>>

Migrates ==
  /\ \/ Upcoming("mark") /\ Mark /\ Proceed
     \/ Upcoming("run") /\ RunOne /\ Proceed
     \/ Upcoming("clean") /\ Clean /\ NextMigration(File(dbPath))
     \/ Upcoming("reopen") /\ Reopen /\ Proceed
  /\ StepsOnly
  /\ UNCHANGED <<settingVars, configureVars, emptied>>

MigrationFails ==
  /\ Upcoming("run") /\ Fault(TRUE)
  /\ GivesUp("migration")
  /\ UNCHANGED <<settingVars, dbVars, plan, calls, live, left, requested, starts, emptied>>

\* A library that has scenes already goes on with the hashes it had, whatever
\* requests that are under way were told before.
PostMigrate ==
  /\ Upcoming("post migrate")
  /\ IF Ready THEN
       \E outcome \in Outcomes :
         LET usingMD5 == File(open).rows # 0 IN
         /\ SetChecksumDefaults(usingMD5, outcome)
         /\ Saved(WithChecksumDefaults(usingMD5), outcome)
         /\ calls' = [u \in Users |-> SetByOthers(u, DOMAIN ChecksumDefaults(usingMD5))]
     ELSE UNCHANGED <<settingVars, calls, left, faults, emptied>>
  /\ Proceed /\ StepsOnly
  /\ UNCHANGED <<dbVars, plan, live, requested>>

Serves ==
  /\ Upcoming("serve")
  /\ stage' = "serving" /\ task' = NoTask
  /\ UNCHANGED <<settingVars, dbVars, configureVars, reason, starts, emptied>>

----------------------------------------------------------------------------
(* The wizard. *)

Setup ==
  /\ stage = "serving" /\ isNewSystem /\ task = NoTask
  /\ \E input \in plan.setups : task' = [job |-> "setup", at |-> "location", input |-> input]
  /\ StepsOnly /\ UNCHANGED <<settingVars, dbVars, configureVars, emptied>>

\* An empty file, if there is none.
TouchConfig ==
  /\ Upcoming("location")
  /\ disk' = IF disk = NoFile THEN <<>> ELSE disk
  /\ emptied' = (emptied \/ disk = NoFile)
  /\ Proceed /\ StepsOnly
  /\ UNCHANGED <<overrides, changed, config, defaults, isNewSystem, dbVars, configureVars>>

MakeGenerated ==
  /\ Upcoming("generated")
  /\ IF HasOverride("generated") THEN Proceed /\ UNCHANGED <<changed, stage, reason>>
     ELSE IF EnsureDir(task.input.generated) THEN
            SetTo("generated", task.input.generated) /\ Proceed /\ UNCHANGED <<stage, reason>>
     ELSE UNCHANGED changed /\ GivesUp("directory")
  /\ UNCHANGED <<overrides, config, defaults, disk, isNewSystem, dbVars, configureVars, starts, emptied>>

SetUpSettings ==
  /\ Upcoming("settings")
  /\ LET chosen == IF HasOverride("database") THEN {"stash"} ELSE {"stash", "database"}
     IN changed' = Over([key \in chosen |-> task.input[key]], changed)
  /\ Proceed /\ StepsOnly
  /\ UNCHANGED <<overrides, config, defaults, disk, isNewSystem, dbVars, configureVars, emptied>>

WriteSetUp ==
  /\ Upcoming("write")
  /\ \E outcome \in Outcomes :
       /\ Write(AllSettings, outcome)
       /\ Saved(AllSettings, outcome)
       /\ IF outcome = "written" THEN Proceed /\ UNCHANGED <<stage, reason>> ELSE GivesUp("configuration")
  /\ UNCHANGED <<overrides, changed, config, defaults, isNewSystem, dbVars, plan, calls, live, requested, starts>>

FinalizeSetup ==
  /\ Upcoming("finalize")
  /\ isNewSystem' = FALSE /\ task' = NoTask
  /\ StepsOnly
  /\ UNCHANGED <<overrides, changed, config, defaults, disk, dbVars, configureVars, emptied>>

----------------------------------------------------------------------------
(* Migration, asked for by a user, who may want to keep the backup. *)

Migrate ==
  /\ stage = "serving" /\ ~isNewSystem /\ task = NoTask
  /\ ~Ready /\ NeedsMigration(databaseSchemaVersion)
  /\ \E keep \in BOOLEAN :
       task' = [job |-> "migrate", at |-> "backup", input |-> [backup |-> IF keep THEN 0 ELSE starts]]
  /\ StepsOnly /\ UNCHANGED <<settingVars, dbVars, configureVars, emptied>>

\* Mutant: a backup is written over an older one.
BacksUpOver ==
  /\ Upcoming("backup") /\ Backup(task.input.backup) /\ Proceed /\ UNCHANGED <<stage, reason>>
  /\ UNCHANGED <<settingVars, configureVars, starts, emptied>>

\* No backup is written over another.
BacksUp ==
  /\ Upcoming("backup")
  /\ IF task.input.backup \in DOMAIN backups THEN GivesUp("backup") /\ UNCHANGED dbVars
     ELSE Backup(task.input.backup) /\ Proceed /\ UNCHANGED <<stage, reason>>
  /\ UNCHANGED <<settingVars, configureVars, starts, emptied>>

RunMigrations ==
  /\ Upcoming("migrations")
  /\ MigrationBegins
  /\ IF MustStop THEN GivesUp("migration")
     ELSE NextMigration(File(dbPath)) /\ UNCHANGED <<stage, reason>>
  /\ UNCHANGED <<settingVars, configureVars, starts, emptied>>

Restores ==
  /\ Upcoming("restore")
  /\ RestoreFromBackup(task.input.backup)
  /\ task' = NoTask /\ StepsOnly
  /\ UNCHANGED <<settingVars, configureVars, emptied>>

RemovesBackup ==
  /\ Upcoming("remove backup")
  /\ IF task.input.backup = 0 THEN UNCHANGED dbVars ELSE RemoveBackup(task.input.backup)
  /\ task' = NoTask /\ StepsOnly
  /\ UNCHANGED <<settingVars, configureVars, emptied>>

----------------------------------------------------------------------------

UsersConfigure ==
  /\ stage = "serving" /\ ~isNewSystem /\ \E u \in Users : ConfigureStep(u)
  /\ emptied' = IF disk' = disk THEN emptied ELSE disk' = <<>>
  /\ UNCHANGED <<stage, task, reason, starts>>

\* The library changes only when there is a database.
LibraryGrows ==
  /\ stage = "serving" /\ UserWrites
  /\ UNCHANGED <<settingVars, configureVars, startupVars>>

\* The server goes down, and leaves the file empty if it was about to write it.
Writing ==
  \/ \E u \in Users : Doing(u, "write")
  \/ \E step \in {"existing", "initialize", "initial", "write", "post migrate"} : Upcoming(step)
GoesDown ==
  /\ stage \in {"starting", "serving", "failed"} /\ starts < plan.starts
  /\ \/ UNCHANGED <<disk, emptied>>
     \/ Writing /\ disk' = <<>> /\ emptied' = TRUE
  /\ CloseDatabase
  /\ stage' = "down" /\ task' = NoTask /\ reason' = "none"
  /\ changed' = <<>> /\ config' = <<>> /\ defaults' = <<>> /\ isNewSystem' = FALSE
  /\ calls' = [u \in Users |-> NoCall] /\ left' = {} /\ live' = [paths |-> "", scrapers |-> ""]
  /\ UNCHANGED <<overrides, dbs, backups, wrote, plan, requested, faults, starts>>

StartupNext ==
  \/ Initialize \/ SetsExistingDefaults \/ SetsInitialConfig("initialize") \/ SetsInitialConfig("initial")
  \/ Validate \/ MakesAnew \/ OpensDatabase \/ Migrates \/ MigrationFails \/ PostMigrate \/ Serves
  \/ Setup \/ TouchConfig \/ MakeGenerated \/ SetUpSettings \/ WriteSetUp \/ FinalizeSetup
  \/ Migrate \/ BacksUp \/ RunMigrations \/ Restores \/ RemovesBackup
  \/ UsersConfigure \/ LibraryGrows \/ GoesDown

StartupSpec == StartupInit /\ [][StartupNext]_serverVars

----------------------------------------------------------------------------
(***************************************************************************)
(* While the server serves: see SettingsAgree.                             *)
(***************************************************************************)
SettingsKept == stage = "serving" /\ ~isNewSystem => SettingsAgree

(***************************************************************************)
(* Whatever users set, and whenever the server went down, it has the       *)
(* settings it must have to start again, unless the file was left empty:   *)
(* by a write that was cut short, or by a wizard that was not finished     *)
(* (Validate, config.go:1218-1241; Setup, manager.go:387-413).             *)
(***************************************************************************)
StartsAgain == stage = "failed" /\ reason = "incomplete" => emptied
=============================================================================
