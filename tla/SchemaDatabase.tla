--------------------------- MODULE SchemaDatabase ---------------------------
(***************************************************************************)
(* The database's file and its schema, pkg/database/database.go.  Of a     *)
(* migration the library keeps in the file its number and a mark that it   *)
(* has begun; what it does to the tables is one transaction in between.    *)
(* Users' data is the number of their changes.                             *)
(***************************************************************************)
EXTENDS Naturals

CONSTANTS
  AppSchema,   \* appSchemaVersion: 31 in the code
  BadPaths,    \* where no database can be made
  Closed,      \* no connection, or no path yet
  MaxRows      \* bound: changes by users

ASSUME SchemaAssumption == AppSchema \in Nat \ {0} /\ MaxRows \in Nat

VARIABLES
  dbs,         \* path -> the file
  backups,     \* name -> the path it is a backup of, and its content
  dbPath, databaseSchemaVersion,
  open,        \* DB: the path it is connected to
  wrote        \* history: path -> changes by users of a database that is not marked

dbVars == <<dbs, backups, dbPath, databaseSchemaVersion, open, wrote>>

NewDatabase == [version |-> 0, marked |-> FALSE, applied |-> 0, rows |-> 0]
File(path) == IF path \in DOMAIN dbs THEN dbs[path] ELSE NewDatabase
With(f, key, value) == [k \in DOMAIN f \cup {key} |-> IF k = key THEN value ELSE f[k]]
Put(path, file) == dbs' = With(dbs, path, file)

Ready == open # Closed

\* Every migration has been made.
Whole(file) == file.applied = AppSchema

----------------------------------------------------------------------------
(* Opening. *)

NeedsMigration(version) == version # AppSchema

\* An existing database: it is connected to only if its schema is up to date.
Connect(path) ==
  /\ databaseSchemaVersion' = File(path).version
  /\ open' = IF NeedsMigration(File(path).version) THEN open ELSE path

CloseDatabase == open' = Closed /\ dbPath' = Closed /\ databaseSchemaVersion' = 0

UserWrites ==
  /\ Ready /\ File(open).rows < MaxRows
  /\ Put(open, [File(open) EXCEPT !.rows = @ + 1])
  /\ wrote' = IF File(open).marked THEN wrote
              ELSE With(wrote, open, IF open \in DOMAIN wrote THEN wrote[open] + 1 ELSE 1)
  /\ UNCHANGED <<backups, dbPath, databaseSchemaVersion, open>>

----------------------------------------------------------------------------
(* Migrations.  One that was interrupted is never taken up again.          *)

MigrationBegins == databaseSchemaVersion' = File(dbPath).version /\ UNCHANGED <<dbs, backups, dbPath, open, wrote>>
MustStop == File(dbPath).version # AppSchema /\ File(dbPath).marked

Mark ==
  /\ Put(dbPath, [File(dbPath) EXCEPT !.version = @ + 1, !.marked = TRUE])
  /\ UNCHANGED <<backups, dbPath, databaseSchemaVersion, open, wrote>>

RunOne ==
  /\ Put(dbPath, [File(dbPath) EXCEPT !.applied = @ + 1])
  /\ UNCHANGED <<backups, dbPath, databaseSchemaVersion, open, wrote>>

Clean ==
  /\ Put(dbPath, [File(dbPath) EXCEPT !.marked = FALSE])
  /\ UNCHANGED <<backups, dbPath, databaseSchemaVersion, open, wrote>>

Reopen == Connect(dbPath) /\ UNCHANGED <<dbs, backups, dbPath, wrote>>

----------------------------------------------------------------------------
(* Backups. *)

Backup(name) ==
  /\ backups' = With(backups, name, [of |-> dbPath, file |-> File(dbPath)])
  /\ UNCHANGED <<dbs, dbPath, databaseSchemaVersion, open, wrote>>

Without(name) == [b \in DOMAIN backups \ {name} |-> backups[b]]

\* The backup takes the database's place.
RestoreFromBackup(name) ==
  /\ Put(dbPath, backups[name].file)
  /\ backups' = Without(name)
  /\ UNCHANGED <<dbPath, databaseSchemaVersion, open, wrote>>

RemoveBackup(name) ==
  /\ backups' = Without(name)
  /\ UNCHANGED <<dbs, dbPath, databaseSchemaVersion, open, wrote>>

----------------------------------------------------------------------------
(***************************************************************************)
(* A database that is served has all of the schema's migrations, or is one *)
(* whose last migration never ended and which is marked so: the mark is    *)
(* not looked at (getDatabaseSchemaVersion, database.go:231-240).          *)
(***************************************************************************)
ServedIsWhole == Ready => Whole(File(open)) \/ File(open).marked

(***************************************************************************)
(* What users wrote is in a file that can be served or migrated, the       *)
(* database or a backup of it, whatever fails and whenever the server goes *)
(* down in the middle of a migration (Migrate, manager.go:437-475).        *)
(***************************************************************************)
WrittenIsKept ==
  \A path \in DOMAIN wrote :
    \E file \in {File(path)} \cup {backups[b].file : b \in {n \in DOMAIN backups : backups[n].of = path}} :
      /\ file.rows >= wrote[path]
      /\ ~file.marked \/ file.version = AppSchema

DataKept == ServedIsWhole /\ WrittenIsKept
=============================================================================
