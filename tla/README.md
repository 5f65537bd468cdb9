# Stash: specification and proofs

TLA+ modules of the parts of Stash (a self-hosted media organiser, in Go) that
keep state between requests and change it from several goroutines, and of the
queries that read it; TLC configurations that check them on small instances; and
TLAPS proofs of the main invariants. Paths below are relative to the repository,
`src/` being its root.

Contents: [the system](#the-system) ·
[modules](#modules-and-how-they-correspond-to-the-code) ·
[runs](#runs) · [bounds](#bounds-and-why-they-are-enough) ·
[fairness](#fairness) · [what TLC found](#what-tlc-found) ·
[proofs](#proofs) · [only model-checked](#what-is-only-model-checked) ·
[not modelled](#what-is-not-modelled) · [plan](#plan)

## The system

Stash serves a GraphQL API over an SQLite database and runs long tasks (scan,
import, export, clean, generate, identify, auto-tag) as jobs. A user's
request either changes the database in one transaction, reads it, or adds a job.
One dispatcher executes jobs one at a time; a job starts bounded numbers of
goroutines, which share the database, its write lock and the claims on hashes.
Subscriptions (web sockets) are told of jobs, logs and finished scans through
Go channels. A DLNA service can be turned on and off for a while.

Transactions that write hold one process-wide lock (`WriteMu`); those that read
hold nothing and begin nothing, so what a reader sees changes from statement to
statement. Most of what is hard in Stash comes from that, from goroutines that share
slices, and from files, which no transaction rolls back.

| Component | State | Operations | Interacts with | What is hard | What makes it correct |
|---|---|---|---|---|---|
| Job manager, `pkg/job` | queue, graveyard, status, contexts, subscriptions, throttle timers | `Add`, `Start`, `CancelJob`, `CancelAll`, `Stop`, `Subscribe`, dispatcher, job goroutines, timer callbacks | every job; API subscriptions by channels | condition variable, unlock while a job runs, two goroutines that may remove one job, slices shifted in place, full and closed channels, late timers | one job at a time, in order; no lost wake-up; each job found until forgotten, leaves in the end, status final; subscribers told of departures, and of the last progress |
| Hash claims, `pkg/utils/mutex.go` | map from key to channel | `Claim`, close of `done`, cleanup goroutine | the three scanners | a claim that is granted after a wait replaces an entry; cleanups run late | mutual exclusion per key |
| Scan job, `internal/manager/task_scan*.go`, `pkg/{scene,image,gallery}/scan.go` | rows of items, write lock, tasks | loop, `Start` of a task, `ScanExisting`, `ScanNew` | hash claims, database, job's context | lookup and write are different transactions; cancellation between any two steps; two claims a scene | no two items for new copies; all contents recorded; items keep their files; the scan ends |
| File deletion, `pkg/file/delete.go`, `pkg/models/transaction.go`, `pkg/{scene,image}/delete.go` | files named `.delete`, rows | mark, commit, rollback, by mutations and the clean job | write lock, generators, clients that leave | a commit that fails unnoticed, a rename that fails half-way, a crash in between, removal after the lock is given back | what stays in the library keeps its file; names are given back; images that others share stay; every request ends |
| Clean job, `internal/manager/task_clean.go` | what is missing | query, assess, delete | file deletion, users | deletes what it found missing earlier | as above |
| Tags, `resolver_mutation_tag.go`, `pkg/tag`, `pkg/sqlite/tag.go` | rows, the relation of parents and children | create, update, destroy, merge, each with `ValidateHierarchy` | import | validated after the change, against searches that see it | no tag is its own ancestor; merging keeps ancestry |
| Export, `task_export.go` | files, lists of ids | both exports, goroutines that read a row's links | users who delete rows | goroutines append to shared lists without a lock; no transaction | related rows are exported |
| Import, `task_import.go`, `import.go`, `pkg/*/import.go` | `pendingParent`, calls inside calls, a transaction for each file | `ImportTags`, `ImportStudios`, `performImport` of seven kinds | export, users' edits, job's context | recursion over a map that it changes; rollback of rows but not of the map; order of kinds | what was exported is restored; nothing is overwritten unasked; the import ends |
| Auto-tag, `task_autotag.go`, `internal/autotag`, `pkg/match` | page of rows, cache | by files, or by performers, studios, tags | users' edits | works on rows read before other transactions; offsets of pages move | adds only; leaves nothing out; ends |
| Identify, `task_identify.go`, `internal/identify` | page, answers of sources | lookup, field strategies, creation of what is missing | users' edits, scrapers | as auto-tag; it changes what its own query asks for | as auto-tag |
| Changes by users, `resolver_mutation_*.go` | rows and link tables | update, bulk update, merge, create, destroy | all jobs | link tables without unique index | merging loses no attachment |
| Queries, `pkg/sqlite` | none; SQL text | filters of eight kinds with sub-filters, searches, count, ids, objects | users' edits between statements | joins shared between criteria, three-valued logic, `HAVING` apart from `WHERE`, roots of hierarchies read earlier | an answer is what was meant at one moment; criteria combine as sets |
| DLNA service, `internal/dlna/service.go`, `whitelist.go` | running, two timers and times, temporary addresses, channels of the server | `Start(d)`, `Stop(d)`, callbacks, `AllowPattern`, `RemovePattern`, `IPAllowed`, `Status` | timers, the server's goroutine, requests | callbacks that wait for the mutex after their timer was stopped; a server that is still setting up | timers match the service; an announced end comes; clients are let in as granted |
| Read locks, `pkg/fsutil/lock_manager.go` | locks of streams by path | `ReadLock`, `Cancel`, waiter goroutine | streams, encoders, deletion | slice used outside the mutex | every reader is listed |
| Scan subscriptions, `internal/manager/subscribe.go` | list of channels | subscribe, notify | clean job, API | sends with the mutex held | notify gets past every client; nothing is sent on closed channels |
| Download store, `internal/manager/downloads.go` | map of files by random key | `RegisterFile`, `Serve`, removal after 30 s | export, API | removal that races a second request, early return without unlock | a file is kept while it is served, and removed in the end |
| Configuration, `internal/manager/config`, `resolver_mutation_configure.go` | overrides, what was set, the file when read, the file | start, requests that set one setting after the other, write, refresh of what was made of settings | the start, the scraper cache, paths | nothing keeps requests apart; a refused one has set some; a write that fails or is cut short | settings in force are in the file; a request that is answered took effect; the server starts again |
| Database lifecycle, `pkg/database`, `manager.go` | schema version and mark in the file, connection, backups | open, migrate, back up, restore, Setup | configuration | the server may go down between two steps; a mark that is left; a backup that is renamed over a file | a database that is served is whole; what users wrote is in it or in a backup |
| Mutations of the library, `resolver_mutation_*.go`, `pkg/sqlite/repository.go` | all tables, unique indexes and foreign keys, hooks | the mutations of eight kinds and of filters | queries, fields, plugins | fields that are not given, null, or given; statements that cascade; what is validated and what is not | a mutation does what the request says and nothing else; rows make sense; plugins are told |
| Fields of objects, `resolver_model_*.go` | none | an object's row is read, then its fields are looked up | mutations in between | the row is older than what is looked up; a "read transaction" begins nothing | what a client is told was so at some moment |
| Job progress, generate and migrate-hash jobs, plugins and hooks, logger, rest of the GraphQL API, sessions, scrapers, media processing, DLNA server and content directory, desktop and browser | requests' own, external processes | | | mostly sequential code and I/O | see [not modelled](#what-is-not-modelled) |

`PROJECT.json` names each component's files, what is modelled of it, and every
hazard at its line with the properties that are about it.

## Modules and how they correspond to the code

A definition has the name of the function or of the handler it translates;
`PROJECT.json` maps it to its lines. One action is one critical section, one
transaction step, or one step of a goroutine between two of them. Definitions
marked "Mutant" are the plausible bugs against which the properties are tested;
nothing else uses them.

```
JobQueue      <-implements-  JobManager
HashLocks     <-implements-  MutexManager  <-EXTENDS- ScanJob
FileDeletion
Library <- AutoTag, Identify <- LibraryJobs
TagHierarchy <- TagImport <- Transfer <- ExportTask <- ImportTask
Settings, SchemaDatabase <- Configure <- Startup
DlnaService, Downloads, ReadLocks, ScanSubscriptions, Startup <- Services
Filters <- ObjectFilters <- Queries, Lookups, Catalog
Catalog, TagHierarchy <- Mutations;  Lookups, Mutations <- Resolvers
Queries, Resolvers <- Clients
MC*: instances for TLC
JobManagerProofs, ScanJobProofs, FileDeletionProofs, ServicesProofs,
LibraryJobsProofs, TransferProofs;  ServicesProofs <- ConfigurationProofs
```

**JobManager** (`pkg/job/manager.go`, `subscribe.go`, `job.go`). `queue`,
`graveyard`, `lastID`, `stopped`, `status`, `ctxDone` are the manager's and the
jobs' fields; `exec` and `dispatcher` say how far the goroutines are; `progress`,
`notified`, `throttled`, `timer`, `callbacks` are the throttle of
`updateProgress`; `newJob`, `updatedJob`, `removedJob` are the buffered channels.
The mutex is not a variable: each action is what one goroutine does between
`Lock` and `Unlock`, or between two waits. `DispatcherStart/Wake/Done` are the
sections of `dispatcher`: the wait for the condition variable unlocks, and so
does the wait for `done`, between which everything else may happen. `JobFinish`
(`onJobFinish`) and `CloseDone` are two steps of the job's goroutine, in whose
gap `CancelJob` and `CancelAll` see an ended job still queued. `RangeLoop` is the
loop of `CancelAll` over `m.queue`, whose array `removeJob` shifts in place.
`UpdateProgress`, `IntervalEnds`, `TimerCallback` are the throttle: the interval
ends, the callback starts, and waits for the mutex. Messages are copies of the
job, so a message shows the state when it was sent. Descriptions and times are
left out. **JobQueue** is what the manager promises: jobs are submitted in order
of their IDs, begin one at a time in that order, end, or are withdrawn, and those
that can begin do.

**MutexManager** (`pkg/utils/mutex.go`). A task stands for the channel `done`
it made. `entry` is the map, `closed` the closed channels, `calls` each task's
`Claim` of each key: the attempt, the wait for the channel seen there, the
attempt after it (`seen`), and the goroutine that removes the entry when the
channel closes, which may run at any later time. **HashLocks** is its promise:
a lock per key.

**ScanJob** (`internal/manager/task_scan*.go`, `pkg/{scene,image,gallery}/scan.go`,
`pkg/file/scan.go`, `pkg/sqlite/transaction.go`). `job`, `next` and `cancelled`
are `ScanJob.Execute` with `wg.Add` and `wg.Wait`. A task goes through
`Find` (by path), `ClaimHashes`, and either `Update`/`UpdateClashes`/`BeginFails`
and `Commit` (`ScanExisting`) or `Lookup`, `Write`, `WriteGallery`, `LeaveNew`
(`ScanNew`). `writer` is `WriteMu`, taken by `Begin`. `Close` of a claim happens
where the code has it: in `ScanExisting` when the transaction's function returns,
which is before `Commit`; in `ScanNew` when the function returns. `Fold` and
`FsCaseSensitive` are what `FileExists` compares names by: the scene and the image
scanners are not given the setting, and fold case.

**FileDeletion** (`pkg/file/delete.go`, `pkg/models/transaction.go`,
`pkg/{scene,image}/delete.go`, `resolver_mutation_{scene,image,gallery}.go`,
`task_clean.go`). `disk` maps a file to the names it is found under, its own and
`.delete`; a generator may make a file again while its old one is marked, so there
may be both. A request goes from `Begin` through `Look` (the rows it finds and what is
to be done for each, `StepsFor`), one `Step` for each rename and row, to `Commit`
or `CommitFails`, or by `Fail` and `Restore` to where it began, and removes the
files one by one after it has given the lock back. What then cannot be removed or renamed
back (`RemoveFails`, `RestoreFails`) is passed over and no longer listed, as the code
only logs it; of a folder any part may be left. A client that leaves makes a
commit fail, which the code does not notice (`transaction.go:50`). A panic and a
crash lose `Deleter`'s lists and leave files marked; the database rolls back. `CleanQuery`,
`Assess`, `CleanNext`, `Clean` are the clean job.

**Library** holds the rows that jobs change, and users' mutations of them;
links are counted, as the tables that hold them have no unique index. Its second part is
what both jobs have in common: pages asked for by offset, then objects by id in another
statement, so that a row may be gone or a page shifted in between. **AutoTag** is
`autoTagFilesTask` and the `autoTag{Performers,Studios,Tags}` entries of
`task_autotag.go`, with `match.Cache` (names of a single letter are read once for
the whole job, and never again). **Identify** asks a source outside of any
transaction and then decides each field by its strategy against the row it read
*before* (`identify.go:240`). **LibraryJobs** puts one job and one user together.

**TagHierarchy, TagImport** (`resolver_mutation_tag.go`, `pkg/tag/update.go`,
`pkg/sqlite/tag.go`; `task_import.go`, `import.go`, `pkg/tag/import.go`). `tags` and
`relations` are the tables. `Reached` is the recursive SQL query (`UNION`, so it
ends on cycles). `TagCreate`, `TagUpdate`, `TagsDestroy`, `TagsMerge` are the
mutations: they write, then validate, and roll back. `ImportTag` calls itself for the
tags that wait for the one just imported, all in one transaction: `stack` is those
calls, `pending` is `pendingParent`, which a rollback does not restore.

**Transfer, ExportTask, ImportTask** (`task_export.go`, `task_import.go`,
`pkg/*/{export,import}.go`). A row is its kind and what it refers to (`refs`);
`files` is what an export has written. `ExportOrder` and `RestOrder` are the order of
the kinds; `SceneJSON` and its siblings are what a file of each kind names, in the
order in which its dependencies are appended, `SceneImporter` and its siblings what
an importer puts in a column and what in joined tables. In an export `Workers`
goroutines `Look` at a row and what it is linked with, `Resolve` the names of its movies
and its dependencies, `Load` a list of ids and `StoreList` it with theirs (in between,
another goroutine's result is lost) and `SaveFile`. An import goes through the
kinds with `performImport`; studios wait for their parents in a map (`ImportStudio`,
`ImportWaiting`); scenes come with their markers.

**DlnaService** (`internal/dlna/whitelist.go`, `service.go`, `dms.go`).
`temp` is the temporary list, `granted` a history of what users granted, by which
`GrantsHold` judges it. The service's mutex makes `Start` and `Stop` one step
each; `FireStop`/`FireStart` are timers that go off, `StopCallback`/`StartCallback`
their goroutines when they get the mutex. `server` is how far the goroutine
with `Serve` has come: `launched`, `opened` (the channel `closed` exists),
`serving` (`ssdpStopped` exists). `StopHangs` and `StopPanics` are what `Close`
does before that.

**Downloads, ReadLocks, ScanSubscriptions** are one file each. In `Downloads`, `wg` is
each file's `WaitGroup` and `remover` its goroutine of `waitAndRemoveFile`. In
`ReadLocks`, `arrays` are the arrays that slices of `readLocks[fn]` share: `append`
writes to the same array while there is room, and `WaitAndUnlock` shifts its
elements down while `Cancel` walks over it. In `ScanSubscriptions`, `notify` sends to
one channel after the other with the mutex held.

**Settings, Configure** (`internal/manager/config`, `resolver_mutation_configure.go`).
A setting is read from `overrides` (flags, environment), `changed`, `config` (the file
as it was read) and `defaults`, in that order; `WriteConfig` puts all but the overrides in
`disk`. A request (`calls`) goes through the places of a list of settings in the code's order, each checked and
set in a step of its own, then `write`, then the refreshes (`todo` is what is left of them); two requests may be at any of
their steps, as no mutex spans them. `left` remembers what a refused or failed request has
left in memory, and `others` of a request what somebody else has set since it began. **SchemaDatabase** (`pkg/database/database.go`) is the file with its
version, the mark of a migration that has begun (`dirty`), and the rows; a migration
is `Mark`, `RunOne`, `Clean` for each version. **Startup** (`config/init.go`, `manager.go`) is
the start, the wizard (`Setup`) and `Migrate` with its backup, step by step; `GoesDown`
may come between any two, and may leave the file empty where it was being written.

**Services** checks the DLNA service, downloads, read locks, subscriptions and the
start with the configuration together: they share nothing, so a behaviour is that of
one of them.

**Filters** (`pkg/sqlite/filter.go`, `query.go`, `sql.go`, `repository.go`) is what a
criterion becomes: joins, clauses and a `HAVING`, how they are combined with those of
a sub-filter, and what the database answers, with SQL's third truth value. Joins are
made once for an alias (`Distinct`), `NOT` of what is unknown is unknown, a sub-filter's
`WITH` is not in the query. **ObjectFilters** has the `makeFilter` of the eight kinds and
every handler they use. **Queries** is the course of a query: roots of hierarchies are read while the
filter is made (`MakeFilter`), then come the count, the ids, and the objects, each a
statement that sees what is committed by then.

**Catalog** (`pkg/sqlite/repository.go`, `pkg/database/migrations`) has the tables, what
their unique indexes and foreign keys do (`References`, with what goes along when a row
goes), and the statements of repositories; a transaction is a sequence of them, of
which one may fail. A table without a unique index holds a row as often as it is written
(`Again`: each further one has its number in a column of its own); lists are sequences, and
may name an id twice. **Mutations** has an operator for each mutation, which computes its
statements from the request and the library, and the hooks it executes in their order; the write lock
makes it one step. Its fields are functions, in which one that was not given is
missing and one given as null is `Null`, as `changesetTranslator` tells them apart.
**Lookups** has the resolvers of fields and what repositories look up for them,
as sets: an object's performers, of which the lookup tells one twice that is linked twice, are
in it once,
**Resolvers** a client that reads an object and then one of its fields, with other
clients' mutations in between. **Clients** puts them together with a query that is under
way.

## Runs

| Run | Result | Distinct states | Asks |
|---|---|---|---|
| `JobManagerQueue` | holds | 21 456 | As the application uses it (`Add`, `CancelJob`, `CancelAll`): one job at a time (`OneAtATime`), no lost wake-up (`NoLostWakeup`), every job findable (`NoJobVanishes`), every job leaves, and `JobQueue` with its liveness is implemented. |
| `JobManagerNotify` | holds | 1 628 347 | Every operation, `Start` and `Stop` included, and a subscription whose channels fill: the last progress of a job that runs is told or about to be (`LastProgressPending`), and so is each departure (`DepartureAnnounced`). |
| `JobManagerCancelAll` | violated | | `CancelAllCancelsAll`, the comment of `CancelAll`. |
| `ScanJob` | holds | 352 128 | Three files against small databases, cancelled at any moment: `Exclusive` and `ImplementsLocks` (claims), `ScanRecords` (no contents are recorded twice, none are left out), `ItemsKeepFiles`, `ScanEnds`. |
| `ScanJobClaims` | violated | | `ClaimsFreed`, "free the mutex once transaction is complete". |
| `Deletion` | holds | 204 153 | Two requests on the same things, the clean job, generators, clients that leave, renames and removals that fail and crashes: `MediaKept`, `MarkedOnlyInFlight`, `SharedImagesStay`, `RequestsEnd`. |
| `DeletionCommit` | violated | | `FilesOutliveRows`, the comment of `Deleter`. |
| `Library` | holds | 68 390 | Auto-tag and identify jobs while a user changes the library between any two of their steps: `AllReached`, `JobsOnlyAdd`, `JobEnds`. |
| `LibraryIdentify` | violated | | `IdentifyReachesAll`, "this task iterates through your Scenes". |
| `Transfer` | holds | 295 886 | Every hierarchy of three tags imported whole, in part or with invalid files, with every choice for duplicates and missing parents, between users' edits; libraries of every kind of row taken to other libraries: `Acyclic`, `MergeKeepsAncestry`, `TransfersRestore`, `RelatedAreExported`, `ImportsOnlyAdd`, `TransferEnds`. |
| `Services` | holds | 78 991 | Timers fire late, the server is slow, clients come and go: `TimersMatch`, `EndIsComing`, `GrantsHold`, `FilesInHand`, `ServicesSettle`. Two users configure at once, writes fail, a server goes down between any two steps of its start, of the wizard and of a migration: `SettingsKept`, `RequestsTakeEffect`, `StartsAgain`, `DataKept`. |
| `Clients` | holds | 48 409 | Criteria on links, counts and hierarchies of the eight kinds, searches, and pairs of criteria at one level or with `AND`, `OR`, `NOT` between them, some links there twice, while a table changes: `QueriesMean`. Two mutations of any kind, some of them refused, some naming an id twice or editing what a merge has left, around a client that reads an object and a field: `MutationsMean`, `RowsMakeSense`, `HooksTell`, `FieldsMean`, `RepliesWereTrue`. |

Some names stand for two properties that one instance shows: `ScanRecords` is
`NewcomersAgree /\ ContentsRecorded`, `TransfersRestore` is `ForestsAreRestored /\
FullTransferRestores`, `FilesInHand` is `FoundIsServed /\ ReadersAreListed`, `DataKept` is
`ServedIsWhole /\ WrittenIsKept`, and `QueriesMean` is `AnswersMean /\ FiltersCombine`.

Each property's comment in its module says what it means and which lines it is
about. For every property of a run that holds, `PROJECT.json` has a mutant, a
change that a plausible bug would make, under which TLC finds it violated.

## Bounds and why they are enough

- `JobManagerQueue`: `MaxJobs = 5`, `MaxGraveyard = 2` (ten in the code). The
  loop of `CancelAll` first passes over a job with two or three waiting
  behind a running one; five leave room for jobs submitted before and after
  it, and for the graveyard to overflow twice.
- `JobManagerNotify`: `MaxJobs = 2`, one subscription, channels of one (100 in
  the code), two progress reports over all jobs (`FewReports`). Full
  channels, a late timer of a job that has left, and a second job behind it
  all occur. Subscriptions do not influence each other, so one is
  enough. Reports that are dropped for having the same progress are not counted.
- `ScanJob`: three files, two contents, two tasks at a time, nine kinds of
  database (`MCScanJob.tla`): copies of a new file; copies of one that is
  gone; a known file that now holds a new one's contents; one whose old
  contents are in a third; a file overwritten by another item's; two files that
  changed places; an old database that holds copies. With two at a time `wg.Add` has
  to wait, and the third task still meets the entry that the first has left, while
  the second replaces it: the case that `Claim` has to get right.
  The names of `b` and `c` differ in case only, on a case-sensitive file system.
- `Deletion`: a scene with two markers, a folder gallery and a zip that share an
  image, and one image in the zip's file only; in each of six `Scenarios` two requests
  meet over the same rows, with the clean job or without. `MaxFaults = 2` allows a failure
  and another, or a crash, in the restoration that follows; one generated file may be made
  again (`Regenerated`), the preview of a marker, whose folder is marked with it.
- `Library`: two scenes, an image, a gallery; pages of one row (`BatchSize`, 1000 in
  the code), so that two scenes take three pages; `MaxEdits = 1`: one transaction
  of the user between any two steps already makes every read stale. Two
  `Beginnings`: nothing linked, or some things by hand. `Newcomers` are what users or
  identify may create, two of them with the same name. Four `Answers` of a
  source: nothing, what is there, what is there in part, what is not.
- `Transfer`: three tags give chains, tags with two parents and parents with two
  children, in every order of the files; `MaxDepth` (6) stands for the goroutine's
  stack: calls that do not recur nest at most as deep as there are tags. The
  other kinds have one or two rows each, and studios four, since the fourth generation
  is where `ImportStudios` fails. One or two `Workers`; `MaxDeletions = 1`.
- `Services`: one client and the wildcard; instants 0 to 2; durations 0 and 1; at
  most two callbacks of a kind waiting (`MaxFired`): one duration can start, be
  replaced and run out while the callback of an earlier one still waits. Two files,
  keys and requests. Three `Locks` and one of the `Cancellers`: `append` finds room
  where an element was shifted away only when there have been three. Two
  subscribers, channels of one (`Capacity`), three notifications (`MaxNotified`).
  Servers: a schema of three versions (`AppSchema`; 31 in the code), so that a migration
  may be cut short before, between and after its steps; two changes by users (`MaxRows`).
  The `Plans` are two requests at a time on a settled system; one request, a failed
  write and a start after it, with and without overrides; an old database with a failure
  and three starts, or with a request while it is migrated; a new system set up in four
  ways, one failure, two starts.
- `Clients`: for queries, each database has nine objects of the kind that is asked for,
  linked with every subset of three others, one with nothing, and every second one has one
  link twice; an answer depends on an object's own links only. A change takes one table from the database's other version
  (`MaxChanges = 1`). `Vocabulary` has two words, `Most` bounds numbers. For mutations, a library
  with a few objects of each kind, linked to each other, and two mutations in a row
  (`MaxMutations = 2`): the second meets what the first has left, or comes between a
  row and its field. After a merge of two tags of one object into a third come bulk edits
  of that tag in every mode, with the id once and twice; the number of an object's tags is
  asked for while the same requests are made. Ids end with `MaxTag`; scenes are asked to look alike up to a
  distance of 2 (`FarthestLikeness`).

Deadlock is not checked where the system may stop: all jobs over and clients
silent, no time left, the transfer ended, the query answered, the server down or
serving with nothing left to ask. A scan may stop too
soon: a claim that a cancelled scan never gives back leaves the tasks that wait for it
where they are (`ScanJobClaims`). `ScanEnds` says that nothing of the kind happens to a
scan that is not cancelled; with two claims a scene, it is also what excludes a circle
of tasks that wait for each other. `RequestsEnd`, `JobEnds`, `TransferEnds` and
`ServicesSettle` do the same for their runs.

## Fairness

- *Job manager*: weak fairness of the dispatcher, of each job's goroutine, of
  each timer's callback and of unsubscribing. A Go goroutine that can run
  does, and `sync.Mutex` hands itself to a waiter after a millisecond. Each
  `Execute` is assumed to return. Clients, subscribers and progress reports
  owe nothing. `EveryJobLeaves` and the liveness of `JobQueue` rest on it; the
  assumption about `Execute` is a real one: `ScanJobClaims` shows a case in which
  a scan does not return, and the queue behind it then waits.
- *Scan*: weak fairness of the loop and of each task; the user need not cancel.
  `ScanEnds` is stated for scans that are not cancelled for that reason.
- *Deletion*: weak fairness of each request and of the clean job; a request that
  waits for the write lock gets it when all others have given it back, and there are
  finitely many. Crashes and clients owe nothing.
- *Library, transfer*: the job's goroutine runs, and with it the goroutines of an
  export; nothing is assumed of users.
- *Services*: time passes, a timer that is due fires, a callback gets the mutex; the
  goroutines of a download and of its removal run; a subscriber's side receives until
  the channel is closed, as gqlgen's does. Nothing is assumed of `Serve`, which may stay
  where it is for ever.
- *Clients, configuration and start*: none; there is no liveness to state of a sequence
  of statements, and a server that goes down may stay down.

## What TLC found

Four runs end in a violation of something that a comment or a document says;
`PROJECT.json` quotes it.

1. `CancelAll` passes over waiting jobs, since `removeJob` shifts the array under
   the loop (`manager.go:275`).
2. The error of a failed commit is lost (`transaction.go:50`), so that a client
   who leaves in time has the scene stay and its video removed.
3. A scan that is cancelled before a transaction begins keeps the claim on a hash; other
   tasks with that hash, the scan and the job queue wait for ever
   (`image/scan.go:76`).
4. An identify job that marks scenes as organized asks for pages of scenes that are not,
   by offset, and so passes over as many as it has marked (`task_identify.go:95`).

Other behaviour shaped how properties are stated, or was met while modelling.

*Jobs.*
- `Stop` cancels the jobs and closes its channel later, without the mutex (`CloseStop`), so that
  a job added in between may run; it does not wake an idle dispatcher, and jobs added later
  still run. `Start`
  leaves its job in the queue, after which the next `Add` wakes nobody. The
  application calls neither; `NoLostWakeup` and its theorem exclude `Start`. The
  goroutine for desktop notifications returns for good at a job that was never started
  (`internal/manager/manager.go:160`).
- When files are moved and replaced in the same scan, which contents are
  recorded depends on the order of the tasks: `ContentsRecorded` excepts old
  contents of files that changed. Files whose names differ in case only pass an item
  from one to the other: `ItemsKeepFiles` excepts such pairs (`SameName`). `NewcomersAgree`
  says that of two files that became items for the same contents the second has found the
  first's item, and not that there are never two items with these contents: the
  first's may have been given other contents in between, and images of old databases
  have no unique index. A claim is given back before the commit (`image/scan.go:76`); a new
  scan of an image overwrites its whole row (`image/scan.go:87`), users' edits
  included.
- `GetJob` searches `append(m.queue, m.graveyard...)` (`manager.go:292`), which may write behind
  the queue's end in the array that both share; with the mutex held that does no harm.
- A rollback restores files before their folders, so that a preview in a
  renamed folder stays `.delete`. A file that `Rollback` cannot rename back or `Commit`
  cannot remove stays `.delete` for good, with a line in the log: no list holds it any
  more (`stranded` counts these with the files that a panic or a crash leaves). A list of scenes with the same id twice, or
  a scene that is gone, panics; in the clean job that ends the server.
- A scene or gallery that is deleted between a page and its turn, or a tag that was asked
  for, ends the server in an auto-tag job. `ignore_auto_tag`
  does not hold for names that begin with a single letter. An object's whole transaction
  fails when the cache names something deleted; an error abandons the rest of a `*` entry.
- Identify overwrites a studio, title or date that a user sets while the source is
  asked, though the strategy is to merge. Tags that it creates are not checked for their names.
- Merging two tags of one object leaves duplicate rows in link tables (see *Mutations* for
  what becomes of them).

*Transfer.*
- Two export goroutines lose each other's ids: `RelatedAreExported` is stated for one.
  With dependencies, parents of studios and tags are left out all the same. A movie
  deleted during an export is nil and ends the server; an id
  that is gone, asked for or stale, leaves out its whole kind, as `FindMany` fails:
  `RelatedAreExported` is about ids that are there.
- `FullTransferRestores` excepts four generations of studios (leftovers are tried in
  the order of a map) and two markers at one second. A tag with two parents, one below the
  other, loses tags in a full import, as `task_import.go:439` appends the wrong file:
  `ForestsAreRestored` is about forests, though
  `internal/manager/jsonschema` files are meant to be imported again
  (`ui/v2.5/src/docs/en/JSONSpec.md:3`).
- Importing with "overwrite" over tags that are linked the other way
  round, or from files that list a cycle, closes a cycle, as imports do not
  validate (`tag/import.go:67`). Files that were changed so that tags wait for each
  other can make `ImportTag` call itself without end: `TransferEnds` is stated
  for files in which parents are listed as the export lists them.
- The performer importer is never given `MissingRefBehaviour`, and ignores missing tags even
  when told to fail. Ignored duplicates still create what they lack when told to create.
  An ignored scene with markers fails on the foreign key. A child studio that fails
  rolls back its new parent.

*Services.*
- Starting the DLNA service for a while, twice, leaves it on for good: the first
  timer is stopped but its field is not reset (`service.go:218`); stopping twice
  announces a start that does not come. Stopping it before its goroutine has set itself
  up panics or waits for ever with the mutex held (`dms.go:682`).
- `Cancel` of read locks passes over contexts in the way `CancelAll` does
  (`lock_manager.go:105`). A download's `WaitGroup` that is used again too early panics;
  `RegisterFile` leaves its mutex locked when no key can be made. That a hundred keys of 32
  bits in a row are taken, and the last one is then used all the same (`downloads.go:44`), is
  left out.

*Configuration and start.*
- Settings are checked and set one after the other, so a refused request leaves those before
  the bad one in memory, and the next request that succeeds writes them. Sending the
  same `scrapers_path` again after such a refusal does not refresh the scrapers; the
  certificate check is read only when the scraper cache's client is made. Two requests can
  lose an update of the user interface's settings (`ConfigureUISetting` reads and writes in
  two steps), and `SetUIConfiguration` writes under a read lock (`config.go:987-994`).
- A password hash sent back after the password was changed is hashed again.
  `calculate_md5 = false` alone is not checked against naming by MD5.
  `HasOverride("metadata")` is asked for whichever directory
  (`resolver_mutation_configure.go:62-65`). An empty list of extensions reads as the
  default after a restart.
- The file is truncated and then written: a server that goes down in between, or in a
  wizard that is not finished, leaves a file with which it does not start
  (`StartsAgain` says that nothing else does); a bad path of the database that the wizard
  was given is written already. The branch for a system that the environment
  has initialised cannot be reached. A write of the initial choice of hashes that fails
  leaves a library with scenes to the default, MD5, at the next start.
- A migration sets the choice of hashes when it ends, as a default (`PostMigrate`). A request
  that was told the hash it asks for is in force already, and so left it alone, is
  answered without an error and has not got it. In `RequestsTakeEffect` the migration
  counts as somebody else who has set it meanwhile.
- A new database whose first migrations are cut short stays marked and cannot be used;
  one whose *last* migration was is opened as if it were whole (`database.go:237`), which
  `ServedIsWhole` excepts; one newer than the program panics at the start
  (`database.go:77`), so that `PlanAssumption` has none. Two `Migrate`s at once: the second
  restores its older backup. The model has one at a time, the wizard only while the
  system is new, requests for settings otherwise, as the pages offer them.

*Mutations.*
- A merge of two tags of one object leaves two links to the third (`tag.go:682-688`, in
  tables without a unique index), and so does a list that names an id twice. A bulk REMOVE
  takes away the first only (`resolver_mutation_scene.go:358-372`), so that the tag stays.
  `MutationsMean` is about how often a link is there (`TimesAsked`) and says just that.
- Each update of a marker writes its whole row, and with it the zero time as the time of its
  creation (`resolver_mutation_scene.go:629-636`, `scene_marker.go:44-46`); `MutationsMean`
  excepts that column where it says that the rest is as it was.
- Names of studios are not compared with other studios' aliases, so `RowsMakeSense` says
  it of tags. Markers that go with a scene, and tags that are merged, have no hooks;
  a bulk update of performers is told as one of images (`HooksTell`). After a merge a marker
  may have its primary tag among its tags (`tag.go:683`).

*Queries.* `Misread`, `Apart`, `Combinable` and `SearchedAlone` name what is
excepted, and each exception is needed:
- Joins are made once for an alias: "tags include 1 AND (tags include 2)" ignores the second
  (`filter.go:73-88`, though `filter.go:128` says that the sub-filter is ANDed), and
  "favorite performer" with "performer's age" must be met by one performer.
- `HAVING` is combined apart from `WHERE`, so `OR` and `NOT` with a count mean something
  else; `NOT` of a criterion on a joined or nullable column is no complement; a
  sub-filter that needs a `WITH` fails; before `OR` a search binds to the first
  filter only (`repository.go:240`); the inner joins of age and duplicates hold for the
  whole query.
- "No performer tags", "no performers" of movies and "no studios" of performers match
  where any one joined row has none; markers' primary tag does not count when asked for
  none; "all of these studios" of a performer is ignored.
- A search looks at each joined alias by itself: an excluded word excludes that alias only
  (`models/search.go:137` says otherwise), and two words must be in the same one.
- A regular expression that does not compile is an error, which scenes and images ignore and
  answer as if there were no filter. A depth of 0 means children alone for the parents of a tag.
- Numbers of tags, performers and images are numbers of link rows (`sql.go:223-226`): a scene
  whose tags 1 and 2 were merged into 3 has one tag and a `tag_count` of 2. `QueriesMean`
  says so (`NumberOf`) of scenes, images, galleries and performers; tags and studios count
  what they link.
- Count, ids and objects are different statements: an object that is deleted in
  between makes the request fail. `AnswersMean` is of one moment as long as one table changes,
  or the requests of `WhileQueried` and `WhileCounted` are made: roots of a hierarchy are read
  before the count, so that a tag that moves and links that change, in two requests between
  those statements, may give an answer that was true at no moment.

## Proofs

All theorems are of the specifications that TLC checks, for every value of
the constants that the modules' named assumptions allow.

| Theorem | Statement |
|---|---|
| `JobManagerProofs!Typing` | `Spec => []TypeOK` |
| `JobManagerProofs!RunsOneAtATime` | at most one job executes, if `"Start" \notin API` |
| `JobManagerProofs!WakeupsAreNotLost` | `NoLostWakeup`, under the same assumption |
| `JobManagerProofs!LastReportIsTold`, `JobsStayFindable`, `DeparturesAreTold` | `LastProgressPending`, `NoJobVanishes`, `DepartureAnnounced` |
| `JobManagerProofs!ImplementsTheQueue` | the safety part of `ImplementsJobQueue`, if `"Start" \notin API` |
| `ScanJobProofs!HoldersAreEntries` | `MutexSpec => []MutexInv` |
| `ScanJobProofs!ClaimsExclude`, `ManagerIsLocks` | claims exclude each other; `MutexSpec` implements `HashLocks` |
| `ScanJobProofs!ScanExcludes`, `ScanImplementsLocks` | the same of every scan |
| `ScanJobProofs!Typing`, `NoContentsTwice`, `ScanIsRecorded`, `FilesKeepItems` | `TypeOK`, `NewcomersAgree`, `ScanRecords`, `ItemsKeepFiles` |
| `FileDeletionProofs!Typing`, `OneTransaction` | types; the write lock admits one transaction |
| `FileDeletionProofs!OnlyFailuresStayMarked`, `MediaStays`, `SharedImagesSurvive` | `MarkedOnlyInFlight`, `MediaKept`, `SharedImagesStay` |
| `LibraryJobsProofs!JobsTakeNothingAway`, `EverythingIsReached` | `JobsOnlyAdd`, `AllReached` |
| `TransferProofs!EditsMakeNoCycle` | users' edits keep `Acyclic` |
| `TransferProofs!HierarchyHasNoCycle` | `Acyclic` with imports that overwrite nothing (`PlainPlans`) |
| `TransferProofs!TransfersMakeNoCycle` | `Acyclic` of whole transfers, if neither library has a cycle and the files do no harm (`TransfersFit`) |
| `TransferProofs!MergesKeepAncestry`, `TransfersKeepAncestry` | `MergeKeepsAncestry`, whatever is imported or transferred |
| `TransferProofs!NothingIsOverwrittenUnasked`, `WhatIsNamedComesAlong` | `ImportsOnlyAdd`, `RelatedAreExported` |
| `ServicesProofs!TimersFollowService`, `AnnouncedEndIsComing`, `ClientsAreLetInAsGranted` | `TimersMatch`, `EndIsComing`, `GrantsHold` |
| `ServicesProofs!WhatIsHandedOutIsKept` | `FilesInHand` |
| `ServicesProofs!UsersDataIsKept` | `DataKept` |
| `ConfigurationProofs!SettingsAreKept`, `ServersStartAgain` | `SettingsKept`, `StartsAgain` |
| `ConfigurationProofs!RequestsAreTaken` | `RequestsTakeEffect`, if plans are read as they are given (`ReadPlans`) |

**Job manager.** `NoLostWakeup` is not inductive: `Add` broadcasts only when the
queue was empty, so that one needs to know that a dispatcher that waits waits
on an *empty* queue, hence that a queued job that is not ready is the one the
dispatcher is running, hence that whoever cancels a ready job also takes it off
the queue. `QueueInv` says this (`ReadyAreQueued`, `WaitsOnEmptyQueue`), together
with the order of IDs (`IDsInOrder`: a new job's ID is fresh and goes behind
all others) and the agreement of goroutines with statuses (`ExecMatchesStatus`).
`"Start" \notin API` is necessary: `Start` runs a job beside the dispatcher's and
leaves it in the queue. `CancelAll` is proved for *any* set of visited positions, so
the proof does not depend on what the loop reaches: passing over a job cannot
lose a wake-up. `ProgressInv` adds to `LastProgressPending` that a timer that has fired
has its callback (`TimersHaveCallbacks`). `JobsInv` gets `NoJobVanishes` from where jobs
are: the submitted ones, each once (`KnownJobs`), and from goroutines whose job has ended
having left it in a final status (`EndedJobs`), so that the removal that comes twice, by the
job's goroutine and by `CancelJob`, finds it once. `ImplementsTheQueue` maps `Add`, the
beginning and the end of a job, and cancellation to the steps of `JobQueue` under `QueueInv`:
the job that begins is the first one waiting.

**Claims.** `Exclusive` needs to know why a claim may be granted although the map
has an entry: the claimer has waited for that channel, and it is closed
(`SeenIsClosed`); and that a cleanup removes only its own entry, so a holder's
channel stays the entry of its key (`HolderIsEntry`). The lemmas go
action by action; `ManagerIsLocks` maps the attempt that is granted to
`Acquire`, `Close` to `Release`, and everything else to a stutter. `ScanUsesClaims`
shows that every step of a scan is a step of `MutexManager` or a stutter, from
which the scan inherits both.

**Scan.** That no contents are recorded twice needs, at each step of a task, what it has
found and what it holds: a task that has looked an item up and found none (`HasNoItem`)
holds the claim on its hash, so that no other task has made one since, and an item it has
found (`KnowsFound`) is still there, though others may have moved it or given it other
contents (`Knows`). `ItemsInv` is the conjunction of these, `DiligentInv` (with `LoopInv`)
says how far an uncancelled scan must be: each task's result is recorded, and the loop passes
no file over. `Effect` states what any step may do to the table: add an item for a file
that has none, move one whose file is gone, or update one's contents; `FilesKeepItems`
follows from it.

**Deletion.** `Typed` says what a request's lists are; `TxnInv` that a request in its
transaction holds the write lock and that nothing is pending without it. `MarkedOnlyInFlight` is
inductive on top of these: a file leaves a list when it is renamed back or removed, and
otherwise becomes `stranded`. `MediaKept` is not: the file of a row must be on the disk while
its deletion may still be rolled back, so `FilesInv` says of each request that a media file
is removed only after its row's deletion was committed, that its row follows in the steps still
to come (`RowFollows`), or that it was marked by this very request (`WorkedOn`,
`RemovedBy`). `PendingInv` says the same of shared images: what a request has deleted or
is to delete is in a zip that goes or in no gallery that stays.

**Library.** `AddInv` has what `JobsOnlyAdd` needs of the cache and of the entries of a
job. `AllReached` is about a job that goes through pages by offset while rows go: `ReachInv`
adds that in a job that is neither cancelled nor changes what its own query asks for no row
leaves the query before the page that has it (`LibraryStays`), that every row is either in
a page that was read or behind the offset (`NoGap`, in `PageInv`), and that each row read
has its links or is still on the page (`FilesInv`, `SpecificInv`).

**Services.** `Stop` clears the announced end only where it finds a timer, so
`TimersMatch` and `EndIsComing` need each other and `TimesHaveTimers` (no timer,
no announced time); `ServiceInv` is their conjunction with the types. `GrantsHold`
follows from `EntriesAreGrants`: an entry of the list is the grant, or it
has run out and both are as good as absent, so when the list is cleared up
does not matter. `DownloadsInv` counts: a file's `WaitGroup` is the number of requests that
have it (`Counted`), so that its remover waits for them. `LockInv` is about the arrays:
what a slice shows is what readers have put there, whoever else has appended to the same
array. For `DataKept`, `FileInv` says that a path's changes are in its file or in a
backup of it that can be served or migrated, `ServerInv` which steps may be
next, and with which connection, and `MigrationInv` what each step of a migration may rely on: there is a
backup before the first mark (`BackupIsThere`), it has what users wrote
(`BackupKeeps`), and a database that is migrated without a backup is new (`NewIsEmpty`).

**Configuration.** `ConfigInv` says of each request under way that for what it has not yet set,
what that needs is still to come, too: the file, the paths, the scrapers (`CallFits`, from
`OrdersFit`, a fact about the orders of the eight requests: nothing is set once the file is written).
So a setting that is in force and not in the file is one of a request that has yet to write
it, or was left. `AgreeInv` adds from where on this holds in a start and in the wizard, and that
a request which has set the scrapers' path knows that it must read them again
(`ScrapersAwaited`): the flag is the request's own, and another's does not count. For
`StartsAgain`, `StartInv` follows the two mandatory settings through a start: the file has them or
what they are made from (`CanStart`: an older file has `metadata` instead of `generated`);
after `Validate` or after the initial settings they are in memory, where no request can
take them away, as each checks that a path is given; and so every write that is whole
puts them in the file again. `RequestsTakeEffect` is about the answer, and so about every step
before it: `TakeInv` says of each setting that a request has come to (`KeyTakes`) that it is what was given, or
its hash (`Effective`), and is in the file or about to be written (`Filed`), unless it has been noted
as set by others. A setting that was *skipped*, as it did not differ, needs more than one that was set:
what is compared is what is *read*, with its fallbacks, so that what is in memory must be read as it is
(`LayersFit`), and a hash that is sent back must be the one in force until the request comes to it
(`HashTakes`). That nothing is in the file which is not in memory (`FileKnown`) is needed
for a setting that nobody has ever set and that is asked to be what it is by default. `SettingStays` and `FileStays`
are what every other step keeps of a setting, or has noted.

**Tags.** The code validates *after* writing, by searches that see what was
written. That no tag is its own ancestor is stated without recursion:
every nonempty set of tags has a member with no parent in the set. The key lemma
`SavedHasNoCycle` shows that if the ancestors found for a tag and the
descendants found do not meet as `ValidateHierarchy` requires, then a
hierarchy without cycle stays so; the properties of `Reached` it needs are that it is
closed and least (`ReachedClosed`, `ReachedLeast`). `IInv(H)` adds
that the same holds of a transaction's saved tables (a rollback brings them back), and that
what waits in `pending` and in the calls are tags, each of which may be stored next. `H` are
the links there were when the import began. An import links without validation, and makes
no cycle (`Harmless`) in one of three cases: it overwrites nothing and no tag lists itself, since a
tag that is *created* has no children yet (`NewTagMakesNoCycle`); its files give no parents;
or nobody edits meanwhile and the files agree with `H` on one hierarchy, of which the tables
then have a part at every moment (`Tidy`). Otherwise it can: overwriting 2 with the
parent 1 where 1 has the parent 2 makes a cycle, without an error. `MergesKeepAncestry` needs the types only.

A whole transfer is two lives of the same tables. `TagsInv` says that before the
import they are the library's, which an export only reads (`BeforeImport`), and from then on that
`IInv` holds of them with the links of the target (`SinceImport`); between, `ExportedPlan` has the files
that are written link no more than the library does. What is imported after the tags
only adds tags (`RestKeepsTags`): those that a row or a marker lacks, of which one has
to know that they are tags, from the database through the goroutines and the files
(`MarksFit`). `TransfersFit`, the hypothesis of `TransfersMakeNoCycle`, is `Harmless` of
the files to come; TLC finds it true of all 1468 transfers of the run, and `TagsInv` (but for its
types) of all their states.

**Transfer.** `Underway` says that the files of tags stay well formed when an export
writes them. `ImportsOnlyAdd` then follows step by step: what an importer returns, alone,
with markers, or with the studios that waited for it, `Keeps` every row that was there with what
it refers to, since a row that is there is either refused or skipped.
`RelatedAreExported` needs `ExportInv`. One goroutine exports a library that stays
(`Alone`); then at every moment all that is asked for is there and so is found
(`AskedFit`); what a busy goroutine has seen of its row is on a list or among what it is about to
append, to lists of kinds whose turn is still to come (`Busy`); the rows of the kinds so far have
their files, but for those in the queue or in work (`KindsAreDone`); and what files refer to is
on a list (`FilesAreCovered`). That the kinds named come later is `NamedComeLater`, a
fact about `ExportOrder` and the tables of what files name; when the last kind is done,
every list has been served. The parents of studios are excepted because their kind's turn
has come already, and those of tags are not files' references here.

**Assumptions.** Besides types of the constants: kinds of objects are disjoint
(`DeletionAssumption`, `LibraryAssumption`, `TransferAssumption`), as their tables are; the
sets over which the code counts are finite (`DownloadAssumption`, `TransferAssumption`:
`Tags`, `Workers`); what is there at first keeps the foreign keys (`KeysHold`) and unique indexes
(`ScanAssumption`), as the database does; the ids of a table are in some order (`BatchAssumption`);
the sequence of studios that match a path are those that match (`AutoTagAssumption`);
strategies are those of the enumeration (`IdentifyAssumption`); whoever is new is not
there yet (`NewcomersAssumption`); an empty name is a bad one for a database
(`FileNamesAssumption`), what is unset is none of the values that settings have by themselves
(`UnsetAssumption`), and a file that is there at first has what
a start needs (`FileAssumption`); a database that is there at first was served by no newer
program (`PlanAssumption`). `ReadPlans` is a hypothesis of `RequestsAreTaken` only: what is asked for is not
a blank where a blank is read as the default, a log level is one of the five, the file has passwords
hashed (`ReadAsGiven`, which TLC finds true of the plans of the run), and "unset" is not a password.
`PlainPlans` and `TransfersFit` are hypotheses of `HierarchyHasNoCycle` and
`TransfersMakeNoCycle` only.

## What is only model-checked

- Everything under fairness: `EveryJobLeaves`, the liveness of `JobQueue`,
  `ScanEnds`, `RequestsEnd`, `JobEnds`, `TransferEnds`, `ServicesSettle`. The provers at
  hand do neither fairness nor `ENABLED`.
- `TransfersRestore`: that pending tags and studios all come back is an induction over the files.
- All properties of `Clients`: the modules reach recursive operators (`Lookups`) or folds
  over criteria and statements, and what those compute for every input needs
  induction over data.
- The counterexamples above.

## What is not modelled

Walking the file system and the contents of files beyond what hashes tell
apart; the content of objects besides what they refer to and what a filter
asks of it; captions and images inside zips in the scan; formats of files;
sorting, paging and aggregates of queries; names in jobs and times. Errors of the
database are modelled where they change control: a begin or a commit that fails because of
cancellation, a transaction's function that returns an error, an index or a
foreign key that is violated.

Without a module, with the reason:

- *Job progress*: arithmetic under one mutex. `AddProcessed` (`progress.go:110-121`) sets the
  count instead of adding to it.
- *Sessions*: cookies and checks per request.
- *Generate and migrate-hash jobs*: queues of independent tasks in the pattern of the
  scan's loop, over external encoders.
- *Plugins, scrapers, media processing, desktop, user interface, DLNA's
  protocols*: external processes, parsing and I/O. Which hooks run is in `Mutations`; they run
  after the commit.
- *Logger*: the throttle of the job manager, with less at stake.
- *GraphQL resolvers* that only translate a request into a call of a modelled
  component: the calls are that component's actions.

## Plan

Done, in this order: `JobManager` with `JobQueue`; `MutexManager` with
`HashLocks`; `ScanJob`; `DlnaService`; `TagHierarchy` and `TagImport`;
`FileDeletion`; `Library` with `AutoTag` and `Identify`; `Downloads`, `ReadLocks`,
`ScanSubscriptions`; `ExportTask` and `ImportTask`; `Filters`, `ObjectFilters` and
`Queries`; `Catalog` and `Mutations`; `Lookups`, `Resolvers` and `Clients`; `Settings`,
`Configure`, `SchemaDatabase` and `Startup`; and the proofs of every safety property that is
not named under [only model-checked](#what-is-only-model-checked).

To come: a proof of `RowsMakeSense`, statement by statement. Models to come: the generate job with
its files; sorting and paging in `Queries`; the content directory of the DLNA server over
`Queries`.
