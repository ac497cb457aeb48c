# A TLA+ model of the LEDGEX parcel ledger

This directory holds the formal model of the parcel ledger in this repository:
TLA+ modules, the TLC configurations that model-check them on small instances
and theorems about them that the TLA+ proof system (TLAPS) checks for every
instance. The reference for every definition is the code; `PROJECT.json` names,
for each definition, the lines it stands for.

## 1. The system

The repository ingests public data of one jurisdiction into a PostgreSQL
*temporal ledger*, composes *property files* from it and shows it in a viewer.
Each writer is a script, run by hand, by a scheduler or in CI, one process per
run, and no lock keeps two of them apart. All processes meet in the database; the
raw bytes they read are kept in an object store.

| Component | Code | State | Operations | Hard behaviour |
|---|---|---|---|---|
| Snapshot fetch | `ingest_parcels.py` phase_b, its copy in `ingest_zoning_permits.py`; `check_liveness.py` | `snapshot`, objects, `job_run`, two local files | fetch and hash, upload and verify, insert, finish; probe | the insert race (#10), shared scratch files, crashes between object, row and status, non-2xx answers stored as well |
| Parcel reconciliation | `ingest_parcels.py` phase_e | `fact`, `source_feature_identity`, `parcel`, `parcel_exception`, `job_run` | classify into new, changed, disappeared, reappeared; one ledger transaction; refresh | long read-then-write run, reruns, old snapshots loaded late, flaps, concurrent runs, refresh failing after the commit |
| Zoning load | `ingest_zoning_permits.py` load_zoning | `fact`, `parcel.centroid`, `parcel_exception` | derive points, join, classify, diff, close by exclusion, relink | centroids forgotten by phase_e between two queries, scope of the diff |
| Permits load | `ingest_zoning_permits.py` load_permits | `fact`, `parcel_exception` | parse, attribute by APN, diff | absence is not falsity (C2), ambiguous and moving APNs |
| Invalid geometry detectors | `flag_invalid_geometry.py` | `parcel_exception` | flag, close | duplicate keys in one batch, a failure outside the try block, two passes at once |
| Exception lifecycle | `core/exceptions.py` | `parcel_exception` | insert, close for parcels, close by exclusion, relink, retire a version | one open row per condition, reopening linked to the right closed row |
| Composer, rights, viewer | `compose_property_file.py`, `core/rights.py`, `core/rules.py`, `core/calc.py`, `api/main.py` | `property_file`, `property_file_fact` | replay at an `as_of`, ordered refusals, licence gate, one commit | default deny, facts read while a loader commits |
| Migration ledger | `migrate.py`, `migrate_baseline.py`, `migrate_verify.py`, `make schema`, `GET /v1/schema` | `schema_migrations`, reference databases | apply one file and its row in one commit; adopt; compare | kill and resume, competing commands, a file edited after it was applied |
| Connection guard | `infra/env.py` | | refuse a database that is not local | the guard and libpq reading one URL differently (#44) |
| Schema | `db/schema.sql` | | unique indexes, CHECKs, immutability triggers | the last line of defence when two runs overlap |
| The rest | `local_up.py`, `smoke_real.py`, the `check_*` scripts, `build/` | none that persists a protocol | | see section 6 |

They interact through tables. phase_b leaves the snapshots that all loads read;
phase_e writes `parcel.geom` and `parcel.apn` and forgets `parcel.centroid`; the
zoning load fills the centroid again, which the zoning detector and the join read;
the permits load reads the APN. The composer and the viewer read the facts of all
of them; `core/exceptions.py` is shared by every writer of exceptions. The
migrations create the tables, behind a guard that every program shares.

What makes it correct: the ledger shows exactly what the last snapshot merged
says; every row can be traced to a run that succeeded; history only grows and each
field's versions form one line; every condition has one open exception while it
lasts; a run that fails leaves nothing and a run that is repeated does nothing;
what cannot be known is reported and never invented; nothing is shown without a
licence; the schema's own ledger is true.

## 2. Modules

| Module | What it is |
|---|---|
| `FieldTimeline` | abstract specification of a temporal ledger: per key at most one live version, a growing set of dead ones, the links between them |
| `ParcelReconcile` | phase_e; implements `FieldTimeline` (`TimelineSpec`) |
| `SnapshotLog` | abstract specification of the snapshot table: a content is recorded once and credited to at most one run |
| `SnapshotFetch` | phase_b and `check_liveness.py`; implements `SnapshotLog` (`IsSnapshotLog`) |
| `ZoningLoad` | load_zoning; implements `FieldTimeline` (`IsTimeline`) |
| `PermitsLoad` | load_permits |
| `GeometryFlags` | `flag_invalid_geometry.py` |
| `ComposeFile` | the composer and the viewer's fact and exception queries, with the loads whose facts they read |
| `DatabaseUrl` | the guard of `infra/env.py` against what libpq does with the same URL; extended by `MigrationLedger` |
| `MigrationLedger` | the migration commands, `make schema`, `GET /v1/schema` |
| `ParcelReconcile_proofs` | theorems of `ParcelReconcile` for any number of loaders |
| `ParcelSerial_proofs` | theorems of `ParcelReconcile` for one loader at a time; extends the former |
| `SnapshotFetch_proofs`, `ZoningLoad_proofs`, `PermitsLoad_proofs`, `GeometryFlags_proofs`, `ComposeFile_proofs`, `MigrationLedger_proofs` | theorems of the module they name |
| `MCReconcile`, `MCFetch`, `MCZoning`, `MCPermits`, `MCFlags`, `MCMigrations`, `MCCompose` | the instances TLC checks |

Components that interact are composed by putting the other party's committed
effect into the module as an action: `MoveParcel` in `ZoningLoad` and
`GeometryFlags` and `Renumber` in `PermitsLoad` are commits of phase_e,
`PointParcel` is a commit of the zoning load, the loads of `ComposeFile` are those
of any loader, the fetches of `ParcelReconcile` are whole runs of phase_b. Every
connection runs at READ COMMITTED, so throughout a SELECT is a step of its own that
sees what is committed when it runs; writes of one transaction become visible in
one step.

### 2.1 ParcelReconcile

| Variable | Code |
|---|---|
| `jobs` | the `job_run` rows of the parcels source in start order; `at` is the rank of `finished_at`, which the code takes from `clock_timestamp()` |
| `fetchedAt` | the `snapshot` rows, as the number of the job that fetched them (`fetched_at`) |
| `facts` | `fact` rows of the fields `parcel.apn`, `parcel.geometry`, `parcel.source_parcel_id`; a row's id is its run, parcel and field, `until` is `superseded_at`, `sup` is `supersedes_fact_id` |
| `identity` | `source_feature_identity`; `first` and `last` are the seen times, `retired` is `retired_at` |
| `parcel` | the caches `parcel.apn` and `parcel.geom` |
| `exceptions` | `parcel_exception` rows of the three detectors of phase_e |
| `fresh` | `current_fact` shows exactly the live facts |
| `loader` | the Python locals of each running phase_e |
| `faults`, `reconciled` | a bound on failures; a history variable, the last snapshot merged |

An APN is one of a few resolvable values or an unresolvable one, which stands for
its reason (blank or placeholder) since no fact ever holds it; a geometry is
polygonal or not; `canonicalize_identifier` has been applied to every APN of
`Content`. A feature and its parcel are one value, because the identity row is
never rebound. All times are job numbers.

A run of phase_e is `ReadAnchor` (the previous successful snapshot and the
verified download), `StartRun` (the `job_run` row, committed), then either
`VerifyIdentities` or `RefuseIdentities` on the same_as_previous path, or one
action for each SELECT of the other: `ClassifyNew`, `ClassifyGone` (DISAPPEARED),
`CaptureChanges` (CHANGED) and `CaptureOpen` (the open exceptions); then `Commit` or
`Abort`, then `RefreshView` or `RefreshFails`.
`Fail` is any other exception of the try block, `Crash` the death of the process.
The writes are one step: two runs that write the same row meet at that row's lock,
so the second finds exactly what the first one left, and rows they do not share
commute. `Commit` performs every write of lines 1743-1949 with the effect their
order gives; `Writable` is the conjunction of the constraints those writes meet,
in `CommitError` in the order they meet them. A deadlock that the database breaks
is a `Fail`.

### 2.2 SnapshotFetch

`row` is the `snapshot` table, with who inserted a row and whether the answer was
2xx; `object` the object store by key; `scratch` the local files, whose fixed names
`Path` gives; `job` the `job_run` rows; `fetcher` the locals of each process. A
content is its own hash. One fetch is `Start`, `Open` and `Receive`
(`fetch_and_hash` truncates the file, streams into it and hashes what it
*received*), `Look` (`snapshot_exists`), `Upload` (by file *name*), `Verify`,
`Insert` (ON CONFLICT DO NOTHING), `Settle` (`finish_job_run`); `Raise` and `Fail`
are an exception and `fail_job_run`, `Crash` the death of the process (or a database
error while `check_liveness.py` settles a probe, which it does not catch). phase_b runs
two of them and its exit status is part of the state. `StartProbes`, `Unchecked`,
`Probe`, `Answered` and `EndProbes` are `check_liveness.py`, whose runs are rows of
the same table.

### 2.3 ZoningLoad

`geom` and `centroid` are the columns of `parcel`; `facts` the district and
verbatim facts; `exceptions` the rows of the two detectors of the load; `loader`
what the load holds. Geometry is data: `Usable` are the geometries that are valid or
can be repaired, `PointOf` the point derived from one, `Interior` the points inside
it, `Candidates` the polygons of a snapshot that contain a point. A load is `Begin`,
`Populate` (the UPDATE of the centroids), `Residual` (the SELECT of what is still not
interior, and of the open exceptions, which only this load writes), `Join`, `Scope`
(`all_parcel_ids`), `ReadLive`, `Commit`. Updated rows stay locked,
so `MoveParcel` cannot change a parcel the load has given a point, and can change
any other between any two queries. `Classify` is `classify_zoning_candidates`.

### 2.4 PermitsLoad

`Export` gives the rows of a snapshot with the APN as written; `Canon` is
`canonicalize_identifier`. `Attribute` parses, refuses a row that is not Active, a
date that does not parse, or an export without rows (whose share of unmatched rows is
a division by zero), groups by APN and joins with `parcel.apn`, skipping an
APN that two parcels bear; `ReadLive` reads the live facts; `Commit` writes the
diff, raises `permit_attribution_lost`, relinks and closes what is confirmed.

### 2.5 GeometryFlags

A process runs `flag_parcel_geometry` (`StartParcels`, `ReadInvalid`,
`ReadOpenParcels`, `CommitParcels`) and then, or not, `flag_zoning_source_geometry`
(`StartZoning`, `Verify`, `ReadAffected`, `ReadOpenZoning`, `CommitZoning`).
`Clash` is the unique index on open exceptions; a clash fails the whole run.
`Verify` comes after `start_job_run` and before the try block, as in the code;
`Unread` is any other exception there.

### 2.6 ComposeFile

`load` is a transaction of a loader: its facts carry `recorded_at = now()`, the
time it began (`at`), what it retires carries the time of its UPDATE (`cut`), and
neither is visible before it commits. `Superseded`, `Visible` and `CurrentFactAt`
are the view function `current_fact_at`. A reader is `compose()` or a request to the
viewer: `Ask`, `Resolve` (the clock, the parcel), `SelectRule`, `ReadFacts`, `Gate`
(`evaluate_rights_gate`), then `Write` (all refusals, one commit) or `Show`.
`core/calc.py` is arithmetic on values the model does not hold; the geometry
conclusion either refuses or, where the tier is enabled, raises. An `as_of` may lie in
the past or in the future; a rule version is in force from `RuleFrom` to `RuleTo`.

### 2.7 MigrationLedger

`disk` is the directory, `live` the database, `recorded` the rows of
`schema_migrations` with the digest, `baselined` those a baseline wrote, `hand` what
was applied before there was a ledger, `refdb` the reference databases of baseline and
verify, `job` what each terminal is running. A content is 1 as merged, 2 once edited.

A database is the content of each file that ran in it last (`ran`) and the files whose
definition is in force (`top`). A file defines one object, `Object[f]`, which it creates
or defines anew (0059 replaces the function of 0058), or it is one of `DataOnly`, which
write rows (0016, 0023, 0026, 0035). A file of `Again` also runs where its object exists;
any other fails there. `Dump` is `pg_dump --schema-only`: the definitions in force, and
of files that write rows nothing.

`Hash` reads the next file for its digest; the file is read again when it runs, and may
be edited in between. `LookMigrate`, `Bootstrap`, `Read`, `Apply` are `migrate.py` (and,
from `Bootstrap`, `make schema`); `Create`, `LookBaseline`, `Build`, `DumpTarget`,
`Compare`, `Adopt`, `AdoptRow` are the baseline and, from `LookVerify`, the verification;
`List` and `Report` are `/v1/schema`. `Start` goes through the guard of `DatabaseUrl`;
`away` is a command at work on another host. In `DatabaseUrl` a URL has a netloc and the
first and the last `host=` of its query: `resolved_host` reads the first, libpq the last.

## 3. Checks

| Run | Instance | Properties |
|---|---|---|
| `reconcile_serial` | 1 loader, 2 features, 4 snapshots, 4 runs | `TypeOK`, `Provenance`, `MirrorsReconciled`, `OpenExceptionsMatch`, `NoUniqueClash`, `LinearHistory`, `ReopenedOnce`, `RerunWritesNothing`, `TimelineSpec` |
| `reconcile_concurrent` | 2 loaders, 1 feature, 3 snapshots, 4 runs | `Provenance`, `HistoryKept`, `TerminalJobsStay` |
| `reconcile_anchor` | as serial | finding 1 |
| `reconcile_rerun` | as serial | finding 2 |
| `fetch_race` | 2 processes on 2 machines, 2 contents, 3 runs, 1 fault | `TypeOK`, `CreditEarned`, `ExitIsHonest`, `RowsHaveBytes`, `EveryRunEnds`, `IsSnapshotLog` |
| `fetch_disk` | 2 processes on 1 machine | finding 3 |
| `zoning_load` | 2 parcels, 4 geometries, 3 snapshots, 5 loads, 1 move | `TypeOK`, `LedgerExact`, `ExceptionsExact`, `ReopenedFromLast`, `RetirementExplained`, `IsTimeline` |
| `zoning_badpoint` | 1 parcel, 2 loads, 1 move | finding 4 |
| `permits_load` | 2 parcels, 2 APNs, 4 exports (one without rows), 4 loads, 2 renumberings | `FactsMatchExport`, `LostIsOpen`, `NeverRetired`, `RerunIsQuiet` |
| `flags_passes` | 2 processes, 1 parcel, 2 overlapping invalid polygons, 4 job_runs, 2 moves, 1 fault | `OneZoningFlag`, `ParcelFlagsExact`, `ZoningFlagsComplete`, `RepeatIsQuiet`, `EveryRunEnds` |
| `migrations` | 2 terminals, 4 files (the ledger's among them, one merged later), 1 kill or 1 edit | `LedgerTrue`, `GuardHolds`, `VerifyDetects`, `CatchesUp` |
| `compose` | 1 reader, 2 sources of the gated field, 2 loads, 2 licences | `GateHolds`, `ReplaysExactly`, `DeniedByDefault` |

Every property has a mutant: a variant of one definition, like a bug the code
could have or once had (several of them it did have), under which the run's
instance breaks the property.

**The parcels ledger.** `Provenance`: whatever is in the ledger was written by a
run whose `job_run` says 'succeeded'. `MirrorsReconciled`: after any sequence of
runs the ledger shows the last merged snapshot; a parcel without a geometry fact is
excepted, the code loses it (finding 2). `OpenExceptionsMatch`: the open exceptions
are exactly the current conditions. `NoUniqueClash`: no sequence of runs makes a
later one collide with an index (the flap of C5). `LinearHistory`, `TimelineSpec`:
versions form one line per field. `ReopenedOnce`: reopened exceptions point at the
row they reopen. `RerunWritesNothing`: a run on the content already merged changes
nothing. `HistoryKept`: a fact is superseded once and never otherwise changed.
`TerminalJobsStay`: a job that has ended keeps its status.

**Fetches.** `CreditEarned`: of two fetches of the same new bytes only the one whose
INSERT won says 'succeeded'. `ExitIsHonest`: exit 0 of phase_b means two 2xx
answers settled on recorded snapshots, exit 0 of the probes means that every owed
source was probed and answered well. `RowsHaveBytes`: a row's bytes are in the
store. `EveryRunEnds`: a run whose process is not killed ends.

**Zoning.** `LedgerExact`, `ExceptionsExact`: after a load that no geometry change
disturbed, facts and open exceptions are exactly what the polygons around interior
points say. `ReopenedFromLast`: the join detector's reopened rows name the row
closed last. `RetirementExplained`: a district never dies without a successor or
an open exception, whatever is committed *during* the load. It is stated for the
district only: polygons that agree on ZONING and carry a NULL ZONINGABBREV retire
the verbatim text with no exception.

**Permits.** `NeverRetired`: only a successor retires a permits fact (C2).
`LostIsOpen`: an unconfirmed live fact has one open exception, and nothing else
does. `FactsMatchExport`, `RerunIsQuiet`.

**Detectors.** `OneZoningFlag`: no parcel has two open zoning flags, however many
invalid polygons contain it and whoever runs. `ParcelFlagsExact`,
`ZoningFlagsComplete`: what an undisturbed pass that succeeds leaves; of the zoning
detector, which never closes a row, only that no flag is missing. `RepeatIsQuiet`: a
pass repeated with nothing changed since, by either process, writes nothing and
succeeds. A pass that fails, on every retry, because one batch holds two rows of one
key is in the model and is not forbidden. A parcel may have two open
rows of the *parcel* detector when two passes see two reasons: the index has the
reason in its key.

**Composition.** `GateHolds`: nothing is shown without an allowing licence row,
and a file that links something unlicensed refuses. `DeniedByDefault`: a file that
does not refuse LICENCE_UNKNOWN links one fact, 'yes', known at its `as_of`.
`ReplaysExactly`: the facts of a file are the facts at its `as_of` for ever, except
for loads in flight at that time. The exception is real: `recorded_at` is the start
of the loader's transaction, so a load that began before `as_of` and commits after
the read appears in the past. docs/LEDGEX_SPEC.md:842 promises the replay without it.

**Migrations.** `LedgerTrue`: after every commit of every command a row names a file
that ran here, or one that a baseline adopted although no dump can show whether it ran
(a file of rows, or one whose object a later file defines anew); its digest is that of
what ran, or one that its file no longer has, so that `migrate` refuses from then on;
and what ran without a row was run by hand. `VerifyDetects`: `migrate-verify` never
passes a database whose schema shows a definition of a file without a row, and a file
that `/v1/schema` does not report missing has run or was adopted without a trace.
`GuardHolds`: with a URL that names one host no command works on a remote database
without the override. `CatchesUp`: a database not built by hand, whose files are not
edited, is in the end complete and recorded.

### Bounds

Bounds are guards on counters (`MaxLoads`, `MaxMoves`, `MaxFetches`, `MaxRuns`,
`MaxFaults`, `MaxClock`). Four parcels runs let a feature
appear, change, disappear and come back, the longest history phase_e treats
specially; four snapshots cover good, changed, degraded (both reasons), absent and
non-polygonal features, and the two features differ so that every combination
occurs in one transaction. The concurrent instance has one feature because runs
interact through the rows of one feature only. Three fetch runs are a full phase_b
and a competitor; one fault puts one crash or exception anywhere. Five zoning loads
are raise, close, reopen, close, reopen, the shortest in which the last closed row
and the first differ; the snapshots put a point in one district, several polygons
of one district, two districts, none and a blank one. Four permits loads let a fact
be lost, confirmed, lost and reopened. Two detector processes and overlapping
polygons meet every clash of the index. Four migration files put the ledger's own
between others, one that defines anew what the first creates and one of rows that is
merged later; one fault is a kill or an edit, since the one concerns commits and the
other digests. Two loads and two licences give the composer
a best-ranked and a second source, of which one is blocked, and a clock of two ticks
a load on each side of `as_of`, which may also lie ahead of it; two rule versions leave
a time at which neither is in force. A zoning behaviour starts with
the facts of an older load for one of its parcels, so that the load meets a parcel it
knows and one it does not. Deadlock checking is off everywhere: scripts end.

### Fairness

`SnapshotFetch`, `GeometryFlags`: weak fairness of the next step of a process that
has begun a run (`Proceed`). A live process is scheduled; an HTTP request has a
timeout (300 s for a fetch, 15 s for a probe), so an answer or an exception comes;
a statement waits only for locks of transactions that end. Killed processes are
exempt by name (`lost`), and so is the run of a zoning snapshot that cannot be read or
does not verify (`refused`), because the code verifies it outside the try block
(`flag_invalid_geometry.py:394`). Nobody owes a new fetch or pass. `MigrationLedger`:
the same for `Step`, and strong fairness of starting `make migrate` here, since the
operator and CI run it again until it has nothing to do; `CatchesUp` needs it, as a
migration stops at the first file that a competing command applied first. No other
module states fairness: nothing restarts a script that stopped.

### Findings

1. `reconcile_anchor`. `previous_successful_snapshot` does not look at
   `job_key`, so the 'succeeded' `job_run` of a *fetch* counts as a successful
   reconciliation of that snapshot. phase_e on the snapshot just fetched takes
   the fast path that compares identities only. If all its features are known, the
   run succeeds and its changes are never merged; if not, the run refuses, as it
   does on an empty database. The acceptance scripts and tests insert snapshot
   rows directly, without a fetching job, and do not see it.
2. `reconcile_rerun`. A feature first seen with an unusable geometry has no
   geometry fact, and the CHANGED/REAPPEARED query joins that fact with an inner
   join. If it disappears and comes back, its identity stays retired, and
   re-running phase_e on the very same snapshot refuses.
3. `fetch_disk`. The two answers of phase_b go to two fixed file names
   (`ingest_parcels.py:461-462`), are hashed while they are streamed and uploaded by
   name later. Two processes of one machine that fetch the same bytes both find no
   row; after one has uploaded, verified and inserted, a later fetch rewrites the
   file the other is about to upload, which replaces the good object. That process
   fails, the row stays without its bytes, and `snapshot_exists` (lines 273-274)
   makes every later fetch skip the upload.
4. `zoning_badpoint`. The comment at `ingest_zoning_permits.py:968-971` says that a
   parcel whose point is bad "remains in all_parcel_ids" and loses its district. But
   `all_parcel_ids` has only parcels with a centroid (line 954) and phase_e sets the
   centroid to NULL when it changes a geometry (`ingest_parcels.py:1861`), so a
   parcel that becomes unusable keeps the district of its old geometry.

Noticed while modelling, not checked: with two phase_e at once `MirrorsReconciled`,
`OpenExceptionsMatch`, `NoUniqueClash`, `LinearHistory`, `ReopenedOnce` and
`RerunWritesNothing` fail, and nothing promises them. The zoning load's centroid
exceptions are never relinked when they reopen. `docs/LEDGEX_SPEC.md:577` has the
view refreshed at the end of each ingest job; only phase_e refreshes it. A baseline
killed between its rows leaves live DDL that no row names: `migrate` then fails at
that file for ever, the baseline finds a ledger and has nothing to do, and `verify`
reports the difference if a definition in force is of one of them. The composer's
`NOTHING_COMPOSED` cannot be reached.

Three sentences of the repository about the migrations say more than the code does; the
model has the behaviour, and the properties of `migrations` are stated around it:

* `infra/env.py:124-125` calls what `resolved_host` returns "The host libpq will
  actually connect to". Line 146 takes the first `host=` parameter of the query string,
  libpq keeps the last one. Hence "a URL that names one host" in `GuardHolds`.
* `db/README.md:20-21` says that a baseline "never guesses which migrations already
  ran". It compares schema-only dumps (`migrate_baseline.py:113-114`); a file that only
  writes rows, or whose object a later file defines anew, cannot be told from them, and
  gets a row (lines 215-225) whether it ran or not. `migrate` will then never run it,
  and `migrate-verify` passes. Hence `Traceless` in `LedgerTrue` and `VerifyDetects`.
* `db/README.md:31-33` says that `make schema` "against a non-empty database refuses
  outright" and "nothing applies". The target commits 0046 and its row first
  (`Makefile:242-246`); the first file that creates what exists then fails. A database
  built by hand is left with a ledger of one row, and the baseline, which is what it
  needed, declines.

## 4. Proofs

Each `*_proofs` module proves its theorems for every value of the constants, from
the named assumptions in the module it extends; TLC evaluates the same assumptions
on every instance. Every safety invariant, action property and refinement that a
passing run checks is stated by a theorem. What remains with TLC is listed at the
end of the section.

The arguments have one shape. None of the properties is inductive, because a
program reads, commits or forgets in between, and writes what it read before. The
strengthening says, for each place a program can be at, what its locals still say
about the tables; then there is one lemma per action, and the properties are
conjuncts or consequences. TLC checked every strengthening below on the instance of
its run before it was proved (in place of `SettledInv`, whose unbounded quantifier TLC
cannot evaluate, the same statement over the values the facts hold).

### ParcelReconcile, any number of loaders

`ParcelReconcile_proofs`, for any loaders, features, snapshot contents and bounds
(assuming that values and `None` are distinct and `Stored` lists no snapshot twice):

| Theorem | Statement |
|---|---|
| `TypeCorrect` | `Spec => []TypeOK` |
| `ProvenanceHolds` | `Spec => []Provenance` |
| `TerminalJobsStayHolds` | `Spec => TerminalJobsStay` |
| `HistoryKeptHolds` | `Spec => HistoryKept` |

`TypeOK` is not inductive: `Commit` writes what a loader read several steps ago.
The inductive invariant `TypeInv` adds that a parcel row exists exactly for the
identified features (`ParcelsIdentified`), that what a loader holds is about its
own snapshot and about identified features, which stays true because no identity
is ever deleted (`LoadersHold`), and that a loader inside its try block owns a
'running' job that no other loader owns (`RunsOwned`). The lemmas on `Retire`,
`InsertedFacts`, `ExceptionsAfter`, `ParcelAfter` and `IdentityAfter` say what one
transaction writes. `RunsOwned` also gives `TerminalJobsStay`, since the only rows
that a step rewrites are 'running'; with it, a run that has signed rows keeps its
status, hence `Provenance`. `HistoryKept` follows from the shape of `Retire`,
`CloseCleared` and `Relink`.

### ParcelReconcile, one loader at a time

`ParcelSerial_proofs` assumes `OneLoader` (at most one phase_e process, the way the
scripts are run; with two the properties fail, see the findings) and nothing about
the features, the contents, or how often runs fail, crash and are repeated:

| Theorem | Statement |
|---|---|
| `MirrorsReconciledHolds` | `Spec => []MirrorsReconciled` |
| `OpenExceptionsMatchHolds` | `Spec => []OpenExceptionsMatch` |
| `NoUniqueClashHolds` | `Spec => []NoUniqueClash` |
| `LinearHistoryHolds` | `Spec => []LinearHistory` |
| `ReopenedOnceHolds` | `Spec => []ReopenedOnce` |
| `RerunWritesNothingHolds` | `Spec => RerunWritesNothing` |
| `TimelineRefinement` | `Spec => TimelineSpec`, the refinement of `FieldTimeline` |

`SerialInv` relates the tables to each other and to the loader. `FactsInv`: one live
row and one row of a run for each key, in a line. `ExceptionsInv`: one open row for
each condition; a link leads to a row that was closed earlier; an open row without a
link has nothing it could link to, which is what makes the later relink pick a row
that nobody has reopened. `OpenMatch`: what is open says which features are retired
and which have no live APN. `CachesMatch`: `parcel` repeats the live facts, so the
inner join of the CHANGED query sees what the ledger says. `LoadersRead`: the new,
gone, changed and duplicate features the loader captured are the ones a query would
return now, and no later run has started. Each of the properties needs the others:
that a row inserted by `Commit` meets no index (`NoUniqueClash`) follows from
`OpenMatch` and `LoadersRead`, and that the ledger then mirrors the snapshot from
`CachesMatch`. For the refinement, each key's step in `Commit` is one of the
abstract ledger's: a version that names the one it replaces, the end of a version,
or nothing.

### SnapshotFetch

`SnapshotFetch_proofs`, for any processes, sources, contents, files and bounds
(`FetchAssumption`: `Torn`, `None` and the processes are distinct from contents):

| Theorem | Statement |
|---|---|
| `TypeCorrect` | `Spec => []TypeOK` |
| `CreditIsEarned` | `Spec => []CreditEarned` |
| `ImplementsLog` | `Spec => IsSnapshotLog`, the refinement of `SnapshotLog` |
| `RowsKeepTheirBytes` | `PrivateFiles` implies `Spec => []RowsHaveBytes` |
| `ExitIsHonestHolds` | `Spec => []ExitIsHonest` |

The strengthening `IInv` is `TypeOK`, what a process holds at each place
(`ProcsOk`: its run is started and 'running', and if it won the row names its run
and its status code), that no two processes are at work on one run (`RunsApart`),
that a run not yet started has no status (`Unstarted`), and
`CreditEarned` itself. `won` is what carries the result of the INSERT to the UPDATE
two commits later: without it in the invariant a 'succeeded' could not be traced to
its row. `ImplementsLog` maps an INSERT that wins to the log's recording, a `Settle`
that says 'succeeded' to its credit, and all else to stuttering; that a content is
credited once follows from the row naming one run. `RowsKeepTheirBytes` needs
`BytesInv`: a process past the download finds in its file what it hashed, so an
upload can only put the right bytes; `PrivateFiles`, that no two processes share a
file, is what finding 3 shows to be necessary. `ExitIsHonest` needs two more parts
(`HonestInv`): the runs of an execution belong to no other process and include the
one at work (`OwnRuns`), and what they are worth so far (`Earned`): at the n-th
fetch there are n of them and, if all was well, all but the current one are settled
on recorded snapshots; of the probes, there are as many as sources struck off, which
is where the cardinalities of finite sets come in.

### ZoningLoad

`ZoningLoad_proofs`, for any parcels, geometries, polygons and snapshots:

| Theorem | Statement |
|---|---|
| `TypesHold` | `Spec => []TypeOK` |
| `LedgerExactHolds` | `Spec => []LedgerExact` |
| `ExceptionsExactHolds` | `Spec => []ExceptionsExact` |
| `ReopenedFromLastHolds` | `Spec => []ReopenedFromLast` |
| `RetirementExplainedHolds` | `Spec => RetirementExplained` |
| `TimelineHolds` | `Spec => IsTimeline`, the refinement of `FieldTimeline` |

`LoadInv` adds that a key has one live fact and one of each run and that an open
finding was closed only before it was raised (`RowsInv`), that the facts and open
rows the load holds are still those of the tables, as nobody else writes them
(`ReadInv`), and that as long as no parcel has moved since the load began, its
points, bad points, candidates and scope are what a query would return now
(`CalmInv`). A row carries the number of a run that has started (`RunsInv`), which is
what orders the closed rows for `ReopenedFromLast`. The lemmas on `Classify` reduce
its counts to cases; they need the polygons around a point to be finite.
Assumptions: the candidates are finite sets of rows; a parcel without a geometry has
no point (the point is derived from it); the facts a start state may hold, left by an
older load, have their columns' types and one row for each key, as
`fact_one_current_per_source` requires of live ones.

### PermitsLoad

`PermitsLoad_proofs`, for any finite set of parcels and any exports:

| Theorem | Statement |
|---|---|
| `TypesHold` | `Spec => []TypeOK` |
| `FactsMatchExportHolds` | `Spec => []FactsMatchExport` |
| `LostIsOpenHolds` | `Spec => []LostIsOpen` |
| `NeverRetiredHolds` | `Spec => NeverRetired` |
| `RerunIsQuietHolds` | `Spec => RerunIsQuiet` |

`LoadInv`: one live fact for each key, and open rows only for parcels with live
facts (`RowsInv`); what the load has read is what a query would return (`ReadInv`);
and after an undisturbed load the live facts and the open rows are exactly those the
export calls for (`SettledInv`), of which the first two properties are consequences
and from which the diff of a second load is empty. Its assumptions on start facts are
those of the zoning load.

### GeometryFlags

`GeometryFlags_proofs`, for any processes, parcels, polygons and faults:

| Theorem | Statement |
|---|---|
| `TypesHold` | `Spec => []TypeOK` |
| `OneZoningFlagHolds` | `Spec => []OneZoningFlag` |
| `ParcelFlagsExactHolds` | `Spec => []ParcelFlagsExact` |
| `ZoningFlagsCompleteHolds` | `Spec => []ZoningFlagsComplete` |
| `RepeatIsQuietHolds` | `Spec => RepeatIsQuiet` |

`FlagInv`: each process in a pass owns a running `job_run` (`WorkersInv`); the unique
index holds and the zoning detector writes no reason (`IndexInv`), which is why the
index alone keeps two zoning flags apart and does not keep two parcel flags apart;
what an undisturbed process has read is still so (`CalmInv`). For `RepeatIsQuiet`, the
earlier pass left a flag wherever the repeated one would raise one, so it has nothing to
insert and no index to meet, and of the parcel detector nothing to close.

### ComposeFile

`ComposeFile_proofs`, for any readers, loads, sources, licences and clock:

| Theorem | Statement |
|---|---|
| `TypesHold` | `Spec => []TypeOK` |
| `GateHoldsAlways` | `Spec => []GateHolds` |
| `ReplaysExactlyHolds` | `Spec => []ReplaysExactly` |
| `DeniedByDefaultHolds` | `Spec => []DeniedByDefault` |

`JobsInv` follows a reader: what it read is what the loads it saw committed say at
its `as_of` (`ReadOf`), what the gate did not block is allowed and, as licence rows
are never taken back, stays so until the answer (`GateOf`), and an answer shows only
that (`ShownOf`). `ReplaysExactly` then compares the same function of the loads at
two times: a load that ends later changes nothing at `as_of` unless it had begun by
then. Assumption: there is a source.

### MigrationLedger

`MigrationLedger_proofs`, for any files, objects, terminals and bounds. Assumptions:
the ledger's file is merged and at most one terminal baselines (`LedgerAssumption`); no
other file touches the ledger's table, and the files of one object run in their order
(`ObjectAssumption`).

| Theorem | Statement |
|---|---|
| `TypeCorrect` | `Spec => []TypeOK` |
| `LedgerIsTrue` | `Spec => []LedgerTrue` |
| `GuardIsHeld` | `Spec => []GuardHolds` |
| `GuardSound` | a URL that names one host and passes without the override leads to this machine |
| `VerifyDetectsHolds` | `Spec => VerifyDetects` |

`LedgerTrue` is not inductive because the baseline writes rows for files whose
definitions it compared several commits earlier. `JobsOk` says what a command may rely
on at each place. The reference database is built in the order of the directory
(`InOrder`, `BuiltUpTo`), so each of its objects ends with the definition of the last
file of the list; when the dumps are equal, every file of the list is `Adoptable`: it
ran here, or no dump can show it. That stays true, since nothing that ran is undone and a
definition is replaced only by a later file of its object. It is here that two
baseliners sharing one reference database would break the proof. `DiskInv` carries the
digests: contents only go forward, and no digest held, no row and nothing that ran is
newer than the file; so a digest taken before an edit can only be recorded as one the
file no longer has. Two verifications may share their reference: `VerifyInv` says that
whoever builds in it builds only files that have a row, and no command deletes a row.

### Only model-checked

The liveness properties (`EveryRunEnds` of `SnapshotFetch` and `GeometryFlags`,
`CatchesUp`): TLAPS has neither ENABLED nor the rules for fairness. `RowsHaveBytes`
is proved for processes with files of their own, and is false for others. The
findings are counterexamples of their runs.

## 5. What the model leaves open

Inside the modelled parts: two zoning loads, or two permits loads, at once; more than
one baseliner (they share one reference database); PGHOST and lists of hosts, which
`infra/env.py` names as gaps of its guard; migration files that are deleted, and
with them the `unexpected` list of `/v1/schema`. A migration file defines one object or
none, is edited once and never back (an edit undone between the two reads of a file
would leave no trace in the ledger), and fails for no other reason than an object that
exists: one that needs what an earlier file created is taken to find it. A URL with a
'#', a '?' or a second '@' before its host may lead anywhere (`odd`); `GuardHolds` says
nothing of it.

In `ComposeFile` a source has one open load at a time, as two loads of one source meet
in `ParcelReconcile`; of two facts that are visible at once, `current_fact_at` takes the
one retrieved last, the model the one of the later load; which version of a rule a file
cites is not part of any property; and the viewer's clock is taken to be the
database's. `settled` in the zoning, permits
and detector modules restricts the exact properties to loads that no parcels run
disturbed: the code takes no lock and promises nothing else, so what holds for
disturbed loads is stated separately (`RetirementExplained`, `IsTimeline`,
`NeverRetired`, `OneZoningFlag`).

## 6. Not modelled

* `phase_c` is a report that writes nothing. `phase_d` loads 20 sample features into
  a database without identities and refuses otherwise; what it leaves is a start
  state of `ParcelReconcile`.
* `retire_stranded_exceptions` is a one-off repair run by hand.
* `local_up.py` and `smoke_real.py` act on processes, ports, signals and files of
  the operating system and hold no protocol state of the ledger.
* The `check_*` scripts other than `check_liveness.py` read and compare.
* The list, search and tile queries of `api/main.py` only read; those that the licence
  gate protects are in `ComposeFile`.
* `core/calc.py` is arithmetic on the values of one file; `core/model.py` declares
  types. Licence seeds are fixed rows, `build/` generates text.
* Geometry (validity, repair, interior points, containment) is data to the model.

## 7. Plan

1. Two zoning loads, and two permits loads, at once, with the constraints they then
   meet; the lemmas on one load stay, `ReadInv` becomes a guard.
2. What holds of the parcels ledger with any number of loaders beyond provenance and
   kept history: one live fact for each key from the constraints of `Writable`.
3. `phase_d` as an action of `ParcelReconcile`.
