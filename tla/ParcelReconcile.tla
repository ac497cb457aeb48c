-------------------------- MODULE ParcelReconcile --------------------------
(***************************************************************************)
(* phase_e of scripts/ingest_parcels.py: the reconciliation of one bulk    *)
(* parcels snapshot with the ledger (fact, source_feature_identity,        *)
(* parcel, parcel_exception) under one job_run.                            *)
(*                                                                         *)
(* A loader is one operating-system process running phase_e on the         *)
(* snapshot it was given.  Nothing in the code excludes two of them, so    *)
(* Loaders is a parameter: one loader is the way the scripts are run, two  *)
(* show what the database's constraints still guarantee.  Every SELECT     *)
(* sees what is committed when it runs (READ COMMITTED), and the writes of *)
(* a run are one transaction, so a run is a few reading steps followed by  *)
(* one atomic Commit or Abort: two runs that write the same row meet at    *)
(* its lock, so the later one finds what the earlier one left.             *)
(*                                                                         *)
(* A feature and the parcel it identifies are one value: the identity row  *)
(* is never rebound and its primary key allows one parcel per feature.     *)
(* Times are job numbers: a job_run's number is its start order.           *)
(***************************************************************************)
EXTENDS Naturals, Sequences, FiniteSets

CONSTANTS
    Loaders,     \* processes that may run phase_e
    Features,    \* PARCELID values of the source
    Apns,        \* resolvable canonical APNs
    BadApns,     \* unresolvable APNs, one per reason: blank or placeholder
    EmptyApns,   \* the blank ones the source sends as text, not as null
    GoodGeoms,   \* polygonal geometries
    BadGeoms,    \* null or non-polygonal geometries
    Snapshots,   \* snapshot ids; an id is the hash of the bytes
    Content,     \* the features inside each snapshot's bytes
    Stored,      \* the snapshots phase_b stored before the behaviour starts
    MaxFetches,  \* bound on the fetching job_runs of a behaviour
    MaxLoads,    \* bound on the loading job_runs of a behaviour
    MaxFaults,   \* bound on the crashes and unexplained failures
    None         \* SQL NULL

Rows == [apn : Apns \cup BadApns, geom : GoodGeoms \cup BadGeoms]

ASSUME ContentAssumption ==
    Content \in [Snapshots -> [Features -> Rows \cup {None}]]
ASSUME ValuesAssumption ==
    /\ Apns \cap BadApns = {}
    /\ GoodGeoms \cap BadGeoms = {}
    /\ EmptyApns \subseteq BadApns
ASSUME StoredAssumption ==
    /\ Stored \in Seq(Snapshots)
    /\ \A i, j \in DOMAIN Stored : Stored[i] = Stored[j] => i = j
ASSUME BoundAssumption ==
    MaxFetches \in Nat /\ MaxLoads \in Nat /\ MaxFaults \in Nat

VARIABLES
    jobs,        \* the job_run rows of the parcels source, by start order
    clock,       \* how many job_runs have finished (orders finished_at)
    fetchedAt,   \* snapshot rows: 0 = not stored, else the fetching job
    facts,       \* the fact table
    identity,    \* source_feature_identity, None = no row
    parcel,      \* the parcel row's cached apn and geom, None = no parcel
    exceptions,  \* the parcel_exception table
    fresh,       \* current_fact shows exactly the live facts
    loader,      \* the state of each phase_e process
    faults,      \* how many crashes and unexplained failures so far
    reconciled   \* history: the last snapshot merged into the ledger

ledger == <<facts, identity, parcel, exceptions>>
vars == <<jobs, clock, fetchedAt, facts, identity, parcel, exceptions,
          fresh, loader, faults, reconciled>>

-----------------------------------------------------------------------------
(* Tables.                                                                 *)

Fields == {"apn", "geom", "pid"}
Values == Apns \cup GoodGeoms \cup Features

\* fact: superseded_at is `until` (0 = NULL), supersedes_fact_id is `sup`,
\* the number of the run that wrote the superseded fact of the same field.
Facts == [run : Nat, feat : Features, field : Fields, val : Values,
          sup : Nat, until : Nat]

\* DETECTOR_KEY_APN_UNRESOLVABLE, _GEOMETRY_UNRESOLVABLE, _PARCEL_DISAPPEARED
Detectors == {"apn_unresolvable", "geometry_gap", "disappeared"}

\* parcel_exception: `closed` is resolved_at (0 = outcome 'open'), `from` is
\* reopened_from_id.
Exceptions == [run : Nat, feat : Features, det : Detectors,
               reason : BadApns \cup BadGeoms \cup {"absent"},
               closed : Nat, from : Nat]

JobRuns == [key : {"fetch", "full"},
            status : {"running", "succeeded", "failed", "skipped_unchanged"},
            snap : Snapshots \cup {None},
            at : Nat,
            error : {"none", "http", "identity", "unique", "geometry",
                     "check", "other"}]

Identities == [first : Nat, last : Nat, retired : Nat]
Parcels == [apn : Apns \cup {None}, geom : GoodGeoms \cup {None}]

\* One row of the CHANGED/REAPPEARED query, as the loader holds it.
ChangedRows == [feat : Features, apn : Facts \cup {None}, geom : Facts,
                back : BOOLEAN]

Processes == [pc : {"idle", "anchored", "started", "named", "classified",
                    "captured", "write", "refresh"},
              snap : Snapshots \cup {None}, run : Nat, same : BOOLEAN,
              new : SUBSET Features, gone : SUBSET Features,
              rows : SUBSET ChangedRows, dup : SUBSET Features]

ASSUME NoneAssumption ==
    /\ None \notin Rows /\ None \notin Apns /\ None \notin GoodGeoms
    /\ None \notin Snapshots /\ None \notin Facts
    /\ None \notin Identities /\ None \notin Parcels

Idle == [pc |-> "idle", snap |-> None, run |-> 0, same |-> FALSE,
         new |-> {}, gone |-> {}, rows |-> {}, dup |-> {}]

Run(status, x, at, error, key) ==
    [key |-> key, status |-> status, snap |-> x, at |-> at, error |-> error]

Init ==
    /\ jobs = [i \in DOMAIN Stored |->
                  Run("succeeded", Stored[i], i, "none", "fetch")]
    /\ clock = Len(Stored)
    /\ fetchedAt = [x \in Snapshots |->
                       IF \E i \in DOMAIN Stored : Stored[i] = x
                       THEN CHOOSE i \in DOMAIN Stored : Stored[i] = x ELSE 0]
    /\ facts = {}
    /\ identity = [f \in Features |-> None]
    /\ parcel = [f \in Features |-> None]
    /\ exceptions = {}
    /\ fresh = TRUE
    /\ loader = [l \in Loaders |-> Idle]
    /\ faults = 0
    /\ reconciled = None

-----------------------------------------------------------------------------
(* Queries.                                                                *)

Incoming(x) == {f \in Features : Content[x][f] # None}
Identified == {f \in Features : identity[f] # None}
Active == {f \in Identified : identity[f].retired = 0}

LiveIn(F, f, field) ==
    {v \in F : v.feat = f /\ v.field = field /\ v.until = 0}
Live(f, field) == LiveIn(facts, f, field)

\* Mutant: the join forgets superseded_at IS NULL.
CurrentOrPast(f, field) ==
    LET V == {v \in facts : v.feat = f /\ v.field = field} IN
    IF V = {} THEN None ELSE CHOOSE v \in V : TRUE

\* The live fact of a field, None when the LEFT JOIN finds none.
Current(f, field) ==
    IF Live(f, field) = {} THEN None
    ELSE CHOOSE v \in Live(f, field) : TRUE

\* previous_successful_snapshot: any job of the source counts, whatever its
\* job_key, and the last to finish wins.
Succeeded == {j \in DOMAIN jobs :
                jobs[j].status = "succeeded" /\ jobs[j].snap # None}
Anchor ==
    IF Succeeded = {} THEN None
    ELSE jobs[CHOOSE j \in Succeeded :
                \A k \in Succeeded : jobs[k].at <= jobs[j].at].snap

\* Mutant: IS DISTINCT FROM applied to an absent fact as well.
ApnDistinct(row, in) == row.apn = None \/ row.apn.val # in.apn

ApnChanged(row, in) ==
    IF row.apn # None THEN row.apn.val # in.apn ELSE in.apn \in Apns
GeomChanged(row, in) == row.geom.val # in.geom

\* Mutant: an INNER JOIN on the APN fact (findings 17 and 22).
SelectedWithApn(row, in) ==
    row.apn # None /\ (row.back \/ ApnChanged(row, in) \/ GeomChanged(row, in))

\* The WHERE clause of the CHANGED/REAPPEARED query.  A blank APN sent as
\* text passes its CASE although the loop then finds nothing to change.
Selected(row, in) ==
    \/ row.back
    \/ ApnChanged(row, in)
    \/ row.apn = None /\ in.apn \in EmptyApns
    \/ GeomChanged(row, in)

\* The INNER JOIN on the geometry fact drops a parcel that has none.
JoinedRows(x) ==
    {[feat |-> f, apn |-> Current(f, "apn"), geom |-> Current(f, "geom"),
      back |-> identity[f].retired # 0] :
        f \in {g \in Incoming(x) \cap Identified : Live(g, "geom") # {}}}

OpenDisappeared ==
    {e.feat : e \in {d \in exceptions : d.det = "disappeared" /\ d.closed = 0}}

-----------------------------------------------------------------------------
(* What a run writes, computed from what it read.  p is the loader's       *)
(* record; its rows may be stale by the time they are written.             *)

In(p, f) == Content[p.snap][f]

NewFact(p, f, field, v, s) ==
    [run |-> p.run, feat |-> f, field |-> field, val |-> v,
     sup |-> s, until |-> 0]

\* The branches of the CHANGED loop: degrade, replace, resolve, move.
ApnRows(p) == {r \in p.rows : ApnChanged(r, In(p, r.feat))}
Degraded(p) == {r \in ApnRows(p) : r.apn # None /\ In(p, r.feat).apn \in BadApns}
Replaced(p) == {r \in ApnRows(p) : r.apn # None /\ In(p, r.feat).apn \in Apns}
Resolved(p) == {r \in ApnRows(p) : r.apn = None}
Moved(p) == {r \in p.rows : GeomChanged(r, In(p, r.feat))}
Reappeared(p) == {r \in p.rows : r.back}
FeatsOf(R) == {r.feat : r \in R}

\* fact_ids_to_supersede
Retiring(p) == {r.apn : r \in Degraded(p) \cup Replaced(p)}
               \cup {r.geom : r \in Moved(p)}

\* Mutant: a superseded row is deleted.
RetireByDelete(p, F) == F \ Retiring(p)

\* Mutant: the UPDATE matches by id alone.
RetireAgain(p, F) ==
    {IF \E w \in Retiring(p) : w = [v EXCEPT !.until = 0]
     THEN [v EXCEPT !.until = p.run] ELSE v : v \in F}

\* UPDATE fact SET superseded_at ... AND superseded_at IS NULL: a captured
\* row that another run has already retired no longer matches.
Retire(p, F) ==
    {IF v \in Retiring(p) /\ v.until = 0 THEN [v EXCEPT !.until = p.run] ELSE v :
        v \in F}

InsertedFacts(p) ==
    {NewFact(p, f, "pid", f, 0) : f \in p.new}
    \cup {NewFact(p, f, "apn", In(p, f).apn, 0) :
            f \in {g \in p.new : In(p, g).apn \in Apns}}
    \cup {NewFact(p, f, "geom", In(p, f).geom, 0) :
            f \in {g \in p.new : In(p, g).geom \in GoodGeoms}}
    \cup {NewFact(p, r.feat, "apn", In(p, r.feat).apn, r.apn.run) :
            r \in Replaced(p)}
    \cup {NewFact(p, r.feat, "apn", In(p, r.feat).apn, 0) : r \in Resolved(p)}
    \cup {NewFact(p, r.feat, "geom", In(p, r.feat).geom, r.geom.run) :
            r \in Moved(p)}

NewException(p, f, det, reason) ==
    [run |-> p.run, feat |-> f, det |-> det, reason |-> reason,
     closed |-> 0, from |-> 0]

\* exception_rows; a disappeared parcel whose exception is still open gets
\* no second one.
InsertedExceptions(p) ==
    {NewException(p, f, "apn_unresolvable", In(p, f).apn) :
        f \in {g \in p.new : In(p, g).apn \in BadApns} \cup FeatsOf(Degraded(p))}
    \cup {NewException(p, f, "geometry_gap", In(p, f).geom) :
            f \in {g \in p.new : In(p, g).geom \in BadGeoms}}
    \cup {NewException(p, f, "disappeared", "absent") : f \in p.gone \ p.dup}

\* Mutant: a reappeared parcel's exception is left open (before C5).
ClosingApnOnly(p, e) ==
    e.closed = 0 /\ e.det = "apn_unresolvable" /\ e.feat \in FeatsOf(Resolved(p))

\* close_exceptions_for_parcels, once for the parcels whose APN resolved and
\* once for those that reappeared; resolved_at is the moment of the commit.
Closing(p, e) ==
    /\ e.closed = 0
    /\ \/ e.det = "apn_unresolvable" /\ e.feat \in FeatsOf(Resolved(p))
       \/ e.det = "disappeared" /\ e.feat \in FeatsOf(Reappeared(p))
CloseCleared(p, E) ==
    {IF Closing(p, e) THEN [e EXCEPT !.closed = clock + 1] ELSE e : e \in E}

\* Mutant: the reason is not compared.
PriorsAnyReason(E, e) ==
    {d \in E : d.det = e.det /\ d.feat = e.feat /\ d.closed # 0}

\* relink_reopened_exceptions for both detectors: an open row without a
\* predecessor points at the last closed row of its parcel and reason.
Priors(E, e) ==
    {d \in E : /\ d.det = e.det /\ d.feat = e.feat /\ d.reason = e.reason
               /\ d.closed # 0}
Latest(S) == {d \in S : \A c \in S : c.closed <= d.closed}
Relink(E) ==
    {IF /\ e.closed = 0 /\ e.from = 0
        /\ e.det \in {"apn_unresolvable", "disappeared"}
        /\ Latest(Priors(E, e)) # {}
     THEN [e EXCEPT !.from = (CHOOSE d \in Latest(Priors(E, e)) : TRUE).run]
     ELSE e : e \in E}

FactsAfter(p) == Retire(p, facts) \cup InsertedFacts(p)
ExceptionsAfter(p) ==
    LET E == CloseCleared(p, exceptions) IN
    IF InsertedExceptions(p) = {} THEN E
    ELSE Relink(E \cup InsertedExceptions(p))

\* Mutant: the cache keeps the raw value.
OrRaw(v, S) == v

OrNone(v, S) == IF v \in S THEN v ELSE None

\* The parcel row: inserted for a new feature, its caches updated for a
\* changed one.
ParcelAfter(p, f) ==
    CASE f \in p.new -> [apn |-> OrNone(In(p, f).apn, Apns),
                         geom |-> OrNone(In(p, f).geom, GoodGeoms)]
      [] f \in FeatsOf(p.rows) \ p.new ->
            [apn |-> IF f \in FeatsOf(ApnRows(p)) THEN OrNone(In(p, f).apn, Apns)
                     ELSE parcel[f].apn,
             geom |-> IF f \in FeatsOf(Moved(p)) THEN OrNone(In(p, f).geom, GoodGeoms)
                      ELSE parcel[f].geom]
      [] OTHER -> parcel[f]

\* source_feature_identity: inserted, retired, or touched (and un-retired
\* only if the row was retired when it was read).
IdentityAfter(p, f) ==
    CASE f \in p.new -> [first |-> fetchedAt[p.snap],
                         last |-> fetchedAt[p.snap], retired |-> 0]
      [] f \in p.gone -> [identity[f] EXCEPT !.retired = p.run]
      [] f \in FeatsOf(p.rows) \ p.new ->
            [first |-> identity[f].first, last |-> fetchedAt[p.snap],
             retired |-> IF f \in FeatsOf(Reappeared(p)) THEN 0
                         ELSE identity[f].retired]
      [] OTHER -> identity[f]

-----------------------------------------------------------------------------
(* The constraints a commit can run into, in the order the writes meet     *)
(* them.                                                                   *)

\* source_feature_identity_pkey
IdentityClash(p) == p.new \cap Identified # {}
\* fact_txn_time: superseded_at is the moment the run started (reconcile_at),
\* so a fact that a later run recorded cannot be retired.
RetiredTooEarly(p) ==
    \E v \in Retiring(p) : v \in facts /\ v.until = 0 /\ v.run > p.run
\* fact_one_current_per_source
FactClash(p) ==
    \E v \in InsertedFacts(p) :
        LiveIn(FactsAfter(p), v.feat, v.field) # {v}
\* parcel_exception_one_open_per_detector_reason_coalesced
ExceptionClash(p) ==
    \E n \in InsertedExceptions(p), e \in CloseCleared(p, exceptions) :
        /\ e.closed = 0
        /\ e.feat = n.feat /\ e.det = n.det /\ e.reason = n.reason
\* ST_GeomFromGeoJSON, and the MultiPolygon type of parcel.geom
GeometryRejected(p) == \E r \in Moved(p) : In(p, r.feat).geom \in BadGeoms
\* source_feature_identity_seen_order and _retired_after_seen
SeenCheckFails(p) ==
    \E f \in p.gone \cup FeatsOf(p.rows) :
        LET i == IdentityAfter(p, f) IN
        i.last < i.first \/ (i.retired # 0 /\ i.retired < i.last)

Writable(p) ==
    /\ ~IdentityClash(p) /\ ~RetiredTooEarly(p) /\ ~FactClash(p)
    /\ ~ExceptionClash(p) /\ ~GeometryRejected(p) /\ ~SeenCheckFails(p)

CommitError(p) ==
    IF IdentityClash(p) THEN "unique"
    ELSE IF RetiredTooEarly(p) THEN "check"
    ELSE IF FactClash(p) \/ ExceptionClash(p) THEN "unique"
    ELSE IF GeometryRejected(p) THEN "geometry"
    ELSE "check"

-----------------------------------------------------------------------------
(* job_run writes.                                                         *)

\* Mutant: the ledger commits before the run's status does (before P1).
FinishLater(j, status, x, error) ==
    /\ jobs' = IF status = "succeeded" THEN jobs
               ELSE [jobs EXCEPT ![j] = Run(status, x, clock + 1, error, @.key)]
    /\ clock' = clock + 1

FinishRun(j, status, x, error) ==
    /\ jobs' = [jobs EXCEPT ![j] = Run(status, x, clock + 1, error, @.key)]
    /\ clock' = clock + 1

RunsOf(key) == {j \in DOMAIN jobs : jobs[j].key = key}

\* start_job_run
StartJob == jobs' = Append(jobs, Run("running", None, 0, "none", "full"))

\* rollback, then fail_job_run: the row keeps its NULL snapshot_id.
FailRun(l, error) ==
    /\ FinishRun(loader[l].run, "failed", None, error)
    /\ loader' = [loader EXCEPT ![l] = Idle]
    /\ UNCHANGED <<ledger, fetchedAt, fresh, reconciled>>

-----------------------------------------------------------------------------
(* Actions.                                                                *)

(* ACTION Fetch ---------------------------------------------------------- *)
(* One run_one_fetch of phase_b, whole: its own interleavings do not touch *)
(* the ledger.  The answer is stored whatever its HTTP status; the run     *)
(* succeeds only when a 2xx answer was new.                                *)
Fetch(x, ok) ==
    /\ Cardinality(RunsOf("fetch")) < Len(Stored) + MaxFetches
    /\ LET status == IF ~ok THEN "failed"
                     ELSE IF fetchedAt[x] = 0 THEN "succeeded"
                     ELSE "skipped_unchanged"
           error == IF ok THEN "none" ELSE "http"
       IN jobs' = Append(jobs, Run(status, x, clock + 1, error, "fetch"))
    /\ clock' = clock + 1
    /\ fetchedAt' = [fetchedAt EXCEPT ![x] =
                        IF @ = 0 THEN Len(jobs) + 1 ELSE @]
    /\ UNCHANGED <<ledger, fresh, loader, faults, reconciled>>

(* ACTION ReadAnchor ----------------------------------------------------- *)
(* phase_e asks for the previous successful snapshot, then downloads and   *)
(* verifies its own; same_as_previous is decided here, before the job_run  *)
(* exists.                                                                 *)
ReadAnchor(l, x) ==
    /\ loader[l].pc = "idle"
    /\ Cardinality(RunsOf("full")) < MaxLoads
    /\ fetchedAt[x] # 0
    /\ loader' = [loader EXCEPT ![l] =
                    [Idle EXCEPT !.pc = "anchored", !.snap = x,
                                 !.same = (Anchor = x)]]
    /\ UNCHANGED <<jobs, clock, fetchedAt, ledger, fresh, faults, reconciled>>

(* ACTION StartRun ------------------------------------------------------- *)
(* start_job_run commits the 'running' row; reconcile_at is captured.      *)
StartRun(l) ==
    /\ loader[l].pc = "anchored"
    /\ Cardinality(RunsOf("full")) < MaxLoads
    /\ StartJob
    /\ loader' = [loader EXCEPT ![l].pc = "started",
                                ![l].run = Len(jobs) + 1]
    /\ UNCHANGED <<clock, fetchedAt, ledger, fresh, faults, reconciled>>

(* ACTION VerifyIdentities ----------------------------------------------- *)
(* The same_as_previous path: every feature must have an active identity;  *)
(* nothing will be written.                                                *)
VerifyIdentities(l) ==
    /\ loader[l].pc = "started"
    /\ loader[l].same
    /\ Incoming(loader[l].snap) \subseteq Active
    /\ loader' = [loader EXCEPT ![l].pc = "write"]
    /\ UNCHANGED <<jobs, clock, fetchedAt, ledger, fresh, faults, reconciled>>

(* ACTION RefuseIdentities ----------------------------------------------- *)
(* The same path when a feature has no active identity: RuntimeError.      *)
RefuseIdentities(l) ==
    /\ loader[l].pc = "started"
    /\ loader[l].same
    /\ ~(Incoming(loader[l].snap) \subseteq Active)
    /\ FailRun(l, "identity")
    /\ UNCHANGED faults

\* Mutant: NEW is "no live identity row" instead of "no row at all".
ClassifyLive(l) ==
    /\ loader[l].pc = "started"
    /\ ~loader[l].same
    /\ loader' = [loader EXCEPT ![l].pc = "named",
                                ![l].new = Incoming(loader[l].snap) \ Active]
    /\ UNCHANGED <<jobs, clock, fetchedAt, ledger, fresh, faults, reconciled>>

(* ACTIONS ClassifyNew, ClassifyGone ------------------------------------- *)
(* The NEW and the DISAPPEARED query over the staged features.             *)
ClassifyNew(l) ==
    /\ loader[l].pc = "started"
    /\ ~loader[l].same
    /\ loader' = [loader EXCEPT ![l].pc = "named",
                                ![l].new = Incoming(loader[l].snap) \ Identified]
    /\ UNCHANGED <<jobs, clock, fetchedAt, ledger, fresh, faults, reconciled>>

ClassifyGone(l) ==
    /\ loader[l].pc = "named"
    /\ loader' = [loader EXCEPT ![l].pc = "classified",
                                ![l].gone = Active \ Incoming(loader[l].snap)]
    /\ UNCHANGED <<jobs, clock, fetchedAt, ledger, fresh, faults, reconciled>>

(* ACTIONS CaptureChanges, CaptureOpen ----------------------------------- *)
(* The CHANGED/REAPPEARED query, and the open exceptions of what is gone.  *)
CaptureChanges(l) ==
    /\ loader[l].pc = "classified"
    /\ LET p == loader[l] IN
       loader' = [loader EXCEPT
            ![l].pc = "captured",
            ![l].rows = {r \in JoinedRows(p.snap) :
                            Selected(r, In(p, r.feat))}]
    /\ UNCHANGED <<jobs, clock, fetchedAt, ledger, fresh, faults, reconciled>>

CaptureOpen(l) ==
    /\ loader[l].pc = "captured"
    /\ loader' = [loader EXCEPT ![l].pc = "write",
                                ![l].dup = loader[l].gone \cap OpenDisappeared]
    /\ UNCHANGED <<jobs, clock, fetchedAt, ledger, fresh, faults, reconciled>>

(* ACTION Commit --------------------------------------------------------- *)
(* All ledger writes and the run's 'succeeded' status, one transaction.    *)
Commit(l) ==
    LET p == loader[l] IN
    /\ p.pc = "write"
    /\ Writable(p)
    /\ facts' = FactsAfter(p)
    /\ exceptions' = ExceptionsAfter(p)
    /\ parcel' = [f \in Features |-> ParcelAfter(p, f)]
    /\ identity' = [f \in Features |-> IdentityAfter(p, f)]
    /\ FinishRun(p.run, "succeeded", p.snap, "none")
    /\ fresh' = (fresh /\ facts' = facts)
    /\ loader' = [loader EXCEPT ![l].pc = "refresh"]
    /\ reconciled' = IF p.same THEN reconciled ELSE p.snap
    /\ UNCHANGED <<fetchedAt, faults>>

(* ACTION Abort ---------------------------------------------------------- *)
(* A constraint rejects a write: the whole transaction rolls back.         *)
Abort(l) ==
    /\ loader[l].pc = "write"
    /\ ~Writable(loader[l])
    /\ FailRun(l, CommitError(loader[l]))
    /\ UNCHANGED faults

(* ACTION Fail ----------------------------------------------------------- *)
(* Any other exception inside the try block: a blank PARCELID, a duplicate *)
(* one in the staging table, a lost connection.                            *)
Fail(l) ==
    /\ loader[l].pc \in {"started", "named", "classified", "captured", "write"}
    /\ faults < MaxFaults
    /\ FailRun(l, "other")
    /\ faults' = faults + 1

(* ACTION RefreshView ---------------------------------------------------- *)
(* refresh_current_fact after the commit.                                  *)
RefreshView(l) ==
    /\ loader[l].pc = "refresh"
    /\ fresh' = TRUE
    /\ loader' = [loader EXCEPT ![l] = Idle]
    /\ UNCHANGED <<jobs, clock, fetchedAt, ledger, faults, reconciled>>

\* Mutant: a failed refresh marks the run failed (before P1).
RefreshFailsRun(l) ==
    /\ loader[l].pc = "refresh"
    /\ FinishRun(loader[l].run, "failed", None, "other")
    /\ loader' = [loader EXCEPT ![l] = Idle]
    /\ UNCHANGED <<fetchedAt, ledger, fresh, faults, reconciled>>

(* ACTION RefreshFails --------------------------------------------------- *)
(* The refresh raises: reported, re-raised, and no row is changed.         *)
RefreshFails(l) ==
    /\ loader[l].pc = "refresh"
    /\ loader' = [loader EXCEPT ![l] = Idle]
    /\ UNCHANGED <<jobs, clock, fetchedAt, ledger, fresh, faults, reconciled>>

(* ACTION Crash ---------------------------------------------------------- *)
(* The process dies; its open transaction is lost and a started job_run    *)
(* stays 'running'.  Also the end of a run whose snapshot did not verify.  *)
Crash(l) ==
    /\ loader[l].pc # "idle"
    /\ faults < MaxFaults
    /\ loader' = [loader EXCEPT ![l] = Idle]
    /\ faults' = faults + 1
    /\ UNCHANGED <<jobs, clock, fetchedAt, ledger, fresh, reconciled>>

Next ==
    \/ \E x \in Snapshots, ok \in BOOLEAN : Fetch(x, ok)
    \/ \E l \in Loaders :
        \/ \E x \in Snapshots : ReadAnchor(l, x)
        \/ StartRun(l)
        \/ VerifyIdentities(l)
        \/ RefuseIdentities(l)
        \/ ClassifyNew(l)
        \/ ClassifyGone(l)
        \/ CaptureChanges(l)
        \/ CaptureOpen(l)
        \/ Commit(l)
        \/ Abort(l)
        \/ Fail(l)
        \/ RefreshView(l)
        \/ RefreshFails(l)
        \/ Crash(l)

Spec == Init /\ [][Next]_vars

-----------------------------------------------------------------------------
(* Properties.                                                             *)

\* Every variable holds rows of its table.
TypeOK ==
    /\ jobs \in Seq(JobRuns)
    /\ clock \in Nat
    /\ fetchedAt \in [Snapshots -> Nat]
    /\ facts \in SUBSET Facts
    /\ identity \in [Features -> Identities \cup {None}]
    /\ parcel \in [Features -> Parcels \cup {None}]
    /\ exceptions \in SUBSET Exceptions
    /\ fresh \in BOOLEAN
    /\ loader \in [Loaders -> Processes]
    /\ faults \in Nat
    /\ reconciled \in Snapshots \cup {None}

\* What a run left behind is what a succeeded run left behind: every fact,
\* every retirement and every exception was written by a phase_e run whose
\* job_run says 'succeeded', so a failed or crashed run leaves no trace and
\* no committed row is disowned by its job_run.
Provenance ==
    LET Good(j) == /\ j \in DOMAIN jobs
                   /\ jobs[j].key = "full" /\ jobs[j].status = "succeeded"
    IN /\ \A v \in facts : Good(v.run) /\ (v.until # 0 => Good(v.until))
       /\ \A e \in exceptions : Good(e.run)
       /\ \A f \in Identified : identity[f].retired # 0 => Good(identity[f].retired)

\* The ledger shows the content of the last snapshot that was reconciled:
\* a feature's identity is active exactly when the snapshot carries it, and
\* a carried feature that has a geometry fact has the snapshot's geometry,
\* its APN exactly when resolvable, and a parcel row that caches both.
MirrorsReconciled ==
    reconciled # None =>
        \A f \in Features :
            LET in == Content[reconciled][f] IN
            IF in = None THEN f \notin Active
            ELSE /\ f \in Identified
                 /\ Live(f, "geom") # {} =>
                        /\ f \in Active
                        /\ {v.val : v \in Live(f, "geom")} = {in.geom}
                        /\ {v.val : v \in Live(f, "apn")} = {in.apn} \cap Apns
                        /\ parcel[f] = [apn |-> OrNone(in.apn, Apns),
                                         geom |-> in.geom]

Open(f, det) == {e \in exceptions : e.feat = f /\ e.det = det /\ e.closed = 0}

\* The open exceptions say what is missing now: one open row that the parcel
\* disappeared exactly while its identity is retired, one open row that its
\* APN is unresolvable exactly while it has no live APN fact (the dedup
\* guard, the two closures and their order in phase_e).
OpenExceptionsMatch ==
    \A f \in Identified :
        /\ Cardinality(Open(f, "disappeared")) = IF f \in Active THEN 0 ELSE 1
        /\ Cardinality(Open(f, "apn_unresolvable")) =
               IF Live(f, "apn") = {} THEN 1 ELSE 0

\* No run is lost to a uniqueness constraint of the ledger: the retire-first
\* order, the dedup guard and the un-retiring of identities never collide
\* with rows an earlier run left (the flap A, B, A, B of C5).
NoUniqueClash == \A j \in DOMAIN jobs : jobs[j].error # "unique"

\* The versions of a field form one line: a successor replaced the very fact
\* it names, in its own run, and no fact has two successors.
LinearHistory ==
    \A v \in facts : v.sup # 0 =>
        /\ \E w \in facts : /\ w.run = v.sup /\ w.until = v.run
                            /\ w.feat = v.feat /\ w.field = v.field
        /\ \A w \in facts : (/\ w.sup = v.sup /\ w.feat = v.feat
                             /\ w.field = v.field) => w = v

\* A reopened exception points at the closed row it reopens, and a closed row
\* is reopened at most once (relink_reopened_exceptions).
ReopenedOnce ==
    \A e \in exceptions : e.from # 0 =>
        /\ \E d \in exceptions :
              /\ d.run = e.from /\ d.run < e.run /\ d.closed # 0
              /\ d.feat = e.feat /\ d.det = e.det /\ d.reason = e.reason
        /\ \A d \in exceptions :
              (d.from = e.from /\ d.feat = e.feat /\ d.det = e.det) => d = e

\* Reconciling again the content the ledger already mirrors writes no fact
\* and no exception, retires and revives nothing.
RerunWritesNothing ==
    [][\A l \in Loaders :
        (/\ loader[l].pc = "write" /\ loader'[l].pc = "refresh"
         /\ loader[l].snap = reconciled)
            => UNCHANGED <<facts, exceptions>> /\ Active' = Active]_vars

\* The past is never rewritten: a fact row only ever gains the run that
\* superseded it, once; a closed exception stays as it is.
HistoryKept ==
    [][/\ \A v \in facts :
            \/ v \in facts'
            \/ v.until = 0 /\ \E w \in facts' : w = [v EXCEPT !.until = w.until]
       /\ \A e \in exceptions : e.closed # 0 => e \in exceptions']_vars

\* A job_run that reached a terminal status keeps it, whatever happens to the
\* refresh of current_fact or to the process afterwards (P1).
TerminalJobsStay ==
    [][\A j \in DOMAIN jobs :
        jobs[j].status # "running" => jobs'[j] = jobs[j]]_vars

\* Comment at the same_as_previous path: the anchor names "the last
\* successfully-reconciled snapshot".  As a statement of the ledger: the last
\* phase_e run to succeed left it mirroring the snapshot it was given.
SucceededRunReconciled ==
    LET Full == {j \in Succeeded : jobs[j].key = "full"} IN
    \A j \in Full :
        (\A k \in Full : jobs[k].at <= jobs[j].at) => jobs[j].snap = reconciled

\* Comment at the refresh: re-running phase_e against the snapshot it just
\* reconciled "is safe", since every feature of it already has its identity
\* and the rerun "verifies everything as unchanged".
RerunIsSafe ==
    \A l \in Loaders :
        (/\ loader[l].pc = "started" /\ loader[l].same
         /\ loader[l].snap = reconciled)
            => Incoming(reconciled) \subseteq Active

-----------------------------------------------------------------------------
(* Refinement: the fact table implements one timeline per parcel and field *)
(* when a single loader runs.                                              *)

Keys == Features \X Fields

LiveVersion ==
    [k \in Keys |-> LET v == Current(k[1], k[2]) IN IF v = None THEN 0 ELSE v.run]
DeadVersions ==
    [k \in Keys |-> {v.run : v \in {w \in facts :
        w.feat = k[1] /\ w.field = k[2] /\ w.until # 0}}]
Links ==
    [k \in Keys |-> {<<v.sup, v.run>> : v \in {w \in facts :
        w.feat = k[1] /\ w.field = k[2]}}]

Timeline == INSTANCE FieldTimeline
            WITH live <- LiveVersion, dead <- DeadVersions, link <- Links

\* Every run of one loader changes the fact table as a temporal ledger may:
\* a key gets a fresh version linked to the one it replaces in that same
\* transaction, or loses its live version, and nothing older ever changes.
TimelineSpec == Timeline!Spec
=============================================================================
