----------------------------- MODULE ZoningLoad -----------------------------
(***************************************************************************)
(* load_zoning of scripts/ingest_zoning_permits.py: every parcel is given  *)
(* an interior point, joined with the polygons of one zoning snapshot,     *)
(* classified, and the classification is reconciled with the live          *)
(* zoning.district and zoning.district_verbatim facts.                     *)
(*                                                                         *)
(* A load is one transaction, but at READ COMMITTED each of its SELECTs    *)
(* sees what is committed when it runs, so the SELECTs are steps and a     *)
(* parcels run (MoveParcel) may commit between them.  The writes become    *)
(* visible together, in Commit; a parcel whose centroid the load has       *)
(* written stays locked until then.  One zoning load runs at a time.       *)
(*                                                                         *)
(* Geometry is data: PointOf is the point the code derives from a polygon, *)
(* Interior the points inside it, Candidates the polygons of a snapshot    *)
(* that contain a point.                                                   *)
(***************************************************************************)
EXTENDS Naturals, FiniteSets

CONSTANTS
    Parcels,     \* parcels of the jurisdiction
    Geoms,       \* parcel geometries
    Usable,      \* the geometries that are valid or can be repaired
    Points,      \* points
    PointOf,     \* the point derived from a usable geometry
    Interior,    \* the points inside a usable geometry
    Snapshots,   \* zoning snapshots
    Zonings,     \* values of ZONING, and of ZONINGABBREV
    Blank,       \* a blank value of either
    Candidates,  \* rows [fid, zoning, verbatim] of the polygons around a point
    InitGeom,    \* the geometry of each parcel before the behaviour
    InitPoints,  \* the centroids an older loader may have left
    InitFacts,   \* the facts an older loader may have left
    MaxLoads,    \* bound on the loads of a behaviour
    MaxMoves,    \* bound on the geometry changes of a behaviour
    None         \* SQL NULL

Rows == [fid : Nat, zoning : Zonings \cup {Blank},
         verbatim : Zonings \cup {Blank, None}]

\* A query returns a finite set of rows, and a point is derived from a geometry.
ASSUME GeometryAssumption ==
    /\ Usable \subseteq Geoms
    /\ PointOf \in [Usable -> Points]
    /\ Interior \in [Usable -> SUBSET Points]
    /\ InitGeom \in [Parcels -> Geoms \cup {None}]
    /\ InitPoints \subseteq [Parcels -> Points \cup {None}]
    /\ \A P \in InitPoints, p \in Parcels : InitGeom[p] = None => P[p] = None
ASSUME CandidatesAssumption ==
    /\ DOMAIN Candidates = Snapshots
    /\ \A x \in Snapshots :
           /\ DOMAIN Candidates[x] = Points
           /\ \A pt \in Points :
                  /\ IsFiniteSet(Candidates[x][pt])
                  /\ \A c \in Candidates[x][pt] : c \in Rows
ASSUME BoundsAssumption == MaxLoads \in Nat /\ MaxMoves \in Nat

VARIABLES
    geom,       \* parcel.geom
    centroid,   \* parcel.centroid
    facts,      \* the zoning facts
    exceptions, \* parcel_exception rows of the two detectors of the load
    job,        \* status of the zoning job_runs, by start order
    loads,      \* how many loads have started
    loader,     \* the running load
    moves,      \* how many geometry changes
    settled     \* history: the snapshot of the last load, if no parcel has
                \* moved since that load began, else None

vars == <<geom, centroid, facts, exceptions, job, loads, loader, moves, settled>>

Fields == {"district", "verbatim"}
Detectors == {"centroid", "join"}
Reasons == {"not_interior", "no_district", "many_districts", "polygons_agree"}

\* fact: `sup` is the run that wrote the fact this one supersedes (None: it
\* opened its key), `live` is superseded_at IS NULL.
Facts == [run : Nat, parcel : Parcels, field : Fields, val : Zonings \cup {Blank},
          sup : Nat \cup {None}, live : BOOLEAN]

\* parcel_exception: `closed` is the run that resolved it (0 = open), `from`
\* the run that raised the row named by reopened_from_id.
Exceptions == [run : Nat, parcel : Parcels, det : Detectors, reason : Reasons,
               closed : Nat, from : Nat \cup {None}]

ASSUME NoneAssumption ==
    None \notin Geoms \cup Points \cup Zonings \cup Snapshots \cup {Blank} \cup Nat \cup Reasons

\* What an older loader left is of run 0; the index fact_one_current_per_source
\* keeps one row of each key current.
ASSUME InitFactsAssumption ==
    \A F \in InitFacts :
        /\ \A f \in F : f \in Facts /\ f.run = 0
        /\ \A f, g \in F : f.parcel = g.parcel /\ f.field = g.field => f = g

\* What a classification says: the district and the verbatim text (None: no
\* value) and the reason of the exception it calls for (None: none).
Classes == [district : Zonings \cup {None}, verbatim : Zonings \cup {Blank, None},
            reason : Reasons \cup {None}]

NoLoad == [pc |-> "idle", snap |-> None, point |-> [p \in Parcels |-> None],
           moved |-> {}, bad |-> {}, openBad |-> {}, near |-> [p \in Parcels |-> {}],
           scope |-> {}, live |-> {}, calm |-> TRUE]

Init ==
    /\ geom = InitGeom
    /\ centroid \in InitPoints
    /\ facts \in InitFacts
    /\ exceptions = {}
    /\ job = [r \in 1..MaxLoads |-> "none"]
    /\ loads = 0
    /\ loader = NoLoad
    /\ moves = 0
    /\ settled = None

-----------------------------------------------------------------------------
(* Queries and pure functions.                                             *)

At(pc) == loader.pc = pc
Located == {p \in Parcels : geom[p] # None}
Live == {f \in facts : f.live}
Open(det) == {e \in exceptions : e.det = det /\ e.closed = 0}
OpenPairs(det) == {<<e.parcel, e.reason>> : e \in Open(det)}

\* _CENTROID_CANDIDATE_CTE: the parcels whose geometry, repaired if need be,
\* may be given to a geometry function.
HasUsable(p) == geom[p] \in Usable

\* What this transaction sees in parcel.centroid.
PointSeen(p) == IF p \in loader.moved THEN loader.point[p] ELSE centroid[p]

\* The WHERE of the UPDATE: no point, or one outside the geometry.
NeedsPoint(p) ==
    HasUsable(p) /\ (centroid[p] = None \/ centroid[p] \notin Interior[geom[p]])

\* The residual SELECT, where `pt` is the point after the UPDATE.
NotInterior(p, pt) == ~HasUsable(p) \/ pt = None \/ pt \notin Interior[geom[p]]

Class(district, verbatim, reason) ==
    [district |-> district, verbatim |-> verbatim, reason |-> reason]

\* Mutant: candidate rows are counted, not the values they carry.
ClassifyByRows(rows) ==
    LET named == {c \in rows : c.zoning # Blank}
    IN  IF named = {} THEN Class(None, None, "no_district")
        ELSE IF Cardinality(rows) > 1 THEN Class(None, None, "many_districts")
        ELSE LET c == CHOOSE c \in named : TRUE IN Class(c.zoning, c.verbatim, None)

\* Mutant: the polygons that agree on ZONING are taken to agree on ZONINGABBREV.
ClassifyPickVerbatim(rows) ==
    LET values == {c.zoning : c \in rows} \ {Blank}
        zoning == CHOOSE z \in values : TRUE
        verbatims == {c.verbatim : c \in {c \in rows : c.zoning = zoning}}
    IN  CASE values = {} -> Class(None, None, "no_district")
          [] Cardinality(values) > 1 -> Class(None, None, "many_districts")
          [] OTHER -> Class(zoning, CHOOSE v \in verbatims : TRUE,
                            IF Cardinality(rows) > 1 THEN "polygons_agree" ELSE None)

(***************************************************************************)
(* classify_zoning_candidates: the distinct non-blank ZONING values decide;*)
(* polygons that agree on it but not on ZONINGABBREV leave the verbatim    *)
(* text open, and several polygons are an anomaly whatever they say.       *)
(***************************************************************************)
Classify(rows) ==
    LET values == {c.zoning : c \in rows} \ {Blank}
        zoning == CHOOSE z \in values : TRUE
        verbatims == {c.verbatim : c \in {c \in rows : c.zoning = zoning}}
    IN  CASE values = {} -> Class(None, None, "no_district")
          [] Cardinality(values) > 1 -> Class(None, None, "many_districts")
          [] OTHER -> Class(zoning,
                            IF Cardinality(verbatims) = 1
                            THEN CHOOSE v \in verbatims : TRUE ELSE None,
                            IF Cardinality(rows) > 1 THEN "polygons_agree" ELSE None)

-----------------------------------------------------------------------------
\* The geometry parcel p may get from a parcels run; phase_e forgets the point.
\* A parcel whose centroid the load has written is locked.
MoveParcel(p, g) ==
    /\ moves < MaxMoves /\ g # geom[p]
    /\ p \notin loader.moved
    /\ moves' = moves + 1
    /\ geom' = [geom EXCEPT ![p] = g]
    /\ centroid' = [centroid EXCEPT ![p] = None]
    /\ loader' = [loader EXCEPT !.calm = FALSE]
    /\ settled' = None
    /\ UNCHANGED <<facts, exceptions, job, loads>>

\* ACTION Begin: start_job_run, committed at once, and the staging table.
Begin(x) ==
    /\ At("idle") /\ loads < MaxLoads
    /\ loads' = loads + 1
    /\ job' = [job EXCEPT ![loads + 1] = "running"]
    /\ loader' = [NoLoad EXCEPT !.pc = "staged", !.snap = x]
    /\ UNCHANGED <<geom, centroid, facts, exceptions, moves, settled>>

\* ACTION Populate: the UPDATE of populate_interior_centroids.
Populate ==
    LET moved == {p \in Located : NeedsPoint(p)}
        point == [p \in Parcels |-> IF p \in moved THEN PointOf[geom[p]] ELSE None]
    IN
    /\ At("staged")
    /\ loader' = [loader EXCEPT !.pc = "populated", !.moved = moved, !.point = point]
    /\ UNCHANGED <<geom, centroid, facts, exceptions, job, loads, moves, settled>>

\* ACTION Residual: its SELECT of the points that are not interior, and the open
\* exceptions of the centroid detector, which no other program writes.
Residual ==
    /\ At("populated")
    /\ loader' = [loader EXCEPT !.pc = "pointed",
                      !.bad = {p \in Located : NotInterior(p, PointSeen(p))},
                      !.openBad = {e.parcel : e \in Open("centroid")}]
    /\ UNCHANGED <<geom, centroid, facts, exceptions, job, loads, moves, settled>>

\* ACTION Join: the spatial join, without the parcels whose point is not interior.
Join ==
    /\ At("pointed")
    /\ loader' = [loader EXCEPT !.pc = "joined",
                      !.near = [p \in Parcels |->
                          IF PointSeen(p) # None /\ p \notin loader.bad
                          THEN Candidates[loader.snap][PointSeen(p)] ELSE {}]]
    /\ UNCHANGED <<geom, centroid, facts, exceptions, job, loads, moves, settled>>

\* ACTION Scope: all_parcel_ids, every parcel that has a point now.
Scope ==
    /\ At("joined")
    /\ loader' = [loader EXCEPT !.pc = "scoped",
                      !.scope = {p \in Parcels : PointSeen(p) # None}]
    /\ UNCHANGED <<geom, centroid, facts, exceptions, job, loads, moves, settled>>

\* Mutant: the diff is taken against a read model that still shows dead facts.
ReadStale ==
    /\ At("scoped")
    /\ loader' = [loader EXCEPT !.pc = "read",
                      !.live = {[f EXCEPT !.live = TRUE] : f \in facts}]
    /\ UNCHANGED <<geom, centroid, facts, exceptions, job, loads, moves, settled>>

\* ACTION ReadLive: the live zoning facts, from `fact`, not from current_fact.
ReadLive ==
    /\ At("scoped")
    /\ loader' = [loader EXCEPT !.pc = "read", !.live = Live]
    /\ UNCHANGED <<geom, centroid, facts, exceptions, job, loads, moves, settled>>

-----------------------------------------------------------------------------
(* The classification and the diff, from what the load has read.           *)

\* A parcel in scope is classified unless its point is known to be outside.
Classified == loader.scope \ loader.bad
ClassOf(p) == Classify(loader.near[p])

\* The value the load finds for a field: None if it did not match the parcel.
FreshValue(p, field) ==
    IF p \in Classified THEN ClassOf(p)[field] ELSE None

LiveOf(p, field) == {f \in loader.live : f.parcel = p /\ f.field = field}

\* The live facts the load supersedes: another value, or none.
Superseded(p, field) == {f \in LiveOf(p, field) : FreshValue(p, field) # f.val}

\* Mutant: the successor does not name the fact it supersedes.
WrittenUnlinked(r, p, field) ==
    LET v == FreshValue(p, field)
    IN  IF v = None \/ \E f \in LiveOf(p, field) : f.val = v THEN {}
        ELSE {[run |-> r, parcel |-> p, field |-> field, val |-> v,
               sup |-> None, live |-> TRUE]}

\* The facts it writes: a key with no live fact is opened, another value
\* supersedes, the same value is left alone.
Written(r, p, field) ==
    LET v == FreshValue(p, field)
        old == LiveOf(p, field)
        Fact(sup) == [run |-> r, parcel |-> p, field |-> field, val |-> v,
                      sup |-> sup, live |-> TRUE]
    IN  IF v = None \/ \E f \in old : f.val = v THEN {}
        ELSE IF old = {} THEN {Fact(None)} ELSE {Fact(f.run) : f \in old}

\* Mutant: a parcel in no district is not a finding.
AmbiguousOnly ==
    {<<p, ClassOf(p).reason>> :
        p \in {q \in Classified : ClassOf(q).reason \in {"many_districts", "polygons_agree"}}}

\* still_true_pairs of the join detector.
StillTrue == {<<p, ClassOf(p).reason>> : p \in {q \in Classified : ClassOf(q).reason # None}}

\* Mutant: closure by exclusion closes a still open finding of another parcel.
CloseOthers(det, pairs, r, table) ==
    {IF e.det = det /\ e.closed = 0 /\ <<e.parcel, e.reason>> \notin pairs \ OpenPairs(det)
     THEN [e EXCEPT !.closed = r] ELSE e : e \in table}

\* close_resolved_exceptions: every open row of the detector that is not still
\* true is closed, whichever run raised it.
CloseResolved(det, pairs, r, table) ==
    {IF e.det = det /\ e.closed = 0 /\ <<e.parcel, e.reason>> \notin pairs
     THEN [e EXCEPT !.closed = r] ELSE e : e \in table}

\* insert_exceptions, one row for each pair.
Raised(det, pairs, r) ==
    {[run |-> r, parcel |-> x[1], det |-> det, reason |-> x[2], closed |-> 0,
      from |-> None] : x \in pairs}

\* Mutant: a reopened row is linked to the oldest closed row of its key.
RelinkOldest(det, table) ==
    LET closed(e) == {c \in table : c.det = det /\ c.closed # 0 /\ c.parcel = e.parcel
                                    /\ c.reason = e.reason}
        first(e) == CHOOSE c \in closed(e) : \A d \in closed(e) : c.closed <= d.closed
    IN  {IF e.det = det /\ e.closed = 0 /\ e.from = None /\ closed(e) # {}
         THEN [e EXCEPT !.from = first(e).run] ELSE e : e \in table}

\* relink_reopened_exceptions: an open row with no link is linked to the row of
\* its key that was resolved last.
Relink(det, table) ==
    LET closed(e) == {c \in table : c.det = det /\ c.closed # 0 /\ c.parcel = e.parcel
                                    /\ c.reason = e.reason}
        last(e) == CHOOSE c \in closed(e) : \A d \in closed(e) : d.closed <= c.closed
    IN  {IF e.det = det /\ e.closed = 0 /\ e.from = None /\ closed(e) # {}
         THEN [e EXCEPT !.from = last(e).run] ELSE e : e \in table}

(***************************************************************************)
(* ACTION Commit: the centroids, the centroid detector's exceptions (raised*)
(* before the others are closed, and never relinked), the facts, superseded*)
(* before their successors, and the join detector's exceptions, closed     *)
(* before the new ones are raised; then the job_run.                       *)
(***************************************************************************)
Commit ==
    LET keys == loader.scope \X Fields
        dead == UNION {Superseded(k[1], k[2]) : k \in keys}
        born == UNION {Written(loads, k[1], k[2]) : k \in keys}
        bad == {<<p, "not_interior">> : p \in loader.bad}
        badNew == {<<p, "not_interior">> : p \in loader.bad \ loader.openBad}
        joinNew == StillTrue \ OpenPairs("join")
        table1 == CloseResolved("centroid", bad, loads,
                                exceptions \cup Raised("centroid", badNew, loads))
        table2 == CloseResolved("join", StillTrue, loads, table1)
                      \cup Raised("join", joinNew, loads)
    IN
    /\ At("read")
    /\ centroid' = [p \in Parcels |-> PointSeen(p)]
    /\ facts' = {IF f \in dead THEN [f EXCEPT !.live = FALSE] ELSE f : f \in facts} \cup born
    /\ exceptions' = IF joinNew = {} THEN table2 ELSE Relink("join", table2)
    /\ job' = [job EXCEPT ![loads] = "succeeded"]
    /\ loader' = NoLoad
    /\ settled' = IF loader.calm THEN loader.snap ELSE None
    /\ UNCHANGED <<geom, loads, moves>>

\* ACTION Fail: an exception rolls everything back and is recorded.
Fail ==
    /\ ~At("idle")
    /\ job' = [job EXCEPT ![loads] = "failed"]
    /\ loader' = NoLoad
    /\ UNCHANGED <<geom, centroid, facts, exceptions, loads, moves, settled>>

\* ACTION Crash: the process dies; the database rolls back, the job_run stays.
Crash ==
    /\ ~At("idle")
    /\ loader' = NoLoad
    /\ UNCHANGED <<geom, centroid, facts, exceptions, job, loads, moves, settled>>

Next ==
    \/ \E p \in Parcels, g \in Geoms : MoveParcel(p, g)
    \/ \E x \in Snapshots : Begin(x)
    \/ Populate
    \/ Residual
    \/ Join
    \/ Scope
    \/ ReadLive
    \/ Commit
    \/ Fail
    \/ Crash

Spec == Init /\ [][Next]_vars

-----------------------------------------------------------------------------
(* Properties.                                                             *)

\* The shape of the tables and of what the load holds.
TypeOK ==
    /\ geom \in [Parcels -> Geoms \cup {None}]
    /\ centroid \in [Parcels -> Points \cup {None}]
    /\ \A f \in facts : f \in Facts
    /\ \A e \in exceptions : e \in Exceptions
    /\ loads \in 0..MaxLoads
    /\ job \in [1..MaxLoads -> {"none", "running", "succeeded", "failed"}]
    /\ loader.pc \in {"idle", "staged", "populated", "pointed", "joined", "scoped", "read"}
    /\ loader.moved \cup loader.bad \cup loader.openBad \cup loader.scope \subseteq Parcels
    /\ loader.live \subseteq facts
    /\ moves \in 0..MaxMoves
    /\ settled \in Snapshots \cup {None}

ValueOf(p, field) == {f.val : f \in {f \in Live : f.parcel = p /\ f.field = field}}

\* A parcel whose point is inside its geometry.
Pointed(p) == HasUsable(p) /\ centroid[p] # None /\ centroid[p] \in Interior[geom[p]]

Named(rows) == {c.zoning : c \in rows} \ {Blank}

\* The ledger says of a parcel what all the polygons around its point say: a
\* district if they name one, a verbatim text if those that name it agree.
SaysPolygons(p, rows) ==
    LET one == Cardinality(Named(rows)) = 1
    IN  /\ ValueOf(p, "district") = IF one THEN Named(rows) ELSE {}
        /\ ValueOf(p, "verbatim") =
               {v \in Zonings \cup {Blank} :
                    one /\ \A c \in rows : c.zoning # Blank => c.verbatim = v}

\* The findings of the join that are true of the polygons around a point.
Findings(rows) ==
    {r \in Reasons :
        \/ r = "no_district" /\ Named(rows) = {}
        \/ r = "many_districts" /\ Cardinality(Named(rows)) > 1
        \/ r = "polygons_agree" /\ Cardinality(Named(rows)) = 1 /\ Cardinality(rows) > 1}

(***************************************************************************)
(* A load no parcels run disturbs leaves the ledger exact, whatever it     *)
(* found there: every parcel with a polygon that can be used is given an   *)
(* interior point if one was derived, and its live facts are those of the  *)
(* polygons around that point (C1, P5: reconciliation, not blind insert).  *)
(***************************************************************************)
LedgerExact ==
    settled # None =>
        \A p \in Located :
            /\ HasUsable(p) /\ PointOf[geom[p]] \in Interior[geom[p]] => Pointed(p)
            /\ Pointed(p) => SaysPolygons(p, Candidates[settled][centroid[p]])

\* After such a load the open exceptions are exactly the findings that are
\* true: those of the centroid detector and those of the join.
ExceptionsExact ==
    settled # None =>
        /\ OpenPairs("centroid") =
               {<<p, "not_interior">> : p \in {q \in Located : ~Pointed(q)}}
        /\ OpenPairs("join") =
               {x \in Parcels \X Reasons :
                    Pointed(x[1]) /\ x[2] \in Findings(Candidates[settled][centroid[x[1]]])}

\* A district never dies without a successor unless an open exception of the
\* parcel says why, whichever parcels run commits during the load.
RetirementExplained ==
    [][\A p \in Parcels :
          (\E f \in Live : f.parcel = p /\ f.field = "district")
          /\ ~(\E f \in Live' : f.parcel = p /\ f.field = "district")
          => \E e \in exceptions' : e.parcel = p /\ e.closed = 0]_vars

\* A row that reopens a finding of the join names the closed row of its parcel
\* and reason that was resolved last before it was raised.
ReopenedFromLast ==
    \A e \in exceptions : e.det = "join" =>
        LET before == {c \in exceptions : c.det = "join" /\ c.parcel = e.parcel
                           /\ c.reason = e.reason /\ c.closed # 0 /\ c.closed < e.run}
        IN  IF before = {} THEN e.from = None
            ELSE \E c \in before : e.from = c.run
                     /\ \A d \in before : d.closed <= c.closed

Keys == Parcels \X Fields
OfKey(k) == {f \in facts : f.parcel = k[1] /\ f.field = k[2]}

\* Versions of a key are numbered by the run that wrote them, from 1.
Version(f) == f.run + 1
LiveVersion ==
    [k \in Keys |-> IF \E f \in OfKey(k) : f.live
                    THEN Version(CHOOSE f \in OfKey(k) : f.live) ELSE 0]
DeadVersions == [k \in Keys |-> {Version(f) : f \in {f \in OfKey(k) : ~f.live}}]
Links ==
    [k \in Keys |-> {<<IF f.sup = None THEN 0 ELSE f.sup + 1, Version(f)>> : f \in OfKey(k)}]

Timeline == INSTANCE FieldTimeline
                WITH live <- LiveVersion, dead <- DeadVersions, link <- Links

\* The zoning facts of each parcel and field are a timeline: one live version
\* at most, dead ones that stay, and links from each version to the next.
IsTimeline == [][Timeline!Next]_<<facts>>

\* The comment at ingest_zoning_permits.py:964 (A-N2): a live fact of a parcel
\* whose point is known not to be interior is superseded by the load.
BadPointHasNoFact ==
    settled # None =>
        \A p \in Located : ~Pointed(p) => ValueOf(p, "district") = {}
=============================================================================
