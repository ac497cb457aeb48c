--------------------------- MODULE GeometryFlags ---------------------------
(***************************************************************************)
(* scripts/flag_invalid_geometry.py: one process runs flag_parcel_geometry *)
(* and then, unless told not to, flag_zoning_source_geometry for one       *)
(* verified zoning snapshot.  Each is one transaction under its own        *)
(* job_run; their SELECTs are steps, because the parcels and zoning loads  *)
(* change parcel.geom and parcel.centroid meanwhile, and because two       *)
(* processes may run.  The unique index on open exceptions is what two     *)
(* writers of the same row meet.                                           *)
(***************************************************************************)
EXTENDS Naturals, FiniteSets

CONSTANTS
    Workers,    \* processes running the script
    Parcels,    \* parcels
    Geoms,      \* parcel geometries
    ReasonOf,   \* what ST_IsValidReason says of a geometry, None if it is valid
    Points,     \* interior points
    PointOf,    \* the point the zoning load gives a geometry, None if it cannot
    Snapshots,  \* zoning snapshots
    Torn,       \* the snapshots whose stored bytes do not hash to their id
    Invalid,    \* the invalid polygons of a snapshot
    Around,     \* the points inside an invalid polygon once repaired
    InitGeom,   \* the geometry of each parcel before the behaviour
    MaxRuns,    \* bound on the job_runs of a behaviour
    MaxMoves,   \* bound on the geometry changes of a behaviour
    MaxFaults,  \* bound on crashes and unexplained exceptions
    None        \* SQL NULL

ASSUME FlagAssumption ==
    /\ Torn \subseteq Snapshots
    /\ DOMAIN Invalid = Snapshots
    /\ \A x \in Snapshots : \A z \in Invalid[x] : Around[z] \subseteq Points
    /\ InitGeom \in [Parcels -> Geoms]
    /\ \A g \in Geoms : PointOf[g] \in Points \cup {None}
    /\ "parcel" \notin Snapshots
ASSUME BoundsAssumption == {MaxRuns, MaxMoves, MaxFaults} \subseteq Nat

VARIABLES
    geom,        \* parcel.geom
    centroid,    \* parcel.centroid
    exceptions,  \* the exceptions of both detectors
    job,         \* the status of the job_runs, by start order
    runs,        \* how many job_runs have started
    worker,      \* the state of each process
    lost,        \* history: the job_runs whose process was killed
    refused,     \* history: the job_runs whose snapshot could not be verified
    moves,       \* how many geometry changes
    faults,      \* how many faults
    settled      \* history: the detectors that have run undisturbed since the
                 \* last change

tables == <<geom, centroid, exceptions>>
vars == <<geom, centroid, exceptions, job, runs, worker, lost, refused, moves,
          faults, settled>>

Detectors == {"parcel", "zoning"}
Reasons == {ReasonOf[g] : g \in Geoms} \ {None}

\* parcel_exception: `reason` is detail->>'reason', which the zoning detector
\* does not write; `by` is the invalid polygon it does write.
Exceptions == [run : Nat, parcel : Parcels, det : Detectors,
               reason : Reasons \cup {None}, by : (UNION {Invalid[x] : x \in Snapshots}) \cup {None},
               open : BOOLEAN]

Idle == [pc |-> "idle", run |-> 0, snap |-> None, found |-> {}, open |-> {},
         calm |-> TRUE]

Init ==
    /\ geom = InitGeom
    /\ centroid = [p \in Parcels |-> None]
    /\ exceptions = {}
    /\ job = [r \in 1..MaxRuns |-> "none"]
    /\ runs = 0
    /\ worker = [w \in Workers |-> Idle]
    /\ lost = {} /\ refused = {}
    /\ moves = 0 /\ faults = 0
    /\ settled = {}

-----------------------------------------------------------------------------
(* Helpers.                                                                *)

At(w, pc) == worker[w].pc = pc

\* Mutant: open rows are looked for by their reason, as load_zoning does; a row of
\* the zoning detector has none, and is never found.
OpenByReason(det) ==
    {e.parcel : e \in {e \in exceptions : e.det = det /\ e.open /\ e.reason # None}}

\* existing_open_parcels: the parcels with an open row, whatever its reason.
OpenParcels(det) ==
    {e.parcel : e \in {e \in exceptions : e.det = det /\ e.open}}

\* Every other process learns, for the history, that a table has changed.
Disturb(w, q) ==
    worker' = [v \in Workers |->
        IF v = w THEN q ELSE [worker[v] EXCEPT !.calm = FALSE]]

Step(w, q) == worker' = [worker EXCEPT ![w] = q]

\* start_job_run, committed at once.
StartRun(w, pc, x) ==
    /\ runs < MaxRuns
    /\ runs' = runs + 1
    /\ job' = [job EXCEPT ![runs + 1] = "running"]
    /\ Step(w, [Idle EXCEPT !.pc = pc, !.run = runs + 1, !.snap = x])
    /\ UNCHANGED <<tables, lost, refused, moves, faults, settled>>

\* Mutant: the process ends and the job_run stays as it was.
EndSilently(w) == UNCHANGED job /\ Step(w, Idle)

\* Mutant: the exception is recorded and not raised again.
Swallow(w) ==
    /\ job' = [job EXCEPT ![worker[w].run] = "failed"]
    /\ UNCHANGED worker

\* fail_job_run, and the exception ends the process.
EndFailed(w) ==
    /\ job' = [job EXCEPT ![worker[w].run] = "failed"]
    /\ Step(w, Idle)

\* Mutant: the index before 0045 was coalesced, under which rows without a
\* reason never clash.
ClashIfReason(rows, table) ==
    \E e \in rows : \E f \in (rows \cup table) \ {e} :
        /\ e.open /\ f.open /\ e.reason # None
        /\ <<e.parcel, e.det, e.reason>> = <<f.parcel, f.det, f.reason>>

\* parcel_exception_one_open_per_detector_reason_coalesced.
Clash(rows, table) ==
    \E e \in rows : \E f \in (rows \cup table) \ {e} :
        /\ e.open /\ f.open
        /\ <<e.parcel, e.det, e.reason>> = <<f.parcel, f.det, f.reason>>

-----------------------------------------------------------------------------
(* The other programs.                                                     *)

\* A parcels run gives a parcel another geometry and forgets its point.
MoveParcel(p, g) ==
    /\ moves < MaxMoves /\ g # geom[p]
    /\ moves' = moves + 1
    /\ geom' = [geom EXCEPT ![p] = g]
    /\ centroid' = [centroid EXCEPT ![p] = None]
    /\ worker' = [w \in Workers |-> [worker[w] EXCEPT !.calm = FALSE]]
    /\ settled' = {}
    /\ UNCHANGED <<exceptions, job, runs, lost, refused, faults>>

\* A zoning load gives a parcel its point.
PointParcel(p) ==
    /\ centroid[p] = None /\ PointOf[geom[p]] # None
    /\ centroid' = [centroid EXCEPT ![p] = PointOf[geom[p]]]
    /\ worker' = [w \in Workers |-> [worker[w] EXCEPT !.calm = FALSE]]
    /\ settled' = {}
    /\ UNCHANGED <<geom, exceptions, job, runs, lost, refused, moves, faults>>

-----------------------------------------------------------------------------
(* flag_parcel_geometry.                                                   *)

StartParcels(w) == At(w, "idle") /\ StartRun(w, "parcels", None)

\* ACTION ReadInvalid: the parcels whose own geometry is invalid, and why.
ReadInvalid(w) ==
    /\ At(w, "parcels")
    /\ Step(w, [worker[w] EXCEPT !.pc = "invalid",
                    !.found = {<<p, ReasonOf[geom[p]]>> :
                                  p \in {q \in Parcels : ReasonOf[geom[q]] # None}}])
    /\ UNCHANGED <<tables, job, runs, lost, refused, moves, faults, settled>>

\* ACTION ReadOpenParcels.
ReadOpenParcels(w) ==
    /\ At(w, "invalid")
    /\ Step(w, [worker[w] EXCEPT !.pc = "deciding", !.open = OpenParcels("parcel")])
    /\ UNCHANGED <<tables, job, runs, lost, refused, moves, faults, settled>>

\* Mutant: flags are raised and never closed (before C4).
RaiseOnly(w, table) == table

\* close_exceptions_for_parcels: every open row of the parcels found open and
\* no longer found invalid.
CloseCleared(w, table) ==
    LET cleared == worker[w].open \ {x[1] : x \in worker[w].found}
    IN  {IF e.det = "parcel" /\ e.open /\ e.parcel \in cleared
         THEN [e EXCEPT !.open = FALSE] ELSE e : e \in table}

\* ACTION CommitParcels: a parcel with any open row is skipped; then closure.
CommitParcels(w) ==
    LET q == worker[w]
        rows == {[run |-> q.run, parcel |-> x[1], det |-> "parcel",
                  reason |-> x[2], by |-> None, open |-> TRUE] :
                     x \in {y \in q.found : y[1] \notin q.open}}
    IN
    /\ At(w, "deciding")
    /\ IF Clash(rows, exceptions)
       THEN EndFailed(w) /\ UNCHANGED <<exceptions, settled>>
       ELSE /\ exceptions' = CloseCleared(w, exceptions \cup rows)
            /\ job' = [job EXCEPT ![q.run] = "succeeded"]
            /\ Disturb(w, [Idle EXCEPT !.pc = "half"])
            /\ settled' = (settled \ {"parcel"}) \cup (IF q.calm THEN {"parcel"} ELSE {})
    /\ UNCHANGED <<geom, centroid, runs, lost, refused, moves, faults>>

\* --skip-zoning-source: the process ends here.
SkipZoning(w) ==
    /\ At(w, "half")
    /\ Step(w, Idle)
    /\ UNCHANGED <<tables, job, runs, lost, refused, moves, faults, settled>>

-----------------------------------------------------------------------------
(* flag_zoning_source_geometry.                                            *)

StartZoning(w, x) == At(w, "half") /\ StartRun(w, "zoning", x)

(***************************************************************************)
(* ACTION Verify: verified_snapshot_file is called after start_job_run and *)
(* before the try block.  When it raises, nobody settles the job_run: the  *)
(* bytes do not hash to the snapshot's id (Verify), or there is no such    *)
(* snapshot, no object, no answer of the object store (Unread).            *)
(***************************************************************************)
Verify(w) ==
    /\ At(w, "zoning")
    /\ IF worker[w].snap \in Torn
       THEN Step(w, Idle) /\ refused' = refused \cup {worker[w].run}
       ELSE Step(w, [worker[w] EXCEPT !.pc = "verified"]) /\ UNCHANGED refused
    /\ UNCHANGED <<tables, job, runs, lost, moves, faults, settled>>

Unread(w) ==
    /\ At(w, "zoning")
    /\ faults < MaxFaults
    /\ faults' = faults + 1
    /\ refused' = refused \cup {worker[w].run}
    /\ Step(w, Idle)
    /\ UNCHANGED <<tables, job, runs, lost, moves, settled>>

\* ACTION ReadAffected: which parcels each invalid polygon, repaired, contains;
\* a parcel without a point is in none.
ReadAffected(w) ==
    /\ At(w, "verified")
    /\ Step(w, [worker[w] EXCEPT !.pc = "affected",
                    !.found = {x \in Parcels \X Invalid[worker[w].snap] :
                                  centroid[x[1]] # None /\ centroid[x[1]] \in Around[x[2]]}])
    /\ UNCHANGED <<tables, job, runs, lost, refused, moves, faults, settled>>

\* Mutant: the open rows of the other detector are read.
ReadOpenOther(w) ==
    /\ At(w, "affected")
    /\ Step(w, [worker[w] EXCEPT !.pc = "writing", !.open = OpenParcels("parcel")])
    /\ UNCHANGED <<tables, job, runs, lost, refused, moves, faults, settled>>

\* ACTION ReadOpenZoning.
ReadOpenZoning(w) ==
    /\ At(w, "affected")
    /\ Step(w, [worker[w] EXCEPT !.pc = "writing", !.open = OpenParcels("zoning")])
    /\ UNCHANGED <<tables, job, runs, lost, refused, moves, faults, settled>>

\* ACTION CommitZoning: one row for each (polygon, parcel) whose parcel has no
\* open row; a parcel in two invalid polygons clashes with itself and takes
\* the whole run with it.  Nothing is closed.
CommitZoning(w) ==
    LET q == worker[w]
        rows == {[run |-> q.run, parcel |-> x[1], det |-> "zoning",
                  reason |-> None, by |-> x[2], open |-> TRUE] :
                     x \in {y \in q.found : y[1] \notin q.open}}
    IN
    /\ At(w, "writing")
    /\ IF Clash(rows, exceptions)
       THEN EndFailed(w) /\ UNCHANGED <<exceptions, settled>>
       ELSE /\ exceptions' = exceptions \cup rows
            /\ job' = [job EXCEPT ![q.run] = "succeeded"]
            /\ Disturb(w, Idle)
            /\ settled' = (settled \ Snapshots) \cup (IF q.calm THEN {q.snap} ELSE {})
    /\ UNCHANGED <<geom, centroid, runs, lost, refused, moves, faults>>

\* ACTION Raise: an exception inside the try block is recorded.
Raise(w) ==
    /\ worker[w].pc \notin {"idle", "half", "zoning"}
    /\ faults < MaxFaults
    /\ faults' = faults + 1
    /\ EndFailed(w)
    /\ UNCHANGED <<tables, runs, lost, refused, moves, settled>>

\* ACTION Crash: the process is killed; its job_run stays 'running'.
Crash(w) ==
    /\ ~At(w, "idle")
    /\ faults < MaxFaults
    /\ faults' = faults + 1
    /\ lost' = lost \cup ({worker[w].run} \ {0})
    /\ Step(w, Idle)
    /\ UNCHANGED <<tables, job, runs, refused, moves, settled>>

\* What a process inside a job_run does next.
Proceed(w) ==
    \/ ReadInvalid(w)
    \/ ReadOpenParcels(w)
    \/ CommitParcels(w)
    \/ Verify(w)
    \/ ReadAffected(w)
    \/ ReadOpenZoning(w)
    \/ CommitZoning(w)

Next ==
    \/ \E p \in Parcels, g \in Geoms : MoveParcel(p, g)
    \/ \E p \in Parcels : PointParcel(p)
    \/ \E w \in Workers : Proceed(w)
    \/ \E w \in Workers : StartParcels(w)
    \/ \E w \in Workers : SkipZoning(w)
    \/ \E w \in Workers, x \in Snapshots : StartZoning(w, x)
    \/ \E w \in Workers : Unread(w)
    \/ \E w \in Workers : Raise(w)
    \/ \E w \in Workers : Crash(w)

Spec == Init /\ [][Next]_vars

\* A live process is scheduled; its statements wait for nothing but the lock
\* of a transaction that ends.
FairSpec == Spec /\ \A w \in Workers : WF_vars(Proceed(w))

-----------------------------------------------------------------------------
(* Properties.                                                             *)

\* The shape of the tables and of what a process holds.
TypeOK ==
    /\ geom \in [Parcels -> Geoms]
    /\ centroid \in [Parcels -> Points \cup {None}]
    /\ \A e \in exceptions : e \in Exceptions
    /\ job \in [1..MaxRuns -> {"none", "running", "succeeded", "failed"}]
    /\ \A w \in Workers : worker[w].run \in 0..runs /\ worker[w].open \subseteq Parcels
    /\ \A w \in Workers : ~At(w, "idle") /\ ~At(w, "half") => job[worker[w].run] = "running"

\* The open rows of a detector, and how many a parcel has.
OpenRows(det, p) == {e \in exceptions : e.det = det /\ e.parcel = p /\ e.open}

\* The docstring of existing_open_parcels, as far as the index keeps it: no
\* parcel has two open rows of the zoning detector, whichever two processes
\* run and however many invalid polygons contain it.
OneZoningFlag == \A p \in Parcels : Cardinality(OpenRows("zoning", p)) <= 1

\* After a parcel pass that nothing disturbed, the flagged parcels are exactly
\* the invalid ones: a repaired polygon loses its flag (C4).
ParcelFlagsExact ==
    "parcel" \in settled =>
        \A p \in Parcels : OpenRows("parcel", p) # {} <=> ReasonOf[geom[p]] # None

\* After a zoning pass that succeeded undisturbed, every parcel whose point lies
\* in a repaired invalid polygon is flagged, whatever earlier passes left open.
ZoningFlagsComplete ==
    \A x \in settled \cap Snapshots : \A p \in Parcels :
        (\E z \in Invalid[x] : centroid[p] # None /\ centroid[p] \in Around[z])
            => OpenRows("zoning", p) # {}

\* A pass that is repeated, by either process and with nothing changed since an
\* undisturbed pass of the same detector (and snapshot), raises nothing, closes
\* nothing, and succeeds: it never meets the index on the rows of the earlier one.
Quiet(w) == UNCHANGED exceptions /\ job'[worker[w].run] = "succeeded"

RepeatIsQuiet ==
    [][\A w \in Workers : worker[w].calm =>
          /\ CommitParcels(w) /\ "parcel" \in settled => Quiet(w)
          /\ CommitZoning(w) /\ worker[w].snap \in settled => Quiet(w)]_vars

\* Every job_run of the script ends, unless its process is killed or its snapshot
\* cannot be read and verified: the failures that the try block does not see.
EveryRunEnds ==
    \A r \in 1..MaxRuns :
        (job[r] = "running") ~> (job[r] # "running" \/ r \in lost \cup refused)
=============================================================================
