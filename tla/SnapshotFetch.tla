--------------------------- MODULE SnapshotFetch ---------------------------
(***************************************************************************)
(* phase_b of scripts/ingest_parcels.py and of ingest_zoning_permits.py,   *)
(* which carry the same functions: each process fetches its source twice,  *)
(* and each fetch stores the bytes in the object store under their hash,   *)
(* inserts the snapshot row that names them and settles its job_run.       *)
(*                                                                         *)
(* Nothing excludes two processes, so every statement that commits, every  *)
(* request to the object store and every write of the local file is a step *)
(* of its own.  The local file has a fixed name: Path says which processes *)
(* share a disk.  A content stands for its hash, so the object key and the *)
(* snapshot id are the content itself; the object key, unlike the id, does *)
(* not name the source.                                                    *)
(*                                                                         *)
(* A process may also run scripts/check_liveness.py, which asks each       *)
(* active source of the pack for the first bytes of its answer and writes  *)
(* job_runs of the same table, but no snapshot.                            *)
(***************************************************************************)
EXTENDS Naturals, FiniteSets

CONSTANTS
    Fetchers,   \* processes running phase_b
    Sources,    \* data sources
    SourceOf,   \* the source each process fetches
    Bodies,     \* contents a source may answer with
    Owned,      \* the sources the pack of each process owes a probe
    Checked,    \* those it has an endpoint and field checks for
    Torn,       \* bytes that are no whole answer
    Files,      \* local files
    Path,       \* the file of a process' first and second fetch
    MaxRuns,    \* bound on the job_runs of a behaviour
    MaxFaults,  \* bound on crashes and on requests that raise
    None        \* SQL NULL, or no object

ASSUME FetchAssumption ==
    /\ SourceOf \in [Fetchers -> Sources]
    /\ Path \in [Fetchers -> [{1, 2} -> Files]]
    /\ Owned \in [Fetchers -> SUBSET Sources] /\ Checked \subseteq Sources
    /\ IsFiniteSet(Sources)
    /\ Torn \notin Bodies /\ None \notin Bodies \cup {Torn}
    /\ None \notin Sources \X Bodies /\ None \notin [by : 1..MaxRuns, ok : BOOLEAN]
    /\ Fetchers \cap (Bodies \cup {Torn}) = {}
    /\ MaxRuns \in Nat /\ MaxFaults \in Nat

VARIABLES
    job,      \* the job_run rows, by start order
    started,  \* how many job_runs have been started
    row,      \* the snapshot rows: for each source and content, what the row says
    object,   \* the object store, by key
    scratch,  \* the local files; a file being written holds its writer
    fetcher,  \* the state of each process
    lost,     \* history: the job_runs whose process died
    faults    \* how many faults so far

vars == <<job, started, row, object, scratch, fetcher, lost, faults>>

Runs == 1..MaxRuns
SnapshotIds == Sources \X Bodies

JobRows == [status : {"none", "running", "succeeded", "failed",
                      "skipped_unchanged"},
            snap : SnapshotIds \cup {None}]

\* The columns of a snapshot row a property needs: who inserted it, and
\* whether the answer was 2xx (http_status).
SnapshotRows == [by : Runs, ok : BOOLEAN]

\* `n` is 1 or 2, the fetch the process is at; `won` is `inserted`; `runs` are
\* the job_runs of this execution; `left` are the sources still to be probed;
\* `exit` is how the last execution ended, "zero" for phase_b and "alive" for
\* check_liveness.py having exited with 0.
Processes == [pc : {"idle", "between", "started", "receiving", "fetched",
                    "absent", "uploaded", "verified", "settling", "raised",
                    "probe", "probing"},
              n : {1, 2}, run : Runs \cup {0}, body : Bodies \cup {None},
              ok : BOOLEAN, won : BOOLEAN, allOk : BOOLEAN,
              runs : SUBSET Runs, left : SUBSET Sources,
              exit : {"none", "zero", "alive", "error"}]

Idle(exit, runs) ==
    [pc |-> "idle", n |-> 1, run |-> 0, body |-> None, ok |-> FALSE,
     won |-> FALSE, allOk |-> TRUE, runs |-> runs, left |-> {}, exit |-> exit]

Init ==
    /\ job = [r \in Runs |-> [status |-> "none", snap |-> None]]
    /\ started = 0
    /\ row = [x \in SnapshotIds |-> None]
    /\ object = [b \in Bodies |-> None]
    /\ scratch = [f \in Files |-> None]
    /\ fetcher = [p \in Fetchers |-> Idle("none", {})]
    /\ lost = {}
    /\ faults = 0

-----------------------------------------------------------------------------
(* Helpers.                                                                *)

At(p, pc) == fetcher[p].pc = pc
Id(p) == <<SourceOf[p], fetcher[p].body>>
FileOf(p) == Path[p][fetcher[p].n]
Goto(p, pc) == fetcher' = [fetcher EXCEPT ![p].pc = pc]

\* snapshot_exists: what is committed when the SELECT runs.
Exists(x) == row[x] # None

\* fail_job_run: the error is recorded, and no snapshot is named.
FailedRun(r) == job' = [job EXCEPT ![r].status = "failed"]

\* finish_job_run.
FinishedRun(r, status, x) ==
    job' = [job EXCEPT ![r] = [status |-> status, snap |-> x]]

\* Mutant: the status is decided from the earlier SELECT, which both of two
\* racing fetches pass.
OutcomeFromSelect(ok, won) == IF ok THEN "succeeded" ELSE "failed"

\* The terminal status of a fetch that raised nothing.
Outcome(ok, won) ==
    IF ~ok THEN "failed" ELSE IF won THEN "succeeded" ELSE "skipped_unchanged"

\* verified_snapshot_file parses the bytes of a row only if they hash to it.
Readable(x) == object[x[2]] = x[2]

-----------------------------------------------------------------------------
(***************************************************************************)
(* ACTION Start: start_job_run, committed at once.  A process that has     *)
(* ended may be run again.                                                 *)
(***************************************************************************)
Start(p) ==
    /\ At(p, "idle") \/ At(p, "between")
    /\ started < MaxRuns
    /\ started' = started + 1
    /\ job' = [job EXCEPT ![started + 1].status = "running"]
    /\ LET q == IF At(p, "idle") THEN Idle("none", {}) ELSE fetcher[p]
       IN  fetcher' = [fetcher EXCEPT ![p] =
               [q EXCEPT !.pc = "started", !.run = started + 1,
                         !.runs = q.runs \cup {started + 1}]]
    /\ UNCHANGED <<row, object, scratch, lost, faults>>

(***************************************************************************)
(* ACTIONS Open and Receive: fetch_and_hash truncates the file, streams    *)
(* the answer into it and hashes what it received.  No status raises.  Two *)
(* processes writing one file leave a mixture, which may happen to be      *)
(* either's answer.                                                        *)
(***************************************************************************)
Open(p) ==
    /\ At(p, "started")
    /\ LET shared == \E q \in Fetchers \ {p} : At(q, "receiving") /\ FileOf(q) = FileOf(p)
       IN  scratch' = [scratch EXCEPT ![FileOf(p)] = IF shared THEN Torn ELSE p]
    /\ Goto(p, "receiving")
    /\ UNCHANGED <<job, started, row, object, lost, faults>>

Receive(p, b, ok) ==
    /\ At(p, "receiving")
    /\ \E bytes \in IF scratch[FileOf(p)] = p THEN {b} ELSE {b, Torn} :
           scratch' = [scratch EXCEPT ![FileOf(p)] = bytes]
    /\ fetcher' = [fetcher EXCEPT ![p].pc = "fetched", ![p].body = b,
                                  ![p].ok = ok]
    /\ UNCHANGED <<job, started, row, object, lost, faults>>

\* ACTION Look: snapshot_exists decides only whether to upload.
Look(p) ==
    /\ At(p, "fetched")
    /\ fetcher' = [fetcher EXCEPT ![p].won = FALSE,
                       ![p].pc = IF Exists(Id(p)) THEN "settling" ELSE "absent"]
    /\ UNCHANGED <<job, started, row, object, scratch, lost, faults>>

\* Mutant: the row is inserted before the bytes are uploaded and verified.
UploadLast(p) ==
    /\ At(p, "absent")
    /\ row' = IF Exists(Id(p)) THEN row
              ELSE [row EXCEPT ![Id(p)] = [by |-> fetcher[p].run, ok |-> fetcher[p].ok]]
    /\ Goto(p, "uploaded")
    /\ UNCHANGED <<job, started, object, scratch, lost, faults>>

\* ACTION Upload: upload_file puts the local file at the key of the hash,
\* over whatever is there.
Upload(p) ==
    /\ At(p, "absent")
    /\ object' = [object EXCEPT ![fetcher[p].body] =
                     IF scratch[FileOf(p)] \in Bodies THEN scratch[FileOf(p)] ELSE Torn]
    /\ Goto(p, "uploaded")
    /\ UNCHANGED <<job, started, row, scratch, lost, faults>>

\* ACTION Verify: the object is downloaded and hashed; a mismatch raises.
Verify(p) ==
    /\ At(p, "uploaded")
    /\ Goto(p, IF Readable(Id(p)) THEN "verified" ELSE "raised")
    /\ UNCHANGED <<job, started, row, object, scratch, lost, faults>>

\* ACTION Insert: INSERT .. ON CONFLICT DO NOTHING; the row count says who won.
Insert(p) ==
    /\ At(p, "verified")
    /\ row' = IF Exists(Id(p)) THEN row
              ELSE [row EXCEPT ![Id(p)] = [by |-> fetcher[p].run, ok |-> fetcher[p].ok]]
    /\ fetcher' = [fetcher EXCEPT ![p].pc = "settling",
                                  ![p].won = ~Exists(Id(p))]
    /\ UNCHANGED <<job, started, object, scratch, lost, faults>>

\* Mutant: phase_b forgets how the first of its two fetches ended.
SettleLastOnly(p) ==
    LET q == fetcher[p] IN
    /\ At(p, "settling")
    /\ FinishedRun(q.run, Outcome(q.ok, q.won), Id(p))
    /\ fetcher' = [fetcher EXCEPT ![p] =
           IF q.n = 1 THEN [q EXCEPT !.pc = "between", !.n = 2]
           ELSE Idle(IF q.ok THEN "zero" ELSE "error", q.runs)]
    /\ UNCHANGED <<started, row, object, scratch, lost, faults>>

\* Mutant: the loop over the two fetches runs once too often.
SettleAndRepeat(p) ==
    LET q == fetcher[p] IN
    /\ At(p, "settling")
    /\ FinishedRun(q.run, Outcome(q.ok, q.won), Id(p))
    /\ fetcher' = [fetcher EXCEPT ![p] =
           [q EXCEPT !.pc = "between", !.n = q.n + 1, !.allOk = q.allOk /\ q.ok]]
    /\ UNCHANGED <<started, row, object, scratch, lost, faults>>

(***************************************************************************)
(* ACTION Settle: finish_job_run, always naming the snapshot; then the     *)
(* second fetch, or the end of phase_b, an error unless both were 2xx.     *)
(***************************************************************************)
Settle(p) ==
    LET q == fetcher[p]
        allOk == q.allOk /\ q.ok
    IN
    /\ At(p, "settling")
    /\ FinishedRun(q.run, Outcome(q.ok, q.won), Id(p))
    /\ fetcher' = [fetcher EXCEPT ![p] =
           IF q.n = 1 THEN [q EXCEPT !.pc = "between", !.n = 2, !.allOk = allOk]
           ELSE Idle(IF allOk THEN "zero" ELSE "error", q.runs)]
    /\ UNCHANGED <<started, row, object, scratch, lost, faults>>

\* ACTION Raise: a request of the fetch raises: the network, the object store
\* or the database.
Raise(p) ==
    /\ fetcher[p].pc \notin {"idle", "between", "raised", "probe", "probing"}
    /\ faults < MaxFaults
    /\ faults' = faults + 1
    /\ Goto(p, "raised")
    /\ UNCHANGED <<job, started, row, object, scratch, lost>>

\* Mutant: the exception leaves the job_run as it was.
FailSilently(p) ==
    /\ At(p, "raised")
    /\ fetcher' = [fetcher EXCEPT ![p] = Idle("error", fetcher[p].runs)]
    /\ UNCHANGED <<job, started, row, object, scratch, lost, faults>>

\* ACTION Fail: fail_job_run, and the exception ends phase_b.
Fail(p) ==
    /\ At(p, "raised")
    /\ FailedRun(fetcher[p].run)
    /\ fetcher' = [fetcher EXCEPT ![p] = Idle("error", fetcher[p].runs)]
    /\ UNCHANGED <<started, row, object, scratch, lost, faults>>

\* ACTION Crash: the process dies; a job_run it had started stays 'running'.  So
\* ends check_liveness.py too when the database refuses to settle a probe: only
\* the exceptions of the request are caught.
Crash(p) ==
    /\ ~At(p, "idle")
    /\ faults < MaxFaults
    /\ faults' = faults + 1
    /\ lost' = IF At(p, "between") \/ At(p, "probe") THEN lost ELSE lost \cup {fetcher[p].run}
    /\ scratch' = IF At(p, "receiving")
                  THEN [scratch EXCEPT ![FileOf(p)] = Torn] ELSE scratch
    /\ fetcher' = [fetcher EXCEPT ![p] = Idle("error", fetcher[p].runs)]
    /\ UNCHANGED <<job, started, row, object>>

-----------------------------------------------------------------------------
(***************************************************************************)
(* ACTIONS of check_liveness.py: a source it has no checks for is a        *)
(* failure; for the others a job_run is started and the answer, or the     *)
(* exception of the request, settles it with no snapshot.                  *)
(***************************************************************************)
StartProbes(p) ==
    /\ At(p, "idle")
    /\ fetcher' = [fetcher EXCEPT ![p] =
           [Idle("none", {}) EXCEPT !.pc = "probe", !.left = Owned[p]]]
    /\ UNCHANGED <<job, started, row, object, scratch, lost, faults>>

Unchecked(p, s) ==
    /\ At(p, "probe") /\ s \in fetcher[p].left \ Checked
    /\ fetcher' = [fetcher EXCEPT ![p].left = fetcher[p].left \ {s},
                                  ![p].allOk = FALSE]
    /\ UNCHANGED <<job, started, row, object, scratch, lost, faults>>

Probe(p, s) ==
    /\ At(p, "probe") /\ s \in fetcher[p].left \cap Checked
    /\ started < MaxRuns
    /\ started' = started + 1
    /\ job' = [job EXCEPT ![started + 1].status = "running"]
    /\ fetcher' = [fetcher EXCEPT ![p] =
           [fetcher[p] EXCEPT !.pc = "probing", !.run = started + 1,
                              !.left = fetcher[p].left \ {s},
                              !.runs = fetcher[p].runs \cup {started + 1}]]
    /\ UNCHANGED <<row, object, scratch, lost, faults>>

\* Mutant: a source that does not answer well is not counted as a failure.
AnswerNotCounted(p, good) ==
    /\ At(p, "probing")
    /\ FinishedRun(fetcher[p].run, IF good THEN "succeeded" ELSE "failed", None)
    /\ Goto(p, "probe")
    /\ UNCHANGED <<started, row, object, scratch, lost, faults>>

Answered(p, good) ==
    /\ At(p, "probing")
    /\ FinishedRun(fetcher[p].run, IF good THEN "succeeded" ELSE "failed", None)
    /\ fetcher' = [fetcher EXCEPT ![p].pc = "probe",
                                  ![p].allOk = fetcher[p].allOk /\ good]
    /\ UNCHANGED <<started, row, object, scratch, lost, faults>>

\* Nothing probed is a failure too.
EndProbes(p) ==
    /\ At(p, "probe") /\ fetcher[p].left = {}
    /\ fetcher' = [fetcher EXCEPT ![p] =
           Idle(IF fetcher[p].allOk /\ Owned[p] # {} THEN "alive" ELSE "error",
                fetcher[p].runs)]
    /\ UNCHANGED <<job, started, row, object, scratch, lost, faults>>

-----------------------------------------------------------------------------
\* What a process does once its fetch has begun; requests.get has a timeout,
\* so an answer or an exception always comes.
Proceed(p) ==
    \/ Open(p)
    \/ \E b \in Bodies, ok \in BOOLEAN : Receive(p, b, ok)
    \/ Look(p)
    \/ Upload(p)
    \/ Verify(p)
    \/ Insert(p)
    \/ Settle(p)
    \/ Fail(p)
    \/ \E s \in Sources : Unchecked(p, s) \/ Probe(p, s)
    \/ \E good \in BOOLEAN : Answered(p, good)
    \/ EndProbes(p)

Next ==
    \E p \in Fetchers : Start(p) \/ StartProbes(p) \/ Proceed(p) \/ Raise(p) \/ Crash(p)

Spec == Init /\ [][Next]_vars

\* A live process is scheduled; nobody owes the system a new fetch.
FairSpec == Spec /\ \A p \in Fetchers : WF_vars(Proceed(p))

-----------------------------------------------------------------------------
(* Properties.                                                             *)

\* The shape of the state: the columns of job_run and snapshot and the local
\* variables of run_one_fetch.
TypeOK ==
    /\ job \in [Runs -> JobRows]
    /\ started \in 0..MaxRuns
    /\ row \in [SnapshotIds -> SnapshotRows \cup {None}]
    /\ object \in [Bodies -> Bodies \cup {Torn, None}]
    /\ scratch \in [Files -> Bodies \cup {Torn, None} \cup Fetchers]
    /\ fetcher \in [Fetchers -> Processes]
    /\ lost \subseteq Runs
    /\ faults \in 0..MaxFaults

Succeeded(x) == {r \in Runs : job[r].status = "succeeded" /\ job[r].snap = x}

\* A run reported as succeeded brought its snapshot in: the row exists, that
\* very run inserted it, and it says the answer was 2xx.  So of two fetches
\* of the same new bytes only one is credited (README finding #10).
CreditEarned ==
    \A x \in SnapshotIds : \A r \in Succeeded(x) :
        row[x] # None /\ row[x].by = r /\ row[x].ok

\* phase_b exits with 0 only if both of its runs were answered 2xx and settled
\* on a recorded snapshot (P45 Fix 2); check_liveness.py does only if every
\* source it owes a probe was probed and answered well, and there is one (C21.1).
ExitIsHonest ==
    \A p \in Fetchers : fetcher[p].pc = "idle" =>
        /\ fetcher[p].exit = "zero" =>
              /\ Cardinality(fetcher[p].runs) = 2
              /\ \A r \in fetcher[p].runs :
                     /\ job[r].status \in {"succeeded", "skipped_unchanged"}
                     /\ Exists(job[r].snap)
        /\ fetcher[p].exit = "alive" =>
              /\ Owned[p] # {} /\ Cardinality(fetcher[p].runs) = Cardinality(Owned[p])
              /\ \A r \in fetcher[p].runs : job[r].status = "succeeded"

\* The bytes a snapshot row names are in the object store, under their hash,
\* whichever fetches race, raise or die (upload_and_verify comes before
\* insert_snapshot).
RowsHaveBytes == \A x \in SnapshotIds : Exists(x) => Readable(x)

\* A job_run whose process is not killed reaches a terminal status, through
\* finish_job_run or fail_job_run.
EveryRunEnds ==
    \A r \in Runs :
        (job[r].status = "running") ~> (job[r].status # "running" \/ r \in lost)

\* The snapshot table and the succeeded job_runs are a SnapshotLog.
Log == INSTANCE SnapshotLog WITH
           Contents <- SnapshotIds, Workers <- Runs,
           recorded <- {x \in SnapshotIds : Exists(x)},
           credited <- [x \in SnapshotIds |-> Succeeded(x)]

\* Every step of the two fetches is a step of the log or leaves it alone: a
\* recorded content stays recorded and is credited at most once, whatever
\* the interleaving of SELECT, INSERT and UPDATE.
IsSnapshotLog == Log!Spec
=============================================================================
