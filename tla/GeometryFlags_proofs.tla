------------------------ MODULE GeometryFlags_proofs ------------------------
(***************************************************************************)
(* Theorems of GeometryFlags: what the open rows of the two detectors say   *)
(* of the parcels, whichever processes run them.                            *)
(***************************************************************************)
EXTENDS GeometryFlags, FiniteSetTheorems, TLAPS

-----------------------------------------------------------------------------
(* The inductive invariant.                                                *)

Polygons == UNION {Invalid[x] : x \in Snapshots}
ParcelPass == {"parcels", "invalid", "deciding"}
ZoningPass == {"zoning", "verified", "affected", "writing"}

WorkerType ==
    [pc : {"idle", "half"} \cup ParcelPass \cup ZoningPass, run : 0..MaxRuns,
     snap : Snapshots \cup {None}, found : SUBSET (Parcels \X (Reasons \cup Polygons)),
     open : SUBSET Parcels, calm : BOOLEAN]

InRun(w) == worker[w].pc \in ParcelPass \cup ZoningPass

\* A process in a pass has a running job_run of its own.
RunOf(w) ==
    /\ worker[w].run \in 0..runs
    /\ InRun(w) <=> worker[w].run # 0
    /\ InRun(w) => job[worker[w].run] = "running"

\* What a process has found is what its detector looks for.
FoundOf(w) ==
    /\ worker[w].pc \in {"invalid", "deciding"} => worker[w].found \subseteq Parcels \X Reasons
    /\ worker[w].pc \in ZoningPass => worker[w].snap \in Snapshots
    /\ worker[w].pc \in {"affected", "writing"} =>
           worker[w].found \subseteq Parcels \X Invalid[worker[w].snap]

TypeInv ==
    /\ geom \in [Parcels -> Geoms]
    /\ centroid \in [Parcels -> Points \cup {None}]
    /\ exceptions \subseteq Exceptions
    /\ runs \in 0..MaxRuns
    /\ job \in [1..MaxRuns -> {"none", "running", "succeeded", "failed"}]
    /\ worker \in [Workers -> WorkerType]

WorkersInv ==
    /\ \A w \in Workers : RunOf(w) /\ FoundOf(w)
    /\ \A v, w \in Workers : InRun(v) /\ worker[v].run = worker[w].run => v = w

SameKey(e, f) == e.parcel = f.parcel /\ e.det = f.det /\ e.reason = f.reason

\* The unique index on open exceptions; the zoning detector writes no reason.
IndexInv ==
    /\ \A e, f \in exceptions : e.open /\ f.open /\ SameKey(e, f) => e = f
    /\ \A e \in exceptions : e.det = "zoning" => e.reason = None

\* What an undisturbed process has read is still so.
InvalidNow == {<<p, ReasonOf[geom[p]]>> : p \in {q \in Parcels : ReasonOf[geom[q]] # None}}
AffectedBy(x) ==
    {y \in Parcels \X Invalid[x] : centroid[y[1]] # None /\ centroid[y[1]] \in Around[y[2]]}

CalmOf(w) ==
    worker[w].calm =>
        /\ worker[w].pc \in {"invalid", "deciding"} => worker[w].found = InvalidNow
        /\ worker[w].pc = "deciding" => worker[w].open = OpenParcels("parcel")
        /\ worker[w].pc \in {"affected", "writing"} =>
               worker[w].found = AffectedBy(worker[w].snap)
        /\ worker[w].pc = "writing" => worker[w].open = OpenParcels("zoning")
CalmInv == \A w \in Workers : CalmOf(w)

FlagInv ==
    /\ TypeInv
    /\ WorkersInv
    /\ IndexInv
    /\ CalmInv
    /\ ParcelFlagsExact
    /\ ZoningFlagsComplete

-----------------------------------------------------------------------------
(* The two commits.                                                        *)

\* The rows a pass raises: one for each finding in a parcel without an open one.
ParcelRows(w) ==
    {[run |-> worker[w].run, parcel |-> x[1], det |-> "parcel",
      reason |-> x[2], by |-> None, open |-> TRUE] :
         x \in {y \in worker[w].found : y[1] \notin worker[w].open}}
ZoningRows(w) ==
    {[run |-> worker[w].run, parcel |-> x[1], det |-> "zoning",
      reason |-> None, by |-> x[2], open |-> TRUE] :
         x \in {y \in worker[w].found : y[1] \notin worker[w].open}}

\* The parcels the process found open and no longer finds invalid.
Cleared(w) == worker[w].open \ {x[1] : x \in worker[w].found}
Closed(w, e) ==
    IF e.det = "parcel" /\ e.open /\ e.parcel \in Cleared(w)
    THEN [e EXCEPT !.open = FALSE] ELSE e

LEMMA CommitParcelsIs ==
    ASSUME NEW w \in Workers, CommitParcels(w)
    PROVE  /\ worker[w].pc = "deciding"
           /\ UNCHANGED <<geom, centroid, runs, moves, faults>>
           /\ \/ EndFailed(w) /\ UNCHANGED <<exceptions, settled>>
              \/ /\ ~Clash(ParcelRows(w), exceptions)
                 /\ exceptions' = {Closed(w, e) : e \in exceptions \cup ParcelRows(w)}
                 /\ job' = [job EXCEPT ![worker[w].run] = "succeeded"]
                 /\ Disturb(w, [Idle EXCEPT !.pc = "half"])
                 /\ settled' = (settled \ {"parcel"})
                                   \cup (IF worker[w].calm THEN {"parcel"} ELSE {})
<1>1. CASE Clash(ParcelRows(w), exceptions)
  BY <1>1 DEF CommitParcels, ParcelRows, At
<1>2. CASE ~Clash(ParcelRows(w), exceptions)
  <2>1. \A table : CloseCleared(w, table) = {Closed(w, e) : e \in table}
    BY DEF CloseCleared, Closed, Cleared
  <2>2. exceptions' = CloseCleared(w, exceptions \cup ParcelRows(w))
    BY <1>2 DEF CommitParcels, ParcelRows
  <2>3. exceptions' = {Closed(w, e) : e \in exceptions \cup ParcelRows(w)}
    BY <2>1, <2>2
  <2>4. QED
    BY <1>2, <2>3 DEF CommitParcels, ParcelRows, At
<1>3. QED
  BY <1>1, <1>2

LEMMA CommitZoningIs ==
    ASSUME NEW w \in Workers, CommitZoning(w)
    PROVE  /\ worker[w].pc = "writing"
           /\ UNCHANGED <<geom, centroid, runs, moves, faults>>
           /\ \/ EndFailed(w) /\ UNCHANGED <<exceptions, settled>>
              \/ /\ ~Clash(ZoningRows(w), exceptions)
                 /\ exceptions' = exceptions \cup ZoningRows(w)
                 /\ job' = [job EXCEPT ![worker[w].run] = "succeeded"]
                 /\ Disturb(w, Idle)
                 /\ settled' = (settled \ Snapshots)
                                   \cup (IF worker[w].calm THEN {worker[w].snap} ELSE {})
BY DEF CommitZoning, ZoningRows, At

LEMMA ParcelRowsAre ==
    ASSUME NEW w \in Workers, NEW e \in ParcelRows(w)
    PROVE  \E x \in worker[w].found :
               /\ x[1] \notin worker[w].open
               /\ e = [run |-> worker[w].run, parcel |-> x[1], det |-> "parcel",
                       reason |-> x[2], by |-> None, open |-> TRUE]
BY DEF ParcelRows

LEMMA ZoningRowsAre ==
    ASSUME NEW w \in Workers, NEW e \in ZoningRows(w)
    PROVE  \E x \in worker[w].found :
               /\ x[1] \notin worker[w].open
               /\ e = [run |-> worker[w].run, parcel |-> x[1], det |-> "zoning",
                       reason |-> None, by |-> x[2], open |-> TRUE]
BY DEF ZoningRows

LEMMA ParcelRowsType ==
    ASSUME TypeInv, WorkersInv, NEW w \in Workers, worker[w].pc = "deciding"
    PROVE  ParcelRows(w) \subseteq Exceptions
<1>1. worker[w].run \in Nat
  BY BoundsAssumption DEF TypeInv, WorkerType
<1>2. \A x \in worker[w].found : x[1] \in Parcels /\ x[2] \in Reasons
  BY DEF WorkersInv, FoundOf
<1>3. ASSUME NEW e \in ParcelRows(w)
      PROVE  e \in Exceptions
  <2>1. PICK x \in worker[w].found :
                 e = [run |-> worker[w].run, parcel |-> x[1], det |-> "parcel",
                      reason |-> x[2], by |-> None, open |-> TRUE]
    BY ParcelRowsAre
  <2>2. QED
    BY <1>1, <1>2, <2>1 DEF Exceptions, Detectors
<1>4. QED
  BY <1>3

LEMMA ZoningRowsType ==
    ASSUME TypeInv, WorkersInv, NEW w \in Workers, worker[w].pc = "writing"
    PROVE  ZoningRows(w) \subseteq Exceptions
<1>1. worker[w].run \in Nat
  BY BoundsAssumption DEF TypeInv, WorkerType
<1>2. worker[w].snap \in Snapshots
  BY DEF WorkersInv, FoundOf, ZoningPass
<1>3. \A x \in worker[w].found : x[1] \in Parcels /\ x[2] \in UNION {Invalid[s] : s \in Snapshots}
  BY <1>2 DEF WorkersInv, FoundOf
<1>4. ASSUME NEW e \in ZoningRows(w)
      PROVE  e \in Exceptions
  <2>1. PICK x \in worker[w].found :
                 e = [run |-> worker[w].run, parcel |-> x[1], det |-> "zoning",
                      reason |-> None, by |-> x[2], open |-> TRUE]
    BY ZoningRowsAre
  <2>2. x[1] \in Parcels /\ x[2] \in (UNION {Invalid[s] : s \in Snapshots}) \cup {None}
    BY <1>3
  <2>3. QED
    BY <1>1, <2>1, <2>2 DEF Exceptions, Detectors
<1>5. QED
  BY <1>4

LEMMA ClosedIs ==
    ASSUME NEW w, NEW e \in Exceptions
    PROVE  /\ Closed(w, e) \in Exceptions
           /\ Closed(w, e).parcel = e.parcel /\ Closed(w, e).det = e.det
           /\ Closed(w, e).reason = e.reason
           /\ Closed(w, e).open <=> e.open /\ ~(e.det = "parcel" /\ e.parcel \in Cleared(w))
           /\ Closed(w, e).open => Closed(w, e) = e
BY DEF Closed, Exceptions

\* Rows that do not clash may be added: one open row remains for each key.
LEMMA NoClash ==
    ASSUME NEW rows, ~Clash(rows, exceptions), IndexInv,
           NEW e \in exceptions \cup rows, NEW f \in exceptions \cup rows,
           e.open, f.open, SameKey(e, f)
    PROVE  e = f
BY DEF Clash, IndexInv, SameKey

-----------------------------------------------------------------------------
(* Types, and who owns which job_run.                                      *)

\* What an action makes of the state of the process that takes it.
Same(v) ==
    /\ worker'[v].pc = worker[v].pc /\ worker'[v].run = worker[v].run
    /\ worker'[v].snap = worker[v].snap /\ worker'[v].found = worker[v].found
    /\ worker'[v].open = worker[v].open

LEMMA IdleType ==
    /\ Idle \in WorkerType /\ [Idle EXCEPT !.pc = "half"] \in WorkerType
    /\ Idle.pc = "idle" /\ Idle.run = 0 /\ [Idle EXCEPT !.pc = "half"].run = 0
<1>1. MaxRuns \in Nat
  BY BoundsAssumption
<1>2. 0 \in 0..MaxRuns
  BY <1>1
<1>3. Idle \in WorkerType
  BY <1>2 DEF Idle, WorkerType
<1>4. [Idle EXCEPT !.pc = "half"] \in WorkerType
  BY <1>3 DEF WorkerType
<1>5. QED
  BY <1>3, <1>4 DEF Idle

LEMMA StepType ==
    ASSUME TypeInv, NEW w \in Workers, NEW q \in WorkerType, Step(w, q)
    PROVE  /\ worker' \in [Workers -> WorkerType] /\ worker'[w] = q
           /\ \A v \in Workers \ {w} : worker'[v] = worker[v]
BY DEF TypeInv, Step

LEMMA DisturbType ==
    ASSUME TypeInv, NEW w \in Workers, NEW q \in WorkerType, Disturb(w, q)
    PROVE  /\ worker' \in [Workers -> WorkerType] /\ worker'[w] = q
           /\ \A v \in Workers \ {w} : Same(v) /\ ~worker'[v].calm
BY DEF TypeInv, Disturb, Same, WorkerType

\* The read steps: what a process does to itself between two commits.
Reads(w) ==
    ReadInvalid(w) \/ ReadOpenParcels(w) \/ ReadAffected(w) \/ ReadOpenZoning(w)

LEMMA ReadsType ==
    ASSUME TypeInv, WorkersInv, NEW w \in Workers, Reads(w)
    PROVE  /\ worker' \in [Workers -> WorkerType]
           /\ \A v \in Workers \ {w} : worker'[v] = worker[v]
           /\ UNCHANGED <<tables, job, runs, settled>>
           /\ worker'[w].run = worker[w].run /\ worker'[w].snap = worker[w].snap
           /\ worker'[w].calm = worker[w].calm
           /\ \/ /\ worker[w].pc = "parcels" /\ worker'[w].pc = "invalid"
                 /\ worker'[w].found = InvalidNow
              \/ /\ worker[w].pc = "invalid" /\ worker'[w].pc = "deciding"
                 /\ worker'[w].found = worker[w].found
                 /\ worker'[w].open = OpenParcels("parcel")
              \/ /\ worker[w].pc = "verified" /\ worker'[w].pc = "affected"
                 /\ worker'[w].found = AffectedBy(worker[w].snap)
                 /\ worker[w].snap \in Snapshots
              \/ /\ worker[w].pc = "affected" /\ worker'[w].pc = "writing"
                 /\ worker'[w].found = worker[w].found
                 /\ worker'[w].open = OpenParcels("zoning")
<1> DEFINE type == worker'[w] \in WorkerType
<1>1. worker[w] \in WorkerType /\ worker \in [Workers -> WorkerType]
  BY DEF TypeInv
<1>2. \A det : OpenParcels(det) \subseteq Parcels
  BY DEF OpenParcels, TypeInv, Exceptions
<1>3. CASE ReadInvalid(w)
  <2> DEFINE q == [worker[w] EXCEPT !.pc = "invalid", !.found = InvalidNow]
  <2>1. \A p \in Parcels : ReasonOf[geom[p]] # None => ReasonOf[geom[p]] \in Reasons
    BY DEF TypeInv, Reasons
  <2>2. InvalidNow \subseteq Parcels \X (Reasons \cup Polygons)
    BY <2>1 DEF InvalidNow
  <2>3. q \in WorkerType
    BY <1>1, <2>2 DEF WorkerType, ParcelPass
  <2>4. Step(w, q) /\ worker[w].pc = "parcels" /\ UNCHANGED <<tables, job, runs, settled>>
    BY <1>3 DEF ReadInvalid, At, InvalidNow
  <2>5. /\ q.pc = "invalid" /\ q.found = InvalidNow /\ q.run = worker[w].run
        /\ q.snap = worker[w].snap /\ q.calm = worker[w].calm
    BY <1>1 DEF WorkerType
  <2> HIDE DEF q
  <2>6. /\ worker' \in [Workers -> WorkerType] /\ worker'[w] = q
        /\ \A v \in Workers \ {w} : worker'[v] = worker[v]
    BY <2>3, <2>4, StepType
  <2>7. QED
    BY <2>4, <2>5, <2>6
<1>4. CASE ReadOpenParcels(w)
  <2> DEFINE q == [worker[w] EXCEPT !.pc = "deciding", !.open = OpenParcels("parcel")]
  <2>1. q \in WorkerType
    BY <1>1, <1>2 DEF WorkerType, ParcelPass
  <2>2. Step(w, q) /\ worker[w].pc = "invalid" /\ UNCHANGED <<tables, job, runs, settled>>
    BY <1>4 DEF ReadOpenParcels, At
  <2>3. /\ q.pc = "deciding" /\ q.found = worker[w].found /\ q.run = worker[w].run
        /\ q.snap = worker[w].snap /\ q.calm = worker[w].calm /\ q.open = OpenParcels("parcel")
    BY <1>1 DEF WorkerType
  <2> HIDE DEF q
  <2>4. /\ worker' \in [Workers -> WorkerType] /\ worker'[w] = q
        /\ \A v \in Workers \ {w} : worker'[v] = worker[v]
    BY <2>1, <2>2, StepType
  <2>5. QED
    BY <2>2, <2>3, <2>4
<1>5. CASE ReadAffected(w)
  <2> DEFINE q == [worker[w] EXCEPT !.pc = "affected", !.found = AffectedBy(worker[w].snap)]
  <2>1. Step(w, q) /\ worker[w].pc = "verified" /\ UNCHANGED <<tables, job, runs, settled>>
    BY <1>5 DEF ReadAffected, At, AffectedBy
  <2>2. worker[w].snap \in Snapshots
    BY <2>1 DEF WorkersInv, FoundOf, ZoningPass
  <2>3. AffectedBy(worker[w].snap) \subseteq Parcels \X (Reasons \cup Polygons)
    BY <2>2 DEF AffectedBy, Polygons
  <2>4. q \in WorkerType
    BY <1>1, <2>3 DEF WorkerType, ZoningPass
  <2>5. /\ q.pc = "affected" /\ q.found = AffectedBy(worker[w].snap) /\ q.run = worker[w].run
        /\ q.snap = worker[w].snap /\ q.calm = worker[w].calm
    BY <1>1 DEF WorkerType
  <2> HIDE DEF q
  <2>6. /\ worker' \in [Workers -> WorkerType] /\ worker'[w] = q
        /\ \A v \in Workers \ {w} : worker'[v] = worker[v]
    BY <2>1, <2>4, StepType
  <2>7. QED
    BY <2>1, <2>2, <2>5, <2>6
<1>6. CASE ReadOpenZoning(w)
  <2> DEFINE q == [worker[w] EXCEPT !.pc = "writing", !.open = OpenParcels("zoning")]
  <2>1. q \in WorkerType
    BY <1>1, <1>2 DEF WorkerType, ZoningPass
  <2>2. Step(w, q) /\ worker[w].pc = "affected" /\ UNCHANGED <<tables, job, runs, settled>>
    BY <1>6 DEF ReadOpenZoning, At
  <2>3. /\ q.pc = "writing" /\ q.found = worker[w].found /\ q.run = worker[w].run
        /\ q.snap = worker[w].snap /\ q.calm = worker[w].calm /\ q.open = OpenParcels("zoning")
    BY <1>1 DEF WorkerType
  <2> HIDE DEF q
  <2>4. /\ worker' \in [Workers -> WorkerType] /\ worker'[w] = q
        /\ \A v \in Workers \ {w} : worker'[v] = worker[v]
    BY <2>1, <2>2, StepType
  <2>5. QED
    BY <2>2, <2>3, <2>4
<1>7. QED
  BY <1>3, <1>4, <1>5, <1>6 DEF Reads

\* The steps of the model by what they do: the parcels change, a process reads,
\* begins a pass, finds its snapshot sound, leaves without writing, or commits.
Moved ==
    /\ worker' \in [Workers -> WorkerType]
    /\ \A v \in Workers : Same(v) /\ ~worker'[v].calm
    /\ UNCHANGED <<exceptions, job, runs>> /\ settled' = {}
    /\ geom' \in [Parcels -> Geoms] /\ centroid' \in [Parcels -> Points \cup {None}]

OthersKeep(w) ==
    /\ worker' \in [Workers -> WorkerType]
    /\ \A v \in Workers \ {w} : worker'[v] = worker[v]

OthersDisturbed(w) ==
    /\ worker' \in [Workers -> WorkerType]
    /\ \A v \in Workers \ {w} : Same(v) /\ ~worker'[v].calm

Begun(w) ==
    /\ OthersKeep(w) /\ UNCHANGED <<tables, settled>>
    /\ runs < MaxRuns /\ runs' = runs + 1 /\ job' = [job EXCEPT ![runs + 1] = "running"]
    /\ worker'[w].run = runs + 1
    /\ \/ worker'[w].pc = "parcels"
       \/ worker'[w].pc = "zoning" /\ worker'[w].snap \in Snapshots

Verified(w) ==
    /\ OthersKeep(w) /\ UNCHANGED <<tables, job, runs, settled>>
    /\ worker[w].pc = "zoning" /\ worker'[w].pc = "verified"
    /\ worker'[w].run = worker[w].run /\ worker'[w].snap = worker[w].snap

Left(w) ==
    /\ OthersKeep(w) /\ worker'[w] = Idle /\ UNCHANGED <<tables, runs, settled>>
    /\ job' = job \/ job' = [job EXCEPT ![worker[w].run] = "failed"]

FlaggedParcels(w) ==
    /\ OthersDisturbed(w) /\ worker[w].pc = "deciding"
    /\ worker'[w] = [Idle EXCEPT !.pc = "half"]
    /\ UNCHANGED <<geom, centroid, runs>>
    /\ job' = [job EXCEPT ![worker[w].run] = "succeeded"]
    /\ ~Clash(ParcelRows(w), exceptions)
    /\ exceptions' = {Closed(w, e) : e \in exceptions \cup ParcelRows(w)}
    /\ settled' = (settled \ {"parcel"}) \cup (IF worker[w].calm THEN {"parcel"} ELSE {})

FlaggedZoning(w) ==
    /\ OthersDisturbed(w) /\ worker[w].pc = "writing" /\ worker'[w] = Idle
    /\ UNCHANGED <<geom, centroid, runs>>
    /\ job' = [job EXCEPT ![worker[w].run] = "succeeded"]
    /\ ~Clash(ZoningRows(w), exceptions)
    /\ exceptions' = exceptions \cup ZoningRows(w)
    /\ settled' = (settled \ Snapshots) \cup (IF worker[w].calm THEN {worker[w].snap} ELSE {})

LEMMA MovedIs ==
    ASSUME TypeInv,
           \/ \E p \in Parcels, g \in Geoms : MoveParcel(p, g)
           \/ \E p \in Parcels : PointParcel(p)
    PROVE  Moved
<1>1. /\ worker' = [w \in Workers |-> [worker[w] EXCEPT !.calm = FALSE]]
      /\ UNCHANGED <<exceptions, job, runs>> /\ settled' = {}
  BY DEF MoveParcel, PointParcel
<1>2. \A w \in Workers : [worker[w] EXCEPT !.calm = FALSE] \in WorkerType
  BY DEF TypeInv, WorkerType
<1>3. \A v \in Workers : Same(v) /\ ~worker'[v].calm
  BY <1>1 DEF TypeInv, WorkerType, Same
<1>4. geom' \in [Parcels -> Geoms] /\ centroid' \in [Parcels -> Points \cup {None}]
  <2>1. CASE \E p \in Parcels, g \in Geoms : MoveParcel(p, g)
    BY <2>1 DEF MoveParcel, TypeInv
  <2>2. ASSUME NEW p \in Parcels, PointParcel(p)
        PROVE  geom' \in [Parcels -> Geoms] /\ centroid' \in [Parcels -> Points \cup {None}]
    <3>1. PointOf[geom[p]] \in Points
      BY <2>2, FlagAssumption DEF PointParcel, TypeInv
    <3>2. QED
      BY <2>2, <3>1 DEF PointParcel, TypeInv
  <2>3. QED
    BY <2>1, <2>2
<1>5. QED
  BY <1>1, <1>2, <1>3, <1>4 DEF Moved

LEMMA BegunIs ==
    ASSUME TypeInv, NEW w \in Workers,
           StartParcels(w) \/ \E x \in Snapshots : StartZoning(w, x)
    PROVE  Begun(w)
<1>1. ASSUME NEW pc \in {"parcels", "zoning"}, NEW x \in Snapshots \cup {None},
             StartRun(w, pc, x), pc = "zoning" => x \in Snapshots
      PROVE  Begun(w)
  <2> DEFINE q == [Idle EXCEPT !.pc = pc, !.run = runs + 1, !.snap = x]
  <2>1. /\ Step(w, q) /\ runs < MaxRuns /\ runs' = runs + 1
        /\ job' = [job EXCEPT ![runs + 1] = "running"] /\ UNCHANGED <<tables, settled>>
    BY <1>1 DEF StartRun
  <2>2. runs + 1 \in 0..MaxRuns
    BY <2>1, BoundsAssumption DEF TypeInv
  <2>3. q \in WorkerType
    BY <2>2, IdleType DEF WorkerType, ParcelPass, ZoningPass
  <2>4. q.pc = pc /\ q.run = runs + 1 /\ q.snap = x
    BY IdleType DEF WorkerType
  <2> HIDE DEF q
  <2>5. QED
    BY <1>1, <2>1, <2>3, <2>4, StepType DEF Begun, OthersKeep
<1>2. CASE StartParcels(w)
  BY <1>1, <1>2 DEF StartParcels
<1>3. CASE \E x \in Snapshots : StartZoning(w, x)
  BY <1>1, <1>3 DEF StartZoning
<1>4. QED
  BY <1>2, <1>3

LEMMA FailedIs ==
    ASSUME TypeInv, NEW w \in Workers, EndFailed(w), UNCHANGED <<tables, runs, settled>>
    PROVE  Left(w)
BY StepType, IdleType DEF EndFailed, Left, OthersKeep

LEMMA VerifyIs ==
    ASSUME TypeInv, NEW w \in Workers, Verify(w)
    PROVE  Verified(w) \/ Left(w)
<1>1. worker[w].pc = "zoning" /\ UNCHANGED <<tables, job, runs, settled>>
  BY DEF Verify, At
<1>2. CASE worker[w].snap \in Torn
  <2>1. Step(w, Idle)
    BY <1>2 DEF Verify
  <2>2. QED
    BY <1>1, <2>1, StepType, IdleType DEF Left, OthersKeep
<1>3. CASE worker[w].snap \notin Torn
  <2> DEFINE q == [worker[w] EXCEPT !.pc = "verified"]
  <2>1. Step(w, q)
    BY <1>3 DEF Verify
  <2>2. q \in WorkerType /\ q.pc = "verified" /\ q.run = worker[w].run /\ q.snap = worker[w].snap
    BY DEF TypeInv, WorkerType, ZoningPass
  <2> HIDE DEF q
  <2>3. QED
    BY <1>1, <2>1, <2>2, StepType DEF Verified, OthersKeep
<1>4. QED
  BY <1>2, <1>3

LEMMA CommitIs ==
    ASSUME TypeInv, NEW w \in Workers, CommitParcels(w) \/ CommitZoning(w)
    PROVE  FlaggedParcels(w) \/ FlaggedZoning(w) \/ Left(w)
<1>1. CASE EndFailed(w) /\ UNCHANGED <<exceptions, settled>>
  <2>1. UNCHANGED <<tables, runs, settled>>
    BY <1>1, CommitParcelsIs, CommitZoningIs DEF tables
  <2>2. QED
    BY <1>1, <2>1, FailedIs
<1>2. CASE CommitParcels(w) /\ ~(EndFailed(w) /\ UNCHANGED <<exceptions, settled>>)
  BY <1>2, CommitParcelsIs, DisturbType, IdleType DEF FlaggedParcels, OthersDisturbed
<1>3. CASE CommitZoning(w) /\ ~(EndFailed(w) /\ UNCHANGED <<exceptions, settled>>)
  BY <1>3, CommitZoningIs, DisturbType, IdleType DEF FlaggedZoning, OthersDisturbed
<1>4. QED
  BY <1>1, <1>2, <1>3

LEMMA LeftIs ==
    ASSUME TypeInv, NEW w \in Workers, SkipZoning(w) \/ Unread(w) \/ Raise(w) \/ Crash(w)
    PROVE  Left(w)
<1>1. CASE SkipZoning(w) \/ Unread(w) \/ Crash(w)
  <2>1. Step(w, Idle) /\ UNCHANGED <<tables, job, runs, settled>>
    BY <1>1 DEF SkipZoning, Unread, Crash
  <2>2. QED
    BY <2>1, StepType, IdleType DEF Left, OthersKeep
<1>2. CASE Raise(w)
  BY <1>2, FailedIs DEF Raise
<1>3. QED
  BY <1>1, <1>2

LEMMA StepsAre ==
    ASSUME TypeInv, Next
    PROVE  \/ Moved
           \/ \E w \in Workers : \/ Reads(w) \/ Begun(w) \/ Verified(w) \/ Left(w)
                                 \/ FlaggedParcels(w) \/ FlaggedZoning(w)
<1>1. CASE \/ \E p \in Parcels, g \in Geoms : MoveParcel(p, g)
           \/ \E p \in Parcels : PointParcel(p)
  BY <1>1, MovedIs
<1>2. CASE \E w \in Workers : Proceed(w)
  <2>1. PICK w \in Workers : Proceed(w)
    BY <1>2
  <2>2. Reads(w) \/ CommitParcels(w) \/ CommitZoning(w) \/ Verify(w)
    BY <2>1 DEF Proceed, Reads
  <2>3. QED
    BY <2>2, CommitIs, VerifyIs
<1>3. CASE \E w \in Workers : StartParcels(w) \/ \E x \in Snapshots : StartZoning(w, x)
  BY <1>3, BegunIs
<1>4. CASE \E w \in Workers : SkipZoning(w) \/ Unread(w) \/ Raise(w) \/ Crash(w)
  BY <1>4, LeftIs
<1>5. QED
  BY <1>1, <1>2, <1>3, <1>4 DEF Next

LEMMA TypeNext ==
    ASSUME TypeInv, WorkersInv, [Next]_vars
    PROVE  TypeInv'
<1>1. CASE UNCHANGED vars
  BY <1>1 DEF vars, tables, TypeInv
<1>2. CASE Moved
  BY <1>2 DEF Moved, TypeInv
<1>3. ASSUME NEW w \in Workers, Reads(w) \/ Verified(w)
      PROVE  TypeInv'
  BY <1>3, ReadsType DEF TypeInv, Verified, OthersKeep, tables
<1>4. ASSUME NEW w \in Workers, Begun(w)
      PROVE  TypeInv'
  <2>1. runs + 1 \in 0..MaxRuns /\ runs + 1 \in 1..MaxRuns
    BY <1>4, BoundsAssumption DEF Begun, TypeInv
  <2>2. job' \in [1..MaxRuns -> {"none", "running", "succeeded", "failed"}]
    BY <1>4, <2>1 DEF Begun, TypeInv
  <2>3. QED
    BY <1>4, <2>1, <2>2 DEF Begun, OthersKeep, TypeInv, tables
<1>5. ASSUME NEW w \in Workers, Left(w)
      PROVE  TypeInv'
  <2>1. job' \in [1..MaxRuns -> {"none", "running", "succeeded", "failed"}]
    BY <1>5 DEF Left, TypeInv
  <2>2. QED
    BY <1>5, <2>1 DEF Left, OthersKeep, TypeInv, tables
<1>6. ASSUME NEW w \in Workers, FlaggedParcels(w) \/ FlaggedZoning(w)
      PROVE  TypeInv'
  <2>1. job' \in [1..MaxRuns -> {"none", "running", "succeeded", "failed"}]
    BY <1>6 DEF FlaggedParcels, FlaggedZoning, TypeInv
  <2>2. exceptions' \subseteq Exceptions
    <3>1. CASE FlaggedParcels(w)
      <4>1. ParcelRows(w) \subseteq Exceptions /\ exceptions \subseteq Exceptions
        BY <3>1, ParcelRowsType DEF FlaggedParcels, TypeInv
      <4>2. exceptions' = {Closed(w, e) : e \in exceptions \cup ParcelRows(w)}
        BY <3>1 DEF FlaggedParcels
      <4>3. QED
        BY <4>1, <4>2, ClosedIs
    <3>2. CASE FlaggedZoning(w)
      BY <3>2, ZoningRowsType DEF FlaggedZoning, TypeInv
    <3>3. QED
      BY <1>6, <3>1, <3>2
  <2>3. QED
    BY <1>6, <2>1, <2>2 DEF FlaggedParcels, FlaggedZoning, OthersDisturbed, TypeInv
<1>7. QED
  BY <1>1, <1>2, <1>3, <1>4, <1>5, <1>6, StepsAre

\* A job_run of another process is not the one a process ends or begins.
LEMMA OtherRun ==
    ASSUME TypeInv, WorkersInv, NEW w \in Workers, NEW v \in Workers \ {w}, InRun(v),
           \/ job' = job
           \/ \E status : job' = [job EXCEPT ![worker[w].run] = status]
           \/ job' = [job EXCEPT ![runs + 1] = "running"]
    PROVE  job'[worker[v].run] = "running"
<1>1. /\ worker[v].run \in 1..MaxRuns /\ worker[v].run # worker[w].run
      /\ worker[v].run # runs + 1 /\ job[worker[v].run] = "running"
  BY BoundsAssumption DEF TypeInv, WorkersInv, RunOf, WorkerType
<1>2. QED
  BY <1>1 DEF TypeInv

LEMMA SameWorker ==
    ASSUME NEW v \in Workers, TypeInv, WorkersInv, Same(v) \/ worker'[v] = worker[v],
           InRun(v) => job'[worker[v].run] = "running", runs' \in {runs, runs + 1}
    PROVE  RunOf(v)' /\ FoundOf(v)' /\ worker'[v].run = worker[v].run /\ (InRun(v)' <=> InRun(v))
<1>1. /\ worker'[v].pc = worker[v].pc /\ worker'[v].run = worker[v].run
      /\ worker'[v].snap = worker[v].snap /\ worker'[v].found = worker[v].found
  BY DEF Same
<1>2. InRun(v)' <=> InRun(v)
  BY <1>1 DEF InRun
<1>3. FoundOf(v)'
  BY <1>1 DEF FoundOf, WorkersInv
<1>4. worker[v].run \in 0..runs'
  BY BoundsAssumption DEF TypeInv, WorkersInv, RunOf, WorkerType
<1>5. RunOf(v)'
  BY <1>1, <1>2, <1>4 DEF RunOf, WorkersInv
<1>6. QED
  BY <1>1, <1>2, <1>3, <1>5

LEMMA WorkersNext ==
    ASSUME TypeInv, TypeInv', WorkersInv, [Next]_vars
    PROVE  WorkersInv'
<1>1. CASE UNCHANGED vars
  BY <1>1 DEF vars, tables, WorkersInv, RunOf, FoundOf, InRun
<1>2. CASE Moved
  <2>1. \A v \in Workers : RunOf(v)' /\ FoundOf(v)' /\ worker'[v].run = worker[v].run
                           /\ (InRun(v)' <=> InRun(v))
    BY <1>2, SameWorker DEF Moved, WorkersInv, RunOf
  <2>2. QED
    BY <2>1 DEF WorkersInv
<1>3. ASSUME NEW w \in Workers,
             RunOf(w)', FoundOf(w)',
             \A v \in Workers \ {w} : Same(v) \/ worker'[v] = worker[v],
             \/ job' = job
             \/ \E status : job' = [job EXCEPT ![worker[w].run] = status]
             \/ job' = [job EXCEPT ![runs + 1] = "running"],
             runs' \in {runs, runs + 1},
             worker'[w].run \in {worker[w].run, runs + 1, 0}
      PROVE  WorkersInv'
  <2>1. \A v \in Workers \ {w} : RunOf(v)' /\ FoundOf(v)' /\ worker'[v].run = worker[v].run
                                 /\ (InRun(v)' <=> InRun(v))
    BY <1>3, SameWorker, OtherRun
  <2>2. ASSUME NEW u \in Workers, NEW v \in Workers, InRun(u)', worker'[u].run = worker'[v].run
        PROVE  u = v
    <3>1. worker[u].run \in 0..runs /\ worker[v].run \in 0..runs /\ runs \in Nat
      BY BoundsAssumption DEF WorkersInv, RunOf, TypeInv
    <3>2. worker'[u].run # 0 /\ worker'[v].run # 0
      BY <1>3, <2>1, <2>2 DEF RunOf
    <3>3. CASE u # w /\ v # w
      BY <2>1, <2>2, <3>3 DEF WorkersInv
    <3>4. CASE u = w /\ v # w
      BY <1>3, <2>1, <2>2, <3>1, <3>2, <3>4 DEF WorkersInv, RunOf
    <3>5. CASE u # w /\ v = w
      BY <1>3, <2>1, <2>2, <3>1, <3>2, <3>5 DEF WorkersInv, RunOf
    <3>6. QED
      BY <3>3, <3>4, <3>5
  <2>3. QED
    BY <1>3, <2>1, <2>2 DEF WorkersInv
<1>4. ASSUME NEW w \in Workers, Reads(w)
      PROVE  WorkersInv'
  <2>1. /\ worker'[w].run = worker[w].run /\ worker'[w].snap = worker[w].snap
        /\ UNCHANGED <<job, runs>>
        /\ \A v \in Workers \ {w} : worker'[v] = worker[v]
    BY <1>4, ReadsType
  <2>2. InRun(w) /\ InRun(w)'
    BY <1>4, ReadsType DEF InRun, ParcelPass, ZoningPass
  <2>3. RunOf(w)'
    BY <2>1, <2>2 DEF RunOf, WorkersInv
  <2>4. FoundOf(w)'
    <3>1. InvalidNow \subseteq Parcels \X Reasons
      <4>1. \A p \in Parcels : ReasonOf[geom[p]] # None => ReasonOf[geom[p]] \in Reasons
        BY DEF TypeInv, Reasons
      <4>2. QED
        BY <4>1 DEF InvalidNow
    <3>2. \A x : AffectedBy(x) \subseteq Parcels \X Invalid[x]
      BY DEF AffectedBy
    <3>3. worker[w].pc \in ZoningPass => worker[w].snap \in Snapshots
      BY DEF WorkersInv, FoundOf
    <3>4. worker[w].pc = "invalid" => worker[w].found \subseteq Parcels \X Reasons
      BY DEF WorkersInv, FoundOf
    <3>5. worker[w].pc = "affected" =>
              worker[w].found \subseteq Parcels \X Invalid[worker[w].snap]
      BY DEF WorkersInv, FoundOf
    <3>6. CASE worker[w].pc = "parcels" /\ worker'[w].pc = "invalid" /\ worker'[w].found = InvalidNow
      BY <3>1, <3>6 DEF FoundOf, ZoningPass
    <3>7. CASE worker[w].pc = "invalid" /\ worker'[w].pc = "deciding"
               /\ worker'[w].found = worker[w].found
      BY <3>4, <3>7 DEF FoundOf, ZoningPass
    <3>8. CASE worker[w].pc = "verified" /\ worker'[w].pc = "affected"
               /\ worker'[w].found = AffectedBy(worker[w].snap)
      BY <2>1, <3>2, <3>3, <3>8 DEF FoundOf, ZoningPass
    <3>9. CASE worker[w].pc = "affected" /\ worker'[w].pc = "writing"
               /\ worker'[w].found = worker[w].found
      BY <2>1, <3>3, <3>5, <3>9 DEF FoundOf, ZoningPass
    <3>10. QED
      BY <1>4, <3>6, <3>7, <3>8, <3>9, ReadsType
  <2>5. QED
    BY <1>3, <2>1, <2>3, <2>4
<1>5. ASSUME NEW w \in Workers, Begun(w)
      PROVE  WorkersInv'
  <2>1. runs \in Nat /\ runs + 1 \in 1..MaxRuns /\ job'[runs + 1] = "running"
    BY <1>5, BoundsAssumption DEF Begun, TypeInv
  <2>2. RunOf(w)'
    BY <1>5, <2>1 DEF Begun, RunOf, InRun, ParcelPass, ZoningPass
  <2>3. FoundOf(w)'
    BY <1>5 DEF Begun, FoundOf, ZoningPass
  <2>4. QED
    BY <1>3, <1>5, <2>2, <2>3 DEF Begun, OthersKeep
<1>6. ASSUME NEW w \in Workers, Verified(w)
      PROVE  WorkersInv'
  <2>1. RunOf(w)'
    BY <1>6 DEF Verified, RunOf, InRun, ParcelPass, ZoningPass, WorkersInv
  <2>2. FoundOf(w)'
    BY <1>6 DEF Verified, FoundOf, ZoningPass, WorkersInv
  <2>3. QED
    BY <1>3, <1>6, <2>1, <2>2 DEF Verified, OthersKeep
<1>7. ASSUME NEW w \in Workers, Left(w) \/ FlaggedParcels(w) \/ FlaggedZoning(w)
      PROVE  WorkersInv'
  <2>1. worker'[w].pc \in {"idle", "half"} /\ worker'[w].run = 0 /\ runs' = runs
    BY <1>7 DEF Left, FlaggedParcels, FlaggedZoning, Idle
  <2>2. RunOf(w)' /\ FoundOf(w)'
    BY <2>1, BoundsAssumption DEF RunOf, FoundOf, InRun, ParcelPass, ZoningPass, TypeInv
  <2>3. \A v \in Workers \ {w} : Same(v) \/ worker'[v] = worker[v]
    BY <1>7 DEF Left, FlaggedParcels, FlaggedZoning, OthersKeep, OthersDisturbed
  <2>4. job' = job \/ \E status : job' = [job EXCEPT ![worker[w].run] = status]
    BY <1>7 DEF Left, FlaggedParcels, FlaggedZoning
  <2>5. QED
    BY <1>3, <2>1, <2>2, <2>3, <2>4
<1>8. QED
  BY <1>1, <1>2, <1>4, <1>5, <1>6, <1>7, StepsAre

-----------------------------------------------------------------------------
(* The exceptions.                                                         *)

\* Only a pass that commits changes the exceptions.
LEMMA OnlyCommitsWrite ==
    ASSUME TypeInv, WorkersInv, [Next]_vars
    PROVE  \/ UNCHANGED exceptions
           \/ \E w \in Workers : FlaggedParcels(w) \/ FlaggedZoning(w)
BY StepsAre, ReadsType DEF vars, tables, Moved, Begun, Verified, Left

LEMMA IndexNext ==
    ASSUME TypeInv, WorkersInv, IndexInv, [Next]_vars
    PROVE  IndexInv'
<1>1. CASE UNCHANGED exceptions
  BY <1>1 DEF IndexInv, SameKey
<1>2. ASSUME NEW w \in Workers, FlaggedParcels(w)
      PROVE  IndexInv'
  <2>1. /\ exceptions' = {Closed(w, e) : e \in exceptions \cup ParcelRows(w)}
        /\ exceptions \cup ParcelRows(w) \subseteq Exceptions
    BY <1>2, ParcelRowsType DEF FlaggedParcels, TypeInv
  <2>2. ASSUME NEW e \in exceptions', NEW f \in exceptions', e.open, f.open, SameKey(e, f)
        PROVE  e = f
    <3>1. e \in exceptions \cup ParcelRows(w) /\ f \in exceptions \cup ParcelRows(w)
      BY <2>1, <2>2, ClosedIs
    <3>2. QED
      BY <1>2, <2>2, <3>1, NoClash DEF FlaggedParcels
  <2>3. \A e \in exceptions' : e.det = "zoning" => e.reason = None
    <3>1. \A e \in ParcelRows(w) : e.det = "parcel"
      BY ParcelRowsAre
    <3>2. QED
      BY <2>1, <3>1, ClosedIs DEF IndexInv
  <2>4. QED
    BY <2>2, <2>3 DEF IndexInv, SameKey
<1>3. ASSUME NEW w \in Workers, FlaggedZoning(w)
      PROVE  IndexInv'
  <2>1. exceptions' = exceptions \cup ZoningRows(w) /\ ~Clash(ZoningRows(w), exceptions)
    BY <1>3 DEF FlaggedZoning
  <2>2. \A e \in ZoningRows(w) : e.reason = None
    BY ZoningRowsAre
  <2>3. \A e, f \in exceptions' : e.open /\ f.open /\ SameKey(e, f) => e = f
    BY <2>1, NoClash
  <2>4. \A e \in exceptions' : e.det = "zoning" => e.reason = None
    BY <2>1, <2>2 DEF IndexInv
  <2>5. QED
    BY <2>3, <2>4 DEF IndexInv, SameKey
<1>4. QED
  BY <1>1, <1>2, <1>3, OnlyCommitsWrite

\* What a process has read is still so when nothing it read from has changed.
LEMMA CalmStays ==
    ASSUME NEW v \in Workers, UNCHANGED tables, worker'[v] = worker[v], CalmOf(v)
    PROVE  CalmOf(v)'
BY DEF CalmOf, tables, InvalidNow, AffectedBy, OpenParcels

LEMMA CalmNext ==
    ASSUME TypeInv, WorkersInv, CalmInv, [Next]_vars
    PROVE  CalmInv'
<1>1. CASE UNCHANGED vars
  BY <1>1, CalmStays DEF vars, tables, CalmInv
<1>2. CASE Moved
  BY <1>2 DEF Moved, CalmInv, CalmOf
<1>3. ASSUME NEW w \in Workers, worker'[w].pc \notin {"invalid", "deciding", "affected", "writing"},
             (UNCHANGED tables /\ OthersKeep(w)) \/ OthersDisturbed(w)
      PROVE  CalmInv'
  <2>1. CalmOf(w)'
    BY <1>3 DEF CalmOf
  <2>2. CASE UNCHANGED tables /\ OthersKeep(w)
    BY <2>1, <2>2, CalmStays DEF CalmInv, OthersKeep
  <2>3. CASE OthersDisturbed(w)
    BY <2>1, <2>3 DEF CalmInv, CalmOf, OthersDisturbed
  <2>4. QED
    BY <1>3, <2>2, <2>3
<1>4. ASSUME NEW w \in Workers, Begun(w) \/ Verified(w) \/ Left(w)
      PROVE  CalmInv'
  BY <1>3, <1>4 DEF Begun, Verified, Left, Idle
<1>5. ASSUME NEW w \in Workers, FlaggedParcels(w) \/ FlaggedZoning(w)
      PROVE  CalmInv'
  BY <1>3, <1>5 DEF FlaggedParcels, FlaggedZoning, Idle
<1>6. ASSUME NEW w \in Workers, Reads(w)
      PROVE  CalmInv'
  <2>1. /\ UNCHANGED tables /\ \A v \in Workers \ {w} : worker'[v] = worker[v]
        /\ worker'[w].snap = worker[w].snap /\ worker'[w].calm = worker[w].calm
    BY <1>6, ReadsType
  <2>2. \A v \in Workers \ {w} : CalmOf(v)'
    BY <2>1, CalmStays DEF CalmInv
  <2>3. InvalidNow' = InvalidNow
    BY <2>1 DEF tables, InvalidNow
  <2>4. \A x : AffectedBy(x)' = AffectedBy(x)
    BY <2>1 DEF tables, AffectedBy
  <2>5. \A det : OpenParcels(det)' = OpenParcels(det)
    BY <2>1 DEF tables, OpenParcels
  <2>6. AffectedBy(worker[w].snap)' = AffectedBy(worker[w].snap)
    BY <2>1 DEF tables, AffectedBy
  <2>7. ASSUME worker[w].pc = "parcels", worker'[w].pc = "invalid",
               worker'[w].found = InvalidNow
        PROVE  CalmOf(w)'
    BY <2>1, <2>3, <2>7 DEF CalmOf
  <2>8. ASSUME worker[w].pc = "invalid", worker'[w].pc = "deciding",
               worker'[w].found = worker[w].found, worker'[w].open = OpenParcels("parcel")
        PROVE  CalmOf(w)'
    BY <2>1, <2>3, <2>5, <2>8 DEF CalmOf, CalmInv
  <2>9. ASSUME worker[w].pc = "verified", worker'[w].pc = "affected",
               worker'[w].found = AffectedBy(worker[w].snap)
        PROVE  CalmOf(w)'
    BY <2>1, <2>6, <2>9 DEF CalmOf
  <2>10. ASSUME worker[w].pc = "affected", worker'[w].pc = "writing",
                worker'[w].found = worker[w].found, worker'[w].open = OpenParcels("zoning")
         PROVE  CalmOf(w)'
    BY <2>1, <2>5, <2>6, <2>10 DEF CalmOf, CalmInv
  <2>11. CalmOf(w)'
    BY <1>6, <2>7, <2>8, <2>9, <2>10, ReadsType
  <2>12. QED
    BY <2>2, <2>11 DEF CalmInv
<1>7. QED
  BY <1>1, <1>2, <1>4, <1>5, <1>6, StepsAre

-----------------------------------------------------------------------------
(* What a pass leaves behind.                                              *)

HasOpen(det, p) == \E e \in exceptions : e.det = det /\ e.parcel = p /\ e.open

LEMMA FlagsAre ==
    /\ ParcelFlagsExact <=>
           ("parcel" \in settled =>
                \A p \in Parcels : HasOpen("parcel", p) <=> ReasonOf[geom[p]] # None)
    /\ ZoningFlagsComplete <=>
           \A x \in settled \cap Snapshots : \A p \in Parcels :
               (\E z \in Invalid[x] : centroid[p] # None /\ centroid[p] \in Around[z])
                   => HasOpen("zoning", p)
    /\ \A det, p : HasOpen(det, p) <=> p \in OpenParcels(det)
BY DEF ParcelFlagsExact, ZoningFlagsComplete, OpenRows, HasOpen, OpenParcels

\* The parcel pass changes no row of the zoning detector, and leaves open rows
\* in the parcels it found invalid and in those it had not read as open.
LEMMA AfterParcels ==
    ASSUME TypeInv, WorkersInv, NEW w \in Workers, FlaggedParcels(w), NEW p
    PROVE  /\ HasOpen("zoning", p)' <=> HasOpen("zoning", p)
           /\ HasOpen("parcel", p)' <=>
                  /\ \/ HasOpen("parcel", p)
                     \/ p \notin worker[w].open /\ \E x \in worker[w].found : x[1] = p
                  /\ p \notin Cleared(w)
<1>1. /\ exceptions' = {Closed(w, e) : e \in exceptions \cup ParcelRows(w)}
      /\ exceptions \cup ParcelRows(w) \subseteq Exceptions
  BY ParcelRowsType DEF FlaggedParcels, TypeInv
<1>2. \A det : HasOpen(det, p)' <=> \E f \in exceptions' : f.det = det /\ f.parcel = p /\ f.open
  BY DEF HasOpen
<1>3. \A det : HasOpen(det, p)' <=>
          \E e \in exceptions \cup ParcelRows(w) :
              e.det = det /\ e.parcel = p /\ e.open /\ ~(det = "parcel" /\ p \in Cleared(w))
  BY <1>1, <1>2, ClosedIs
<1>4. (\E e \in ParcelRows(w) : e.parcel = p) <=>
          p \notin worker[w].open /\ \E x \in worker[w].found : x[1] = p
  <2>1. ASSUME NEW x \in worker[w].found, x[1] = p, p \notin worker[w].open
        PROVE  \E e \in ParcelRows(w) : e.parcel = p
    <3>1. [run |-> worker[w].run, parcel |-> x[1], det |-> "parcel",
           reason |-> x[2], by |-> None, open |-> TRUE] \in ParcelRows(w)
      BY <2>1 DEF ParcelRows
    <3>2. QED
      BY <2>1, <3>1
  <2>2. QED
    BY <2>1, ParcelRowsAre
<1>5. \A e \in ParcelRows(w) : e.det = "parcel" /\ e.open
  BY ParcelRowsAre
<1>6. QED
  BY <1>3, <1>4, <1>5 DEF HasOpen

LEMMA AfterZoning ==
    ASSUME NEW w \in Workers, FlaggedZoning(w), NEW p
    PROVE  /\ HasOpen("parcel", p)' <=> HasOpen("parcel", p)
           /\ HasOpen("zoning", p)' <=>
                  \/ HasOpen("zoning", p)
                  \/ p \notin worker[w].open /\ \E x \in worker[w].found : x[1] = p
<1>1. \A det : HasOpen(det, p)' <=>
          \E e \in exceptions \cup ZoningRows(w) : e.det = det /\ e.parcel = p /\ e.open
  BY DEF HasOpen, FlaggedZoning
<1>2. (\E e \in ZoningRows(w) : e.parcel = p) <=>
          p \notin worker[w].open /\ \E x \in worker[w].found : x[1] = p
  <2>1. ASSUME NEW x \in worker[w].found, x[1] = p, p \notin worker[w].open
        PROVE  \E e \in ZoningRows(w) : e.parcel = p
    <3>1. [run |-> worker[w].run, parcel |-> x[1], det |-> "zoning",
           reason |-> None, by |-> x[2], open |-> TRUE] \in ZoningRows(w)
      BY <2>1 DEF ZoningRows
    <3>2. QED
      BY <2>1, <3>1
  <2>2. QED
    BY <2>1, ZoningRowsAre
<1>3. \A e \in ZoningRows(w) : e.det = "zoning" /\ e.open
  BY ZoningRowsAre
<1>4. QED
  BY <1>1, <1>2, <1>3 DEF HasOpen

\* A step that changes neither the tables nor the history.
LEMMA FlagsStay ==
    ASSUME UNCHANGED <<tables, settled>>, ParcelFlagsExact, ZoningFlagsComplete
    PROVE  ParcelFlagsExact' /\ ZoningFlagsComplete'
BY DEF tables, ParcelFlagsExact, ZoningFlagsComplete, OpenRows

LEMMA FlagsNext ==
    ASSUME TypeInv, WorkersInv, CalmInv, ParcelFlagsExact, ZoningFlagsComplete, [Next]_vars
    PROVE  ParcelFlagsExact' /\ ZoningFlagsComplete'
<1>1. CASE UNCHANGED <<tables, settled>>
  BY <1>1, FlagsStay
<1>2. CASE Moved
  BY <1>2 DEF Moved, ParcelFlagsExact, ZoningFlagsComplete
<1>3. ASSUME NEW w \in Workers, FlaggedParcels(w)
      PROVE  ParcelFlagsExact' /\ ZoningFlagsComplete'
  <2>1. /\ UNCHANGED <<geom, centroid>> /\ worker[w].pc = "deciding"
        /\ settled' = (settled \ {"parcel"}) \cup (IF worker[w].calm THEN {"parcel"} ELSE {})
    BY <1>3 DEF FlaggedParcels
  <2>2. ASSUME "parcel" \in settled', NEW p \in Parcels
        PROVE  HasOpen("parcel", p)' <=> ReasonOf[geom[p]] # None
    <3>1. worker[w].calm
      BY <2>1, <2>2
    <3>2. worker[w].found = InvalidNow /\ worker[w].open = OpenParcels("parcel")
      BY <2>1, <3>1 DEF CalmInv, CalmOf
    <3>3. (\E x \in worker[w].found : x[1] = p) <=> ReasonOf[geom[p]] # None
      <4>1. ReasonOf[geom[p]] # None => <<p, ReasonOf[geom[p]]>> \in InvalidNow
        BY DEF InvalidNow
      <4>2. <<p, ReasonOf[geom[p]]>>[1] = p
        OBVIOUS
      <4>3. \A x \in InvalidNow : ReasonOf[geom[x[1]]] # None
        BY DEF InvalidNow
      <4>4. QED
        BY <3>2, <4>1, <4>2, <4>3
    <3>4. HasOpen("parcel", p) <=> p \in worker[w].open
      BY <3>2, FlagsAre
    <3>5. p \in Cleared(w) <=> p \in worker[w].open /\ ~ \E x \in worker[w].found : x[1] = p
      BY DEF Cleared
    <3>6. QED
      BY <1>3, <3>3, <3>4, <3>5, AfterParcels
  <2>3. ParcelFlagsExact'
    BY <2>1, <2>2 DEF ParcelFlagsExact, OpenRows, HasOpen
  <2>4. \A p : HasOpen("zoning", p)' <=> HasOpen("zoning", p)
    BY <1>3, AfterParcels
  <2>5. \A x \in settled' \cap Snapshots : x \in settled
    BY <2>1, FlagAssumption
  <2>6. ZoningFlagsComplete'
    BY <2>1, <2>4, <2>5 DEF ZoningFlagsComplete, OpenRows, HasOpen
  <2>7. QED
    BY <2>3, <2>6
<1>4. ASSUME NEW w \in Workers, FlaggedZoning(w)
      PROVE  ParcelFlagsExact' /\ ZoningFlagsComplete'
  <2>1. /\ UNCHANGED <<geom, centroid>> /\ worker[w].pc = "writing"
        /\ settled' = (settled \ Snapshots) \cup (IF worker[w].calm THEN {worker[w].snap} ELSE {})
        /\ worker[w].snap \in Snapshots
    BY <1>4 DEF FlaggedZoning, WorkersInv, FoundOf, ZoningPass
  <2>2. ASSUME NEW x \in settled' \cap Snapshots, NEW p \in Parcels,
               NEW z \in Invalid[x], centroid[p] # None, centroid[p] \in Around[z]
        PROVE  HasOpen("zoning", p)'
    <3>1. worker[w].calm /\ x = worker[w].snap
      BY <2>1, <2>2
    <3>2. worker[w].found = AffectedBy(x) /\ worker[w].open = OpenParcels("zoning")
      BY <2>1, <3>1 DEF CalmInv, CalmOf
    <3>3. <<p, z>> \in AffectedBy(x)
      BY <2>2 DEF AffectedBy
    <3>4. \E y \in worker[w].found : y[1] = p
      BY <3>2, <3>3
    <3>5. HasOpen("zoning", p) <=> p \in worker[w].open
      BY <3>2, FlagsAre
    <3>6. QED
      BY <1>4, <3>4, <3>5, AfterZoning
  <2>3. ZoningFlagsComplete'
    BY <2>1, <2>2 DEF ZoningFlagsComplete, OpenRows, HasOpen
  <2>4. "parcel" \in settled' => "parcel" \in settled
    BY <2>1, FlagAssumption
  <2>5. \A p : HasOpen("parcel", p)' <=> HasOpen("parcel", p)
    BY <1>4, AfterZoning
  <2>6. ParcelFlagsExact'
    BY <2>1, <2>4, <2>5 DEF ParcelFlagsExact, OpenRows, HasOpen
  <2>7. QED
    BY <2>3, <2>6
<1>5. \/ UNCHANGED <<tables, settled>> \/ Moved
      \/ \E w \in Workers : FlaggedParcels(w) \/ FlaggedZoning(w)
  <2>1. UNCHANGED vars => UNCHANGED <<tables, settled>>
    BY DEF vars, tables
  <2>2. \A w \in Workers : Reads(w) \/ Begun(w) \/ Verified(w) \/ Left(w)
                                => UNCHANGED <<tables, settled>>
    BY ReadsType DEF Begun, Verified, Left
  <2>3. QED
    BY <2>1, <2>2, StepsAre
<1>6. QED
  BY <1>1, <1>2, <1>3, <1>4, <1>5

-----------------------------------------------------------------------------
(* The theorems.                                                           *)

LEMMA FlagInit ==
    ASSUME Init
    PROVE  FlagInv
<1>1. \A w \in Workers : worker[w] = Idle
  BY DEF Init
<1>2. TypeInv
  BY IdleType, BoundsAssumption, FlagAssumption DEF Init, TypeInv
<1>3. WorkersInv
  BY <1>1, BoundsAssumption DEF Init, WorkersInv, RunOf, FoundOf, InRun, ParcelPass, ZoningPass, Idle
<1>4. IndexInv /\ CalmInv
  BY <1>1 DEF Init, IndexInv, CalmInv, CalmOf, Idle
<1>5. ParcelFlagsExact /\ ZoningFlagsComplete
  BY DEF Init, ParcelFlagsExact, ZoningFlagsComplete
<1>6. QED
  BY <1>2, <1>3, <1>4, <1>5 DEF FlagInv

LEMMA FlagInvHolds == Spec => []FlagInv
<1>1. Init => FlagInv
  BY FlagInit
<1>2. FlagInv /\ [Next]_vars => FlagInv'
  BY TypeNext, WorkersNext, IndexNext, CalmNext, FlagsNext DEF FlagInv
<1>3. QED
  BY <1>1, <1>2, PTL DEF Spec

\* The tables keep their shape, and a process inside a pass has a job_run that
\* is still 'running' and belongs to no other process.
THEOREM TypesHold == Spec => []TypeOK
<1>1. FlagInv => TypeOK
  <2>1. ASSUME FlagInv
        PROVE  TypeOK
    <3>1. \A w \in Workers : ~At(w, "idle") /\ ~At(w, "half") => InRun(w)
      BY <2>1 DEF FlagInv, TypeInv, WorkerType, At, InRun
    <3>2. \A w \in Workers : worker[w].run \in 0..runs /\ worker[w].open \subseteq Parcels
      BY <2>1 DEF FlagInv, TypeInv, WorkerType, WorkersInv, RunOf
    <3>3. QED
      BY <2>1, <3>1, <3>2 DEF FlagInv, TypeInv, WorkersInv, RunOf, TypeOK
  <2>2. QED
    BY <2>1
<1>2. QED
  BY <1>1, FlagInvHolds, PTL

\* No parcel has two open rows of the zoning detector, whichever processes run
\* and however many invalid polygons contain it (existing_open_parcels, as far
\* as the unique index keeps what it says).
THEOREM OneZoningFlagHolds == Spec => []OneZoningFlag
<1>1. ASSUME FlagInv, NEW p \in Parcels
      PROVE  Cardinality(OpenRows("zoning", p)) <= 1
  <2>1. \A e, f \in OpenRows("zoning", p) : e = f
    BY <1>1 DEF FlagInv, IndexInv, SameKey, OpenRows
  <2>2. CASE OpenRows("zoning", p) = {}
    BY <2>2, FS_EmptySet
  <2>3. ASSUME NEW e \in OpenRows("zoning", p)
        PROVE  Cardinality(OpenRows("zoning", p)) <= 1
    <3>1. OpenRows("zoning", p) = {e}
      BY <2>1, <2>3
    <3>2. Cardinality({e}) = 1
      BY FS_Singleton
    <3>3. QED
      BY <3>1, <3>2
  <2>4. QED
    BY <2>2, <2>3
<1>2. FlagInv => OneZoningFlag
  BY <1>1 DEF OneZoningFlag
<1>3. QED
  BY <1>2, FlagInvHolds, PTL

\* After a parcel pass that nothing disturbed, the flagged parcels are exactly
\* the invalid ones: a repaired polygon loses its flag (C4).
THEOREM ParcelFlagsExactHolds == Spec => []ParcelFlagsExact
<1>1. FlagInv => ParcelFlagsExact
  BY DEF FlagInv
<1>2. QED
  BY <1>1, FlagInvHolds, PTL

\* After a zoning pass that succeeded undisturbed, every parcel whose point lies
\* in a repaired invalid polygon is flagged.
THEOREM ZoningFlagsCompleteHolds == Spec => []ZoningFlagsComplete
<1>1. FlagInv => ZoningFlagsComplete
  BY DEF FlagInv
<1>2. QED
  BY <1>1, FlagInvHolds, PTL

\* A clash is one of the rows raised: none raised, none met.
LEMMA NothingRaised == ~Clash({}, exceptions)
BY DEF Clash

\* A pass that is repeated, with nothing changed since an undisturbed pass of the
\* same detector (and snapshot), raises nothing, closes nothing, and succeeds.
LEMMA RepeatedParcels ==
    ASSUME FlagInv, NEW w \in Workers, CommitParcels(w), worker[w].calm, "parcel" \in settled
    PROVE  Quiet(w)
<1>1. worker[w].pc = "deciding"
  BY CommitParcelsIs
<1>2. worker[w].found = InvalidNow /\ worker[w].open = OpenParcels("parcel")
  BY <1>1 DEF FlagInv, CalmInv, CalmOf
<1>3. worker[w].open \subseteq Parcels
  BY DEF FlagInv, TypeInv, WorkerType
<1>4. \A p \in Parcels : p \in worker[w].open <=> ReasonOf[geom[p]] # None
  BY <1>2, FlagsAre DEF FlagInv
<1>5. \A x \in worker[w].found : x[1] \in worker[w].open
  BY <1>2, <1>4 DEF InvalidNow
<1>6. ParcelRows(w) = {}
  BY <1>5 DEF ParcelRows
<1>7. Cleared(w) = {}
  <2>1. ASSUME NEW p \in worker[w].open
        PROVE  \E x \in worker[w].found : x[1] = p
    <3>1. <<p, ReasonOf[geom[p]]>> \in worker[w].found
      BY <1>2, <1>3, <1>4 DEF InvalidNow
    <3>2. QED
      BY <3>1
  <2>2. QED
    BY <2>1 DEF Cleared
<1>8. ~Clash(ParcelRows(w), exceptions)
  BY <1>6, NothingRaised
<1>9. /\ exceptions' = CloseCleared(w, exceptions \cup ParcelRows(w))
      /\ job' = [job EXCEPT ![worker[w].run] = "succeeded"]
  BY <1>8 DEF CommitParcels, ParcelRows
<1>10. exceptions' = exceptions
  BY <1>6, <1>7, <1>9 DEF CloseCleared, Cleared
<1>11. worker[w].run \in 1..MaxRuns
  BY <1>1, BoundsAssumption DEF FlagInv, TypeInv, WorkersInv, RunOf, InRun, ParcelPass, WorkerType
<1>12. QED
  BY <1>9, <1>10, <1>11 DEF Quiet, FlagInv, TypeInv

LEMMA RepeatedZoning ==
    ASSUME FlagInv, NEW w \in Workers, CommitZoning(w), worker[w].calm,
           worker[w].snap \in settled
    PROVE  Quiet(w)
<1>1. worker[w].pc = "writing" /\ worker[w].snap \in Snapshots
  BY CommitZoningIs DEF FlagInv, WorkersInv, FoundOf, ZoningPass
<1>2. worker[w].found = AffectedBy(worker[w].snap) /\ worker[w].open = OpenParcels("zoning")
  BY <1>1 DEF FlagInv, CalmInv, CalmOf
<1>3. \A x \in worker[w].found : x[1] \in worker[w].open
  <2>1. ASSUME NEW x \in worker[w].found
        PROVE  HasOpen("zoning", x[1])
    <3>1. /\ x[1] \in Parcels /\ x[2] \in Invalid[worker[w].snap]
          /\ centroid[x[1]] # None /\ centroid[x[1]] \in Around[x[2]]
      BY <1>2 DEF AffectedBy
    <3>2. QED
      BY <1>1, <3>1, FlagsAre DEF FlagInv
  <2>2. QED
    BY <1>2, <2>1, FlagsAre
<1>4. ZoningRows(w) = {}
  BY <1>3 DEF ZoningRows
<1>5. ~Clash(ZoningRows(w), exceptions)
  BY <1>4, NothingRaised
<1>6. /\ exceptions' = exceptions \cup ZoningRows(w)
      /\ job' = [job EXCEPT ![worker[w].run] = "succeeded"]
  BY <1>5 DEF CommitZoning, ZoningRows
<1>7. worker[w].run \in 1..MaxRuns
  BY <1>1, BoundsAssumption DEF FlagInv, TypeInv, WorkersInv, RunOf, InRun, ZoningPass, WorkerType
<1>8. QED
  BY <1>4, <1>6, <1>7 DEF Quiet, FlagInv, TypeInv

\* A repeated pass is quiet, whichever of the processes repeats it and whatever the
\* passes before left open or closed.
THEOREM RepeatIsQuietHolds == Spec => RepeatIsQuiet
<1>1. FlagInv /\ [Next]_vars =>
        [\A w \in Workers : worker[w].calm =>
              /\ CommitParcels(w) /\ "parcel" \in settled => Quiet(w)
              /\ CommitZoning(w) /\ worker[w].snap \in settled => Quiet(w)]_vars
  BY RepeatedParcels, RepeatedZoning
<1>2. QED
  BY <1>1, FlagInvHolds, PTL DEF Spec, RepeatIsQuiet
=============================================================================
