----------------------- MODULE ParcelReconcile_proofs -----------------------
(***************************************************************************)
(* Theorems of ParcelReconcile for every set of loaders and features,      *)
(* every content of the snapshots and every bound.                         *)
(***************************************************************************)
EXTENDS ParcelReconcile, SequenceTheorems, TLAPS

-----------------------------------------------------------------------------
(* The inductive invariant.                                                *)

\* A parcel row exists exactly for the identified features.
ParcelsIdentified ==
    \A f \in Features : identity[f] = None <=> parcel[f] = None

\* What a loader holds is about its own snapshot and about known features.
LoadersHold ==
    \A l \in Loaders :
        LET p == loader[l] IN
        /\ p.pc # "idle" => p.snap \in Snapshots
        /\ \A f \in p.new : f \in Features /\ Content[p.snap][f] # None
        /\ \A f \in p.gone : f \in Identified /\ Content[p.snap][f] = None
        /\ \A r \in p.rows : r.feat \in Identified /\ Content[p.snap][r.feat] # None

InRun == {"started", "named", "classified", "captured", "write"}

\* A loader inside its try block owns a 'running' job_run, and no two own
\* the same one.
RunsOwned ==
    /\ \A l \in Loaders : loader[l].pc \in InRun =>
          /\ loader[l].run \in DOMAIN jobs
          /\ jobs[loader[l].run].status = "running"
          /\ jobs[loader[l].run].key = "full"
    /\ \A l, m \in Loaders :
          (/\ loader[l].pc \in InRun /\ loader[m].pc \in InRun
           /\ loader[l].run = loader[m].run) => l = m

TypeInv == TypeOK /\ ParcelsIdentified /\ LoadersHold /\ RunsOwned
-----------------------------------------------------------------------------
(* Lemmas on job_run.                                                      *)

Statuses == {"running", "succeeded", "failed", "skipped_unchanged"}
Errors == {"none", "http", "identity", "unique", "geometry", "check", "other"}

\* Finishing a run changes that row only, and keeps it the row of its job.
LEMMA FinishRunLemma ==
    ASSUME jobs \in Seq(JobRuns), clock \in Nat, NEW j \in DOMAIN jobs,
           NEW status \in Statuses, NEW x \in Snapshots \cup {None},
           NEW error \in Errors, FinishRun(j, status, x, error)
    PROVE  /\ jobs' \in Seq(JobRuns) /\ clock' \in Nat
           /\ DOMAIN jobs' = DOMAIN jobs
           /\ \A k \in DOMAIN jobs :
                 jobs'[k] = IF k = j THEN Run(status, x, clock + 1, error, jobs[j].key)
                            ELSE jobs[k]
<1> DEFINE r == Run(status, x, clock + 1, error, jobs[j].key)
<1>1. DOMAIN jobs = 1 .. Len(jobs)
  BY DOMAIN jobs = 1 .. Len(jobs)
<1>2. jobs[j] \in JobRuns
  BY ElementOfSeq, <1>1
<1>3. r \in JobRuns
  BY <1>2 DEF Run, JobRuns, Statuses, Errors
<1>4. jobs' = [jobs EXCEPT ![j] = r]
  BY DEF FinishRun
<1>5. QED
  BY <1>1, <1>3, <1>4, ExceptSeq DEF FinishRun

\* Appending a run leaves the other rows alone.
LEMMA AppendRunLemma ==
    ASSUME jobs \in Seq(JobRuns), NEW r \in JobRuns, jobs' = Append(jobs, r)
    PROVE  /\ jobs' \in Seq(JobRuns)
           /\ DOMAIN jobs' = DOMAIN jobs \cup {Len(jobs) + 1}
           /\ Len(jobs) + 1 \notin DOMAIN jobs
           /\ jobs'[Len(jobs) + 1] = r
           /\ \A k \in DOMAIN jobs : jobs'[k] = jobs[k]
  BY AppendProperties

-----------------------------------------------------------------------------
(* Lemmas on what a run writes.                                            *)

\* The live fact of a field, when there is one, is a fact of that field.
LEMMA CurrentLemma ==
    ASSUME facts \in SUBSET Facts, NEW f \in Features, NEW field \in Fields
    PROVE  /\ Current(f, field) \in Live(f, field) \cup {None}
           /\ Current(f, field) \in Facts \cup {None}
           /\ Current(f, field) = None <=> Live(f, field) = {}
<1>1. Live(f, field) \subseteq Facts
  BY DEF Live, LiveIn
<1>2. CASE Live(f, field) = {}
  BY <1>2 DEF Current
<1>3. CASE Live(f, field) # {}
  <2>1. Current(f, field) \in Live(f, field)
    BY <1>3 DEF Current
  <2>2. QED
    BY <1>1, <1>3, <2>1, NoneAssumption
<1>4. QED
  BY <1>2, <1>3

\* The rows of the CHANGED query.
LEMMA JoinedRowsLemma ==
    ASSUME TypeOK, NEW x \in Snapshots
    PROVE  /\ JoinedRows(x) \subseteq ChangedRows
           /\ \A r \in JoinedRows(x) : r.feat \in Incoming(x) \cap Identified
<1>1. SUFFICES ASSUME NEW f \in Incoming(x) \cap Identified, Live(f, "geom") # {}
               PROVE  [feat |-> f, apn |-> Current(f, "apn"),
                       geom |-> Current(f, "geom"),
                       back |-> identity[f].retired # 0] \in ChangedRows
  BY DEF JoinedRows
<1>2. f \in Features
  BY DEF Incoming
<1>3. Current(f, "apn") \in Facts \cup {None}
  BY <1>2, CurrentLemma DEF TypeOK, Fields
<1>4. Current(f, "geom") \in Facts
  BY <1>1, <1>2, CurrentLemma DEF TypeOK, Fields
<1>5. QED
  BY <1>2, <1>3, <1>4 DEF ChangedRows

\* The loader's view of a feature that its snapshot carries.
LEMMA InLemma ==
    ASSUME NEW p \in Processes, p.snap \in Snapshots, NEW f \in Features,
           Content[p.snap][f] # None
    PROVE  /\ In(p, f) \in Rows
           /\ In(p, f).apn \in Apns \cup BadApns
           /\ In(p, f).geom \in GoodGeoms \cup BadGeoms
  BY ContentAssumption DEF In, Rows

\* A loader's record is sound when what it holds concerns its own snapshot.
Sound(p) ==
    /\ p \in Processes
    /\ p.snap \in Snapshots
    /\ \A f \in p.new : Content[p.snap][f] # None
    /\ \A f \in p.gone : f \in Identified /\ Content[p.snap][f] = None
    /\ \A r \in p.rows : r.feat \in Identified /\ Content[p.snap][r.feat] # None

LEMMA InsertedFactsType ==
    ASSUME NEW p, Sound(p), ~GeometryRejected(p)
    PROVE  /\ InsertedFacts(p) \subseteq Facts
           /\ \A v \in InsertedFacts(p) : v.run = p.run /\ v.until = 0
<1> SUFFICES ASSUME NEW v \in InsertedFacts(p)
             PROVE  v \in Facts /\ v.run = p.run /\ v.until = 0
  OBVIOUS
<1>p. /\ p \in Processes /\ p.run \in Nat /\ p.new \subseteq Features
      /\ p.snap \in Snapshots /\ p.rows \subseteq ChangedRows
  BY DEF Sound, Processes
<1>n. ASSUME NEW f \in Features, NEW field \in Fields, NEW w \in Values,
             NEW s \in Nat, v = NewFact(p, f, field, w, s)
      PROVE  v \in Facts /\ v.run = p.run /\ v.until = 0
  BY <1>n, <1>p DEF NewFact, Facts
<1>r. ASSUME NEW r \in p.rows
      PROVE  /\ r.feat \in Features
             /\ r.geom.run \in Nat
             /\ r.apn # None => r.apn.run \in Nat
             /\ In(p, r.feat).apn \in Apns \cup BadApns
             /\ In(p, r.feat).geom \in GoodGeoms \cup BadGeoms
  <2>1. r.feat \in Features /\ r.geom \in Facts /\ r.apn \in Facts \cup {None}
    BY <1>p DEF ChangedRows
  <2>2. QED
    BY <1>p, <2>1, InLemma DEF Sound, Facts
<1>1. CASE v \in {NewFact(p, f, "pid", f, 0) : f \in p.new}
  BY <1>1, <1>n, <1>p DEF Fields, Values
<1>2. CASE v \in {NewFact(p, f, "apn", In(p, f).apn, 0) :
                    f \in {g \in p.new : In(p, g).apn \in Apns}}
  BY <1>2, <1>n, <1>p DEF Fields, Values
<1>3. CASE v \in {NewFact(p, f, "geom", In(p, f).geom, 0) :
                    f \in {g \in p.new : In(p, g).geom \in GoodGeoms}}
  BY <1>3, <1>n, <1>p DEF Fields, Values
<1>4. CASE v \in {NewFact(p, r.feat, "apn", In(p, r.feat).apn, r.apn.run) :
                    r \in Replaced(p)}
  <2>1. PICK r \in Replaced(p) :
           v = NewFact(p, r.feat, "apn", In(p, r.feat).apn, r.apn.run)
    BY <1>4
  <2>2. r \in p.rows /\ r.apn # None /\ In(p, r.feat).apn \in Apns
    BY <2>1 DEF Replaced, ApnRows
  <2>3. QED
    BY <2>1, <2>2, <1>n, <1>r DEF Fields, Values
<1>5. CASE v \in {NewFact(p, r.feat, "apn", In(p, r.feat).apn, 0) :
                    r \in Resolved(p)}
  <2>1. PICK r \in Resolved(p) :
           v = NewFact(p, r.feat, "apn", In(p, r.feat).apn, 0)
    BY <1>5
  <2>2. r \in p.rows /\ In(p, r.feat).apn \in Apns
    BY <2>1 DEF Resolved, ApnRows, ApnChanged
  <2>3. QED
    BY <2>1, <2>2, <1>n, <1>r DEF Fields, Values
<1>6. CASE v \in {NewFact(p, r.feat, "geom", In(p, r.feat).geom, r.geom.run) :
                    r \in Moved(p)}
  <2>1. PICK r \in Moved(p) :
           v = NewFact(p, r.feat, "geom", In(p, r.feat).geom, r.geom.run)
    BY <1>6
  <2>2. r \in p.rows /\ In(p, r.feat).geom \in GoodGeoms
    BY <2>1, <1>r DEF Moved, GeometryRejected
  <2>3. QED
    BY <2>1, <2>2, <1>n, <1>r DEF Fields, Values
<1>7. QED
  BY <1>1, <1>2, <1>3, <1>4, <1>5, <1>6 DEF InsertedFacts

\* Retiring changes nothing of a fact but its `until`.
LEMMA RetireLemma ==
    ASSUME NEW p, p.run \in Nat, NEW F, F \subseteq Facts
    PROVE  /\ Retire(p, F) \subseteq Facts
           /\ \A w \in Retire(p, F) : \E v \in F :
                 /\ w = v \/ (v \in Retiring(p) /\ v.until = 0 /\ w = [v EXCEPT !.until = p.run])
                 /\ w.run = v.run /\ w.feat = v.feat /\ w.field = v.field
                 /\ w.val = v.val /\ w.sup = v.sup
                 /\ w.until = v.until \/ (v.until = 0 /\ w.until = p.run)
<1> SUFFICES ASSUME NEW v \in F,
                    NEW w, w = IF v \in Retiring(p) /\ v.until = 0
                               THEN [v EXCEPT !.until = p.run] ELSE v
             PROVE  /\ w \in Facts
                    /\ w = v \/ (v \in Retiring(p) /\ v.until = 0 /\ w = [v EXCEPT !.until = p.run])
                    /\ w.run = v.run /\ w.feat = v.feat /\ w.field = v.field
                    /\ w.val = v.val /\ w.sup = v.sup
                    /\ w.until = v.until \/ (v.until = 0 /\ w.until = p.run)
  BY DEF Retire
<1>1. v \in Facts
  OBVIOUS
<1>2. QED
  BY <1>1 DEF Facts

LEMMA FactsAfterType ==
    ASSUME NEW p, Sound(p), ~GeometryRejected(p), facts \in SUBSET Facts
    PROVE  FactsAfter(p) \in SUBSET Facts
<1>1. p.run \in Nat
  BY DEF Sound, Processes
<1>2. QED
  BY <1>1, RetireLemma, InsertedFactsType DEF FactsAfter

LEMMA InsertedExceptionsType ==
    ASSUME NEW p, Sound(p)
    PROVE  /\ InsertedExceptions(p) \subseteq Exceptions
           /\ \A e \in InsertedExceptions(p) : e.run = p.run /\ e.closed = 0
<1> SUFFICES ASSUME NEW e \in InsertedExceptions(p)
             PROVE  e \in Exceptions /\ e.run = p.run /\ e.closed = 0
  OBVIOUS
<1>p. /\ p \in Processes /\ p.run \in Nat /\ p.new \subseteq Features
      /\ p.gone \subseteq Features
      /\ p.snap \in Snapshots /\ p.rows \subseteq ChangedRows
  BY DEF Sound, Processes
<1>n. ASSUME NEW f \in Features, NEW det \in Detectors,
             NEW why \in BadApns \cup BadGeoms \cup {"absent"},
             e = NewException(p, f, det, why)
      PROVE  e \in Exceptions /\ e.run = p.run /\ e.closed = 0
  BY <1>n, <1>p DEF NewException, Exceptions
<1>1. CASE e \in {NewException(p, f, "apn_unresolvable", In(p, f).apn) :
                    f \in {g \in p.new : In(p, g).apn \in BadApns} \cup FeatsOf(Degraded(p))}
  <2>1. PICK f \in {g \in p.new : In(p, g).apn \in BadApns} \cup FeatsOf(Degraded(p)) :
           e = NewException(p, f, "apn_unresolvable", In(p, f).apn)
    BY <1>1
  <2>2. f \in Features /\ In(p, f).apn \in BadApns
    BY <1>p DEF FeatsOf, Degraded, ApnRows, ChangedRows
  <2>3. QED
    BY <2>1, <2>2, <1>n DEF Detectors
<1>2. CASE e \in {NewException(p, f, "geometry_gap", In(p, f).geom) :
                    f \in {g \in p.new : In(p, g).geom \in BadGeoms}}
  BY <1>2, <1>n, <1>p DEF Detectors
<1>3. CASE e \in {NewException(p, f, "disappeared", "absent") : f \in p.gone \ p.dup}
  BY <1>3, <1>n, <1>p DEF Detectors
<1>4. QED
  BY <1>1, <1>2, <1>3 DEF InsertedExceptions

\* Closing and relinking keep every row, its run and its subject.
LEMMA ExceptionsAfterLemma ==
    ASSUME NEW p, Sound(p), exceptions \in SUBSET Exceptions, clock \in Nat
    PROVE  /\ ExceptionsAfter(p) \in SUBSET Exceptions
           /\ \A e \in ExceptionsAfter(p) :
                 e.run = p.run \/ \E d \in exceptions : d.run = e.run
<1> DEFINE E == CloseCleared(p, exceptions)
           D == E \cup InsertedExceptions(p)
<1>1. E \subseteq Exceptions /\ \A e \in E : \E d \in exceptions : d.run = e.run
  <2> SUFFICES ASSUME NEW d \in exceptions,
                      NEW e, e = IF Closing(p, d) THEN [d EXCEPT !.closed = clock + 1] ELSE d
               PROVE  e \in Exceptions /\ d.run = e.run
    BY DEF CloseCleared
  <2>1. d \in Exceptions
    OBVIOUS
  <2>2. QED
    BY <2>1 DEF Exceptions
<1>2. D \subseteq Exceptions /\ \A e \in D : e.run = p.run \/ \E d \in exceptions : d.run = e.run
  BY <1>1, InsertedExceptionsType
<1>3. Relink(D) \subseteq Exceptions /\ \A e \in Relink(D) : \E d \in D : d.run = e.run
  <2> HIDE DEF E, D
  <2> SUFFICES ASSUME NEW d \in D, NEW e,
                      e = d \/ (/\ Latest(Priors(D, d)) # {}
                                /\ e = [d EXCEPT !.from =
                                      (CHOOSE c \in Latest(Priors(D, d)) : TRUE).run])
               PROVE  e \in Exceptions /\ d.run = e.run
    BY DEF Relink
  <2>1. d \in Exceptions
    BY <1>2
  <2>2. Latest(Priors(D, d)) \subseteq Exceptions
    BY <1>2 DEF Latest, Priors
  <2> DEFINE n == (CHOOSE c \in Latest(Priors(D, d)) : TRUE).run
  <2>3. CASE e = d
    BY <2>1, <2>3
  <2>4. CASE Latest(Priors(D, d)) # {} /\ e = [d EXCEPT !.from = n]
    <3>1. n \in Nat
      BY <2>2, <2>4 DEF Exceptions
    <3> HIDE DEF n
    <3>2. QED
      BY <2>1, <2>4, <3>1 DEF Exceptions
  <2>5. QED
    BY <2>3, <2>4
<1>4. ExceptionsAfter(p) = E \/ ExceptionsAfter(p) = Relink(D)
  BY DEF ExceptionsAfter
<1> HIDE DEF E, D
<1>5. CASE ExceptionsAfter(p) = E
  BY <1>1, <1>5
<1>6. CASE ExceptionsAfter(p) = Relink(D)
  BY <1>2, <1>3, <1>6
<1>7. QED
  BY <1>4, <1>5, <1>6

LEMMA OrNoneType ==
    ASSUME NEW v, NEW S
    PROVE  OrNone(v, S) \in S \cup {None}
  BY DEF OrNone

\* The writes create the parcel rows of the new features and remove none.
LEMMA ParcelAfterLemma ==
    ASSUME TypeOK, ParcelsIdentified, NEW p, Sound(p), NEW f \in Features
    PROVE  /\ ParcelAfter(p, f) \in Parcels \cup {None}
           /\ ParcelAfter(p, f) = None <=> (f \notin p.new /\ parcel[f] = None)
<1>1. CASE f \in p.new
  <2>1. ParcelAfter(p, f) = [apn |-> OrNone(In(p, f).apn, Apns),
                             geom |-> OrNone(In(p, f).geom, GoodGeoms)]
    BY <1>1 DEF ParcelAfter
  <2>2. ParcelAfter(p, f) \in Parcels
    BY <2>1, OrNoneType DEF Parcels
  <2>3. QED
    BY <1>1, <2>2, NoneAssumption
<1>2. CASE f \in FeatsOf(p.rows) \ p.new
  <2> DEFINE a == IF f \in FeatsOf(ApnRows(p)) THEN OrNone(In(p, f).apn, Apns)
                  ELSE parcel[f].apn
             g == IF f \in FeatsOf(Moved(p)) THEN OrNone(In(p, f).geom, GoodGeoms)
                  ELSE parcel[f].geom
  <2>1. ParcelAfter(p, f) = [apn |-> a, geom |-> g]
    BY <1>2 DEF ParcelAfter
  <2>2. parcel[f] \in Parcels
    BY <1>2 DEF TypeOK, ParcelsIdentified, Identified, FeatsOf, Sound
  <2>3. a \in Apns \cup {None}
    BY <2>2, OrNoneType DEF Parcels
  <2>4. g \in GoodGeoms \cup {None}
    BY <2>2, OrNoneType DEF Parcels
  <2>5. [apn |-> a, geom |-> g] \in Parcels
    BY <2>3, <2>4 DEF Parcels
  <2>6. QED
    BY <2>1, <2>2, <2>5, NoneAssumption
<1>3. CASE f \notin p.new /\ f \notin FeatsOf(p.rows)
  <2>1. ParcelAfter(p, f) = parcel[f]
    BY <1>3 DEF ParcelAfter
  <2>2. QED
    BY <1>3, <2>1 DEF TypeOK
<1>4. QED
  BY <1>1, <1>2, <1>3

\* The same of the identity rows; a row is retired by this run or was before.
LEMMA IdentityAfterLemma ==
    ASSUME TypeOK, NEW p, Sound(p), NEW f \in Features
    PROVE  /\ IdentityAfter(p, f) \in Identities \cup {None}
           /\ IdentityAfter(p, f) = None <=> (f \notin p.new /\ identity[f] = None)
           /\ IdentityAfter(p, f) # None =>
                 \/ IdentityAfter(p, f).retired = 0
                 \/ IdentityAfter(p, f).retired = p.run
                 \/ /\ identity[f] # None
                    /\ IdentityAfter(p, f).retired = identity[f].retired
<1>p. /\ p.run \in Nat /\ fetchedAt[p.snap] \in Nat
      /\ f \in p.gone \cup FeatsOf(p.rows) => identity[f] # None
      /\ identity[f] \in Identities \cup {None}
  BY DEF Sound, Processes, TypeOK, Identified, FeatsOf
<1>1. CASE f \in p.new
  <2>0. f \notin p.gone
    BY <1>1 DEF Sound
  <2>1. IdentityAfter(p, f) = [first |-> fetchedAt[p.snap],
                               last |-> fetchedAt[p.snap], retired |-> 0]
    BY <1>1, <2>0 DEF IdentityAfter
  <2>2. IdentityAfter(p, f) \in Identities
    BY <2>1, <1>p DEF Identities
  <2>3. QED
    BY <1>1, <2>1, <2>2, NoneAssumption
<1>2. CASE f \in p.gone
  <2>1. f \notin p.new /\ f \notin FeatsOf(p.rows)
    BY <1>2 DEF Sound, FeatsOf
  <2>2. IdentityAfter(p, f) = [identity[f] EXCEPT !.retired = p.run]
    BY <1>2, <2>1 DEF IdentityAfter
  <2>3. identity[f] \in Identities
    BY <1>2, <1>p
  <2>4. IdentityAfter(p, f) \in Identities /\ IdentityAfter(p, f).retired = p.run
    BY <2>2, <2>3, <1>p DEF Identities
  <2>5. QED
    BY <1>2, <1>p, <2>1, <2>4, NoneAssumption
<1>3. CASE f \in FeatsOf(p.rows) \ (p.new \cup p.gone)
  <2> DEFINE r == IF f \in FeatsOf(Reappeared(p)) THEN 0 ELSE identity[f].retired
  <2>1. IdentityAfter(p, f) = [first |-> identity[f].first,
                               last |-> fetchedAt[p.snap], retired |-> r]
    BY <1>3 DEF IdentityAfter
  <2>2. identity[f] \in Identities
    BY <1>3, <1>p
  <2>3. r \in {0, identity[f].retired}
    OBVIOUS
  <2> HIDE DEF r
  <2>4. /\ IdentityAfter(p, f) \in Identities
        /\ IdentityAfter(p, f).retired \in {0, identity[f].retired}
    BY <2>1, <2>2, <2>3, <1>p DEF Identities
  <2>5. QED
    BY <1>3, <1>p, <2>2, <2>4, NoneAssumption
<1>4. CASE f \notin p.new /\ f \notin p.gone /\ f \notin FeatsOf(p.rows)
  <2>1. IdentityAfter(p, f) = identity[f]
    BY <1>4 DEF IdentityAfter
  <2>2. QED
    BY <1>4, <2>1, <1>p
<1>5. QED
  BY <1>1, <1>2, <1>3, <1>4

-----------------------------------------------------------------------------
(* Type correctness.                                                       *)

LEMMA InitTypeInv ==
    ASSUME Init
    PROVE  TypeInv
<1>1. jobs \in Seq(JobRuns)
  <2>1. \A i \in 1 .. Len(Stored) :
           Run("succeeded", Stored[i], i, "none", "fetch") \in JobRuns
    BY StoredAssumption, ElementOfSeq DEF Run, JobRuns
  <2>2. DOMAIN Stored = 1 .. Len(Stored) /\ Len(Stored) \in Nat
    BY StoredAssumption
  <2>3. jobs = [i \in 1 .. Len(Stored) |->
                  Run("succeeded", Stored[i], i, "none", "fetch")]
    BY <2>2 DEF Init
  <2>4. QED
    BY <2>1, <2>2, <2>3, IsASeq
<1>2. clock \in Nat
  BY StoredAssumption DEF Init
<1>3. fetchedAt \in [Snapshots -> Nat]
  <2>1. \A x \in Snapshots : fetchedAt[x] \in Nat
    <3>1. DOMAIN Stored \subseteq Nat
      BY StoredAssumption
    <3>2. QED
      BY <3>1 DEF Init
  <2>2. QED
    BY <2>1 DEF Init
<1>4. loader \in [Loaders -> Processes]
  BY DEF Init, Idle, Processes
<1>5. /\ facts \in SUBSET Facts /\ exceptions \in SUBSET Exceptions
      /\ identity \in [Features -> Identities \cup {None}]
      /\ parcel \in [Features -> Parcels \cup {None}]
      /\ fresh \in BOOLEAN /\ faults \in Nat
      /\ reconciled \in Snapshots \cup {None}
  BY DEF Init
<1>6. ParcelsIdentified /\ LoadersHold /\ RunsOwned
  BY DEF Init, ParcelsIdentified, LoadersHold, RunsOwned, Idle, InRun
<1>7. QED
  BY <1>1, <1>2, <1>3, <1>4, <1>5, <1>6 DEF TypeInv, TypeOK

\* A loader past its anchor holds a sound record.
LEMMA LoaderSound ==
    ASSUME TypeInv, NEW l \in Loaders, loader[l].pc # "idle"
    PROVE  Sound(loader[l])
  BY DEF TypeInv, TypeOK, LoadersHold, Sound

\* Steps that only move a loader and start no run.
LEMMA LoaderStep ==
    ASSUME TypeInv, NEW l \in Loaders, NEW q \in Processes,
           UNCHANGED <<jobs, clock, fetchedAt, ledger, reconciled>>,
           fresh' \in BOOLEAN, faults' \in Nat,
           loader' = [loader EXCEPT ![l] = q],
           q.pc # "idle" => Sound(q),
           q.pc = "idle" => q = Idle,
           q.pc \in InRun => loader[l].pc \in InRun /\ q.run = loader[l].run
    PROVE  TypeInv'
<1>1. TypeOK'
  BY DEF TypeInv, TypeOK, ledger
<1>2. ParcelsIdentified'
  BY DEF TypeInv, ParcelsIdentified, ledger
<1>3. \A m \in Loaders : loader'[m] = IF m = l THEN q ELSE loader[m]
  BY DEF TypeInv, TypeOK
<1>4. Identified' = Identified
  BY DEF Identified, ledger
<1>5. LoadersHold'
  <2>1. SUFFICES ASSUME NEW m \in Loaders
                 PROVE  LET p == loader'[m] IN
        /\ p.pc # "idle" => p.snap \in Snapshots
        /\ \A f \in p.new : f \in Features /\ Content[p.snap][f] # None
        /\ \A f \in p.gone : f \in Identified /\ Content[p.snap][f] = None
        /\ \A r \in p.rows : r.feat \in Identified /\ Content[p.snap][r.feat] # None
    BY <1>4 DEF LoadersHold
  <2>2. CASE m = l /\ q.pc # "idle"
    BY <1>3, <2>2 DEF Sound, Processes
  <2>3. CASE m = l /\ q.pc = "idle"
    BY <1>3, <2>3 DEF Idle
  <2>4. CASE m # l
    BY <1>3, <2>4 DEF TypeInv, LoadersHold
  <2>5. QED
    BY <2>2, <2>3, <2>4
<1>6. RunsOwned'
  BY <1>3 DEF TypeInv, RunsOwned
<1>7. QED
  BY <1>1, <1>2, <1>5, <1>6 DEF TypeInv

\* A step that only advances a loader's pc.
LEMMA AdvanceLemma ==
    ASSUME TypeInv, NEW l \in Loaders, loader[l].pc # "idle",
           NEW c \in {"write", "refresh"},
           loader' = [loader EXCEPT ![l].pc = c]
    PROVE  \E q \in Processes :
              /\ loader' = [loader EXCEPT ![l] = q]
              /\ q.pc = c /\ q.run = loader[l].run /\ Sound(q)
<1> DEFINE p == loader[l]
           q == [p EXCEPT !.pc = c]
<1>1. p \in Processes /\ Sound(p)
  BY LoaderSound DEF TypeInv, TypeOK
<1>2. loader' = [loader EXCEPT ![l] = q]
  OBVIOUS
<1>3. /\ q \in Processes /\ q.pc = c /\ q.run = p.run /\ q.snap = p.snap
      /\ q.new = p.new /\ q.gone = p.gone /\ q.rows = p.rows
  BY <1>1 DEF Processes
<1>4. Sound(q)
  <2> HIDE DEF q
  <2> QED
    BY <1>1, <1>3 DEF Sound
<1>5. QED
  BY <1>2, <1>3, <1>4

LEMMA FetchType ==
    ASSUME TypeInv, NEW x \in Snapshots, NEW ok \in BOOLEAN, Fetch(x, ok)
    PROVE  TypeInv'
<1> DEFINE r == Run(IF ~ok THEN "failed"
                    ELSE IF fetchedAt[x] = 0 THEN "succeeded"
                    ELSE "skipped_unchanged",
                    x, clock + 1, IF ok THEN "none" ELSE "http", "fetch")
<1>t. TypeOK /\ clock \in Nat /\ jobs \in Seq(JobRuns)
  BY DEF TypeInv, TypeOK
<1>1. r \in JobRuns
  BY <1>t DEF Run, JobRuns
<1>2. jobs' = Append(jobs, r)
  BY DEF Fetch
<1> HIDE DEF r
<1>3. /\ jobs' \in Seq(JobRuns)
      /\ \A k \in DOMAIN jobs : k \in DOMAIN jobs' /\ jobs'[k] = jobs[k]
  BY <1>t, <1>1, <1>2, AppendRunLemma
<1>4. fetchedAt' \in [Snapshots -> Nat]
  <2>1. Len(jobs) \in Nat
    BY <1>t
  <2>2. QED
    BY <2>1, <1>t DEF Fetch, TypeOK
<1>5. TypeOK'
  BY <1>t, <1>3, <1>4 DEF TypeOK, Fetch, ledger
<1>6. ParcelsIdentified' /\ LoadersHold'
  BY DEF TypeInv, ParcelsIdentified, LoadersHold, Fetch, ledger, Identified
<1>7. RunsOwned'
  BY <1>3 DEF TypeInv, RunsOwned, Fetch
<1>8. QED
  BY <1>5, <1>6, <1>7 DEF TypeInv

LEMMA ReadAnchorType ==
    ASSUME TypeInv, NEW l \in Loaders, NEW x \in Snapshots, ReadAnchor(l, x)
    PROVE  TypeInv'
<1> DEFINE q == [Idle EXCEPT !.pc = "anchored", !.snap = x, !.same = (Anchor = x)]
<1>1. /\ q \in Processes /\ q.pc = "anchored" /\ q.snap = x
      /\ q.new = {} /\ q.gone = {} /\ q.rows = {}
  BY DEF Idle, Processes
<1>2. loader' = [loader EXCEPT ![l] = q]
  BY DEF ReadAnchor
<1> HIDE DEF q
<1>3. Sound(q)
  BY <1>1 DEF Sound
<1>4. QED
  BY <1>1, <1>2, <1>3, LoaderStep DEF ReadAnchor, InRun, TypeInv, TypeOK

LEMMA StartRunType ==
    ASSUME TypeInv, NEW l \in Loaders, StartRun(l)
    PROVE  TypeInv'
<1> DEFINE p == loader[l]
           n == Len(jobs) + 1
           r == Run("running", None, 0, "none", "full")
           q == [p EXCEPT !.pc = "started", !.run = n]
<1>t. TypeOK /\ jobs \in Seq(JobRuns) /\ n \in Nat /\ p \in Processes
  BY DEF TypeInv, TypeOK
<1>s. Sound(p)
  BY LoaderSound DEF StartRun
<1>1. r \in JobRuns /\ r.status = "running" /\ r.key = "full"
  BY DEF Run, JobRuns
<1>2. jobs' = Append(jobs, r)
  BY DEF StartRun, StartJob
<1>3. loader' = [loader EXCEPT ![l] = q]
  BY DEF StartRun
<1>4. /\ q \in Processes /\ q.pc = "started" /\ q.run = n /\ q.snap = p.snap
      /\ q.new = p.new /\ q.gone = p.gone /\ q.rows = p.rows
  BY <1>t DEF Processes
<1> HIDE DEF r, q, n
<1>5. Sound(q)
  BY <1>4, <1>s DEF Sound
<1>6. /\ jobs' \in Seq(JobRuns) /\ n \in DOMAIN jobs' /\ n \notin DOMAIN jobs
      /\ jobs'[n] = r
      /\ \A k \in DOMAIN jobs : k \in DOMAIN jobs' /\ jobs'[k] = jobs[k]
  BY <1>t, <1>1, <1>2, AppendRunLemma DEF n
<1>7. \A m \in Loaders : loader'[m] = IF m = l THEN q ELSE loader[m]
  BY <1>3 DEF TypeInv, TypeOK
<1>8. TypeOK'
  BY <1>t, <1>3, <1>4, <1>6 DEF TypeOK, StartRun, ledger
<1>9. ParcelsIdentified' /\ Identified' = Identified
  BY DEF TypeInv, ParcelsIdentified, StartRun, ledger, Identified
<1>10. LoadersHold'
  <2>1. SUFFICES ASSUME NEW m \in Loaders
                 PROVE  LET h == loader'[m] IN
        /\ h.pc # "idle" => h.snap \in Snapshots
        /\ \A f \in h.new : f \in Features /\ Content[h.snap][f] # None
        /\ \A f \in h.gone : f \in Identified /\ Content[h.snap][f] = None
        /\ \A w \in h.rows : w.feat \in Identified /\ Content[h.snap][w.feat] # None
    BY <1>9 DEF LoadersHold
  <2>2. CASE m = l
    BY <1>4, <1>5, <1>7, <2>2 DEF Sound, Processes
  <2>3. CASE m # l
    BY <1>7, <2>3 DEF TypeInv, LoadersHold
  <2>4. QED
    BY <2>2, <2>3
<1>11. RunsOwned'
  BY <1>1, <1>4, <1>6, <1>7 DEF TypeInv, RunsOwned, InRun
<1>12. QED
  BY <1>8, <1>9, <1>10, <1>11 DEF TypeInv

\* Steps that end with an idle loader and leave the tables alone.
LEMMA EndType ==
    ASSUME TypeInv, NEW l \in Loaders,
           RefreshView(l) \/ RefreshFails(l) \/ Crash(l)
    PROVE  TypeInv'
<1>1. Idle \in Processes /\ Idle.pc = "idle"
  BY DEF Idle, Processes
<1>2. /\ UNCHANGED <<jobs, clock, fetchedAt, ledger, reconciled>>
      /\ fresh' \in BOOLEAN /\ faults' \in Nat
      /\ loader' = [loader EXCEPT ![l] = Idle]
  <2>1. fresh \in BOOLEAN /\ faults \in Nat
    BY DEF TypeInv, TypeOK
  <2>2. fresh' \in BOOLEAN
    BY <2>1, Zenon DEF RefreshView, RefreshFails, Crash
  <2>3. faults' \in Nat
    BY <2>1 DEF RefreshView, RefreshFails, Crash
  <2>4. QED
    BY <2>2, <2>3 DEF RefreshView, RefreshFails, Crash
<1>3. QED
  BY <1>1, <1>2, LoaderStep DEF InRun

LEMMA VerifyIdentitiesType ==
    ASSUME TypeInv, NEW l \in Loaders, VerifyIdentities(l)
    PROVE  TypeInv'
<1>1. PICK q \in Processes : /\ loader' = [loader EXCEPT ![l] = q]
                             /\ q.pc = "write" /\ q.run = loader[l].run /\ Sound(q)
  BY AdvanceLemma DEF VerifyIdentities
<1>2. QED
  BY <1>1, LoaderStep DEF VerifyIdentities, InRun, TypeInv, TypeOK

LEMMA ClassifyNewType ==
    ASSUME TypeInv, NEW l \in Loaders, ClassifyNew(l)
    PROVE  TypeInv'
<1> DEFINE p == loader[l]
           q == [p EXCEPT !.pc = "named", !.new = Incoming(p.snap) \ Identified]
<1>1. p \in Processes /\ Sound(p)
  BY LoaderSound DEF ClassifyNew, TypeInv, TypeOK
<1>2. loader' = [loader EXCEPT ![l] = q]
  BY DEF ClassifyNew
<1>3. Incoming(p.snap) \ Identified \subseteq Features
  BY DEF Incoming
<1>4. /\ q \in Processes /\ q.pc = "named" /\ q.run = p.run /\ q.snap = p.snap
      /\ q.new = Incoming(p.snap) \ Identified /\ q.gone = p.gone /\ q.rows = p.rows
  BY <1>1, <1>3 DEF Processes
<1> HIDE DEF q
<1>5. Sound(q)
  BY <1>1, <1>4 DEF Sound, Incoming
<1>6. QED
  BY <1>2, <1>4, <1>5, LoaderStep DEF ClassifyNew, InRun, TypeInv, TypeOK

LEMMA ClassifyGoneType ==
    ASSUME TypeInv, NEW l \in Loaders, ClassifyGone(l)
    PROVE  TypeInv'
<1> DEFINE p == loader[l]
           q == [p EXCEPT !.pc = "classified", !.gone = Active \ Incoming(p.snap)]
<1>1. p \in Processes /\ Sound(p)
  BY LoaderSound DEF ClassifyGone, TypeInv, TypeOK
<1>2. loader' = [loader EXCEPT ![l] = q]
  BY DEF ClassifyGone
<1>3. Active \ Incoming(p.snap) \subseteq Features
  BY DEF Active, Identified
<1>4. /\ q \in Processes /\ q.pc = "classified" /\ q.run = p.run /\ q.snap = p.snap
      /\ q.new = p.new /\ q.gone = Active \ Incoming(p.snap) /\ q.rows = p.rows
  BY <1>1, <1>3 DEF Processes
<1> HIDE DEF q
<1>5. Sound(q)
  BY <1>1, <1>4 DEF Sound, Incoming, Active, Identified
<1>6. QED
  BY <1>2, <1>4, <1>5, LoaderStep DEF ClassifyGone, InRun, TypeInv, TypeOK

LEMMA CaptureChangesType ==
    ASSUME TypeInv, NEW l \in Loaders, CaptureChanges(l)
    PROVE  TypeInv'
<1> DEFINE p == loader[l]
           R == {r \in JoinedRows(p.snap) : Selected(r, In(p, r.feat))}
           q == [p EXCEPT !.pc = "captured", !.rows = R]
<1>1. p \in Processes /\ Sound(p)
  BY LoaderSound DEF CaptureChanges, TypeInv, TypeOK
<1>2. loader' = [loader EXCEPT ![l] = q]
  BY DEF CaptureChanges
<1>3. /\ R \subseteq ChangedRows
      /\ \A r \in R : r.feat \in Identified /\ Content[p.snap][r.feat] # None
  BY <1>1, JoinedRowsLemma DEF TypeInv, Sound, Incoming
<1> HIDE DEF R
<1>4. /\ q \in Processes /\ q.pc = "captured" /\ q.run = p.run /\ q.snap = p.snap
      /\ q.new = p.new /\ q.gone = p.gone /\ q.rows = R
  BY <1>1, <1>3 DEF Processes
<1> HIDE DEF q
<1>5. Sound(q)
  BY <1>1, <1>3, <1>4 DEF Sound
<1>6. QED
  BY <1>2, <1>4, <1>5, LoaderStep DEF CaptureChanges, InRun, TypeInv, TypeOK

LEMMA CaptureOpenType ==
    ASSUME TypeInv, NEW l \in Loaders, CaptureOpen(l)
    PROVE  TypeInv'
<1> DEFINE p == loader[l]
           q == [p EXCEPT !.pc = "write", !.dup = p.gone \cap OpenDisappeared]
<1>1. p \in Processes /\ Sound(p)
  BY LoaderSound DEF CaptureOpen, TypeInv, TypeOK
<1>2. loader' = [loader EXCEPT ![l] = q]
  BY DEF CaptureOpen
<1>3. /\ q \in Processes /\ q.pc = "write" /\ q.run = p.run /\ q.snap = p.snap
      /\ q.new = p.new /\ q.gone = p.gone /\ q.rows = p.rows
  BY <1>1 DEF Processes
<1> HIDE DEF q
<1>4. Sound(q)
  BY <1>1, <1>3 DEF Sound
<1>5. QED
  BY <1>2, <1>3, <1>4, LoaderStep DEF CaptureOpen, InRun, TypeInv, TypeOK

\* Steps that end a run as failed.
LEMMA FailRunType ==
    ASSUME TypeInv, NEW l \in Loaders, NEW error \in Errors,
           loader[l].pc \in InRun, FailRun(l, error), faults' \in Nat
    PROVE  TypeInv'
<1> DEFINE j == loader[l].run
<1>1. TypeOK /\ j \in DOMAIN jobs
  BY DEF TypeInv, RunsOwned
<1>2. FinishRun(j, "failed", None, error)
  BY DEF FailRun
<1>3. /\ jobs' \in Seq(JobRuns) /\ clock' \in Nat /\ DOMAIN jobs' = DOMAIN jobs
      /\ \A k \in DOMAIN jobs : k # j => jobs'[k] = jobs[k]
  <2>1. /\ jobs \in Seq(JobRuns) /\ clock \in Nat /\ "failed" \in Statuses
        /\ None \in Snapshots \cup {None}
    BY <1>1 DEF TypeOK, Statuses
  <2> HIDE DEF j
  <2> QED BY <1>1, <1>2, <2>1, FinishRunLemma
<1>4. Idle \in Processes /\ Idle.pc = "idle"
  BY DEF Idle, Processes
<1>5. \A m \in Loaders : loader'[m] = IF m = l THEN Idle ELSE loader[m]
  BY <1>1 DEF FailRun, TypeOK
<1>6. TypeOK'
  BY <1>1, <1>3, <1>4 DEF TypeOK, FailRun, ledger
<1>7. ParcelsIdentified' /\ Identified' = Identified
  BY DEF TypeInv, ParcelsIdentified, FailRun, ledger, Identified
<1>8. LoadersHold'
  <2>1. SUFFICES ASSUME NEW m \in Loaders
                 PROVE  LET h == loader'[m] IN
        /\ h.pc # "idle" => h.snap \in Snapshots
        /\ \A f \in h.new : f \in Features /\ Content[h.snap][f] # None
        /\ \A f \in h.gone : f \in Identified /\ Content[h.snap][f] = None
        /\ \A w \in h.rows : w.feat \in Identified /\ Content[h.snap][w.feat] # None
    BY <1>7 DEF LoadersHold
  <2>2. CASE m = l
    BY <1>5, <2>2 DEF Idle
  <2>3. CASE m # l
    BY <1>5, <2>3 DEF TypeInv, LoadersHold
  <2>4. QED
    BY <2>2, <2>3
<1>9. RunsOwned'
  <2>1. \A m \in Loaders : loader'[m].pc \in InRun =>
           m # l /\ loader'[m] = loader[m] /\ loader[m].run # j
    BY <1>4, <1>5 DEF TypeInv, RunsOwned, InRun
  <2>2. QED
    BY <1>3, <2>1 DEF TypeInv, RunsOwned
<1>10. QED
  BY <1>6, <1>7, <1>8, <1>9 DEF TypeInv

\* A commit ends its own job_run and no other.
LEMMA CommitRun ==
    ASSUME TypeInv, NEW l \in Loaders, Commit(l)
    PROVE  /\ loader[l].run \in DOMAIN jobs /\ jobs[loader[l].run].key = "full"
           /\ jobs' \in Seq(JobRuns) /\ clock' \in Nat /\ DOMAIN jobs' = DOMAIN jobs
           /\ jobs'[loader[l].run].key = "full"
           /\ jobs'[loader[l].run].status = "succeeded"
           /\ \A k \in DOMAIN jobs : k # loader[l].run => jobs'[k] = jobs[k]
<1> DEFINE j == loader[l].run
           x == loader[l].snap
<1>1. TypeOK /\ j \in DOMAIN jobs /\ jobs[j].key = "full"
  BY DEF TypeInv, RunsOwned, Commit, InRun
<1>2. x \in Snapshots
  BY DEF TypeInv, LoadersHold, Commit
<1>3. FinishRun(j, "succeeded", x, "none")
  BY DEF Commit
<1>4. /\ jobs' \in Seq(JobRuns) /\ clock' \in Nat /\ DOMAIN jobs' = DOMAIN jobs
      /\ \A k \in DOMAIN jobs :
            jobs'[k] = IF k = j THEN Run("succeeded", x, clock + 1, "none", jobs[j].key)
                       ELSE jobs[k]
  <2>1. /\ jobs \in Seq(JobRuns) /\ clock \in Nat /\ "succeeded" \in Statuses
        /\ x \in Snapshots \cup {None} /\ "none" \in Errors
    BY <1>1, <1>2 DEF TypeOK, Statuses, Errors
  <2> HIDE DEF j, x
  <2> QED BY <1>1, <1>3, <2>1, FinishRunLemma
<1>5. QED
  BY <1>1, <1>4 DEF Run

\* A commit adds identities and removes none.
LEMMA CommitIdentities ==
    ASSUME TypeInv, NEW l \in Loaders, Commit(l)
    PROVE  /\ ParcelsIdentified' /\ Identified \subseteq Identified'
           /\ identity' \in [Features -> Identities \cup {None}]
           /\ parcel' \in [Features -> Parcels \cup {None}]
<1> DEFINE p == loader[l]
<1>1. Sound(p) /\ TypeOK /\ ParcelsIdentified
  BY LoaderSound DEF Commit, TypeInv
<1>2. /\ identity' = [f \in Features |-> IdentityAfter(p, f)]
      /\ parcel' = [f \in Features |-> ParcelAfter(p, f)]
  BY DEF Commit
<1>3. ASSUME NEW f \in Features
      PROVE  /\ identity'[f] \in Identities \cup {None}
             /\ parcel'[f] \in Parcels \cup {None}
             /\ identity'[f] = None <=> (f \notin p.new /\ identity[f] = None)
             /\ parcel'[f] = None <=> (f \notin p.new /\ parcel[f] = None)
  BY <1>1, <1>2, IdentityAfterLemma, ParcelAfterLemma
<1>4. QED
  BY <1>1, <1>2, <1>3 DEF ParcelsIdentified, Identified

LEMMA CommitType ==
    ASSUME TypeInv, NEW l \in Loaders, Commit(l)
    PROVE  TypeInv'
<1> DEFINE p == loader[l]
           q == [p EXCEPT !.pc = "refresh"]
<1>1. Sound(p) /\ TypeOK
  BY LoaderSound DEF Commit, TypeInv
<1>2. ~GeometryRejected(p)
  BY DEF Commit, Writable
<1>3. PICK r \in Processes : /\ loader' = [loader EXCEPT ![l] = r]
                             /\ r.pc = "refresh" /\ Sound(r)
  BY AdvanceLemma DEF Commit
<1>4. facts' \in SUBSET Facts
  BY <1>1, <1>2, FactsAfterType DEF Commit, TypeOK
<1>5. exceptions' \in SUBSET Exceptions
  BY <1>1, ExceptionsAfterLemma DEF Commit, TypeOK
<1>6. fresh' \in BOOLEAN
  <2>1. fresh' = (fresh /\ facts' = facts)
    BY DEF Commit
  <2>2. QED
    BY <2>1, Zenon
<1>7. reconciled' \in Snapshots \cup {None}
  BY <1>1 DEF Commit, TypeOK, Sound
<1>8. TypeOK'
  BY <1>1, <1>3, <1>4, <1>5, <1>6, <1>7, CommitRun, CommitIdentities
     DEF TypeOK, Commit
<1>9. \A m \in Loaders : loader'[m] = IF m = l THEN r ELSE loader[m]
  BY <1>1, <1>3 DEF TypeOK
<1>10. LoadersHold'
  <2>1. SUFFICES ASSUME NEW m \in Loaders
                 PROVE  LET h == loader'[m] IN
        /\ h.pc # "idle" => h.snap \in Snapshots
        /\ \A f \in h.new : f \in Features /\ Content[h.snap][f] # None
        /\ \A f \in h.gone : f \in Identified' /\ Content[h.snap][f] = None
        /\ \A w \in h.rows : w.feat \in Identified' /\ Content[h.snap][w.feat] # None
    BY DEF LoadersHold
  <2>2. CASE m = l
    BY <1>3, <1>9, <2>2, CommitIdentities DEF Sound, Processes
  <2>3. CASE m # l
    BY <1>9, <2>3, CommitIdentities DEF TypeInv, LoadersHold
  <2>4. QED
    BY <2>2, <2>3
<1>11. RunsOwned'
  <2>1. \A m \in Loaders : loader'[m].pc \in InRun =>
           m # l /\ loader'[m] = loader[m] /\ loader[m].run # p.run
    BY <1>3, <1>9 DEF TypeInv, RunsOwned, InRun, Commit
  <2>2. QED
    BY <2>1, CommitRun DEF TypeInv, RunsOwned
<1>12. QED
  BY <1>8, <1>10, <1>11, CommitIdentities DEF TypeInv

\* Every step keeps the invariant.
LEMMA NextTypeInv ==
    ASSUME TypeInv, [Next]_vars
    PROVE  TypeInv'
<1>1. CASE UNCHANGED vars
  BY <1>1 DEF vars, ledger, TypeInv, TypeOK, ParcelsIdentified, LoadersHold,
             RunsOwned, Identified
<1>2. ASSUME NEW x \in Snapshots, NEW ok \in BOOLEAN, Fetch(x, ok)
      PROVE  TypeInv'
  BY <1>2, FetchType
<1>3. ASSUME NEW l \in Loaders, NEW x \in Snapshots, ReadAnchor(l, x)
      PROVE  TypeInv'
  BY <1>3, ReadAnchorType
<1>4. ASSUME NEW l \in Loaders, StartRun(l)
      PROVE  TypeInv'
  BY <1>4, StartRunType
<1>5. ASSUME NEW l \in Loaders, VerifyIdentities(l)
      PROVE  TypeInv'
  BY <1>5, VerifyIdentitiesType
<1>6. ASSUME NEW l \in Loaders, RefuseIdentities(l)
      PROVE  TypeInv'
  BY <1>6, FailRunType DEF RefuseIdentities, InRun, Errors, TypeInv, TypeOK
<1>7. ASSUME NEW l \in Loaders, ClassifyNew(l) \/ ClassifyGone(l)
      PROVE  TypeInv'
  BY <1>7, ClassifyNewType, ClassifyGoneType
<1>8. ASSUME NEW l \in Loaders, CaptureChanges(l) \/ CaptureOpen(l)
      PROVE  TypeInv'
  BY <1>8, CaptureChangesType, CaptureOpenType
<1>9. ASSUME NEW l \in Loaders, Commit(l)
      PROVE  TypeInv'
  BY <1>9, CommitType
<1>10. ASSUME NEW l \in Loaders, Abort(l)
       PROVE  TypeInv'
  <2>1. CommitError(loader[l]) \in Errors
    BY DEF CommitError, Errors
  <2>2. QED
    BY <1>10, <2>1, FailRunType DEF Abort, InRun, TypeInv, TypeOK
<1>11. ASSUME NEW l \in Loaders, Fail(l)
       PROVE  TypeInv'
  BY <1>11, FailRunType DEF Fail, InRun, Errors, TypeInv, TypeOK
<1>12. ASSUME NEW l \in Loaders, RefreshView(l) \/ RefreshFails(l) \/ Crash(l)
       PROVE  TypeInv'
  BY <1>12, EndType
<1>13. QED
  BY <1>1, <1>2, <1>3, <1>4, <1>5, <1>6, <1>7, <1>8, <1>9, <1>10, <1>11, <1>12
     DEF Next

\* In every reachable state of any number of loaders, every table holds rows
\* of its type.
THEOREM TypeCorrect == Spec => []TypeOK
<1>1. Init => TypeInv
  BY InitTypeInv
<1>2. TypeInv /\ [Next]_vars => TypeInv'
  BY NextTypeInv
<1>3. TypeInv => TypeOK
  BY DEF TypeInv
<1>4. QED
  BY <1>1, <1>2, <1>3, PTL DEF Spec

-----------------------------------------------------------------------------
(* Terminal job_runs and provenance.                                       *)

\* The rows that disagree with `jobs` after a step were 'running' before it.
LEMMA NextKeepsTerminal ==
    ASSUME TypeInv, [Next]_vars
    PROVE  \A j \in DOMAIN jobs :
              /\ j \in DOMAIN jobs'
              /\ jobs[j].status # "running" => jobs'[j] = jobs[j]
<1>t. jobs \in Seq(JobRuns) /\ clock \in Nat
  BY DEF TypeInv, TypeOK
<1>u. CASE UNCHANGED jobs
  BY <1>u
<1>f. ASSUME NEW l \in Loaders, NEW error \in Errors,
             loader[l].pc \in InRun, FailRun(l, error)
      PROVE  \A j \in DOMAIN jobs :
                /\ j \in DOMAIN jobs'
                /\ jobs[j].status # "running" => jobs'[j] = jobs[j]
  <2>1. /\ loader[l].run \in DOMAIN jobs
        /\ jobs[loader[l].run].status = "running"
    BY <1>f DEF TypeInv, RunsOwned
  <2>2. FinishRun(loader[l].run, "failed", None, error)
    BY <1>f DEF FailRun
  <2>3. /\ DOMAIN jobs' = DOMAIN jobs
        /\ \A k \in DOMAIN jobs : k # loader[l].run => jobs'[k] = jobs[k]
    <3>1. None \in Snapshots \cup {None} /\ "failed" \in Statuses
      BY DEF Statuses
    <3>2. QED
      BY <1>t, <2>1, <2>2, <3>1, FinishRunLemma
  <2>4. QED
    BY <2>1, <2>3
<1>1. ASSUME NEW x \in Snapshots, NEW ok \in BOOLEAN, Fetch(x, ok)
      PROVE  \A j \in DOMAIN jobs : j \in DOMAIN jobs' /\ jobs'[j] = jobs[j]
  <2> DEFINE r == Run(IF ~ok THEN "failed"
                      ELSE IF fetchedAt[x] = 0 THEN "succeeded"
                      ELSE "skipped_unchanged",
                      x, clock + 1, IF ok THEN "none" ELSE "http", "fetch")
  <2>1. r \in JobRuns
    BY <1>t DEF Run, JobRuns
  <2>2. jobs' = Append(jobs, r)
    BY <1>1 DEF Fetch
  <2> HIDE DEF r
  <2>3. QED
    BY <1>t, <2>1, <2>2, AppendRunLemma
<1>2. ASSUME NEW l \in Loaders, StartRun(l)
      PROVE  \A j \in DOMAIN jobs : j \in DOMAIN jobs' /\ jobs'[j] = jobs[j]
  <2>1. Run("running", None, 0, "none", "full") \in JobRuns
    BY DEF Run, JobRuns
  <2>2. QED
    BY <1>2, <1>t, <2>1, AppendRunLemma DEF StartRun, StartJob
<1>3. ASSUME NEW l \in Loaders, Commit(l)
      PROVE  \A j \in DOMAIN jobs :
                /\ j \in DOMAIN jobs'
                /\ jobs[j].status # "running" => jobs'[j] = jobs[j]
  <2>1. jobs[loader[l].run].status = "running"
    BY <1>3 DEF TypeInv, RunsOwned, Commit, InRun
  <2>2. QED
    BY <1>3, <2>1, CommitRun
<1>4. ASSUME NEW l \in Loaders, RefuseIdentities(l) \/ Fail(l)
      PROVE  \A j \in DOMAIN jobs :
                /\ j \in DOMAIN jobs'
                /\ jobs[j].status # "running" => jobs'[j] = jobs[j]
  BY <1>4, <1>f DEF RefuseIdentities, Fail, InRun, Errors
<1>5. ASSUME NEW l \in Loaders, Abort(l)
      PROVE  \A j \in DOMAIN jobs :
                /\ j \in DOMAIN jobs'
                /\ jobs[j].status # "running" => jobs'[j] = jobs[j]
  <2>1. CommitError(loader[l]) \in Errors
    BY DEF CommitError, Errors
  <2>2. QED
    BY <1>5, <2>1, <1>f DEF Abort, InRun
<1>6. ASSUME NEW l \in Loaders,
             \/ \E x \in Snapshots : ReadAnchor(l, x)
             \/ VerifyIdentities(l) \/ ClassifyNew(l) \/ ClassifyGone(l)
             \/ CaptureChanges(l) \/ CaptureOpen(l)
             \/ RefreshView(l) \/ RefreshFails(l) \/ Crash(l)
      PROVE  UNCHANGED jobs
  BY <1>6 DEF ReadAnchor, VerifyIdentities, ClassifyNew, ClassifyGone, CaptureChanges,
              CaptureOpen, RefreshView, RefreshFails, Crash
<1>7. CASE UNCHANGED vars
  BY <1>7, <1>u DEF vars
<1>8. QED
  BY <1>1, <1>2, <1>3, <1>4, <1>5, <1>6, <1>7, <1>u DEF Next

\* In every behaviour of any number of loaders, a job_run that has ended is
\* never rewritten.
THEOREM TerminalJobsStayHolds == Spec => TerminalJobsStay
<1>1. TypeInv /\ [Next]_vars =>
         [\A j \in DOMAIN jobs :
            jobs[j].status # "running" => jobs'[j] = jobs[j]]_vars
  BY NextKeepsTerminal
<1>2. Init => TypeInv
  BY InitTypeInv
<1>3. TypeInv /\ [Next]_vars => TypeInv'
  BY NextTypeInv
<1>4. QED
  BY <1>1, <1>2, <1>3, PTL DEF Spec, TerminalJobsStay

\* The runs that may sign ledger rows.
Signed == {j \in DOMAIN jobs : jobs[j].key = "full" /\ jobs[j].status = "succeeded"}

LEMMA SignedStays ==
    ASSUME TypeInv, [Next]_vars
    PROVE  Signed \subseteq Signed'
  BY NextKeepsTerminal DEF Signed

LEMMA ProvenanceSigned ==
    Provenance <=>
        /\ \A v \in facts : v.run \in Signed /\ (v.until # 0 => v.until \in Signed)
        /\ \A e \in exceptions : e.run \in Signed
        /\ \A f \in Identified :
              identity[f].retired # 0 => identity[f].retired \in Signed
  BY DEF Provenance, Signed

\* The ledger changes in a commit only.
LEMMA OnlyCommitWrites ==
    ASSUME [Next]_vars, ~(\E l \in Loaders : Commit(l))
    PROVE  UNCHANGED <<facts, identity, exceptions>>
<1>1. CASE UNCHANGED vars
  BY <1>1 DEF vars
<1>2. ASSUME NEW x \in Snapshots, NEW ok \in BOOLEAN, Fetch(x, ok)
      PROVE  UNCHANGED ledger
  BY <1>2 DEF Fetch
<1>3. ASSUME NEW l \in Loaders,
             \/ \E x \in Snapshots : ReadAnchor(l, x)
             \/ StartRun(l) \/ VerifyIdentities(l) \/ ClassifyNew(l) \/ ClassifyGone(l)
             \/ CaptureChanges(l) \/ CaptureOpen(l) \/ RefreshView(l) \/ RefreshFails(l) \/ Crash(l)
      PROVE  UNCHANGED ledger
  BY <1>3 DEF ReadAnchor, StartRun, VerifyIdentities, ClassifyNew, ClassifyGone,
              CaptureChanges, CaptureOpen, RefreshView, RefreshFails, Crash
<1>4. ASSUME NEW l \in Loaders, RefuseIdentities(l) \/ Abort(l) \/ Fail(l)
      PROVE  UNCHANGED ledger
  BY <1>4 DEF RefuseIdentities, Abort, Fail, FailRun
<1>5. QED
  BY <1>1, <1>2, <1>3, <1>4 DEF Next, ledger

LEMMA CommitSigned ==
    ASSUME TypeInv, [Next]_vars, Provenance, NEW l \in Loaders, Commit(l)
    PROVE  Provenance'
<1> DEFINE p == loader[l]
<1>1. Sound(p) /\ TypeOK /\ p.run \in Nat /\ ~GeometryRejected(p)
  BY LoaderSound DEF Commit, TypeInv, Writable, Sound, Processes
<1>2. p.run \in Signed'
  BY CommitRun DEF Signed
<1>3. \A v \in facts' : v.run \in Signed' /\ (v.until # 0 => v.until \in Signed')
  <2> TAKE v \in facts'
  <2>1. v \in Retire(p, facts) \/ v \in InsertedFacts(p)
    BY DEF Commit, FactsAfter
  <2>2. CASE v \in Retire(p, facts)
    <3>1. PICK w \in facts : /\ v.run = w.run
                             /\ v.until = w.until \/ v.until = p.run
      BY <2>2, <1>1, RetireLemma DEF TypeOK
    <3>2. w.run \in Signed /\ (w.until # 0 => w.until \in Signed)
      BY ProvenanceSigned
    <3>3. QED
      BY <1>2, <3>1, <3>2, SignedStays
  <2>3. CASE v \in InsertedFacts(p)
    BY <2>3, <1>1, <1>2, InsertedFactsType
  <2>4. QED
    BY <2>1, <2>2, <2>3
<1>4. \A e \in exceptions' : e.run \in Signed'
  <2> TAKE e \in exceptions'
  <2>1. e.run = p.run \/ \E d \in exceptions : d.run = e.run
    BY <1>1, ExceptionsAfterLemma DEF Commit, TypeOK
  <2>2. \A d \in exceptions : d.run \in Signed
    BY ProvenanceSigned
  <2>3. QED
    BY <1>2, <2>1, <2>2, SignedStays
<1>5. \A f \in Identified' : identity'[f].retired # 0 => identity'[f].retired \in Signed'
  <2> TAKE f \in Identified'
  <2>1. f \in Features /\ identity'[f] # None /\ identity'[f] = IdentityAfter(p, f)
    BY DEF Identified, Commit
  <2>2. \/ identity'[f].retired = 0 \/ identity'[f].retired = p.run
        \/ identity[f] # None /\ identity'[f].retired = identity[f].retired
    BY <1>1, <2>1, IdentityAfterLemma
  <2>3. identity[f] # None /\ identity[f].retired # 0 => identity[f].retired \in Signed
    BY <2>1 DEF Provenance, Signed, Identified
  <2>4. QED
    BY <1>2, <2>2, <2>3, SignedStays
<1>6. QED
  BY <1>3, <1>4, <1>5 DEF Provenance, Signed

LEMMA NextProvenance ==
    ASSUME TypeInv, Provenance, [Next]_vars
    PROVE  Provenance'
<1>1. CASE \E l \in Loaders : Commit(l)
  BY <1>1, CommitSigned
<1>2. CASE ~(\E l \in Loaders : Commit(l))
  <2>1. UNCHANGED <<facts, identity, exceptions>> /\ Identified' = Identified
    BY <1>2, OnlyCommitWrites DEF Identified
  <2>2. /\ \A v \in facts : v.run \in Signed /\ (v.until # 0 => v.until \in Signed)
        /\ \A e \in exceptions : e.run \in Signed
        /\ \A f \in Identified : identity[f].retired # 0 => identity[f].retired \in Signed
    BY ProvenanceSigned
  <2>3. /\ \A v \in facts' : v.run \in Signed' /\ (v.until # 0 => v.until \in Signed')
        /\ \A e \in exceptions' : e.run \in Signed'
        /\ \A f \in Identified' : identity'[f].retired # 0 => identity'[f].retired \in Signed'
    BY <2>1, <2>2, SignedStays
  <2>4. QED
    BY <2>3 DEF Provenance, Signed
<1>3. QED
  BY <1>1, <1>2

\* In every reachable state of any number of loaders, crashes and failures
\* included, all ledger rows belong to phase_e runs that succeeded.
THEOREM ProvenanceHolds == Spec => []Provenance
<1>1. Init => TypeInv /\ Provenance
  <2>1. Init => Provenance
    BY DEF Init, Provenance, Identified
  <2>2. QED
    BY <2>1, InitTypeInv
<1>2. TypeInv /\ Provenance /\ [Next]_vars => TypeInv' /\ Provenance'
  BY NextTypeInv, NextProvenance
<1>3. QED
  BY <1>1, <1>2, PTL DEF Spec

-----------------------------------------------------------------------------
(* History.                                                                *)

\* A commit keeps every fact row, up to one supersession, and every closed
\* exception.
LEMMA CommitKeeps ==
    ASSUME TypeInv, NEW l \in Loaders, Commit(l)
    PROVE  /\ \A v \in facts :
                 \/ v \in facts'
                 \/ v.until = 0 /\ \E w \in facts' : w = [v EXCEPT !.until = w.until]
           /\ \A e \in exceptions : e.closed # 0 => e \in exceptions'
<1> DEFINE p == loader[l]
           E == CloseCleared(p, exceptions)
<1>t. facts \subseteq Facts /\ exceptions \subseteq Exceptions
  BY DEF TypeInv, TypeOK
<1>1. ASSUME NEW v \in facts
      PROVE  \/ v \in facts'
             \/ v.until = 0 /\ \E w \in facts' : w = [v EXCEPT !.until = w.until]
  <2> DEFINE u == [v EXCEPT !.until = p.run]
  <2>1. Retire(p, facts) \subseteq facts'
    BY DEF Commit, FactsAfter
  <2>2. CASE v \in Retiring(p) /\ v.until = 0
    <3>1. u \in Retire(p, facts)
      BY <2>2 DEF Retire
    <3>2. u = [v EXCEPT !.until = u.until]
      BY <1>t DEF Facts
    <3> HIDE DEF u
    <3>3. QED
      BY <2>1, <2>2, <3>1, <3>2
  <2>3. CASE ~(v \in Retiring(p) /\ v.until = 0)
    BY <2>1, <2>3 DEF Retire
  <2>4. QED
    BY <2>2, <2>3
<1>2. ASSUME NEW e \in exceptions, e.closed # 0
      PROVE  e \in exceptions'
  <2>1. e \in E
    BY <1>2 DEF CloseCleared, Closing
  <2>2. e \in Relink(E \cup InsertedExceptions(p))
    BY <1>2, <2>1 DEF Relink
  <2>3. QED
    BY <2>1, <2>2 DEF Commit, ExceptionsAfter
<1>3. QED
  BY <1>1, <1>2

\* In every behaviour of any number of loaders, interleaved in any order, no
\* fact is deleted or rewritten: it is superseded at most once, and a closed
\* exception is never touched again.
THEOREM HistoryKeptHolds == Spec => HistoryKept
<1> DEFINE A == /\ \A v \in facts :
                      \/ v \in facts'
                      \/ v.until = 0 /\ \E w \in facts' : w = [v EXCEPT !.until = w.until]
                /\ \A e \in exceptions : e.closed # 0 => e \in exceptions'
<1>1. TypeInv /\ [Next]_vars => [A]_vars
  <2> SUFFICES ASSUME TypeInv, [Next]_vars PROVE A
    OBVIOUS
  <2>1. CASE \E l \in Loaders : Commit(l)
    BY <2>1, CommitKeeps
  <2>2. CASE ~(\E l \in Loaders : Commit(l))
    BY <2>2, OnlyCommitWrites
  <2>3. QED
    BY <2>1, <2>2
<1>2. Init => TypeInv
  BY InitTypeInv
<1>3. TypeInv /\ [Next]_vars => TypeInv'
  BY NextTypeInv
<1>4. QED
  BY <1>1, <1>2, <1>3, PTL DEF Spec, HistoryKept
=============================================================================
