------------------------ MODULE ParcelSerial_proofs ------------------------
(***************************************************************************)
(* Theorems of ParcelReconcile for one loader, the way the scripts are run: *)
(* what the ledger says after any sequence of runs, for every set of       *)
(* features, every content of the snapshots and every bound.               *)
(***************************************************************************)
EXTENDS ParcelReconcile_proofs, FiniteSetTheorems, WellFoundedInduction

\* At most one phase_e process at a time.
OneLoader == \A l, m \in Loaders : l = m

-----------------------------------------------------------------------------
(* The inductive invariant.                                                *)

SameKey(v, w) == v.feat = w.feat /\ v.field = w.field

\* The facts are about identified features, hold usable values, have one live
\* row and one row of a run for each key, and their versions form a line.
FactsInv ==
    /\ \A v \in facts : v.feat \in Identified
    /\ \A v \in facts : v.field = "apn" => v.val \in Apns
    /\ \A v, w \in facts : SameKey(v, w) /\ v.until = 0 /\ w.until = 0 => v = w
    /\ \A v, w \in facts : SameKey(v, w) /\ v.run = w.run => v = w
    /\ LinearHistory

SameSubject(d, e) == d.feat = e.feat /\ d.det = e.det

\* The detectors whose rows phase_e closes and relinks.
Relinked == {"apn_unresolvable", "disappeared"}

\* The exceptions are about identified features, with one open row and one row
\* of a run for each parcel and detector; a link leads to an earlier row that
\* was closed before, and an open row without one has nothing to link to.
ExceptionsInv ==
    /\ \A e \in exceptions : e.feat \in Identified /\ e.closed <= clock
    /\ \A d, e \in exceptions : SameSubject(d, e) /\ d.closed = 0 /\ e.closed = 0 => d = e
    /\ \A d, e \in exceptions : SameSubject(d, e) /\ d.run = e.run => d = e
    /\ \A d, e \in exceptions :
          e.from # 0 /\ SameSubject(d, e) /\ d.run = e.from =>
              d.closed # 0 /\ (e.closed # 0 => d.closed < e.closed)
    /\ \A e \in exceptions :
          e.closed = 0 /\ e.from = 0 /\ e.det \in Relinked => Priors(exceptions, e) = {}
    /\ ReopenedOnce

\* OpenExceptionsMatch without its count.
OpenMatch ==
    \A f \in Identified :
        /\ Open(f, "disappeared") = {} <=> f \in Active
        /\ Open(f, "apn_unresolvable") = {} <=> Live(f, "apn") # {}

\* The parcel row caches the values of its live facts.
CachesMatch ==
    \A f \in Identified :
        /\ \A v \in Live(f, "apn") : parcel[f].apn = v.val
        /\ Live(f, "apn") = {} => parcel[f].apn = None
        /\ \A v \in Live(f, "geom") : parcel[f].geom = v.val

\* What a loader has read is what the ledger still says, as nobody else writes.
Reads(p) ==
    /\ p.pc \in {"anchored", "started"} =>
          p.new = {} /\ p.gone = {} /\ p.rows = {} /\ p.dup = {}
    /\ p.pc \in {"named", "classified", "captured"} => ~p.same
    /\ p.pc \in {"named", "classified", "captured", "write"} /\ ~p.same =>
          p.new = Incoming(p.snap) \ Identified
    /\ p.pc \in {"classified", "captured", "write"} /\ ~p.same =>
          p.gone = Active \ Incoming(p.snap)
    /\ p.pc \in {"captured", "write"} /\ ~p.same =>
          p.rows = {r \in JoinedRows(p.snap) : Selected(r, In(p, r.feat))}
    /\ p.pc = "write" /\ ~p.same => p.dup = p.gone \cap OpenDisappeared
    /\ p.pc = "write" /\ p.same =>
          p.new = {} /\ p.gone = {} /\ p.rows = {} /\ p.dup = {}

\* Its run is the last phase_e run that was started.
Newest(p) == p.pc \in InRun => \A k \in DOMAIN jobs : jobs[k].key = "full" => k <= p.run

LoadersRead == \A l \in Loaders : Reads(loader[l]) /\ Newest(loader[l])

LedgerInv == FactsInv /\ ExceptionsInv /\ OpenMatch /\ CachesMatch
             /\ MirrorsReconciled

SerialInv == LedgerInv /\ NoUniqueClash /\ LoadersRead

-----------------------------------------------------------------------------
(* Steps that write nothing to the ledger.                                 *)

LEMMA InitSerialInv ==
    ASSUME Init
    PROVE  SerialInv
<1>1. Identified = {} /\ facts = {} /\ exceptions = {}
  BY DEF Init, Identified
<1>2. FactsInv /\ ExceptionsInv /\ ReopenedOnce
  BY <1>1 DEF FactsInv, LinearHistory, ExceptionsInv, ReopenedOnce
<1>3. OpenMatch /\ CachesMatch
  BY <1>1 DEF OpenMatch, CachesMatch
<1>4. MirrorsReconciled /\ NoUniqueClash
  BY DEF Init, MirrorsReconciled, NoUniqueClash, Run
<1>5. LoadersRead
  BY DEF Init, LoadersRead, Idle, Reads, Newest, InRun
<1>6. QED
  BY <1>2, <1>3, <1>4, <1>5 DEF SerialInv, LedgerInv

\* A step that leaves the ledger alone keeps what is said about it.
LEMMA QuietKeeps ==
    ASSUME TypeInv, LedgerInv, UNCHANGED <<ledger, reconciled>>,
           clock' \in Nat, clock <= clock'
    PROVE  LedgerInv'
<1>1. UNCHANGED <<facts, identity, parcel, exceptions, reconciled>>
  BY DEF ledger
<1>2. Identified' = Identified /\ Active' = Active
  BY <1>1 DEF Identified, Active
<1>3. FactsInv'
  BY <1>1, <1>2 DEF LedgerInv, FactsInv, LinearHistory
<1>4. ExceptionsInv'
  <2>1. \A e \in exceptions : e.closed <= clock'
    BY DEF TypeInv, TypeOK, Exceptions, LedgerInv, ExceptionsInv
  <2>2. QED
    BY <1>1, <1>2, <2>1 DEF LedgerInv, ExceptionsInv, ReopenedOnce
<1>5. OpenMatch' /\ CachesMatch'
  BY <1>1, <1>2 DEF LedgerInv, OpenMatch, CachesMatch, Open, Live
<1>6. MirrorsReconciled'
  BY <1>1, <1>2 DEF LedgerInv, MirrorsReconciled, Live
<1>7. QED
  BY <1>3, <1>4, <1>5, <1>6 DEF LedgerInv

\* The same for a step that appends no failed run, or ends one for a cause
\* other than a uniqueness constraint.
LEMMA QuietErrors ==
    ASSUME NoUniqueClash,
           \A j \in DOMAIN jobs' :
              jobs'[j].error # "unique" \/ (j \in DOMAIN jobs /\ jobs'[j] = jobs[j])
    PROVE  NoUniqueClash'
  BY DEF NoUniqueClash

\* The loader that is alone has read what the ledger says when its record does.
LEMMA AloneReads ==
    ASSUME OneLoader, NEW l \in Loaders, Reads(loader[l])', Newest(loader[l])'
    PROVE  LoadersRead'
  BY DEF OneLoader, LoadersRead

LEMMA FetchSerial ==
    ASSUME TypeInv, SerialInv, NEW x \in Snapshots, NEW ok \in BOOLEAN, Fetch(x, ok)
    PROVE  SerialInv'
<1> DEFINE r == Run(IF ~ok THEN "failed"
                    ELSE IF fetchedAt[x] = 0 THEN "succeeded"
                    ELSE "skipped_unchanged",
                    x, clock + 1, IF ok THEN "none" ELSE "http", "fetch")
<1>t. clock \in Nat /\ jobs \in Seq(JobRuns)
  BY DEF TypeInv, TypeOK
<1>1. r \in JobRuns /\ r.error # "unique" /\ r.key = "fetch"
  BY <1>t DEF Run, JobRuns
<1>2. jobs' = Append(jobs, r)
  BY DEF Fetch
<1> HIDE DEF r
<1>3. /\ DOMAIN jobs' = DOMAIN jobs \cup {Len(jobs) + 1}
      /\ jobs'[Len(jobs) + 1] = r
      /\ \A k \in DOMAIN jobs : jobs'[k] = jobs[k]
  BY <1>t, <1>1, <1>2, AppendRunLemma
<1>4. LedgerInv'
  BY <1>t, QuietKeeps DEF SerialInv, Fetch
<1>5. NoUniqueClash'
  BY <1>1, <1>3, QuietErrors DEF SerialInv
<1>6. ASSUME NEW l \in Loaders
      PROVE  Reads(loader[l])' /\ Newest(loader[l])'
  <2>1. Reads(loader[l]) /\ Newest(loader[l])
    BY DEF SerialInv, LoadersRead
  <2>2. Reads(loader[l])'
    BY <2>1 DEF Fetch, ledger, Reads, Incoming, Identified, Active, JoinedRows,
                Current, Live, OpenDisappeared
  <2>3. Newest(loader[l])'
    BY <1>1, <1>3, <2>1 DEF Fetch, Newest
  <2>4. QED
    BY <2>2, <2>3
<1>7. QED
  BY <1>4, <1>5, <1>6 DEF SerialInv, LoadersRead

\* A step that only moves the one loader, to a record that matches the ledger.
LEMMA MoveSerial ==
    ASSUME OneLoader, TypeInv, SerialInv, NEW l \in Loaders, NEW q,
           UNCHANGED <<jobs, clock, ledger, reconciled>>,
           loader' = [loader EXCEPT ![l] = q], Reads(q), Newest(q)
    PROVE  SerialInv'
<1>1. LedgerInv'
  BY QuietKeeps DEF SerialInv, TypeInv, TypeOK
<1>2. NoUniqueClash'
  BY DEF SerialInv, NoUniqueClash
<1>3. loader'[l] = q
  BY DEF TypeInv, TypeOK
<1>4. Reads(loader[l])'
  BY <1>3 DEF ledger, Reads, Incoming, Identified, Active, JoinedRows,
              Current, Live, OpenDisappeared
<1>5. Newest(loader[l])'
  BY <1>3 DEF Newest
<1>6. QED
  BY <1>1, <1>2, <1>4, <1>5, AloneReads DEF SerialInv

LEMMA ReadAnchorSerial ==
    ASSUME OneLoader, TypeInv, SerialInv, NEW l \in Loaders, NEW x \in Snapshots,
           ReadAnchor(l, x)
    PROVE  SerialInv'
<1> DEFINE q == [Idle EXCEPT !.pc = "anchored", !.snap = x, !.same = (Anchor = x)]
<1>1. /\ q.pc = "anchored" /\ q.new = {} /\ q.gone = {} /\ q.rows = {} /\ q.dup = {}
      /\ loader' = [loader EXCEPT ![l] = q]
  BY DEF Idle, ReadAnchor
<1> HIDE DEF q
<1>2. Reads(q) /\ Newest(q)
  BY <1>1 DEF Reads, Newest, InRun
<1>3. QED
  BY <1>1, <1>2, MoveSerial DEF ReadAnchor

LEMMA StartRunSerial ==
    ASSUME OneLoader, TypeInv, SerialInv, NEW l \in Loaders, StartRun(l)
    PROVE  SerialInv'
<1> DEFINE p == loader[l]
           n == Len(jobs) + 1
           r == Run("running", None, 0, "none", "full")
           q == [p EXCEPT !.pc = "started", !.run = n]
<1>t. /\ clock \in Nat /\ jobs \in Seq(JobRuns) /\ p \in Processes
      /\ n \in Nat /\ DOMAIN jobs = 1 .. n - 1
  BY DEF TypeInv, TypeOK
<1>1. r \in JobRuns /\ r.error # "unique"
  BY DEF Run, JobRuns
<1>2. jobs' = Append(jobs, r)
  BY DEF StartRun, StartJob
<1>3. /\ q.pc = "started" /\ q.run = n /\ q.same = p.same /\ q.new = p.new
      /\ q.gone = p.gone /\ q.rows = p.rows /\ q.dup = p.dup
  BY <1>t DEF Processes
<1>4. loader'[l] = q
  BY DEF StartRun, TypeInv, TypeOK
<1> HIDE DEF r, q, n
<1>5. /\ DOMAIN jobs' = DOMAIN jobs \cup {n} /\ jobs'[n] = r
      /\ \A k \in DOMAIN jobs : jobs'[k] = jobs[k]
  BY <1>t, <1>1, <1>2, AppendRunLemma DEF n
<1>6. LedgerInv'
  BY <1>t, QuietKeeps DEF SerialInv, StartRun
<1>7. NoUniqueClash'
  BY <1>1, <1>5, QuietErrors DEF SerialInv
<1>8. Reads(loader[l])'
  <2>1. p.new = {} /\ p.gone = {} /\ p.rows = {} /\ p.dup = {}
    BY DEF SerialInv, LoadersRead, Reads, StartRun
  <2>2. QED
    BY <2>1, <1>3, <1>4 DEF Reads
<1>9. Newest(loader[l])'
  BY <1>t, <1>3, <1>4, <1>5 DEF Newest
<1>10. QED
  BY <1>6, <1>7, <1>8, <1>9, AloneReads DEF SerialInv

LEMMA VerifyIdentitiesSerial ==
    ASSUME OneLoader, TypeInv, SerialInv, NEW l \in Loaders, VerifyIdentities(l)
    PROVE  SerialInv'
<1> DEFINE p == loader[l]
           q == [p EXCEPT !.pc = "write"]
<1>1. p \in Processes /\ p.pc = "started" /\ p.same /\ Reads(p) /\ Newest(p)
  BY DEF TypeInv, TypeOK, SerialInv, LoadersRead, VerifyIdentities
<1>2. /\ q.pc = "write" /\ q.run = p.run /\ q.same = p.same /\ q.new = p.new
      /\ q.gone = p.gone /\ q.rows = p.rows /\ q.dup = p.dup
      /\ loader' = [loader EXCEPT ![l] = q]
  BY <1>1 DEF Processes, VerifyIdentities
<1> HIDE DEF q
<1>3. Reads(q) /\ Newest(q)
  BY <1>1, <1>2 DEF Reads, Newest, InRun
<1>4. QED
  BY <1>2, <1>3, MoveSerial DEF VerifyIdentities

LEMMA ClassifyNewSerial ==
    ASSUME OneLoader, TypeInv, SerialInv, NEW l \in Loaders, ClassifyNew(l)
    PROVE  SerialInv'
<1> DEFINE p == loader[l]
           q == [p EXCEPT !.pc = "named", !.new = Incoming(p.snap) \ Identified]
<1>1. p \in Processes /\ p.pc = "started" /\ ~p.same /\ Newest(p)
  BY DEF TypeInv, TypeOK, SerialInv, LoadersRead, ClassifyNew
<1>2. /\ q.pc = "named" /\ q.run = p.run /\ q.same = p.same /\ q.snap = p.snap
      /\ q.new = Incoming(p.snap) \ Identified
      /\ loader' = [loader EXCEPT ![l] = q]
  BY <1>1 DEF Processes, ClassifyNew
<1> HIDE DEF q
<1>3. Reads(q) /\ Newest(q)
  BY <1>1, <1>2 DEF Reads, Newest, InRun
<1>4. QED
  BY <1>2, <1>3, MoveSerial DEF ClassifyNew

LEMMA ClassifyGoneSerial ==
    ASSUME OneLoader, TypeInv, SerialInv, NEW l \in Loaders, ClassifyGone(l)
    PROVE  SerialInv'
<1> DEFINE p == loader[l]
           q == [p EXCEPT !.pc = "classified", !.gone = Active \ Incoming(p.snap)]
<1>1. p \in Processes /\ p.pc = "named" /\ Reads(p) /\ Newest(p)
  BY DEF TypeInv, TypeOK, SerialInv, LoadersRead, ClassifyGone
<1>2. /\ q.pc = "classified" /\ q.run = p.run /\ q.same = p.same /\ q.snap = p.snap
      /\ q.new = p.new /\ q.gone = Active \ Incoming(p.snap)
      /\ loader' = [loader EXCEPT ![l] = q]
  BY <1>1 DEF Processes, ClassifyGone
<1> HIDE DEF q
<1>3. Reads(q) /\ Newest(q)
  BY <1>1, <1>2 DEF Reads, Newest, InRun
<1>4. QED
  BY <1>2, <1>3, MoveSerial DEF ClassifyGone

LEMMA CaptureChangesSerial ==
    ASSUME OneLoader, TypeInv, SerialInv, NEW l \in Loaders, CaptureChanges(l)
    PROVE  SerialInv'
<1> DEFINE p == loader[l]
           R == {r \in JoinedRows(p.snap) : Selected(r, In(p, r.feat))}
           q == [p EXCEPT !.pc = "captured", !.rows = R]
<1>1. p \in Processes /\ p.pc = "classified" /\ Reads(p) /\ Newest(p)
  BY DEF TypeInv, TypeOK, SerialInv, LoadersRead, CaptureChanges
<1>2. /\ q.pc = "captured" /\ q.run = p.run /\ q.same = p.same /\ q.snap = p.snap
      /\ q.new = p.new /\ q.gone = p.gone /\ q.rows = R
      /\ loader' = [loader EXCEPT ![l] = q]
  BY <1>1 DEF Processes, CaptureChanges
<1>3. R = {r \in JoinedRows(q.snap) : Selected(r, In(q, r.feat))}
  BY <1>2 DEF In
<1> HIDE DEF q, R
<1>4. Reads(q) /\ Newest(q)
  BY <1>1, <1>2, <1>3 DEF Reads, Newest, InRun
<1>5. QED
  BY <1>2, <1>4, MoveSerial DEF CaptureChanges

LEMMA CaptureOpenSerial ==
    ASSUME OneLoader, TypeInv, SerialInv, NEW l \in Loaders, CaptureOpen(l)
    PROVE  SerialInv'
<1> DEFINE p == loader[l]
           q == [p EXCEPT !.pc = "write", !.dup = p.gone \cap OpenDisappeared]
<1>1. p \in Processes /\ p.pc = "captured" /\ Reads(p) /\ Newest(p)
  BY DEF TypeInv, TypeOK, SerialInv, LoadersRead, CaptureOpen
<1>2. /\ q.pc = "write" /\ q.run = p.run /\ q.same = p.same /\ q.snap = p.snap
      /\ q.new = p.new /\ q.gone = p.gone /\ q.rows = p.rows
      /\ q.dup = p.gone \cap OpenDisappeared
      /\ loader' = [loader EXCEPT ![l] = q]
  BY <1>1 DEF Processes, CaptureOpen
<1>3. {r \in JoinedRows(q.snap) : Selected(r, In(q, r.feat))}
        = {r \in JoinedRows(p.snap) : Selected(r, In(p, r.feat))}
  BY <1>2 DEF In
<1> HIDE DEF q
<1>4. Reads(q) /\ Newest(q)
  BY <1>1, <1>2, <1>3 DEF Reads, Newest, InRun
<1>5. QED
  BY <1>2, <1>4, MoveSerial DEF CaptureOpen

LEMMA IdleReads == Reads(Idle) /\ Newest(Idle)
  BY DEF Idle, Reads, Newest, InRun

LEMMA EndSerial ==
    ASSUME OneLoader, TypeInv, SerialInv, NEW l \in Loaders,
           RefreshView(l) \/ RefreshFails(l) \/ Crash(l)
    PROVE  SerialInv'
<1>1. /\ loader' = [loader EXCEPT ![l] = Idle]
      /\ UNCHANGED <<jobs, clock, ledger, reconciled>>
  BY DEF RefreshView, RefreshFails, Crash
<1>2. QED
  BY <1>1, IdleReads, MoveSerial

LEMMA FailRunSerial ==
    ASSUME OneLoader, TypeInv, SerialInv, NEW l \in Loaders,
           NEW error \in Errors \ {"unique"},
           loader[l].pc \in InRun, FailRun(l, error)
    PROVE  SerialInv'
<1> DEFINE j == loader[l].run
<1>1. jobs \in Seq(JobRuns) /\ clock \in Nat /\ j \in DOMAIN jobs
  BY DEF TypeInv, TypeOK, RunsOwned
<1>2. FinishRun(j, "failed", None, error)
  BY DEF FailRun
<1>3. /\ DOMAIN jobs' = DOMAIN jobs /\ clock' = clock + 1
      /\ \A k \in DOMAIN jobs :
            jobs'[k] = IF k = j THEN Run("failed", None, clock + 1, error, jobs[j].key)
                       ELSE jobs[k]
  BY <1>1, <1>2, FinishRunLemma DEF Statuses, FinishRun
<1>4. LedgerInv'
  BY <1>1, <1>3, QuietKeeps DEF SerialInv, FailRun
<1>5. NoUniqueClash'
  BY <1>3, QuietErrors DEF SerialInv, Run
<1>6. loader'[l] = Idle
  BY DEF FailRun, TypeInv, TypeOK
<1>7. Reads(loader[l])' /\ Newest(loader[l])'
  BY <1>6 DEF Idle, Reads, Newest, InRun
<1>8. QED
  BY <1>4, <1>5, <1>7, AloneReads DEF SerialInv

-----------------------------------------------------------------------------
(* A loader that is about to merge a snapshot, and what it will write.     *)

\* All that a commit may rely on: the record is what the ledger says, and the
\* ledger's rows are older than the run.
Merging(p) ==
    /\ TypeOK /\ ParcelsIdentified /\ LedgerInv
    /\ Sound(p) /\ p.run \in Nat \ {0}
    /\ p.new = Incoming(p.snap) \ Identified
    /\ p.gone = Active \ Incoming(p.snap)
    /\ p.rows = {r \in JoinedRows(p.snap) : Selected(r, In(p, r.feat))}
    /\ p.dup = p.gone \cap OpenDisappeared
    /\ \A v \in facts : v.run \in 1 .. p.run - 1 /\ v.until < p.run
    /\ \A e \in exceptions : e.run \in 1 .. p.run - 1

LEMMA WriterMerges ==
    ASSUME TypeInv, Provenance, SerialInv, NEW l \in Loaders,
           loader[l].pc = "write", ~loader[l].same
    PROVE  Merging(loader[l])
<1> DEFINE p == loader[l]
<1>1. Sound(p)
  BY LoaderSound
<1>2. Reads(p) /\ Newest(p)
  BY DEF SerialInv, LoadersRead
<1>3. p.run \in DOMAIN jobs /\ jobs[p.run].status = "running"
  BY DEF TypeInv, RunsOwned, InRun
<1>4. jobs \in Seq(JobRuns) /\ DOMAIN jobs = 1 .. Len(jobs) /\ Len(jobs) \in Nat
  BY DEF TypeInv, TypeOK
<1>5. ASSUME NEW j \in Signed PROVE j \in 1 .. p.run - 1
  BY <1>2, <1>3, <1>4 DEF Signed, Newest, InRun
<1>6. /\ \A v \in facts : v.run \in Signed /\ (v.until # 0 => v.until \in Signed)
      /\ \A e \in exceptions : e.run \in Signed
  BY ProvenanceSigned
<1>7. p.run \in Nat \ {0}
  BY <1>3, <1>4
<1>8. \A v \in facts : v.until < p.run
  BY <1>5, <1>6, <1>7
<1>9. QED
  BY <1>1, <1>2, <1>5, <1>6, <1>7, <1>8 DEF Merging, Reads, SerialInv, TypeInv

\* The join of the staged features with the ledger.
Joined(p, f) == f \in Incoming(p.snap) \cap Identified /\ Live(f, "geom") # {}

\* The branches of the CHANGED loop, as conditions on the ledger.
Drops(p, f) ==
    Joined(p, f) /\ Live(f, "apn") # {} /\ In(p, f).apn \in BadApns
Swaps(p, f) ==
    /\ Joined(p, f) /\ Live(f, "apn") # {} /\ In(p, f).apn \in Apns
    /\ Current(f, "apn").val # In(p, f).apn
Finds(p, f) == Joined(p, f) /\ Live(f, "apn") = {} /\ In(p, f).apn \in Apns
Shifts(p, f) == Joined(p, f) /\ Current(f, "geom").val # In(p, f).geom
Returns(p, f) == Joined(p, f) /\ f \notin Active

RowOf(f) == [feat |-> f, apn |-> Current(f, "apn"), geom |-> Current(f, "geom"),
             back |-> identity[f].retired # 0]

\* What a live fact is, and that the query's row shows it.
LEMMA LiveLemma ==
    ASSUME TypeOK, FactsInv, NEW f \in Features, NEW field \in Fields,
           Live(f, field) # {}
    PROVE  /\ Live(f, field) = {Current(f, field)}
           /\ Current(f, field) \in facts /\ Current(f, field) \in Facts
           /\ Current(f, field) # None
           /\ Current(f, field).feat = f /\ Current(f, field).field = field
           /\ Current(f, field).until = 0
           /\ field = "apn" => Current(f, field).val \in Apns
<1>1. Current(f, field) \in Live(f, field)
  BY CurrentLemma DEF TypeOK
<1>2. \A v \in Live(f, field) : v = Current(f, field)
  BY <1>1 DEF Live, LiveIn, FactsInv, SameKey
<1>3. QED
  BY <1>1, <1>2, NoneAssumption DEF Live, LiveIn, FactsInv, TypeOK

LEMMA RowsLemma ==
    ASSUME NEW p, Merging(p)
    PROVE  /\ \A r \in p.rows : Joined(p, r.feat) /\ r = RowOf(r.feat)
           /\ \A f \in Features :
                 /\ f \in FeatsOf(Degraded(p)) <=> Drops(p, f)
                 /\ f \in FeatsOf(Replaced(p)) <=> Swaps(p, f)
                 /\ f \in FeatsOf(Resolved(p)) <=> Finds(p, f)
                 /\ f \in FeatsOf(Moved(p)) <=> Shifts(p, f)
                 /\ f \in FeatsOf(Reappeared(p)) <=> Returns(p, f)
                 /\ f \in FeatsOf(ApnRows(p)) <=>
                       Drops(p, f) \/ Swaps(p, f) \/ Finds(p, f)
                 /\ f \in FeatsOf(p.rows) => Joined(p, f)
<1>t. TypeOK /\ FactsInv /\ Sound(p) /\ p \in Processes /\ p.snap \in Snapshots
  BY DEF Merging, LedgerInv, Sound
<1>1. ASSUME NEW r
      PROVE  r \in p.rows <=> /\ Joined(p, r.feat) /\ r = RowOf(r.feat)
                              /\ Selected(r, In(p, r.feat))
  <2>1. r \in JoinedRows(p.snap) <=> Joined(p, r.feat) /\ r = RowOf(r.feat)
    BY DEF JoinedRows, Joined, RowOf
  <2>2. QED
    BY <2>1 DEF Merging
<1>2. ASSUME NEW f \in Features, Joined(p, f)
      PROVE  /\ RowOf(f).feat = f
             /\ RowOf(f).apn = None <=> Live(f, "apn") = {}
             /\ In(p, f).apn \in Apns \cup BadApns
             /\ ApnChanged(RowOf(f), In(p, f)) <=>
                   Drops(p, f) \/ Swaps(p, f) \/ Finds(p, f)
             /\ GeomChanged(RowOf(f), In(p, f)) <=> Shifts(p, f)
             /\ RowOf(f).back <=> Returns(p, f)
  <2>1. RowOf(f).feat = f /\ RowOf(f).apn = Current(f, "apn")
        /\ RowOf(f).geom = Current(f, "geom")
        /\ (RowOf(f).back <=> identity[f].retired # 0)
    BY DEF RowOf
  <2>2. RowOf(f).apn = None <=> Live(f, "apn") = {}
    BY <1>t, <2>1, CurrentLemma DEF TypeOK, Fields
  <2>3. In(p, f).apn \in Apns \cup BadApns
    BY <1>t, <1>2, InLemma DEF Joined, Incoming
  <2>4. Live(f, "apn") # {} => Current(f, "apn").val \in Apns
    BY <1>t, LiveLemma DEF Fields
  <2>5. ApnChanged(RowOf(f), In(p, f)) <=>
           Drops(p, f) \/ Swaps(p, f) \/ Finds(p, f)
    BY <1>2, <2>1, <2>2, <2>3, <2>4, ValuesAssumption
       DEF ApnChanged, Drops, Swaps, Finds
  <2>6. RowOf(f).back <=> Returns(p, f)
    BY <1>2, <2>1 DEF Returns, Active, Joined
  <2>7. GeomChanged(RowOf(f), In(p, f)) <=> Shifts(p, f)
    BY <1>2, <2>1 DEF GeomChanged, Shifts
  <2>8. QED
    BY <2>1, <2>2, <2>3, <2>5, <2>6, <2>7
<1>3. ASSUME NEW f \in Features, Joined(p, f),
             Drops(p, f) \/ Swaps(p, f) \/ Finds(p, f) \/ Shifts(p, f) \/ Returns(p, f)
      PROVE  RowOf(f) \in p.rows
  <2>1. Selected(RowOf(f), In(p, f))
    BY <1>2, <1>3 DEF Selected
  <2>2. QED
    BY <1>1, <1>2, <1>3, <2>1
<1>4. \A r \in p.rows : r.feat \in Features /\ Joined(p, r.feat) /\ r = RowOf(r.feat)
  BY <1>1 DEF Joined, Incoming
<1>5. ASSUME NEW f \in Features
      PROVE  /\ Drops(p, f) \/ Swaps(p, f) \/ Finds(p, f) \/ Shifts(p, f)
                   \/ Returns(p, f) => Joined(p, f)
             /\ Drops(p, f) => ~Swaps(p, f) /\ ~Finds(p, f)
             /\ Swaps(p, f) => ~Finds(p, f)
  BY ValuesAssumption DEF Drops, Swaps, Finds, Shifts, Returns
<1>6. ASSUME NEW f \in Features
      PROVE  /\ f \in FeatsOf(ApnRows(p)) <=>
                   Drops(p, f) \/ Swaps(p, f) \/ Finds(p, f)
             /\ f \in FeatsOf(Moved(p)) <=> Shifts(p, f)
             /\ f \in FeatsOf(Reappeared(p)) <=> Returns(p, f)
  <2>0. RowOf(f).feat = f
    BY DEF RowOf
  <2>1. f \in FeatsOf(ApnRows(p)) <=> RowOf(f) \in p.rows /\ ApnChanged(RowOf(f), In(p, f))
    BY <2>0, <1>4 DEF FeatsOf, ApnRows
  <2>2. f \in FeatsOf(Moved(p)) <=> RowOf(f) \in p.rows /\ GeomChanged(RowOf(f), In(p, f))
    BY <2>0, <1>4 DEF FeatsOf, Moved
  <2>3. f \in FeatsOf(Reappeared(p)) <=> RowOf(f) \in p.rows /\ RowOf(f).back
    BY <2>0, <1>4 DEF FeatsOf, Reappeared
  <2>4. RowOf(f) \in p.rows => Joined(p, f)
    BY <1>4 DEF RowOf
  <2>5. QED
    BY <1>2, <1>3, <1>5, <2>1, <2>2, <2>3, <2>4
<1>7. ASSUME NEW f \in Features
      PROVE  /\ f \in FeatsOf(Degraded(p)) <=> Drops(p, f)
             /\ f \in FeatsOf(Replaced(p)) <=> Swaps(p, f)
             /\ f \in FeatsOf(Resolved(p)) <=> Finds(p, f)
  <2>1. f \in FeatsOf(Degraded(p)) <=>
           f \in FeatsOf(ApnRows(p)) /\ Live(f, "apn") # {} /\ In(p, f).apn \in BadApns
    BY <1>2, <1>4 DEF FeatsOf, ApnRows, Degraded
  <2>2. f \in FeatsOf(Replaced(p)) <=>
           f \in FeatsOf(ApnRows(p)) /\ Live(f, "apn") # {} /\ In(p, f).apn \in Apns
    BY <1>2, <1>4 DEF FeatsOf, ApnRows, Replaced
  <2>3. f \in FeatsOf(Resolved(p)) <=> f \in FeatsOf(ApnRows(p)) /\ Live(f, "apn") = {}
    BY <1>2, <1>4 DEF FeatsOf, ApnRows, Resolved
  <2>4. QED
    BY <1>6, <2>1, <2>2, <2>3, ValuesAssumption DEF Drops, Swaps, Finds
<1>8. \A f \in Features : f \in FeatsOf(p.rows) => Joined(p, f)
  BY <1>4 DEF FeatsOf
<1>9. QED
  BY <1>4, <1>6, <1>7, <1>8

-----------------------------------------------------------------------------
(* What a merge does to one key of the fact table: it may retire the live  *)
(* version, open a new one, both, or neither.                              *)

Kills(p, f, field) ==
    \/ field = "apn" /\ (Drops(p, f) \/ Swaps(p, f))
    \/ field = "geom" /\ Shifts(p, f)

Puts(p, f, field) ==
    \/ field = "pid" /\ f \in p.new
    \/ field = "apn" /\ \/ f \in p.new /\ In(p, f).apn \in Apns
                        \/ Swaps(p, f) \/ Finds(p, f)
    \/ field = "geom" /\ \/ f \in p.new /\ In(p, f).geom \in GoodGeoms
                         \/ Shifts(p, f)

Given(p, f, field) ==
    CASE field = "pid" -> f
      [] field = "apn" -> In(p, f).apn
      [] field = "geom" -> In(p, f).geom

Version(p, f, field) ==
    NewFact(p, f, field, Given(p, f, field),
            IF Kills(p, f, field) THEN Current(f, field).run ELSE 0)

\* A version is retired only where there is one, and opened only where there
\* is none or where it is being retired: the retire-first order of the code.
LEMMA KeysLemma ==
    ASSUME NEW p, Merging(p), NEW f \in Features, NEW field \in Fields
    PROVE  /\ Kills(p, f, field) => Live(f, field) # {} /\ f \in Identified
           /\ Puts(p, f, field) /\ ~Kills(p, f, field) => Live(f, field) = {}
           /\ Puts(p, f, field) => f \in p.new \cup Identified
           /\ f \in p.new => f \notin Identified /\ Live(f, field) = {}
           /\ Version(p, f, field).run = p.run /\ Version(p, f, field).until = 0
           /\ Version(p, f, field).feat = f /\ Version(p, f, field).field = field
           /\ Version(p, f, field).val = Given(p, f, field)
           /\ Version(p, f, field).sup =
                 IF Kills(p, f, field) THEN Current(f, field).run ELSE 0
<1>1. f \in p.new => f \notin Identified /\ Live(f, field) = {}
  BY DEF Merging, LedgerInv, FactsInv, Live, LiveIn
<1>2. Kills(p, f, field) => Live(f, field) # {} /\ f \in Identified
  BY DEF Kills, Drops, Swaps, Shifts, Joined
<1>3. Puts(p, f, field) /\ ~Kills(p, f, field) => Live(f, field) = {}
  BY <1>1 DEF Puts, Kills, Finds
<1>4. Puts(p, f, field) => f \in p.new \cup Identified
  BY DEF Puts, Swaps, Finds, Shifts, Joined
<1>5. QED
  BY <1>1, <1>2, <1>3, <1>4 DEF Version, NewFact

LEMMA RetiringLemma ==
    ASSUME NEW p, Merging(p), NEW v
    PROVE  v \in Retiring(p) <=>
              \E f \in Features, field \in Fields :
                 Kills(p, f, field) /\ v = Current(f, field)
<1>1. \A r \in p.rows : /\ r.feat \in Features /\ r.apn = Current(r.feat, "apn")
                        /\ r.geom = Current(r.feat, "geom")
  BY RowsLemma DEF RowOf, Joined, Incoming
<1>2. v \in Retiring(p) <=>
         \/ \E f \in FeatsOf(Degraded(p)) \cup FeatsOf(Replaced(p)) : v = Current(f, "apn")
         \/ \E f \in FeatsOf(Moved(p)) : v = Current(f, "geom")
  BY <1>1 DEF Retiring, FeatsOf, Degraded, Replaced, Moved, ApnRows
<1>3. /\ FeatsOf(Degraded(p)) \cup FeatsOf(Replaced(p)) \subseteq Features
      /\ FeatsOf(Moved(p)) \subseteq Features
  BY <1>1 DEF FeatsOf, Degraded, Replaced, Moved, ApnRows
<1>4. v \in Retiring(p) <=>
         \/ \E f \in Features : (Drops(p, f) \/ Swaps(p, f)) /\ v = Current(f, "apn")
         \/ \E f \in Features : Shifts(p, f) /\ v = Current(f, "geom")
  BY <1>2, <1>3, RowsLemma
<1>5. QED
  BY <1>4 DEF Kills, Fields

LEMMA InsertedLemma ==
    ASSUME NEW p, Merging(p), NEW v
    PROVE  v \in InsertedFacts(p) <=>
              \E f \in Features, field \in Fields :
                 Puts(p, f, field) /\ v = Version(p, f, field)
<1>1. \A r \in p.rows : /\ r.feat \in Features /\ r.apn = Current(r.feat, "apn")
                        /\ r.geom = Current(r.feat, "geom")
  BY RowsLemma DEF RowOf, Joined, Incoming
<1>2. /\ p.new \subseteq Features /\ FeatsOf(Replaced(p)) \subseteq Features
      /\ FeatsOf(Resolved(p)) \subseteq Features /\ FeatsOf(Moved(p)) \subseteq Features
  BY <1>1 DEF FeatsOf, Replaced, Resolved, Moved, ApnRows, Merging, Incoming
<1>3. v \in InsertedFacts(p) <=>
         \/ \E f \in p.new : v = NewFact(p, f, "pid", f, 0)
         \/ \E f \in p.new : In(p, f).apn \in Apns
                                /\ v = NewFact(p, f, "apn", In(p, f).apn, 0)
         \/ \E f \in p.new : In(p, f).geom \in GoodGeoms
                                /\ v = NewFact(p, f, "geom", In(p, f).geom, 0)
         \/ \E r \in Replaced(p) :
               v = NewFact(p, r.feat, "apn", In(p, r.feat).apn, r.apn.run)
         \/ \E r \in Resolved(p) :
               v = NewFact(p, r.feat, "apn", In(p, r.feat).apn, 0)
         \/ \E r \in Moved(p) :
               v = NewFact(p, r.feat, "geom", In(p, r.feat).geom, r.geom.run)
  BY DEF InsertedFacts
<1>4. /\ (\E r \in Replaced(p) :
               v = NewFact(p, r.feat, "apn", In(p, r.feat).apn, r.apn.run)) <=>
         \E f \in FeatsOf(Replaced(p)) :
               v = NewFact(p, f, "apn", In(p, f).apn, Current(f, "apn").run)
      /\ (\E r \in Resolved(p) :
               v = NewFact(p, r.feat, "apn", In(p, r.feat).apn, 0)) <=>
         \E f \in FeatsOf(Resolved(p)) : v = NewFact(p, f, "apn", In(p, f).apn, 0)
      /\ (\E r \in Moved(p) :
               v = NewFact(p, r.feat, "geom", In(p, r.feat).geom, r.geom.run)) <=>
         \E f \in FeatsOf(Moved(p)) :
               v = NewFact(p, f, "geom", In(p, f).geom, Current(f, "geom").run)
  <2>1. Replaced(p) \subseteq p.rows /\ Moved(p) \subseteq p.rows
    BY DEF Replaced, Moved, ApnRows
  <2>2. QED
    BY <1>1, <2>1 DEF FeatsOf
<1>5. ASSUME NEW f \in Features
      PROVE  /\ Version(p, f, "pid") = NewFact(p, f, "pid", f, 0)
             /\ Version(p, f, "apn") =
                  NewFact(p, f, "apn", In(p, f).apn,
                          IF Kills(p, f, "apn") THEN Current(f, "apn").run ELSE 0)
             /\ Version(p, f, "geom") =
                  NewFact(p, f, "geom", In(p, f).geom,
                          IF Kills(p, f, "geom") THEN Current(f, "geom").run ELSE 0)
  BY DEF Version, Given, Kills
<1>6. ASSUME NEW f \in Features
      PROVE  /\ f \in p.new => ~Kills(p, f, "apn") /\ ~Kills(p, f, "geom")
             /\ Swaps(p, f) => Kills(p, f, "apn")
             /\ Finds(p, f) => ~Kills(p, f, "apn")
             /\ Shifts(p, f) => Kills(p, f, "geom")
  <2>1. Finds(p, f) => ~Kills(p, f, "apn")
    BY DEF Kills, Finds, Drops, Swaps
  <2>2. QED
    BY <2>1, KeysLemma DEF Kills, Fields
<1>7. v \in InsertedFacts(p) <=>
         \/ \E f \in Features : Puts(p, f, "pid") /\ v = Version(p, f, "pid")
         \/ \E f \in Features : Puts(p, f, "apn") /\ v = Version(p, f, "apn")
         \/ \E f \in Features : Puts(p, f, "geom") /\ v = Version(p, f, "geom")
  <2>1. v \in InsertedFacts(p) =>
         \/ \E f \in Features : Puts(p, f, "pid") /\ v = Version(p, f, "pid")
         \/ \E f \in Features : Puts(p, f, "apn") /\ v = Version(p, f, "apn")
         \/ \E f \in Features : Puts(p, f, "geom") /\ v = Version(p, f, "geom")
    BY <1>2, <1>3, <1>4, <1>5, <1>6, RowsLemma DEF Puts
  <2>2. ASSUME NEW f \in Features, Puts(p, f, "pid"), v = Version(p, f, "pid")
        PROVE  v \in InsertedFacts(p)
    BY <1>3, <1>5, <2>2 DEF Puts
  <2>3. ASSUME NEW f \in Features, Puts(p, f, "apn"), v = Version(p, f, "apn")
        PROVE  v \in InsertedFacts(p)
    BY <1>3, <1>4, <1>5, <1>6, <2>3, RowsLemma DEF Puts
  <2>4. ASSUME NEW f \in Features, Puts(p, f, "geom"), v = Version(p, f, "geom")
        PROVE  v \in InsertedFacts(p)
    BY <1>3, <1>4, <1>5, <1>6, <2>4, RowsLemma DEF Puts
  <2>5. QED
    BY <2>1, <2>2, <2>3, <2>4
<1>8. QED
  BY <1>7 DEF Fields

\* The rows of the fact table after a merge: those it left alone, those it
\* retired, those it opened.
Kept(p, v) == v \in facts /\ ~(v.until = 0 /\ Kills(p, v.feat, v.field))
Retired(p, w) ==
    \E v \in facts : /\ v.until = 0 /\ Kills(p, v.feat, v.field)
                     /\ w = [v EXCEPT !.until = p.run]
Opened(p, w) ==
    \E f \in Features, field \in Fields : Puts(p, f, field) /\ w = Version(p, f, field)

LEMMA FactsAfterLemma ==
    ASSUME NEW p, Merging(p), NEW w
    PROVE  w \in FactsAfter(p) <=> Kept(p, w) \/ Retired(p, w) \/ Opened(p, w)
<1>1. ASSUME NEW v \in facts, v.until = 0
      PROVE  v \in Retiring(p) <=> Kills(p, v.feat, v.field)
  <2>1. v.feat \in Features /\ v.field \in Fields /\ v \in Live(v.feat, v.field)
    BY <1>1 DEF Merging, TypeOK, Facts, Live, LiveIn
  <2>2. v = Current(v.feat, v.field)
    BY <2>1, LiveLemma DEF Merging, LedgerInv
  <2>3. Kills(p, v.feat, v.field) => v \in Retiring(p)
    BY <2>1, <2>2, RetiringLemma
  <2>4. ASSUME NEW f \in Features, NEW field \in Fields,
               Kills(p, f, field), v = Current(f, field)
        PROVE  Kills(p, v.feat, v.field)
    BY <2>4, KeysLemma, LiveLemma DEF Merging, LedgerInv
  <2>5. QED
    BY <2>3, <2>4, RetiringLemma
<1>2. w \in Retire(p, facts) <=> Kept(p, w) \/ Retired(p, w)
  BY <1>1 DEF Retire, Kept, Retired
<1>3. QED
  BY <1>2, InsertedLemma DEF FactsAfter, Opened

LEMMA LiveAfterLemma ==
    ASSUME NEW p, Merging(p), NEW f \in Features, NEW field \in Fields
    PROVE  LiveIn(FactsAfter(p), f, field) =
              IF Puts(p, f, field) THEN {Version(p, f, field)}
              ELSE IF Kills(p, f, field) THEN {} ELSE Live(f, field)
<1>1. ASSUME NEW w
      PROVE  w \in LiveIn(FactsAfter(p), f, field) <=>
                \/ w \in Live(f, field) /\ ~Kills(p, f, field)
                \/ Puts(p, f, field) /\ w = Version(p, f, field)
  <2>1. Kept(p, w) /\ w.feat = f /\ w.field = field /\ w.until = 0 <=>
           w \in Live(f, field) /\ ~Kills(p, f, field)
    BY DEF Kept, Live, LiveIn
  <2>2. Retired(p, w) => w.until # 0
    BY DEF Retired, Merging, TypeOK, Facts
  <2>3. Opened(p, w) /\ w.feat = f /\ w.field = field /\ w.until = 0 <=>
           Puts(p, f, field) /\ w = Version(p, f, field)
    BY KeysLemma DEF Opened
  <2>4. QED
    BY <2>1, <2>2, <2>3, FactsAfterLemma DEF LiveIn
<1>2. CASE Puts(p, f, field)
  BY <1>1, <1>2, KeysLemma
<1>3. CASE ~Puts(p, f, field)
  BY <1>1, <1>3
<1>4. QED
  BY <1>2, <1>3

\* The fact table after a merge: every row older than the run or written by it.
LEMMA MergedFactRows ==
    ASSUME NEW p, Merging(p), NEW w \in FactsAfter(p)
    PROVE  \/ /\ Opened(p, w) /\ w.run = p.run /\ w.until = 0
           \/ /\ ~Opened(p, w) /\ w.run < p.run
              /\ \E v \in facts : /\ v.run = w.run /\ SameKey(v, w) /\ v.sup = w.sup
                                  /\ v.val = w.val
                                  /\ \/ w = v /\ Kept(p, v)
                                     \/ /\ v.until = 0 /\ w.until = p.run
                                        /\ Kills(p, w.feat, w.field)
                                        /\ w = [v EXCEPT !.until = p.run]
<1>1. CASE Opened(p, w)
  BY <1>1, KeysLemma DEF Opened
<1>2. CASE ~Opened(p, w) /\ Kept(p, w)
  BY <1>2 DEF Kept, Merging, SameKey
<1>3. CASE ~Opened(p, w) /\ Retired(p, w)
  <2>1. PICK v \in facts : /\ v.until = 0 /\ Kills(p, v.feat, v.field)
                           /\ w = [v EXCEPT !.until = p.run]
    BY <1>3 DEF Retired
  <2>2. v \in Facts /\ v.run < p.run
    BY DEF Merging, TypeOK
  <2>3. w.run = v.run /\ w.feat = v.feat /\ w.field = v.field /\ w.sup = v.sup
        /\ w.val = v.val /\ w.until = p.run
    BY <2>1, <2>2 DEF Facts
  <2>4. QED
    BY <1>3, <2>1, <2>2, <2>3 DEF SameKey
<1>4. QED
  BY <1>1, <1>2, <1>3, FactsAfterLemma

\* A run writes at most one row of a key, and never one that an older run wrote.
LEMMA MergedFactsUnique ==
    ASSUME NEW p, Merging(p), NEW v \in FactsAfter(p), NEW w \in FactsAfter(p),
           SameKey(v, w), v.run = w.run
    PROVE  v = w
<1>1. CASE Opened(p, v) /\ Opened(p, w)
  BY <1>1, KeysLemma DEF Opened, SameKey
<1>2. CASE ~Opened(p, v) /\ ~Opened(p, w)
  <2>1. PICK x \in facts : /\ x.run = v.run /\ SameKey(x, v)
                           /\ \/ v = x /\ Kept(p, x)
                              \/ /\ x.until = 0 /\ Kills(p, v.feat, v.field)
                                 /\ v = [x EXCEPT !.until = p.run]
    BY <1>2, MergedFactRows
  <2>2. PICK y \in facts : /\ y.run = w.run /\ SameKey(y, w)
                           /\ \/ w = y /\ Kept(p, y)
                              \/ /\ y.until = 0 /\ Kills(p, w.feat, w.field)
                                 /\ w = [y EXCEPT !.until = p.run]
    BY <1>2, MergedFactRows
  <2>3. x = y
    BY <2>1, <2>2 DEF Merging, LedgerInv, FactsInv, SameKey
  <2>4. QED
    BY <2>1, <2>2, <2>3 DEF Kept, SameKey
<1>3. CASE Opened(p, v) /\ ~Opened(p, w)
  <2>1. v.run = p.run /\ w.run < p.run /\ p.run \in Nat
    BY <1>3, MergedFactRows DEF Merging
  <2>2. QED
    BY <2>1
<1>4. CASE ~Opened(p, v) /\ Opened(p, w)
  <2>1. w.run = p.run /\ v.run < p.run /\ p.run \in Nat
    BY <1>4, MergedFactRows DEF Merging
  <2>2. QED
    BY <2>1
<1>5. QED
  BY <1>1, <1>2, <1>3, <1>4

\* The version that a row opened by the run replaces was live until then, so
\* it had no successor.
LEMMA OpenedReplaces ==
    ASSUME NEW p, Merging(p), NEW w \in FactsAfter(p), Opened(p, w), w.sup # 0
    PROVE  \E c \in facts : /\ c.until = 0 /\ c.run = w.sup /\ SameKey(c, w)
                            /\ [c EXCEPT !.until = p.run] \in FactsAfter(p)
                            /\ \A u \in facts : SameKey(u, c) => u.sup # c.run
<1>1. PICK f \in Features, field \in Fields : Puts(p, f, field) /\ w = Version(p, f, field)
  BY DEF Opened
<1> DEFINE c == Current(f, field)
<1>2. Kills(p, f, field) /\ w.sup = c.run /\ w.feat = f /\ w.field = field
  BY <1>1, KeysLemma
<1>3. c \in facts /\ c.until = 0 /\ c.feat = f /\ c.field = field
  BY <1>2, KeysLemma, LiveLemma DEF Merging, LedgerInv
<1>4. Retired(p, [c EXCEPT !.until = p.run])
  BY <1>2, <1>3 DEF Retired
<1> HIDE DEF c
<1>5. ASSUME NEW u \in facts, SameKey(u, c), u.sup = c.run
      PROVE  FALSE
  <2>1. c.run # 0 /\ u.run # 0
    BY <1>3 DEF Merging
  <2>2. PICK x \in facts : x.run = u.sup /\ x.until = u.run /\ SameKey(x, u)
    BY <1>5, <2>1 DEF Merging, LedgerInv, FactsInv, LinearHistory, SameKey
  <2>3. x = c
    BY <1>3, <1>5, <2>2 DEF Merging, LedgerInv, FactsInv, SameKey
  <2>4. QED
    BY <1>3, <2>1, <2>2, <2>3
<1>6. QED
  BY <1>2, <1>3, <1>4, <1>5, FactsAfterLemma DEF SameKey

LEMMA MergedLinear ==
    ASSUME NEW p, Merging(p), NEW v \in FactsAfter(p), v.sup # 0
    PROVE  /\ \E w \in FactsAfter(p) : w.run = v.sup /\ w.until = v.run /\ SameKey(w, v)
           /\ \A w \in FactsAfter(p) : w.sup = v.sup /\ SameKey(w, v) => w = v
<1>1. CASE Opened(p, v)
  <2>1. PICK c \in facts : /\ c.until = 0 /\ c.run = v.sup /\ SameKey(c, v)
                           /\ [c EXCEPT !.until = p.run] \in FactsAfter(p)
                           /\ \A u \in facts : SameKey(u, c) => u.sup # c.run
    BY <1>1, OpenedReplaces
  <2>2. v.run = p.run
    BY <1>1, MergedFactRows
  <2> DEFINE d == [c EXCEPT !.until = p.run]
  <2>3. d.run = v.sup /\ d.until = v.run /\ SameKey(d, v)
    BY <2>1, <2>2 DEF Merging, TypeOK, Facts, SameKey
  <2>4. ASSUME NEW w \in FactsAfter(p), w.sup = v.sup, SameKey(w, v)
        PROVE  w = v
    <3>1. CASE Opened(p, w)
      <4>1. w.run = p.run
        BY <3>1, MergedFactRows
      <4>2. QED
        BY <2>2, <2>4, <4>1, MergedFactsUnique
    <3>2. CASE ~Opened(p, w)
      <4>1. PICK u \in facts : SameKey(u, w) /\ u.sup = w.sup
        BY <3>2, MergedFactRows
      <4>2. QED
        BY <2>1, <2>4, <4>1 DEF SameKey
    <3>3. QED
      BY <3>1, <3>2
  <2>5. QED
    BY <2>1, <2>3, <2>4
<1>2. CASE ~Opened(p, v)
  <2>1. PICK v0 \in facts : v0.run = v.run /\ SameKey(v0, v) /\ v0.sup = v.sup
    BY <1>2, MergedFactRows
  <2>2. PICK x \in facts : x.run = v0.sup /\ x.until = v0.run /\ SameKey(x, v0)
    BY <2>1 DEF Merging, LedgerInv, FactsInv, LinearHistory, SameKey
  <2>3. x.until # 0
    BY <2>1, <2>2 DEF Merging
  <2>4. x \in FactsAfter(p)
    BY <2>3, FactsAfterLemma DEF Kept
  <2>5. ASSUME NEW w \in FactsAfter(p), w.sup = v.sup, SameKey(w, v)
        PROVE  w = v
    <3>1. CASE Opened(p, w)
      <4>1. PICK c \in facts : /\ c.until = 0 /\ c.run = w.sup /\ SameKey(c, w)
        BY <2>5, <3>1, OpenedReplaces
      <4>2. c = x
        BY <2>1, <2>2, <2>5, <4>1 DEF Merging, LedgerInv, FactsInv, SameKey
      <4>3. QED
        BY <2>3, <4>1, <4>2
    <3>2. CASE ~Opened(p, w)
      <4>1. PICK u \in facts : u.run = w.run /\ SameKey(u, w) /\ u.sup = w.sup
        BY <3>2, MergedFactRows
      <4>2. u = v0
        BY <2>1, <2>5, <4>1 DEF Merging, LedgerInv, FactsInv, LinearHistory, SameKey
      <4>3. QED
        BY <2>1, <2>5, <4>1, <4>2, MergedFactsUnique
    <3>3. QED
      BY <3>1, <3>2
  <2>6. QED
    BY <2>1, <2>2, <2>4, <2>5 DEF SameKey
<1>3. QED
  BY <1>1, <1>2

\* What FactsInv says, of the fact table after a merge.
LEMMA MergedFacts ==
    ASSUME NEW p, Merging(p), facts' = FactsAfter(p),
           Identified' = Identified \cup p.new
    PROVE  FactsInv'
<1>1. ASSUME NEW v \in FactsAfter(p)
      PROVE  /\ v.feat \in Identified \cup p.new
             /\ v.feat \in Features /\ v.field \in Fields
             /\ v.field = "apn" => v.val \in Apns
  <2>1. CASE Opened(p, v)
    <3>1. PICK f \in Features, field \in Fields :
             Puts(p, f, field) /\ v = Version(p, f, field)
      BY <2>1 DEF Opened
    <3>2. field = "apn" => Given(p, f, field) \in Apns
      BY <3>1 DEF Puts, Given, Swaps, Finds
    <3>3. QED
      BY <3>1, <3>2, KeysLemma
  <2>2. CASE ~Opened(p, v)
    <3>1. PICK w \in facts : SameKey(w, v) /\ w.val = v.val
      BY <2>2, MergedFactRows
    <3>2. w \in Facts /\ w.feat \in Identified /\ (w.field = "apn" => w.val \in Apns)
      BY DEF Merging, TypeOK, LedgerInv, FactsInv
    <3>3. QED
      BY <3>1, <3>2 DEF SameKey, Facts
  <2>3. QED
    BY <2>1, <2>2
<1>2. ASSUME NEW v \in FactsAfter(p), NEW w \in FactsAfter(p), SameKey(v, w),
             v.until = 0, w.until = 0
      PROVE  v = w
  <2> DEFINE f == v.feat
             k == v.field
  <2>1. /\ v \in LiveIn(FactsAfter(p), f, k) /\ w \in LiveIn(FactsAfter(p), f, k)
        /\ f \in Features /\ k \in Fields
    BY <1>1, <1>2 DEF LiveIn, SameKey
  <2> HIDE DEF f, k
  <2>2. CASE Puts(p, f, k)
    BY <2>1, <2>2, LiveAfterLemma
  <2>3. CASE ~Puts(p, f, k)
    <3>1. v \in Live(f, k) /\ w \in Live(f, k)
      BY <2>1, <2>3, LiveAfterLemma
    <3>2. Live(f, k) = {Current(f, k)}
      BY <2>1, <3>1, LiveLemma DEF Merging, LedgerInv
    <3>3. QED
      BY <3>1, <3>2
  <2>4. QED
    BY <2>2, <2>3
<1>3. LinearHistory'
  BY MergedLinear DEF LinearHistory, SameKey
<1>4. QED
  BY <1>1, <1>2, <1>3, MergedFactsUnique DEF FactsInv, SameKey

\* A merge meets no uniqueness constraint on facts.
LEMMA NoFactClash ==
    ASSUME NEW p, Merging(p)
    PROVE  ~FactClash(p) /\ ~IdentityClash(p)
<1>1. ASSUME NEW v \in InsertedFacts(p)
      PROVE  LiveIn(FactsAfter(p), v.feat, v.field) = {v}
  <2>1. PICK f \in Features, field \in Fields : Puts(p, f, field) /\ v = Version(p, f, field)
    BY InsertedLemma
  <2>2. QED
    BY <2>1, KeysLemma, LiveAfterLemma
<1>2. p.new \cap Identified = {}
  BY DEF Merging
<1>3. QED
  BY <1>1, <1>2 DEF FactClash, IdentityClash

-----------------------------------------------------------------------------
(* What a merge does to one subject of the exception table: it may close   *)
(* the open row, or raise one where none is open.                          *)

Clears(p, f, det) ==
    \/ det = "apn_unresolvable" /\ Finds(p, f)
    \/ det = "disappeared" /\ Returns(p, f)

Raises(p, f, det) ==
    \/ det = "apn_unresolvable" /\ \/ f \in p.new /\ In(p, f).apn \in BadApns
                                   \/ Drops(p, f)
    \/ det = "geometry_gap" /\ f \in p.new /\ In(p, f).geom \in BadGeoms
    \/ det = "disappeared" /\ f \in p.gone

Reason(p, f, det) ==
    CASE det = "apn_unresolvable" -> In(p, f).apn
      [] det = "geometry_gap" -> In(p, f).geom
      [] det = "disappeared" -> "absent"

Raised(p, f, det) == NewException(p, f, det, Reason(p, f, det))

\* What relinking makes of a raised row.
Linked(p, f, det) ==
    LET n == Raised(p, f, det) IN
    IF det \in Relinked /\ Latest(Priors(exceptions, n)) # {}
    THEN [n EXCEPT !.from = (CHOOSE d \in Latest(Priors(exceptions, n)) : TRUE).run]
    ELSE n

LEMMA SubjectsLemma ==
    ASSUME NEW p, Merging(p), NEW f \in Features, NEW det \in Detectors
    PROVE  /\ Clears(p, f, det) => f \in Identified /\ Open(f, det) # {}
           /\ Raises(p, f, det) => Open(f, det) = {} /\ ~Clears(p, f, det)
           /\ Raises(p, f, det) => f \in p.new \cup Identified
           /\ f \in p.new => \A e \in exceptions : e.feat # f
           /\ Raised(p, f, det) =
                 [run |-> p.run, feat |-> f, det |-> det,
                  reason |-> Reason(p, f, det), closed |-> 0, from |-> 0]
<1>1. f \in p.new => f \notin Identified /\ \A e \in exceptions : e.feat # f
  BY DEF Merging, LedgerInv, ExceptionsInv
<1>2. Clears(p, f, det) => f \in Identified /\ Open(f, det) # {}
  BY DEF Clears, Finds, Returns, Joined, Merging, LedgerInv, OpenMatch
<1>3. f \in p.gone => f \in Identified /\ Open(f, "disappeared") = {}
  BY DEF Merging, LedgerInv, OpenMatch, Active
<1>4. Drops(p, f) => f \in Identified /\ Open(f, "apn_unresolvable") = {}
  BY DEF Drops, Joined, Merging, LedgerInv, OpenMatch
<1>5. Raises(p, f, det) => Open(f, det) = {} /\ f \in p.new \cup Identified
  BY <1>1, <1>3, <1>4 DEF Raises, Open
<1>6. QED
  BY <1>1, <1>2, <1>5 DEF Raised, NewException

LEMMA ClosingLemma ==
    ASSUME NEW p, Merging(p), NEW e \in exceptions
    PROVE  Closing(p, e) <=> e.closed = 0 /\ Clears(p, e.feat, e.det)
<1>1. e.feat \in Features
  BY DEF Merging, TypeOK, Exceptions
<1>2. QED
  BY <1>1, RowsLemma DEF Closing, Clears

LEMMA RaisedLemma ==
    ASSUME NEW p, Merging(p), NEW n
    PROVE  n \in InsertedExceptions(p) <=>
              \E f \in Features, det \in Detectors :
                 Raises(p, f, det) /\ n = Raised(p, f, det)
<1>1. /\ p.new \subseteq Features /\ p.gone \subseteq Features
      /\ FeatsOf(Degraded(p)) \subseteq Features
  <2>1. \A r \in p.rows : r.feat \in Features
    BY RowsLemma DEF Joined, Incoming
  <2>2. QED
    BY <2>1 DEF Merging, Incoming, Active, Identified, FeatsOf, Degraded, ApnRows
<1>2. p.dup = {}
  <2>1. ASSUME NEW f \in p.gone \cap OpenDisappeared PROVE FALSE
    <3>1. f \in Identified /\ Open(f, "disappeared") = {}
      BY DEF Merging, LedgerInv, OpenMatch, Active
    <3>2. QED
      BY <3>1 DEF OpenDisappeared, Open
  <2>2. QED
    BY <2>1 DEF Merging
<1>3. n \in InsertedExceptions(p) <=>
         \/ \E f \in Features : /\ \/ f \in p.new /\ In(p, f).apn \in BadApns
                                   \/ f \in FeatsOf(Degraded(p))
                                /\ n = NewException(p, f, "apn_unresolvable", In(p, f).apn)
         \/ \E f \in Features : /\ f \in p.new /\ In(p, f).geom \in BadGeoms
                                /\ n = NewException(p, f, "geometry_gap", In(p, f).geom)
         \/ \E f \in Features : /\ f \in p.gone
                                /\ n = NewException(p, f, "disappeared", "absent")
  BY <1>1, <1>2 DEF InsertedExceptions
<1>4. ASSUME NEW f \in Features
      PROVE  /\ Raised(p, f, "apn_unresolvable") =
                   NewException(p, f, "apn_unresolvable", In(p, f).apn)
             /\ Raised(p, f, "geometry_gap") =
                   NewException(p, f, "geometry_gap", In(p, f).geom)
             /\ Raised(p, f, "disappeared") = NewException(p, f, "disappeared", "absent")
  BY DEF Raised, Reason
<1>5. n \in InsertedExceptions(p) <=>
         \E f \in Features :
            \/ Raises(p, f, "apn_unresolvable") /\ n = Raised(p, f, "apn_unresolvable")
            \/ Raises(p, f, "geometry_gap") /\ n = Raised(p, f, "geometry_gap")
            \/ Raises(p, f, "disappeared") /\ n = Raised(p, f, "disappeared")
  BY <1>3, <1>4, RowsLemma DEF Raises
<1>6. QED
  BY <1>5 DEF Detectors

\* A non-empty set of closed rows has a latest one.
LEMMA LatestLemma ==
    ASSUME clock \in Nat, NEW S, S # {}, S \subseteq Exceptions,
           \A d \in S : d.closed <= clock
    PROVE  Latest(S) # {}
<1> DEFINE T == {clock - d.closed : d \in S}
<1>1. T \subseteq Nat /\ T # {}
  BY DEF Exceptions
<1>2. PICK x \in T : \A y \in T : ~(<<y, x>> \in OpToRel(<, Nat))
  BY <1>1, NatLessThanWellFounded, WFMin
<1>3. \A y \in T : ~(y < x)
  BY <1>1, <1>2 DEF OpToRel
<1>4. PICK d \in S : x = clock - d.closed
  OBVIOUS
<1>5. ASSUME NEW c \in S PROVE c.closed <= d.closed
  <2>1. ~(clock - c.closed < clock - d.closed)
    BY <1>3, <1>4
  <2>2. c.closed \in Nat /\ d.closed \in Nat
    BY DEF Exceptions
  <2>3. QED
    BY <2>1, <2>2
<1>6. QED
  BY <1>5 DEF Latest

\* The rows of the exception table after a merge: those it left alone, those
\* it closed, those it raised.
Untouched(p, e) == e \in exceptions /\ ~(e.closed = 0 /\ Clears(p, e.feat, e.det))
Cleared(p, x) ==
    \E e \in exceptions : /\ e.closed = 0 /\ Clears(p, e.feat, e.det)
                          /\ x = [e EXCEPT !.closed = clock + 1]
RaisedRow(p, x) ==
    \E f \in Features, det \in Detectors : Raises(p, f, det) /\ x = Linked(p, f, det)

LEMMA ClearedLemma ==
    ASSUME NEW p, Merging(p), NEW x, Cleared(p, x)
    PROVE  \E e \in exceptions :
              /\ e.closed = 0 /\ Clears(p, e.feat, e.det) /\ x.closed = clock + 1
              /\ x.closed # 0 /\ x.run = e.run /\ SameSubject(x, e)
              /\ x.reason = e.reason /\ x.from = e.from
              /\ x = [e EXCEPT !.closed = clock + 1]
<1>1. PICK e \in exceptions : /\ e.closed = 0 /\ Clears(p, e.feat, e.det)
                              /\ x = [e EXCEPT !.closed = clock + 1]
  BY DEF Cleared
<1>2. e \in Exceptions /\ clock \in Nat
  BY DEF Merging, TypeOK
<1>3. x.closed = clock + 1 /\ x.run = e.run /\ SameSubject(x, e)
      /\ x.reason = e.reason /\ x.from = e.from
  BY <1>1, <1>2 DEF Exceptions, SameSubject
<1>4. QED
  BY <1>1, <1>2, <1>3

LEMMA CloseClearedLemma ==
    ASSUME NEW p, Merging(p), NEW x
    PROVE  x \in CloseCleared(p, exceptions) <=> Untouched(p, x) \/ Cleared(p, x)
  BY ClosingLemma DEF CloseCleared, Untouched, Cleared

\* The earlier closed rows of a subject that the run does not close are those
\* that were there before.
LEMMA PriorsAfter ==
    ASSUME NEW p, Merging(p), NEW e, ~Clears(p, e.feat, e.det)
    PROVE  Priors(CloseCleared(p, exceptions) \cup InsertedExceptions(p), e)
              = Priors(exceptions, e)
<1> DEFINE D == CloseCleared(p, exceptions) \cup InsertedExceptions(p)
<1>1. ASSUME NEW d \in D, d.closed # 0, d.det = e.det, d.feat = e.feat
      PROVE  d \in exceptions
  <2>1. d \notin InsertedExceptions(p)
    BY <1>1, RaisedLemma, SubjectsLemma
  <2>2. ~Cleared(p, d)
    BY <1>1, ClearedLemma DEF SameSubject
  <2>3. QED
    BY <2>1, <2>2, CloseClearedLemma DEF Untouched
<1>2. ASSUME NEW d \in exceptions, d.closed # 0 PROVE d \in D
  BY <1>2, CloseClearedLemma DEF Untouched
<1> HIDE DEF D
<1>3. Priors(D, e) = Priors(exceptions, e)
  BY <1>1, <1>2 DEF Priors
<1>4. QED
  BY <1>3 DEF D

LEMMA ExceptionsAfterRows ==
    ASSUME NEW p, Merging(p), NEW x
    PROVE  x \in ExceptionsAfter(p) <=>
              Untouched(p, x) \/ Cleared(p, x) \/ RaisedRow(p, x)
<1> DEFINE D == CloseCleared(p, exceptions) \cup InsertedExceptions(p)
           Relinks(d) == /\ d.closed = 0 /\ d.from = 0
                         /\ d.det \in {"apn_unresolvable", "disappeared"}
                         /\ Latest(Priors(D, d)) # {}
           Relinking(d) == IF Relinks(d)
                 THEN [d EXCEPT !.from = (CHOOSE c \in Latest(Priors(D, d)) : TRUE).run]
                 ELSE d
<1>1. ASSUME NEW d, Untouched(p, d) PROVE Relinking(d) = d
  <2>1. CASE d.closed = 0 /\ d.from = 0 /\ d.det \in Relinked
    <3>1. d \in exceptions /\ ~Clears(p, d.feat, d.det)
      BY <1>1, <2>1 DEF Untouched
    <3>2. Priors(D, d) = {}
      BY <2>1, <3>1, PriorsAfter DEF Merging, LedgerInv, ExceptionsInv
    <3>3. Latest(Priors(D, d)) = {}
      BY <3>2 DEF Latest
    <3>4. QED
      BY <3>3
  <2>2. CASE ~(d.closed = 0 /\ d.from = 0 /\ d.det \in Relinked)
    BY <2>2 DEF Relinked
  <2>3. QED
    BY <2>1, <2>2
<1>2. ASSUME NEW d, Cleared(p, d) PROVE Relinking(d) = d
  <2>1. d.closed # 0
    BY <1>2, ClearedLemma
  <2>2. QED
    BY <2>1
<1>3. ASSUME NEW f \in Features, NEW det \in Detectors, Raises(p, f, det)
      PROVE  Relinking(Raised(p, f, det)) = Linked(p, f, det)
  <2> DEFINE n == Raised(p, f, det)
  <2>1. n.feat = f /\ n.det = det /\ n.closed = 0 /\ n.from = 0
    BY SubjectsLemma
  <2>2. ~Clears(p, n.feat, n.det)
    BY <1>3, <2>1, SubjectsLemma
  <2> HIDE DEF n
  <2>3. Priors(D, n) = Priors(exceptions, n)
    BY <2>2, PriorsAfter
  <2>4. QED
    BY <2>1, <2>3 DEF Linked, Relinked, n
<1>4. x \in Relink(D) <=> \E d \in D : x = Relinking(d)
  BY DEF Relink
<1>5. \A d : d \in D <=>
         \/ Untouched(p, d) \/ Cleared(p, d)
         \/ \E f \in Features, det \in Detectors :
               Raises(p, f, det) /\ d = Raised(p, f, det)
  BY CloseClearedLemma, RaisedLemma
<1> HIDE DEF D, Relinking
<1>6. x \in Relink(D) <=> Untouched(p, x) \/ Cleared(p, x) \/ RaisedRow(p, x)
  BY <1>1, <1>2, <1>3, <1>4, <1>5 DEF RaisedRow
<1>7. CASE InsertedExceptions(p) = {}
  <2>1. ~RaisedRow(p, x)
    BY <1>7, RaisedLemma DEF RaisedRow
  <2>2. QED
    BY <1>7, <2>1, CloseClearedLemma DEF ExceptionsAfter
<1>8. CASE InsertedExceptions(p) # {}
  BY <1>6, <1>8 DEF ExceptionsAfter, D
<1>9. QED
  BY <1>7, <1>8

\* A raised row names the last closed row of its subject and reason, which no
\* other row names; when it names none, there is none.
LEMMA LinkedLemma ==
    ASSUME NEW p, Merging(p), NEW f \in Features, NEW det \in Detectors,
           Raises(p, f, det), NEW x, x = Linked(p, f, det)
    PROVE  /\ x.run = p.run /\ x.feat = f /\ x.det = det /\ x.closed = 0
           /\ x.from = 0 /\ det \in Relinked => Priors(exceptions, x) = {}
           /\ x.from # 0 => \E c \in exceptions :
                 /\ c.run = x.from /\ c.closed # 0 /\ SameSubject(c, x)
                 /\ c.reason = x.reason
                 /\ \A e \in exceptions : SameSubject(e, x) => e.from # x.from
<1> DEFINE n == Raised(p, f, det)
           P == Priors(exceptions, n)
<1>1. n = [run |-> p.run, feat |-> f, det |-> det,
           reason |-> Reason(p, f, det), closed |-> 0, from |-> 0]
  BY SubjectsLemma
<1>2. P \subseteq exceptions /\ exceptions \subseteq Exceptions /\ clock \in Nat
      /\ \A d \in exceptions : d.closed <= clock /\ d.run # 0
  BY DEF Priors, Merging, TypeOK, LedgerInv, ExceptionsInv
<1>3. P # {} => Latest(P) # {}
  BY <1>2, LatestLemma
<1>4. CASE ~(det \in Relinked /\ Latest(P) # {})
  <2>1. x = n
    BY <1>4 DEF Linked
  <2>2. QED
    BY <1>1, <1>3, <1>4, <2>1
<1>5. CASE det \in Relinked /\ Latest(P) # {}
  <2> DEFINE c == CHOOSE d \in Latest(P) : TRUE
  <2>1. c \in Latest(P) /\ x = [n EXCEPT !.from = c.run]
    BY <1>5 DEF Linked
  <2> HIDE DEF c, n
  <2>2. /\ x.run = p.run /\ x.feat = f /\ x.det = det /\ x.closed = 0
        /\ x.from = c.run /\ x.reason = n.reason /\ n.det = det /\ n.feat = f
    BY <1>1, <2>1
  <2>3. /\ c \in exceptions /\ c.closed # 0 /\ SameSubject(c, x) /\ c.reason = x.reason
        /\ \A d \in P : d.closed <= c.closed
    BY <2>1, <2>2 DEF Latest, Priors, SameSubject
  <2>4. ASSUME NEW e \in exceptions, SameSubject(e, x), e.from = x.from
        PROVE  FALSE
    <3>1. e.closed # 0
      BY <2>2, <2>4, SubjectsLemma DEF Open, SameSubject
    <3>2. c.closed < e.closed
      BY <1>2, <2>2, <2>3, <2>4, <3>1 DEF Merging, LedgerInv, ExceptionsInv, SameSubject
    <3>3. PICK d \in exceptions : d.run = e.from /\ SameSubject(d, e) /\ d.reason = e.reason
      BY <1>2, <2>2, <2>3, <2>4 DEF Merging, LedgerInv, ExceptionsInv, ReopenedOnce, SameSubject
    <3>4. d = c
      BY <2>2, <2>3, <2>4, <3>3 DEF Merging, LedgerInv, ExceptionsInv, SameSubject
    <3>5. e \in P
      BY <2>2, <2>3, <2>4, <3>1, <3>3, <3>4 DEF Priors, SameSubject
    <3>6. e.closed \in Nat /\ c.closed \in Nat
      BY <1>2, <2>3 DEF Exceptions
    <3>7. QED
      BY <2>3, <3>2, <3>5, <3>6
  <2>5. c.run # 0
    BY <1>2, <2>3
  <2>6. QED
    BY <2>2, <2>3, <2>4, <2>5
<1>6. QED
  BY <1>4, <1>5

LEMMA MergedExceptionRows ==
    ASSUME NEW p, Merging(p), NEW x \in ExceptionsAfter(p)
    PROVE  \/ RaisedRow(p, x) /\ x.run = p.run /\ x.closed = 0
           \/ /\ ~RaisedRow(p, x) /\ x.run < p.run
              /\ \E e \in exceptions :
                    /\ e.run = x.run /\ SameSubject(e, x) /\ e.reason = x.reason
                    /\ e.from = x.from /\ e.run < p.run
                    /\ \/ x = e /\ ~(e.closed = 0 /\ Clears(p, e.feat, e.det))
                       \/ /\ e.closed = 0 /\ Clears(p, e.feat, e.det)
                          /\ x.closed = clock + 1 /\ x.closed # 0
                          /\ x = [e EXCEPT !.closed = clock + 1]
<1>1. CASE RaisedRow(p, x)
  BY <1>1, LinkedLemma DEF RaisedRow
<1>2. CASE ~RaisedRow(p, x) /\ Untouched(p, x)
  BY <1>2 DEF Untouched, Merging, SameSubject
<1>3. CASE ~RaisedRow(p, x) /\ Cleared(p, x)
  BY <1>3, ClearedLemma DEF Merging, SameSubject
<1>4. QED
  BY <1>1, <1>2, <1>3, ExceptionsAfterRows

\* A closed row stays where it is.
LEMMA ClosedStays ==
    ASSUME NEW p, Merging(p), NEW e \in exceptions, e.closed # 0
    PROVE  e \in ExceptionsAfter(p)
  BY ExceptionsAfterRows DEF Untouched

LEMMA MergedExceptionsUnique ==
    ASSUME NEW p, Merging(p),
           NEW x \in ExceptionsAfter(p), NEW y \in ExceptionsAfter(p), SameSubject(x, y)
    PROVE  /\ x.run = y.run => x = y
           /\ x.closed = 0 /\ y.closed = 0 => x = y
<1>r. /\ \A d, e \in exceptions : SameSubject(d, e) /\ d.closed = 0 /\ e.closed = 0 => d = e
      /\ \A d, e \in exceptions : SameSubject(d, e) /\ d.run = e.run => d = e
      /\ p.run \in Nat
  BY DEF Merging, LedgerInv, ExceptionsInv
<1>1. CASE RaisedRow(p, x) /\ RaisedRow(p, y)
  BY <1>1, LinkedLemma DEF RaisedRow, SameSubject
<1>2. CASE ~RaisedRow(p, x) /\ ~RaisedRow(p, y)
  BY <1>2, <1>r, MergedExceptionRows DEF SameSubject
<1>3. ASSUME NEW v \in ExceptionsAfter(p), NEW w \in ExceptionsAfter(p),
             SameSubject(v, w), RaisedRow(p, v), ~RaisedRow(p, w)
      PROVE  v.run # w.run /\ w.closed # 0
  <2>1. PICK f \in Features, det \in Detectors : Raises(p, f, det) /\ v = Linked(p, f, det)
    BY <1>3 DEF RaisedRow
  <2>2. v.feat = f /\ v.det = det /\ v.run = p.run
    BY <2>1, LinkedLemma
  <2>3. Open(f, det) = {}
    BY <2>1, SubjectsLemma
  <2>4. PICK e \in exceptions : e.run = w.run /\ SameSubject(e, w) /\ e.run < p.run
                                /\ (w = e \/ w.closed # 0)
    BY <1>3, MergedExceptionRows
  <2>5. e.closed # 0
    BY <1>3, <2>2, <2>3, <2>4 DEF Open, SameSubject
  <2>6. w.run < p.run
    BY <2>4
  <2>7. QED
    BY <1>r, <2>2, <2>4, <2>5, <2>6
<1>4. QED
  BY <1>1, <1>2, <1>3 DEF SameSubject

\* A link of the merged table leads to a row that was closed before.
LEMMA MergedLinks ==
    ASSUME NEW p, Merging(p),
           NEW d \in ExceptionsAfter(p), NEW e \in ExceptionsAfter(p),
           e.from # 0, SameSubject(d, e), d.run = e.from
    PROVE  d.closed # 0 /\ (e.closed # 0 => d.closed < e.closed)
<1>r. /\ clock \in Nat /\ p.run \in Nat
      /\ \A c \in exceptions : c.closed \in Nat /\ c.closed <= clock
  BY DEF Merging, TypeOK, Exceptions, LedgerInv, ExceptionsInv
<1>1. CASE RaisedRow(p, e)
  <2>1. PICK c \in exceptions : c.run = e.from /\ c.closed # 0 /\ SameSubject(c, e)
    BY <1>1, LinkedLemma DEF RaisedRow
  <2>2. c \in ExceptionsAfter(p)
    BY <2>1, ClosedStays
  <2>3. d = c
    BY <2>1, <2>2, MergedExceptionsUnique DEF SameSubject
  <2>4. e.closed = 0
    BY <1>1, LinkedLemma DEF RaisedRow
  <2>5. QED
    BY <2>1, <2>3, <2>4
<1>2. CASE ~RaisedRow(p, e)
  <2>1. PICK e0 \in exceptions :
           /\ e0.run = e.run /\ SameSubject(e0, e) /\ e0.from = e.from
           /\ e = e0 \/ e.closed = clock + 1
    BY <1>2, MergedExceptionRows
  <2>2. PICK d1 \in exceptions : d1.run = e.from /\ d1.closed # 0 /\ SameSubject(d1, e)
    BY <2>1 DEF Merging, LedgerInv, ExceptionsInv, ReopenedOnce, SameSubject
  <2>3. d1 \in ExceptionsAfter(p)
    BY <2>2, ClosedStays
  <2>4. d = d1
    BY <2>2, <2>3, MergedExceptionsUnique DEF SameSubject
  <2>5. e0.closed # 0 => d.closed < e0.closed
    BY <2>1, <2>2, <2>4 DEF Merging, LedgerInv, ExceptionsInv, SameSubject
  <2>6. d.closed <= clock /\ d.closed \in Nat
    BY <1>r, <2>2, <2>4
  <2>7. QED
    BY <1>r, <2>1, <2>2, <2>4, <2>5, <2>6
<1>3. QED
  BY <1>1, <1>2

LEMMA MergedReopened ==
    ASSUME NEW p, Merging(p), NEW x \in ExceptionsAfter(p), x.from # 0
    PROVE  /\ \E d \in ExceptionsAfter(p) :
                 /\ d.run = x.from /\ d.run < x.run /\ d.closed # 0
                 /\ SameSubject(d, x) /\ d.reason = x.reason
           /\ \A y \in ExceptionsAfter(p) : y.from = x.from /\ SameSubject(y, x) => y = x
<1>0. ASSUME NEW v \in ExceptionsAfter(p), NEW w \in ExceptionsAfter(p),
             SameSubject(v, w), v.from = w.from, v.from # 0,
             RaisedRow(p, v), ~RaisedRow(p, w)
      PROVE  FALSE
  <2>1. PICK e \in exceptions : SameSubject(e, w) /\ e.from = w.from
    BY <1>0, MergedExceptionRows
  <2>2. SameSubject(e, v)
    BY <1>0, <2>1 DEF SameSubject
  <2>3. \A c \in exceptions : SameSubject(c, v) => c.from # v.from
    BY <1>0, LinkedLemma DEF RaisedRow
  <2>4. QED
    BY <1>0, <2>1, <2>2, <2>3
<1>1. CASE RaisedRow(p, x)
  <2>1. PICK c \in exceptions : /\ c.run = x.from /\ c.closed # 0 /\ SameSubject(c, x)
                                /\ c.reason = x.reason
    BY <1>1, LinkedLemma DEF RaisedRow
  <2>2. c \in ExceptionsAfter(p) /\ c.run < p.run /\ x.run = p.run
    BY <1>1, <2>1, ClosedStays, LinkedLemma DEF RaisedRow, Merging
  <2>3. ASSUME NEW y \in ExceptionsAfter(p), y.from = x.from, SameSubject(y, x)
        PROVE  y = x
    <3>1. RaisedRow(p, y)
      BY <1>0, <1>1, <2>3 DEF SameSubject
    <3>2. y.run = p.run
      BY <3>1, LinkedLemma DEF RaisedRow
    <3>3. QED
      BY <2>2, <2>3, <3>2, MergedExceptionsUnique
  <2>4. QED
    BY <2>1, <2>2, <2>3
<1>2. CASE ~RaisedRow(p, x)
  <2>1. PICK x0 \in exceptions : /\ x0.run = x.run /\ SameSubject(x0, x)
                                 /\ x0.from = x.from /\ x0.reason = x.reason
    BY <1>2, MergedExceptionRows
  <2>2. PICK d \in exceptions : /\ d.run = x.from /\ d.run < x.run /\ d.closed # 0
                                /\ SameSubject(d, x) /\ d.reason = x.reason
    BY <2>1 DEF Merging, LedgerInv, ExceptionsInv, ReopenedOnce, SameSubject
  <2>3. d \in ExceptionsAfter(p)
    BY <2>2, ClosedStays
  <2>4. ASSUME NEW y \in ExceptionsAfter(p), y.from = x.from, SameSubject(y, x)
        PROVE  y = x
    <3>1. ~RaisedRow(p, y)
      BY <1>0, <1>2, <2>4
    <3>2. PICK y0 \in exceptions : y0.run = y.run /\ SameSubject(y0, y) /\ y0.from = y.from
      BY <3>1, MergedExceptionRows
    <3>3. y0 = x0
      BY <2>1, <2>4, <3>2 DEF Merging, LedgerInv, ExceptionsInv, ReopenedOnce, SameSubject
    <3>4. QED
      BY <2>1, <2>4, <3>2, <3>3, MergedExceptionsUnique
  <2>5. QED
    BY <2>2, <2>3, <2>4
<1>3. QED
  BY <1>1, <1>2

\* What ExceptionsInv says, of the exception table after a merge.
LEMMA MergedExceptions ==
    ASSUME NEW p, Merging(p), exceptions' = ExceptionsAfter(p),
           clock' = clock + 1, Identified' = Identified \cup p.new
    PROVE  ExceptionsInv'
<1>1. ASSUME NEW x \in ExceptionsAfter(p)
      PROVE  x.feat \in Identified \cup p.new /\ x.closed <= clock + 1
  <2>r. /\ clock \in Nat
        /\ \A e \in exceptions : e.closed \in Nat /\ e.closed <= clock /\ e.feat \in Identified
    BY DEF Merging, TypeOK, Exceptions, LedgerInv, ExceptionsInv
  <2>1. CASE RaisedRow(p, x)
    <3>1. x.closed = 0 /\ x.feat \in p.new \cup Identified
      BY <2>1, LinkedLemma, SubjectsLemma DEF RaisedRow
    <3>2. QED
      BY <2>r, <3>1
  <2>2. CASE ~RaisedRow(p, x)
    <3>1. PICK e \in exceptions : SameSubject(e, x) /\ (x = e \/ x.closed = clock + 1)
      BY <2>2, MergedExceptionRows
    <3>2. QED
      BY <2>r, <3>1 DEF SameSubject
  <2>3. QED
    BY <2>1, <2>2
<1>2. ASSUME NEW x \in ExceptionsAfter(p), x.closed = 0, x.from = 0, x.det \in Relinked
      PROVE  Priors(ExceptionsAfter(p), x) = {}
  <2>1. ~Clears(p, x.feat, x.det) /\ Priors(exceptions, x) = {}
    <3>1. CASE RaisedRow(p, x)
      BY <1>2, <3>1, LinkedLemma, SubjectsLemma DEF RaisedRow
    <3>2. CASE ~RaisedRow(p, x)
      <4>1. x \in exceptions /\ ~Clears(p, x.feat, x.det)
        BY <1>2, <3>2, MergedExceptionRows
      <4>2. QED
        BY <1>2, <4>1 DEF Merging, LedgerInv, ExceptionsInv
    <3>3. QED
      BY <3>1, <3>2
  <2>2. ASSUME NEW y \in Priors(ExceptionsAfter(p), x) PROVE FALSE
    <3>1. /\ y \in ExceptionsAfter(p) /\ y.closed # 0 /\ SameSubject(y, x)
          /\ y.reason = x.reason
      BY <2>2 DEF Priors, SameSubject
    <3>2. y \in exceptions
      BY <2>1, <3>1, MergedExceptionRows DEF SameSubject
    <3>3. QED
      BY <2>1, <3>1, <3>2 DEF Priors, SameSubject
  <2>3. QED
    BY <2>2
<1>3. ReopenedOnce'
  BY MergedReopened DEF ReopenedOnce, SameSubject
<1>5. QED
  BY <1>1, <1>2, <1>3, MergedLinks, MergedExceptionsUnique DEF ExceptionsInv, Priors

\* A merge meets no uniqueness constraint on exceptions.
LEMMA NoExceptionClash ==
    ASSUME NEW p, Merging(p)
    PROVE  ~ExceptionClash(p)
<1>1. SUFFICES ASSUME NEW n \in InsertedExceptions(p), NEW e \in CloseCleared(p, exceptions),
                      e.closed = 0, e.feat = n.feat, e.det = n.det
               PROVE  FALSE
  BY DEF ExceptionClash
<1>2. PICK f \in Features, det \in Detectors : Raises(p, f, det) /\ n = Raised(p, f, det)
  BY RaisedLemma
<1>3. Open(f, det) = {} /\ n.feat = f /\ n.det = det
  BY <1>2, SubjectsLemma
<1>4. e \in exceptions
  BY <1>1, CloseClearedLemma, ClearedLemma DEF Untouched
<1>5. QED
  BY <1>1, <1>3, <1>4 DEF Open

-----------------------------------------------------------------------------
(* What a merge leaves behind.                                             *)

\* The effect of a commit that is not the same_as_previous one.
Merge(p) ==
    /\ Merging(p) /\ ~GeometryRejected(p)
    /\ facts' = FactsAfter(p)
    /\ exceptions' = ExceptionsAfter(p)
    /\ parcel' = [f \in Features |-> ParcelAfter(p, f)]
    /\ identity' = [f \in Features |-> IdentityAfter(p, f)]
    /\ clock' = clock + 1
    /\ reconciled' = p.snap

LEMMA MergedIdentities ==
    ASSUME NEW p, Merge(p)
    PROVE  /\ Identified' = Identified \cup p.new
           /\ \A f \in Features :
                 f \in Active' <=> \/ f \in p.new
                                   \/ f \in Active /\ f \notin p.gone
                                   \/ Returns(p, f)
<1>t. Merging(p) /\ TypeOK /\ Sound(p)
  BY DEF Merge, Merging
<1>1. ASSUME NEW f \in Features
      PROVE  f \in Identified' <=> f \in Identified \cup p.new
  <2>1. identity'[f] = IdentityAfter(p, f)
    BY DEF Merge
  <2>2. identity'[f] = None <=> (f \notin p.new /\ identity[f] = None)
    BY <1>t, <2>1, IdentityAfterLemma
  <2>3. QED
    BY <2>2 DEF Identified
<1>2. p.new \subseteq Features /\ Identified \subseteq Features /\ Identified' \subseteq Features
  BY DEF Merge, Merging, Incoming, Identified
<1>3. ASSUME NEW f \in Features
      PROVE  f \in Active' <=> \/ f \in p.new
                               \/ f \in Active /\ f \notin p.gone
                               \/ Returns(p, f)
  <2>0. /\ identity'[f] = IdentityAfter(p, f)
        /\ f \in Active' <=> f \in Identified' /\ identity'[f].retired = 0
        /\ f \in Active <=> f \in Identified /\ identity[f].retired = 0
    BY DEF Merge, Active
  <2>r. /\ f \in p.new => f \notin Identified /\ f \notin p.gone /\ f \in Incoming(p.snap)
        /\ f \in p.gone => f \notin Incoming(p.snap) /\ f \in Active
        /\ Returns(p, f) => Joined(p, f) /\ f \notin Active
        /\ f \in FeatsOf(p.rows) => Joined(p, f)
        /\ Joined(p, f) => f \in Incoming(p.snap) /\ f \in Identified
        /\ f \in FeatsOf(Reappeared(p)) <=> Returns(p, f)
        /\ FeatsOf(Reappeared(p)) \subseteq FeatsOf(p.rows)
    BY <1>t, RowsLemma DEF Merging, Active, Returns, Joined, FeatsOf, Reappeared
  <2>1. CASE f \in p.new
    <3>1. IdentityAfter(p, f).retired = 0
      BY <2>1, <2>r DEF IdentityAfter
    <3>2. QED
      BY <1>1, <2>0, <2>1, <3>1
  <2>2. CASE f \in p.gone
    <3>1. identity[f] \in Identities /\ p.run \in Nat \ {0}
      BY <1>t, <2>0, <2>2, <2>r DEF TypeOK, Identified, Merging
    <3>2. IdentityAfter(p, f) = [identity[f] EXCEPT !.retired = p.run]
      BY <2>2, <2>r DEF IdentityAfter
    <3>3. IdentityAfter(p, f).retired # 0
      BY <3>1, <3>2 DEF Identities
    <3>4. QED
      BY <2>0, <2>2, <2>r, <3>3
  <2>3. CASE f \in FeatsOf(p.rows)
    <3>1. f \notin p.new /\ f \notin p.gone
      BY <2>3, <2>r
    <3>2. IdentityAfter(p, f).retired = IF f \in FeatsOf(Reappeared(p)) THEN 0
                                        ELSE identity[f].retired
      BY <2>3, <3>1 DEF IdentityAfter
    <3>3. f \in Identified
      BY <2>3, <2>r
    <3>4. QED
      BY <1>1, <2>0, <2>r, <3>1, <3>2, <3>3
  <2>4. CASE f \notin p.new /\ f \notin p.gone /\ f \notin FeatsOf(p.rows)
    <3>1. IdentityAfter(p, f) = identity[f] /\ ~Returns(p, f)
      BY <2>4, <2>r DEF IdentityAfter
    <3>2. QED
      BY <1>1, <2>0, <2>4, <3>1
  <2>5. QED
    BY <2>1, <2>2, <2>3, <2>4
<1>4. QED
  BY <1>1, <1>2, <1>3

LEMMA OpenAfterLemma ==
    ASSUME NEW p, Merge(p), NEW f \in Features, NEW det \in Detectors
    PROVE  Open(f, det)' = IF Raises(p, f, det) THEN {Linked(p, f, det)}
                           ELSE IF Clears(p, f, det) THEN {} ELSE Open(f, det)
<1>t. Merging(p)
  BY DEF Merge
<1>1. ASSUME NEW x
      PROVE  x \in Open(f, det)' <=>
                \/ x \in Open(f, det) /\ ~Clears(p, f, det)
                \/ Raises(p, f, det) /\ x = Linked(p, f, det)
  <2>1. Untouched(p, x) /\ x.feat = f /\ x.det = det /\ x.closed = 0 <=>
           x \in Open(f, det) /\ ~Clears(p, f, det)
    BY DEF Untouched, Open
  <2>2. Cleared(p, x) => x.closed # 0
    BY <1>t, ClearedLemma
  <2>3. RaisedRow(p, x) /\ x.feat = f /\ x.det = det /\ x.closed = 0 <=>
           Raises(p, f, det) /\ x = Linked(p, f, det)
    BY <1>t, LinkedLemma DEF RaisedRow
  <2>4. x \in ExceptionsAfter(p) <=>
           Untouched(p, x) \/ Cleared(p, x) \/ RaisedRow(p, x)
    BY <1>t, ExceptionsAfterRows
  <2>5. x \in Open(f, det)' <=>
           x \in ExceptionsAfter(p) /\ x.feat = f /\ x.det = det /\ x.closed = 0
    BY DEF Open, Merge
  <2>6. QED
    BY <2>1, <2>2, <2>3, <2>4, <2>5
<1>2. Raises(p, f, det) => Open(f, det) = {}
  BY <1>t, SubjectsLemma
<1>3. CASE Raises(p, f, det)
  BY <1>1, <1>2, <1>3
<1>4. CASE ~Raises(p, f, det)
  BY <1>1, <1>4
<1>5. QED
  BY <1>3, <1>4

LEMMA LiveOfNext ==
    ASSUME NEW p, Merge(p), NEW f \in Features, NEW field \in Fields
    PROVE  Live(f, field)' = IF Puts(p, f, field) THEN {Version(p, f, field)}
                             ELSE IF Kills(p, f, field) THEN {} ELSE Live(f, field)
<1>1. Live(f, field)' = LiveIn(FactsAfter(p), f, field)
  BY DEF Merge, Live, LiveIn
<1>2. QED
  BY <1>1, LiveAfterLemma DEF Merge

LEMMA MergedOpen ==
    ASSUME NEW p, Merge(p)
    PROVE  OpenMatch'
<1>t. Merging(p) /\ OpenMatch /\ Sound(p)
  BY DEF Merge, Merging, LedgerInv
<1>1. SUFFICES ASSUME NEW f \in Identified'
               PROVE  /\ Open(f, "disappeared")' = {} <=> f \in Active'
                      /\ Open(f, "apn_unresolvable")' = {} <=> Live(f, "apn")' # {}
  BY DEF OpenMatch
<1>2. f \in Features /\ f \in Identified \cup p.new
  BY MergedIdentities DEF Identified
<1>3. /\ f \in p.new => /\ f \notin Identified /\ f \in Incoming(p.snap)
                        /\ Live(f, "apn") = {} /\ Open(f, "disappeared") = {}
                        /\ Open(f, "apn_unresolvable") = {}
      /\ f \in p.gone => f \in Active /\ f \notin Incoming(p.snap)
      /\ Returns(p, f) => f \notin Active /\ f \in Incoming(p.snap) /\ f \in Identified
      /\ Finds(p, f) \/ Drops(p, f) \/ Swaps(p, f) => f \in Identified
  <2>1. f \in p.new => Live(f, "apn") = {} /\ \A e \in exceptions : e.feat # f
    BY <1>t, <1>2, KeysLemma, SubjectsLemma DEF Fields, Detectors
  <2>2. QED
    BY <2>1 DEF Open, Merge, Merging, Returns, Finds, Drops, Swaps, Joined
<1>4. Open(f, "disappeared")' = {} <=> f \in Active'
  <2>1. Open(f, "disappeared")' =
           IF Raises(p, f, "disappeared") THEN {Linked(p, f, "disappeared")}
           ELSE IF Clears(p, f, "disappeared") THEN {} ELSE Open(f, "disappeared")
    BY <1>2, OpenAfterLemma DEF Detectors
  <2>2. /\ Raises(p, f, "disappeared") <=> f \in p.gone
        /\ Clears(p, f, "disappeared") <=> Returns(p, f)
    BY DEF Raises, Clears
  <2>3. f \in Active' <=> f \in p.new \/ (f \in Active /\ f \notin p.gone) \/ Returns(p, f)
    BY <1>2, MergedIdentities
  <2>4. f \in Identified => (Open(f, "disappeared") = {} <=> f \in Active)
    BY <1>t DEF OpenMatch
  <2>5. QED
    BY <1>2, <1>3, <2>1, <2>2, <2>3, <2>4
<1>5. Open(f, "apn_unresolvable")' = {} <=> Live(f, "apn")' # {}
  <2>1. Open(f, "apn_unresolvable")' =
           IF Raises(p, f, "apn_unresolvable") THEN {Linked(p, f, "apn_unresolvable")}
           ELSE IF Clears(p, f, "apn_unresolvable") THEN {} ELSE Open(f, "apn_unresolvable")
    BY <1>2, OpenAfterLemma DEF Detectors
  <2>2. Live(f, "apn")' = IF Puts(p, f, "apn") THEN {Version(p, f, "apn")}
                          ELSE IF Kills(p, f, "apn") THEN {} ELSE Live(f, "apn")
    BY <1>2, LiveOfNext DEF Fields
  <2>3. /\ Raises(p, f, "apn_unresolvable") <=>
              (f \in p.new /\ In(p, f).apn \in BadApns) \/ Drops(p, f)
        /\ Clears(p, f, "apn_unresolvable") <=> Finds(p, f)
        /\ Puts(p, f, "apn") <=>
              (f \in p.new /\ In(p, f).apn \in Apns) \/ Swaps(p, f) \/ Finds(p, f)
        /\ Kills(p, f, "apn") <=> Drops(p, f) \/ Swaps(p, f)
    BY DEF Raises, Clears, Puts, Kills
  <2>4. f \in Identified => (Open(f, "apn_unresolvable") = {} <=> Live(f, "apn") # {})
    BY <1>t DEF OpenMatch
  <2>5. f \in p.new => In(p, f).apn \in Apns \cup BadApns
    BY <1>t, <1>2, <1>3, InLemma DEF Sound, Incoming
  <2>6. /\ Drops(p, f) => ~Swaps(p, f) /\ ~Finds(p, f) /\ Live(f, "apn") # {}
        /\ Swaps(p, f) => ~Finds(p, f) /\ Live(f, "apn") # {}
        /\ Finds(p, f) => Live(f, "apn") = {}
    BY ValuesAssumption DEF Drops, Swaps, Finds
  <2>7. CASE f \in p.new
    BY <1>3, <2>1, <2>2, <2>3, <2>5, <2>7, ValuesAssumption
  <2>8. CASE f \notin p.new
    BY <1>2, <2>1, <2>2, <2>3, <2>4, <2>6, <2>8
  <2>9. QED
    BY <2>7, <2>8
<1>6. QED
  BY <1>4, <1>5

LEMMA MergedCaches ==
    ASSUME NEW p, Merge(p)
    PROVE  CachesMatch'
<1>t. Merging(p) /\ CachesMatch /\ TypeOK /\ ParcelsIdentified /\ Sound(p)
  BY DEF Merge, Merging, LedgerInv
<1>1. SUFFICES ASSUME NEW f \in Identified'
               PROVE  /\ \A v \in Live(f, "apn")' : parcel'[f].apn = v.val
                      /\ Live(f, "apn")' = {} => parcel'[f].apn = None
                      /\ \A v \in Live(f, "geom")' : parcel'[f].geom = v.val
  BY DEF CachesMatch
<1>2. f \in Features /\ f \in Identified \cup p.new /\ parcel'[f] = ParcelAfter(p, f)
  BY MergedIdentities DEF Identified, Merge
<1>3. /\ f \in p.new => f \notin Identified /\ Live(f, "apn") = {} /\ Live(f, "geom") = {}
      /\ f \in FeatsOf(ApnRows(p)) <=> Drops(p, f) \/ Swaps(p, f) \/ Finds(p, f)
      /\ f \in FeatsOf(Moved(p)) <=> Shifts(p, f)
      /\ f \in FeatsOf(p.rows) => f \in Identified
      /\ FeatsOf(ApnRows(p)) \cup FeatsOf(Moved(p)) \subseteq FeatsOf(p.rows)
  BY <1>t, <1>2, KeysLemma, RowsLemma DEF Fields, Joined, FeatsOf, ApnRows, Moved
<1>4. /\ \A v \in Live(f, "apn")' :
            \/ Puts(p, f, "apn") /\ v.val = In(p, f).apn
            \/ ~Puts(p, f, "apn") /\ ~Kills(p, f, "apn") /\ v \in Live(f, "apn")
      /\ Live(f, "apn")' = {} =>
            ~Puts(p, f, "apn") /\ (Kills(p, f, "apn") \/ Live(f, "apn") = {})
      /\ \A v \in Live(f, "geom")' :
            \/ Puts(p, f, "geom") /\ v.val = In(p, f).geom
            \/ ~Puts(p, f, "geom") /\ ~Kills(p, f, "geom") /\ v \in Live(f, "geom")
  BY <1>t, <1>2, LiveOfNext, KeysLemma DEF Fields, Given
<1>5. /\ Puts(p, f, "apn") <=>
            (f \in p.new /\ In(p, f).apn \in Apns) \/ Swaps(p, f) \/ Finds(p, f)
      /\ Kills(p, f, "apn") <=> Drops(p, f) \/ Swaps(p, f)
      /\ Puts(p, f, "geom") <=>
            (f \in p.new /\ In(p, f).geom \in GoodGeoms) \/ Shifts(p, f)
      /\ Kills(p, f, "geom") <=> Shifts(p, f)
      /\ Swaps(p, f) \/ Finds(p, f) => In(p, f).apn \in Apns
      /\ Drops(p, f) => In(p, f).apn \notin Apns
  BY ValuesAssumption DEF Puts, Kills, Swaps, Finds, Drops
<1>6. CASE f \in p.new
  <2>1. /\ parcel'[f].apn = OrNone(In(p, f).apn, Apns)
        /\ parcel'[f].geom = OrNone(In(p, f).geom, GoodGeoms)
    BY <1>2, <1>6 DEF ParcelAfter
  <2>2. ~Drops(p, f) /\ ~Swaps(p, f) /\ ~Finds(p, f) /\ ~Shifts(p, f)
    BY <1>3, <1>6 DEF Drops, Swaps, Finds, Shifts, Joined
  <2>3. QED
    BY <1>3, <1>4, <1>5, <1>6, <2>1, <2>2 DEF OrNone
<1>7. CASE f \notin p.new
  <2>1. parcel[f] \in Parcels
    BY <1>t, <1>2, <1>7 DEF TypeOK, ParcelsIdentified, Identified
  <2>2. /\ parcel'[f].apn = IF f \in FeatsOf(ApnRows(p)) THEN OrNone(In(p, f).apn, Apns)
                            ELSE parcel[f].apn
        /\ parcel'[f].geom = IF f \in FeatsOf(Moved(p)) THEN OrNone(In(p, f).geom, GoodGeoms)
                             ELSE parcel[f].geom
    BY <1>2, <1>3, <1>7, <2>1 DEF ParcelAfter, Parcels
  <2>3. f \in FeatsOf(Moved(p)) => In(p, f).geom \in GoodGeoms
    <3>1. ~GeometryRejected(p) /\ Moved(p) \subseteq p.rows
      BY DEF Merge, Moved
    <3>2. f \in FeatsOf(p.rows) => In(p, f).geom \in GoodGeoms \cup BadGeoms
      <4>1. p \in Processes /\ p.snap \in Snapshots
        BY <1>t DEF Sound
      <4>2. f \in FeatsOf(p.rows) => Content[p.snap][f] # None
        BY <1>t DEF Sound, FeatsOf
      <4>3. QED
        BY <1>2, <4>1, <4>2, InLemma
    <3>3. QED
      BY <1>3, <3>1, <3>2 DEF GeometryRejected, FeatsOf
  <2>4. /\ \A v \in Live(f, "apn") : parcel[f].apn = v.val
        /\ Live(f, "apn") = {} => parcel[f].apn = None
        /\ \A v \in Live(f, "geom") : parcel[f].geom = v.val
    BY <1>t, <1>2, <1>7 DEF CachesMatch
  <2>5. /\ \A v \in Live(f, "apn")' : parcel'[f].apn = v.val
        /\ Live(f, "apn")' = {} => parcel'[f].apn = None
    BY <1>3, <1>4, <1>5, <1>7, <2>2, <2>4 DEF OrNone
  <2>6. \A v \in Live(f, "geom")' : parcel'[f].geom = v.val
    BY <1>3, <1>4, <1>5, <1>7, <2>2, <2>3, <2>4 DEF OrNone
  <2>7. QED
    BY <2>5, <2>6
<1>8. QED
  BY <1>6, <1>7

\* After a merge the ledger shows the snapshot it merged.
LEMMA MergedMirrors ==
    ASSUME NEW p, Merge(p), parcel' \in [Features -> Parcels \cup {None}],
           ParcelsIdentified'
    PROVE  MirrorsReconciled'
<1>t. Merging(p) /\ Sound(p) /\ FactsInv /\ TypeOK /\ CachesMatch' /\ reconciled' = p.snap
  BY MergedCaches DEF Merge, Merging, LedgerInv
<1>r. /\ p.new = Incoming(p.snap) \ Identified
      /\ p.gone = Active \ Incoming(p.snap)
      /\ p.snap \in Snapshots /\ p \in Processes
  BY <1>t DEF Merging, Sound
<1> SUFFICES ASSUME NEW f \in Features
             PROVE  LET in == Content[p.snap][f] IN
                    IF in = None THEN f \notin Active'
                    ELSE /\ f \in Identified'
                         /\ Live(f, "geom")' # {} =>
                               /\ f \in Active'
                               /\ {v.val : v \in Live(f, "geom")'} = {in.geom}
                               /\ {v.val : v \in Live(f, "apn")'} = {in.apn} \cap Apns
                               /\ parcel'[f] = [apn |-> OrNone(in.apn, Apns),
                                                geom |-> in.geom]
  BY <1>t DEF MirrorsReconciled
<1>a. f \in Active' <=> f \in p.new \/ (f \in Active /\ f \notin p.gone) \/ Returns(p, f)
  BY MergedIdentities
<1>1. CASE Content[p.snap][f] = None
  <2>1. f \notin Incoming(p.snap)
    BY <1>1 DEF Incoming
  <2>2. QED
    BY <1>1, <1>a, <1>r, <2>1 DEF Returns, Joined
<1>2. CASE Content[p.snap][f] # None
  <2> DEFINE in == In(p, f)
  <2>1. f \in Incoming(p.snap) /\ f \in Identified' /\ in = Content[p.snap][f]
    BY <1>2, <1>r, MergedIdentities DEF Incoming, In
  <2>2. in.apn \in Apns \cup BadApns /\ in.geom \in GoodGeoms \cup BadGeoms
    BY <1>2, <1>r, InLemma
  <2> HIDE DEF in
  <2>3. ASSUME Live(f, "geom")' # {}
        PROVE  /\ f \in Active'
               /\ {v.val : v \in Live(f, "geom")'} = {in.geom}
               /\ {v.val : v \in Live(f, "apn")'} = {in.apn} \cap Apns
    <3>1. /\ Live(f, "geom")' = IF Puts(p, f, "geom") THEN {Version(p, f, "geom")}
                                ELSE IF Kills(p, f, "geom") THEN {} ELSE Live(f, "geom")
          /\ Live(f, "apn")' = IF Puts(p, f, "apn") THEN {Version(p, f, "apn")}
                               ELSE IF Kills(p, f, "apn") THEN {} ELSE Live(f, "apn")
          /\ Version(p, f, "geom").val = in.geom /\ Version(p, f, "apn").val = in.apn
      BY <1>t, LiveOfNext, KeysLemma DEF Fields, Given, in
    <3>2. CASE f \in p.new
      <4>1. /\ Live(f, "geom") = {} /\ Live(f, "apn") = {} /\ f \notin Identified
        BY <1>t, <3>2, KeysLemma DEF Fields
      <4>2. Puts(p, f, "geom") /\ ~Kills(p, f, "apn")
        BY <2>3, <3>1, <4>1 DEF Kills, Drops, Swaps, Joined
      <4>3. Puts(p, f, "apn") <=> in.apn \in Apns
        BY <3>2, <4>1 DEF Puts, Swaps, Finds, in
      <4>4. QED
        BY <1>a, <3>1, <3>2, <4>1, <4>2, <4>3
    <3>3. CASE f \notin p.new
      <4>1. f \in Identified /\ f \notin p.gone
        BY <1>r, <2>1, <3>3
      <4>2. Live(f, "geom") # {}
        BY <2>3, <3>1, <3>3 DEF Puts, Shifts, Joined
      <4>3. Joined(p, f)
        BY <2>1, <4>1, <4>2 DEF Joined
      <4>4. f \in Active'
        BY <1>a, <4>1, <4>3 DEF Returns
      <4>5. Live(f, "geom") = {Current(f, "geom")}
        BY <1>t, <4>2, LiveLemma DEF Fields
      <4>6. Live(f, "apn") # {} => /\ Live(f, "apn") = {Current(f, "apn")}
                                   /\ Current(f, "apn").val \in Apns
        BY <1>t, LiveLemma DEF Fields
      <4>7. {v.val : v \in Live(f, "geom")'} = {in.geom}
        <5>1. /\ Puts(p, f, "geom") <=> Current(f, "geom").val # in.geom
              /\ Kills(p, f, "geom") <=> Current(f, "geom").val # in.geom
          BY <3>3, <4>3 DEF Puts, Kills, Shifts, in
        <5>2. QED
          BY <3>1, <4>5, <5>1
      <4>8. {v.val : v \in Live(f, "apn")'} = {in.apn} \cap Apns
        <5>1. /\ Puts(p, f, "apn") <=>
                    in.apn \in Apns /\ (Live(f, "apn") # {} => Current(f, "apn").val # in.apn)
              /\ Kills(p, f, "apn") <=>
                    /\ Live(f, "apn") # {}
                    /\ in.apn \in BadApns \/ Current(f, "apn").val # in.apn
          BY <2>2, <3>3, <4>3 DEF Puts, Kills, Drops, Swaps, Finds, in
        <5>2. CASE Live(f, "apn") = {}
          BY <3>1, <5>1, <5>2
        <5>3. CASE Live(f, "apn") # {}
          BY <2>2, <3>1, <4>6, <5>1, <5>3, ValuesAssumption
        <5>4. QED
          BY <5>2, <5>3
      <4>9. QED
        BY <4>4, <4>7, <4>8
    <3>4. QED
      BY <3>2, <3>3
  <2>4. ASSUME Live(f, "geom")' # {}
        PROVE  parcel'[f] = [apn |-> OrNone(in.apn, Apns), geom |-> in.geom]
    <3>1. parcel'[f] \in Parcels
      BY <2>1 DEF ParcelsIdentified, Identified
    <3>2. parcel'[f].geom = in.geom
      <4>1. PICK v \in Live(f, "geom")' : TRUE
        BY <2>4
      <4>2. v.val = in.geom
        BY <2>3, <2>4, <4>1
      <4>3. QED
        BY <1>t, <2>1, <4>1, <4>2 DEF CachesMatch
    <3>3. parcel'[f].apn = OrNone(in.apn, Apns)
      <4>1. {v.val : v \in Live(f, "apn")'} = {in.apn} \cap Apns
        BY <2>3, <2>4
      <4>2. /\ \A v \in Live(f, "apn")' : parcel'[f].apn = v.val
            /\ Live(f, "apn")' = {} => parcel'[f].apn = None
        BY <1>t, <2>1 DEF CachesMatch
      <4>3. CASE in.apn \in Apns
        <5>1. PICK v \in Live(f, "apn")' : v.val = in.apn
          BY <4>1, <4>3
        <5>2. QED
          BY <4>2, <4>3, <5>1 DEF OrNone
      <4>4. CASE in.apn \notin Apns
        <5>1. Live(f, "apn")' = {}
          BY <4>1, <4>4
        <5>2. QED
          BY <4>2, <4>4, <5>1 DEF OrNone
      <4>5. QED
        BY <4>3, <4>4
    <3>4. QED
      BY <3>1, <3>2, <3>3 DEF Parcels
  <2>5. QED
    BY <1>2, <2>1, <2>3, <2>4
<1>3. QED
  BY <1>1, <1>2

-----------------------------------------------------------------------------
(* The commit, and every step.                                             *)

\* The run of a snapshot that is the last succeeded one writes its job_run only.
LEMMA SameCommit ==
    ASSUME TypeInv, SerialInv, NEW l \in Loaders, Commit(l), loader[l].same
    PROVE  UNCHANGED <<ledger, reconciled>>
<1> DEFINE p == loader[l]
<1>1. p.new = {} /\ p.gone = {} /\ p.rows = {} /\ p.dup = {}
  BY DEF SerialInv, LoadersRead, Reads, Commit
<1>2. /\ Degraded(p) = {} /\ Replaced(p) = {} /\ Resolved(p) = {}
      /\ Moved(p) = {} /\ Reappeared(p) = {} /\ ApnRows(p) = {}
  BY <1>1 DEF Degraded, Replaced, Resolved, Moved, Reappeared, ApnRows
<1> HIDE DEF p
<1>3. FactsAfter(p) = facts
  <2>1. Retiring(p) = {} /\ InsertedFacts(p) = {}
    BY <1>1, <1>2 DEF Retiring, InsertedFacts
  <2>2. Retire(p, facts) = facts
    BY <2>1 DEF Retire
  <2>3. QED
    BY <2>1, <2>2 DEF FactsAfter
<1>4. ExceptionsAfter(p) = exceptions
  <2>1. InsertedExceptions(p) = {}
    BY <1>1, <1>2 DEF InsertedExceptions, FeatsOf
  <2>2. \A e \in exceptions : ~Closing(p, e)
    BY <1>2 DEF Closing, FeatsOf
  <2>3. CloseCleared(p, exceptions) = exceptions
    BY <2>2 DEF CloseCleared
  <2>4. QED
    BY <2>1, <2>3 DEF ExceptionsAfter
<1>5. \A f \in Features : ParcelAfter(p, f) = parcel[f] /\ IdentityAfter(p, f) = identity[f]
  BY <1>1 DEF ParcelAfter, IdentityAfter, FeatsOf
<1>6. /\ facts' = FactsAfter(p) /\ exceptions' = ExceptionsAfter(p)
      /\ parcel' = [f \in Features |-> ParcelAfter(p, f)]
      /\ identity' = [f \in Features |-> IdentityAfter(p, f)]
      /\ reconciled' = reconciled
  BY DEF Commit, p
<1>7. parcel' = parcel /\ identity' = identity
  BY <1>5, <1>6 DEF TypeInv, TypeOK
<1>8. QED
  BY <1>3, <1>4, <1>6, <1>7 DEF ledger

LEMMA CommitMerges ==
    ASSUME TypeInv, Provenance, SerialInv, NEW l \in Loaders, Commit(l), ~loader[l].same
    PROVE  Merge(loader[l])
  BY WriterMerges DEF Commit, Merge, FinishRun, Writable

LEMMA CommitSerial ==
    ASSUME OneLoader, TypeInv, Provenance, SerialInv, NEW l \in Loaders, Commit(l)
    PROVE  SerialInv'
<1> DEFINE p == loader[l]
<1>t. clock \in Nat /\ clock' = clock + 1
  BY DEF TypeInv, TypeOK, Commit, FinishRun
<1>1. LedgerInv'
  <2>1. CASE p.same
    BY <1>t, <2>1, SameCommit, QuietKeeps DEF SerialInv
  <2>2. CASE ~p.same
    <3>1. Merge(p) /\ Merging(p)
      BY <2>2, CommitMerges DEF Merge
    <3>2. Identified' = Identified \cup p.new
      BY <3>1, MergedIdentities
    <3>3. FactsInv' /\ ExceptionsInv'
      BY <3>1, <3>2, MergedFacts, MergedExceptions DEF Merge
    <3>4. OpenMatch' /\ CachesMatch'
      BY <3>1, MergedOpen, MergedCaches
    <3>5. MirrorsReconciled'
      BY <3>1, CommitIdentities, MergedMirrors
    <3>6. QED
      BY <3>3, <3>4, <3>5 DEF LedgerInv
  <2>3. QED
    BY <2>1, <2>2
<1>2. NoUniqueClash'
  <2>1. p.run \in DOMAIN jobs /\ jobs \in Seq(JobRuns) /\ p.snap \in Snapshots
    BY DEF TypeInv, TypeOK, RunsOwned, LoadersHold, InRun, Commit
  <2>2. FinishRun(p.run, "succeeded", p.snap, "none")
    BY DEF Commit
  <2>3. /\ DOMAIN jobs' = DOMAIN jobs
        /\ \A k \in DOMAIN jobs :
              jobs'[k] = IF k = p.run
                         THEN Run("succeeded", p.snap, clock + 1, "none", jobs[p.run].key)
                         ELSE jobs[k]
    BY <1>t, <2>1, <2>2, FinishRunLemma DEF Statuses, Errors
  <2>4. QED
    BY <2>3, QuietErrors DEF SerialInv, Run
<1>3. loader'[l].pc = "refresh"
  BY DEF Commit, TypeInv, TypeOK, Processes
<1>4. Reads(loader[l])' /\ Newest(loader[l])'
  BY <1>3 DEF Reads, Newest, InRun
<1>5. QED
  BY <1>1, <1>2, <1>4, AloneReads DEF SerialInv

\* A constraint other than a unique one ends the run that cannot commit.
LEMMA AbortSerial ==
    ASSUME OneLoader, TypeInv, Provenance, SerialInv, NEW l \in Loaders, Abort(l)
    PROVE  SerialInv'
<1> DEFINE p == loader[l]
<1>1. ~IdentityClash(p) /\ ~FactClash(p) /\ ~ExceptionClash(p)
  <2>1. CASE ~p.same
    BY <2>1, WriterMerges, NoFactClash, NoExceptionClash DEF Abort
  <2>2. CASE p.same
    <3>1. p.new = {} /\ p.gone = {} /\ p.rows = {} /\ p.dup = {}
      BY <2>2 DEF SerialInv, LoadersRead, Reads, Abort
    <3>2. InsertedFacts(p) = {} /\ InsertedExceptions(p) = {}
      BY <3>1 DEF InsertedFacts, InsertedExceptions, Degraded, Replaced, Resolved,
                  Moved, ApnRows, FeatsOf
    <3>3. QED
      BY <3>1, <3>2 DEF IdentityClash, FactClash, ExceptionClash
  <2>3. QED
    BY <2>1, <2>2
<1>2. CommitError(p) \in Errors \ {"unique"}
  BY <1>1 DEF CommitError, Errors
<1>3. p.pc \in InRun /\ FailRun(l, CommitError(p))
  BY DEF Abort, InRun
<1> HIDE DEF p
<1>4. QED
  BY <1>2, <1>3, FailRunSerial DEF p

LEMMA NextSerialInv ==
    ASSUME OneLoader, TypeInv, Provenance, SerialInv, [Next]_vars
    PROVE  SerialInv'
<1>1. CASE UNCHANGED vars
  <2>1. LedgerInv'
    BY <1>1, QuietKeeps DEF vars, ledger, SerialInv, TypeInv, TypeOK
  <2>2. NoUniqueClash'
    BY <1>1 DEF vars, SerialInv, NoUniqueClash
  <2>3. LoadersRead'
    BY <1>1 DEF vars, ledger, SerialInv, LoadersRead, Reads, Newest, Incoming,
       Identified, Active, JoinedRows, Current, Live, OpenDisappeared
  <2>4. QED
    BY <2>1, <2>2, <2>3 DEF SerialInv
<1>2. ASSUME NEW x \in Snapshots, NEW ok \in BOOLEAN, Fetch(x, ok)
      PROVE  SerialInv'
  BY <1>2, FetchSerial
<1>3. ASSUME NEW l \in Loaders, NEW x \in Snapshots, ReadAnchor(l, x)
      PROVE  SerialInv'
  BY <1>3, ReadAnchorSerial
<1>4. ASSUME NEW l \in Loaders, StartRun(l)
      PROVE  SerialInv'
  BY <1>4, StartRunSerial
<1>5. ASSUME NEW l \in Loaders, VerifyIdentities(l)
      PROVE  SerialInv'
  BY <1>5, VerifyIdentitiesSerial
<1>6. ASSUME NEW l \in Loaders, RefuseIdentities(l)
      PROVE  SerialInv'
  BY <1>6, FailRunSerial DEF RefuseIdentities, InRun, Errors
<1>7. ASSUME NEW l \in Loaders, ClassifyNew(l) \/ ClassifyGone(l)
      PROVE  SerialInv'
  BY <1>7, ClassifyNewSerial, ClassifyGoneSerial
<1>8. ASSUME NEW l \in Loaders, CaptureChanges(l) \/ CaptureOpen(l)
      PROVE  SerialInv'
  BY <1>8, CaptureChangesSerial, CaptureOpenSerial
<1>9. ASSUME NEW l \in Loaders, Commit(l)
      PROVE  SerialInv'
  BY <1>9, CommitSerial
<1>10. ASSUME NEW l \in Loaders, Abort(l)
       PROVE  SerialInv'
  BY <1>10, AbortSerial
<1>11. ASSUME NEW l \in Loaders, Fail(l)
       PROVE  SerialInv'
  BY <1>11, FailRunSerial DEF Fail, InRun, Errors
<1>12. ASSUME NEW l \in Loaders, RefreshView(l) \/ RefreshFails(l) \/ Crash(l)
       PROVE  SerialInv'
  BY <1>12, EndSerial
<1>13. QED
  BY <1>1, <1>2, <1>3, <1>4, <1>5, <1>6, <1>7, <1>8, <1>9, <1>10, <1>11, <1>12
     DEF Next

\* The whole inductive invariant, and what the theorems start from.
AllInv == TypeInv /\ Provenance /\ SerialInv

LEMMA AllInvHolds ==
    ASSUME OneLoader
    PROVE  Spec => []AllInv
<1>1. Init => AllInv
  <2>1. Init => Provenance
    BY DEF Init, Provenance, Identified
  <2>2. QED
    BY <2>1, InitTypeInv, InitSerialInv DEF AllInv
<1>2. AllInv /\ [Next]_vars => AllInv'
  BY NextTypeInv, NextProvenance, NextSerialInv DEF AllInv
<1>3. QED
  BY <1>1, <1>2, PTL DEF Spec

\* The counts of OpenExceptionsMatch follow from one open row per subject.
LEMMA OpenCounts ==
    ASSUME AllInv
    PROVE  OpenExceptionsMatch
<1>1. SUFFICES ASSUME NEW f \in Identified
               PROVE  /\ Cardinality(Open(f, "disappeared")) =
                            IF f \in Active THEN 0 ELSE 1
                      /\ Cardinality(Open(f, "apn_unresolvable")) =
                            IF Live(f, "apn") = {} THEN 1 ELSE 0
  BY DEF OpenExceptionsMatch
<1>2. ASSUME NEW det, Open(f, det) # {} PROVE Cardinality(Open(f, det)) = 1
  <2>1. \A d, e \in Open(f, det) : d = e
    BY DEF Open, AllInv, SerialInv, LedgerInv, ExceptionsInv, SameSubject
  <2>2. PICK d \in Open(f, det) : TRUE
    BY <1>2
  <2>3. Open(f, det) = {d}
    BY <2>1, <2>2
  <2>4. QED
    BY <2>3, FS_Singleton
<1>3. /\ Open(f, "disappeared") = {} <=> f \in Active
      /\ Open(f, "apn_unresolvable") = {} <=> Live(f, "apn") # {}
  BY DEF AllInv, SerialInv, LedgerInv, OpenMatch
<1>4. QED
  BY <1>2, <1>3, FS_EmptySet

-----------------------------------------------------------------------------
(* Theorems: one loader.                                                   *)

\* With one phase_e process at a time, after any sequence of runs, failures
\* and crashes, the ledger shows the content of the last snapshot reconciled.
THEOREM MirrorsReconciledHolds ==
    ASSUME OneLoader
    PROVE  Spec => []MirrorsReconciled
<1>1. AllInv => MirrorsReconciled
  BY DEF AllInv, SerialInv, LedgerInv
<1>2. QED
  BY <1>1, AllInvHolds, PTL

\* With one phase_e process at a time, exactly one open exception says that a
\* parcel disappeared while it is retired, and exactly one that its APN is
\* unresolvable while it has no live APN; otherwise there is none.
THEOREM OpenExceptionsMatchHolds ==
    ASSUME OneLoader
    PROVE  Spec => []OpenExceptionsMatch
  BY OpenCounts, AllInvHolds, PTL

\* With one phase_e process at a time, no run ever fails on a uniqueness
\* constraint of the ledger.
THEOREM NoUniqueClashHolds ==
    ASSUME OneLoader
    PROVE  Spec => []NoUniqueClash
<1>1. AllInv => NoUniqueClash
  BY DEF AllInv, SerialInv
<1>2. QED
  BY <1>1, AllInvHolds, PTL

\* With one phase_e process at a time, the versions of every field of every
\* parcel form one line.
THEOREM LinearHistoryHolds ==
    ASSUME OneLoader
    PROVE  Spec => []LinearHistory
<1>1. AllInv => LinearHistory
  BY DEF AllInv, SerialInv, LedgerInv, FactsInv
<1>2. QED
  BY <1>1, AllInvHolds, PTL

\* With one phase_e process at a time, a reopened exception names the closed
\* row it reopens, and no closed row is reopened twice.
THEOREM ReopenedOnceHolds ==
    ASSUME OneLoader
    PROVE  Spec => []ReopenedOnce
<1>1. AllInv => ReopenedOnce
  BY DEF AllInv, SerialInv, LedgerInv, ExceptionsInv
<1>2. QED
  BY <1>1, AllInvHolds, PTL

-----------------------------------------------------------------------------
(* A second reconciliation of the same content.                            *)

\* What the ledger already mirrors is no change.
LEMMA MirroredIsQuiet ==
    ASSUME NEW p, Merge(p), p.snap = reconciled
    PROVE  UNCHANGED <<facts, exceptions>> /\ Active' = Active
<1>t. /\ Merging(p) /\ TypeOK /\ FactsInv /\ MirrorsReconciled /\ p.snap \in Snapshots
      /\ reconciled # None
  <2>1. Merging(p) /\ TypeOK /\ FactsInv /\ MirrorsReconciled /\ p.snap \in Snapshots
    BY DEF Merge, Merging, LedgerInv, Sound
  <2>2. QED
    BY <2>1, NoneAssumption
<1>1. ASSUME NEW f \in Features
      PROVE  /\ f \notin p.new /\ f \notin p.gone
             /\ ~Drops(p, f) /\ ~Swaps(p, f) /\ ~Finds(p, f) /\ ~Shifts(p, f)
             /\ ~Returns(p, f)
  <2>1. f \notin p.new /\ f \notin p.gone
    BY <1>t DEF MirrorsReconciled, Merging, Incoming
  <2>2. ASSUME Joined(p, f)
        PROVE  ~Drops(p, f) /\ ~Swaps(p, f) /\ ~Finds(p, f) /\ ~Shifts(p, f)
               /\ ~Returns(p, f)
    <3>1. In(p, f) # None /\ Live(f, "geom") # {} /\ In(p, f) = Content[reconciled][f]
      BY <2>2 DEF Joined, Incoming, In
    <3>2. /\ f \in Active
          /\ {v.val : v \in Live(f, "geom")} = {In(p, f).geom}
          /\ {v.val : v \in Live(f, "apn")} = {In(p, f).apn} \cap Apns
      BY <1>t, <3>1 DEF MirrorsReconciled
    <3>3. Current(f, "geom") \in Live(f, "geom")
      BY <1>t, <3>1, LiveLemma DEF Fields
    <3>4. Live(f, "apn") # {} => Current(f, "apn") \in Live(f, "apn")
      BY <1>t, LiveLemma DEF Fields
    <3>5. ~Shifts(p, f) /\ ~Returns(p, f)
      BY <3>2, <3>3 DEF Shifts, Returns
    <3>6. Live(f, "apn") # {} =>
             Current(f, "apn").val = In(p, f).apn /\ In(p, f).apn \in Apns
      BY <3>2, <3>4
    <3>7. Live(f, "apn") = {} => In(p, f).apn \notin Apns
      BY <3>2
    <3>8. QED
      BY <3>5, <3>6, <3>7, ValuesAssumption DEF Drops, Swaps, Finds
  <2>3. QED
    BY <2>1, <2>2 DEF Drops, Swaps, Finds, Shifts, Returns
<1>2. \A f \in Features, field \in Fields : ~Kills(p, f, field) /\ ~Puts(p, f, field)
  BY <1>1 DEF Kills, Puts
<1>3. \A f \in Features, det \in Detectors : ~Clears(p, f, det) /\ ~Raises(p, f, det)
  BY <1>1 DEF Clears, Raises
<1>4. facts' = facts
  <2>1. \A v \in facts : v.feat \in Features /\ v.field \in Fields
    BY <1>t DEF TypeOK, Facts
  <2>2. \A w : w \in FactsAfter(p) <=> w \in facts
    BY <1>t, <1>2, <2>1, FactsAfterLemma DEF Kept, Retired, Opened
  <2>3. QED
    BY <2>2 DEF Merge
<1>5. exceptions' = exceptions
  <2>1. \A e \in exceptions : e.feat \in Features /\ e.det \in Detectors
    BY <1>t DEF TypeOK, Exceptions
  <2>2. \A x : x \in ExceptionsAfter(p) <=> x \in exceptions
    BY <1>t, <1>3, <2>1, ExceptionsAfterRows DEF Untouched, Cleared, RaisedRow
  <2>3. QED
    BY <2>2 DEF Merge
<1>6. Active' = Active
  <2>1. \A f \in Features : f \in Active' <=> f \in Active
    BY <1>1, MergedIdentities
  <2>2. QED
    BY <2>1 DEF Active, Identified
<1>7. QED
  BY <1>4, <1>5, <1>6

LEMMA RerunStep ==
    ASSUME AllInv, [Next]_vars, NEW l \in Loaders,
           loader[l].pc = "write", loader'[l].pc = "refresh",
           loader[l].snap = reconciled
    PROVE  UNCHANGED <<facts, exceptions>> /\ Active' = Active
<1>t. loader \in [Loaders -> Processes]
  BY DEF AllInv, TypeInv, TypeOK
<1>1. Commit(l)
  <2>1. ~UNCHANGED loader
    OBVIOUS
  <2>2. ASSUME NEW m \in Loaders, m # l PROVE ~Commit(m)
    BY <1>t, <2>2 DEF Commit
  <2>3. ASSUME NEW m \in Loaders,
               \/ \E x \in Snapshots : ReadAnchor(m, x)
               \/ StartRun(m) \/ VerifyIdentities(m) \/ ClassifyNew(m)
               \/ ClassifyGone(m) \/ CaptureChanges(m) \/ CaptureOpen(m)
        PROVE  FALSE
    BY <1>t, <2>3 DEF ReadAnchor, StartRun, VerifyIdentities, ClassifyNew, ClassifyGone,
                      CaptureChanges, CaptureOpen, Processes
  <2>4. ASSUME NEW m \in Loaders,
               \/ RefuseIdentities(m) \/ Abort(m) \/ Fail(m)
               \/ RefreshView(m) \/ RefreshFails(m) \/ Crash(m)
        PROVE  FALSE
    BY <1>t, <2>4 DEF RefuseIdentities, Abort, Fail, FailRun, RefreshView,
                      RefreshFails, Crash, Idle
  <2>5. QED
    BY <2>1, <2>2, <2>3, <2>4 DEF Next, Fetch, vars
<1>2. CASE loader[l].same
  <2>1. UNCHANGED ledger
    BY <1>1, <1>2, SameCommit DEF AllInv
  <2>2. QED
    BY <2>1 DEF ledger, Active, Identified
<1>3. CASE ~loader[l].same
  BY <1>1, <1>3, CommitMerges, MirroredIsQuiet DEF AllInv
<1>4. QED
  BY <1>2, <1>3

\* With one phase_e process at a time, a run that reconciles the snapshot the
\* ledger already mirrors writes no fact and no exception, retires and revives
\* nothing, whichever of the two paths of phase_e it takes.
THEOREM RerunWritesNothingHolds ==
    ASSUME OneLoader
    PROVE  Spec => RerunWritesNothing
<1> DEFINE A == \A l \in Loaders :
                  (/\ loader[l].pc = "write" /\ loader'[l].pc = "refresh"
                   /\ loader[l].snap = reconciled)
                      => UNCHANGED <<facts, exceptions>> /\ Active' = Active
<1>1. AllInv /\ [Next]_vars => [A]_vars
  BY RerunStep
<1>2. QED
  BY <1>1, AllInvHolds, PTL DEF Spec, RerunWritesNothing

-----------------------------------------------------------------------------
(* The fact table implements one timeline per parcel and field.            *)

RunOf(v) == IF v = None THEN 0 ELSE v.run

\* The abstract variables at a key.
LEMMA AbstractAt ==
    ASSUME NEW f \in Features, NEW field \in Fields
    PROVE  /\ LiveVersion[<<f, field>>] = RunOf(Current(f, field))
           /\ \A n : n \in DeadVersions[<<f, field>>] <=>
                 \E v \in facts : v.feat = f /\ v.field = field /\ v.until # 0 /\ n = v.run
           /\ \A n : n \in Links[<<f, field>>] <=>
                 \E v \in facts : v.feat = f /\ v.field = field /\ n = <<v.sup, v.run>>
<1>1. <<f, field>> \in Keys
  BY DEF Keys
<1>2. QED
  BY <1>1 DEF LiveVersion, DeadVersions, Links, RunOf

LEMMA AbstractAtNext ==
    ASSUME NEW f \in Features, NEW field \in Fields
    PROVE  /\ LiveVersion'[<<f, field>>] = RunOf(Current(f, field)')
           /\ \A n : n \in DeadVersions'[<<f, field>>] <=>
                 \E v \in facts' : v.feat = f /\ v.field = field /\ v.until # 0 /\ n = v.run
           /\ \A n : n \in Links'[<<f, field>>] <=>
                 \E v \in facts' : v.feat = f /\ v.field = field /\ n = <<v.sup, v.run>>
<1>1. <<f, field>> \in Keys
  BY DEF Keys
<1>2. QED
  BY <1>1 DEF LiveVersion, DeadVersions, Links, RunOf

\* The live version of a key after a merge.
LEMMA MergedVersion ==
    ASSUME NEW p, Merge(p), facts' \subseteq Facts, NEW f \in Features, NEW field \in Fields
    PROVE  LiveVersion'[<<f, field>>] =
              IF Puts(p, f, field) THEN p.run
              ELSE IF Kills(p, f, field) THEN 0 ELSE LiveVersion[<<f, field>>]
<1>1. Live(f, field)' = IF Puts(p, f, field) THEN {Version(p, f, field)}
                        ELSE IF Kills(p, f, field) THEN {} ELSE Live(f, field)
  BY LiveOfNext
<1>2. Current(f, field)' = IF Live(f, field)' = {} THEN None
                           ELSE CHOOSE v \in Live(f, field)' : TRUE
  BY DEF Current
<1>3. CASE Puts(p, f, field)
  <2>1. Live(f, field)' = {Version(p, f, field)} /\ Current(f, field)' = Version(p, f, field)
    BY <1>1, <1>2, <1>3
  <2>2. Version(p, f, field) \in facts'
    BY <2>1 DEF Live, LiveIn
  <2>3. Version(p, f, field) # None /\ Version(p, f, field).run = p.run
    BY <2>2, KeysLemma, NoneAssumption DEF Merge
  <2>4. QED
    BY <1>3, <2>1, <2>3, AbstractAtNext DEF RunOf
<1>4. CASE ~Puts(p, f, field) /\ Kills(p, f, field)
  BY <1>1, <1>2, <1>4, AbstractAtNext DEF RunOf
<1>5. CASE ~Puts(p, f, field) /\ ~Kills(p, f, field)
  <2>1. Current(f, field)' = Current(f, field)
    BY <1>1, <1>2, <1>5 DEF Current
  <2>2. QED
    BY <1>5, <2>1, AbstractAt, AbstractAtNext
<1>6. QED
  BY <1>3, <1>4, <1>5

\* The live version of a key before it: older than the run, not 0 if it dies.
LEMMA OldVersion ==
    ASSUME NEW p, Merging(p), NEW f \in Features, NEW field \in Fields
    PROVE  /\ Kills(p, f, field) => /\ LiveVersion[<<f, field>>] = Current(f, field).run
                                    /\ LiveVersion[<<f, field>>] # 0
           /\ Puts(p, f, field) /\ ~Kills(p, f, field) => LiveVersion[<<f, field>>] = 0
           /\ p.run \notin DeadVersions[<<f, field>>] \cup {0, LiveVersion[<<f, field>>]}
<1>t. TypeOK /\ FactsInv /\ p.run \in Nat \ {0} /\ \A v \in facts : v.run \in 1 .. p.run - 1
  BY DEF Merging, LedgerInv
<1>1. CASE Live(f, field) = {}
  <2>1. LiveVersion[<<f, field>>] = 0
    BY <1>1, AbstractAt DEF Current, RunOf
  <2>2. QED
    BY <1>1, <1>t, <2>1, KeysLemma, AbstractAt
<1>2. CASE Live(f, field) # {}
  <2>1. Current(f, field) \in facts /\ Current(f, field) # None
    BY <1>2, <1>t, LiveLemma
  <2>2. LiveVersion[<<f, field>>] = Current(f, field).run
    BY <2>1, AbstractAt DEF RunOf
  <2>3. QED
    BY <1>2, <1>t, <2>1, <2>2, KeysLemma, AbstractAt
<1>3. QED
  BY <1>1, <1>2

LEMMA MergedDead ==
    ASSUME NEW p, Merge(p), NEW f \in Features, NEW field \in Fields
    PROVE  DeadVersions'[<<f, field>>] =
              DeadVersions[<<f, field>>]
              \cup IF Kills(p, f, field) THEN {LiveVersion[<<f, field>>]} ELSE {}
<1>t. Merging(p) /\ TypeOK /\ FactsInv /\ facts' = FactsAfter(p) /\ p.run # 0
  BY DEF Merge, Merging, LedgerInv
<1> DEFINE c == Current(f, field)
<1>1. ASSUME NEW v \in facts', v.feat = f, v.field = field, v.until # 0
      PROVE  \/ v.run \in DeadVersions[<<f, field>>]
             \/ Kills(p, f, field) /\ v.run = LiveVersion[<<f, field>>]
  <2>1. ~Opened(p, v)
    BY <1>t, <1>1, KeysLemma DEF Opened
  <2>2. PICK w \in facts : /\ w.run = v.run /\ SameKey(w, v)
                           /\ \/ v = w
                              \/ w.until = 0 /\ Kills(p, f, field)
    BY <1>t, <1>1, <2>1, MergedFactRows
  <2>3. CASE v = w
    BY <1>1, <2>2, <2>3, AbstractAt
  <2>4. CASE w.until = 0 /\ Kills(p, f, field)
    <3>1. w \in Live(f, field)
      BY <1>1, <2>2, <2>4 DEF Live, LiveIn, SameKey
    <3>2. w = c
      BY <1>t, <3>1, LiveLemma
    <3>3. QED
      BY <1>t, <2>2, <2>4, <3>2, OldVersion
  <2>5. QED
    BY <2>2, <2>3, <2>4
<1>2. ASSUME NEW v \in facts, v.feat = f, v.field = field, v.until # 0
      PROVE  v \in facts'
  BY <1>t, <1>2, FactsAfterLemma DEF Kept
<1>3. ASSUME Kills(p, f, field)
      PROVE  \E v \in facts' : /\ v.feat = f /\ v.field = field /\ v.until # 0
                               /\ v.run = LiveVersion[<<f, field>>]
  <2>1. c \in facts /\ c.feat = f /\ c.field = field /\ c.until = 0 /\ c \in Facts
    BY <1>t, <1>3, KeysLemma, LiveLemma
  <2> DEFINE d == [c EXCEPT !.until = p.run]
  <2>2. Retired(p, d)
    BY <1>3, <2>1 DEF Retired
  <2>3. d.feat = f /\ d.field = field /\ d.until = p.run /\ d.run = c.run
    BY <2>1 DEF Facts
  <2> HIDE DEF c, d
  <2>4. d \in facts'
    BY <1>t, <2>2, FactsAfterLemma
  <2>5. QED
    BY <1>3, <1>t, <2>3, <2>4, OldVersion DEF c
<1>4. \A n : n \in DeadVersions'[<<f, field>>] <=>
         n \in DeadVersions[<<f, field>>]
                  \cup IF Kills(p, f, field) THEN {LiveVersion[<<f, field>>]} ELSE {}
  BY <1>1, <1>2, <1>3, AbstractAt, AbstractAtNext
<1>5. QED
  BY <1>4

LEMMA MergedLinksOf ==
    ASSUME NEW p, Merge(p), NEW f \in Features, NEW field \in Fields
    PROVE  Links'[<<f, field>>] =
              Links[<<f, field>>]
              \cup IF Puts(p, f, field) THEN {<<LiveVersion[<<f, field>>], p.run>>} ELSE {}
<1>t. Merging(p) /\ TypeOK /\ facts' = FactsAfter(p)
  BY DEF Merge, Merging
<1>0. ASSUME Puts(p, f, field)
      PROVE  /\ Version(p, f, field).sup = LiveVersion[<<f, field>>]
             /\ Version(p, f, field).run = p.run
  BY <1>0, <1>t, KeysLemma, OldVersion
<1>1. ASSUME NEW v \in facts', v.feat = f, v.field = field
      PROVE  \/ <<v.sup, v.run>> \in Links[<<f, field>>]
             \/ Puts(p, f, field) /\ <<v.sup, v.run>> = <<LiveVersion[<<f, field>>], p.run>>
  <2>1. CASE Opened(p, v)
    <3>1. Puts(p, f, field) /\ v = Version(p, f, field)
      BY <1>t, <1>1, <2>1, KeysLemma DEF Opened
    <3>2. QED
      BY <1>0, <3>1
  <2>2. CASE ~Opened(p, v)
    <3>1. PICK w \in facts : w.run = v.run /\ SameKey(w, v) /\ w.sup = v.sup
      BY <1>t, <2>2, MergedFactRows
    <3>2. QED
      BY <1>1, <3>1, AbstractAt DEF SameKey
  <2>3. QED
    BY <2>1, <2>2
<1>2. ASSUME NEW v \in facts, v.feat = f, v.field = field
      PROVE  \E w \in facts' : /\ w.feat = f /\ w.field = field
                               /\ w.sup = v.sup /\ w.run = v.run
  <2>1. CASE v.until = 0 /\ Kills(p, f, field)
    <3> DEFINE d == [v EXCEPT !.until = p.run]
    <3>1. Retired(p, d)
      BY <1>2, <2>1 DEF Retired
    <3>2. d.feat = f /\ d.field = field /\ d.sup = v.sup /\ d.run = v.run
      BY <1>t, <1>2 DEF TypeOK, Facts
    <3> HIDE DEF d
    <3>3. QED
      BY <1>t, <3>1, <3>2, FactsAfterLemma
  <2>2. CASE ~(v.until = 0 /\ Kills(p, f, field))
    BY <1>t, <1>2, <2>2, FactsAfterLemma DEF Kept
  <2>3. QED
    BY <2>1, <2>2
<1>3. ASSUME Puts(p, f, field)
      PROVE  \E w \in facts' : /\ w.feat = f /\ w.field = field
                               /\ <<w.sup, w.run>> = <<LiveVersion[<<f, field>>], p.run>>
  <2>1. Version(p, f, field) \in facts'
    BY <1>t, <1>3, FactsAfterLemma DEF Opened
  <2>2. Version(p, f, field).feat = f /\ Version(p, f, field).field = field
    BY <1>t, KeysLemma
  <2>3. QED
    BY <1>0, <1>3, <2>1, <2>2
<1>4. \A n : n \in Links'[<<f, field>>] <=>
         n \in Links[<<f, field>>]
            \cup IF Puts(p, f, field) THEN {<<LiveVersion[<<f, field>>], p.run>>} ELSE {}
  BY <1>1, <1>2, <1>3, AbstractAt, AbstractAtNext
<1>5. QED
  BY <1>4

\* A merge is a step of the timelines.
LEMMA MergeIsTimelineStep ==
    ASSUME NEW p, Merge(p), facts' \subseteq Facts
    PROVE  Timeline!Next
<1>1. ASSUME NEW f \in Features, NEW field \in Fields
      PROVE  \/ Timeline!Stay(<<f, field>>) /\ ~Puts(p, f, field)
             \/ Timeline!Write(<<f, field>>)
             \/ Timeline!Close(<<f, field>>)
  <2> DEFINE k == <<f, field>>
  <2>1. /\ LiveVersion'[k] = IF Puts(p, f, field) THEN p.run
                             ELSE IF Kills(p, f, field) THEN 0 ELSE LiveVersion[k]
        /\ DeadVersions'[k] = DeadVersions[k]
              \cup IF Kills(p, f, field) THEN {LiveVersion[k]} ELSE {}
        /\ Links'[k] = Links[k]
              \cup IF Puts(p, f, field) THEN {<<LiveVersion[k], p.run>>} ELSE {}
    BY MergedVersion, MergedDead, MergedLinksOf
  <2>2. /\ Kills(p, f, field) => LiveVersion[k] # 0
        /\ Puts(p, f, field) /\ ~Kills(p, f, field) => LiveVersion[k] = 0
        /\ p.run \notin DeadVersions[k] \cup {0, LiveVersion[k]}
    BY OldVersion DEF Merge
  <2> HIDE DEF k
  <2>3. CASE Puts(p, f, field)
    BY <2>1, <2>2, <2>3 DEF Timeline!Write, k
  <2>4. CASE ~Puts(p, f, field) /\ Kills(p, f, field)
    BY <2>1, <2>2, <2>4 DEF Timeline!Close, k
  <2>5. CASE ~Puts(p, f, field) /\ ~Kills(p, f, field)
    BY <2>1, <2>5 DEF Timeline!Stay, k
  <2>6. QED
    BY <2>3, <2>4, <2>5
<1>2. \A k \in Keys : \E f \in Features, field \in Fields : k = <<f, field>>
  BY DEF Keys
<1>3. \A k \in Keys : Timeline!Stay(k) \/ Timeline!Write(k) \/ Timeline!Close(k)
  BY <1>1, <1>2
<1>4. \A k \in Timeline!Written : LiveVersion'[k] = p.run
  BY <1>2, MergedVersion DEF Timeline!Written
<1>5. \A j, k \in Timeline!Written : LiveVersion'[j] = LiveVersion'[k]
  BY <1>4
<1>6. QED
  BY <1>3, <1>5 DEF Timeline!Next

LEMMA TimelineInit ==
    ASSUME Init
    PROVE  Timeline!Init
<1>1. facts = {}
  BY DEF Init
<1>2. \A f, field : Current(f, field) = None
  BY <1>1 DEF Current, Live, LiveIn
<1>3. /\ LiveVersion = [k \in Keys |-> 0]
      /\ DeadVersions = [k \in Keys |-> {}]
      /\ Links = [k \in Keys |-> {}]
  BY <1>1, <1>2 DEF LiveVersion, DeadVersions, Links
<1>4. QED
  BY <1>3 DEF Timeline!Init

LEMMA TimelineNext ==
    ASSUME AllInv, [Next]_vars, TypeInv'
    PROVE  [Timeline!Next]_<<LiveVersion, DeadVersions, Links>>
<1>1. CASE facts' = facts
  <2>1. \A f, field : Current(f, field)' = Current(f, field)
    BY <1>1 DEF Current, Live
  <2>2. UNCHANGED <<LiveVersion, DeadVersions, Links>>
    BY <1>1, <2>1 DEF LiveVersion, DeadVersions, Links
  <2>3. QED
    BY <2>2
<1>2. CASE facts' # facts
  <2>1. PICK l \in Loaders : Commit(l)
    BY <1>2, OnlyCommitWrites
  <2>2. ~loader[l].same
    BY <1>2, <2>1, SameCommit DEF AllInv, ledger
  <2>3. Merge(loader[l])
    BY <2>1, <2>2, CommitMerges DEF AllInv
  <2>4. QED
    BY <2>3, MergeIsTimelineStep DEF TypeInv, TypeOK
<1>3. QED
  BY <1>1, <1>2

\* With one phase_e process at a time, the fact table implements the abstract
\* ledger of FieldTimeline: every step gives a key one new version that names
\* the one it replaces, or ends its version, or leaves it alone.
THEOREM TimelineRefinement ==
    ASSUME OneLoader
    PROVE  Spec => TimelineSpec
<1>1. Init => Timeline!Init
  BY TimelineInit
<1>2. AllInv /\ AllInv' /\ [Next]_vars =>
         [Timeline!Next]_<<LiveVersion, DeadVersions, Links>>
  BY TimelineNext DEF AllInv
<1>3. QED
  BY <1>1, <1>2, AllInvHolds, PTL DEF Spec, TimelineSpec, Timeline!Spec
=============================================================================
