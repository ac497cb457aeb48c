----------------------- MODULE SnapshotFetch_proofs -----------------------
(***************************************************************************)
(* Proofs about SnapshotFetch, for any number of processes, sources,       *)
(* contents, job_runs and faults: the state has its shape, a credited run  *)
(* earned it, an exit code is honest, the tables are a SnapshotLog, and,   *)
(* when no two processes share a local file, the bytes of every snapshot   *)
(* row are in the store.                                                   *)
(*                                                                         *)
(* CreditEarned is not inductive: that the run being credited inserted the *)
(* row is known two commits earlier (ProcOk), and it stays true only       *)
(* because no other process works on that run (RunsApart) and no job_run   *)
(* is there before it is started (Unstarted).                              *)
(***************************************************************************)
EXTENDS SnapshotFetch, FiniteSetTheorems, TLAPS

\* A process with a job_run of its own that is still running.
Busy(q) == q.pc \in {"started", "receiving", "fetched", "absent", "uploaded",
                     "verified", "settling", "raised", "probing"}

HasBody(q) == q.pc \in {"fetched", "absent", "uploaded", "verified", "settling"}

\* What process q, fetching source s, knows of the number st of started runs, of the
\* job_runs jb and of the snapshot rows rw.
ProcOk(q, s, st, jb, rw) ==
    /\ Busy(q) => q.run \in 1..st /\ q.run \in Runs /\ jb[q.run].status = "running"
    /\ HasBody(q) => q.body \in Bodies
    /\ q.pc = "settling" =>
          /\ rw[<<s, q.body>>] # None
          /\ q.won => rw[<<s, q.body>>].by = q.run /\ rw[<<s, q.body>>].ok = q.ok

ProcsOk == \A p \in Fetchers : ProcOk(fetcher[p], SourceOf[p], started, job, row)

RunsApart == \A p, q \in Fetchers :
    p # q /\ Busy(fetcher[p]) /\ Busy(fetcher[q]) => fetcher[p].run # fetcher[q].run

Unstarted == \A r \in Runs : r > started => job[r].status = "none"

IInv == TypeOK /\ ProcsOk /\ RunsApart /\ Unstarted /\ CreditEarned

\* The tables that no part of the invariant but TypeOK is about.
StoreType ==
    /\ object \in [Bodies -> Bodies \cup {Torn, None}]
    /\ scratch \in [Files -> Bodies \cup {Torn, None} \cup Fetchers]
    /\ lost \subseteq Runs
    /\ faults \in 0..MaxFaults

\* A row that is there stays as it is.
RowsStay(rw, rw2) == \A x \in SnapshotIds : rw[x] # None => rw2[x] = rw[x]

LEMMA IdleOk ==
    ASSUME NEW e \in {"none", "zero", "alive", "error"}, NEW rs \in SUBSET Runs
    PROVE  /\ Idle(e, rs) \in Processes /\ ~Busy(Idle(e, rs))
           /\ Idle(e, rs).pc = "idle" /\ Idle(e, rs).n = 1 /\ Idle(e, rs).runs = rs
BY DEF Idle, Processes, Busy

LEMMA NotBusyOk ==
    ASSUME NEW q, ~Busy(q), NEW s, NEW st, NEW jb, NEW rw
    PROVE  ProcOk(q, s, st, jb, rw)
BY DEF ProcOk, Busy, HasBody

(***************************************************************************)
(* The three ways in which a step changes the processes and the job_runs.  *)
(***************************************************************************)

\* No job_run changes.
LEMMA QuietOk ==
    ASSUME IInv, NEW p \in Fetchers, NEW new \in Processes,
           fetcher' = [fetcher EXCEPT ![p] = new],
           UNCHANGED <<job, started>>,
           Busy(new) => Busy(fetcher[p]) /\ new.run = fetcher[p].run,
           row' \in [SnapshotIds -> SnapshotRows \cup {None}], RowsStay(row, row'),
           StoreType', ProcOk(new, SourceOf[p], started, job, row')
    PROVE  IInv'
<1>1. TypeOK /\ ProcsOk /\ RunsApart /\ Unstarted /\ CreditEarned
  BY DEF IInv
<1>2. fetcher' \in [Fetchers -> Processes] /\ fetcher'[p] = new
      /\ \A q \in Fetchers \ {p} : fetcher'[q] = fetcher[q]
  BY <1>1 DEF TypeOK
<1>3. TypeOK'
  BY <1>1, <1>2 DEF TypeOK, StoreType
<1>4. ASSUME NEW q \in Fetchers
      PROVE  ProcOk(fetcher'[q], SourceOf[q], started', job', row')
  <2>1. CASE q = p
    BY <2>1, <1>2
  <2>2. CASE q # p
    <3>1. ProcOk(fetcher[q], SourceOf[q], started, job, row) /\ fetcher'[q] = fetcher[q]
      BY <1>1, <1>2, <2>2 DEF ProcsOk
    <3>2. SourceOf[q] \in Sources
      BY FetchAssumption
    <3>3. HasBody(fetcher[q]) => <<SourceOf[q], fetcher[q].body>> \in SnapshotIds
      BY <3>1, <3>2 DEF ProcOk, SnapshotIds
    <3>4. fetcher[q].pc = "settling" => HasBody(fetcher[q])
      BY DEF HasBody
    <3>5. fetcher[q].pc = "settling" =>
             row'[<<SourceOf[q], fetcher[q].body>>] = row[<<SourceOf[q], fetcher[q].body>>]
      BY <3>1, <3>3, <3>4 DEF ProcOk, RowsStay
    <3> QED BY <3>1, <3>5 DEF ProcOk
  <2> QED BY <2>1, <2>2
<1>5. RunsApart'
  BY <1>1, <1>2 DEF RunsApart
<1>6. Unstarted'
  BY <1>1 DEF Unstarted
<1>7. CreditEarned'
  BY <1>1 DEF CreditEarned, RowsStay, Succeeded
<1> QED BY <1>3, <1>4, <1>5, <1>6, <1>7 DEF IInv, ProcsOk

\* A job_run is started.
LEMMA BeginOk ==
    ASSUME IInv, NEW p \in Fetchers, NEW new \in Processes,
           fetcher' = [fetcher EXCEPT ![p] = new],
           started < MaxRuns, started' = started + 1,
           job' = [job EXCEPT ![started + 1].status = "running"],
           UNCHANGED row, StoreType',
           Busy(new), ~HasBody(new), new.run = started + 1
    PROVE  IInv' /\ \A x \in SnapshotIds : Succeeded(x)' = Succeeded(x)
<1>1. TypeOK /\ ProcsOk /\ RunsApart /\ Unstarted /\ CreditEarned
  BY DEF IInv
<1>2. fetcher' \in [Fetchers -> Processes] /\ fetcher'[p] = new
      /\ \A q \in Fetchers \ {p} : fetcher'[q] = fetcher[q]
  BY <1>1 DEF TypeOK
<1>3. started \in Nat /\ MaxRuns \in Nat /\ started + 1 \in Runs /\ started' \in 0..MaxRuns
      /\ Runs \subseteq Nat
  BY <1>1, FetchAssumption DEF TypeOK, Runs
<1>4. job \in [Runs -> JobRows]
  BY <1>1 DEF TypeOK
<1>5. job[started + 1].status = "none"
  BY <1>1, <1>3 DEF Unstarted
<1>6. job' \in [Runs -> JobRows] /\ job'[started + 1].status = "running"
      /\ \A r \in Runs \ {started + 1} : job'[r] = job[r]
  BY <1>3, <1>4 DEF JobRows
<1>7. TypeOK'
  BY <1>1, <1>2, <1>3, <1>6 DEF TypeOK, StoreType
<1>8. \A q \in Fetchers : Busy(fetcher[q]) =>
         fetcher[q].run \in Runs /\ fetcher[q].run \in 1..started /\ fetcher[q].run # started + 1
  <2> TAKE q \in Fetchers
  <2>1. Busy(fetcher[q]) => fetcher[q].run \in Runs /\ fetcher[q].run \in 1..started
    BY <1>1 DEF ProcsOk, ProcOk
  <2>2. started + 1 \notin 1..started
    BY <1>3
  <2> QED BY <2>1, <2>2
<1>9. ASSUME NEW q \in Fetchers
      PROVE  ProcOk(fetcher'[q], SourceOf[q], started', job', row')
  <2>1. CASE q = p
    <3>1. new.pc # "settling"
      BY DEF HasBody
    <3> QED BY <2>1, <1>2, <1>3, <1>6, <3>1 DEF ProcOk
  <2>2. CASE q # p
    <3>1. ProcOk(fetcher[q], SourceOf[q], started, job, row) /\ fetcher'[q] = fetcher[q]
      BY <1>1, <1>2, <2>2 DEF ProcsOk
    <3>2. Busy(fetcher[q]) => fetcher[q].run \in 1..started'
                              /\ job'[fetcher[q].run] = job[fetcher[q].run]
      BY <1>3, <1>6, <1>8
    <3> QED BY <3>1, <3>2 DEF ProcOk
  <2> QED BY <2>1, <2>2
<1>10. RunsApart'
  BY <1>1, <1>2, <1>8 DEF RunsApart
<1>11. Unstarted'
  BY <1>1, <1>3, <1>6 DEF Unstarted
<1>12. \A x \in SnapshotIds : Succeeded(x)' = Succeeded(x)
  BY <1>3, <1>5, <1>6 DEF Succeeded
<1>13. CreditEarned'
  BY <1>1, <1>12 DEF CreditEarned
<1> QED BY <1>7, <1>9, <1>10, <1>11, <1>12, <1>13 DEF IInv, ProcsOk

\* How the tables of a SnapshotLog change when a job_run is settled with `end`.
Credited(end, r) ==
    \A x \in SnapshotIds :
        /\ Succeeded(x)' = IF end.status = "succeeded" /\ end.snap = x
                           THEN {r} ELSE Succeeded(x)
        /\ end.status = "succeeded" /\ end.snap = x => row[x] # None /\ Succeeded(x) = {}

\* A run r that is settled with `end` inserted the row it is credited with.
EndEarned(end, r) ==
    \A x \in SnapshotIds : end.status = "succeeded" /\ end.snap = x =>
        row[x] # None /\ row[x].by = r /\ row[x].ok

\* The job_run of a process is settled, and credited only if it inserted the row.
LEMMA EndOk ==
    ASSUME IInv, NEW p \in Fetchers, Busy(fetcher[p]), NEW new \in Processes,
           fetcher' = [fetcher EXCEPT ![p] = new], ~Busy(new),
           NEW end \in JobRows, job' = [job EXCEPT ![fetcher[p].run] = end],
           UNCHANGED <<started, row>>, StoreType', EndEarned(end, fetcher[p].run)
    PROVE  IInv' /\ Credited(end, fetcher[p].run)
<1> DEFINE r == fetcher[p].run
<1>1. TypeOK /\ ProcsOk /\ RunsApart /\ Unstarted /\ CreditEarned
  BY DEF IInv
<1>2. fetcher' \in [Fetchers -> Processes] /\ fetcher'[p] = new
      /\ \A q \in Fetchers \ {p} : fetcher'[q] = fetcher[q]
  BY <1>1 DEF TypeOK
<1>3. r \in 1..started /\ r \in Runs /\ job[r].status = "running"
  BY <1>1 DEF ProcsOk, ProcOk
<1>4. job' \in [Runs -> JobRows] /\ job'[r] = end
      /\ \A s \in Runs \ {r} : job'[s] = job[s]
  BY <1>1, <1>3 DEF TypeOK
<1>5. \A q \in Fetchers \ {p} : Busy(fetcher[q]) => fetcher[q].run # r
  BY <1>1 DEF RunsApart
<1> HIDE DEF r
<1>6. TypeOK'
  BY <1>1, <1>2, <1>4 DEF TypeOK, StoreType
<1>7. ASSUME NEW q \in Fetchers
      PROVE  ProcOk(fetcher'[q], SourceOf[q], started', job', row')
  <2>1. CASE q = p
    BY <2>1, <1>2, NotBusyOk
  <2>2. CASE q # p
    <3>1. ProcOk(fetcher[q], SourceOf[q], started, job, row) /\ fetcher'[q] = fetcher[q]
      BY <1>1, <1>2, <2>2 DEF ProcsOk
    <3>2. Busy(fetcher[q]) => job'[fetcher[q].run] = job[fetcher[q].run]
      BY <1>4, <1>5, <2>2, <3>1 DEF ProcOk
    <3> QED BY <3>1, <3>2 DEF ProcOk
  <2> QED BY <2>1, <2>2
<1>8. RunsApart'
  BY <1>1, <1>2 DEF RunsApart
<1>9. Unstarted'
  <2>1. started \in Nat
    BY <1>1 DEF TypeOK
  <2>2. ~(r > started)
    BY <1>3, <2>1
  <2> QED BY <1>1, <1>4, <2>2 DEF Unstarted
<1>10. ASSUME NEW x \in SnapshotIds, end.status = "succeeded" /\ end.snap = x
       PROVE  Succeeded(x) = {} /\ Succeeded(x)' = {r} /\ row[x] # None /\ row[x].ok
  <2>1. row[x] # None /\ row[x].by = r /\ row[x].ok
    BY <1>10 DEF r, EndEarned
  <2>2. \A s \in Succeeded(x) : s = r /\ s \in Runs /\ job[s].status = "succeeded"
    BY <1>1, <2>1 DEF CreditEarned, Succeeded
  <2>3. Succeeded(x) = {}
    BY <1>3, <2>2
  <2>4. \A s \in Runs : s \in Succeeded(x)' <=> s = r
    BY <1>3, <1>4, <1>10, <2>3 DEF Succeeded
  <2>5. Succeeded(x)' \subseteq Runs
    BY DEF Succeeded, Runs
  <2> QED BY <1>3, <2>1, <2>3, <2>4, <2>5
<1>11. ASSUME NEW x \in SnapshotIds, ~(end.status = "succeeded" /\ end.snap = x)
       PROVE  Succeeded(x)' = Succeeded(x)
  BY <1>3, <1>4, <1>11 DEF Succeeded
<1>12. CreditEarned'
  <2>1. ASSUME NEW x \in SnapshotIds, NEW s \in Succeeded(x)'
        PROVE  row'[x] # None /\ row'[x].by = s /\ row'[x].ok
    <3>1. CASE end.status = "succeeded" /\ end.snap = x
      BY <1>10, <2>1, <3>1 DEF r, EndEarned
    <3>2. CASE ~(end.status = "succeeded" /\ end.snap = x)
      BY <1>1, <1>11, <2>1, <3>2 DEF CreditEarned
    <3> QED BY <3>1, <3>2
  <2> QED BY <2>1 DEF CreditEarned
<1>13. Credited(end, r)
  BY <1>10, <1>11 DEF Credited
<1> QED BY <1>6, <1>7, <1>8, <1>9, <1>12, <1>13 DEF IInv, ProcsOk, r

(***************************************************************************)
(* The initial state and every action.                                     *)
(***************************************************************************)

LEMMA InitOk == Init => IInv
<1> SUFFICES ASSUME Init PROVE IInv
  OBVIOUS
<1>1. Idle("none", {}) \in Processes /\ ~Busy(Idle("none", {}))
  BY IdleOk
<1>2. job \in [Runs -> JobRows] /\ \A r \in Runs : job[r].status = "none"
  BY DEF Init, JobRows
<1>3. started \in 0..MaxRuns /\ faults \in 0..MaxFaults /\ lost \subseteq Runs
  BY FetchAssumption DEF Init
<1>4. TypeOK
  BY <1>1, <1>2, <1>3 DEF Init, TypeOK
<1>5. ProcsOk /\ RunsApart
  BY <1>1, NotBusyOk DEF Init, ProcsOk, RunsApart
<1>6. CreditEarned
  BY <1>2 DEF CreditEarned, Succeeded
<1> QED BY <1>2, <1>4, <1>5, <1>6 DEF IInv, Unstarted

\* What a process has when it is at one of these places.
LEMMA AtOk ==
    ASSUME IInv, NEW p \in Fetchers
    PROVE  /\ fetcher[p] \in Processes /\ ProcOk(fetcher[p], SourceOf[p], started, job, row)
           /\ row \in [SnapshotIds -> SnapshotRows \cup {None}] /\ RowsStay(row, row)
           /\ job \in [Runs -> JobRows] /\ StoreType /\ SourceOf[p] \in Sources
BY FetchAssumption DEF IInv, ProcsOk, TypeOK, RowsStay, StoreType

\* Only the place of the process changes.
LEMMA GotoOk ==
    ASSUME IInv, NEW p \in Fetchers, NEW pc \in {"receiving", "uploaded", "verified", "raised"},
           Goto(p, pc), UNCHANGED <<job, started, row>>, StoreType', Busy(fetcher[p]),
           pc \in {"uploaded", "verified"} => HasBody(fetcher[p])
    PROVE  IInv'
<1> DEFINE new == [fetcher[p] EXCEPT !.pc = pc]
<1>1. fetcher' = [fetcher EXCEPT ![p] = new]
  BY DEF Goto, IInv, TypeOK
<1>2. new \in Processes /\ new.pc = pc /\ new.run = fetcher[p].run /\ new.body = fetcher[p].body
  BY AtOk DEF Processes
<1> HIDE DEF new
<1>3. Busy(new) /\ pc # "settling"
  BY <1>2 DEF Busy
<1>4. HasBody(new) => HasBody(fetcher[p])
  BY <1>2 DEF HasBody
<1>5. ProcOk(new, SourceOf[p], started, job, row')
  BY <1>2, <1>3, <1>4, AtOk DEF ProcOk
<1>6. row' \in [SnapshotIds -> SnapshotRows \cup {None}] /\ RowsStay(row, row')
  BY AtOk
<1> QED BY <1>1, <1>2, <1>3, <1>5, <1>6, QuietOk

LEMMA OpenOk == ASSUME IInv, NEW p \in Fetchers, Open(p) PROVE IInv'
<1>1. StoreType'
  BY AtOk DEF Open, StoreType
<1>2. Busy(fetcher[p])
  BY DEF Open, At, Busy
<1> QED BY <1>1, <1>2, GotoOk DEF Open

LEMMA ReceiveOk ==
    ASSUME IInv, NEW p \in Fetchers, NEW b \in Bodies, NEW ok \in BOOLEAN, Receive(p, b, ok)
    PROVE  IInv'
<1> DEFINE new == [fetcher[p] EXCEPT !.pc = "fetched", !.body = b, !.ok = ok]
<1>1. fetcher' = [fetcher EXCEPT ![p] = new] /\ Busy(fetcher[p])
  BY DEF Receive, At, Busy, IInv, TypeOK
<1>2. new \in Processes /\ new.pc = "fetched" /\ new.run = fetcher[p].run /\ new.body = b
  BY AtOk DEF Processes
<1> HIDE DEF new
<1>3. ProcOk(new, SourceOf[p], started, job, row')
  BY <1>1, <1>2, AtOk DEF ProcOk, HasBody, Receive
<1>4. StoreType'
  BY AtOk DEF Receive, StoreType
<1>5. row' = row /\ UNCHANGED <<job, started>>
  BY DEF Receive
<1> QED BY <1>1, <1>2, <1>3, <1>4, <1>5, AtOk, QuietOk

LEMMA LookOk == ASSUME IInv, NEW p \in Fetchers, Look(p) PROVE IInv'
<1> DEFINE pc == IF Exists(Id(p)) THEN "settling" ELSE "absent"
           new == [fetcher[p] EXCEPT !.won = FALSE, !.pc = pc]
<1>1. fetcher' = [fetcher EXCEPT ![p] = new] /\ Busy(fetcher[p]) /\ HasBody(fetcher[p])
  BY DEF Look, At, Busy, HasBody, IInv, TypeOK
<1>2. new \in Processes /\ new.pc = pc /\ new.run = fetcher[p].run /\ new.body = fetcher[p].body
  BY AtOk DEF Processes
<1>3. ~new.won
  BY AtOk DEF Processes
<1> HIDE DEF new
<1>4. new.pc = "settling" => row[<<SourceOf[p], new.body>>] # None
  BY <1>2 DEF Exists, Id
<1>5. ProcOk(new, SourceOf[p], started, job, row')
  BY <1>1, <1>2, <1>3, <1>4, AtOk DEF ProcOk, Look
<1>6. StoreType' /\ row' = row /\ UNCHANGED <<job, started>>
  BY AtOk DEF Look, StoreType
<1> QED BY <1>1, <1>2, <1>5, <1>6, AtOk, QuietOk

LEMMA UploadOk == ASSUME IInv, NEW p \in Fetchers, Upload(p) PROVE IInv'
<1>1. StoreType'
  BY AtOk DEF Upload, StoreType
<1>2. Busy(fetcher[p]) /\ HasBody(fetcher[p])
  BY DEF Upload, At, Busy, HasBody
<1> QED BY <1>1, <1>2, GotoOk DEF Upload

LEMMA VerifyOk == ASSUME IInv, NEW p \in Fetchers, Verify(p) PROVE IInv'
<1>1. StoreType'
  BY AtOk DEF Verify, StoreType
<1>2. Busy(fetcher[p]) /\ HasBody(fetcher[p])
  BY DEF Verify, At, Busy, HasBody
<1> QED BY <1>1, <1>2, GotoOk DEF Verify

LEMMA InsertOk == ASSUME IInv, NEW p \in Fetchers, Insert(p) PROVE IInv'
<1> DEFINE won == ~Exists(Id(p))
           new == [fetcher[p] EXCEPT !.pc = "settling", !.won = won]
           inserted == [by |-> fetcher[p].run, ok |-> fetcher[p].ok]
<1>1. fetcher' = [fetcher EXCEPT ![p] = new] /\ Busy(fetcher[p]) /\ HasBody(fetcher[p])
  BY DEF Insert, At, Busy, HasBody, IInv, TypeOK
<1>2. Exists(Id(p)) \in BOOLEAN
  BY DEF Exists
<1>3. new \in Processes /\ new.pc = "settling" /\ new.run = fetcher[p].run
      /\ new.body = fetcher[p].body /\ new.ok = fetcher[p].ok
  BY <1>2, AtOk DEF Processes
<1>4. new.won = won
  BY AtOk DEF Processes
<1>5. Id(p) \in SnapshotIds /\ Id(p) = <<SourceOf[p], new.body>>
  BY <1>1, <1>3, AtOk DEF ProcOk, Id, SnapshotIds
<1>6. inserted \in SnapshotRows /\ inserted.by = fetcher[p].run /\ inserted.ok = fetcher[p].ok
  BY <1>1, AtOk DEF ProcOk, SnapshotRows, Processes
<1>7. inserted # None
  BY <1>6, FetchAssumption DEF SnapshotRows, Runs
<1>8. row' = IF Exists(Id(p)) THEN row ELSE [row EXCEPT ![Id(p)] = inserted]
  BY DEF Insert
<1> HIDE DEF new, inserted
<1>9. row' \in [SnapshotIds -> SnapshotRows \cup {None}] /\ RowsStay(row, row')
  BY <1>5, <1>6, <1>8, AtOk DEF RowsStay, Exists
<1>10. row'[Id(p)] # None
  BY <1>5, <1>7, <1>8, AtOk DEF Exists
<1>11. new.won => row'[Id(p)] = inserted
  BY <1>4, <1>5, <1>8, AtOk
<1>12. ProcOk(new, SourceOf[p], started, job, row')
  BY <1>1, <1>3, <1>5, <1>6, <1>10, <1>11, AtOk DEF ProcOk
<1>13. StoreType' /\ UNCHANGED <<job, started>>
  BY AtOk DEF Insert, StoreType
<1> QED BY <1>1, <1>3, <1>9, <1>12, <1>13, QuietOk

LEMMA RaiseOk == ASSUME IInv, NEW p \in Fetchers, Raise(p) PROVE IInv'
<1>1. StoreType'
  BY AtOk, FetchAssumption DEF Raise, StoreType
<1>2. Busy(fetcher[p])
  BY AtOk DEF Raise, Busy, Processes
<1> QED BY <1>1, <1>2, GotoOk DEF Raise

LEMMA CrashOk == ASSUME IInv, NEW p \in Fetchers, Crash(p) PROVE IInv'
<1> DEFINE new == Idle("error", fetcher[p].runs)
<1>1. fetcher' = [fetcher EXCEPT ![p] = new] /\ row' = row /\ UNCHANGED <<job, started>>
  BY DEF Crash
<1>2. new \in Processes /\ ~Busy(new)
  BY AtOk, IdleOk DEF Processes
<1> HIDE DEF new
<1>3. faults' \in 0..MaxFaults
  BY AtOk, FetchAssumption DEF Crash, StoreType
<1>4. scratch' \in [Files -> Bodies \cup {Torn, None} \cup Fetchers]
  BY AtOk DEF Crash, StoreType
<1>5. lost' \subseteq Runs
  <2>1. CASE At(p, "between") \/ At(p, "probe")
    BY <2>1, AtOk DEF Crash, StoreType
  <2>2. CASE ~(At(p, "between") \/ At(p, "probe"))
    <3>1. Busy(fetcher[p])
      BY <2>2, AtOk DEF Crash, At, Busy, Processes
    <3> QED BY <2>2, <3>1, AtOk DEF Crash, StoreType, ProcOk
  <2> QED BY <2>1, <2>2
<1>6. StoreType'
  BY <1>3, <1>4, <1>5, AtOk DEF StoreType, Crash
<1>7. ProcOk(new, SourceOf[p], started, job, row')
  BY <1>2, NotBusyOk
<1> QED BY <1>1, <1>2, <1>6, <1>7, AtOk, QuietOk

LEMMA StartOk ==
    ASSUME IInv, NEW p \in Fetchers, Start(p)
    PROVE  IInv' /\ \A x \in SnapshotIds : Succeeded(x)' = Succeeded(x)
<1> DEFINE q == IF At(p, "idle") THEN Idle("none", {}) ELSE fetcher[p]
           new == [q EXCEPT !.pc = "started", !.run = started + 1,
                            !.runs = q.runs \cup {started + 1}]
<1>1. fetcher' = [fetcher EXCEPT ![p] = new]
  BY DEF Start
<1>2. q \in Processes
  BY AtOk, IdleOk
<1>3. started + 1 \in Runs
  BY FetchAssumption DEF Start, IInv, TypeOK, Runs
<1> HIDE DEF q
<1>4. new \in Processes /\ new.pc = "started" /\ new.run = started + 1
  BY <1>2, <1>3 DEF Processes
<1> HIDE DEF new
<1>5. Busy(new) /\ ~HasBody(new)
  BY <1>4 DEF Busy, HasBody
<1>6. StoreType'
  BY AtOk DEF Start, StoreType
<1>7. started < MaxRuns /\ started' = started + 1 /\ UNCHANGED row
      /\ job' = [job EXCEPT ![started + 1].status = "running"]
  BY DEF Start
<1> QED BY <1>1, <1>4, <1>5, <1>6, <1>7, BeginOk

LEMMA ProbeOk ==
    ASSUME IInv, NEW p \in Fetchers, NEW s \in Sources, Probe(p, s)
    PROVE  IInv' /\ \A x \in SnapshotIds : Succeeded(x)' = Succeeded(x)
<1> DEFINE new == [fetcher[p] EXCEPT !.pc = "probing", !.run = started + 1,
                              !.left = fetcher[p].left \ {s},
                              !.runs = fetcher[p].runs \cup {started + 1}]
<1>1. fetcher' = [fetcher EXCEPT ![p] = new]
  BY DEF Probe
<1>2. started + 1 \in Runs
  BY FetchAssumption DEF Probe, IInv, TypeOK, Runs
<1>3. new \in Processes /\ new.pc = "probing" /\ new.run = started + 1
  BY <1>2, AtOk DEF Processes
<1> HIDE DEF new
<1>4. Busy(new) /\ ~HasBody(new)
  BY <1>3 DEF Busy, HasBody
<1>5. StoreType'
  BY AtOk DEF Probe, StoreType
<1>6. started < MaxRuns /\ started' = started + 1 /\ UNCHANGED row
      /\ job' = [job EXCEPT ![started + 1].status = "running"]
  BY DEF Probe
<1> QED BY <1>1, <1>3, <1>4, <1>5, <1>6, BeginOk

\* A step that changes only a process with no job_run of its own.
LEMMA IdlingOk ==
    ASSUME IInv, NEW p \in Fetchers, NEW new \in Processes,
           fetcher' = [fetcher EXCEPT ![p] = new], ~Busy(new),
           UNCHANGED <<job, started, row, object, scratch, lost, faults>>
    PROVE  IInv'
<1>1. StoreType'
  BY AtOk DEF StoreType
<1>2. ProcOk(new, SourceOf[p], started, job, row')
  BY NotBusyOk
<1> QED BY <1>1, <1>2, AtOk, QuietOk

LEMMA StartProbesOk == ASSUME IInv, NEW p \in Fetchers, StartProbes(p) PROVE IInv'
<1> DEFINE q == Idle("none", {})
           new == [q EXCEPT !.pc = "probe", !.left = Owned[p]]
<1>1. new \in Processes /\ new.pc = "probe"
  <2>1. q \in Processes /\ Owned[p] \in SUBSET Sources
    BY IdleOk, FetchAssumption
  <2> HIDE DEF q
  <2> QED BY <2>1 DEF Processes
<1>2. fetcher' = [fetcher EXCEPT ![p] = new]
  BY DEF StartProbes
<1> HIDE DEF new
<1> QED BY <1>1, <1>2, IdlingOk DEF StartProbes, Busy

LEMMA UncheckedOk ==
    ASSUME IInv, NEW p \in Fetchers, NEW s \in Sources, Unchecked(p, s) PROVE IInv'
<1> DEFINE new == [fetcher[p] EXCEPT !.left = fetcher[p].left \ {s}, !.allOk = FALSE]
<1>1. new \in Processes /\ new.pc = "probe"
  <2>1. fetcher[p].left \ {s} \in SUBSET Sources /\ fetcher[p].pc = "probe"
    BY AtOk DEF Processes, Unchecked, At
  <2>2. fetcher[p] \in Processes
    BY AtOk
  <2> QED BY <2>1, <2>2 DEF Processes
<1>2. fetcher' = [fetcher EXCEPT ![p] = new]
  BY DEF Unchecked, IInv, TypeOK
<1> HIDE DEF new
<1> QED BY <1>1, <1>2, IdlingOk DEF Unchecked, Busy

LEMMA EndProbesOk == ASSUME IInv, NEW p \in Fetchers, EndProbes(p) PROVE IInv'
<1> DEFINE e == IF fetcher[p].allOk /\ Owned[p] # {} THEN "alive" ELSE "error"
           new == Idle(e, fetcher[p].runs)
<1>1. new \in Processes /\ ~Busy(new)
  <2>1. fetcher[p].runs \in SUBSET Runs
    BY AtOk DEF Processes
  <2> QED BY <2>1, IdleOk
<1>2. fetcher' = [fetcher EXCEPT ![p] = new]
  BY DEF EndProbes
<1> HIDE DEF new
<1> QED BY <1>1, <1>2, IdlingOk DEF EndProbes

LEMMA SettleOk ==
    ASSUME IInv, NEW p \in Fetchers, Settle(p)
    PROVE  IInv' /\ fetcher[p].run \in Runs
           /\ \E end \in JobRows : Credited(end, fetcher[p].run)
<1> DEFINE q == fetcher[p]
           end == [status |-> Outcome(q.ok, q.won), snap |-> Id(p)]
           allOk == q.allOk /\ q.ok
           new == IF q.n = 1 THEN [q EXCEPT !.pc = "between", !.n = 2, !.allOk = allOk]
                  ELSE Idle(IF allOk THEN "zero" ELSE "error", q.runs)
<1>1. q.pc = "settling" /\ Busy(q) /\ HasBody(q)
  BY DEF Settle, At, Busy, HasBody
<1>2. q \in Processes /\ q.run \in Runs /\ Id(p) \in SnapshotIds
  BY <1>1, AtOk DEF ProcOk, Id, SnapshotIds
<1>3. end \in JobRows /\ end.snap = Id(p) /\ end.status = Outcome(q.ok, q.won)
  BY <1>2 DEF JobRows, Outcome
<1>4. new \in Processes /\ ~Busy(new)
  <2>1. q.runs \in SUBSET Runs /\ allOk \in BOOLEAN
    BY <1>2 DEF Processes
  <2>2. CASE q.n = 1
    <3>1. new = [q EXCEPT !.pc = "between", !.n = 2, !.allOk = allOk]
      BY <2>2
    <3> HIDE DEF new, allOk
    <3>2. new \in Processes /\ new.pc = "between"
      BY <1>2, <2>1, <3>1 DEF Processes
    <3> QED BY <3>2 DEF Busy
  <2>3. CASE q.n # 1
    BY <2>1, <2>3, IdleOk
  <2> QED BY <2>2, <2>3
<1>5. fetcher' = [fetcher EXCEPT ![p] = new] /\ job' = [job EXCEPT ![q.run] = end]
      /\ UNCHANGED <<started, row>>
  BY DEF Settle, FinishedRun
<1>6. StoreType'
  BY AtOk DEF Settle, StoreType
<1> HIDE DEF end, new, q
<1>7. ASSUME NEW x \in SnapshotIds, end.status = "succeeded" /\ end.snap = x
      PROVE  row[x] # None /\ row[x].by = q.run /\ row[x].ok
  <2>1. x = <<SourceOf[p], q.body>>
    BY <1>3, <1>7 DEF Id, q
  <2>2. q.ok /\ q.won
    BY <1>2, <1>3, <1>7 DEF Outcome, Processes
  <2> QED BY <1>1, <2>1, <2>2, AtOk DEF ProcOk, q
<1>8. /\ Busy(fetcher[p]) /\ ~Busy(new) /\ new \in Processes /\ end \in JobRows
      /\ fetcher' = [fetcher EXCEPT ![p] = new]
      /\ job' = [job EXCEPT ![fetcher[p].run] = end]
      /\ UNCHANGED <<started, row>>
  BY <1>1, <1>3, <1>4, <1>5 DEF q
<1>9. EndEarned(end, fetcher[p].run)
  BY <1>7 DEF q, EndEarned
<1>10. IInv' /\ Credited(end, fetcher[p].run)
  BY <1>6, <1>8, <1>9, EndOk
<1>11. fetcher[p].run \in Runs
  BY <1>2 DEF q
<1> QED BY <1>8, <1>10, <1>11

LEMMA FailOk ==
    ASSUME IInv, NEW p \in Fetchers, Fail(p)
    PROVE  IInv' /\ \A x \in SnapshotIds : Succeeded(x)' = Succeeded(x)
<1> DEFINE end == [job[fetcher[p].run] EXCEPT !.status = "failed"]
           new == Idle("error", fetcher[p].runs)
<1>1. Busy(fetcher[p])
  BY DEF Fail, At, Busy
<1>2. end \in JobRows /\ end.status = "failed"
  BY <1>1, AtOk DEF ProcOk, JobRows
<1>3. job' = [job EXCEPT ![fetcher[p].run] = end] /\ fetcher' = [fetcher EXCEPT ![p] = new]
      /\ UNCHANGED <<started, row>>
  BY AtOk DEF Fail, FailedRun
<1>4. new \in Processes /\ ~Busy(new)
  BY AtOk, IdleOk DEF Processes
<1>5. StoreType'
  BY AtOk DEF Fail, StoreType
<1> HIDE DEF end, new
<1>6. EndEarned(end, fetcher[p].run)
  BY <1>2 DEF EndEarned
<1>7. IInv' /\ Credited(end, fetcher[p].run)
  BY <1>1, <1>2, <1>3, <1>4, <1>5, <1>6, EndOk
<1> QED BY <1>2, <1>7 DEF Credited

LEMMA AnsweredOk ==
    ASSUME IInv, NEW p \in Fetchers, NEW good \in BOOLEAN, Answered(p, good)
    PROVE  IInv' /\ \A x \in SnapshotIds : Succeeded(x)' = Succeeded(x)
<1> DEFINE end == [status |-> IF good THEN "succeeded" ELSE "failed", snap |-> None]
           new == [fetcher[p] EXCEPT !.pc = "probe", !.allOk = fetcher[p].allOk /\ good]
<1>1. Busy(fetcher[p])
  BY DEF Answered, At, Busy
<1>2. end \in JobRows /\ end.snap = None
  BY DEF JobRows
<1>3. job' = [job EXCEPT ![fetcher[p].run] = end] /\ fetcher' = [fetcher EXCEPT ![p] = new]
      /\ UNCHANGED <<started, row>>
  BY DEF Answered, FinishedRun, IInv, TypeOK
<1>4. new \in Processes /\ new.pc = "probe"
  <2>1. fetcher[p] \in Processes
    BY AtOk
  <2> QED BY <2>1 DEF Processes
<1>5. StoreType'
  BY AtOk DEF Answered, StoreType
<1> HIDE DEF end, new
<1>6. ~Busy(new)
  BY <1>4 DEF Busy
<1>7. \A x \in SnapshotIds : end.snap # x
  BY <1>2, FetchAssumption DEF SnapshotIds
<1>8. EndEarned(end, fetcher[p].run)
  BY <1>7 DEF EndEarned
<1>9. IInv' /\ Credited(end, fetcher[p].run)
  BY <1>1, <1>2, <1>3, <1>4, <1>5, <1>6, <1>8, EndOk
<1> QED BY <1>7, <1>9 DEF Credited

(***************************************************************************)
(* The theorems.                                                           *)
(***************************************************************************)

\* A step settles a job_run or leaves the credits alone.
LEMMA StepOk ==
    ASSUME IInv, [Next]_vars
    PROVE  /\ IInv'
           /\ \/ \A x \in SnapshotIds : Succeeded(x)' = Succeeded(x)
              \/ \E p \in Fetchers : Settle(p)
<1>1. ASSUME job' = job PROVE \A x \in SnapshotIds : Succeeded(x)' = Succeeded(x)
  BY <1>1 DEF Succeeded
<1>2. CASE UNCHANGED vars
  BY <1>1, <1>2 DEF vars, IInv, TypeOK, ProcsOk, RunsApart, Unstarted, CreditEarned
<1>3. ASSUME NEW p \in Fetchers, Start(p) \/ StartProbes(p) \/ Raise(p) \/ Crash(p)
      PROVE  IInv' /\ \A x \in SnapshotIds : Succeeded(x)' = Succeeded(x)
  <2>1. CASE Start(p)
    BY <2>1, StartOk
  <2>2. CASE StartProbes(p)
    BY <1>1, <2>2, StartProbesOk DEF StartProbes
  <2>3. CASE Raise(p)
    BY <1>1, <2>3, RaiseOk DEF Raise
  <2>4. CASE Crash(p)
    BY <1>1, <2>4, CrashOk DEF Crash
  <2> QED BY <1>3, <2>1, <2>2, <2>3, <2>4
<1>4. ASSUME NEW p \in Fetchers, Proceed(p)
      PROVE  IInv' /\ (\/ \A x \in SnapshotIds : Succeeded(x)' = Succeeded(x)
                       \/ Settle(p))
  <2>1. CASE Open(p)
    BY <1>1, <2>1, OpenOk DEF Open
  <2>2. CASE \E b \in Bodies, ok \in BOOLEAN : Receive(p, b, ok)
    BY <1>1, <2>2, ReceiveOk DEF Receive
  <2>3. CASE Look(p)
    BY <1>1, <2>3, LookOk DEF Look
  <2>4. CASE Upload(p)
    BY <1>1, <2>4, UploadOk DEF Upload
  <2>5. CASE Verify(p)
    BY <1>1, <2>5, VerifyOk DEF Verify
  <2>6. CASE Insert(p)
    BY <1>1, <2>6, InsertOk DEF Insert
  <2>7. CASE Settle(p)
    BY <2>7, SettleOk
  <2>8. CASE Fail(p)
    BY <2>8, FailOk
  <2>9. CASE \E s \in Sources : Unchecked(p, s)
    BY <1>1, <2>9, UncheckedOk DEF Unchecked
  <2>10. CASE \E s \in Sources : Probe(p, s)
    BY <2>10, ProbeOk
  <2>11. CASE \E good \in BOOLEAN : Answered(p, good)
    BY <2>11, AnsweredOk
  <2>12. CASE EndProbes(p)
    BY <1>1, <2>12, EndProbesOk DEF EndProbes
  <2> QED BY <1>4, <2>1, <2>2, <2>3, <2>4, <2>5, <2>6, <2>7, <2>8, <2>9, <2>10, <2>11, <2>12
       DEF Proceed
<1> QED BY <1>2, <1>3, <1>4 DEF Next

\* Whatever the interleaving of any number of fetches, probes, exceptions and
\* crashes, the state has its shape and a credited run inserted the row it names.
THEOREM Invariance == Spec => []IInv
<1>1. Init => IInv
  BY InitOk
<1>2. IInv /\ [Next]_vars => IInv'
  BY StepOk
<1> QED BY <1>1, <1>2, PTL DEF Spec

\* The state keeps its shape.
THEOREM TypeCorrect == Spec => []TypeOK
<1>1. IInv => TypeOK
  BY DEF IInv
<1> QED BY <1>1, Invariance, PTL

\* A job_run is 'succeeded' only if it inserted the row it names, from a 2xx answer;
\* of any number of racing fetches of the same new bytes one is credited.
THEOREM CreditIsEarned == Spec => []CreditEarned
<1>1. IInv => CreditEarned
  BY DEF IInv
<1> QED BY <1>1, Invariance, PTL

\* A row that is inserted stays as it is.
LEMMA RowsKept ==
    ASSUME IInv, [Next]_vars
    PROVE  \/ row' = row
           \/ \E x \in SnapshotIds : row[x] = None /\ row'[x] # None
                 /\ \A y \in SnapshotIds \ {x} : row'[y] = row[y]
<1>1. CASE row' = row
  BY <1>1
<1>2. CASE \E p \in Fetchers : Insert(p)
  <2>1. PICK p \in Fetchers : Insert(p)
    BY <1>2
  <2>2. HasBody(fetcher[p]) /\ Busy(fetcher[p])
    BY <2>1 DEF Insert, At, HasBody, Busy
  <2>3. Id(p) \in SnapshotIds
    BY <2>2, AtOk DEF ProcOk, Id, SnapshotIds
  <2> DEFINE inserted == [by |-> fetcher[p].run, ok |-> fetcher[p].ok]
  <2>4. inserted # None
    <3>1. inserted \in SnapshotRows
      BY <2>2, AtOk DEF ProcOk, SnapshotRows, Processes
    <3> QED BY <3>1, FetchAssumption DEF SnapshotRows, Runs
  <2>5. row' = IF Exists(Id(p)) THEN row ELSE [row EXCEPT ![Id(p)] = inserted]
    BY <2>1 DEF Insert
  <2> HIDE DEF inserted
  <2>6. CASE Exists(Id(p))
    BY <2>5, <2>6
  <2>7. CASE ~Exists(Id(p))
    <3>1. row[Id(p)] = None /\ row'[Id(p)] # None
      BY <2>3, <2>4, <2>5, <2>7, AtOk DEF Exists
    <3>2. \A y \in SnapshotIds \ {Id(p)} : row'[y] = row[y]
      BY <2>3, <2>5, <2>7, AtOk
    <3> QED BY <2>3, <3>1, <3>2
  <2> QED BY <2>6, <2>7
<1>3. ASSUME NEW p \in Fetchers, Proceed(p), ~Insert(p) PROVE row' = row
  <2>1. CASE Open(p) \/ (\E b \in Bodies, ok \in BOOLEAN : Receive(p, b, ok)) \/ Look(p)
    BY <2>1 DEF Open, Receive, Look
  <2>2. CASE Upload(p) \/ Verify(p) \/ Settle(p) \/ Fail(p)
    BY <2>2 DEF Upload, Verify, Settle, Fail
  <2>3. CASE \/ \E s \in Sources : Unchecked(p, s) \/ Probe(p, s)
             \/ \E good \in BOOLEAN : Answered(p, good)
             \/ EndProbes(p)
    BY <2>3 DEF Unchecked, Probe, Answered, EndProbes
  <2> QED BY <1>3, <2>1, <2>2, <2>3 DEF Proceed
<1>4. ASSUME NEW p \in Fetchers, Start(p) \/ StartProbes(p) \/ Raise(p) \/ Crash(p)
      PROVE  row' = row
  BY <1>4 DEF Start, StartProbes, Raise, Crash
<1> QED BY <1>1, <1>2, <1>3, <1>4 DEF Next, vars

\* Every step of the fetches is a step of the log or leaves it alone: a recorded
\* content stays recorded and is credited once.
THEOREM ImplementsLog == Spec => IsSnapshotLog
<1> DEFINE recorded == {x \in SnapshotIds : Exists(x)}
           credited == [x \in SnapshotIds |-> Succeeded(x)]
<1>1. Init => Log!Init
  <2> SUFFICES ASSUME Init PROVE Log!Init
    OBVIOUS
  <2>1. recorded = {} /\ \A x \in SnapshotIds : Succeeded(x) = {}
    BY DEF Init, Exists, Succeeded
  <2> QED BY <2>1 DEF Log!Init
<1>2. IInv /\ [Next]_vars => [Log!Next]_<<recorded, credited>>
  <2> SUFFICES ASSUME IInv, [Next]_vars PROVE [Log!Next]_<<recorded, credited>>
    OBVIOUS
  <2>1. CASE \A x \in SnapshotIds : Succeeded(x)' = Succeeded(x)
    <3>1. credited' = credited
      BY <2>1
    <3>2. CASE row' = row
      BY <3>1, <3>2 DEF Exists
    <3>3. CASE \E x \in SnapshotIds : row[x] = None /\ row'[x] # None
                 /\ \A y \in SnapshotIds \ {x} : row'[y] = row[y]
      <4>1. PICK x \in SnapshotIds : row[x] = None /\ row'[x] # None
                 /\ \A y \in SnapshotIds \ {x} : row'[y] = row[y]
        BY <3>3
      <4>2. x \notin recorded /\ recorded' = recorded \cup {x}
        BY <4>1 DEF Exists
      <4>3. Log!Record(x)
        BY <3>1, <4>2 DEF Log!Record
      <4> QED BY <4>3 DEF Log!Next
    <3> QED BY <3>2, <3>3, RowsKept
  <2>2. CASE \E p \in Fetchers : Settle(p)
    <3>1. PICK p \in Fetchers : Settle(p)
      BY <2>2
    <3>2. PICK end \in JobRows : Credited(end, fetcher[p].run)
      BY <3>1, SettleOk
    <3>3. row' = row /\ fetcher[p].run \in Runs
      BY <3>1, SettleOk DEF Settle
    <3>4. recorded' = recorded
      BY <3>3 DEF Exists
    <3>5. CASE end.status = "succeeded" /\ end.snap \in SnapshotIds
      <4> DEFINE x == end.snap
      <4>1. x \in recorded /\ credited[x] = {}
        BY <3>2, <3>5 DEF Credited, Exists
      <4>2. credited' = [credited EXCEPT ![x] = {fetcher[p].run}]
        BY <3>2, <3>5 DEF Credited
      <4>3. Log!Credit(x, fetcher[p].run)
        BY <3>4, <4>1, <4>2 DEF Log!Credit
      <4> QED BY <3>3, <3>5, <4>3 DEF Log!Next
    <3>6. CASE ~(end.status = "succeeded" /\ end.snap \in SnapshotIds)
      <4>1. \A x \in SnapshotIds : Succeeded(x)' = Succeeded(x)
        BY <3>2, <3>6 DEF Credited
      <4> QED BY <3>4, <4>1
    <3> QED BY <3>5, <3>6
  <2> QED BY <2>1, <2>2, StepOk
<1>3. Spec => []IInv
  BY Invariance
<1> QED BY <1>1, <1>2, <1>3, PTL DEF Spec, IsSnapshotLog, Log!Spec

(***************************************************************************)
(* The bytes behind the rows, when no two processes share a local file.    *)
(* RowsHaveBytes holds then because an object, once good, is only ever     *)
(* overwritten with the same bytes: what a process uploads is what it      *)
(* hashed.                                                                 *)
(***************************************************************************)

PrivateFiles == \A p, q \in Fetchers : \A m, n \in {1, 2} :
    p # q => Path[p][m] # Path[q][n]

\* What process q, in state f, finds in its local file (sc) and in the store (ob).
HasBytes(q, f, sc, ob) ==
    /\ f.pc = "receiving" => sc[Path[q][f.n]] = q
    /\ f.pc \in {"fetched", "absent"} => sc[Path[q][f.n]] = f.body
    /\ f.pc = "verified" => ob[f.body] = f.body

\* An object that was good is still good.
Better(ob, ob2) == \A b \in Bodies : ob[b] = b => ob2[b] = b

BytesInv == RowsHaveBytes /\ \A p \in Fetchers : HasBytes(p, fetcher[p], scratch, object)

LEMMA BytesKept ==
    ASSUME PrivateFiles, IInv, BytesInv, NEW p \in Fetchers,
           \A q \in Fetchers \ {p} : fetcher'[q] = fetcher[q],
           \A f \in Files \ {FileOf(p)} : scratch'[f] = scratch[f],
           Better(object, object'), HasBytes(p, fetcher'[p], scratch', object'),
           \A x \in SnapshotIds : row'[x] # None => row[x] # None \/ object'[x[2]] = x[2]
    PROVE  BytesInv'
<1>1. RowsHaveBytes'
  BY DEF BytesInv, RowsHaveBytes, Exists, Readable, Better, SnapshotIds
<1>2. ASSUME NEW q \in Fetchers, q # p PROVE HasBytes(q, fetcher[q], scratch', object')
  <2>1. fetcher[q].n \in {1, 2} /\ fetcher[p].n \in {1, 2}
    BY AtOk DEF Processes
  <2>2. Path[q][fetcher[q].n] # FileOf(p) /\ Path[q][fetcher[q].n] \in Files
    BY <1>2, <2>1, FetchAssumption DEF PrivateFiles, FileOf
  <2>3. scratch'[Path[q][fetcher[q].n]] = scratch[Path[q][fetcher[q].n]]
    BY <2>2
  <2>4. fetcher[q].pc = "verified" => fetcher[q].body \in Bodies
    BY AtOk DEF ProcOk, HasBody
  <2>5. HasBytes(q, fetcher[q], scratch, object)
    BY DEF BytesInv
  <2> QED BY <2>3, <2>4, <2>5 DEF HasBytes, Better
<1>3. \A q \in Fetchers : HasBytes(q, fetcher'[q], scratch', object')
  BY <1>2
<1> QED BY <1>1, <1>3 DEF BytesInv

\* A step of process p that writes no file, no object and no row, to a place where it
\* relies on nothing.
LEMMA BytesQuiet ==
    ASSUME PrivateFiles, IInv, BytesInv, NEW p \in Fetchers, NEW new,
           fetcher' = [fetcher EXCEPT ![p] = new],
           UNCHANGED <<scratch, object, row>>,
           new.pc \notin {"receiving", "fetched", "absent", "verified"}
    PROVE  BytesInv'
<1>1. fetcher'[p] = new /\ \A q \in Fetchers \ {p} : fetcher'[q] = fetcher[q]
  BY DEF IInv, TypeOK
<1>2. HasBytes(p, fetcher'[p], scratch', object')
  BY <1>1 DEF HasBytes
<1>3. Better(object, object')
  BY DEF Better
<1> QED BY <1>1, <1>2, <1>3, BytesKept

LEMMA BytesOpen ==
    ASSUME PrivateFiles, IInv, BytesInv, NEW p \in Fetchers, Open(p) PROVE BytesInv'
<1>1. fetcher[p].n \in {1, 2} /\ fetcher[p] \in Processes
  BY AtOk DEF Processes
<1>2. FileOf(p) \in Files
  BY <1>1, FetchAssumption DEF FileOf
<1>3. ASSUME NEW q \in Fetchers \ {p} PROVE FileOf(q) # FileOf(p)
  <2>1. fetcher[q].n \in {1, 2}
    BY AtOk DEF Processes
  <2> QED BY <1>1, <2>1 DEF PrivateFiles, FileOf
<1>4. scratch' = [scratch EXCEPT ![FileOf(p)] = p]
  BY <1>3 DEF Open
<1>5. scratch'[FileOf(p)] = p /\ \A f \in Files \ {FileOf(p)} : scratch'[f] = scratch[f]
  BY <1>2, <1>4 DEF IInv, TypeOK
<1>6. fetcher'[p].pc = "receiving" /\ fetcher'[p].n = fetcher[p].n
      /\ \A q \in Fetchers \ {p} : fetcher'[q] = fetcher[q]
  BY <1>1 DEF Open, Goto, IInv, TypeOK, Processes
<1>7. HasBytes(p, fetcher'[p], scratch', object')
  BY <1>5, <1>6 DEF HasBytes, FileOf
<1>8. Better(object, object') /\ row' = row
  BY DEF Better, Open
<1> QED BY <1>5, <1>6, <1>7, <1>8, BytesKept

LEMMA BytesReceive ==
    ASSUME PrivateFiles, IInv, BytesInv, NEW p \in Fetchers, NEW b \in Bodies,
           NEW ok \in BOOLEAN, Receive(p, b, ok)
    PROVE  BytesInv'
<1>1. fetcher[p].n \in {1, 2} /\ fetcher[p] \in Processes /\ fetcher[p].pc = "receiving"
  BY AtOk DEF Processes, Receive, At
<1>2. FileOf(p) \in Files
  BY <1>1, FetchAssumption DEF FileOf
<1>3. scratch[FileOf(p)] = p
  BY <1>1 DEF BytesInv, HasBytes, FileOf
<1>4. scratch' = [scratch EXCEPT ![FileOf(p)] = b]
  BY <1>3 DEF Receive
<1>5. scratch'[FileOf(p)] = b /\ \A f \in Files \ {FileOf(p)} : scratch'[f] = scratch[f]
  BY <1>2, <1>4 DEF IInv, TypeOK
<1> DEFINE new == [fetcher[p] EXCEPT !.pc = "fetched", !.body = b, !.ok = ok]
<1>6. fetcher' = [fetcher EXCEPT ![p] = new]
  BY DEF Receive, IInv, TypeOK
<1>7. new.pc = "fetched" /\ new.n = fetcher[p].n /\ new.body = b
  BY <1>1 DEF Processes
<1> HIDE DEF new
<1>8. fetcher'[p] = new /\ \A q \in Fetchers \ {p} : fetcher'[q] = fetcher[q]
  BY <1>6 DEF IInv, TypeOK
<1>9. HasBytes(p, fetcher'[p], scratch', object')
  BY <1>5, <1>7, <1>8 DEF HasBytes, FileOf
<1>10. Better(object, object') /\ row' = row
  BY DEF Better, Receive
<1> QED BY <1>5, <1>8, <1>9, <1>10, BytesKept

LEMMA BytesLook ==
    ASSUME PrivateFiles, IInv, BytesInv, NEW p \in Fetchers, Look(p) PROVE BytesInv'
<1> DEFINE pc == IF Exists(Id(p)) THEN "settling" ELSE "absent"
           new == [fetcher[p] EXCEPT !.won = FALSE, !.pc = pc]
<1>1. fetcher[p] \in Processes /\ fetcher[p].pc = "fetched"
  BY AtOk DEF Look, At
<1>2. fetcher' = [fetcher EXCEPT ![p] = new]
  BY DEF Look, IInv, TypeOK
<1>3. new.pc \in {"settling", "absent"} /\ new.n = fetcher[p].n /\ new.body = fetcher[p].body
  BY <1>1 DEF Processes
<1> HIDE DEF new
<1>4. fetcher'[p] = new /\ \A q \in Fetchers \ {p} : fetcher'[q] = fetcher[q]
  BY <1>2 DEF IInv, TypeOK
<1>5. scratch' = scratch /\ object' = object /\ row' = row
  BY DEF Look
<1>6. HasBytes(p, fetcher'[p], scratch', object')
  BY <1>1, <1>3, <1>4, <1>5 DEF HasBytes, BytesInv
<1> QED BY <1>4, <1>5, <1>6, BytesKept DEF Better

LEMMA BytesUpload ==
    ASSUME PrivateFiles, IInv, BytesInv, NEW p \in Fetchers, Upload(p) PROVE BytesInv'
<1>1. fetcher[p] \in Processes /\ fetcher[p].pc = "absent" /\ fetcher[p].body \in Bodies
  BY AtOk DEF Upload, At, ProcOk, HasBody
<1>2. scratch[FileOf(p)] = fetcher[p].body
  BY <1>1 DEF BytesInv, HasBytes, FileOf
<1>3. object' = [object EXCEPT ![fetcher[p].body] = fetcher[p].body]
  BY <1>1, <1>2 DEF Upload
<1>4. Better(object, object')
  BY <1>1, <1>3 DEF Better, IInv, TypeOK
<1>5. fetcher'[p].pc = "uploaded" /\ \A q \in Fetchers \ {p} : fetcher'[q] = fetcher[q]
  BY <1>1 DEF Upload, Goto, IInv, TypeOK, Processes
<1>6. HasBytes(p, fetcher'[p], scratch', object')
  BY <1>5 DEF HasBytes
<1>7. scratch' = scratch /\ row' = row
  BY DEF Upload
<1> QED BY <1>4, <1>5, <1>6, <1>7, BytesKept

LEMMA BytesVerify ==
    ASSUME PrivateFiles, IInv, BytesInv, NEW p \in Fetchers, Verify(p) PROVE BytesInv'
<1> DEFINE pc == IF Readable(Id(p)) THEN "verified" ELSE "raised"
           new == [fetcher[p] EXCEPT !.pc = pc]
<1>1. fetcher[p] \in Processes
  BY AtOk
<1>2. fetcher' = [fetcher EXCEPT ![p] = new]
  BY DEF Verify, Goto, IInv, TypeOK
<1>3. new.pc \in {"verified", "raised"} /\ new.body = fetcher[p].body
      /\ (new.pc = "verified" => Readable(Id(p)))
  BY <1>1 DEF Processes
<1> HIDE DEF new
<1>4. fetcher'[p] = new /\ \A q \in Fetchers \ {p} : fetcher'[q] = fetcher[q]
  BY <1>2 DEF IInv, TypeOK
<1>5. scratch' = scratch /\ object' = object /\ row' = row
  BY DEF Verify
<1>6. HasBytes(p, fetcher'[p], scratch', object')
  BY <1>3, <1>4, <1>5 DEF HasBytes, Readable, Id
<1> QED BY <1>4, <1>5, <1>6, BytesKept DEF Better

LEMMA BytesInsert ==
    ASSUME PrivateFiles, IInv, BytesInv, NEW p \in Fetchers, Insert(p) PROVE BytesInv'
<1>1. fetcher[p] \in Processes /\ fetcher[p].pc = "verified" /\ fetcher[p].body \in Bodies
      /\ SourceOf[p] \in Sources
  BY AtOk DEF Insert, At, ProcOk, HasBody
<1>2. Id(p) \in SnapshotIds /\ object[Id(p)[2]] = Id(p)[2]
  BY <1>1 DEF BytesInv, HasBytes, Id, SnapshotIds
<1>3. \A x \in SnapshotIds \ {Id(p)} : row'[x] = row[x]
  BY <1>2 DEF Insert, IInv, TypeOK
<1> DEFINE new == [fetcher[p] EXCEPT !.pc = "settling", !.won = ~Exists(Id(p))]
<1>4. fetcher' = [fetcher EXCEPT ![p] = new] /\ scratch' = scratch /\ object' = object
  BY DEF Insert, IInv, TypeOK
<1>5. new.pc = "settling"
  BY <1>1 DEF Processes
<1> HIDE DEF new
<1>6. fetcher'[p] = new /\ \A q \in Fetchers \ {p} : fetcher'[q] = fetcher[q]
  BY <1>4 DEF IInv, TypeOK
<1>7. HasBytes(p, fetcher'[p], scratch', object')
  BY <1>5, <1>6 DEF HasBytes
<1>8. \A x \in SnapshotIds : row'[x] # None => row[x] # None \/ object'[x[2]] = x[2]
  BY <1>2, <1>3, <1>4
<1> QED BY <1>4, <1>6, <1>7, <1>8, BytesKept DEF Better

LEMMA BytesCrash ==
    ASSUME PrivateFiles, IInv, BytesInv, NEW p \in Fetchers, Crash(p) PROVE BytesInv'
<1> DEFINE new == Idle("error", fetcher[p].runs)
<1>1. fetcher' = [fetcher EXCEPT ![p] = new] /\ object' = object /\ row' = row
  BY DEF Crash
<1>2. new.pc = "idle"
  BY DEF Idle
<1> HIDE DEF new
<1>3. fetcher'[p] = new /\ \A q \in Fetchers \ {p} : fetcher'[q] = fetcher[q]
  BY <1>1 DEF IInv, TypeOK
<1>4. \A f \in Files \ {FileOf(p)} : scratch'[f] = scratch[f]
  BY DEF Crash, IInv, TypeOK
<1>5. HasBytes(p, fetcher'[p], scratch', object')
  BY <1>2, <1>3 DEF HasBytes
<1> QED BY <1>1, <1>3, <1>4, <1>5, BytesKept DEF Better

\* The steps that write no file, no object and no row.
LEMMA BytesRest ==
    ASSUME PrivateFiles, IInv, BytesInv, NEW p \in Fetchers,
           \/ Start(p) \/ StartProbes(p) \/ Raise(p) \/ Settle(p) \/ Fail(p) \/ EndProbes(p)
           \/ \E s \in Sources : Unchecked(p, s) \/ Probe(p, s)
           \/ \E good \in BOOLEAN : Answered(p, good)
    PROVE  BytesInv'
<1>1. fetcher[p] \in Processes /\ fetcher \in [Fetchers -> Processes]
  BY AtOk DEF IInv, TypeOK
<1>2. CASE Start(p)
  <2> DEFINE q == IF At(p, "idle") THEN Idle("none", {}) ELSE fetcher[p]
             new == [q EXCEPT !.pc = "started", !.run = started + 1,
                              !.runs = q.runs \cup {started + 1}]
  <2>1. q \in Processes
    BY AtOk, IdleOk
  <2>2. fetcher' = [fetcher EXCEPT ![p] = new]
    BY <1>2 DEF Start
  <2> HIDE DEF q
  <2>3. new.pc = "started"
    BY <2>1 DEF Processes
  <2> HIDE DEF new
  <2> QED BY <1>2, <2>2, <2>3, BytesQuiet DEF Start
<1>3. CASE StartProbes(p)
  <2> DEFINE q == Idle("none", {})
             new == [q EXCEPT !.pc = "probe", !.left = Owned[p]]
  <2>1. q \in Processes
    BY IdleOk
  <2>2. fetcher' = [fetcher EXCEPT ![p] = new]
    BY <1>3 DEF StartProbes
  <2> HIDE DEF q
  <2>3. new.pc = "probe"
    BY <2>1 DEF Processes
  <2> HIDE DEF new
  <2> QED BY <1>3, <2>2, <2>3, BytesQuiet DEF StartProbes
<1>4. CASE Raise(p)
  <2> DEFINE new == [fetcher[p] EXCEPT !.pc = "raised"]
  <2>1. fetcher' = [fetcher EXCEPT ![p] = new] /\ new.pc = "raised"
    BY <1>1, <1>4 DEF Raise, Goto, Processes
  <2> HIDE DEF new
  <2> QED BY <1>4, <2>1, BytesQuiet DEF Raise
<1>5. CASE Settle(p)
  <2> DEFINE q == fetcher[p]
             allOk == q.allOk /\ q.ok
             new == IF q.n = 1 THEN [q EXCEPT !.pc = "between", !.n = 2, !.allOk = allOk]
                    ELSE Idle(IF allOk THEN "zero" ELSE "error", q.runs)
  <2>1. fetcher' = [fetcher EXCEPT ![p] = new]
    BY <1>5 DEF Settle
  <2>2. new.pc \in {"between", "idle"}
    <3>1. CASE q.n = 1
      BY <1>1, <3>1 DEF Processes
    <3>2. CASE q.n # 1
      BY <3>2 DEF Idle
    <3> QED BY <3>1, <3>2
  <2>3. UNCHANGED <<scratch, object, row>>
    BY <1>5 DEF Settle
  <2> HIDE DEF new, q
  <2> QED BY <2>1, <2>2, <2>3, BytesQuiet
<1>6. CASE Fail(p) \/ EndProbes(p)
  <2>1. PICK e, rs : fetcher' = [fetcher EXCEPT ![p] = Idle(e, rs)]
    BY <1>6 DEF Fail, EndProbes
  <2>2. Idle(e, rs).pc = "idle"
    BY DEF Idle
  <2>3. scratch' = scratch /\ object' = object /\ row' = row
    BY <1>6 DEF Fail, EndProbes
  <2> QED BY <2>1, <2>2, <2>3, BytesQuiet
<1>7. ASSUME NEW s \in Sources, Unchecked(p, s) PROVE BytesInv'
  <2> DEFINE new == [fetcher[p] EXCEPT !.left = fetcher[p].left \ {s}, !.allOk = FALSE]
  <2>1. fetcher' = [fetcher EXCEPT ![p] = new]
    BY <1>1, <1>7 DEF Unchecked
  <2>2. new.pc = "probe"
    BY <1>1, <1>7 DEF Unchecked, At, Processes
  <2> HIDE DEF new
  <2> QED BY <1>7, <2>1, <2>2, BytesQuiet DEF Unchecked
<1>8. ASSUME NEW s \in Sources, Probe(p, s) PROVE BytesInv'
  <2> DEFINE new == [fetcher[p] EXCEPT !.pc = "probing", !.run = started + 1,
                                !.left = fetcher[p].left \ {s},
                                !.runs = fetcher[p].runs \cup {started + 1}]
  <2>1. fetcher' = [fetcher EXCEPT ![p] = new]
    BY <1>8 DEF Probe
  <2>2. new.pc = "probing"
    BY <1>1 DEF Processes
  <2> HIDE DEF new
  <2> QED BY <1>8, <2>1, <2>2, BytesQuiet DEF Probe
<1>9. ASSUME NEW good \in BOOLEAN, Answered(p, good) PROVE BytesInv'
  <2> DEFINE new == [fetcher[p] EXCEPT !.pc = "probe", !.allOk = fetcher[p].allOk /\ good]
  <2>1. fetcher' = [fetcher EXCEPT ![p] = new]
    BY <1>1, <1>9 DEF Answered
  <2>2. new.pc = "probe"
    BY <1>1 DEF Processes
  <2> HIDE DEF new
  <2> QED BY <1>9, <2>1, <2>2, BytesQuiet DEF Answered
<1> QED BY <1>2, <1>3, <1>4, <1>5, <1>6, <1>7, <1>8, <1>9

LEMMA BytesStep ==
    ASSUME PrivateFiles, IInv, BytesInv, [Next]_vars PROVE BytesInv'
<1>1. CASE UNCHANGED vars
  BY <1>1 DEF vars, BytesInv, RowsHaveBytes, Exists, Readable
<1>2. CASE \E p \in Fetchers : Crash(p)
  BY <1>2, BytesCrash
<1>3. CASE \E p \in Fetchers : Open(p) \/ Look(p) \/ Upload(p)
  BY <1>3, BytesOpen, BytesLook, BytesUpload
<1>4. CASE \E p \in Fetchers, b \in Bodies, ok \in BOOLEAN : Receive(p, b, ok)
  BY <1>4, BytesReceive
<1>5. CASE \E p \in Fetchers : Verify(p) \/ Insert(p)
  BY <1>5, BytesVerify, BytesInsert
<1> QED BY <1>1, <1>2, <1>3, <1>4, <1>5, BytesRest DEF Next, Proceed

\* If every process has local files of its own, then whichever fetches race, raise or
\* die, the bytes a snapshot row names are in the object store under their hash. (With
\* the fixed file names of phase_b two processes of one machine break it: run
\* fetch_disk.)
THEOREM RowsKeepTheirBytes ==
    ASSUME PrivateFiles PROVE Spec => []RowsHaveBytes
<1>1. Init => BytesInv
  BY DEF Init, BytesInv, RowsHaveBytes, Exists, HasBytes, Idle
<1>2. IInv /\ BytesInv /\ [Next]_vars => BytesInv'
  BY BytesStep
<1>3. BytesInv => RowsHaveBytes
  BY DEF BytesInv
<1> QED BY <1>1, <1>2, <1>3, Invariance, PTL DEF Spec

-----------------------------------------------------------------------------
(***************************************************************************)
(* ExitIsHonest: an exit code speaks of the runs of the execution, which   *)
(* no other process works on (OwnRuns), and of sources already struck off. *)
(***************************************************************************)

\* The fetch of the run was answered 2xx and its snapshot is recorded.
Fine(r, jb, rw) ==
    /\ jb[r].status \in {"succeeded", "skipped_unchanged"}
    /\ jb[r].snap \in SnapshotIds /\ rw[jb[r].snap] # None

Fetching(q) == Busy(q) /\ q.pc # "probing"

\* What the runs of q are worth, for a process that owes `own` a probe.
Earned(q, own, jb, rw) ==
    /\ q.pc = "idle" =>
          /\ q.exit = "zero" => Cardinality(q.runs) = 2 /\ \A r \in q.runs : Fine(r, jb, rw)
          /\ q.exit = "alive" =>
                /\ own # {} /\ Cardinality(q.runs) = Cardinality(own)
                /\ \A r \in q.runs : jb[r].status = "succeeded"
    /\ Fetching(q) =>
          /\ Cardinality(q.runs) = q.n
          /\ q.allOk => \A r \in q.runs \ {q.run} : Fine(r, jb, rw)
    /\ q.pc = "between" =>
          /\ q.n = 2 /\ Cardinality(q.runs) = 1
          /\ q.allOk => \A r \in q.runs : Fine(r, jb, rw)
    /\ q.pc \in {"probe", "probing"} =>
          /\ q.left \subseteq own
          /\ q.allOk =>
                /\ Cardinality(q.runs) = Cardinality(own \ q.left)
                /\ \A r \in q.runs :
                      (q.pc = "probing" /\ r = q.run) \/ jb[r].status = "succeeded"

AllEarned == \A p \in Fetchers : Earned(fetcher[p], Owned[p], job, row)

OwnRuns ==
    /\ \A p \in Fetchers : /\ fetcher[p].runs \subseteq 1..started
                           /\ Busy(fetcher[p]) => fetcher[p].run \in fetcher[p].runs
    /\ \A p, q \in Fetchers : p # q => fetcher[p].runs \cap fetcher[q].runs = {}

HonestInv == IInv /\ OwnRuns /\ AllEarned

LEMMA HonestParts ==
    ASSUME HonestInv, NEW p \in Fetchers
    PROVE  /\ IInv /\ Earned(fetcher[p], Owned[p], job, row)
           /\ fetcher[p] \in Processes /\ fetcher \in [Fetchers -> Processes]
           /\ started \in Nat /\ IsFiniteSet(fetcher[p].runs)
           /\ fetcher[p].runs \subseteq 1..started /\ started + 1 \notin fetcher[p].runs
           /\ Busy(fetcher[p]) => fetcher[p].run \in fetcher[p].runs
           /\ Owned[p] \in SUBSET Sources /\ IsFiniteSet(Owned[p])
<1>1. IInv /\ AllEarned /\ OwnRuns
  BY DEF HonestInv
<1>2. started \in Nat /\ fetcher[p] \in Processes /\ fetcher \in [Fetchers -> Processes]
  BY <1>1, FetchAssumption DEF IInv, TypeOK
<1>3. IsFiniteSet(1..started)
  BY <1>2, FS_Interval
<1>4. fetcher[p].runs \subseteq 1..started
      /\ (Busy(fetcher[p]) => fetcher[p].run \in fetcher[p].runs)
  BY <1>1 DEF OwnRuns
<1>5. IsFiniteSet(fetcher[p].runs)
  BY <1>3, <1>4, FS_Subset
<1>6. started + 1 \notin fetcher[p].runs
  <2>1. started + 1 \notin 1..started
    BY <1>2
  <2> QED BY <2>1, <1>4
<1>7. Owned[p] \in SUBSET Sources /\ IsFiniteSet(Sources)
  BY FetchAssumption
<1>8. IsFiniteSet(Owned[p])
  BY <1>7, FS_Subset
<1> QED BY <1>1, <1>2, <1>4, <1>5, <1>6, <1>7, <1>8 DEF AllEarned

\* What is earned is kept while the rows stay and no run of the process changes.
LEMMA EarnedKept ==
    ASSUME NEW q \in Processes, NEW own, NEW jb, NEW jb2, NEW rw, NEW rw2,
           Earned(q, own, jb, rw), RowsStay(rw, rw2), \A r \in q.runs : jb2[r] = jb[r]
    PROVE  Earned(q, own, jb2, rw2)
<1>1. \A r \in q.runs : Fine(r, jb, rw) => Fine(r, jb2, rw2)
  BY DEF Fine, RowsStay
<1> HIDE DEF Fine
<1> QED BY <1>1 DEF Earned

\* A step of process p starts at most one run and changes no run but its own.
LEMMA HonestStep ==
    ASSUME HonestInv, IInv', NEW p \in Fetchers, NEW new \in Processes,
           fetcher' = [fetcher EXCEPT ![p] = new], RowsStay(row, row'),
           started' \in {started, started + 1},
           new.runs \subseteq fetcher[p].runs \cup {started + 1},
           new.runs \subseteq 1..started', Busy(new) => new.run \in new.runs,
           \A r \in 1..started : r \notin fetcher[p].runs => job'[r] = job[r],
           Earned(new, Owned[p], job', row')
    PROVE  HonestInv'
<1>1. fetcher'[p] = new /\ \A q \in Fetchers \ {p} : fetcher'[q] = fetcher[q]
  BY HonestParts
<1>2. ASSUME NEW q \in Fetchers, q # p
      PROVE  /\ fetcher[q].runs \subseteq 1..started /\ fetcher[q].runs \cap new.runs = {}
             /\ fetcher[q].runs \cap fetcher[p].runs = {}
  <2>1. fetcher[q].runs \subseteq 1..started /\ started + 1 \notin fetcher[q].runs
    BY HonestParts
  <2>2. fetcher[q].runs \cap fetcher[p].runs = {}
    BY <1>2 DEF HonestInv, OwnRuns
  <2> QED BY <2>1, <2>2
<1>3. 1..started \subseteq 1..started'
  BY HonestParts
<1>4. ASSUME NEW q \in Fetchers
      PROVE  /\ fetcher'[q].runs \subseteq 1..started'
             /\ Busy(fetcher'[q]) => fetcher'[q].run \in fetcher'[q].runs
  <2>1. CASE q = p
    BY <1>1, <2>1
  <2>2. CASE q # p
    BY <1>1, <1>2, <1>3, <2>2, HonestParts
  <2> QED BY <2>1, <2>2
<1>5. ASSUME NEW q \in Fetchers, NEW q2 \in Fetchers, q # q2
      PROVE  fetcher'[q].runs \cap fetcher'[q2].runs = {}
  <2>1. CASE q = p
    BY <1>1, <1>2, <1>5, <2>1
  <2>2. CASE q2 = p
    BY <1>1, <1>2, <1>5, <2>2
  <2>3. CASE q # p /\ q2 # p
    BY <1>1, <1>5, <2>3 DEF HonestInv, OwnRuns
  <2> QED BY <2>1, <2>2, <2>3
<1>6. OwnRuns'
  BY <1>4, <1>5 DEF OwnRuns
<1>7. ASSUME NEW q \in Fetchers PROVE Earned(fetcher'[q], Owned[q], job', row')
  <2>1. CASE q = p
    BY <1>1, <2>1
  <2>2. CASE q # p
    <3>1. \A r \in fetcher[q].runs : job'[r] = job[r]
      BY <1>2, <2>2
    <3>2. Earned(fetcher[q], Owned[q], job, row) /\ fetcher[q] \in Processes
      BY HonestParts
    <3>3. Earned(fetcher[q], Owned[q], job', row')
      BY <3>1, <3>2, EarnedKept
    <3> QED BY <1>1, <2>2, <3>3
  <2> QED BY <2>1, <2>2
<1> QED BY <1>6, <1>7 DEF HonestInv, AllEarned

\* A step within a fetch, which no job_run sees.
LEMMA HonestFetch ==
    ASSUME HonestInv, IInv', NEW p \in Fetchers, NEW new \in Processes,
           fetcher' = [fetcher EXCEPT ![p] = new], RowsStay(row, row'),
           UNCHANGED <<job, started>>, Fetching(fetcher[p]), Fetching(new),
           new.n = fetcher[p].n, new.run = fetcher[p].run, new.runs = fetcher[p].runs,
           new.allOk = fetcher[p].allOk
    PROVE  HonestInv'
<1>1. Earned(fetcher[p], Owned[p], job, row) /\ fetcher[p] \in Processes
  BY HonestParts
<1>2. Earned(fetcher[p], Owned[p], job', row')
  BY <1>1, EarnedKept
<1>3. new.pc \notin {"idle", "between", "probe", "probing"}
  BY DEF Fetching, Busy
<1>4. Earned(new, Owned[p], job', row')
  BY <1>2, <1>3 DEF Earned
<1>5. Busy(new) => new.run \in new.runs
  BY HonestParts DEF Fetching
<1> QED BY <1>4, <1>5, HonestParts, HonestStep

\* The steps from the start of a job_run to its settlement.
LEMMA HonestWithin ==
    ASSUME HonestInv, IInv', NEW p \in Fetchers, RowsStay(row, row'),
           Open(p) \/ Look(p) \/ Upload(p) \/ Verify(p) \/ Insert(p)
    PROVE  HonestInv'
<1>1. fetcher[p] \in Processes /\ fetcher \in [Fetchers -> Processes]
  BY HonestParts
<1>2. Fetching(fetcher[p]) /\ UNCHANGED <<job, started>>
  <2>1. CASE Open(p) \/ Look(p) \/ Upload(p)
    BY <2>1 DEF Open, Look, Upload, At, Fetching, Busy
  <2>2. CASE Verify(p) \/ Insert(p)
    BY <2>2 DEF Verify, Insert, At, Fetching, Busy
  <2> QED BY <2>1, <2>2
<1> DEFINE Fetched(new) ==
        /\ new \in Processes /\ new.n = fetcher[p].n /\ new.run = fetcher[p].run
        /\ new.runs = fetcher[p].runs /\ new.allOk = fetcher[p].allOk
<1>3. CASE Open(p)
  <2> DEFINE new == [fetcher[p] EXCEPT !.pc = "receiving"]
  <2>1. fetcher' = [fetcher EXCEPT ![p] = new]
    BY <1>1, <1>3 DEF Open, Goto
  <2>2. Fetched(new) /\ new.pc \in {"receiving"}
    BY <1>1 DEF Processes, Exists
  <2> HIDE DEF new
  <2>3. Fetching(new)
    BY <2>2 DEF Fetching, Busy
  <2> QED BY <1>2, <2>1, <2>2, <2>3, HonestFetch
<1>4. CASE Look(p)
  <2> DEFINE new == [fetcher[p] EXCEPT !.won = FALSE,
                 !.pc = IF Exists(Id(p)) THEN "settling" ELSE "absent"]
  <2>1. fetcher' = [fetcher EXCEPT ![p] = new]
    BY <1>1, <1>4 DEF Look
  <2>2. Fetched(new) /\ new.pc \in {"settling", "absent"}
    BY <1>1 DEF Processes, Exists
  <2> HIDE DEF new
  <2>3. Fetching(new)
    BY <2>2 DEF Fetching, Busy
  <2> QED BY <1>2, <2>1, <2>2, <2>3, HonestFetch
<1>5. CASE Upload(p)
  <2> DEFINE new == [fetcher[p] EXCEPT !.pc = "uploaded"]
  <2>1. fetcher' = [fetcher EXCEPT ![p] = new]
    BY <1>1, <1>5 DEF Upload, Goto
  <2>2. Fetched(new) /\ new.pc \in {"uploaded"}
    BY <1>1 DEF Processes, Exists
  <2> HIDE DEF new
  <2>3. Fetching(new)
    BY <2>2 DEF Fetching, Busy
  <2> QED BY <1>2, <2>1, <2>2, <2>3, HonestFetch
<1>6. CASE Verify(p)
  <2> DEFINE new == [fetcher[p] EXCEPT !.pc = IF Readable(Id(p)) THEN "verified" ELSE "raised"]
  <2>1. fetcher' = [fetcher EXCEPT ![p] = new]
    BY <1>1, <1>6 DEF Verify, Goto
  <2>2. Fetched(new) /\ new.pc \in {"verified", "raised"}
    BY <1>1 DEF Processes, Exists
  <2> HIDE DEF new
  <2>3. Fetching(new)
    BY <2>2 DEF Fetching, Busy
  <2> QED BY <1>2, <2>1, <2>2, <2>3, HonestFetch
<1>7. CASE Insert(p)
  <2> DEFINE new == [fetcher[p] EXCEPT !.pc = "settling", !.won = ~Exists(Id(p))]
  <2>1. fetcher' = [fetcher EXCEPT ![p] = new]
    BY <1>1, <1>7 DEF Insert
  <2>2. Fetched(new) /\ new.pc \in {"settling"}
    BY <1>1 DEF Processes, Exists
  <2> HIDE DEF new
  <2>3. Fetching(new)
    BY <2>2 DEF Fetching, Busy
  <2> QED BY <1>2, <2>1, <2>2, <2>3, HonestFetch
<1> QED BY <1>3, <1>4, <1>5, <1>6, <1>7

LEMMA HonestReceive ==
    ASSUME HonestInv, IInv', NEW p \in Fetchers, RowsStay(row, row'), NEW b \in Bodies,
           NEW ok \in BOOLEAN, Receive(p, b, ok)
    PROVE  HonestInv'
<1> DEFINE new == [fetcher[p] EXCEPT !.pc = "fetched", !.body = b, !.ok = ok]
<1>1. fetcher[p] \in Processes
  BY HonestParts
<1>2. new \in Processes /\ new.pc = "fetched" /\ new.n = fetcher[p].n
      /\ new.run = fetcher[p].run /\ new.runs = fetcher[p].runs
      /\ new.allOk = fetcher[p].allOk
  BY <1>1 DEF Processes
<1>3. fetcher' = [fetcher EXCEPT ![p] = new] /\ UNCHANGED <<job, started>>
  BY HonestParts DEF Receive
<1> HIDE DEF new
<1>4. Fetching(new) /\ Fetching(fetcher[p])
  BY <1>2 DEF Receive, At, Fetching, Busy
<1> QED BY <1>2, <1>3, <1>4, HonestFetch

LEMMA HonestRaise ==
    ASSUME HonestInv, IInv', NEW p \in Fetchers, RowsStay(row, row'), Raise(p)
    PROVE  HonestInv'
<1> DEFINE new == [fetcher[p] EXCEPT !.pc = "raised"]
<1>1. fetcher[p] \in Processes
  BY HonestParts
<1>2. new \in Processes /\ new.pc = "raised" /\ new.n = fetcher[p].n
      /\ new.run = fetcher[p].run /\ new.runs = fetcher[p].runs
      /\ new.allOk = fetcher[p].allOk
  BY <1>1 DEF Processes
<1>3. fetcher' = [fetcher EXCEPT ![p] = new] /\ UNCHANGED <<job, started>>
  BY HonestParts DEF Raise, Goto
<1> HIDE DEF new
<1>4. Fetching(new) /\ Fetching(fetcher[p])
  BY <1>1, <1>2 DEF Raise, Fetching, Busy, Processes
<1> QED BY <1>2, <1>3, <1>4, HonestFetch

\* An execution that ends with an error claims nothing.
LEMMA HonestError ==
    ASSUME HonestInv, IInv', NEW p \in Fetchers, RowsStay(row, row'), Fail(p) \/ Crash(p)
    PROVE  HonestInv'
<1> DEFINE new == Idle("error", fetcher[p].runs)
<1>1. fetcher[p].runs \in SUBSET Runs /\ fetcher[p].runs \subseteq 1..started
  BY HonestParts DEF Processes
<1>2. new \in Processes /\ ~Busy(new) /\ new.pc = "idle" /\ new.runs = fetcher[p].runs
  BY <1>1, IdleOk
<1>3. new.exit = "error"
  BY DEF Idle
<1>4. fetcher' = [fetcher EXCEPT ![p] = new] /\ started' = started
  BY DEF Fail, Crash
<1> HIDE DEF new
<1>5. Earned(new, Owned[p], job', row')
  BY <1>2, <1>3 DEF Earned, Fetching
<1>6. ASSUME NEW r \in 1..started, r \notin fetcher[p].runs PROVE job'[r] = job[r]
  <2>1. CASE Crash(p)
    BY <2>1 DEF Crash
  <2>2. CASE Fail(p)
    <3>1. fetcher[p].run \in fetcher[p].runs
      BY <2>2, HonestParts DEF Fail, At, Busy
    <3>2. fetcher[p].run # r
      BY <3>1, <1>6
    <3>3. job \in [Runs -> JobRows] /\ r \in Runs
      BY HonestParts, FetchAssumption DEF IInv, TypeOK, Runs
    <3> QED BY <2>2, <3>2, <3>3 DEF Fail, FailedRun
  <2> QED BY <2>1, <2>2
<1> QED BY <1>1, <1>2, <1>4, <1>5, <1>6, HonestStep

\* Starting a job_run changes no run that was started before.
LEMMA OthersStay ==
    ASSUME HonestInv, job' = [job EXCEPT ![started + 1].status = "running"]
    PROVE  \A r \in 1..started : job'[r] = job[r]
<1>1. started \in Nat /\ job \in [Runs -> JobRows]
  BY FetchAssumption DEF HonestInv, IInv, TypeOK
<1>2. ASSUME NEW r \in 1..started PROVE r # started + 1
  BY <1>1
<1>3. 1..started \subseteq Runs
  BY FetchAssumption DEF Runs, HonestInv, IInv, TypeOK
<1> QED BY <1>1, <1>2, <1>3

LEMMA HonestStart ==
    ASSUME HonestInv, IInv', NEW p \in Fetchers, RowsStay(row, row'), Start(p)
    PROVE  HonestInv'
<1> DEFINE q == IF At(p, "idle") THEN Idle("none", {}) ELSE fetcher[p]
           new == [q EXCEPT !.pc = "started", !.run = started + 1,
                            !.runs = q.runs \cup {started + 1}]
<1>1. /\ fetcher' = [fetcher EXCEPT ![p] = new] /\ started' = started + 1
      /\ job' = [job EXCEPT ![started + 1].status = "running"]
      /\ started < MaxRuns /\ (At(p, "idle") \/ At(p, "between"))
  BY DEF Start
<1>2. q \in Processes /\ Earned(fetcher[p], Owned[p], job, row) /\ started + 1 \in Runs
  BY <1>1, HonestParts, IdleOk, FetchAssumption DEF Runs
<1>3. \A r \in 1..started : job'[r] = job[r]
  BY <1>1, OthersStay
<1>4. /\ q.runs \subseteq fetcher[p].runs /\ Cardinality(q.runs) = q.n - 1
      /\ q.n \in {1, 2} /\ IsFiniteSet(q.runs)
      /\ q.allOk => \A r \in q.runs : Fine(r, job, row)
  <2>1. CASE At(p, "idle")
    <3>1. q = Idle("none", {})
      BY <2>1
    <3>2. q.runs = {} /\ q.n = 1
      BY <3>1 DEF Idle
    <3> HIDE DEF q
    <3> QED BY <3>2, FS_EmptySet
  <2>2. CASE ~At(p, "idle")
    <3>1. fetcher[p].pc = "between" /\ q = fetcher[p]
      BY <1>1, <2>2 DEF At
    <3> HIDE DEF q
    <3>2. /\ fetcher[p].n = 2 /\ Cardinality(fetcher[p].runs) = 1
          /\ fetcher[p].allOk => \A r \in fetcher[p].runs : Fine(r, job, row)
      BY <1>2, <3>1 DEF Earned
    <3> QED BY <3>1, <3>2, HonestParts
  <2> QED BY <2>1, <2>2
<1> HIDE DEF q
<1>5. new \in Processes /\ new.pc = "started" /\ new.run = started + 1 /\ new.n = q.n
      /\ new.runs = q.runs \cup {started + 1} /\ new.allOk = q.allOk
  BY <1>2 DEF Processes
<1> HIDE DEF new
<1>6. started + 1 \notin q.runs /\ q.runs \subseteq 1..started /\ started \in Nat
  BY <1>4, HonestParts
<1>7. Cardinality(new.runs) = new.n
  <2>1. Cardinality(new.runs) = Cardinality(q.runs) + 1
    <3>1. IsFiniteSet(q.runs) /\ started + 1 \notin q.runs
      BY <1>4, <1>6
    <3>2. Cardinality(q.runs \cup {started + 1}) = Cardinality(q.runs) + 1
      BY <3>1, FS_AddElement
    <3>3. new.runs = q.runs \cup {started + 1}
      BY <1>5
    <3> QED BY <3>2, <3>3
  <2>2. Cardinality(q.runs) = q.n - 1 /\ q.n \in {1, 2} /\ new.n = q.n
    BY <1>4, <1>5
  <2> QED BY <2>1, <2>2
<1>8. ASSUME new.allOk, NEW r \in new.runs \ {new.run} PROVE Fine(r, job', row')
  <2>1. r \in q.runs /\ Fine(r, job, row)
    BY <1>4, <1>5, <1>8
  <2>2. job'[r] = job[r]
    BY <1>3, <1>6, <2>1
  <2> QED BY <2>1, <2>2 DEF Fine, RowsStay
<1>9. Earned(new, Owned[p], job', row')
  BY <1>5, <1>7, <1>8 DEF Earned
<1>10. new.runs \subseteq fetcher[p].runs \cup {started + 1} /\ new.runs \subseteq 1..started'
       /\ new.run \in new.runs
  BY <1>1, <1>4, <1>5, <1>6
<1> QED BY <1>1, <1>3, <1>5, <1>9, <1>10, HonestStep

\* The end of a fetch: if it was answered 2xx, its run is Fine.
LEMMA HonestSettle ==
    ASSUME HonestInv, IInv', NEW p \in Fetchers, RowsStay(row, row'), Settle(p)
    PROVE  HonestInv'
<1> DEFINE q == fetcher[p]
           end == [status |-> Outcome(q.ok, q.won), snap |-> Id(p)]
           allOk == q.allOk /\ q.ok
           new == IF q.n = 1 THEN [q EXCEPT !.pc = "between", !.n = 2, !.allOk = allOk]
                  ELSE Idle(IF allOk THEN "zero" ELSE "error", q.runs)
<1>1. q \in Processes /\ IInv /\ Earned(q, Owned[p], job, row) /\ job \in [Runs -> JobRows]
  BY HonestParts DEF IInv, TypeOK
<1>2. q.pc = "settling" /\ Busy(q) /\ Fetching(q) /\ HasBody(q)
  BY DEF Settle, At, Busy, Fetching, HasBody
<1>3. fetcher' = [fetcher EXCEPT ![p] = new] /\ job' = [job EXCEPT ![q.run] = end]
      /\ row' = row /\ started' = started
  BY DEF Settle, FinishedRun
<1>4. q.run \in Runs /\ Id(p) \in SnapshotIds /\ row[Id(p)] # None
  BY <1>1, <1>2, AtOk DEF ProcOk, Id, SnapshotIds
<1>5. job'[q.run] = end /\ \A r \in Runs \ {q.run} : job'[r] = job[r]
  BY <1>1, <1>3, <1>4
<1>6. q.run \in q.runs /\ q.runs \in SUBSET Runs /\ q.runs \subseteq 1..started
      /\ 1..started \subseteq Runs /\ allOk \in BOOLEAN /\ q.n \in {1, 2}
  BY <1>1, <1>2, HonestParts, FetchAssumption DEF Processes, Runs, IInv, TypeOK
<1>7. q.ok => Fine(q.run, job', row')
  BY <1>3, <1>4, <1>5 DEF Fine, Outcome
<1>8. Cardinality(q.runs) = q.n /\ (q.allOk => \A r \in q.runs \ {q.run} : Fine(r, job, row))
  BY <1>1, <1>2 DEF Earned
<1>9. allOk => \A r \in q.runs : Fine(r, job', row')
  <2> SUFFICES ASSUME allOk, NEW r \in q.runs PROVE Fine(r, job', row')
    OBVIOUS
  <2>1. CASE r = q.run
    BY <1>7, <2>1
  <2>2. CASE r # q.run
    BY <1>3, <1>5, <1>6, <1>8, <2>2 DEF Fine
  <2> QED BY <2>1, <2>2
<1>10. \A r \in 1..started : r \notin q.runs => job'[r] = job[r]
  BY <1>5, <1>6
<1>11. new \in Processes /\ ~Busy(new) /\ new.runs = q.runs /\ Earned(new, Owned[p], job', row')
  <2>1. CASE q.n = 1
    <3> DEFINE between == [q EXCEPT !.pc = "between", !.n = 2, !.allOk = allOk]
    <3>1. new = between
      BY <2>1
    <3>2. between \in Processes /\ between.pc = "between" /\ between.n = 2
          /\ between.runs = q.runs /\ between.allOk = allOk
      BY <1>1, <1>6 DEF Processes
    <3> HIDE DEF between, allOk
    <3>3. Earned(between, Owned[p], job', row')
      BY <1>8, <1>9, <2>1, <3>2 DEF Earned, Fetching, Busy
    <3> QED BY <3>1, <3>2, <3>3 DEF Busy
  <2>2. CASE q.n # 1
    <3> DEFINE e == IF allOk THEN "zero" ELSE "error"
               over == Idle(e, q.runs)
    <3>1. new = over /\ q.n = 2
      BY <1>6, <2>2
    <3>2. over.exit = e /\ e \in {"zero", "error"} /\ (e = "zero" => allOk)
      BY DEF Idle
    <3>3. over \in Processes /\ ~Busy(over) /\ over.pc = "idle" /\ over.runs = q.runs
      BY <1>6, IdleOk
    <3> HIDE DEF over, e, allOk
    <3>4. Earned(over, Owned[p], job', row')
      BY <1>8, <1>9, <3>1, <3>2, <3>3 DEF Earned, Fetching
    <3> QED BY <3>1, <3>3, <3>4
  <2> QED BY <2>1, <2>2
<1> HIDE DEF new
<1> QED BY <1>3, <1>6, <1>10, <1>11, HonestStep

LEMMA HonestStartProbes ==
    ASSUME HonestInv, IInv', NEW p \in Fetchers, RowsStay(row, row'), StartProbes(p)
    PROVE  HonestInv'
<1> DEFINE q == Idle("none", {})
           new == [q EXCEPT !.pc = "probe", !.left = Owned[p]]
<1>1. q \in Processes /\ q.runs = {}
  BY IdleOk
<1>2. fetcher' = [fetcher EXCEPT ![p] = new] /\ started' = started /\ job' = job
  BY DEF StartProbes
<1> HIDE DEF q
<1>3. new \in Processes /\ new.pc = "probe" /\ new.left = Owned[p] /\ new.runs = {}
  BY <1>1, HonestParts DEF Processes
<1> HIDE DEF new
<1>4. Cardinality(new.runs) = Cardinality(Owned[p] \ new.left)
  BY <1>3
<1>5. Earned(new, Owned[p], job', row') /\ ~Busy(new)
  BY <1>3, <1>4 DEF Earned, Fetching, Busy
<1> QED BY <1>2, <1>3, <1>5, HonestStep

LEMMA HonestUnchecked ==
    ASSUME HonestInv, IInv', NEW p \in Fetchers, RowsStay(row, row'), NEW s \in Sources,
           Unchecked(p, s)
    PROVE  HonestInv'
<1> DEFINE new == [fetcher[p] EXCEPT !.left = fetcher[p].left \ {s}, !.allOk = FALSE]
<1>1. fetcher[p] \in Processes /\ fetcher[p].pc = "probe" /\ fetcher[p].left \subseteq Owned[p]
  <2>1. fetcher[p].pc = "probe"
    BY DEF Unchecked, At
  <2> QED BY <2>1, HonestParts DEF Earned
<1>2. fetcher' = [fetcher EXCEPT ![p] = new] /\ started' = started /\ job' = job
  BY HonestParts DEF Unchecked
<1>3. new \in Processes /\ new.pc = "probe" /\ new.left \subseteq Owned[p]
      /\ new.runs = fetcher[p].runs /\ new.allOk = FALSE
  BY <1>1 DEF Processes
<1> HIDE DEF new
<1>4. Earned(new, Owned[p], job', row') /\ ~Busy(new)
  BY <1>3 DEF Earned, Fetching, Busy
<1> QED BY <1>2, <1>3, <1>4, HonestParts, HonestStep

LEMMA HonestProbe ==
    ASSUME HonestInv, IInv', NEW p \in Fetchers, RowsStay(row, row'), NEW s \in Sources,
           Probe(p, s)
    PROVE  HonestInv'
<1> DEFINE q == fetcher[p]
           own == Owned[p]
           new == [q EXCEPT !.pc = "probing", !.run = started + 1, !.left = q.left \ {s},
                            !.runs = q.runs \cup {started + 1}]
<1>1. /\ fetcher' = [fetcher EXCEPT ![p] = new] /\ started' = started + 1
      /\ job' = [job EXCEPT ![started + 1].status = "running"]
      /\ started < MaxRuns /\ q.pc = "probe" /\ s \in q.left
  BY DEF Probe, At
<1>2. q \in Processes /\ Earned(q, own, job, row) /\ started + 1 \in Runs
      /\ IsFiniteSet(q.runs) /\ IsFiniteSet(own) /\ started + 1 \notin q.runs
      /\ q.runs \subseteq 1..started /\ started \in Nat
  BY <1>1, HonestParts, FetchAssumption DEF Runs
<1>3. \A r \in q.runs : job'[r] = job[r]
  BY <1>1, <1>2, OthersStay
<1>4. q.left \subseteq own /\ (q.allOk => Cardinality(q.runs) = Cardinality(own \ q.left)
                                          /\ \A r \in q.runs : job[r].status = "succeeded")
  BY <1>1, <1>2 DEF Earned
<1> HIDE DEF q, own
<1>5. new \in Processes /\ new.pc = "probing" /\ new.run = started + 1
      /\ new.runs = q.runs \cup {started + 1} /\ new.left = q.left \ {s}
      /\ new.allOk = q.allOk
  BY <1>2 DEF Processes
<1> HIDE DEF new
<1>6. new.allOk => Cardinality(new.runs) = Cardinality(own \ new.left)
  <2> SUFFICES ASSUME new.allOk PROVE Cardinality(new.runs) = Cardinality(own \ new.left)
    OBVIOUS
  <2>1. Cardinality(new.runs) = Cardinality(q.runs) + 1
    <3>1. IsFiniteSet(q.runs) /\ started + 1 \notin q.runs
      BY <1>2
    <3>2. Cardinality(q.runs \cup {started + 1}) = Cardinality(q.runs) + 1
      BY <3>1, FS_AddElement
    <3>3. new.runs = q.runs \cup {started + 1}
      BY <1>5
    <3> QED BY <3>2, <3>3
  <2>2. own \ new.left = (own \ q.left) \cup {s} /\ s \notin own \ q.left
    BY <1>1, <1>4, <1>5
  <2>3. IsFiniteSet(own \ q.left)
    BY <1>2, FS_Difference
  <2>4. Cardinality(own \ new.left) = Cardinality(own \ q.left) + 1
    BY <2>2, <2>3, FS_AddElement
  <2> QED BY <1>4, <1>5, <2>1, <2>4
<1>7. new.allOk => \A r \in new.runs : r = new.run \/ job'[r].status = "succeeded"
  BY <1>3, <1>4, <1>5
<1>8. Earned(new, own, job', row') /\ new.left \subseteq own
  BY <1>4, <1>5, <1>6, <1>7 DEF Earned, Fetching
<1>9. new.runs \subseteq q.runs \cup {started + 1} /\ new.runs \subseteq 1..started'
      /\ new.run \in new.runs
  BY <1>1, <1>2, <1>5
<1>10. \A r \in 1..started : job'[r] = job[r]
  BY <1>1, OthersStay
<1> QED BY <1>1, <1>5, <1>8, <1>9, <1>10, HonestStep DEF q, own

LEMMA HonestAnswered ==
    ASSUME HonestInv, IInv', NEW p \in Fetchers, RowsStay(row, row'), NEW good \in BOOLEAN,
           Answered(p, good)
    PROVE  HonestInv'
<1> DEFINE q == fetcher[p]
           end == [status |-> IF good THEN "succeeded" ELSE "failed", snap |-> None]
           new == [q EXCEPT !.pc = "probe", !.allOk = q.allOk /\ good]
<1>1. q.pc = "probing" /\ Busy(q) /\ job' = [job EXCEPT ![q.run] = end] /\ started' = started
  BY DEF Answered, FinishedRun, At, Busy
<1>2. fetcher' = [fetcher EXCEPT ![p] = new]
  BY HonestParts DEF Answered
<1>3. q \in Processes /\ Earned(q, Owned[p], job, row) /\ q.run \in q.runs
      /\ q.runs \subseteq 1..started /\ job \in [Runs -> JobRows] /\ 1..started \subseteq Runs
  BY <1>1, HonestParts, FetchAssumption DEF IInv, TypeOK, Runs
<1>4. q.left \subseteq Owned[p]
      /\ (q.allOk => /\ Cardinality(q.runs) = Cardinality(Owned[p] \ q.left)
                     /\ \A r \in q.runs : r = q.run \/ job[r].status = "succeeded")
  BY <1>1, <1>3 DEF Earned
<1>5. new \in Processes /\ new.pc = "probe" /\ new.left = q.left /\ new.runs = q.runs
      /\ (new.allOk => q.allOk /\ good)
  BY <1>3 DEF Processes
<1>6. job'[q.run] = end /\ \A r \in Runs \ {q.run} : job'[r] = job[r]
  BY <1>1, <1>3
<1>7. good => end.status = "succeeded"
  OBVIOUS
<1> HIDE DEF new, end, q
<1>8. new.allOk => \A r \in new.runs : job'[r].status = "succeeded"
  <2> SUFFICES ASSUME new.allOk, NEW r \in new.runs PROVE job'[r].status = "succeeded"
    OBVIOUS
  <2>1. CASE r = q.run
    BY <1>5, <1>6, <1>7, <2>1
  <2>2. CASE r # q.run
    <3>1. r \in q.runs /\ r \in Runs /\ q.allOk
      BY <1>3, <1>5
    <3> QED BY <1>4, <1>6, <2>2, <3>1
  <2> QED BY <2>1, <2>2
<1>9. Earned(new, Owned[p], job', row') /\ ~Busy(new)
  BY <1>4, <1>5, <1>8 DEF Earned, Fetching, Busy
<1>10. \A r \in 1..started : r \notin q.runs => job'[r] = job[r]
  BY <1>3, <1>6
<1> QED BY <1>1, <1>2, <1>3, <1>5, <1>9, <1>10, HonestStep DEF q

LEMMA HonestEndProbes ==
    ASSUME HonestInv, IInv', NEW p \in Fetchers, RowsStay(row, row'), EndProbes(p)
    PROVE  HonestInv'
<1> DEFINE q == fetcher[p]
           e == IF q.allOk /\ Owned[p] # {} THEN "alive" ELSE "error"
           new == Idle(e, q.runs)
<1>1. q.pc = "probe" /\ q.left = {} /\ fetcher' = [fetcher EXCEPT ![p] = new]
      /\ started' = started /\ job' = job
  BY DEF EndProbes, At
<1>2. q \in Processes /\ Earned(q, Owned[p], job, row) /\ q.runs \subseteq 1..started
      /\ q.runs \in SUBSET Runs
  BY HonestParts DEF Processes
<1>3. q.allOk => /\ Cardinality(q.runs) = Cardinality(Owned[p])
                 /\ \A r \in q.runs : job[r].status = "succeeded"
  <2>1. Owned[p] \ q.left = Owned[p]
    BY <1>1
  <2> QED BY <1>1, <1>2, <2>1 DEF Earned
<1>4. new \in Processes /\ ~Busy(new) /\ new.pc = "idle" /\ new.runs = q.runs
  BY <1>2, IdleOk
<1>5. new.exit = e /\ e \in {"alive", "error"} /\ (e = "alive" => q.allOk /\ Owned[p] # {})
  BY DEF Idle
<1> HIDE DEF new, e, q
<1>6. Earned(new, Owned[p], job', row')
  BY <1>1, <1>3, <1>4, <1>5 DEF Earned, Fetching
<1> QED BY <1>1, <1>2, <1>4, <1>6, HonestStep DEF q

LEMMA HonestNext == ASSUME HonestInv, [Next]_vars PROVE HonestInv'
<1>1. IInv /\ IInv'
  BY StepOk DEF HonestInv
<1>2. RowsStay(row, row')
  BY <1>1, RowsKept DEF RowsStay
<1>3. CASE UNCHANGED vars
  BY <1>1, <1>3 DEF vars, HonestInv, OwnRuns, AllEarned
<1>4. ASSUME NEW p \in Fetchers, Start(p) \/ StartProbes(p) \/ Raise(p) \/ Crash(p)
      PROVE  HonestInv'
  BY <1>1, <1>2, <1>4, HonestStart, HonestStartProbes, HonestRaise, HonestError
<1>5. ASSUME NEW p \in Fetchers, Proceed(p) PROVE HonestInv'
  <2>1. CASE Open(p) \/ Look(p) \/ Upload(p) \/ Verify(p) \/ Insert(p)
    BY <1>1, <1>2, <2>1, HonestWithin
  <2>2. CASE \E b \in Bodies, ok \in BOOLEAN : Receive(p, b, ok)
    BY <1>1, <1>2, <2>2, HonestReceive
  <2>3. CASE Settle(p) \/ Fail(p) \/ EndProbes(p)
    BY <1>1, <1>2, <2>3, HonestSettle, HonestError, HonestEndProbes
  <2>4. CASE \E s \in Sources : Unchecked(p, s) \/ Probe(p, s)
    BY <1>1, <1>2, <2>4, HonestUnchecked, HonestProbe
  <2>5. CASE \E good \in BOOLEAN : Answered(p, good)
    BY <1>1, <1>2, <2>5, HonestAnswered
  <2> QED BY <1>5, <2>1, <2>2, <2>3, <2>4, <2>5 DEF Proceed
<1> QED BY <1>3, <1>4, <1>5 DEF Next

LEMMA HonestInit == Init => HonestInv
<1> SUFFICES ASSUME Init PROVE HonestInv
  OBVIOUS
<1>1. IInv /\ \A p \in Fetchers : fetcher[p] = Idle("none", {})
  BY InitOk DEF Init
<1> DEFINE q == Idle("none", {})
<1>2. ~Busy(q) /\ q.pc = "idle" /\ q.runs = {} /\ q.exit = "none"
  BY IdleOk DEF Idle
<1> HIDE DEF q
<1>3. \A p \in Fetchers : Earned(q, Owned[p], job, row)
  BY <1>2 DEF Earned, Fetching
<1>4. OwnRuns
  BY <1>1, <1>2 DEF OwnRuns, q
<1> QED BY <1>1, <1>3, <1>4 DEF HonestInv, AllEarned, q

\* phase_b exits with 0 only if both of its runs were answered 2xx and settled on a
\* recorded snapshot, and check_liveness.py only if every source it owes a probe was
\* probed and answered well and there is one: whatever other processes do between the
\* runs of an execution, and however often a process was killed or run before.
THEOREM ExitIsHonestHolds == Spec => []ExitIsHonest
<1>1. HonestInv => ExitIsHonest
  <2> SUFFICES ASSUME HonestInv, NEW p \in Fetchers, fetcher[p].pc = "idle"
               PROVE  /\ fetcher[p].exit = "zero" =>
                            /\ Cardinality(fetcher[p].runs) = 2
                            /\ \A r \in fetcher[p].runs :
                                  /\ job[r].status \in {"succeeded", "skipped_unchanged"}
                                  /\ Exists(job[r].snap)
                      /\ fetcher[p].exit = "alive" =>
                            /\ Owned[p] # {}
                            /\ Cardinality(fetcher[p].runs) = Cardinality(Owned[p])
                            /\ \A r \in fetcher[p].runs : job[r].status = "succeeded"
    BY DEF ExitIsHonest
  <2>1. Earned(fetcher[p], Owned[p], job, row)
    BY HonestParts
  <2> QED BY <2>1 DEF Earned, Fine, Exists
<1> QED BY <1>1, HonestInit, HonestNext, PTL DEF Spec
=============================================================================
