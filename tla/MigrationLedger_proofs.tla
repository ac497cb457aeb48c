---------------------- MODULE MigrationLedger_proofs ----------------------
(***************************************************************************)
(* Proofs about MigrationLedger: the guard lets no connection to another   *)
(* machine pass without the override when the URL names one host, the      *)
(* ledger is true after every commit as far as a schema-only dump can      *)
(* tell, and a verification passes no database that shows unrecorded DDL,  *)
(* for any number of files, of commands at the same time and of crashes.   *)
(*                                                                         *)
(* LedgerTrue is not inductive: a row that migrate_baseline.py writes is   *)
(* true because of what the command compared several commits earlier       *)
(* (JobOk follows it from its reference database to its last row), and a   *)
(* row stays no truer than it was because contents only go forward         *)
(* (DiskInv).                                                              *)
(***************************************************************************)
EXTENDS MigrationLedger, WellFoundedInduction, TLAPS

\* A set of files that is not empty has an earliest one.
LEMMA EarliestIn ==
    ASSUME NEW s \in SUBSET Files, s # {}
    PROVE  Earliest(s) \in s /\ \A g \in s : Earliest(s) <= g
<1>1. s \subseteq Nat
  BY LedgerAssumption
<1>2. PICK f \in s : \A g \in s : ~(<<g, f>> \in OpToRel(<, Nat))
  BY <1>1, NatLessThanWellFounded, WFMin
<1>3. \A g \in s : f <= g
  <2> TAKE g \in s
  <2>1. f \in Nat /\ g \in Nat
    BY <1>1
  <2>2. ~(g < f)
    BY <1>2, <2>1 DEF OpToRel
  <2> QED BY <2>1, <2>2
<1> QED BY <1>2, <1>3 DEF Earliest

(***************************************************************************)
(* The guard.                                                              *)
(***************************************************************************)

\* A URL that names one host and that refuse_remote() lets pass without the override
\* leads to this machine only, wherever libpq reads its host.
THEOREM GuardSound ==
    ASSUME NEW u \in Urls, ~Refused(u, FALSE), NamesOneHost(u)
    PROVE  LibpqHosts(u) \cup AdminHosts(u) \subseteq {"socket", "local"}
<1>1. u.form = "uri" /\ ~u.extra /\ ~u.odd
  <2>1. IsLocal(u)
    BY DEF Refused
  <2> QED BY <2>1 DEF IsLocal, ResolvedHost, Unknown, NamesOneHost
<1>2. ResolvedHost(u) \in {"socket", "local"}
  BY DEF Refused, IsLocal
<1>3. LibpqHosts(u) \subseteq {ResolvedHost(u), "socket"}
  <2>1. CASE u.last = "blank"
    BY <1>1, <2>1 DEF LibpqHosts
  <2>2. CASE u.last # "blank"
    <3>1. u.last = u.first
      BY <2>2 DEF NamesOneHost
    <3> QED BY <1>1, <2>2, <3>1 DEF LibpqHosts, ResolvedHost
  <2> QED BY <2>1, <2>2
<1> QED BY <1>2, <1>3 DEF AdminHosts

LEMMA RemoteNeedsOverride ==
    ASSUME NEW c \in Connections, c.to = "remote"
    PROVE  c.override \/ ~c.oneHost
<1>1. PICK u \in Urls : /\ ~Refused(u, c.override)
                       /\ c.to \in LibpqHosts(u) \cup AdminHosts(u)
                       /\ c.oneHost = NamesOneHost(u)
  BY DEF Connections
<1>2. c.override \in BOOLEAN
  BY DEF Connections
<1>3. CASE c.override = FALSE /\ NamesOneHost(u)
  <2>1. ~Refused(u, FALSE)
    BY <1>1, <1>3
  <2> QED BY <1>1, <1>3, <2>1, GuardSound
<1> QED BY <1>1, <1>2, <1>3

(***************************************************************************)
(* The inductive invariant.                                                *)
(***************************************************************************)

\* File f has run in the database lv, or no dump of lv can show whether it has.
Adoptable(f, lv) ==
    \/ lv.ran[f] # 0 \/ f \in DataOnly
    \/ \E g \in Files : f < g /\ Object[g] = Object[f] /\ lv.ran[g] # 0

\* Of each object that a file of db created, a file as late as that one is in force.
InOrder(db) ==
    \A f \in Files : db.ran[f] # 0 =>
        \E g \in db.top : f <= g /\ Object[g] = Object[f] /\ db.ran[g] # 0

\* The files of `todo` that are still to be run in db come after those that ran.
BuiltUpTo(db, todo) ==
    \A f \in todo, g \in Files : db.ran[f] = 0 /\ db.ran[g] # 0 =>
        f = LedgerFile \/ g = LedgerFile \/ g < f

\* What command j of terminal q knows of reference databases rd and database lv:
\* while a baseline works, its reference is built in order and, in the end, whole
\* (nobody else may drop it); what it dumped is still there; what it is about to
\* record has run here or left no trace.
JobOk(j, q, rd, lv) ==
    /\ j.kind = "baseline" => q \in Baseliners
    /\ j.pc \in {"create", "build"} => j.kind \in {"baseline", "verify"}
    /\ j.pc = "build" => rd[j.kind] \in Databases
    /\ j.pc = "build" \/ (j.pc = "create" /\ j.kind = "verify") => LedgerFile \in j.todo
    /\ j.kind = "baseline" /\ j.pc \in {"look", "dump", "compare"} =>
          rd[j.kind] \in Databases
    /\ j.kind = "baseline" /\ j.pc = "look" => \A f \in Files : rd[j.kind].ran[f] = 0
    /\ j.kind = "baseline" /\ j.pc = "build" => BuiltUpTo(rd[j.kind], j.todo)
    /\ j.kind = "baseline" /\ j.pc \in {"build", "dump", "compare"} => InOrder(rd[j.kind])
    /\ j.kind = "baseline" /\ j.pc \in {"dump", "compare"} =>
          \A f \in j.todo : rd[j.kind].ran[f] # 0
    /\ \A f \in Files : j.dump[f] # 0 => lv.ran[f] # 0
    /\ j.pc = "apply" => j.todo # {}
    /\ j.pc = "adopt" => \A f \in j.todo \ {LedgerFile} : Adoptable(f, lv)
    /\ j.pc = "adoptRows" => j.todo # {} /\ \A f \in j.todo : Adoptable(f, lv)
    /\ j.pc = "away" => j.override \/ ~j.oneHost

JobsOk == \A r \in Runs : JobOk(job[r], r, refdb, live)

IInv == TypeOK /\ LedgerTrue /\ JobsOk

\* The directory only grows, and edits only go forward: a row and a digest are never
\* newer than the file, and what a reference is built from is there.
DiskInv ==
    /\ disk[LedgerFile] # 0
    /\ \A f \in Files : recorded[f] <= disk[f]
    /\ \A r \in Runs : job[r].pc \in {"create", "build"} =>
          \A f \in job[r].todo : disk[f] # 0
    /\ \A r \in Runs : job[r].digest # 0 => job[r].digest <= disk[NextFile(r)]

\* What ran stays.
Grows(lv, lv2) == \A f \in Files : lv.ran[f] # 0 => lv2.ran[f] # 0

\* The reference database that command j relies on is left alone.
Kept(j, rd, rd2) ==
    j.pc = "build" \/ (j.kind = "baseline" /\ j.pc \in {"look", "dump", "compare"})
        => rd2[j.kind] = rd[j.kind]

\* A reference database has a type, and the ledger's table before any other file.
LedgerFirst(db) == \A f \in Files : db.ran[f] # 0 => db.ran[LedgerFile] # 0

RefdbType ==
    /\ refdb \in [{"baseline", "verify"} -> Databases \cup {NoDb}]
    /\ \A k \in {"baseline", "verify"} : refdb[k] # NoDb => LedgerFirst(refdb[k])

JobType == job \in [Runs -> Jobs]

LEMMA TypeParts ==
    TypeOK => RefdbType /\ JobType /\ live.ran \in Schemas /\ live.top \subseteq Files
BY DEF TypeOK, RefdbType, JobType, LedgerFirst, Databases

\* A database is not the absence of one.
LEMMA DbIsDb == \A db \in Databases : db # NoDb
<1> SUFFICES ASSUME NEW db \in Databases, db = NoDb PROVE FALSE
  OBVIOUS
<1>1. db.ran \in [Files -> Contents] /\ LedgerFile \in Files
  BY LedgerAssumption DEF Databases, Schemas
<1>2. db.ran = <<>>
  BY DEF NoDb
<1>3. DOMAIN <<>> = {}
  OBVIOUS
<1> QED BY <1>1, <1>2, <1>3

LEMMA RunFileType ==
    ASSUME NEW db \in Databases, NEW f \in Files, NEW c \in Contents,
           NEW db2, db2 = RunFile(db, f, c)
    PROVE  /\ db2 \in Databases
           /\ db2.ran[f] = c /\ \A g \in Files \ {f} : db2.ran[g] = db.ran[g]
           /\ db2.top = {f} \cup {g \in db.top : Object[g] # Object[f]}
BY DEF RunFile, Databases, Schemas

LEMMA DumpType ==
    ASSUME NEW db \in Databases
    PROVE  /\ Dump(db) \in Schemas
           /\ \A f \in Files : Dump(db)[f] # 0 => db.ran[f] # 0
           /\ \A f \in db.top \ (DataOnly \cup {LedgerFile}) : Dump(db)[f] = db.ran[f]
BY DEF Dump, Databases, Schemas, Contents

LEMMA EmptyType == Empty \in Schemas /\ EmptyDb \in Databases
BY DEF Empty, EmptyDb, Schemas, Databases, Contents

LEMMA IdleOk ==
    ASSUME NEW q, NEW rd, NEW lv
    PROVE  Idle \in Jobs /\ JobOk(Idle, q, rd, lv)
<1>1. Idle \in Jobs
  BY EmptyType DEF Idle, Jobs, Kinds, Contents
<1>2. \A f \in Files : Idle.dump[f] = 0
  BY DEF Idle, Empty
<1>3. Idle.kind = "migrate" /\ Idle.pc = "idle"
  BY DEF Idle
<1> QED BY <1>1, <1>2, <1>3 DEF JobOk

LEMMA AdoptableStays ==
    ASSUME NEW lv, NEW lv2, Grows(lv, lv2), NEW f \in Files, Adoptable(f, lv)
    PROVE  Adoptable(f, lv2)
BY DEF Grows, Adoptable

LEMMA Frame ==
    ASSUME NEW j \in Jobs, NEW q, NEW rd, NEW rd2, NEW lv, NEW lv2,
           JobOk(j, q, rd, lv), Grows(lv, lv2), Kept(j, rd, rd2)
    PROVE  JobOk(j, q, rd2, lv2)
<1>1. j.todo \subseteq Files
  BY DEF Jobs
<1>2. \A f \in Files : j.dump[f] # 0 => lv2.ran[f] # 0
  BY DEF JobOk, Grows
<1>3. j.pc = "adopt" => \A f \in j.todo \ {LedgerFile} : Adoptable(f, lv2)
  BY <1>1, AdoptableStays DEF JobOk
<1>4. j.pc = "adoptRows" => j.todo # {} /\ \A f \in j.todo : Adoptable(f, lv2)
  BY <1>1, AdoptableStays DEF JobOk
<1> QED BY <1>2, <1>3, <1>4 DEF JobOk, Kept

(***************************************************************************)
(* The three ways in which a step changes the commands.                    *)
(***************************************************************************)

\* The command ends and the reference databases stay.
LEMMA EndKeeps ==
    ASSUME TypeOK, JobsOk, NEW r \in Runs, End(r), UNCHANGED refdb,
           Grows(live, live')
    PROVE  job' \in [Runs -> Jobs] /\ JobsOk'
<1>1. Idle \in Jobs /\ JobOk(Idle, r, refdb', live')
  BY IdleOk
<1>2. job' \in [Runs -> Jobs] /\ job'[r] = Idle
  BY <1>1 DEF End, TypeOK
<1>3. ASSUME NEW q \in Runs, q # r PROVE JobOk(job'[q], q, refdb', live')
  <2>1. job'[q] = job[q] /\ job[q] \in Jobs
    BY <1>3 DEF End, TypeOK
  <2>2. JobOk(job[q], q, refdb, live) /\ Kept(job[q], refdb, refdb')
    BY DEF JobsOk, Kept
  <2> QED BY <2>1, <2>2, Frame
<1> QED BY <1>1, <1>2, <1>3 DEF JobsOk

\* The command ends and its reference database is dropped.
LEMMA DropKeeps ==
    ASSUME TypeOK, JobsOk, NEW r \in Runs, EndAndDrop(r), Grows(live, live')
    PROVE  /\ job' \in [Runs -> Jobs] /\ JobsOk'
           /\ RefdbType'
<1> DEFINE k == job[r].kind
<1>1. \A q : Idle \in Jobs /\ JobOk(Idle, q, refdb', live')
  BY IdleOk
<1>2. job' = [q \in Runs |-> IF q = r \/ (job[q].kind = k /\ job[q].pc = "build")
                             THEN Idle ELSE job[q]]
  BY DEF EndAndDrop
<1>3. refdb' = [refdb EXCEPT ![k] = NoDb]
  BY DEF EndAndDrop
<1> HIDE DEF k
<1>4. job' \in [Runs -> Jobs]
  BY <1>1, <1>2 DEF TypeOK
<1>5. RefdbType'
  BY <1>3, TypeParts DEF RefdbType
<1>6. ASSUME NEW q \in Runs PROVE JobOk(job'[q], q, refdb', live')
  <2>1. CASE q = r \/ (job[q].kind = k /\ job[q].pc = "build")
    BY <1>1, <1>2, <2>1
  <2>2. CASE q # r /\ ~(job[q].kind = k /\ job[q].pc = "build")
    <3>1. job'[q] = job[q] /\ job[q] \in Jobs
      BY <1>2, <2>2 DEF TypeOK
    <3>2. JobOk(job[q], q, refdb, live) /\ JobOk(job[r], r, refdb, live)
      BY DEF JobsOk
    <3>3. ~(job[q].kind = "baseline" /\ k = "baseline")
      BY <2>2, <3>2, LedgerAssumption DEF JobOk, k
    <3>4. Kept(job[q], refdb, refdb')
      <4>1. CASE job[q].kind # k
        BY <4>1, <1>3 DEF Kept, TypeOK
      <4>2. CASE job[q].kind = k
        BY <4>2, <2>2, <3>3 DEF Kept
      <4> QED BY <4>1, <4>2
    <3> QED BY <3>1, <3>2, <3>4, Frame
  <2> QED BY <2>1, <2>2
<1> QED BY <1>4, <1>5, <1>6 DEF JobsOk

\* The command goes on.
LEMMA GotoFields ==
    ASSUME TypeOK, NEW r \in Runs, NEW pc, NEW todo \in SUBSET Files, Goto(r, pc, todo),
           [job[r] EXCEPT !.pc = pc] \in Jobs
    PROVE  /\ job' \in [Runs -> Jobs]
           /\ \A q \in Runs \ {r} : job'[q] = job[q]
           /\ job'[r].pc = pc /\ job'[r].todo = todo /\ job'[r].kind = job[r].kind
           /\ job'[r].dump = job[r].dump /\ job'[r].digest = 0
<1>1. job[r] \in Jobs
  BY DEF TypeOK
<1>2. job' = [job EXCEPT ![r] = [job[r] EXCEPT !.pc = pc, !.todo = todo, !.digest = 0]]
  BY DEF Goto, TypeOK
<1>3. [job[r] EXCEPT !.pc = pc, !.todo = todo, !.digest = 0] \in Jobs
  <2>1. 0 \in Contents
    BY DEF Contents
  <2>2. [[job[r] EXCEPT !.pc = pc] EXCEPT !.todo = todo, !.digest = 0] \in Jobs
    BY <2>1 DEF Jobs
  <2> QED BY <1>1, <2>2 DEF Jobs
<1>4. job'[r] = [job[r] EXCEPT !.pc = pc, !.todo = todo, !.digest = 0]
  BY <1>2 DEF TypeOK
<1> QED BY <1>1, <1>2, <1>3, <1>4 DEF TypeOK, Jobs

LEMMA GotoKeeps ==
    ASSUME TypeOK, JobsOk, NEW r \in Runs,
           job' \in [Runs -> Jobs], \A q \in Runs \ {r} : job'[q] = job[q],
           \A q \in Runs \ {r} : Kept(job[q], refdb, refdb'),
           Grows(live, live'), JobOk(job'[r], r, refdb', live')
    PROVE  JobsOk'
<1>1. ASSUME NEW q \in Runs, q # r PROVE JobOk(job'[q], q, refdb', live')
  <2>1. job'[q] = job[q] /\ job[q] \in Jobs /\ Kept(job[q], refdb, refdb')
    BY <1>1 DEF TypeOK
  <2>2. JobOk(job[q], q, refdb, live)
    BY DEF JobsOk
  <2> QED BY <2>1, <2>2, Frame
<1> QED BY <1>1 DEF JobsOk

(***************************************************************************)
(* What a step does to the tables.                                         *)
(***************************************************************************)

LEMMA Quiet ==
    ASSUME TypeOK, LedgerTrue, UNCHANGED <<disk, live, recorded, baselined, hand, faults>>,
           RefdbType', JobType'
    PROVE  TypeOK' /\ LedgerTrue'
BY DEF TypeOK, LedgerTrue, RefdbType, JobType, LedgerFirst, Traceless

LEMMA QuietGrows ==
    ASSUME live' = live PROVE Grows(live, live')
BY DEF Grows

\* The ledger, file by file.
RowTrue(f) ==
    /\ recorded[f] # 0 =>
          /\ live.ran[f] # 0 \/ (f \in baselined /\ Traceless(f))
          /\ recorded[f] = live.ran[f] \/ f \in baselined \/ recorded[f] # disk[f]
    /\ live.ran[f] # 0 /\ recorded[f] = 0 => f \in hand

LEMMA LedgerByRow == LedgerTrue <=> \A f \in Files : RowTrue(f)
BY DEF LedgerTrue, RowTrue

LEMMA TracelessStays ==
    ASSUME Grows(live, live'), NEW f \in Files, Traceless(f) PROVE Traceless(f)'
BY DEF Grows, Traceless

LEMMA ApplyOneGrows ==
    ASSUME TypeOK, DiskInv, NEW f \in Files, NEW d, ApplyOne(f, d), disk[f] # 0
    PROVE  Grows(live, live')
<1>1. live \in Databases /\ disk[f] \in Contents
  BY DEF TypeOK, Schemas
<1>2. live'.ran[f] = disk[f] /\ \A g \in Files \ {f} : live'.ran[g] = live.ran[g]
  <2> DEFINE c == disk[f]
  <2>1. live' = RunFile(live, f, c) /\ c \in Contents
    BY <1>1 DEF ApplyOne
  <2> HIDE DEF c
  <2>2. live'.ran[f] = c /\ \A g \in Files \ {f} : live'.ran[g] = live.ran[g]
    BY <1>1, <2>1, RunFileType
  <2> QED BY <2>2 DEF c
<1> QED BY <1>2 DEF Grows

LEMMA ApplyOneKeeps ==
    ASSUME TypeOK, LedgerTrue, DiskInv, NEW f \in Files, NEW d \in Contents \ {0},
           d <= disk[f], ApplyOne(f, d),
           UNCHANGED <<disk, baselined, hand, faults>>, RefdbType', JobType'
    PROVE  TypeOK' /\ LedgerTrue' /\ Grows(live, live')
<1>1. live \in Databases /\ recorded \in Schemas /\ disk[f] \in Contents
  BY DEF TypeOK, Schemas
<1>2. live' = RunFile(live, f, disk[f]) /\ recorded' = [recorded EXCEPT ![f] = d]
  BY DEF ApplyOne
<1>3. live' \in Databases /\ live'.ran[f] = disk[f]
      /\ \A g \in Files \ {f} : live'.ran[g] = live.ran[g]
  <2> DEFINE c == disk[f]
  <2>1. live' = RunFile(live, f, c) /\ c \in Contents
    BY <1>1, <1>2
  <2> HIDE DEF c
  <2>2. live \in Databases
    BY <1>1
  <2>3. live' \in Databases /\ live'.ran[f] = c
        /\ \A g \in Files \ {f} : live'.ran[g] = live.ran[g]
    BY ONLY <2>1, <2>2, f \in Files, RunFileType
  <2> QED BY <2>3 DEF c
<1>4. recorded' \in Schemas /\ recorded'[f] = d
      /\ \A g \in Files \ {f} : recorded'[g] = recorded[g]
  BY <1>1, <1>2 DEF Schemas
<1>5. disk[f] # 0
  BY <1>1 DEF Contents
<1>6. Grows(live, live')
  BY <1>3, <1>5 DEF Grows
<1>7. ASSUME NEW g \in Files PROVE RowTrue(g)'
  <2>1. CASE g = f
    BY <1>3, <1>4, <1>5, <2>1 DEF RowTrue
  <2>2. CASE g # f
    BY <1>3, <1>4, <1>6, <2>2, LedgerByRow, TracelessStays DEF RowTrue
  <2> QED BY <2>1, <2>2
<1>8. LedgerTrue'
  BY <1>7 DEF LedgerTrue, RowTrue
<1>9. TypeOK'
  BY <1>3, <1>4 DEF TypeOK, RefdbType, JobType, LedgerFirst
<1> QED BY <1>6, <1>8, <1>9

\* Steps that leave the tables and the reference databases alone, and start, end or
\* continue command r.
LEMMA QuietEnd ==
    ASSUME IInv, NEW r \in Runs, End(r),
           UNCHANGED <<disk, live, recorded, baselined, hand, refdb, faults>>
    PROVE  IInv'
<1>1. TypeOK /\ LedgerTrue /\ JobsOk
  BY DEF IInv
<1>2. Grows(live, live')
  BY QuietGrows
<1>3. JobType' /\ JobsOk'
  BY <1>1, <1>2, EndKeeps DEF JobType
<1>4. RefdbType'
  BY <1>1, TypeParts DEF RefdbType, LedgerFirst
<1>5. TypeOK' /\ LedgerTrue'
  BY <1>1, <1>3, <1>4, Quiet
<1> QED BY <1>3, <1>5 DEF IInv

LEMMA QuietDrop ==
    ASSUME IInv, NEW r \in Runs, EndAndDrop(r),
           UNCHANGED <<disk, live, recorded, baselined, hand, faults>>
    PROVE  IInv'
<1>1. TypeOK /\ LedgerTrue /\ JobsOk
  BY DEF IInv
<1>2. Grows(live, live')
  BY QuietGrows
<1>3. JobType' /\ JobsOk' /\ RefdbType'
  BY <1>1, <1>2, DropKeeps DEF JobType
<1>4. TypeOK' /\ LedgerTrue'
  BY <1>1, <1>3, Quiet
<1> QED BY <1>3, <1>4 DEF IInv

LEMMA QuietGoto ==
    ASSUME IInv, NEW r \in Runs, NEW pc, NEW todo \in SUBSET Files, Goto(r, pc, todo),
           [job[r] EXCEPT !.pc = pc] \in Jobs, RefdbType',
           \A q \in Runs \ {r} : Kept(job[q], refdb, refdb'),
           UNCHANGED <<disk, live, recorded, baselined, hand, faults>>,
           JobOk(job'[r], r, refdb', live')
    PROVE  IInv'
<1>1. TypeOK /\ LedgerTrue /\ JobsOk
  BY DEF IInv
<1>2. Grows(live, live')
  BY QuietGrows
<1>3. /\ job' \in [Runs -> Jobs]
      /\ \A q \in Runs \ {r} : job'[q] = job[q]
  BY <1>1, GotoFields
<1>4. JobsOk'
  BY <1>1, <1>2, <1>3, GotoKeeps
<1>5. TypeOK' /\ LedgerTrue'
  BY <1>1, <1>3, Quiet DEF JobType
<1> QED BY <1>4, <1>5 DEF IInv

(***************************************************************************)
(* The initial states and every action keep the invariant.                 *)
(***************************************************************************)

LEMMA InitOk == Init => IInv
<1> SUFFICES ASSUME Init PROVE IInv
  OBVIOUS
<1>1. \A q : Idle \in Jobs /\ JobOk(Idle, q, refdb, live)
  BY IdleOk
<1>2. job = [r \in Runs |-> Idle]
  BY DEF Init
<1>3. JobsOk
  BY <1>1, <1>2 DEF JobsOk
<1>4. disk \in Schemas /\ live \in Databases /\ recorded \in Schemas
  <2>1. hand \subseteq Files
    BY LedgerAssumption DEF Init
  <2>2. disk \in Schemas /\ [f \in Files |-> IF f \in hand THEN 1 ELSE 0] \in Schemas
    BY DEF Init, Schemas, Contents
  <2>3. {f \in hand : \A g \in hand : Object[g] = Object[f] => g <= f} \in SUBSET Files
    BY <2>1
  <2>4. live \in Databases
    BY <2>2, <2>3 DEF Init, Databases
  <2> QED BY <2>2, <2>4, EmptyType DEF Init
<1>5. refdb \in [{"baseline", "verify"} -> Databases \cup {NoDb}]
      /\ \A k \in {"baseline", "verify"} : refdb[k] = NoDb
  BY DEF Init
<1>6. baselined \subseteq Files /\ hand \subseteq Files \ {LedgerFile}
      /\ faults \in 0..MaxFaults
  BY LedgerAssumption DEF Init
<1>7. TypeOK
  BY <1>1, <1>2, <1>4, <1>5, <1>6 DEF TypeOK
<1>8. LedgerTrue
  BY DEF Init, LedgerTrue, Empty
<1> QED BY <1>3, <1>7, <1>8 DEF IInv

LEMMA InitDisk == Init => DiskInv
<1> SUFFICES ASSUME Init PROVE DiskInv
  OBVIOUS
<1>1. job = [r \in Runs |-> Idle] /\ Idle.pc = "idle" /\ Idle.digest = 0
  BY DEF Init, Idle
<1>2. disk[LedgerFile] = 1 /\ \A f \in Files : recorded[f] = 0 /\ disk[f] \in {0, 1}
  BY LedgerAssumption DEF Init, Empty
<1> QED BY <1>1, <1>2 DEF DiskInv

\* A reference database that does not change is of no concern to anybody.
LEMMA SameRefdb ==
    ASSUME TypeOK, UNCHANGED refdb
    PROVE  RefdbType' /\ \A q \in Runs : Kept(job[q], refdb, refdb')
BY DEF TypeOK, RefdbType, Kept, LedgerFirst

LEMMA StartOk ==
    ASSUME IInv, NEW r \in Runs, NEW k \in Kinds, Start(r, k)
    PROVE  IInv'
<1>1. TypeOK /\ LedgerTrue /\ JobsOk
  BY DEF IInv
<1>2. PICK c \in Connections : IF c.to = "remote" THEN StartAway(r, c) ELSE StartHere(r, k)
  BY DEF Start
<1>3. c.override \in BOOLEAN /\ c.oneHost \in BOOLEAN
  BY DEF Connections
<1>4. RefdbType' /\ (\A q \in Runs : Kept(job[q], refdb, refdb')) /\ Grows(live, live')
  BY <1>1, SameRefdb, QuietGrows DEF Start
<1>5. \A q : Idle \in Jobs /\ JobOk(Idle, q, refdb', live')
  BY IdleOk
<1> DEFINE j == job'[r]
<1>6. /\ job' \in [Runs -> Jobs]
      /\ \A q \in Runs \ {r} : job'[q] = job[q]
      /\ JobOk(j, r, refdb', live')
  <2>1. CASE c.to = "remote"
    <3> DEFINE new == [Idle EXCEPT !.pc = "away", !.override = c.override,
                                   !.oneHost = c.oneHost]
    <3>1. job' = [job EXCEPT ![r] = new]
      BY <1>2, <2>1 DEF StartAway
    <3>2. new \in Jobs
      BY <1>3, <1>5 DEF Jobs
    <3>3. c.override \/ ~c.oneHost
      BY <2>1, RemoteNeedsOverride
    <3>4. /\ new.pc = "away" /\ new.override = c.override /\ new.oneHost = c.oneHost
          /\ new.kind = Idle.kind /\ new.dump = Idle.dump
      BY DEF Idle
    <3> HIDE DEF new
    <3>5. job' \in [Runs -> Jobs] /\ j = new /\ \A q \in Runs \ {r} : job'[q] = job[q]
      BY <1>1, <3>1, <3>2 DEF TypeOK
    <3> HIDE DEF j
    <3>6. JobOk(j, r, refdb', live')
      BY <1>5, <3>3, <3>4, <3>5 DEF JobOk, Idle
    <3> QED BY <3>5, <3>6
  <2>2. CASE c.to # "remote"
    <3>1. /\ k = "baseline" => r \in Baseliners
          /\ job' = [job EXCEPT ![r] = [Idle EXCEPT !.kind = k, !.pc = FirstPc[k]]]
      BY <1>2, <2>2 DEF StartHere
    <3>2. FirstPc[k] \in {"look", "bootstrap", "create", "list"}
          /\ (FirstPc[k] = "create" => k = "baseline")
          /\ (k = "baseline" => FirstPc[k] = "create")
      BY DEF FirstPc, Kinds
    <3>3. [Idle EXCEPT !.kind = k, !.pc = FirstPc[k]] \in Jobs
      BY <1>5, <3>2 DEF Jobs
    <3>4. j.pc = FirstPc[k] /\ j.kind = k /\ j.dump = Idle.dump
      BY <1>1, <3>1 DEF TypeOK, Idle
    <3>5. job' \in [Runs -> Jobs] /\ \A q \in Runs \ {r} : job'[q] = job[q]
      BY <1>1, <3>1, <3>3 DEF TypeOK
    <3> HIDE DEF j
    <3>6. JobOk(j, r, refdb', live')
      BY <1>5, <3>1, <3>2, <3>4 DEF JobOk, Idle
    <3> QED BY <3>5, <3>6
  <2> QED BY <2>1, <2>2
<1>7. JobsOk'
  BY <1>1, <1>4, <1>6, GotoKeeps
<1>8. TypeOK' /\ LedgerTrue'
  BY <1>1, <1>4, <1>6, Quiet DEF JobType, Start
<1> QED BY <1>7, <1>8 DEF IInv

\* A command that goes to one of these places knows nothing new.
LEMMA PlainGoto ==
    ASSUME IInv, NEW r \in Runs,
           NEW pc \in {"bootstrap", "read", "apply", "report"},
           NEW todo \in SUBSET Files, Goto(r, pc, todo), pc = "apply" => todo # {},
           UNCHANGED <<disk, live, recorded, baselined, hand, refdb, faults>>
    PROVE  IInv'
<1>1. TypeOK /\ JobsOk /\ job[r] \in Jobs
  BY DEF IInv, TypeOK
<1>2. [job[r] EXCEPT !.pc = pc] \in Jobs
  BY <1>1 DEF Jobs
<1>3. job'[r].pc = pc /\ job'[r].kind = job[r].kind /\ job'[r].dump = job[r].dump
      /\ job'[r].todo = todo
  BY <1>1, <1>2, GotoFields
<1>4. JobOk(job[r], r, refdb, live)
  BY <1>1 DEF JobsOk
<1>5. JobOk(job'[r], r, refdb', live')
  BY <1>3, <1>4 DEF JobOk
<1>6. RefdbType' /\ \A q \in Runs : Kept(job[q], refdb, refdb')
  BY <1>1, SameRefdb
<1> QED BY <1>2, <1>5, <1>6, QuietGoto

\* DDL and row of one file are committed and the command ends or goes on.
LEMMA ApplyEnd ==
    ASSUME IInv, DiskInv, NEW r \in Runs, NEW f \in Files, NEW d \in Contents \ {0},
           d <= disk[f], ApplyOne(f, d), End(r),
           UNCHANGED <<disk, baselined, hand, refdb, faults>>
    PROVE  IInv'
<1>1. TypeOK /\ LedgerTrue /\ JobsOk
  BY DEF IInv
<1>2. Idle \in Jobs
  BY IdleOk
<1>3. RefdbType' /\ JobType'
  BY <1>1, <1>2, SameRefdb DEF JobType, End, TypeOK
<1>4. TypeOK' /\ LedgerTrue' /\ Grows(live, live')
  BY <1>1, <1>3, ApplyOneKeeps
<1>5. JobsOk'
  BY <1>1, <1>4, EndKeeps
<1> QED BY <1>4, <1>5 DEF IInv

LEMMA ApplyGoto ==
    ASSUME IInv, DiskInv, NEW r \in Runs, NEW f \in Files, NEW d \in Contents \ {0},
           d <= disk[f], ApplyOne(f, d), NEW pc \in {"read", "apply"},
           NEW todo \in SUBSET Files, Goto(r, pc, todo), pc = "apply" => todo # {},
           UNCHANGED <<disk, baselined, hand, refdb, faults>>
    PROVE  IInv'
<1>1. TypeOK /\ LedgerTrue /\ JobsOk /\ job[r] \in Jobs
  BY DEF IInv, TypeOK
<1>2. [job[r] EXCEPT !.pc = pc] \in Jobs
  BY <1>1 DEF Jobs
<1>3. /\ job' \in [Runs -> Jobs]
      /\ \A q \in Runs \ {r} : job'[q] = job[q]
      /\ job'[r].pc = pc /\ job'[r].kind = job[r].kind /\ job'[r].dump = job[r].dump
      /\ job'[r].todo = todo
  BY <1>1, <1>2, GotoFields
<1>4. RefdbType' /\ \A q \in Runs : Kept(job[q], refdb, refdb')
  BY <1>1, SameRefdb
<1>5. TypeOK' /\ LedgerTrue' /\ Grows(live, live')
  BY <1>1, <1>3, <1>4, ApplyOneKeeps DEF JobType
<1>6. JobOk(job[r], r, refdb, live)
  BY <1>1 DEF JobsOk
<1>7. JobOk(job'[r], r, refdb', live')
  BY <1>3, <1>5, <1>6 DEF JobOk, Grows
<1>8. JobsOk'
  BY <1>1, <1>3, <1>4, <1>5, <1>7, GotoKeeps
<1> QED BY <1>5, <1>8 DEF IInv

LEMMA RaiseOk ==
    ASSUME IInv, NEW r \in Runs, Raise(r), UNCHANGED <<disk, baselined, hand, faults>>
    PROVE  IInv'
<1>1. CASE job[r].kind = "baseline"
  <2>1. EndAndDrop(r) /\ UNCHANGED <<disk, live, recorded, baselined, hand, faults>>
    BY <1>1 DEF Raise
  <2> QED BY <2>1, QuietDrop
<1>2. CASE job[r].kind # "baseline"
  <2>1. End(r) /\ UNCHANGED <<disk, live, recorded, baselined, hand, refdb, faults>>
    BY <1>2 DEF Raise
  <2> QED BY <2>1, QuietEnd
<1> QED BY <1>1, <1>2

(***************************************************************************)
(* migrate.py and `make schema`.                                           *)
(***************************************************************************)

LEMMA FilesOfJob ==
    ASSUME IInv, NEW r \in Runs
    PROVE  job[r].todo \subseteq Files /\ AllMigrations \subseteq Files /\ {} \subseteq Files
BY DEF IInv, TypeOK, Jobs, AllMigrations

LEMMA LookMigrateOk ==
    ASSUME IInv, NEW r \in Runs, LookMigrate(r) PROVE IInv'
<1>1. CASE Goto(r, "read", {})
  BY <1>1, FilesOfJob, PlainGoto DEF LookMigrate
<1>2. CASE Goto(r, "bootstrap", {})
  BY <1>2, FilesOfJob, PlainGoto DEF LookMigrate
<1>3. CASE End(r)
  BY <1>3, QuietEnd DEF LookMigrate
<1> QED BY <1>1, <1>2, <1>3 DEF LookMigrate

\* The digest of a command that is about to run a file is no newer than the file.
LEMMA DigestOld ==
    ASSUME IInv, DiskInv, NEW r \in Runs, job[r].digest # 0
    PROVE  job[r].digest \in Contents \ {0} /\ job[r].digest <= disk[NextFile(r)]
BY DEF IInv, TypeOK, Jobs, DiskInv

LEMMA HashOk ==
    ASSUME IInv, NEW r \in Runs, Hash(r) PROVE IInv'
<1> DEFINE new == [job[r] EXCEPT !.digest = disk[NextFile(r)]]
<1>1. TypeOK /\ LedgerTrue /\ JobsOk /\ job[r] \in Jobs
  BY DEF IInv, TypeOK
<1>2. JobOk(job[r], r, refdb, live)
  BY <1>1 DEF JobsOk
<1>3. UNCHANGED <<disk, live, recorded, baselined, hand, refdb, faults>>
      /\ job' = [job EXCEPT ![r] = new]
  BY <1>1 DEF Hash, TypeOK
<1>4. NextFile(r) \in Files
  <2>1. job[r].pc = "apply" => job[r].todo # {} /\ job[r].todo \in SUBSET Files
    BY <1>1, <1>2 DEF JobOk, Jobs
  <2> QED BY <2>1, EarliestIn, LedgerAssumption DEF NextFile
<1>5. new \in Jobs
  BY <1>1, <1>4 DEF Jobs, TypeOK, Schemas
<1>6. /\ new.pc = job[r].pc /\ new.kind = job[r].kind /\ new.todo = job[r].todo
      /\ new.dump = job[r].dump /\ new.override = job[r].override
      /\ new.oneHost = job[r].oneHost
  BY <1>1 DEF Jobs
<1> HIDE DEF new
<1>7. job' \in [Runs -> Jobs] /\ job'[r] = new /\ \A q \in Runs \ {r} : job'[q] = job[q]
  BY <1>1, <1>3, <1>5 DEF TypeOK
<1>8. JobOk(new, r, refdb', live')
  BY <1>2, <1>3, <1>6 DEF JobOk
<1>9. RefdbType' /\ (\A q \in Runs : Kept(job[q], refdb, refdb')) /\ Grows(live, live')
  BY <1>1, <1>3, SameRefdb, QuietGrows
<1>10. JobsOk'
  BY <1>1, <1>7, <1>8, <1>9, GotoKeeps
<1>11. TypeOK' /\ LedgerTrue'
  BY <1>1, <1>3, <1>7, <1>9, Quiet DEF JobType
<1> QED BY <1>10, <1>11 DEF IInv

LEMMA BootstrapOk ==
    ASSUME IInv, DiskInv, NEW r \in Runs, Bootstrap(r) PROVE IInv'
<1>1. job[r].digest \in Contents \ {0} /\ job[r].digest <= disk[LedgerFile]
      /\ LedgerFile \in Files
  BY DigestOld, LedgerAssumption DEF Bootstrap, NextFile
<1>2. CASE ApplyOne(LedgerFile, job[r].digest) /\ Goto(r, "read", {}) /\ UNCHANGED refdb
  BY <1>1, <1>2, FilesOfJob, ApplyGoto DEF Bootstrap
<1>3. CASE Raise(r)
  BY <1>3, RaiseOk DEF Bootstrap
<1> QED BY <1>2, <1>3 DEF Bootstrap

LEMMA ReadOk ==
    ASSUME IInv, DiskInv, NEW r \in Runs, Read(r) PROVE IInv'
<1> DEFINE pending == {f \in AllMigrations : recorded[f] = 0}
<1>1. pending \subseteq Files /\ AllMigrations \ {LedgerFile} \subseteq Files
  BY FilesOfJob
<1>2. CASE End(r)
  BY <1>2, QuietEnd DEF Read
<1>3. CASE Goto(r, "apply", pending) /\ pending # {}
  <2> HIDE DEF pending
  <2> QED BY <1>1, <1>3, PlainGoto DEF Read
<1>4. CASE Goto(r, "apply", AllMigrations \ {LedgerFile}) /\ AllMigrations \ {LedgerFile} # {}
  BY <1>1, <1>4, PlainGoto DEF Read
<1>5. disk[LedgerFile] # 0 => LedgerFile \in AllMigrations
  BY LedgerAssumption DEF AllMigrations
<1> QED BY <1>2, <1>3, <1>4, <1>5 DEF Read, DiskInv

LEMMA ApplyOk ==
    ASSUME IInv, DiskInv, NEW r \in Runs, Apply(r) PROVE IInv'
<1> DEFINE f == Earliest(job[r].todo)
           rest == job[r].todo \ {f}
           d == job[r].digest
<1>1. rest \subseteq Files /\ job[r].pc = "apply"
  BY FilesOfJob DEF Apply
<1>2. UNCHANGED <<disk, baselined, hand, faults>>
  BY DEF Apply
<1>3. \/ /\ ApplyOne(f, d)
         /\ IF rest = {} THEN End(r) ELSE Goto(r, "apply", rest)
         /\ UNCHANGED refdb
      \/ Raise(r)
  BY DEF Apply
<1>4. job[r].todo # {} /\ job[r].todo \in SUBSET Files
  BY <1>1, FilesOfJob DEF IInv, JobsOk, JobOk
<1>5. d \in Contents \ {0} /\ d <= disk[f]
  BY <1>1, DigestOld DEF Apply, NextFile
<1>6. f \in Files
  BY <1>4, EarliestIn
<1> HIDE DEF f, rest, d
<1>7. CASE ApplyOne(f, d) /\ End(r) /\ UNCHANGED refdb
  BY <1>2, <1>5, <1>6, <1>7, ApplyEnd
<1>8. CASE ApplyOne(f, d) /\ Goto(r, "apply", rest) /\ rest # {} /\ UNCHANGED refdb
  BY <1>1, <1>2, <1>5, <1>6, <1>8, ApplyGoto
<1>9. CASE Raise(r)
  BY <1>2, <1>9, RaiseOk
<1> QED BY <1>3, <1>7, <1>8, <1>9

(***************************************************************************)
(* migrate_verify.py and migrate_baseline.py.                              *)
(***************************************************************************)

\* Command r replaces the reference database of its kind: nobody builds in it, and
\* no other command is a baseline.
LEMMA OthersKeep ==
    ASSUME IInv, NEW r \in Runs, NEW db \in Databases, LedgerFirst(db),
           refdb' = [refdb EXCEPT ![job[r].kind] = db],
           \A q \in Runs \ {r} : job[q].pc = "build" => job[q].kind # job[r].kind
    PROVE  RefdbType' /\ \A q \in Runs \ {r} : Kept(job[q], refdb, refdb')
<1> DEFINE k == job[r].kind
<1>1. RefdbType
  BY TypeParts DEF IInv
<1>2. JobOk(job[r], r, refdb, live)
  BY DEF IInv, JobsOk
<1>3. ASSUME NEW q \in Runs, q # r PROVE Kept(job[q], refdb, refdb')
  <2>1. JobOk(job[q], q, refdb, live)
    BY DEF IInv, JobsOk
  <2>2. ~(job[q].kind = "baseline" /\ k = "baseline")
    BY <1>2, <1>3, <2>1, LedgerAssumption DEF JobOk
  <2>3. CASE job[q].kind # k
    BY <1>1, <2>3 DEF Kept, RefdbType
  <2>4. CASE job[q].kind = k
    BY <1>3, <2>2, <2>4 DEF Kept
  <2> QED BY <2>3, <2>4
<1> QED BY <1>1, <1>3 DEF RefdbType

LEMMA LookVerifyOk ==
    ASSUME IInv, NEW r \in Runs, LookVerify(r) PROVE IInv'
<1>1. CASE End(r)
  BY <1>1, QuietEnd DEF LookVerify
<1>2. CASE Goto(r, "create", RecordedVersions)
  <2>1. TypeOK /\ JobsOk /\ job[r] \in Jobs /\ job[r].kind = "verify"
    BY DEF IInv, TypeOK, LookVerify
  <2>2. RecordedVersions \subseteq Files /\ [job[r] EXCEPT !.pc = "create"] \in Jobs
    BY <2>1 DEF Jobs, RecordedVersions
  <2>3. job'[r].pc = "create" /\ job'[r].kind = job[r].kind /\ job'[r].dump = job[r].dump
        /\ job'[r].todo = RecordedVersions
    BY <1>2, <2>1, <2>2, GotoFields
  <2>4. JobOk(job[r], r, refdb, live)
    BY <2>1 DEF JobsOk
  <2>7. LedgerFile \in RecordedVersions
    <3>1. live.ran[LedgerFile] # 0
      <4>1. job'[r].pc # "idle"
        BY <2>3
      <4>2. End(r) => job'[r].pc = "idle"
        BY <2>1 DEF End, Idle, TypeOK
      <4> QED BY <4>1, <4>2 DEF LookVerify, LedgerExists
    <3>2. LedgerFile \in Files \ hand
      BY <2>1, LedgerAssumption DEF TypeOK
    <3> QED BY <3>1, <3>2 DEF IInv, LedgerTrue, RecordedVersions
  <2>5. JobOk(job'[r], r, refdb', live')
    BY <2>1, <2>3, <2>4, <2>7 DEF JobOk, LookVerify
  <2>6. RefdbType' /\ \A q \in Runs : Kept(job[q], refdb, refdb')
    BY <2>1, SameRefdb DEF LookVerify
  <2> QED BY <1>2, <2>2, <2>5, <2>6, QuietGoto DEF LookVerify
<1> QED BY <1>1, <1>2 DEF LookVerify

LEMMA CreateOk ==
    ASSUME IInv, NEW r \in Runs, Create(r) PROVE IInv'
<1> DEFINE k == job[r].kind
<1>1. job[r].pc = "create" /\ UNCHANGED <<disk, live, recorded, baselined, hand, faults>>
  BY DEF Create
<1>2. CASE End(r) /\ UNCHANGED refdb
  BY <1>1, <1>2, QuietEnd
<1>3. CASE /\ ~InUse(k)
           /\ refdb' = [refdb EXCEPT ![k] = EmptyDb]
           /\ IF k = "baseline" THEN Goto(r, "look", {}) ELSE Goto(r, "build", job[r].todo)
  <2>1. TypeOK /\ JobsOk /\ job[r] \in Jobs
    BY DEF IInv, TypeOK
  <2>2. JobOk(job[r], r, refdb, live)
    BY <2>1 DEF JobsOk
  <2>3. RefdbType' /\ \A q \in Runs \ {r} : Kept(job[q], refdb, refdb')
    <3>1. LedgerFirst(EmptyDb)
      BY DEF LedgerFirst, EmptyDb, Empty
    <3> QED BY <1>3, <3>1, EmptyType, OthersKeep DEF InUse
  <2>4. k \in {"baseline", "verify"}
    BY <1>1, <2>2 DEF JobOk
  <2>5. refdb'[k] \in Databases /\ \A f \in Files : refdb'[k].ran[f] = 0
    BY <1>3, <2>1, <2>4, EmptyType DEF TypeOK, EmptyDb, Empty
  <2>6. [job[r] EXCEPT !.pc = "look"] \in Jobs /\ [job[r] EXCEPT !.pc = "build"] \in Jobs
    BY <2>1 DEF Jobs
  <2>7. CASE k = "baseline" /\ Goto(r, "look", {})
    <3>1. job'[r].pc = "look" /\ job'[r].kind = k /\ job'[r].dump = job[r].dump
      BY <2>1, <2>6, <2>7, FilesOfJob, GotoFields
    <3>2. JobOk(job'[r], r, refdb', live')
      BY <1>1, <2>2, <2>5, <3>1 DEF JobOk
    <3> QED BY <1>1, <2>3, <2>6, <2>7, <3>2, FilesOfJob, QuietGoto
  <2>8. CASE k # "baseline" /\ Goto(r, "build", job[r].todo)
    <3>1. job'[r].pc = "build" /\ job'[r].kind = k /\ job'[r].dump = job[r].dump
          /\ job'[r].todo = job[r].todo
      BY <2>1, <2>6, <2>8, FilesOfJob, GotoFields
    <3>2. JobOk(job'[r], r, refdb', live')
      BY <1>1, <2>2, <2>4, <2>5, <2>8, <3>1 DEF JobOk
    <3> QED BY <1>1, <2>3, <2>6, <2>8, <3>2, FilesOfJob, QuietGoto
  <2> QED BY <1>3, <2>7, <2>8
<1> QED BY <1>1, <1>2, <1>3 DEF Create

LEMMA LookBaselineOk ==
    ASSUME IInv, DiskInv, NEW r \in Runs, LookBaseline(r) PROVE IInv'
<1>1. CASE EndAndDrop(r)
  BY <1>1, QuietDrop DEF LookBaseline
<1>2. CASE Goto(r, "build", AllMigrations) /\ UNCHANGED refdb
  <2>1. TypeOK /\ JobsOk /\ job[r] \in Jobs /\ job[r].kind = "baseline" /\ job[r].pc = "look"
    BY DEF IInv, TypeOK, LookBaseline
  <2>2. [job[r] EXCEPT !.pc = "build"] \in Jobs
    BY <2>1 DEF Jobs
  <2>3. job'[r].pc = "build" /\ job'[r].kind = job[r].kind /\ job'[r].dump = job[r].dump
        /\ job'[r].todo = AllMigrations
    BY <1>2, <2>1, <2>2, FilesOfJob, GotoFields
  <2>4. JobOk(job[r], r, refdb, live)
    BY <2>1 DEF JobsOk
  <2> DEFINE db == refdb["baseline"]
  <2>7. db \in Databases /\ refdb'["baseline"] = db /\ InOrder(db) /\ BuiltUpTo(db, AllMigrations)
    BY <1>2, <2>1, <2>4 DEF JobOk, InOrder, BuiltUpTo
  <2>8. LedgerFile \in AllMigrations
    BY LedgerAssumption DEF DiskInv, AllMigrations
  <2> HIDE DEF db
  <2>5. JobOk(job'[r], r, refdb', live')
    BY <1>2, <2>1, <2>3, <2>4, <2>7, <2>8 DEF JobOk, LookBaseline
  <2>6. RefdbType' /\ \A q \in Runs : Kept(job[q], refdb, refdb')
    BY <1>2, <2>1, SameRefdb
  <2> QED BY <1>2, <2>2, <2>5, <2>6, FilesOfJob, QuietGoto DEF LookBaseline
<1> QED BY <1>1, <1>2 DEF LookBaseline

\* The next file of a list is in it, and it is the ledger's file or the earliest.
LEMMA NextInList ==
    ASSUME NEW s \in SUBSET Files, s # {}
    PROVE  /\ NextOfList(s) \in s
           /\ LedgerFile \in s => NextOfList(s) = LedgerFile
           /\ LedgerFile \notin s => \A h \in s : NextOfList(s) <= h
BY EarliestIn DEF NextOfList

\* Running the next file of the list keeps a reference database in order.
LEMMA RunInOrder ==
    ASSUME NEW db \in Databases, NEW todo \in SUBSET Files,
           NEW left, left = {f \in todo : db.ran[f] = 0}, left # {},
           NEW g, g = NextOfList(left), NEW c \in Contents \ {0},
           NEW db2, db2 = RunFile(db, g, c), InOrder(db), BuiltUpTo(db, todo)
    PROVE  InOrder(db2) /\ BuiltUpTo(db2, todo)
<1>1. g \in left /\ g \in todo /\ g \in Files /\ db.ran[g] = 0
      /\ (g = LedgerFile \/ \A h \in left : g <= h)
  BY NextInList
<1>2. c # 0 /\ db2.ran[g] = c /\ (\A h \in Files \ {g} : db2.ran[h] = db.ran[h])
      /\ db2.top = {g} \cup {h \in db.top : Object[h] # Object[g]}
  <2>1. g \in Files /\ c \in Contents /\ db2 = RunFile(db, g, c) /\ c # 0
    BY <1>1
  <2> QED BY ONLY <2>1, db \in Databases, RunFileType
<1>3. Files \subseteq Nat /\ db.top \subseteq Files
  BY LedgerAssumption DEF Databases
<1>4. ASSUME NEW f \in Files, db2.ran[f] # 0
      PROVE  \E h \in db2.top : f <= h /\ Object[h] = Object[f] /\ db2.ran[h] # 0
  <2> g \in db2.top /\ g \in Nat /\ f \in Nat /\ db2.ran[g] # 0
    BY <1>1, <1>2, <1>3
  <2>1. CASE f = g
    <3> g <= g
      OBVIOUS
    <3> QED BY <2>1
  <2>2. CASE f # g /\ Object[f] = Object[g]
    <3>1. db.ran[f] # 0
      BY <1>2, <1>4, <2>2
    <3>2. g # LedgerFile /\ f # LedgerFile
      BY <1>1, <2>2, ObjectAssumption, LedgerAssumption
    <3>3. f < g
      BY <1>1, <3>1, <3>2 DEF BuiltUpTo
    <3>4. f <= g
      BY <3>3
    <3> QED BY <2>2, <3>4
  <2>3. CASE Object[f] # Object[g]
    <3>1. db.ran[f] # 0
      BY <1>2, <1>4, <2>3
    <3>2. PICK h \in db.top : f <= h /\ Object[h] = Object[f] /\ db.ran[h] # 0
      BY <3>1 DEF InOrder
    <3> QED BY <1>2, <1>3, <2>3, <3>2
  <2> QED BY <2>1, <2>2, <2>3
<1>5. ASSUME NEW f \in todo, NEW h \in Files, db2.ran[f] = 0, db2.ran[h] # 0
      PROVE  f = LedgerFile \/ h = LedgerFile \/ h < f
  <2>1. f # g /\ f \in Files /\ db.ran[f] = 0 /\ f \in left
    BY <1>2, <1>5
  <2>2. CASE h = g
    BY <1>1, <1>3, <2>1, <2>2
  <2>3. CASE h # g
    BY <1>2, <1>5, <2>1, <2>3 DEF BuiltUpTo
  <2> QED BY <2>2, <2>3
<1> QED BY <1>4, <1>5 DEF InOrder, BuiltUpTo

LEMMA BuildOk ==
    ASSUME IInv, DiskInv, NEW r \in Runs, Build(r) PROVE IInv'
<1> DEFINE k == job[r].kind
           left == {f \in job[r].todo : refdb[k].ran[f] = 0}
           g == NextOfList(left)
           db == RunFile(refdb[k], g, disk[g])
<1>1. job[r].pc = "build" /\ UNCHANGED <<disk, live, recorded, baselined, hand, faults>>
  BY DEF Build
<1>2. \/ left # {} /\ refdb' = [refdb EXCEPT ![k] = db] /\ UNCHANGED job
      \/ EndAndDrop(r)
      \/ left = {} /\ Goto(r, "dump", job[r].todo) /\ UNCHANGED refdb
  BY DEF Build
<1>3. TypeOK /\ LedgerTrue /\ JobsOk /\ job[r] \in Jobs
  BY DEF IInv, TypeOK
<1>4. JobOk(job[r], r, refdb, live) /\ job[r].todo \in SUBSET Files
  BY <1>3, FilesOfJob DEF JobsOk
<1>5. k \in {"baseline", "verify"} /\ refdb[k] \in Databases /\ LedgerFile \in job[r].todo
  BY <1>1, <1>4 DEF JobOk
<1>6. CASE left # {} /\ refdb' = [refdb EXCEPT ![k] = db] /\ UNCHANGED job
  <2>1. g \in left /\ g \in Files /\ (LedgerFile \in left => g = LedgerFile)
    BY <1>4, <1>6, NextInList
  <2>2. disk[g] \in Contents \ {0}
    BY <1>1, <1>3, <2>1 DEF DiskInv, TypeOK, Schemas
  <2>3. db \in Databases /\ db.ran[g] = disk[g]
        /\ \A f \in Files \ {g} : db.ran[f] = refdb[k].ran[f]
    <3> DEFINE c == disk[g]
    <3>1. db = RunFile(refdb[k], g, c) /\ c \in Contents
      BY <2>2
    <3> HIDE DEF c, g, left, db
    <3>2. db \in Databases /\ db.ran[g] = c
          /\ \A f \in Files \ {g} : db.ran[f] = refdb[k].ran[f]
      BY ONLY <1>5, <2>1, <3>1, RunFileType
    <3> QED BY <3>2 DEF c
  <2>4. db.ran[LedgerFile] # 0
    <3>1. LedgerFile \in Files
      BY LedgerAssumption
    <3>2. refdb[k].ran[LedgerFile] = 0 => g = LedgerFile
      BY <1>5, <2>1
    <3> HIDE DEF g, left, db
    <3> QED BY <2>2, <2>3, <3>1, <3>2
  <2>5. k = "baseline" => InOrder(db) /\ BuiltUpTo(db, job[r].todo)
    <3>1. k = "baseline" => InOrder(refdb[k]) /\ BuiltUpTo(refdb[k], job[r].todo)
      BY <1>1, <1>4 DEF JobOk
    <3> DEFINE c == disk[g]
    <3>2. db = RunFile(refdb[k], g, c) /\ c \in Contents \ {0}
      BY <2>2
    <3>3. left = {f \in job[r].todo : refdb[k].ran[f] = 0} /\ g = NextOfList(left)
      OBVIOUS
    <3> HIDE DEF c, g, left, db
    <3> QED BY <1>4, <1>5, <1>6, <3>1, <3>2, <3>3, RunInOrder
  <2> HIDE DEF db, g, left
  <2>6. RefdbType' /\ refdb'[k] = db
        /\ (\A k2 \in {"baseline", "verify"} : k2 # k => refdb'[k2] = refdb[k2])
    BY <1>3, <1>5, <1>6, <2>3, <2>4 DEF TypeOK, RefdbType, LedgerFirst
  <2>7. ASSUME NEW q \in Runs PROVE JobOk(job'[q], q, refdb', live')
    <3>1. JobOk(job[q], q, refdb, live) /\ job'[q] = job[q]
      BY <1>3, <1>6 DEF JobsOk
    <3>2. ~(job[q].kind = "baseline" /\ k = "baseline" /\ q # r)
      BY <1>4, <3>1, LedgerAssumption DEF JobOk
    <3>3. CASE job[q].kind = k /\ job[q].pc = "build" /\ k = "baseline"
      <4>1. q = r /\ job[q].todo = job[r].todo
        BY <3>2, <3>3
      <4> QED BY <1>1, <2>3, <2>5, <2>6, <3>1, <3>3, <4>1 DEF JobOk
    <3>4. CASE job[q].kind = k /\ job[q].pc = "build" /\ k # "baseline"
      BY <1>1, <2>3, <2>6, <3>1, <3>4 DEF JobOk
    <3>5. CASE ~(job[q].kind = k /\ job[q].pc = "build")
      <4>1. job[q].pc = "build" => job[q].kind \in {"baseline", "verify"} /\ job[q].kind # k
        BY <3>1, <3>5 DEF JobOk
      <4>2. job[q].kind = "baseline" => q # r \/ job[q].pc = "build"
        BY <1>1
      <4>3. Kept(job[q], refdb, refdb')
        BY <2>6, <3>2, <3>5, <4>1, <4>2, <1>5 DEF Kept
      <4>4. Grows(live, live') /\ job[q] \in Jobs
        BY <1>1, <1>3, QuietGrows DEF TypeOK
      <4> QED BY <3>1, <4>3, <4>4, Frame
    <3> QED BY <3>3, <3>4, <3>5
  <2>8. TypeOK' /\ LedgerTrue'
    BY <1>1, <1>3, <1>6, <2>6, Quiet DEF JobType, TypeOK
  <2> QED BY <2>7, <2>8 DEF IInv, JobsOk
<1>7. CASE left = {} /\ Goto(r, "dump", job[r].todo) /\ UNCHANGED refdb
  <2>1. [job[r] EXCEPT !.pc = "dump"] \in Jobs
    BY <1>3 DEF Jobs
  <2>2. job'[r].pc = "dump" /\ job'[r].kind = k /\ job'[r].dump = job[r].dump
        /\ job'[r].todo = job[r].todo
    BY <1>3, <1>7, <2>1, FilesOfJob, GotoFields
  <2>3. \A f \in job[r].todo : refdb[k].ran[f] # 0
    BY <1>7
  <2>4. JobOk(job'[r], r, refdb', live')
    BY <1>1, <1>4, <1>5, <1>7, <2>2, <2>3 DEF JobOk
  <2>5. RefdbType' /\ \A q \in Runs : Kept(job[q], refdb, refdb')
    BY <1>3, <1>7, SameRefdb
  <2> QED BY <1>1, <1>7, <2>1, <2>4, <2>5, FilesOfJob, QuietGoto
<1>8. CASE EndAndDrop(r)
  BY <1>1, <1>8, QuietDrop
<1> QED BY <1>2, <1>6, <1>7, <1>8

LEMMA DumpTargetOk ==
    ASSUME IInv, NEW r \in Runs, DumpTarget(r) PROVE IInv'
<1>1. TypeOK /\ LedgerTrue /\ JobsOk /\ job[r] \in Jobs
  BY DEF IInv, TypeOK
<1>2. JobOk(job[r], r, refdb, live)
  BY <1>1 DEF JobsOk
<1>3. UNCHANGED <<disk, live, recorded, baselined, hand, refdb, faults>> /\ job[r].pc = "dump"
  BY DEF DumpTarget
<1>4. Dump(live) \in Schemas /\ \A f \in Files : Dump(live)[f] # 0 => live.ran[f] # 0
  BY <1>1, DumpType DEF TypeOK
<1> DEFINE new == [job[r] EXCEPT !.pc = "compare", !.dump = Dump(live)]
<1>5. job' = [job EXCEPT ![r] = new]
  BY <1>1 DEF DumpTarget, TypeOK
<1>6. new \in Jobs /\ new.pc = "compare" /\ new.kind = job[r].kind
      /\ new.todo = job[r].todo /\ new.dump = Dump(live)
  BY <1>1, <1>4 DEF Jobs
<1> HIDE DEF new
<1>7. job' \in [Runs -> Jobs] /\ job'[r] = new /\ \A q \in Runs \ {r} : job'[q] = job[q]
  BY <1>1, <1>5, <1>6 DEF TypeOK
<1>8. JobOk(new, r, refdb', live')
  BY <1>2, <1>3, <1>4, <1>6 DEF JobOk
<1>9. RefdbType' /\ (\A q \in Runs : Kept(job[q], refdb, refdb')) /\ Grows(live, live')
  BY <1>1, <1>3, SameRefdb, QuietGrows
<1>10. JobsOk'
  BY <1>1, <1>7, <1>8, <1>9, GotoKeeps
<1>11. TypeOK' /\ LedgerTrue'
  BY <1>1, <1>3, <1>7, <1>9, Quiet DEF JobType
<1> QED BY <1>10, <1>11 DEF IInv

\* The dumps are equal: of every object that the list defines, a definition as late as
\* any of the list is in force here too.
LEMMA CompareOk ==
    ASSUME IInv, NEW r \in Runs, Compare(r) PROVE IInv'
<1>1. UNCHANGED <<disk, live, recorded, baselined, hand, faults>> /\ job[r].pc = "compare"
  BY DEF Compare
<1>2. CASE EndAndDrop(r)
  BY <1>1, <1>2, QuietDrop
<1>3. CASE job[r].kind = "baseline" /\ Matches(r) /\ Goto(r, "adopt", job[r].todo)
           /\ UNCHANGED refdb
  <2>1. TypeOK /\ JobsOk /\ job[r] \in Jobs /\ job[r].todo \subseteq Files
    BY FilesOfJob DEF IInv, TypeOK
  <2>2. JobOk(job[r], r, refdb, live)
    BY <2>1 DEF JobsOk
  <2>3. [job[r] EXCEPT !.pc = "adopt"] \in Jobs
    BY <2>1 DEF Jobs
  <2>4. job'[r].pc = "adopt" /\ job'[r].kind = job[r].kind /\ job'[r].dump = job[r].dump
        /\ job'[r].todo = job[r].todo
    BY <1>3, <2>1, <2>3, GotoFields
  <2>5. ASSUME NEW f \in job[r].todo \ {LedgerFile} PROVE Adoptable(f, live)
    <3> DEFINE db == refdb[job[r].kind]
    <3>1. db \in Databases /\ f \in Files /\ db.ran[f] # 0 /\ InOrder(db)
          /\ job[r].dump = Dump(db)
      BY <1>1, <1>3, <2>1, <2>2 DEF JobOk, Matches
    <3> HIDE DEF db
    <3>2. PICK h \in db.top : f <= h /\ Object[h] = Object[f] /\ db.ran[h] # 0
      BY <3>1 DEF InOrder
    <3>3. h \in Files
      BY <3>1, <3>2 DEF Databases
    <3>4. CASE f \in DataOnly
      BY <3>4 DEF Adoptable
    <3>5. CASE f \notin DataOnly
      <4>1. h \notin DataOnly \cup {LedgerFile}
        BY <3>1, <3>2, <3>3, <3>5, ObjectAssumption, LedgerAssumption
      <4>2. Dump(db)[h] # 0
        BY <3>1, <3>2, <4>1, DumpType
      <4>3. live.ran[h] # 0
        BY <2>2, <3>1, <3>3, <4>2 DEF JobOk
      <4>4. h = f \/ f < h
        BY <3>1, <3>2, <3>3, LedgerAssumption
      <4> QED BY <3>2, <3>3, <4>3, <4>4 DEF Adoptable
    <3> QED BY <3>4, <3>5
  <2>6. JobOk(job'[r], r, refdb', live')
    BY <1>1, <2>2, <2>4, <2>5 DEF JobOk
  <2>7. RefdbType' /\ \A q \in Runs : Kept(job[q], refdb, refdb')
    BY <1>3, <2>1, SameRefdb
  <2> QED BY <1>1, <1>3, <2>1, <2>3, <2>6, <2>7, QuietGoto
<1> QED BY <1>2, <1>3 DEF Compare

\* One of several rows is committed, or one and the last: the command goes on with
\* the rows of `rest`, which have run or left no trace, or ends.
LEMMA AdoptOn ==
    ASSUME IInv, NEW r \in Runs, NEW rest \in SUBSET Files,
           IF rest = {} THEN EndAndDrop(r)
                        ELSE Goto(r, "adoptRows", rest) /\ UNCHANGED refdb,
           Grows(live, live'), \A f \in rest : Adoptable(f, live)
    PROVE  RefdbType' /\ JobType' /\ JobsOk'
<1>1. TypeOK /\ JobsOk /\ job[r] \in Jobs
  BY DEF IInv, TypeOK
<1>2. CASE rest = {}
  BY <1>1, <1>2, DropKeeps DEF RefdbType, JobType
<1>3. CASE rest # {}
  <2>1. Goto(r, "adoptRows", rest) /\ UNCHANGED refdb
    BY <1>3
  <2>2. [job[r] EXCEPT !.pc = "adoptRows"] \in Jobs
    BY <1>1 DEF Jobs
  <2>3. /\ job' \in [Runs -> Jobs]
        /\ \A q \in Runs \ {r} : job'[q] = job[q]
        /\ job'[r].pc = "adoptRows" /\ job'[r].kind = job[r].kind
        /\ job'[r].dump = job[r].dump /\ job'[r].todo = rest
    BY <1>1, <2>1, <2>2, GotoFields
  <2>4. JobOk(job[r], r, refdb, live)
    BY <1>1 DEF JobsOk
  <2>5. \A f \in Files : job[r].dump[f] # 0 => live'.ran[f] # 0
    BY <2>4 DEF JobOk, Grows
  <2>6. \A f \in rest : Adoptable(f, live')
    BY AdoptableStays
  <2>7. JobOk(job'[r], r, refdb', live')
    BY <1>3, <2>3, <2>4, <2>5, <2>6 DEF JobOk
  <2>8. RefdbType' /\ \A q \in Runs : Kept(job[q], refdb, refdb')
    BY <1>1, <2>1, SameRefdb
  <2> QED BY <1>1, <2>3, <2>7, <2>8, GotoKeeps DEF JobType
<1> QED BY <1>2, <1>3

LEMMA AdoptOk ==
    ASSUME IInv, DiskInv, NEW r \in Runs, Adopt(r) PROVE IInv'
<1> DEFINE rest == job[r].todo \ {LedgerFile}
           d == job[r].digest
<1>1. UNCHANGED <<disk, baselined, hand, faults>> /\ job[r].pc = "adopt"
  BY DEF Adopt
<1>2. LedgerFile \in Files /\ d \in Contents \ {0} /\ d <= disk[LedgerFile]
  BY DigestOld, LedgerAssumption DEF Adopt, NextFile
<1>3. CASE Raise(r)
  BY <1>1, <1>3, RaiseOk
<1>4. CASE /\ ApplyOne(LedgerFile, d)
           /\ IF rest = {} THEN EndAndDrop(r)
                           ELSE Goto(r, "adoptRows", rest) /\ UNCHANGED refdb
  <2>1. TypeOK /\ LedgerTrue /\ JobOk(job[r], r, refdb, live)
    BY DEF IInv, JobsOk
  <2>2. rest \in SUBSET Files /\ \A f \in rest : Adoptable(f, live)
    BY <1>1, <2>1, FilesOfJob DEF JobOk
  <2>3. Grows(live, live')
    BY <1>2, <1>4, <2>1, ApplyOneGrows DEF DiskInv
  <2> HIDE DEF rest, d
  <2>4. RefdbType' /\ JobType' /\ JobsOk'
    BY <1>4, <2>2, <2>3, AdoptOn
  <2>5. TypeOK' /\ LedgerTrue'
    BY <1>1, <1>2, <1>4, <2>1, <2>4, ApplyOneKeeps
  <2> QED BY <2>4, <2>5 DEF IInv
<1> QED BY <1>3, <1>4 DEF Adopt

LEMMA AdoptRowOk ==
    ASSUME IInv, NEW r \in Runs, AdoptRow(r) PROVE IInv'
<1> DEFINE f == Earliest(job[r].todo)
           rest == job[r].todo \ {f}
<1>1. UNCHANGED <<disk, hand, faults>> /\ job[r].pc = "adoptRows"
  BY DEF AdoptRow
<1>2. TypeOK /\ LedgerTrue /\ JobOk(job[r], r, refdb, live)
  BY DEF IInv, JobsOk
<1>3. job[r].todo \in SUBSET Files /\ job[r].todo # {}
  BY <1>1, <1>2, FilesOfJob DEF JobOk
<1>4. f \in job[r].todo
  BY <1>3, EarliestIn
<1>5. f \in Files /\ Adoptable(f, live) /\ rest \in SUBSET Files
      /\ \A g \in rest : Adoptable(g, live)
  BY <1>1, <1>2, <1>3, <1>4 DEF JobOk
<1>6. \/ Raise(r) /\ UNCHANGED baselined
      \/ /\ recorded[f] = 0 /\ UNCHANGED live
         /\ recorded' = [recorded EXCEPT ![f] = disk[f]]
         /\ baselined' = baselined \cup {f}
         /\ IF rest = {} THEN EndAndDrop(r)
                         ELSE Goto(r, "adoptRows", rest) /\ UNCHANGED refdb
  BY DEF AdoptRow
<1> HIDE DEF f, rest
<1>7. CASE Raise(r) /\ UNCHANGED baselined
  BY <1>1, <1>7, RaiseOk
<1>8. CASE /\ recorded[f] = 0 /\ UNCHANGED live
           /\ recorded' = [recorded EXCEPT ![f] = disk[f]]
           /\ baselined' = baselined \cup {f}
           /\ IF rest = {} THEN EndAndDrop(r)
                           ELSE Goto(r, "adoptRows", rest) /\ UNCHANGED refdb
  <2>1. RefdbType' /\ JobType' /\ JobsOk'
    BY <1>5, <1>8, QuietGrows, AdoptOn
  <2>2. recorded' \in Schemas /\ baselined' \subseteq Files
    BY <1>2, <1>5, <1>8 DEF TypeOK, Schemas
  <2>3. TypeOK'
    <3>1. live' \in Databases /\ disk' \in Schemas /\ hand' \subseteq Files \ {LedgerFile}
          /\ faults' \in 0..MaxFaults
      BY <1>1, <1>2, <1>8 DEF TypeOK
    <3> QED BY <2>1, <2>2, <3>1 DEF TypeOK, RefdbType, JobType, LedgerFirst
  <2>4. \A g \in Files \ {f} : recorded'[g] = recorded[g]
    BY <1>2, <1>8 DEF TypeOK, Schemas
  <2>5. ASSUME NEW g \in Files PROVE RowTrue(g)'
    <3>1. CASE g = f
      <4>1. live'.ran[g] # 0 \/ Traceless(g)'
        BY <1>5, <1>8, <3>1 DEF Adoptable, Traceless
      <4>2. g \in baselined'
        BY <1>8, <3>1
      <4>3. live'.ran[g] # 0 => g \in hand'
        BY <1>1, <1>2, <1>5, <1>8, <3>1 DEF LedgerTrue
      <4> QED BY <4>1, <4>2, <4>3 DEF RowTrue
    <3>2. CASE g # f
      <4>1. RowTrue(g)
        BY <1>2, LedgerByRow
      <4>2. Traceless(g) => Traceless(g)'
        BY <1>8 DEF Traceless
      <4>3. g \in baselined => g \in baselined'
        BY <1>8
      <4>4. recorded'[g] = recorded[g] /\ live'.ran[g] = live.ran[g] /\ disk'[g] = disk[g]
            /\ hand' = hand
        BY <1>1, <1>8, <2>4, <3>2
      <4> QED BY <4>1, <4>2, <4>3, <4>4 DEF RowTrue
    <3> QED BY <3>1, <3>2
  <2>6. LedgerTrue'
    BY <2>5 DEF LedgerTrue, RowTrue
  <2> QED BY <2>1, <2>3, <2>6 DEF IInv
<1> QED BY <1>6, <1>7, <1>8

(***************************************************************************)
(* The rest, and the theorems.                                             *)
(***************************************************************************)

LEMMA KillOk ==
    ASSUME IInv, NEW r \in Runs, Kill(r) PROVE IInv'
<1>1. TypeOK /\ LedgerTrue /\ JobsOk
  BY DEF IInv
<1>2. JobType' /\ JobsOk'
  BY <1>1, EndKeeps, QuietGrows DEF Kill, JobType
<1>3. faults' \in 0..MaxFaults
  BY <1>1, LedgerAssumption DEF Kill, TypeOK
<1>4. TypeOK' /\ LedgerTrue'
  BY <1>1, <1>2, <1>3 DEF Kill, TypeOK, LedgerTrue, JobType, Traceless
<1> QED BY <1>2, <1>4 DEF IInv

\* A file that comes in, or that is edited, leaves a row that did not describe it as
\* it was no truer: contents only go forward.
LEMMA DiskOk ==
    ASSUME IInv, DiskInv, disk' \in Schemas, \A f \in Files : disk[f] <= disk'[f],
           UNCHANGED <<live, recorded, baselined, hand, refdb, job>>, faults' \in 0..MaxFaults
    PROVE  IInv' /\ DiskInv'
<1>1. TypeOK /\ LedgerTrue /\ JobsOk
  BY DEF IInv
<1>2. TypeOK' /\ JobsOk'
  BY <1>1 DEF TypeOK, JobsOk
<1>3. \A f \in Files : /\ disk[f] \in 0..2 /\ disk'[f] \in 0..2 /\ recorded[f] \in 0..2
                       /\ recorded[f] <= disk[f] /\ disk[f] <= disk'[f]
  BY <1>1 DEF TypeOK, Schemas, Contents, DiskInv
<1>4. \A f \in Files : recorded[f] # disk[f] => recorded[f] # disk'[f]
  BY <1>3
<1>5. ASSUME NEW f \in Files PROVE RowTrue(f)'
  <2>1. RowTrue(f)
    BY <1>1, LedgerByRow
  <2> QED BY <1>4, <2>1 DEF RowTrue, Traceless
<1>6. LedgerTrue'
  BY <1>5 DEF LedgerTrue, RowTrue
<1>7. ASSUME NEW r \in Runs, job[r].digest # 0 PROVE job[r].digest <= disk'[NextFile(r)]
  <2>1. NextFile(r) \in Files /\ job[r].digest \in 0..2
    <3>1. JobOk(job[r], r, refdb, live) /\ job[r].todo \in SUBSET Files
      BY <1>1, FilesOfJob DEF JobsOk
    <3>2. job[r].pc = "apply" => Earliest(job[r].todo) \in Files
      BY <3>1, EarliestIn DEF JobOk
    <3> QED BY <1>1, <3>2, LedgerAssumption DEF NextFile, TypeOK, Jobs, Contents
  <2>2. job[r].digest <= disk[NextFile(r)]
    BY <1>7 DEF DiskInv
  <2> QED BY <1>3, <2>1, <2>2
<1>8. ASSUME NEW r \in Runs, job[r].pc \in {"create", "build"}, NEW f \in job[r].todo
      PROVE  disk'[f] # 0
  <2>1. f \in Files /\ disk[f] # 0
    BY <1>8, FilesOfJob DEF DiskInv
  <2> QED BY <1>3, <2>1
<1>9. disk'[LedgerFile] # 0
  BY <1>3, LedgerAssumption DEF DiskInv
<1>10. \A f \in Files : recorded[f] <= disk'[f]
  BY <1>3
<1>11. DiskInv'
  BY <1>7, <1>8, <1>9, <1>10 DEF DiskInv, NextFile
<1> QED BY <1>2, <1>6, <1>11 DEF IInv

(***************************************************************************)
(* The directory and the digests.                                          *)
(***************************************************************************)

\* Command q hashed no other content than what the file has now, and builds from no
\* file that is not there.
DigestKept(q) ==
    \/ job'[q] = job[q]
    \/ job'[q].digest = 0 /\ (job'[q].pc \in {"create", "build"} =>
                                  \A f \in job'[q].todo : disk[f] # 0)
    \/ /\ NextFile(q)' = NextFile(q) /\ job'[q].pc \notin {"create", "build"}
       /\ job'[q].digest # 0 => job'[q].digest <= disk[NextFile(q)]

LEMMA DiskFrame ==
    ASSUME DiskInv, disk' = disk, \A f \in Files : recorded'[f] <= disk[f],
           \A q \in Runs : DigestKept(q)
    PROVE  DiskInv'
<1>1. disk'[LedgerFile] # 0 /\ \A f \in Files : recorded'[f] <= disk'[f]
  BY DEF DiskInv
<1>2. ASSUME NEW q \in Runs
      PROVE  /\ job'[q].pc \in {"create", "build"} =>
                   \A f \in job'[q].todo : disk'[f] # 0
             /\ job'[q].digest # 0 => job'[q].digest <= disk'[NextFile(q)']
  <2>1. DigestKept(q)
    OBVIOUS
  <2>2. CASE job'[q] = job[q]
    <3>1. NextFile(q)' = NextFile(q)
      BY <2>2 DEF NextFile
    <3> QED BY <2>2, <3>1 DEF DiskInv
  <2>3. CASE job'[q].digest = 0 /\ (job'[q].pc \in {"create", "build"} =>
                                        \A f \in job'[q].todo : disk[f] # 0)
    BY <2>3
  <2>4. CASE /\ NextFile(q)' = NextFile(q) /\ job'[q].pc \notin {"create", "build"}
             /\ job'[q].digest # 0 => job'[q].digest <= disk[NextFile(q)]
    BY <2>4
  <2> QED BY <2>1, <2>2, <2>3, <2>4 DEF DigestKept
<1> QED BY <1>1, <1>2 DEF DiskInv

\* A command ends, or goes on with its digest forgotten.
LEMMA DigestEnds ==
    ASSUME TypeOK, NEW r \in Runs,
           \/ End(r) \/ EndAndDrop(r)
           \/ \E pc \in {"look", "bootstrap", "read", "apply", "dump", "adopt", "adoptRows",
                          "report", "create", "build"}, todo \in SUBSET Files :
                 /\ Goto(r, pc, todo)
                 /\ pc \in {"create", "build"} => \A f \in todo : disk[f] # 0
    PROVE  \A q \in Runs : DigestKept(q)
<1>1. Idle.digest = 0 /\ Idle.pc = "idle"
  BY DEF Idle
<1>2. CASE End(r)
  BY <1>1, <1>2 DEF End, TypeOK, DigestKept
<1>3. CASE EndAndDrop(r)
  BY <1>1, <1>3 DEF EndAndDrop, DigestKept
<1>4. ASSUME NEW pc \in {"look", "bootstrap", "read", "apply", "dump", "adopt", "adoptRows",
                          "report", "create", "build"}, NEW todo \in SUBSET Files,
             Goto(r, pc, todo), pc \in {"create", "build"} => \A f \in todo : disk[f] # 0
      PROVE  \A q \in Runs : DigestKept(q)
  <2>1. [job[r] EXCEPT !.pc = pc] \in Jobs
    BY DEF TypeOK, Jobs
  <2>2. /\ \A q \in Runs \ {r} : job'[q] = job[q]
        /\ job'[r].pc = pc /\ job'[r].todo = todo /\ job'[r].digest = 0
    BY <1>4, <2>1, GotoFields
  <2> QED BY <1>4, <2>2 DEF DigestKept
<1> QED BY <1>2, <1>3, <1>4

\* The rows after apply_one() and after an adoption.
LEMMA RowsOld ==
    ASSUME TypeOK, DiskInv, NEW f \in Files, NEW d, d <= disk[f],
           recorded' = [recorded EXCEPT ![f] = d]
    PROVE  \A g \in Files : recorded'[g] <= disk[g]
BY DEF TypeOK, Schemas, DiskInv

LEMMA DiskStep ==
    ASSUME IInv, DiskInv, NEW r \in Runs, Step(r) \/ Kill(r) PROVE DiskInv'
<1>1. TypeOK /\ JobOk(job[r], r, refdb, live)
  BY DEF IInv, JobsOk
<1>2. job[r] \in Jobs /\ job[r].todo \in SUBSET Files /\ AllMigrations \in SUBSET Files
  BY <1>1, FilesOfJob DEF TypeOK
<1>3. \A f \in Files : recorded[f] <= disk[f]
  BY DEF DiskInv
<1>4. NextFile(r) \in Files
  <2>1. job[r].pc = "apply" => Earliest(job[r].todo) \in Files
    BY <1>1, <1>2, EarliestIn DEF JobOk
  <2> QED BY <2>1, LedgerAssumption DEF NextFile
<1>5. disk[NextFile(r)] <= disk[NextFile(r)]
  BY <1>1, <1>4 DEF TypeOK, Schemas, Contents
<1>6. CASE Hash(r) \/ DumpTarget(r)
  <2>1. UNCHANGED <<disk, recorded>> /\ \A q \in Runs \ {r} : job'[q] = job[q]
    BY <1>1, <1>6 DEF Hash, DumpTarget, TypeOK
  <2>2. DigestKept(r)
    <3>1. CASE Hash(r)
      <4>1. job'[r] = [job[r] EXCEPT !.digest = disk[NextFile(r)]]
        BY <1>1, <3>1 DEF Hash, TypeOK
      <4>2. /\ job'[r].pc = job[r].pc /\ job'[r].todo = job[r].todo
            /\ job'[r].digest = disk[NextFile(r)]
        BY <1>2, <4>1 DEF Jobs
      <4>3. NextFile(r)' = NextFile(r)
        BY <4>2 DEF NextFile
      <4> QED BY <1>5, <3>1, <4>2, <4>3 DEF DigestKept, Hash
    <3>2. CASE DumpTarget(r)
      <4>1. job'[r] = [job[r] EXCEPT !.pc = "compare", !.dump = Dump(live)]
        BY <1>1, <3>2 DEF DumpTarget, TypeOK
      <4>2. job'[r].pc = "compare" /\ job'[r].digest = job[r].digest
        BY <1>2, <4>1 DEF Jobs
      <4>3. NextFile(r)' = NextFile(r)
        BY <3>2, <4>2 DEF NextFile, DumpTarget
      <4> QED BY <3>2, <4>2, <4>3 DEF DigestKept, DiskInv
    <3> QED BY <1>6, <3>1, <3>2
  <2> QED BY <1>3, <2>1, <2>2, DiskFrame DEF DigestKept
<1>7. CASE LookMigrate(r) \/ Read(r) \/ LookVerify(r) \/ LookBaseline(r) \/ Compare(r)
           \/ List(r) \/ Report(r) \/ Return(r) \/ Kill(r)
  <2>1. UNCHANGED <<disk, recorded>>
    BY <1>7 DEF LookMigrate, Read, LookVerify, LookBaseline, Compare, List, Report,
                Return, Kill
  <2>2. {f \in AllMigrations : recorded[f] = 0} \in SUBSET Files
        /\ AllMigrations \ {LedgerFile} \in SUBSET Files /\ {} \in SUBSET Files
    BY <1>2
  <2>3. RecordedVersions \in SUBSET Files /\ \A f \in RecordedVersions : disk[f] # 0
    BY <1>1, <1>3 DEF RecordedVersions, TypeOK, Schemas, Contents
  <2>4. \A f \in AllMigrations : disk[f] # 0
    BY DEF AllMigrations
  <2>5. CASE End(r) \/ EndAndDrop(r)
    BY <1>1, <1>3, <2>1, <2>5, DigestEnds, DiskFrame
  <2>6. CASE Goto(r, "create", RecordedVersions) \/ Goto(r, "build", AllMigrations)
    BY <1>1, <1>2, <1>3, <2>1, <2>3, <2>4, <2>6, DigestEnds, DiskFrame
  <2>7. CASE \E pc \in {"bootstrap", "read", "apply", "adopt", "report"},
                todo \in SUBSET Files : Goto(r, pc, todo)
    BY <1>1, <1>3, <2>1, <2>7, DigestEnds, DiskFrame
  <2> QED BY <1>2, <1>7, <2>2, <2>5, <2>6, <2>7 DEF LookMigrate, Read, LookVerify,
             LookBaseline, Compare, List, Report, Return, Kill
<1>8. CASE Bootstrap(r) \/ Apply(r) \/ Adopt(r) \/ AdoptRow(r)
  <2>1. disk' = disk
    BY <1>8 DEF Bootstrap, Apply, Adopt, AdoptRow
  <2>2. \A f \in Files : recorded'[f] <= disk[f]
    <3>1. CASE UNCHANGED recorded
      BY <1>3, <3>1
    <3>2. CASE job[r].digest # 0 /\ ApplyOne(NextFile(r), job[r].digest)
      <4>1. job[r].digest <= disk[NextFile(r)]
        BY <3>2 DEF DiskInv
      <4>2. recorded' = [recorded EXCEPT ![NextFile(r)] = job[r].digest]
        BY <3>2 DEF ApplyOne
      <4> QED BY <1>1, <1>4, <4>1, <4>2, RowsOld
    <3>3. CASE AdoptRow(r) /\ ~UNCHANGED recorded
      <4> DEFINE f == Earliest(job[r].todo)
                 c == disk[f]
      <4>1. recorded' = [recorded EXCEPT ![f] = c]
        BY <3>3 DEF AdoptRow, Raise
      <4>2. f \in Files
        BY <1>1, <1>2, <3>3, EarliestIn DEF JobOk, AdoptRow
      <4>3. c <= disk[f]
        BY <1>1, <4>2 DEF TypeOK, Schemas, Contents
      <4> HIDE DEF f, c
      <4> QED BY <1>1, <4>1, <4>2, <4>3, RowsOld
    <3> QED BY <1>8, <3>1, <3>2, <3>3 DEF Bootstrap, Apply, Adopt, Raise, NextFile
  <2>3. (job[r].todo \ {LedgerFile}) \in SUBSET Files
        /\ (job[r].todo \ {Earliest(job[r].todo)}) \in SUBSET Files
        /\ {} \in SUBSET Files
    BY <1>2
  <2>4. CASE End(r) \/ EndAndDrop(r)
    BY <1>1, <2>1, <2>2, <2>4, DigestEnds, DiskFrame
  <2>5. CASE \E pc \in {"read", "apply", "adoptRows"}, todo \in SUBSET Files : Goto(r, pc, todo)
    BY <1>1, <2>1, <2>2, <2>5, DigestEnds, DiskFrame
  <2> QED BY <1>8, <2>3, <2>4, <2>5 DEF Bootstrap, Apply, Adopt, AdoptRow, Raise
<1>9. CASE Create(r) \/ Build(r)
  <2>1. UNCHANGED <<disk, recorded>>
    BY <1>9 DEF Create, Build
  <2>2. CASE job' = job
    BY <1>3, <2>1, <2>2, DiskFrame DEF DigestKept
  <2>3. CASE End(r) \/ EndAndDrop(r)
    BY <1>1, <1>3, <2>1, <2>3, DigestEnds, DiskFrame
  <2>4. CASE Goto(r, "look", {}) \/ Goto(r, "dump", job[r].todo)
    BY <1>1, <1>2, <1>3, <2>1, <2>4, DigestEnds, DiskFrame
  <2>5. CASE Goto(r, "build", job[r].todo) /\ job[r].pc = "create"
    <3>1. \A f \in job[r].todo : disk[f] # 0
      BY <2>5 DEF DiskInv
    <3> QED BY <1>1, <1>2, <1>3, <2>1, <2>5, <3>1, DigestEnds, DiskFrame
  <2> QED BY <1>9, <2>2, <2>3, <2>4, <2>5 DEF Create, Build
<1> QED BY <1>6, <1>7, <1>8, <1>9 DEF Step

LEMMA DiskStart ==
    ASSUME IInv, DiskInv, NEW r \in Runs, NEW k \in Kinds, Start(r, k) PROVE DiskInv'
<1>1. TypeOK /\ UNCHANGED <<disk, recorded>>
  BY DEF IInv, Start
<1>2. PICK new : job' = [job EXCEPT ![r] = new] /\ new.digest = 0 /\ new.todo = {}
  <2>1. PICK c \in Connections : StartAway(r, c) \/ StartHere(r, k)
    BY DEF Start
  <2>2. CASE StartAway(r, c)
    <3> DEFINE new == [Idle EXCEPT !.pc = "away", !.override = c.override,
                                   !.oneHost = c.oneHost]
    <3>1. job' = [job EXCEPT ![r] = new]
      BY <2>2 DEF StartAway
    <3>2. new.digest = 0 /\ new.todo = {}
      BY DEF Idle
    <3> HIDE DEF new
    <3> QED BY <3>1, <3>2
  <2>3. CASE StartHere(r, k)
    <3> DEFINE new == [Idle EXCEPT !.kind = k, !.pc = FirstPc[k]]
    <3>1. job' = [job EXCEPT ![r] = new]
      BY <2>3 DEF StartHere
    <3>2. new.digest = 0 /\ new.todo = {}
      BY DEF Idle
    <3> HIDE DEF new
    <3> QED BY <3>1, <3>2
  <2> QED BY <2>1, <2>2, <2>3
<1>3. job'[r] = new /\ \A q \in Runs \ {r} : job'[q] = job[q]
  BY <1>1, <1>2 DEF TypeOK
<1>4. \A q \in Runs : DigestKept(q)
  BY <1>2, <1>3 DEF DigestKept
<1>5. \A f \in Files : recorded'[f] <= disk[f]
  BY <1>1 DEF DiskInv
<1> QED BY <1>1, <1>4, <1>5, DiskFrame

LEMMA NextOk == IInv /\ DiskInv /\ [Next]_vars => IInv' /\ DiskInv'
<1> SUFFICES ASSUME IInv, DiskInv, [Next]_vars PROVE IInv' /\ DiskInv'
  OBVIOUS
<1>1. disk \in Schemas /\ \A f \in Files : disk[f] \in 0..2
  BY DEF IInv, TypeOK, Schemas, Contents
<1>2. ASSUME NEW r \in Runs, Step(r) PROVE IInv' /\ DiskInv'
  <2>1. CASE LookMigrate(r) \/ Hash(r) \/ Bootstrap(r) \/ Read(r) \/ Apply(r)
    BY <1>2, <2>1, LookMigrateOk, HashOk, BootstrapOk, ReadOk, ApplyOk, DiskStep
  <2>2. CASE LookVerify(r) \/ LookBaseline(r) \/ Create(r) \/ Build(r)
    BY <1>2, <2>2, LookVerifyOk, LookBaselineOk, CreateOk, BuildOk, DiskStep
  <2>3. CASE DumpTarget(r) \/ Compare(r) \/ Adopt(r) \/ AdoptRow(r)
    BY <1>2, <2>3, DumpTargetOk, CompareOk, AdoptOk, AdoptRowOk, DiskStep
  <2>4. CASE List(r)
    BY <1>2, <2>4, FilesOfJob, PlainGoto, DiskStep DEF List
  <2>5. CASE Report(r)
    BY <1>2, <2>5, QuietEnd, DiskStep DEF Report
  <2>6. CASE Return(r)
    BY <1>2, <2>6, QuietEnd, DiskStep DEF Return
  <2> QED BY <1>2, <2>1, <2>2, <2>3, <2>4, <2>5, <2>6 DEF Step
<1>3. CASE \E r \in Runs : Kill(r)
  BY <1>3, KillOk, DiskStep
<1>4. CASE \E r \in Runs, k \in Kinds : Start(r, k)
  BY <1>4, StartOk, DiskStart
<1>5. CASE Merge
  <2> DEFINE f == Earliest(Files \ AllMigrations)
  <2>1. f \in Files /\ disk[f] = 0 /\ disk' = [disk EXCEPT ![f] = 1]
    <3>1. AllMigrations # Files /\ AllMigrations \subseteq Files
      BY <1>5 DEF Merge, AllMigrations
    <3>2. f \in Files \ AllMigrations
      BY <3>1, EarliestIn
    <3> QED BY <1>5, <3>2 DEF Merge, AllMigrations
  <2> HIDE DEF f
  <2>2. disk' \in Schemas /\ \A g \in Files : disk[g] <= disk'[g]
    BY <1>1, <2>1 DEF Schemas, Contents
  <2>3. faults' \in 0..MaxFaults
    BY <1>5 DEF Merge, IInv, TypeOK
  <2> QED BY <1>5, <2>2, <2>3, DiskOk DEF Merge
<1>6. CASE \E f \in Files : Edit(f)
  <2>1. disk' \in Schemas /\ \A g \in Files : disk[g] <= disk'[g]
    BY <1>1, <1>6 DEF Edit, Schemas, Contents
  <2>2. faults' \in 0..MaxFaults
    BY <1>6, LedgerAssumption DEF Edit, IInv, TypeOK
  <2> QED BY <1>6, <2>1, <2>2, DiskOk DEF Edit
<1>7. CASE UNCHANGED vars
  <2>1. disk' \in Schemas /\ \A g \in Files : disk[g] <= disk'[g]
    BY <1>1, <1>7 DEF vars
  <2>2. faults' \in 0..MaxFaults
    BY <1>7 DEF vars, IInv, TypeOK
  <2> QED BY <1>7, <2>1, <2>2, DiskOk DEF vars
<1> QED BY <1>2, <1>3, <1>4, <1>5, <1>6, <1>7 DEF Next

\* In every state that any number of commands, kills, merges and edits can reach,
\* the state has its shape and the invariant holds.
THEOREM Invariance == Spec => [](IInv /\ DiskInv)
<1>1. Init => IInv /\ DiskInv
  BY InitOk, InitDisk
<1>2. IInv /\ DiskInv /\ [Next]_vars => IInv' /\ DiskInv'
  BY NextOk
<1> QED BY <1>1, <1>2, PTL DEF Spec

\* The state keeps its shape.
THEOREM TypeCorrect == Spec => []TypeOK
<1>1. IInv => TypeOK
  BY DEF IInv
<1> QED BY <1>1, Invariance, PTL

\* After every commit of migrate.py, migrate_baseline.py and `make schema`, whatever
\* ran at the same time and whatever was killed: a row names a file that ran here or
\* one that was adopted although no dump can show it, it has the digest of what ran or
\* one that its file no longer has, and what ran without a row ran by hand.
THEOREM LedgerIsTrue == Spec => []LedgerTrue
<1>1. IInv => LedgerTrue
  BY DEF IInv
<1> QED BY <1>1, Invariance, PTL

\* A command works on a database of another machine only with the override, if its
\* URL names one host.
THEOREM GuardIsHeld == Spec => []GuardHolds
<1>1. IInv => GuardHolds
  BY DEF IInv, JobsOk, JobOk, GuardHolds
<1> QED BY <1>1, Invariance, PTL

-----------------------------------------------------------------------------
(***************************************************************************)
(* VerifyDetects.  The verdict of migrate_verify.py rests on a reference   *)
(* that other commands may share: whoever builds in it builds only files   *)
(* that are recorded, and a row is never deleted.                          *)
(***************************************************************************)

VerifyJob(j, rec) ==
    j.kind = "verify" => /\ j.pc \in {"look", "create", "build", "dump", "compare"}
                         /\ \A f \in j.todo : rec[f] # 0

\* Verify's reference holds no file without a row.
RefRecorded(rd, rec) ==
    rd["verify"] # NoDb => \A f \in Files : rd["verify"].ran[f] # 0 => rec[f] # 0

VerifyInv == (\A r \in Runs : VerifyJob(job[r], recorded)) /\ RefRecorded(refdb, recorded)

RowsGrow == \A f \in Files : recorded[f] # 0 => recorded'[f] # 0

\* A command ends, or goes on as the kind of command it was.
JobMoves(r) == \A q \in Runs : \/ job'[q] = job[q] \/ job'[q] = Idle
                               \/ q = r /\ job'[q].kind = job[q].kind

LEMMA MovesOk ==
    ASSUME TypeOK, NEW r \in Runs,
           End(r) \/ EndAndDrop(r) \/ \E pc, todo : Goto(r, pc, todo)
    PROVE  JobMoves(r)
<1>1. CASE End(r)
  BY <1>1 DEF End, TypeOK, JobMoves
<1>2. CASE EndAndDrop(r)
  BY <1>2 DEF EndAndDrop, JobMoves
<1>3. CASE \E pc, todo : Goto(r, pc, todo)
  <2>1. PICK pc, todo : job' = [job EXCEPT ![r].pc = pc, ![r].todo = todo,
                                           ![r].digest = 0]
    BY <1>3 DEF Goto
  <2>2. job[r] \in Jobs
    BY DEF TypeOK
  <2>3. job'[r].kind = job[r].kind
    BY <2>1, <2>2 DEF TypeOK, Jobs
  <2> QED BY <2>1, <2>3 DEF TypeOK, JobMoves
<1> QED BY <1>1, <1>2, <1>3

LEMMA RefKept ==
    ASSUME TypeOK, VerifyInv, RowsGrow,
           UNCHANGED refdb \/ \E k : refdb' = [refdb EXCEPT ![k] = NoDb]
    PROVE  RefRecorded(refdb', recorded')
<1>1. refdb'["verify"] = refdb["verify"] \/ refdb'["verify"] = NoDb
  BY DEF TypeOK
<1> QED BY <1>1 DEF VerifyInv, RefRecorded, RowsGrow

\* A step of command r changes no other command, except to end it.
LEMMA VerifyFrame ==
    ASSUME TypeOK, VerifyInv, RowsGrow, NEW r \in Runs,
           \A q \in Runs \ {r} : job'[q] = job[q] \/ job'[q] = Idle,
           VerifyJob(job'[r], recorded'), RefRecorded(refdb', recorded')
    PROVE  VerifyInv'
<1>1. ASSUME NEW q \in Runs, q # r PROVE VerifyJob(job'[q], recorded')
  <2>1. CASE job'[q] = job[q]
    <3>1. VerifyJob(job[q], recorded) /\ job[q].todo \subseteq Files
      BY DEF VerifyInv, TypeOK, Jobs
    <3> QED BY <2>1, <3>1 DEF VerifyJob, RowsGrow
  <2>2. CASE job'[q] = Idle
    <3>1. Idle.kind # "verify"
      BY DEF Idle
    <3> QED BY <2>2, <3>1 DEF VerifyJob
  <2> QED BY <1>1, <2>1, <2>2
<1> QED BY <1>1 DEF VerifyInv

\* A command that is not a verification.
LEMMA OtherVerify ==
    ASSUME TypeOK, VerifyInv, RowsGrow, NEW r \in Runs, job[r].kind # "verify",
           JobMoves(r), RefRecorded(refdb', recorded')
    PROVE  VerifyInv'
<1>1. job'[r].kind # "verify"
  <2>1. Idle.kind # "verify"
    BY DEF Idle
  <2> QED BY <2>1 DEF JobMoves
<1>2. \A q \in Runs \ {r} : job'[q] = job[q] \/ job'[q] = Idle
  BY DEF JobMoves
<1> QED BY <1>1, <1>2, VerifyFrame DEF VerifyJob

\* A command that ends, of whatever kind.
LEMMA EndVerify ==
    ASSUME TypeOK, VerifyInv, RowsGrow, NEW r \in Runs,
           (End(r) /\ UNCHANGED refdb) \/ EndAndDrop(r)
    PROVE  VerifyInv'
<1>1. JobMoves(r)
  BY MovesOk
<1>2. RefRecorded(refdb', recorded')
  BY RefKept DEF EndAndDrop
<1>3. job'[r] = Idle
  BY DEF End, EndAndDrop, TypeOK
<1>4. Idle.kind # "verify"
  BY DEF Idle
<1>5. \A q \in Runs \ {r} : job'[q] = job[q] \/ job'[q] = Idle
  BY <1>1 DEF JobMoves
<1> QED BY <1>2, <1>3, <1>4, <1>5, VerifyFrame DEF VerifyJob

\* No program deletes a row of schema_migrations.
LEMMA RowsGrowOk == ASSUME TypeOK, [Next]_vars PROVE RowsGrow
<1>1. CASE UNCHANGED recorded
  BY <1>1 DEF RowsGrow
<1>2. ASSUME NEW f, recorded[f] = 0, NEW c, recorded' = [recorded EXCEPT ![f] = c]
      PROVE  RowsGrow
  BY <1>2 DEF RowsGrow, TypeOK, Schemas
<1>3. ASSUME NEW f, NEW d, ApplyOne(f, d) PROVE RowsGrow
  BY <1>2, <1>3 DEF ApplyOne, CanApply
<1>4. ASSUME NEW r \in Runs, Bootstrap(r) \/ Apply(r) \/ Adopt(r) PROVE RowsGrow
  BY <1>1, <1>3, <1>4 DEF Bootstrap, Apply, Adopt, Raise
<1>5. ASSUME NEW r \in Runs, AdoptRow(r) PROVE RowsGrow
  BY <1>1, <1>2, <1>5 DEF AdoptRow, Raise
<1> QED BY <1>1, <1>4, <1>5 DEF Next, Step, vars, LookMigrate, Read, LookVerify,
      LookBaseline, Create, Build, DumpTarget, Compare, List, Report, Return, Kill, Start,
      Hash, Merge, Edit

\* The verification goes on with the files `todo`, all recorded.
LEMMA GoVerify ==
    ASSUME TypeOK, VerifyInv, RowsGrow, NEW r \in Runs,
           NEW pc \in {"create", "build", "dump"}, NEW todo \in SUBSET Files,
           Goto(r, pc, todo), \A f \in todo : recorded[f] # 0,
           RefRecorded(refdb', recorded')
    PROVE  VerifyInv'
<1>1. [job[r] EXCEPT !.pc = pc] \in Jobs
  BY DEF TypeOK, Jobs
<1>2. /\ \A q \in Runs \ {r} : job'[q] = job[q]
      /\ job'[r].pc = pc /\ job'[r].todo = todo
  BY <1>1, GotoFields
<1>3. VerifyJob(job'[r], recorded')
  BY <1>2 DEF VerifyJob, RowsGrow
<1> QED BY <1>2, <1>3, VerifyFrame

\* Create and Build by a verification: what they build is recorded.
LEMMA VerifyBuild ==
    ASSUME IInv, VerifyInv, RowsGrow, NEW r \in Runs, job[r].kind = "verify", Build(r)
    PROVE  VerifyInv'
<1>1. TypeOK /\ job[r].pc = "build" /\ job[r].todo \in SUBSET Files
      /\ \A f \in job[r].todo : recorded[f] # 0
  BY FilesOfJob DEF IInv, Build, VerifyInv, VerifyJob
<1>2. refdb["verify"] \in Databases
  BY <1>1 DEF IInv, JobsOk, JobOk
<1> DEFINE left == {f \in job[r].todo : refdb["verify"].ran[f] = 0}
           g == NextOfList(left)
           c == disk[g]
           db == RunFile(refdb["verify"], g, c)
<1>3. CASE left = {} /\ Goto(r, "dump", job[r].todo) /\ UNCHANGED refdb
  <2>1. RefRecorded(refdb', recorded')
    BY <1>1, <1>3, RefKept
  <2> QED BY <1>1, <1>3, <2>1, GoVerify
<1>4. CASE left # {} /\ refdb' = [refdb EXCEPT !["verify"] = db] /\ job' = job
  <2>1. g \in left
    BY <1>1, <1>4, NextInList
  <2>2. recorded[g] # 0 /\ g \in Files
    BY <1>1, <2>1
  <2>3. c \in Contents
    BY <1>1, <2>2 DEF TypeOK, Schemas
  <2>4. db = RunFile(refdb["verify"], g, c) /\ refdb'["verify"] = db
    BY <1>1, <1>4 DEF TypeOK
  <2> HIDE DEF db, c, g, left
  <2>5. \A f \in Files \ {g} : refdb'["verify"].ran[f] = refdb["verify"].ran[f]
    BY ONLY <1>2, <2>2, <2>3, <2>4, RunFileType
  <2>6. refdb["verify"] # NoDb => \A f \in Files : refdb["verify"].ran[f] # 0 => recorded[f] # 0
    BY DEF VerifyInv, RefRecorded
  <2>7. refdb["verify"] # NoDb
    BY <1>2, DbIsDb
  <2>8. RefRecorded(refdb', recorded')
    BY <2>2, <2>5, <2>6, <2>7 DEF RefRecorded, RowsGrow
  <2>9. VerifyJob(job'[r], recorded')
    BY <1>1, <1>4 DEF VerifyInv, VerifyJob, RowsGrow
  <2> QED BY <1>1, <1>4, <2>8, <2>9, VerifyFrame
<1>5. CASE EndAndDrop(r)
  BY <1>1, <1>5, EndVerify
<1> QED BY <1>3, <1>4, <1>5 DEF Build

LEMMA VerifyCreate ==
    ASSUME IInv, VerifyInv, RowsGrow, NEW r \in Runs, job[r].kind = "verify", Create(r)
    PROVE  VerifyInv'
<1>1. TypeOK /\ job[r].todo \in SUBSET Files /\ \A f \in job[r].todo : recorded[f] # 0
  BY FilesOfJob DEF IInv, Create, VerifyInv, VerifyJob
<1>2. CASE InUse("verify")
  <2>1. End(r) /\ UNCHANGED refdb
    BY <1>2 DEF Create
  <2> QED BY <1>1, <2>1, EndVerify
<1>3. CASE ~InUse("verify")
  <2>1. refdb' = [refdb EXCEPT !["verify"] = EmptyDb] /\ Goto(r, "build", job[r].todo)
    BY <1>3 DEF Create
  <2>2. refdb'["verify"] = EmptyDb
    BY <1>1, <2>1 DEF TypeOK
  <2>3. RefRecorded(refdb', recorded')
    BY <2>2 DEF RefRecorded, EmptyDb, Empty
  <2> QED BY <1>1, <2>1, <2>3, GoVerify
<1> QED BY <1>2, <1>3

LEMMA VerifyDump ==
    ASSUME IInv, VerifyInv, RowsGrow, NEW r \in Runs, DumpTarget(r) PROVE VerifyInv'
<1>1. TypeOK /\ UNCHANGED refdb /\ job[r].pc = "dump" /\ job[r] \in Jobs
  BY DEF IInv, DumpTarget, TypeOK
<1>2. job' = [job EXCEPT ![r].pc = "compare", ![r].dump = Dump(live)]
  BY DEF DumpTarget
<1>3. job'[r].kind = job[r].kind /\ job'[r].pc = "compare" /\ job'[r].todo = job[r].todo
      /\ \A q \in Runs \ {r} : job'[q] = job[q]
  BY <1>1, <1>2 DEF TypeOK, Jobs
<1>4. RefRecorded(refdb', recorded')
  BY <1>1, RefKept
<1>5. job[r].todo \subseteq Files
  BY <1>1 DEF Jobs
<1>6. VerifyJob(job'[r], recorded')
  BY <1>3, <1>5 DEF VerifyInv, VerifyJob, RowsGrow
<1> QED BY <1>1, <1>3, <1>4, <1>6, VerifyFrame

\* Create and Build by a baseline, and the steps of the other commands.
LEMMA VerifyOthers ==
    ASSUME IInv, VerifyInv, RowsGrow, NEW r \in Runs, job[r].kind # "verify",
           \/ LookMigrate(r) \/ Hash(r) \/ Bootstrap(r) \/ Read(r) \/ Apply(r)
           \/ LookBaseline(r) \/ Create(r) \/ Build(r) \/ Adopt(r) \/ AdoptRow(r) \/ List(r)
    PROVE  VerifyInv'
<1>1. TypeOK
  BY DEF IInv
<1>2. CASE LookMigrate(r) \/ Read(r) \/ List(r)
  <2>1. UNCHANGED refdb /\ (End(r) \/ \E pc, todo : Goto(r, pc, todo))
    BY <1>2 DEF LookMigrate, Read, List
  <2> QED BY <1>1, <2>1, MovesOk, RefKept, OtherVerify
<1>3. CASE Bootstrap(r) \/ Apply(r) \/ LookBaseline(r) \/ Adopt(r) \/ AdoptRow(r)
  <2>1. \/ UNCHANGED refdb /\ (End(r) \/ \E pc, todo : Goto(r, pc, todo))
        \/ EndAndDrop(r)
    BY <1>3 DEF Bootstrap, Apply, LookBaseline, Adopt, AdoptRow, Raise
  <2>2. RefRecorded(refdb', recorded')
    BY <1>1, <2>1, RefKept DEF EndAndDrop
  <2> QED BY <1>1, <2>1, <2>2, MovesOk, OtherVerify
<1>4. CASE Create(r) \/ Build(r)
  <2>1. job' = job \/ End(r) \/ EndAndDrop(r) \/ \E pc, todo : Goto(r, pc, todo)
    BY <1>4 DEF Create, Build
  <2>2. JobMoves(r)
    BY <1>1, <2>1, MovesOk DEF JobMoves
  <2>3. refdb'["verify"] = refdb["verify"]
    <3>1. CASE UNCHANGED refdb
      BY <3>1
    <3>2. CASE \E k, db : k # "verify" /\ refdb' = [refdb EXCEPT ![k] = db]
      BY <1>1, <3>2 DEF TypeOK
    <3>3. UNCHANGED refdb \/ \E k, db : k # "verify" /\ refdb' = [refdb EXCEPT ![k] = db]
      BY <1>4 DEF Create, Build, EndAndDrop
    <3> QED BY <3>1, <3>2, <3>3
  <2>4. RefRecorded(refdb', recorded')
    BY <2>3 DEF VerifyInv, RefRecorded, RowsGrow
  <2> QED BY <1>1, <2>2, <2>4, OtherVerify
<1>5. CASE Hash(r)
  <2>1. UNCHANGED refdb
    BY <1>5 DEF Hash
  <2>2. job'[r].kind = job[r].kind /\ \A q \in Runs \ {r} : job'[q] = job[q]
    BY <1>1, <1>5 DEF Hash, TypeOK, Jobs
  <2> QED BY <1>1, <2>1, <2>2, RefKept, OtherVerify DEF JobMoves
<1> QED BY <1>2, <1>3, <1>4, <1>5

LEMMA VerifyStart ==
    ASSUME IInv, VerifyInv, RowsGrow, NEW r \in Runs, NEW k \in Kinds, Start(r, k)
    PROVE  VerifyInv'
<1>1. TypeOK /\ UNCHANGED refdb
  BY DEF IInv, Start
<1>2. RefRecorded(refdb', recorded')
  BY <1>1, RefKept
<1>3. PICK new : job' = [job EXCEPT ![r] = new] /\ VerifyJob(new, recorded')
  <2>1. CASE \E c \in Connections : StartAway(r, c)
    <3>1. PICK c \in Connections : StartAway(r, c)
      BY <2>1
    <3> DEFINE new == [Idle EXCEPT !.pc = "away", !.override = c.override,
                                   !.oneHost = c.oneHost]
    <3>2. job' = [job EXCEPT ![r] = new]
      BY <3>1 DEF StartAway
    <3>3. new.kind = "migrate"
      BY DEF Idle
    <3> HIDE DEF new
    <3> QED BY <3>2, <3>3 DEF VerifyJob
  <2>2. CASE StartHere(r, k)
    <3> DEFINE new == [Idle EXCEPT !.kind = k, !.pc = FirstPc[k]]
    <3>1. job' = [job EXCEPT ![r] = new]
      BY <2>2 DEF StartHere
    <3>2. new.kind = k /\ new.pc = FirstPc[k] /\ new.todo = {}
      BY DEF Idle
    <3>3. FirstPc["verify"] = "look"
      BY DEF FirstPc
    <3> HIDE DEF new
    <3> QED BY <3>1, <3>2, <3>3 DEF VerifyJob
  <2>3. (\E c \in Connections : StartAway(r, c)) \/ StartHere(r, k)
    BY DEF Start
  <2> QED BY <2>1, <2>2, <2>3
<1>4. job'[r] = new /\ \A q \in Runs \ {r} : job'[q] = job[q]
  BY <1>1, <1>3 DEF TypeOK
<1> QED BY <1>1, <1>2, <1>3, <1>4, VerifyFrame

LEMMA VerifyNext == ASSUME IInv, VerifyInv, [Next]_vars PROVE VerifyInv'
<1>1. TypeOK /\ RowsGrow
  BY RowsGrowOk DEF IInv
<1>2. ASSUME NEW r \in Runs, Step(r), job[r].kind = "verify" PROVE VerifyInv'
  <2>1. job[r].pc \in {"look", "create", "build", "dump", "compare"}
    BY <1>2 DEF VerifyInv, VerifyJob
  <2>2. \/ LookVerify(r) \/ Create(r) \/ Build(r) \/ DumpTarget(r) \/ Compare(r)
    BY <1>2, <2>1 DEF Step, LookMigrate, Hash, Bootstrap, Read, Apply, LookBaseline,
                      Adopt, AdoptRow, List, Report, Return
  <2>3. CASE LookVerify(r)
    <3>1. UNCHANGED refdb /\ (End(r) \/ Goto(r, "create", RecordedVersions))
      BY <2>3 DEF LookVerify
    <3>2. RecordedVersions \in SUBSET Files /\ \A f \in RecordedVersions : recorded[f] # 0
      BY DEF RecordedVersions
    <3>3. RefRecorded(refdb', recorded')
      BY <1>1, <3>1, RefKept
    <3> QED BY <1>1, <3>1, <3>2, <3>3, EndVerify, GoVerify
  <2>4. CASE Compare(r)
    <3>1. EndAndDrop(r)
      BY <1>2, <2>4 DEF Compare
    <3> QED BY <1>1, <3>1, EndVerify
  <2> QED BY <1>1, <1>2, <2>2, <2>3, <2>4, VerifyCreate, VerifyBuild, VerifyDump
<1>3. ASSUME NEW r \in Runs, Step(r), job[r].kind # "verify" PROVE VerifyInv'
  <2>1. CASE Report(r) \/ Return(r)
    BY <1>1, <2>1, EndVerify DEF Report, Return
  <2>2. CASE DumpTarget(r)
    BY <1>1, <2>2, VerifyDump
  <2>3. CASE Compare(r)
    <3>1. EndAndDrop(r) \/ (UNCHANGED refdb /\ Goto(r, "adopt", job[r].todo))
      BY <2>3 DEF Compare
    <3>2. CASE EndAndDrop(r)
      BY <1>1, <3>2, EndVerify
    <3>3. CASE UNCHANGED refdb /\ Goto(r, "adopt", job[r].todo)
      BY <1>1, <1>3, <3>3, MovesOk, RefKept, OtherVerify
    <3> QED BY <3>1, <3>2, <3>3
  <2>4. ~LookVerify(r)
    BY <1>3 DEF LookVerify
  <2> QED BY <1>1, <1>3, <2>1, <2>2, <2>3, <2>4, VerifyOthers DEF Step
<1>4. ASSUME NEW r \in Runs, Kill(r) PROVE VerifyInv'
  BY <1>1, <1>4, EndVerify DEF Kill
<1>5. CASE UNCHANGED <<recorded, refdb, job>>
  BY <1>5 DEF VerifyInv
<1>6. Merge \/ (\E f \in Files : Edit(f)) \/ UNCHANGED vars => UNCHANGED <<recorded, refdb, job>>
  BY DEF Merge, Edit, vars
<1> QED BY <1>1, <1>2, <1>3, <1>4, <1>5, <1>6, VerifyStart DEF Next

\* `make migrate-verify` never calls a database good whose schema shows a definition of
\* a file that its ledger does not record, even when other commands commit, or build in
\* the same reference, while it works; and a file that /v1/schema does not report
\* missing has run here, or was adopted without a trace.
THEOREM VerifyDetectsHolds == Spec => VerifyDetects
<1>1. ASSUME IInv, VerifyInv, NEW r \in Runs, job[r].kind = "verify", Compare(r), Matches(r),
             NEW f \in Files, job[r].dump[f] # 0
      PROVE  recorded[f] # 0
  <2>1. refdb["verify"] # NoDb /\ job[r].dump = Dump(refdb["verify"])
    BY <1>1 DEF Matches
  <2>2. refdb["verify"] \in Databases
    BY <1>1, <2>1 DEF IInv, TypeOK
  <2>3. refdb["verify"].ran[f] # 0
    BY <1>1, <2>1, <2>2, DumpType
  <2> QED BY <1>1, <2>1, <2>3 DEF VerifyInv, RefRecorded
<1>2. ASSUME IInv, NEW r \in Runs, Report(r), NEW f \in job[r].todo \ Missing(r)
      PROVE  live.ran[f] # 0 \/ (f \in baselined /\ Traceless(f))
  <2>1. f \in Files /\ recorded[f] # 0
    BY <1>2, FilesOfJob DEF Missing
  <2> QED BY <1>2, <2>1 DEF IInv, LedgerTrue
<1>3. Init => VerifyInv
  <2> SUFFICES ASSUME Init PROVE VerifyInv
    OBVIOUS
  <2>1. \A r \in Runs : job[r].kind # "verify"
    BY DEF Init, Idle
  <2>2. refdb["verify"] = NoDb
    BY DEF Init
  <2> QED BY <2>1, <2>2 DEF VerifyInv, VerifyJob, RefRecorded
<1>4. IInv /\ VerifyInv /\ [Next]_vars => VerifyInv'
  BY VerifyNext
<1>5. IInv /\ VerifyInv =>
        \A r \in Runs :
          /\ job[r].kind = "verify" /\ Compare(r) /\ Matches(r) =>
                \A f \in Files : job[r].dump[f] # 0 => recorded[f] # 0
          /\ Report(r) => \A f \in job[r].todo \ Missing(r) :
                live.ran[f] # 0 \/ (f \in baselined /\ Traceless(f))
  BY <1>1, <1>2
<1> QED BY <1>3, <1>4, <1>5, Invariance, PTL DEF Spec, VerifyDetects
=============================================================================
