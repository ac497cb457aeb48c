------------------------- MODULE MigrationLedger -------------------------
(***************************************************************************)
(* scripts/migrate.py, scripts/migrate_baseline.py, scripts/              *)
(* migrate_verify.py, the Makefile's `schema` target and the viewer's      *)
(* GET /v1/schema, behind the guard of infra/env.py: which migration files *)
(* have been run against a database, and what the schema_migrations       *)
(* table (created by one of those files, 0046) says about it.              *)
(*                                                                         *)
(* A file is a number, its place in the order of the directory.  Its       *)
(* content is a number as well: 0 is a file that is not there yet, 1 the   *)
(* file as merged, 2 the file edited afterwards.  A file defines one       *)
(* object: it creates it, or defines anew what an earlier file created     *)
(* (0059 replaces the function of 0058), or writes rows only (0016, 0023,  *)
(* 0026).  A schema-only dump shows, of each object, its last definition,  *)
(* and no rows.  Every statement that commits is one action; several       *)
(* commands, by hand or in CI, may run at the same time.                   *)
(***************************************************************************)
EXTENDS Naturals, FiniteSets, DatabaseUrl

CONSTANTS
    Files,        \* the migration files, in the order of their numbers
    LedgerFile,   \* 0046, the one that creates schema_migrations
    Object,       \* Object[f]: what f defines, named by the file that creates it
    DataOnly,     \* the files that write rows and define nothing a dump shows
    Again,        \* the files that run where their object exists (CREATE OR REPLACE)
    Merged,       \* the files that are in the directory at the start
    Runs,         \* terminals and CI jobs, each running one command at a time
    Baseliners,   \* those of them that may run migrate_baseline.py
    MaxFaults     \* bound: files edited after they were merged and commands killed

\* Two baselines at the same time would share one reference database, and the
\* one could adopt on what the other had built: there is one baseliner at most.
ASSUME LedgerAssumption ==
    /\ \A p, q \in Baseliners : p = q
    /\ Files \subseteq Nat \ {0} /\ IsFiniteSet(Files)
    /\ LedgerFile \in Merged /\ Merged \subseteq Files
    /\ Baseliners \subseteq Runs
    /\ MaxFaults \in Nat

\* No other file touches the table schema_migrations, and the files of one object
\* are written to run in their order.
ASSUME ObjectAssumption ==
    /\ Object \in [Files -> Files] /\ DataOnly \subseteq Files /\ Again \subseteq Files
    /\ LedgerFile \notin DataOnly \cup Again
    /\ \A f, g \in Files : Object[f] = Object[g] =>
          /\ f \in DataOnly <=> g \in DataOnly
          /\ f < g => g \in Again
          /\ f = LedgerFile <=> g = LedgerFile

VARIABLES
    disk,         \* disk[f]: the content of f in db/migrations
    live,         \* the database: live.ran[f], the content of f that ran here last
                  \* (0: none), live.top, the files whose definition is in force
    recorded,     \* recorded[f]: file_sha256 of the row of f, 0 if no row
    baselined,    \* the rows written by migrate_baseline.py
    hand,         \* the files applied by hand before there was a ledger
    refdb,        \* refdb[k]: the reference database of command k
    job,          \* job[r]: what terminal r is running
    faults        \* files edited and commands killed so far

vars == <<disk, live, recorded, baselined, hand, refdb, job, faults>>

Kinds == {"migrate", "schema", "baseline", "verify", "state"}
Contents == 0..2
Schemas == [Files -> Contents]
Databases == [ran : Schemas, top : SUBSET Files]
Empty == [f \in Files |-> 0]
EmptyDb == [ran |-> Empty, top |-> {}]
NoDb == [ran |-> <<>>, top |-> {}]

Idle == [kind |-> "migrate", pc |-> "idle", todo |-> {}, digest |-> 0,
         dump |-> Empty, override |-> FALSE, oneHost |-> FALSE]

Jobs == [kind : Kinds,
         pc : {"idle", "look", "bootstrap", "read", "apply", "create", "build",
               "dump", "compare", "adopt", "adoptRows", "list", "report", "away"},
         todo : SUBSET Files,
         digest : Contents,
         dump : Schemas,
         override : BOOLEAN,
         oneHost : BOOLEAN]

\* all_migrations(): the *.sql files in the directory now.
AllMigrations == {f \in Files : disk[f] # 0}

\* ledger_exists() and other_tables_exist().
LedgerExists == live.ran[LedgerFile] # 0
OtherTablesExist == \E f \in Files \ (DataOnly \cup {LedgerFile}) : live.ran[f] # 0

\* The first of a set of files in the order of the directory.
Earliest(s) == CHOOSE f \in s : \A g \in s : f <= g

\* The database after content c of f has run in it.
RunFile(db, f, c) ==
    [ran |-> [db.ran EXCEPT ![f] = c],
     top |-> {f} \cup {g \in db.top : Object[g] # Object[f]}]

\* dump_schema(): pg_dump --schema-only without the table schema_migrations, that
\* is, what the definitions in force say.
Dump(db) == [f \in Files |-> IF f \in db.top \ (DataOnly \cup {LedgerFile})
                             THEN db.ran[f] ELSE 0]

End(r) == job' = [job EXCEPT ![r] = Idle]
Goto(r, pc, todo) == job' = [job EXCEPT ![r].pc = pc, ![r].todo = todo,
                                              ![r].digest = 0]

\* The `finally` of baseline and verify: the sessions in the reference database
\* are terminated, whoever opened them, and it is dropped.
EndAndDrop(r) ==
    LET k == job[r].kind
    IN  /\ job' = [q \in Runs |-> IF q = r \/ (job[q].kind = k /\ job[q].pc = "build")
                                  THEN Idle ELSE job[q]]
        /\ refdb' = [refdb EXCEPT ![k] = NoDb]

-----------------------------------------------------------------------------

\* The database is empty, or some files were applied to it before 0046 existed.
Init ==
    /\ disk = [f \in Files |-> IF f \in Merged THEN 1 ELSE 0]
    /\ hand \in SUBSET (Merged \ {LedgerFile})
    /\ hand \subseteq DataOnly => hand = {}
    /\ live = [ran |-> [f \in Files |-> IF f \in hand THEN 1 ELSE 0],
               top |-> {f \in hand : \A g \in hand : Object[g] = Object[f] => g <= f}]
    /\ recorded = Empty
    /\ baselined = {}
    /\ refdb = [k \in {"baseline", "verify"} |-> NoDb]
    /\ job = [r \in Runs |-> Idle]
    /\ faults = 0

(***************************************************************************)
(* ACTION Start: `make migrate`, `make schema`, `make migrate-baseline`,   *)
(* `make migrate-verify` or a request for /v1/schema, with a DATABASE_URL  *)
(* the guard lets pass; a command it refuses touches nothing.  This        *)
(* machine has the database; a connection to a remote host works on        *)
(* another one, of which nothing is modelled.                              *)
(***************************************************************************)
FirstPc == [migrate |-> "look", schema |-> "bootstrap", baseline |-> "create",
            verify |-> "look", state |-> "list"]

StartHere(r, k) ==
    /\ k = "baseline" => r \in Baseliners
    /\ job' = [job EXCEPT ![r] = [Idle EXCEPT !.kind = k, !.pc = FirstPc[k]]]

StartAway(r, c) ==
    job' = [job EXCEPT ![r] = [Idle EXCEPT !.pc = "away", !.override = c.override,
                                           !.oneHost = c.oneHost]]

Start(r, k) ==
    /\ job[r].pc = "idle"
    /\ \E c \in Connections :
          IF c.to = "remote" THEN StartAway(r, c) ELSE StartHere(r, k)
    /\ UNCHANGED <<disk, live, recorded, baselined, hand, refdb, faults>>

Return(r) ==
    /\ job[r].pc = "away"
    /\ End(r)
    /\ UNCHANGED <<disk, live, recorded, baselined, hand, refdb, faults>>

(***************************************************************************)
(* ACTION LookMigrate: migrate.py asks for the ledger and, without one,    *)
(* for any other table: an unrecorded database is refused.                 *)
(***************************************************************************)
LookMigrate(r) ==
    /\ job[r].kind = "migrate" /\ job[r].pc = "look"
    /\ \/ /\ LedgerExists
          /\ Goto(r, "read", {})
       \/ /\ ~LedgerExists /\ ~OtherTablesExist
          /\ Goto(r, "bootstrap", {})
       \/ /\ ~LedgerExists /\ OtherTablesExist
          /\ End(r)
    /\ UNCHANGED <<disk, live, recorded, baselined, hand, refdb, faults>>

(***************************************************************************)
(* ACTION Hash: the digest of the next file (file_sha256, shasum).  The    *)
(* file is read again when it is run, and may be edited in between.        *)
(***************************************************************************)
NextFile(r) == IF job[r].pc = "apply" THEN Earliest(job[r].todo) ELSE LedgerFile

Hash(r) ==
    /\ job[r].pc \in {"bootstrap", "apply", "adopt"} /\ job[r].digest = 0
    /\ job' = [job EXCEPT ![r].digest = disk[NextFile(r)]]
    /\ UNCHANGED <<disk, live, recorded, baselined, hand, refdb, faults>>

(***************************************************************************)
(* apply_one(): the SQL of f and its row, one commit.  It fails, and       *)
(* leaves nothing, when it creates what is there, when the row is there,   *)
(* or when there is no table to put the row in.                            *)
(***************************************************************************)
CanApply(f) ==
    /\ f \in Again \/ \A g \in live.top : Object[g] # Object[f]
    /\ recorded[f] = 0
    /\ f = LedgerFile \/ LedgerExists

\* Mutant: the SQL is committed before the row, and a kill may fall between.
CommitDdlFirst(f, digest) ==
    /\ CanApply(f)
    /\ live' = RunFile(live, f, disk[f])
    /\ recorded' \in {recorded, [recorded EXCEPT ![f] = digest]}

\* Mutant: the file is hashed after it was run.
HashLast(f, digest) ==
    /\ CanApply(f)
    /\ live' = RunFile(live, f, digest)
    /\ recorded' = [recorded EXCEPT ![f] = disk[f]]

ApplyOne(f, digest) ==
    /\ CanApply(f)
    /\ live' = RunFile(live, f, disk[f])
    /\ recorded' = [recorded EXCEPT ![f] = digest]

\* An exception ends the command; what it committed before stays.
Raise(r) ==
    /\ IF job[r].kind = "baseline" THEN EndAndDrop(r)
                                   ELSE End(r) /\ UNCHANGED refdb
    /\ UNCHANGED <<live, recorded>>

(***************************************************************************)
(* ACTION Bootstrap: 0046 first, out of order.                             *)
(***************************************************************************)
Bootstrap(r) ==
    /\ job[r].pc = "bootstrap" /\ job[r].digest # 0
    /\ \/ /\ ApplyOne(LedgerFile, job[r].digest)
          /\ Goto(r, "read", {})
          /\ UNCHANGED refdb
       \/ /\ ~CanApply(LedgerFile)
          /\ Raise(r)
    /\ UNCHANGED <<disk, baselined, hand, faults>>

(***************************************************************************)
(* ACTION Read: migrate.py reads the ledger and hashes every file.  One    *)
(* changed file refuses all; files with no row are pending, in order.      *)
(* `make schema` takes every other file, whatever the ledger says.         *)
(***************************************************************************)
Read(r) ==
    LET changed == {f \in AllMigrations : recorded[f] \notin {0, disk[f]}}
        pending == {f \in AllMigrations : recorded[f] = 0}
    IN  /\ job[r].pc = "read"
        /\ \/ /\ job[r].kind = "migrate"
              /\ IF changed # {} \/ pending = {}
                 THEN End(r)
                 ELSE Goto(r, "apply", pending)
           \/ /\ job[r].kind = "schema"
              /\ IF AllMigrations = {LedgerFile}
                 THEN End(r)
                 ELSE Goto(r, "apply", AllMigrations \ {LedgerFile})
        /\ UNCHANGED <<disk, live, recorded, baselined, hand, refdb, faults>>

(***************************************************************************)
(* ACTION Apply: the next pending file, committed on its own.  An error    *)
(* stops the run with the earlier ones applied.                            *)
(***************************************************************************)
Apply(r) ==
    LET f == Earliest(job[r].todo)
        rest == job[r].todo \ {f}
    IN  /\ job[r].pc = "apply" /\ job[r].digest # 0
        /\ \/ /\ ApplyOne(f, job[r].digest)
              /\ IF rest = {} THEN End(r) ELSE Goto(r, "apply", rest)
              /\ UNCHANGED refdb
           \/ /\ ~CanApply(f)
              /\ Raise(r)
        /\ UNCHANGED <<disk, baselined, hand, faults>>

-----------------------------------------------------------------------------

(***************************************************************************)
(* ACTION LookVerify: migrate_verify.py reads which versions are recorded; *)
(* without a ledger it refuses.                                            *)
(***************************************************************************)
\* Mutant: the reference is built from every file in the directory.
ReadDirectory == AllMigrations

RecordedVersions == {f \in Files : recorded[f] # 0}

LookVerify(r) ==
    /\ job[r].kind = "verify" /\ job[r].pc = "look"
    /\ IF LedgerExists THEN Goto(r, "create", RecordedVersions) ELSE End(r)
    /\ UNCHANGED <<disk, live, recorded, baselined, hand, refdb, faults>>

(***************************************************************************)
(* ACTION Create: the reference database, dropping one a killed run left.  *)
(* The drop fails while another session is building in it.                 *)
(***************************************************************************)
InUse(k) == \E q \in Runs : job[q].kind = k /\ job[q].pc = "build"

Create(r) ==
    LET k == job[r].kind
    IN  /\ job[r].pc = "create"
        /\ \/ /\ InUse(k)
              /\ End(r)
              /\ UNCHANGED refdb
           \/ /\ ~InUse(k)
              /\ refdb' = [refdb EXCEPT ![k] = EmptyDb]
              /\ IF k = "baseline" THEN Goto(r, "look", {})
                                   ELSE Goto(r, "build", job[r].todo)
        /\ UNCHANGED <<disk, live, recorded, baselined, hand, faults>>

(***************************************************************************)
(* ACTION LookBaseline: a database with a ledger, or with nothing in it,   *)
(* has nothing to adopt.  The list of files is read once, here.            *)
(***************************************************************************)
LookBaseline(r) ==
    /\ job[r].kind = "baseline" /\ job[r].pc = "look"
    /\ \/ /\ LedgerExists \/ ~OtherTablesExist
          /\ EndAndDrop(r)
       \/ /\ ~LedgerExists /\ OtherTablesExist
          /\ Goto(r, "build", AllMigrations) /\ UNCHANGED refdb
    /\ UNCHANGED <<disk, live, recorded, baselined, hand, faults>>

(***************************************************************************)
(* ACTION Build: the files of the list, run one by one, each committed     *)
(* with a row of its own, in the reference database: 0046 first, then in   *)
(* order.  A file that fails ends the command.                             *)
(***************************************************************************)
NextOfList(s) == IF LedgerFile \in s THEN LedgerFile ELSE Earliest(s)

Build(r) ==
    LET k == job[r].kind
        left == {f \in job[r].todo : refdb[k].ran[f] = 0}
    IN  /\ job[r].pc = "build"
        /\ \/ /\ left # {}
              /\ LET f == NextOfList(left)
                 IN  refdb' = [refdb EXCEPT ![k] = RunFile(refdb[k], f, disk[f])]
              /\ UNCHANGED job
           \/ /\ left # {}
              /\ EndAndDrop(r)
           \/ /\ left = {}
              /\ Goto(r, "dump", job[r].todo)
              /\ UNCHANGED refdb
        /\ UNCHANGED <<disk, live, recorded, baselined, hand, faults>>

(***************************************************************************)
(* ACTION DumpTarget: pg_dump of the database under test.                  *)
(***************************************************************************)
DumpTarget(r) ==
    /\ job[r].pc = "dump"
    /\ job' = [job EXCEPT ![r].pc = "compare", ![r].dump = Dump(live)]
    /\ UNCHANGED <<disk, live, recorded, baselined, hand, refdb, faults>>

(***************************************************************************)
(* ACTION Compare: pg_dump of the reference, and the verdict.  Verify      *)
(* reports it; baseline refuses on any difference and adopts on none.      *)
(***************************************************************************)
\* Mutant: the dumps are compared by the names of the objects in them.
MatchesByName(r) ==
    LET k == job[r].kind
        Shown(dump) == {Object[f] : f \in {g \in Files : dump[g] # 0}}
    IN  refdb[k] # NoDb /\ Shown(job[r].dump) = Shown(Dump(refdb[k]))

Matches(r) ==
    LET k == job[r].kind
    IN  refdb[k] # NoDb /\ job[r].dump = Dump(refdb[k])

Compare(r) ==
    /\ job[r].pc = "compare"
    /\ \/ /\ job[r].kind = "baseline" /\ Matches(r)
          /\ Goto(r, "adopt", job[r].todo)
          /\ UNCHANGED refdb
       \/ /\ job[r].kind = "verify" \/ ~Matches(r)
          /\ EndAndDrop(r)
    /\ UNCHANGED <<disk, live, recorded, baselined, hand, faults>>

(***************************************************************************)
(* ACTION Adopt: 0046 is applied for real; then one row per file, marked   *)
(* as a baseline, each in a transaction of its own.                        *)
(***************************************************************************)
Adopt(r) ==
    LET rest == job[r].todo \ {LedgerFile}
    IN  /\ job[r].pc = "adopt" /\ job[r].digest # 0
        /\ \/ /\ ApplyOne(LedgerFile, job[r].digest)
              /\ IF rest = {} THEN EndAndDrop(r)
                              ELSE Goto(r, "adoptRows", rest) /\ UNCHANGED refdb
           \/ /\ ~CanApply(LedgerFile)
              /\ Raise(r)
        /\ UNCHANGED <<disk, baselined, hand, faults>>

AdoptRow(r) ==
    LET f == Earliest(job[r].todo)
        rest == job[r].todo \ {f}
    IN  /\ job[r].pc = "adoptRows"
        /\ IF recorded[f] # 0 \/ ~LedgerExists
           THEN Raise(r) /\ UNCHANGED baselined
           ELSE /\ recorded' = [recorded EXCEPT ![f] = disk[f]]
                /\ baselined' = baselined \cup {f}
                /\ IF rest = {} THEN EndAndDrop(r)
                                ELSE Goto(r, "adoptRows", rest) /\ UNCHANGED refdb
                /\ UNCHANGED live
        /\ UNCHANGED <<disk, hand, faults>>

-----------------------------------------------------------------------------

(***************************************************************************)
(* ACTIONS List and Report: GET /v1/schema lists the directory, then reads *)
(* the ledger, if there is one; the rest of the listing is `missing`.      *)
(***************************************************************************)
List(r) ==
    /\ job[r].pc = "list"
    /\ Goto(r, "report", AllMigrations)
    /\ UNCHANGED <<disk, live, recorded, baselined, hand, refdb, faults>>

Missing(r) == {f \in job[r].todo : ~LedgerExists \/ recorded[f] = 0}

Report(r) ==
    /\ job[r].pc = "report"
    /\ End(r)
    /\ UNCHANGED <<disk, live, recorded, baselined, hand, refdb, faults>>

(***************************************************************************)
(* ACTION Kill: the process dies; what it committed stays, its reference   *)
(* database too.                                                           *)
(***************************************************************************)
Kill(r) ==
    /\ job[r].pc # "idle" /\ faults < MaxFaults
    /\ End(r)
    /\ faults' = faults + 1
    /\ UNCHANGED <<disk, live, recorded, baselined, hand, refdb>>

(***************************************************************************)
(* ACTION Merge and Edit: a pull brings a new file; somebody changes one.  *)
(***************************************************************************)
Merge ==
    /\ AllMigrations # Files
    /\ disk' = [disk EXCEPT ![Earliest(Files \ AllMigrations)] = 1]
    /\ UNCHANGED <<live, recorded, baselined, hand, refdb, job, faults>>

Edit(f) ==
    /\ disk[f] = 1 /\ faults < MaxFaults
    /\ disk' = [disk EXCEPT ![f] = 2]
    /\ faults' = faults + 1
    /\ UNCHANGED <<live, recorded, baselined, hand, refdb, job>>

Step(r) ==
    \/ LookMigrate(r) \/ Hash(r) \/ Bootstrap(r) \/ Read(r) \/ Apply(r)
    \/ LookVerify(r) \/ LookBaseline(r) \/ Create(r) \/ Build(r)
    \/ DumpTarget(r) \/ Compare(r) \/ Adopt(r) \/ AdoptRow(r)
    \/ List(r) \/ Report(r) \/ Return(r)

Next ==
    \/ \E r \in Runs : Step(r) \/ Kill(r)
    \/ \E r \in Runs, k \in Kinds : Start(r, k)
    \/ Merge
    \/ \E f \in Files : Edit(f)

Spec == Init /\ [][Next]_vars

StartMigrate(r) == Start(r, "migrate") /\ job'[r].pc = "look"

\* A command that was started goes on (a lock it waits for is released when
\* the other command commits or dies), and `make migrate` is run again on this
\* database.
FairSpec ==
    /\ Spec
    /\ \A r \in Runs : WF_vars(Step(r)) /\ SF_vars(StartMigrate(r))

-----------------------------------------------------------------------------

\* The state has its shape, and a reference database has the table that every file
\* run in it adds a row to.
TypeOK ==
    /\ disk \in Schemas /\ live \in Databases /\ recorded \in Schemas
    /\ baselined \subseteq Files /\ hand \subseteq Files \ {LedgerFile}
    /\ refdb \in [{"baseline", "verify"} -> Databases \cup {NoDb}]
    /\ \A k \in {"baseline", "verify"} : refdb[k] # NoDb =>
          \A f \in Files : refdb[k].ran[f] # 0 => refdb[k].ran[LedgerFile] # 0
    /\ job \in [Runs -> Jobs]
    /\ faults \in 0..MaxFaults

\* A file that a schema-only dump of this database cannot show: it writes rows, or a
\* later file that ran here defines its object anew.
Traceless(f) ==
    \/ f \in DataOnly
    \/ \E g \in Files : f < g /\ Object[g] = Object[f] /\ live.ran[g] # 0

\* What the ledger says after every commit of every command, whatever was killed and
\* whatever ran at the same time.  A row names a file that ran here, or one that a
\* baseline adopted although no dump can show whether it ran.  The digest of a row
\* that was not adopted is that of the content that ran, or, when the file was
\* edited between the two reads of apply_one(), one that the file no longer has, so
\* that every later `make migrate` refuses.  What ran without a row was run by hand
\* before there was a ledger.
LedgerTrue ==
    \A f \in Files :
        /\ recorded[f] # 0 =>
              /\ live.ran[f] # 0 \/ (f \in baselined /\ Traceless(f))
              /\ recorded[f] = live.ran[f] \/ f \in baselined \/ recorded[f] # disk[f]
        /\ live.ran[f] # 0 /\ recorded[f] = 0 => f \in hand

\* `make migrate-verify` never calls a database good whose schema shows a definition
\* of a file that its ledger does not record (what a baseline killed between its rows
\* leaves behind), even when other commands commit while it builds its reference; and
\* a file that /v1/schema does not report missing has run here, or was adopted
\* without a trace.  A file that only wrote rows, or whose definition was replaced,
\* is not in any dump: verify says nothing of it.
VerifyDetects ==
    [][\A r \in Runs :
          /\ job[r].kind = "verify" /\ Compare(r) /\ Matches(r) =>
                \A f \in Files : job[r].dump[f] # 0 => recorded[f] # 0
          /\ Report(r) => \A f \in job[r].todo \ Missing(r) :
                live.ran[f] # 0 \/ (f \in baselined /\ Traceless(f))]_vars

\* No program of the migration toolchain, and no request to the viewer, reaches a
\* database on another machine with a URL that names one host, unless
\* LEDGEX_ALLOW_REMOTE_DB was set: the guard and libpq read such a URL alike, or the
\* guard refuses it.
GuardHolds ==
    \A r \in Runs : job[r].pc = "away" => job[r].override \/ ~job[r].oneHost

\* A database that was not built by hand, and whose files are not edited, is in
\* the end up to date and recorded as such, through kills and competing commands.
CatchesUp ==
    hand = {} /\ [](\A f \in Files : disk[f] # 2)
        => <>[](\A f \in AllMigrations : recorded[f] = disk[f] /\ live.ran[f] = disk[f])
=============================================================================
