---------------------------- MODULE PermitsLoad ----------------------------
(***************************************************************************)
(* load_permits of scripts/ingest_zoning_permits.py: the rows of one       *)
(* permits export are grouped by APN, attributed to the parcel that bears  *)
(* the APN, and reconciled with the live permits.active and                *)
(* permits.series_earliest facts.  An export that no longer mentions a     *)
(* parcel says nothing of it: the live facts stay and an exception says    *)
(* that they could not be confirmed (C2).                                  *)
(*                                                                         *)
(* A load is one transaction whose SELECTs are steps, because a parcels    *)
(* run (Renumber) may commit between them.  One permits load runs at a     *)
(* time.                                                                   *)
(***************************************************************************)
EXTENDS Naturals, FiniteSets

CONSTANTS
    Parcels,    \* parcels of the jurisdiction
    Apns,       \* canonical APNs
    RawApns,    \* what the export writes in its APN column
    Canon,      \* canonicalize_identifier, Blank for a blank identifier
    Blank,
    Dates,      \* issue dates, ordered as numbers
    BadDate,    \* a date strptime refuses
    Snapshots,  \* permits snapshots
    Export,     \* the rows [apn, date, active] of each snapshot
    InitApn,    \* the APN of each parcel before the behaviour
    InitFacts,  \* the facts an older loader may have left
    MaxLoads,   \* bound on the loads of a behaviour
    MaxMoves,   \* bound on the APN changes of a behaviour
    None        \* SQL NULL

Rows == [apn : RawApns, date : Dates \cup {BadDate}, active : BOOLEAN]

ASSUME PermitsAssumption ==
    /\ Canon \in [RawApns -> Apns \cup {Blank}]
    /\ Dates \subseteq Nat
    /\ DOMAIN Export = Snapshots /\ \A x \in Snapshots : Export[x] \subseteq Rows
    /\ InitApn \in [Parcels -> Apns \cup {None}]
    /\ Blank \notin Apns /\ BadDate \notin Dates
    /\ IsFiniteSet(Parcels)
ASSUME NoneAssumption == None \notin Apns \cup Snapshots \cup Nat
ASSUME BoundsAssumption == MaxLoads \in Nat /\ MaxMoves \in Nat

VARIABLES
    apn,         \* parcel.apn
    facts,       \* the permits facts
    exceptions,  \* permit_attribution_lost rows
    job,         \* status of the permits job_runs, by start order
    loads,       \* how many loads have started
    loader,      \* the running load
    moves,       \* how many APN changes
    settled      \* history: the snapshot of the last load, if no APN has
                 \* changed since that load began, else None

vars == <<apn, facts, exceptions, job, loads, loader, moves, settled>>

Fields == {"active", "earliest"}

False == 0
True == 1

\* fact: `val` is False or True for permits.active and a date for
\* permits.series_earliest; `sup` and `live` as in ZoningLoad.
Facts == [run : Nat, parcel : Parcels, field : Fields, val : Dates \cup {False, True},
          sup : Nat \cup {None}, live : BOOLEAN]

\* What an older loader left is of run 0; the index fact_one_current_per_source
\* keeps one row of each key current.
ASSUME InitFactsAssumption ==
    \A F \in InitFacts :
        /\ \A f \in F : f \in Facts /\ f.run = 0
        /\ \A f, g \in F : f.parcel = g.parcel /\ f.field = g.field => f = g

Exceptions == [run : Nat, parcel : Parcels, closed : Nat, from : Nat \cup {None}]

NoLoad == [pc |-> "idle", snap |-> None, fresh |-> [p \in Parcels |-> None],
           live |-> {}, calm |-> TRUE]

Init ==
    /\ apn = InitApn
    /\ facts \in InitFacts
    /\ exceptions = {}
    /\ job = [r \in 1..MaxLoads |-> "none"]
    /\ loads = 0
    /\ loader = NoLoad
    /\ moves = 0
    /\ settled = None

-----------------------------------------------------------------------------
(* Reading the export.                                                     *)

At(pc) == loader.pc = pc
Live == {f \in facts : f.live}

\* The rows that carry an APN; the others are counted and skipped.
Named(x) == {r \in Export[x] : Canon[r.apn] # Blank}

\* by_apn: the dates of the rows of an APN.
DatesOf(x, a) == {r.date : r \in {r \in Named(x) : Canon[r.apn] = a}}

\* A row that is not Active or a date that does not parse refuses the load, and
\* so does an export with no rows: the share of unmatched rows divides by zero.
Refused(x) ==
    \/ Export[x] = {}
    \/ \E r \in Export[x] : ~r.active
    \/ \E r \in Named(x) : r.date = BadDate

Bearers(a) == {p \in Parcels : apn[p] = a}

\* Mutant: the latest date of the series is kept.
LatestOf(x, a) ==
    IF DatesOf(x, a) = {} THEN None
    ELSE CHOOSE d \in DatesOf(x, a) : \A e \in DatesOf(x, a) : e <= d

\* min(dates) of an APN, None if no row carries it.
EarliestOf(x, a) ==
    IF DatesOf(x, a) = {} THEN None
    ELSE CHOOSE d \in DatesOf(x, a) : \A e \in DatesOf(x, a) : d <= e

\* fresh_by_parcel: the earliest date of the parcel's APN, unless two parcels
\* bear that APN.
Attributed(x) ==
    [p \in Parcels |->
        IF apn[p] # None /\ Cardinality(Bearers(apn[p])) = 1
        THEN EarliestOf(x, apn[p]) ELSE None]

-----------------------------------------------------------------------------
\* A parcels run gives a parcel another APN, or none.
Renumber(p, a) ==
    /\ moves < MaxMoves /\ a # apn[p]
    /\ moves' = moves + 1
    /\ apn' = [apn EXCEPT ![p] = a]
    /\ loader' = [loader EXCEPT !.calm = FALSE]
    /\ settled' = None
    /\ UNCHANGED <<facts, exceptions, job, loads>>

\* ACTION Begin: start_job_run, committed at once.
Begin(x) ==
    /\ At("idle") /\ loads < MaxLoads
    /\ loads' = loads + 1
    /\ job' = [job EXCEPT ![loads + 1] = "running"]
    /\ loader' = [NoLoad EXCEPT !.pc = "parsing", !.snap = x]
    /\ UNCHANGED <<apn, facts, exceptions, moves, settled>>

\* ACTION Attribute: the export is parsed and joined with the parcels' APNs.
Attribute ==
    /\ At("parsing") /\ ~Refused(loader.snap)
    /\ loader' = [loader EXCEPT !.pc = "attributed",
                      !.fresh = Attributed(loader.snap)]
    /\ UNCHANGED <<apn, facts, exceptions, job, loads, moves, settled>>

\* ACTION ReadLive: the live permits facts, from `fact`, not from current_fact.
ReadLive ==
    /\ At("attributed")
    /\ loader' = [loader EXCEPT !.pc = "read", !.live = Live]
    /\ UNCHANGED <<apn, facts, exceptions, job, loads, moves, settled>>

-----------------------------------------------------------------------------
(* The diff.                                                               *)

FreshValue(p, field) ==
    IF loader.fresh[p] = None THEN None
    ELSE IF field = "active" THEN True ELSE loader.fresh[p]

LiveOf(p, field) == {f \in loader.live : f.parcel = p /\ f.field = field}

\* Mutant: a fact the export no longer confirms is retired.
DiffersOrAbsent(p, field) ==
    {f \in LiveOf(p, field) : f.val # FreshValue(p, field)}

\* The live facts the load supersedes: only those it has another value for.
Superseded(p, field) ==
    {f \in LiveOf(p, field) : FreshValue(p, field) # None /\ f.val # FreshValue(p, field)}

Written(p, field) ==
    LET v == FreshValue(p, field)
        old == LiveOf(p, field)
        Fact(sup) == [run |-> loads, parcel |-> p, field |-> field, val |-> v,
                      sup |-> sup, live |-> TRUE]
    IN  IF v = None \/ \E f \in old : f.val = v THEN {}
        ELSE IF old = {} THEN {Fact(None)} ELSE {Fact(f.run) : f \in old}

\* attribution_lost_parcels: a live fact the load found no value for.
Lost == {f.parcel : f \in {f \in loader.live : loader.fresh[f.parcel] = None}}

\* attribution_confirmed_parcels: a live fact it found a value for.
Confirmed == {f.parcel : f \in {f \in loader.live : loader.fresh[f.parcel] # None}}

\* Mutant: the exception is raised again on every load.
LostAgain == Lost

\* existing_open_permit is read after the facts are written.
NewlyLost == Lost \ {e.parcel : e \in {e \in exceptions : e.closed = 0}}

\* Mutant: an exception that was raised stays open.
KeepOpen(table) == table

\* close_exceptions_for_parcels for the confirmed parcels.
CloseConfirmed(table) ==
    {IF e.closed = 0 /\ e.parcel \in Confirmed
     THEN [e EXCEPT !.closed = loads] ELSE e : e \in table}

\* relink_reopened_exceptions.
Relink(table) ==
    LET closed(e) == {c \in table : c.closed # 0 /\ c.parcel = e.parcel}
        last(e) == CHOOSE c \in closed(e) : \A d \in closed(e) : d.closed <= c.closed
    IN  {IF e.closed = 0 /\ e.from = None /\ closed(e) # {}
         THEN [e EXCEPT !.from = last(e).run] ELSE e : e \in table}

\* ACTION Commit: the facts, superseded before their successors, then the
\* exceptions, raised and relinked before the confirmed ones are closed.
Commit ==
    LET keys == Parcels \X Fields
        dead == UNION {Superseded(k[1], k[2]) : k \in keys}
        born == UNION {Written(k[1], k[2]) : k \in keys}
        raised == {[run |-> loads, parcel |-> p, closed |-> 0, from |-> None] : p \in NewlyLost}
    IN
    /\ At("read")
    /\ facts' = {IF f \in dead THEN [f EXCEPT !.live = FALSE] ELSE f : f \in facts} \cup born
    /\ exceptions' = CloseConfirmed(IF raised = {} THEN exceptions
                                    ELSE Relink(exceptions \cup raised))
    /\ job' = [job EXCEPT ![loads] = "succeeded"]
    /\ loader' = NoLoad
    /\ settled' = IF loader.calm THEN loader.snap ELSE None
    /\ UNCHANGED <<apn, loads, moves>>

\* ACTION Fail: the refusal of the export, or any other exception, rolls back.
Fail ==
    /\ ~At("idle")
    /\ job' = [job EXCEPT ![loads] = "failed"]
    /\ loader' = NoLoad
    /\ UNCHANGED <<apn, facts, exceptions, loads, moves, settled>>

\* ACTION Crash: the process dies; the database rolls back, the job_run stays.
Crash ==
    /\ ~At("idle")
    /\ loader' = NoLoad
    /\ UNCHANGED <<apn, facts, exceptions, job, loads, moves, settled>>

Next ==
    \/ \E p \in Parcels, a \in Apns \cup {None} : Renumber(p, a)
    \/ \E x \in Snapshots : Begin(x)
    \/ Attribute
    \/ ReadLive
    \/ Commit
    \/ Fail
    \/ Crash

Spec == Init /\ [][Next]_vars

-----------------------------------------------------------------------------
(* Properties.                                                             *)

\* The shape of the tables.
TypeOK ==
    /\ apn \in [Parcels -> Apns \cup {None}]
    /\ \A f \in facts : f \in Facts
    /\ \A e \in exceptions : e \in Exceptions
    /\ \A e, f \in exceptions : e.closed = 0 /\ f.closed = 0 /\ e.parcel = f.parcel => e = f
    /\ loads \in 0..MaxLoads /\ moves \in 0..MaxMoves
    /\ job \in [1..MaxLoads -> {"none", "running", "succeeded", "failed"}]
    /\ loader.live \subseteq facts

HasLive(p, field, v) == \E f \in Live : f.parcel = p /\ f.field = field /\ f.val = v
IsLive(p) == \E f \in Live : f.parcel = p

\* The parcel alone bears an APN that a row of the export carries.
Mentioned(x, p) ==
    \E r \in Named(x) : \A q \in Parcels : apn[q] = Canon[r.apn] <=> q = p

\* After a load nothing disturbed, a parcel the export mentions is active since
\* the earliest of its dates, whatever a former load or an older program left.
FactsMatchExport ==
    settled # None =>
        \A p \in Parcels : Mentioned(settled, p) =>
            /\ HasLive(p, "active", True) /\ ~HasLive(p, "active", False)
            /\ \A d \in Dates : HasLive(p, "earliest", d) =>
                   /\ d \in DatesOf(settled, apn[p])
                   /\ \A e \in DatesOf(settled, apn[p]) : d <= e
            /\ \E d \in Dates : HasLive(p, "earliest", d)

\* After such a load a parcel has an open permit_attribution_lost exception
\* exactly if it has live permits facts the export does not mention.
LostIsOpen ==
    settled # None =>
        {e.parcel : e \in {e \in exceptions : e.closed = 0}} =
            {p \in Parcels : IsLive(p) /\ ~Mentioned(settled, p)}

\* A permits fact dies only by a successor: absence from an export, a blank or
\* an ambiguous APN never retires one (C2).
NeverRetired ==
    [][\A f \in Live : f \in facts'
           \/ \E g \in facts' : g.parcel = f.parcel /\ g.field = f.field /\ g.live
                                /\ g.sup = f.run /\ g.val # f.val]_vars

\* Loading the same export again, with no APN changed in between, writes no
\* fact and touches no exception.
RerunIsQuiet ==
    [][settled # None /\ loader.snap = settled /\ loader.calm /\ job' # job
           => facts' = facts /\ exceptions' = exceptions]_vars
=============================================================================
