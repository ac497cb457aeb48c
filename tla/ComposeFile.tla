--------------------------- MODULE ComposeFile ---------------------------
(***************************************************************************)
(* scripts/compose_property_file.py, api/main.py and the functions of      *)
(* core/ they share (rights, rules, calc): how a property file is composed *)
(* and how the viewer shows the facts of a parcel, one SELECT at a time,   *)
(* while loads commit new facts and licence_channel rows arrive.           *)
(*                                                                         *)
(* One parcel.  A load is one transaction of a loader for one source.  Its *)
(* new facts carry recorded_at = now(), the time it began (`at`); the ones *)
(* it retires carry superseded_at = the time of its UPDATE (`cut`); nobody *)
(* sees either before it commits.  A fact is named by the load that        *)
(* inserted it and its field; its licence is the licence of the source.    *)
(***************************************************************************)
EXTENDS Naturals, FiniteSets

CONSTANTS
    Sources,       \* sources of facts
    Rank,          \* source_rank.rank of a source, the smallest wins
    Licence,       \* source.licence_id
    Fields,        \* field keys
    Incorporated,  \* the field jurisdiction.incorporated, "yes" or "no"
    Channels,      \* KNOWN_CHANNELS
    ViewerChannel, \* VIEWER_CHANNEL, "api"
    Detectors,     \* detector keys of the open exceptions of the parcel
    DetectorSource,\* DETECTOR_KEY_SOURCE, for the detectors it maps
    RuleFrom,      \* effective_from of each version of the rule, 0 if it has none
    RuleTo,        \* its effective_to, 0 if it has none
    Readers,       \* callers of compose() and requests to the viewer
    MaxLoads,      \* bound: loads
    MaxClock       \* bound: clock_timestamp()

ASSUME ComposeAssumption ==
    /\ Incorporated \in Fields /\ ViewerChannel \in Channels
    /\ Sources # {} /\ Rank \in [Sources -> Nat] /\ DOMAIN Licence = Sources
    /\ DOMAIN DetectorSource \subseteq Detectors
    /\ \A d \in DOMAIN DetectorSource : DetectorSource[d] \in Sources
    /\ DOMAIN RuleFrom \subseteq Nat
    /\ DOMAIN RuleTo = DOMAIN RuleFrom
    /\ \A v \in DOMAIN RuleFrom : RuleFrom[v] \in Nat /\ RuleTo[v] \in Nat
    /\ MaxLoads \in Nat /\ MaxClock \in Nat \ {0}

VARIABLES
    clock,     \* clock_timestamp()
    load,      \* load[l]: the l-th load
    channel,   \* channel[<<licence, c>>]: the licence_channel row, or "none"
    job        \* job[p]: what reader p has read so far

vars == <<clock, load, channel, job>>

Loads == 1..MaxLoads
Versions == DOMAIN RuleFrom
Values == {"yes", "no"}
Licences == {Licence[s] : s \in Sources}
Facts == Loads \X Fields
SourceOf(f) == load[f[1]].source
LicenceOf(f) == Licence[SourceOf(f)]
ValueOf(f) == load[f[1]].writes[f[2]]

Codes == {"PARCEL_REFERENCE_UNKNOWN", "LICENCE_UNKNOWN", "GEOMETRY_TIER_DISABLED",
          "PARCEL_NO_FACTS", "ELECTION_REQUIRED", "ELECTION_NOT_SUPPORTED",
          "RULE_UNAVAILABLE", "RIGHTS_BLOCKED"}
Kinds == {"file", "facts", "exceptions"}

\* Result.ok() and Result.refuse(): a value or a refusal, never both or neither.
\* The value is the id of the property_file, or the answer of the viewer; NoResult
\* is no Result at all, an exception or a call that has not returned.
Ok == [value |-> "row", refusal |-> "none"]
Refuse(code) == [value |-> "none", refusal |-> code]
NoResult == [value |-> "none", refusal |-> "none"]
Results == {NoResult, Ok} \cup {Refuse(code) : code \in Codes}

NoLoad == [phase |-> "none", source |-> CHOOSE s \in Sources : TRUE,
           writes |-> [f \in Fields |-> "keep"], cut |-> 0, at |-> 0]

NoJob == [pc |-> "idle", kind |-> "file", channel |-> ViewerChannel,
          election |-> "none", asOf |-> 0, seen |-> {}, touched |-> {},
          blocked |-> {}, boundary |-> FALSE, refusals |-> {}, shown |-> {},
          result |-> NoResult]

Committed == {l \in Loads : load[l].phase = "committed"}

-----------------------------------------------------------------------------

(***************************************************************************)
(* current_fact_at(ts), had the loads of `done` been the only ones to      *)
(* commit: of the facts recorded by ts and not superseded by then, the     *)
(* best-ranked of each field, the latest retrieved of those.               *)
(***************************************************************************)
Superseded(f, ts, done) ==
    \E m \in done : /\ m > f[1] /\ load[m].source = SourceOf(f)
                    /\ load[m].writes[f[2]] # "keep" /\ load[m].cut <= ts

Visible(ts, done) ==
    {f \in Facts : /\ f[1] \in done /\ ValueOf(f) \in Values
                   /\ load[f[1]].at <= ts
                   /\ ~Superseded(f, ts, done)}

CurrentFactAt(ts, done) ==
    LET seen == Visible(ts, done)
        Before(f, g) == \/ Rank[SourceOf(f)] < Rank[SourceOf(g)]
                        \/ Rank[SourceOf(f)] = Rank[SourceOf(g)] /\ f[1] >= g[1]
    IN  {f \in seen : \A g \in seen : g[2] = f[2] => Before(f, g)}

-----------------------------------------------------------------------------

Init ==
    /\ clock = 1
    /\ load = [l \in Loads |-> NoLoad]
    /\ channel = [lc \in Licences \X Channels |-> "none"]
    /\ job = [p \in Readers |-> NoJob]

(***************************************************************************)
(* The world around the two programs: time, the loads and the licence rows *)
(* (inserted, never changed or deleted).                                   *)
(***************************************************************************)
Tick ==
    /\ clock < MaxClock /\ clock' = clock + 1
    /\ UNCHANGED <<load, channel, job>>

\* What source s says of field k in the last of its loads that did.
Latest(s, k) ==
    LET said == {l \in Committed : load[l].source = s /\ load[l].writes[k] # "keep"}
    IN  IF said = {} THEN "retire"
        ELSE load[CHOOSE l \in said : \A m \in said : m <= l].writes[k]

\* The loader's transaction opens; recorded_at will be its now().
BeginLoad(l, s, w) ==
    /\ load[l].phase = "none" /\ \A m \in 1..(l - 1) : load[m].phase # "none"
    /\ \A m \in Loads : load[m].source = s => load[m].phase \notin {"open", "cut"}
    /\ \A k \in Fields : w[k] # Latest(s, k)
    /\ load' = [load EXCEPT ![l] = [NoLoad EXCEPT !.phase = "open", !.source = s,
                                                  !.writes = w, !.at = clock]]
    /\ UNCHANGED <<clock, channel, job>>

\* UPDATE fact SET superseded_at = clock_timestamp(), then insert_facts().
WriteFacts(l) ==
    /\ load[l].phase = "open"
    /\ load' = [load EXCEPT ![l].phase = "cut", ![l].cut = clock]
    /\ UNCHANGED <<clock, channel, job>>

EndLoad(l) ==
    /\ load[l].phase = "cut"
    /\ \/ load' = [load EXCEPT ![l].phase = "committed"]
       \/ load' = [load EXCEPT ![l] = [NoLoad EXCEPT !.phase = "aborted"]]
    /\ UNCHANGED <<clock, channel, job>>

SeedChannel(lc, a) ==
    /\ channel[lc] = "none"
    /\ channel' = [channel EXCEPT ![lc] = a]
    /\ UNCHANGED <<clock, load, job>>

-----------------------------------------------------------------------------

(***************************************************************************)
(* ACTION Ask: compose() is called for the parcel, by id or by an APN that *)
(* only it has, or the viewer is asked for its facts, at any time the      *)
(* caller gives, the past or the future, or for its open exceptions.       *)
(***************************************************************************)
Ask(p, kind, c, e, ts) ==
    /\ job[p].pc = "idle"
    /\ kind # "file" => c = ViewerChannel /\ e = "none"
    /\ kind # "facts" => ts = 0
    /\ job' = [job EXCEPT ![p] = [NoJob EXCEPT !.pc = "resolve", !.kind = kind,
                                  !.channel = c, !.election = e, !.asOf = ts]]
    /\ UNCHANGED <<clock, load, channel>>

(***************************************************************************)
(* ACTION Resolve: clock_timestamp() is read once into as_of, then the     *)
(* parcel.  An APN that not exactly one parcel has ends the program; an id *)
(* that names no parcel is a refusal that no row can hold, or a 404.       *)
(***************************************************************************)
NextPc(kind) == CASE kind = "file"  -> "rule"
                  [] kind = "facts" -> "facts"
                  [] OTHER          -> "gate"

AsOf(p) == IF job[p].asOf = 0 /\ job[p].kind # "exceptions" THEN clock
           ELSE job[p].asOf

\* resolve_parcel_id_by_apn(): never one of several.
ByApn(bearers) == Cardinality(bearers) = 1

Unknown(p) == IF job[p].kind = "file" THEN Refuse("PARCEL_REFERENCE_UNKNOWN") ELSE NoResult

Stop(p, result) == job' = [job EXCEPT ![p] = [NoJob EXCEPT !.pc = "done", !.kind = job[p].kind,
                                                           !.result = result]]

Resolve(p) ==
    /\ job[p].pc = "resolve"
    /\ \/ job' = [job EXCEPT ![p].pc = NextPc(job[p].kind), ![p].asOf = AsOf(p)]
       \/ Stop(p, Unknown(p))
       \/ \E bearers \in SUBSET {"this", "other"} :
             job[p].kind = "file" /\ ~ByApn(bearers) /\ Stop(p, NoResult)
    /\ UNCHANGED <<clock, load, channel>>

(***************************************************************************)
(* ACTION SelectRule: no election, no rule key for the election, or the    *)
(* highest of the versions effective at as_of, a refusal if there is none. *)
(***************************************************************************)
Effective(ts) ==
    {v \in Versions : /\ RuleFrom[v] # 0 /\ RuleFrom[v] <= ts
                      /\ RuleTo[v] = 0 \/ RuleTo[v] > ts}

RuleRefusals(p) ==
    CASE job[p].election = "none"  -> {"ELECTION_REQUIRED"}
      [] job[p].election = "state" -> {"ELECTION_NOT_SUPPORTED"}
      [] OTHER -> IF Effective(job[p].asOf) = {} THEN {"RULE_UNAVAILABLE"} ELSE {}

SelectRule(p) ==
    /\ job[p].pc = "rule"
    /\ job' = [job EXCEPT ![p].pc = "facts", ![p].refusals = RuleRefusals(p)]
    /\ UNCHANGED <<clock, load, channel>>

(***************************************************************************)
(* ACTION ReadFacts: current_fact_at(as_of) of the committed loads.        *)
(***************************************************************************)
\* Mutant: a second clock reading is used instead of as_of.
TouchedNow(p) == CurrentFactAt(clock, Committed)

Touched(p) == CurrentFactAt(job[p].asOf, Committed)

ReadFacts(p) ==
    /\ job[p].pc = "facts"
    /\ job' = [job EXCEPT ![p].pc = "gate", ![p].seen = Committed,
                          ![p].touched = Touched(p)]
    /\ UNCHANGED <<clock, load, channel>>

(***************************************************************************)
(* ACTION Gate: evaluate_rights_gate() for the licences of what was        *)
(* touched: a licence with no allowed = true row for the channel blocks.   *)
(* For the exceptions the licence is that of the source of the detector;   *)
(* a detector the map does not know is redacted without asking.            *)
(***************************************************************************)
LicencesTouched(p) ==
    IF job[p].kind = "exceptions"
    THEN {Licence[DetectorSource[d]] : d \in DOMAIN DetectorSource}
    ELSE {LicenceOf(f) : f \in job[p].touched}

\* Mutant: a licence is blocked by an explicit denial only.
BlockedByDenial(p) ==
    {i \in LicencesTouched(p) : channel[<<i, job[p].channel>>] = "denied"}

BlockedByLicence(p) ==
    {i \in LicencesTouched(p) : channel[<<i, job[p].channel>>] # "allowed"}

Gate(p) ==
    /\ job[p].pc = "gate"
    /\ job' = [job EXCEPT ![p].pc = "answer", ![p].blocked = BlockedByLicence(p)]
    /\ UNCHANGED <<clock, load, channel>>

(***************************************************************************)
(* ACTION Show: the viewer's answer: the facts, or the details of the      *)
(* exceptions, whose licence is not blocked.                               *)
(***************************************************************************)
Unblocked(p) ==
    IF job[p].kind = "facts"
    THEN {f \in job[p].touched : LicenceOf(f) \notin job[p].blocked}
    ELSE {d \in DOMAIN DetectorSource : Licence[DetectorSource[d]] \notin job[p].blocked}

Show(p) ==
    /\ job[p].pc = "answer" /\ job[p].kind # "file"
    /\ job' = [job EXCEPT ![p].pc = "done", ![p].shown = Unblocked(p),
                          ![p].result = Ok]
    /\ UNCHANGED <<clock, load, channel>>

(***************************************************************************)
(* ACTION Write: every refusal there is, none hiding another, in one       *)
(* property_file with its links to the facts touched.  A jurisdiction      *)
(* whose geometry tier is enabled raises NotImplementedError instead, and  *)
(* the transaction is rolled back.                                         *)
(***************************************************************************)
\* Mutant: the value of the fact is not looked at (as before C3).
SatisfiedByPresence(facts) == \E f \in facts : f[2] = Incorporated

IncorporatedSatisfied(facts) ==
    \E f \in facts : f[2] = Incorporated /\ ValueOf(f) = "yes"

Refusals(p, boundary) ==
    job[p].refusals
    \cup (IF boundary /\ ~IncorporatedSatisfied(job[p].touched)
          THEN {"LICENCE_UNKNOWN"} ELSE {})
    \cup {"GEOMETRY_TIER_DISABLED"}
    \cup (IF job[p].touched = {} THEN {"PARCEL_NO_FACTS"} ELSE {})
    \cup (IF job[p].blocked # {} THEN {"RIGHTS_BLOCKED"} ELSE {})

\* evaluate_geometry_dependent_conclusion: it refuses while the geometry tier of
\* the jurisdiction is off, and raises while it is on, for nothing computes yet.
GeometryGate(tier) == IF tier THEN "raises" ELSE "refuses"

Write(p) ==
    /\ job[p].pc = "answer" /\ job[p].kind = "file"
    /\ \E tier, boundary \in BOOLEAN :
          job' = [job EXCEPT ![p] =
              IF GeometryGate(tier) = "raises" THEN [NoJob EXCEPT !.pc = "done"]
              ELSE [job[p] EXCEPT !.pc = "done", !.boundary = boundary,
                                  !.refusals = Refusals(p, boundary),
                                  !.shown = job[p].touched, !.result = Ok]]
    /\ UNCHANGED <<clock, load, channel>>

(***************************************************************************)
(* ACTION Fail: a statement fails or the process dies; the transaction is  *)
(* rolled back and nothing was written.                                    *)
(***************************************************************************)
Fail(p) ==
    /\ job[p].pc \notin {"idle", "done"}
    /\ job' = [job EXCEPT ![p] = NoJob]
    /\ UNCHANGED <<clock, load, channel>>

Step(p) == \/ Resolve(p) \/ SelectRule(p) \/ ReadFacts(p)
           \/ Gate(p) \/ Show(p) \/ Write(p)

Next ==
    \/ Tick
    \/ \E l \in Loads, s \in Sources, w \in [Fields -> Values \cup {"keep", "retire"}] :
          BeginLoad(l, s, w)
    \/ \E l \in Loads : WriteFacts(l) \/ EndLoad(l)
    \/ \E lc \in Licences \X Channels, a \in {"allowed", "denied"} : SeedChannel(lc, a)
    \/ \E p \in Readers, kind \in Kinds, c \in Channels,
          e \in {"none", "city", "state"}, ts \in 0..MaxClock : Ask(p, kind, c, e, ts)
    \/ \E p \in Readers : Step(p) \/ Fail(p)

Spec == Init /\ [][Next]_vars

-----------------------------------------------------------------------------

\* The state has its shape.
TypeOK ==
    /\ clock \in 1..MaxClock
    /\ load \in [Loads -> [phase : {"none", "open", "cut", "committed", "aborted"},
                           source : Sources,
                           writes : [Fields -> Values \cup {"keep", "retire"}],
                           cut : 0..MaxClock, at : 0..MaxClock]]
    /\ channel \in [Licences \X Channels -> {"none", "allowed", "denied"}]
    /\ \A p \in Readers : job[p].seen \subseteq Loads
                            /\ job[p].touched \subseteq Facts
                            /\ job[p].refusals \subseteq Codes
                            /\ job[p].result \in Results

\* A property file or an answer of the viewer, ready to be read again.
Answered(p, kind) == job[p].kind = kind /\ job[p].result = Ok

\* Default deny, whatever licence rows arrive between the gate and the answer:
\* what the viewer shows, a fact or the detail of an exception, has a licence
\* that allows its channel, and a file links a fact whose licence does not
\* allow its channel only while refusing RIGHTS_BLOCKED.
GateHolds ==
    \A p \in Readers : job[p].pc = "done" =>
        /\ job[p].kind = "facts" =>
              \A f \in job[p].shown : channel[<<LicenceOf(f), ViewerChannel>>] = "allowed"
        /\ job[p].kind = "exceptions" =>
              \A d \in job[p].shown :
                  /\ d \in DOMAIN DetectorSource
                  /\ channel[<<Licence[DetectorSource[d]], ViewerChannel>>] = "allowed"
        /\ job[p].kind = "file" /\ "RIGHTS_BLOCKED" \notin job[p].refusals =>
              \A f \in job[p].shown : channel[<<LicenceOf(f), job[p].channel>>] = "allowed"

\* Loads that had begun by as_of and committed only after the facts were read.
InFlight(p) ==
    {l \in Committed \ job[p].seen : load[l].at <= job[p].asOf}

\* Reading the facts again at the as_of of a file or an answer gives the same
\* facts for ever, except for loads that were in flight when it was read: their
\* facts carry a recorded_at before as_of and appear in the past afterwards.
ReplaysExactly ==
    \A p \in Readers :
        Answered(p, "file") \/ Answered(p, "facts") =>
            (InFlight(p) = {} => job[p].touched = CurrentFactAt(job[p].asOf, Committed))

\* A file of a jurisdiction that declares its boundary source refuses unless the
\* facts it links to, all of them known at its as_of and one per field, say that
\* the parcel is incorporated: a fact that says it is not does not count.
DeniedByDefault ==
    \A p \in Readers :
        Answered(p, "file") /\ job[p].boundary /\ "LICENCE_UNKNOWN" \notin job[p].refusals =>
            \E f \in job[p].shown :
                /\ f[2] = Incorporated /\ ValueOf(f) = "yes"
                /\ load[f[1]].phase = "committed" /\ load[f[1]].at <= job[p].asOf
                /\ \A g \in job[p].shown : g[2] = f[2] => g = f
=============================================================================
