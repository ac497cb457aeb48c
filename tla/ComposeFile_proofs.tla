------------------------- MODULE ComposeFile_proofs -------------------------
(***************************************************************************)
(* Theorems of ComposeFile: what a property file or an answer of the viewer *)
(* shows, whatever loads and licence rows arrive between two SELECTs.       *)
(***************************************************************************)
EXTENDS ComposeFile, TLAPS

-----------------------------------------------------------------------------
(* The facts as a function of the loads.                                   *)

SeenOf(L, ts, done) ==
    {f \in Facts : /\ f[1] \in done /\ L[f[1]].writes[f[2]] \in Values
                   /\ L[f[1]].at <= ts
                   /\ \A m \in done : m > f[1] /\ L[m].source = L[f[1]].source
                                      /\ L[m].writes[f[2]] # "keep" => ~(L[m].cut <= ts)}

BeforeOf(L, f, g) ==
    \/ Rank[L[f[1]].source] < Rank[L[g[1]].source]
    \/ Rank[L[f[1]].source] = Rank[L[g[1]].source] /\ f[1] >= g[1]

CurrentOf(L, ts, done) ==
    {f \in SeenOf(L, ts, done) :
        \A g \in SeenOf(L, ts, done) : g[2] = f[2] => BeforeOf(L, f, g)}

-----------------------------------------------------------------------------
(* The inductive invariant.                                                *)

LoadType ==
    [phase : {"none", "open", "cut", "committed", "aborted"}, source : Sources,
     writes : [Fields -> Values \cup {"keep", "retire"}],
     cut : 0..MaxClock, at : 0..MaxClock]

JobType ==
    [pc : {"idle", "resolve", "rule", "facts", "gate", "answer", "done"}, kind : Kinds,
     channel : Channels, election : {"none", "city", "state"}, asOf : Nat,
     seen : SUBSET Loads, touched : SUBSET Facts, blocked : SUBSET Licences,
     boundary : BOOLEAN, refusals : SUBSET Codes, shown : SUBSET (Facts \cup Detectors),
     result : Results]

TypeInv ==
    /\ clock \in 1..MaxClock
    /\ load \in [Loads -> LoadType]
    /\ channel \in [Licences \X Channels -> {"none", "allowed", "denied"}]
    /\ job \in [Readers -> JobType]

\* A load writes its facts after it began.
LoadsInv ==
    \A l \in Loads : /\ load[l].at <= clock
                     /\ load[l].phase \in {"cut", "committed"} => load[l].at <= load[l].cut

\* What a reader has read is what the loads it saw said at its as_of, and those
\* loads had committed.
ReadOf(p) ==
    /\ job[p].seen \subseteq Committed
    /\ job[p].touched = CurrentOf(load, job[p].asOf, job[p].seen)
    /\ job[p].pc \in {"idle", "resolve"} => job[p].seen = {}
    /\ job[p].pc # "done" => job[p].result = NoResult /\ job[p].shown = {}
    /\ job[p].kind # "file" => job[p].channel = ViewerChannel

\* After the gate, what is not blocked is allowed.
GateOf(p) ==
    job[p].pc = "answer" =>
        /\ job[p].kind # "exceptions" =>
              \A f \in job[p].touched :
                  LicenceOf(f) \notin job[p].blocked =>
                      channel[<<LicenceOf(f), job[p].channel>>] = "allowed"
        /\ job[p].kind = "exceptions" =>
              \A d \in DOMAIN DetectorSource :
                  Licence[DetectorSource[d]] \notin job[p].blocked =>
                      channel[<<Licence[DetectorSource[d]], job[p].channel>>] = "allowed"

\* An answer shows what was read and may be shown.
ShownOf(p) ==
    job[p].pc = "done" =>
        /\ job[p].kind # "exceptions" => job[p].shown \subseteq job[p].touched
        /\ job[p].kind = "facts" =>
              \A f \in job[p].shown : channel[<<LicenceOf(f), ViewerChannel>>] = "allowed"
        /\ job[p].kind = "exceptions" =>
              \A d \in job[p].shown :
                  /\ d \in DOMAIN DetectorSource
                  /\ channel[<<Licence[DetectorSource[d]], ViewerChannel>>] = "allowed"
        /\ job[p].kind = "file" /\ "RIGHTS_BLOCKED" \notin job[p].refusals =>
              \A f \in job[p].shown : channel[<<LicenceOf(f), job[p].channel>>] = "allowed"
        /\ Answered(p, "file") => job[p].shown = job[p].touched
        /\ Answered(p, "file") /\ job[p].boundary /\ "LICENCE_UNKNOWN" \notin job[p].refusals =>
              IncorporatedSatisfied(job[p].touched)

JobsInv == \A p \in Readers : ReadOf(p) /\ GateOf(p) /\ ShownOf(p)

ComposeInv ==
    /\ TypeInv
    /\ LoadsInv
    /\ JobsInv

-----------------------------------------------------------------------------
(* The facts at a time.                                                    *)

LEMMA CurrentIs ==
    ASSUME NEW ts, NEW done
    PROVE  CurrentFactAt(ts, done) = CurrentOf(load, ts, done)
<1>1. Visible(ts, done) = SeenOf(load, ts, done)
  BY DEF Visible, Superseded, SourceOf, ValueOf, SeenOf
<1>2. QED
  BY <1>1 DEF CurrentFactAt, CurrentOf, BeforeOf, SourceOf

LEMMA SeenIn ==
    ASSUME NEW L, NEW ts, NEW done, NEW f \in SeenOf(L, ts, done)
    PROVE  f \in Facts /\ f[1] \in done /\ L[f[1]].at <= ts
BY DEF SeenOf

\* They depend only on the loads they are of.
LEMMA CurrentLocal ==
    ASSUME NEW L, NEW M, NEW ts, NEW done, \A l \in done : L[l] = M[l]
    PROVE  CurrentOf(L, ts, done) = CurrentOf(M, ts, done)
<1>1. SeenOf(L, ts, done) = SeenOf(M, ts, done)
  BY DEF SeenOf
<1>2. \A f \in SeenOf(L, ts, done) : f[1] \in done
  BY SeenIn
<1>3. \A f, g \in SeenOf(L, ts, done) : BeforeOf(L, f, g) <=> BeforeOf(M, f, g)
  BY <1>2 DEF BeforeOf
<1>4. QED
  BY <1>1, <1>3 DEF CurrentOf

\* Loads that begin, and so write, after the time do not change them.
LEMMA CurrentCut ==
    ASSUME NEW L, NEW ts, NEW all, NEW done \in SUBSET all,
           \A l \in all \ done : ~(L[l].at <= ts) /\ ~(L[l].cut <= ts)
    PROVE  CurrentOf(L, ts, all) = CurrentOf(L, ts, done)
<1>1. SeenOf(L, ts, all) = SeenOf(L, ts, done)
  BY DEF SeenOf
<1>2. QED
  BY <1>1 DEF CurrentOf

\* One fact for each field.
LEMMA OnePerField ==
    ASSUME TypeInv, NEW ts, NEW done,
           NEW f \in CurrentOf(load, ts, done), NEW g \in CurrentOf(load, ts, done), f[2] = g[2]
    PROVE  f = g
<1>1. f \in Facts /\ g \in Facts /\ BeforeOf(load, f, g) /\ BeforeOf(load, g, f)
  BY DEF CurrentOf, SeenOf
<1>2. f[1] \in Nat /\ g[1] \in Nat /\ f[1] \in Loads /\ g[1] \in Loads
  BY <1>1, ComposeAssumption DEF Facts, Loads
<1>3. Rank[load[f[1]].source] \in Nat /\ Rank[load[g[1]].source] \in Nat
  BY <1>2, ComposeAssumption DEF TypeInv, LoadType
<1>4. f[1] = g[1]
  BY <1>1, <1>2, <1>3 DEF BeforeOf
<1>5. QED
  BY <1>1, <1>4 DEF Facts

LEMMA CurrentType ==
    ASSUME NEW L, NEW ts, NEW done
    PROVE  /\ CurrentOf(L, ts, done) \subseteq Facts
           /\ \A f \in CurrentOf(L, ts, done) : f[1] \in done /\ L[f[1]].at <= ts
           /\ CurrentOf(L, ts, {}) = {}
BY DEF CurrentOf, SeenOf

-----------------------------------------------------------------------------
(* Types.                                                                  *)

LEMMA NoJobType ==
    /\ NoJob \in JobType /\ NoJob.pc = "idle" /\ NoJob.result = NoResult
    /\ NoJob.seen = {} /\ NoJob.touched = {} /\ NoJob.shown = {} /\ NoJob.kind = "file"
    /\ NoJob.channel = ViewerChannel /\ NoJob.boundary = FALSE /\ NoJob.refusals = {}
BY ComposeAssumption DEF NoJob, JobType, Kinds, Results

LEMMA NoLoadType ==
    /\ NoLoad \in LoadType /\ NoLoad.phase = "none" /\ NoLoad.at = 0 /\ NoLoad.cut = 0
<1>1. (CHOOSE s \in Sources : TRUE) \in Sources
  BY ComposeAssumption
<1>2. 0 \in 0..MaxClock
  BY ComposeAssumption
<1>3. [f \in Fields |-> "keep"] \in [Fields -> Values \cup {"keep", "retire"}]
  OBVIOUS
<1>4. QED
  BY <1>1, <1>2, <1>3 DEF NoLoad, LoadType

\* The states a reader's step leads to.
Done(p, result) == [NoJob EXCEPT !.pc = "done", !.kind = job[p].kind, !.result = result]

LEMMA DoneType ==
    ASSUME TypeInv, NEW p \in Readers, NEW result \in Results
    PROVE  /\ Done(p, result) \in JobType
           /\ Done(p, result).pc = "done" /\ Done(p, result).seen = {}
           /\ Done(p, result).touched = {} /\ Done(p, result).shown = {}
           /\ Done(p, result).channel = ViewerChannel
           /\ Done(p, result).kind = job[p].kind /\ Done(p, result).result = result
<1>1. job[p].kind \in Kinds
  BY DEF TypeInv, JobType
<1>2. QED
  BY <1>1, NoJobType DEF Done, JobType

\* A step of a reader changes its own state only.
ByItself(p) ==
    /\ UNCHANGED <<clock, load, channel>>
    /\ job' = [job EXCEPT ![p] = job'[p]]
    /\ job'[p] \in JobType

LEMMA OneJob ==
    ASSUME TypeInv, NEW p \in Readers, NEW q \in JobType,
           UNCHANGED <<clock, load, channel>>, job' = [job EXCEPT ![p] = q]
    PROVE  ByItself(p) /\ job'[p] = q
BY DEF TypeInv, ByItself

\* What the steps before the facts are read, and those that write nothing, leave.
Empty(q) ==
    /\ q.seen = {} /\ q.touched = {} /\ q.shown = {}
    /\ q.pc # "answer" /\ q.result # Ok
    /\ q.pc # "done" => q.result = NoResult
    /\ q.kind # "file" => q.channel = ViewerChannel

LEMMA AskIs ==
    ASSUME TypeInv, NEW p \in Readers, NEW kind \in Kinds, NEW c \in Channels,
           NEW e \in {"none", "city", "state"}, NEW ts \in 0..MaxClock, Ask(p, kind, c, e, ts)
    PROVE  ByItself(p) /\ Empty(job'[p])
<1> DEFINE q == [NoJob EXCEPT !.pc = "resolve", !.kind = kind, !.channel = c, !.election = e,
                              !.asOf = ts]
<1>1. /\ job' = [job EXCEPT ![p] = q] /\ UNCHANGED <<clock, load, channel>>
      /\ kind # "file" => c = ViewerChannel
  BY DEF Ask
<1>2. ts \in Nat
  BY ComposeAssumption DEF TypeInv
<1>3. /\ q \in JobType /\ q.seen = {} /\ q.touched = {} /\ q.shown = {} /\ q.pc = "resolve"
      /\ q.result = NoResult /\ q.kind = kind /\ q.channel = c
  BY <1>2, NoJobType DEF JobType
<1> HIDE DEF q
<1>4. Ok # NoResult
  BY DEF Ok, NoResult
<1>5. ByItself(p) /\ job'[p] = q
  BY <1>1, <1>3, OneJob
<1>6. QED
  BY <1>1, <1>3, <1>4, <1>5 DEF Empty

LEMMA ResolveIs ==
    ASSUME TypeInv, NEW p \in Readers, ReadOf(p), Resolve(p)
    PROVE  ByItself(p) /\ Empty(job'[p]) /\ job'[p].pc # "idle"
<1>1. /\ job[p].pc = "resolve" /\ job[p].seen = {} /\ job[p].touched = {} /\ job[p] \in JobType
      /\ job[p].result = NoResult /\ job[p].shown = {} /\ UNCHANGED <<clock, load, channel>>
      /\ job[p].kind # "file" => job[p].channel = ViewerChannel
  BY CurrentType DEF Resolve, ReadOf, TypeInv
<1>2. Ok # NoResult /\ \A code : Refuse(code) # Ok
  BY DEF Ok, NoResult, Refuse
<1>3. ASSUME NEW result \in {NoResult, Refuse("PARCEL_REFERENCE_UNKNOWN")},
             job' = [job EXCEPT ![p] = Done(p, result)]
      PROVE  ByItself(p) /\ Empty(job'[p]) /\ job'[p].pc # "idle"
  <2>1. result \in Results /\ result # Ok
    BY <1>2, <1>3 DEF Results, Codes
  <2>2. ByItself(p) /\ job'[p] = Done(p, result)
    BY <1>1, <1>3, <2>1, DoneType, OneJob
  <2>3. QED
    BY <2>1, <2>2, DoneType DEF Empty
<1>4. CASE job' = [job EXCEPT ![p].pc = NextPc(job[p].kind), ![p].asOf = AsOf(p)]
  <2> DEFINE q == [job[p] EXCEPT !.pc = NextPc(job[p].kind), !.asOf = AsOf(p)]
  <2>1. NextPc(job[p].kind) \in {"rule", "facts", "gate"} /\ AsOf(p) \in Nat
    BY <1>1, ComposeAssumption DEF NextPc, AsOf, JobType, Kinds, TypeInv
  <2>2. /\ q \in JobType /\ q.pc \in {"rule", "facts", "gate"}
        /\ q.seen = job[p].seen /\ q.touched = job[p].touched /\ q.shown = job[p].shown
        /\ q.result = job[p].result /\ q.kind = job[p].kind /\ q.channel = job[p].channel
    BY <1>1, <2>1 DEF JobType
  <2>3. job' = [job EXCEPT ![p] = q]
    BY <1>4 DEF TypeInv
  <2> HIDE DEF q
  <2>4. ByItself(p) /\ job'[p] = q
    BY <1>1, <2>2, <2>3, OneJob
  <2>5. QED
    BY <1>1, <1>2, <2>2, <2>4 DEF Empty
<1>5. QED
  BY <1>3, <1>4 DEF Resolve, Stop, Unknown, Done

LEMMA StoppedIs ==
    ASSUME TypeInv, NEW p \in Readers, UNCHANGED <<clock, load, channel>>,
           \/ job' = [job EXCEPT ![p] = NoJob]
           \/ job' = [job EXCEPT ![p] = [NoJob EXCEPT !.pc = "done"]]
    PROVE  ByItself(p) /\ Empty(job'[p])
<1>1. Ok # NoResult
  BY DEF Ok, NoResult
<1>2. ASSUME NEW q \in {NoJob, [NoJob EXCEPT !.pc = "done"]}, job' = [job EXCEPT ![p] = q]
      PROVE  ByItself(p) /\ Empty(job'[p])
  <2>1. q \in JobType /\ Empty(q)
    BY <1>1, NoJobType DEF Empty, JobType
  <2>2. QED
    BY <1>2, <2>1, OneJob
<1>3. QED
  BY <1>2

\* The steps that read and gate keep what was read before.
Kept(p) ==
    /\ job'[p].kind = job[p].kind /\ job'[p].channel = job[p].channel
    /\ job'[p].asOf = job[p].asOf /\ job'[p].shown = job[p].shown

LEMMA SelectRuleIs ==
    ASSUME TypeInv, NEW p \in Readers, SelectRule(p)
    PROVE  /\ ByItself(p) /\ Kept(p) /\ job[p].pc = "rule" /\ job'[p].pc = "facts"
           /\ job'[p].seen = job[p].seen /\ job'[p].touched = job[p].touched
           /\ job'[p].result = job[p].result
<1> DEFINE q == [job[p] EXCEPT !.pc = "facts", !.refusals = RuleRefusals(p)]
<1>1. job[p] \in JobType
  BY DEF TypeInv
<1>2. RuleRefusals(p) \subseteq Codes
  BY DEF RuleRefusals, Codes
<1>3. /\ q \in JobType /\ q.pc = "facts" /\ q.kind = job[p].kind /\ q.channel = job[p].channel
      /\ q.asOf = job[p].asOf /\ q.shown = job[p].shown /\ q.seen = job[p].seen
      /\ q.touched = job[p].touched /\ q.result = job[p].result
  BY <1>1, <1>2 DEF JobType
<1>4. /\ job' = [job EXCEPT ![p] = q] /\ UNCHANGED <<clock, load, channel>> /\ job[p].pc = "rule"
  BY DEF SelectRule, TypeInv
<1> HIDE DEF q
<1>5. ByItself(p) /\ job'[p] = q
  BY <1>3, <1>4, OneJob
<1>6. QED
  BY <1>3, <1>4, <1>5 DEF Kept

LEMMA ReadFactsIs ==
    ASSUME TypeInv, NEW p \in Readers, ReadFacts(p)
    PROVE  /\ ByItself(p) /\ Kept(p) /\ job[p].pc = "facts" /\ job'[p].pc = "gate"
           /\ job'[p].seen = Committed
           /\ job'[p].touched = CurrentOf(load, job[p].asOf, Committed)
           /\ job'[p].result = job[p].result
<1> DEFINE q == [job[p] EXCEPT !.pc = "gate", !.seen = Committed, !.touched = Touched(p)]
<1>1. job[p] \in JobType /\ Committed \subseteq Loads
  BY DEF TypeInv, Committed
<1>2. Touched(p) = CurrentOf(load, job[p].asOf, Committed) /\ Touched(p) \subseteq Facts
  BY CurrentIs, CurrentType DEF Touched
<1>3. /\ q \in JobType /\ q.pc = "gate" /\ q.kind = job[p].kind /\ q.channel = job[p].channel
      /\ q.asOf = job[p].asOf /\ q.shown = job[p].shown /\ q.seen = Committed
      /\ q.touched = Touched(p) /\ q.result = job[p].result
  BY <1>1, <1>2 DEF JobType
<1>4. /\ job' = [job EXCEPT ![p] = q] /\ UNCHANGED <<clock, load, channel>> /\ job[p].pc = "facts"
  BY DEF ReadFacts, TypeInv
<1> HIDE DEF q
<1>5. ByItself(p) /\ job'[p] = q
  BY <1>3, <1>4, OneJob
<1>6. QED
  BY <1>2, <1>3, <1>4, <1>5 DEF Kept

LEMMA GateIs ==
    ASSUME TypeInv, NEW p \in Readers, Gate(p)
    PROVE  /\ ByItself(p) /\ Kept(p) /\ job[p].pc = "gate" /\ job'[p].pc = "answer"
           /\ job'[p].seen = job[p].seen /\ job'[p].touched = job[p].touched
           /\ job'[p].result = job[p].result /\ job'[p].blocked = BlockedByLicence(p)
<1> DEFINE q == [job[p] EXCEPT !.pc = "answer", !.blocked = BlockedByLicence(p)]
<1>1. job[p] \in JobType
  BY DEF TypeInv
<1>2. BlockedByLicence(p) \subseteq Licences
  <2>1. \A f \in job[p].touched : LicenceOf(f) \in Licences
    <3>1. \A f \in job[p].touched : load[f[1]].source \in Sources
      BY <1>1 DEF TypeInv, LoadType, JobType, Facts
    <3>2. QED
      BY <3>1 DEF LicenceOf, SourceOf, Licences
  <2>2. \A d \in DOMAIN DetectorSource : Licence[DetectorSource[d]] \in Licences
    BY ComposeAssumption DEF Licences
  <2>3. QED
    BY <2>1, <2>2 DEF BlockedByLicence, LicencesTouched
<1>3. /\ q \in JobType /\ q.pc = "answer" /\ q.kind = job[p].kind /\ q.channel = job[p].channel
      /\ q.asOf = job[p].asOf /\ q.shown = job[p].shown /\ q.seen = job[p].seen
      /\ q.touched = job[p].touched /\ q.result = job[p].result
      /\ q.blocked = BlockedByLicence(p)
  BY <1>1, <1>2 DEF JobType
<1>4. /\ job' = [job EXCEPT ![p] = q] /\ UNCHANGED <<clock, load, channel>> /\ job[p].pc = "gate"
  BY DEF Gate, TypeInv
<1> HIDE DEF q
<1>5. ByItself(p) /\ job'[p] = q
  BY <1>3, <1>4, OneJob
<1>6. QED
  BY <1>3, <1>4, <1>5 DEF Kept

\* The two answers.
Answers(p) ==
    /\ ByItself(p) /\ job[p].pc = "answer" /\ job'[p].pc = "done"
    /\ job'[p].kind = job[p].kind /\ job'[p].channel = job[p].channel
    /\ job'[p].asOf = job[p].asOf /\ job'[p].seen = job[p].seen
    /\ job'[p].touched = job[p].touched /\ job'[p].result = Ok

LEMMA ShowIs ==
    ASSUME TypeInv, NEW p \in Readers, Show(p)
    PROVE  Answers(p) /\ job[p].kind # "file" /\ job'[p].shown = Unblocked(p)
<1> DEFINE q == [job[p] EXCEPT !.pc = "done", !.shown = Unblocked(p), !.result = Ok]
<1>1. job[p] \in JobType
  BY DEF TypeInv
<1>2. Unblocked(p) \subseteq Facts \cup Detectors
  BY <1>1, ComposeAssumption DEF Unblocked, JobType
<1>3. /\ q \in JobType /\ q.pc = "done" /\ q.kind = job[p].kind /\ q.channel = job[p].channel
      /\ q.asOf = job[p].asOf /\ q.shown = Unblocked(p) /\ q.seen = job[p].seen
      /\ q.touched = job[p].touched /\ q.result = Ok
  BY <1>1, <1>2 DEF JobType, Results
<1>4. /\ job' = [job EXCEPT ![p] = q] /\ UNCHANGED <<clock, load, channel>>
      /\ job[p].pc = "answer" /\ job[p].kind # "file"
  BY DEF Show, TypeInv
<1> HIDE DEF q
<1>5. ByItself(p) /\ job'[p] = q
  BY <1>3, <1>4, OneJob
<1>6. QED
  BY <1>3, <1>4, <1>5 DEF Answers

LEMMA WriteIs ==
    ASSUME TypeInv, NEW p \in Readers, Write(p)
    PROVE  \/ ByItself(p) /\ Empty(job'[p])
           \/ /\ Answers(p) /\ job[p].kind = "file" /\ job'[p].shown = job[p].touched
              /\ job'[p].refusals = Refusals(p, job'[p].boundary)
<1>1. PICK tier \in BOOLEAN, boundary \in BOOLEAN :
          job' = [job EXCEPT ![p] =
              IF GeometryGate(tier) = "raises" THEN [NoJob EXCEPT !.pc = "done"]
              ELSE [job[p] EXCEPT !.pc = "done", !.boundary = boundary,
                                  !.refusals = Refusals(p, boundary),
                                  !.shown = job[p].touched, !.result = Ok]]
  BY DEF Write
<1>2. UNCHANGED <<clock, load, channel>> /\ job[p].pc = "answer" /\ job[p].kind = "file"
  BY DEF Write
<1>3. CASE GeometryGate(tier) = "raises"
  BY <1>1, <1>2, <1>3, StoppedIs
<1>4. CASE GeometryGate(tier) # "raises"
  <2> DEFINE q == [job[p] EXCEPT !.pc = "done", !.boundary = boundary,
                                 !.refusals = Refusals(p, boundary),
                                 !.shown = job[p].touched, !.result = Ok]
  <2>1. job[p] \in JobType
    BY DEF TypeInv
  <2>2. Refusals(p, boundary) \subseteq Codes
    BY <2>1 DEF Refusals, Codes, JobType
  <2>3. /\ q \in JobType /\ q.pc = "done" /\ q.kind = job[p].kind /\ q.channel = job[p].channel
        /\ q.asOf = job[p].asOf /\ q.shown = job[p].touched /\ q.seen = job[p].seen
        /\ q.touched = job[p].touched /\ q.result = Ok /\ q.boundary = boundary
        /\ q.refusals = Refusals(p, boundary)
    BY <2>1, <2>2 DEF JobType, Results
  <2>4. job' = [job EXCEPT ![p] = q]
    BY <1>1, <1>4
  <2> HIDE DEF q
  <2>5. ByItself(p) /\ job'[p] = q
    BY <1>2, <2>3, <2>4, OneJob
  <2>6. QED
    BY <1>2, <2>3, <2>5 DEF Answers
<1>5. QED
  BY <1>3, <1>4

\* The world around the readers: time, loads and licence rows.
World ==
    \/ Tick
    \/ \E l \in Loads, s \in Sources, w \in [Fields -> Values \cup {"keep", "retire"}] :
          BeginLoad(l, s, w)
    \/ \E l \in Loads : WriteFacts(l) \/ EndLoad(l)
    \/ \E lc \in Licences \X Channels, a \in {"allowed", "denied"} : SeedChannel(lc, a)

\* What a reader does.
Acts(p) ==
    \/ \E kind \in Kinds, c \in Channels, e \in {"none", "city", "state"}, ts \in 0..MaxClock :
          Ask(p, kind, c, e, ts)
    \/ Step(p) \/ Fail(p)

LEMMA NextIs == Next => World \/ \E p \in Readers : Acts(p)
BY DEF Next, World, Acts

LEMMA ActsAre ==
    ASSUME TypeInv, NEW p \in Readers, ReadOf(p), Acts(p)
    PROVE  /\ ByItself(p)
           /\ \/ Empty(job'[p])
              \/ SelectRule(p) \/ ReadFacts(p) \/ Gate(p) \/ Show(p)
              \/ Write(p) /\ ~Empty(job'[p])
<1>1. CASE Fail(p)
  <2>1. job' = [job EXCEPT ![p] = NoJob] /\ UNCHANGED <<clock, load, channel>>
    BY <1>1 DEF Fail
  <2>2. QED
    BY <2>1, StoppedIs
<1>2. CASE \E kind \in Kinds, c \in Channels, e \in {"none", "city", "state"}, ts \in 0..MaxClock :
             Ask(p, kind, c, e, ts)
  BY <1>2, AskIs
<1>3. CASE Resolve(p)
  BY <1>3, ResolveIs
<1>4. CASE SelectRule(p) \/ ReadFacts(p) \/ Gate(p) \/ Show(p)
  BY <1>4, SelectRuleIs, ReadFactsIs, GateIs, ShowIs DEF Answers
<1>5. CASE Write(p)
  BY <1>5, WriteIs DEF Answers
<1>6. QED
  BY <1>1, <1>2, <1>3, <1>4, <1>5 DEF Acts, Step

LEMMA WorldType ==
    ASSUME TypeInv, LoadsInv, World
    PROVE  /\ TypeInv' /\ LoadsInv'
           /\ UNCHANGED job
           /\ \A l \in Committed : load'[l] = load[l]
           /\ \A lc \in Licences \X Channels : channel[lc] = "allowed" => channel'[lc] = "allowed"
<1>1. clock \in Nat /\ clock \in 0..MaxClock /\ MaxClock \in Nat
  BY ComposeAssumption DEF TypeInv
<1>2. CASE Tick
  <2>1. clock' \in 1..MaxClock /\ clock' = clock + 1 /\ UNCHANGED <<load, channel, job>>
    BY <1>1, <1>2 DEF Tick
  <2>2. \A l \in Loads : load[l].at \in Nat
    BY <1>1 DEF TypeInv, LoadType
  <2>3. LoadsInv'
    BY <1>1, <2>1, <2>2 DEF LoadsInv
  <2>4. QED
    BY <2>1, <2>3 DEF TypeInv
<1>3. ASSUME NEW l \in Loads, NEW q \in LoadType, load' = [load EXCEPT ![l] = q],
             UNCHANGED <<clock, channel, job>>, load[l].phase # "committed",
             q.at <= clock, q.phase \in {"cut", "committed"} => q.at <= q.cut
      PROVE  /\ TypeInv' /\ LoadsInv'
             /\ UNCHANGED job
             /\ \A m \in Committed : load'[m] = load[m]
             /\ \A lc \in Licences \X Channels : channel[lc] = "allowed" => channel'[lc] = "allowed"
  <2>1. load' \in [Loads -> LoadType] /\ load'[l] = q /\ \A m \in Loads \ {l} : load'[m] = load[m]
    BY <1>3 DEF TypeInv
  <2>2. LoadsInv'
    BY <1>3, <2>1 DEF LoadsInv
  <2>3. \A m \in Committed : m \in Loads \ {l}
    BY <1>3 DEF Committed
  <2>4. QED
    BY <1>3, <2>1, <2>2, <2>3 DEF TypeInv
<1>4. ASSUME NEW l \in Loads, NEW s \in Sources,
             NEW w \in [Fields -> Values \cup {"keep", "retire"}], BeginLoad(l, s, w)
      PROVE  /\ TypeInv' /\ LoadsInv'
             /\ UNCHANGED job
             /\ \A m \in Committed : load'[m] = load[m]
             /\ \A lc \in Licences \X Channels : channel[lc] = "allowed" => channel'[lc] = "allowed"
  <2> DEFINE q == [NoLoad EXCEPT !.phase = "open", !.source = s, !.writes = w, !.at = clock]
  <2>1. q \in LoadType /\ q.at = clock /\ q.phase = "open"
    BY <1>1, NoLoadType DEF LoadType
  <2>2. load' = [load EXCEPT ![l] = q] /\ UNCHANGED <<clock, channel, job>> /\ load[l].phase = "none"
    BY <1>4 DEF BeginLoad
  <2> HIDE DEF q
  <2>3. /\ q.at <= clock /\ (q.phase \in {"cut", "committed"} => q.at <= q.cut)
        /\ load[l].phase # "committed"
    BY <1>1, <2>1, <2>2
  <2>4. QED
    BY <1>3, <2>1, <2>2, <2>3
<1>5. ASSUME NEW l \in Loads, WriteFacts(l)
      PROVE  /\ TypeInv' /\ LoadsInv'
             /\ UNCHANGED job
             /\ \A m \in Committed : load'[m] = load[m]
             /\ \A lc \in Licences \X Channels : channel[lc] = "allowed" => channel'[lc] = "allowed"
  <2> DEFINE q == [load[l] EXCEPT !.phase = "cut", !.cut = clock]
  <2>1. load[l] \in LoadType /\ load[l].at <= clock
    BY DEF TypeInv, LoadsInv
  <2>2. q \in LoadType /\ q.at = load[l].at /\ q.cut = clock
    BY <1>1, <2>1 DEF LoadType
  <2>3. load' = [load EXCEPT ![l] = q] /\ UNCHANGED <<clock, channel, job>> /\ load[l].phase = "open"
    BY <1>5 DEF WriteFacts, TypeInv
  <2> HIDE DEF q
  <2>4. QED
    BY <1>3, <2>1, <2>2, <2>3
<1>6. ASSUME NEW l \in Loads, EndLoad(l)
      PROVE  /\ TypeInv' /\ LoadsInv'
             /\ UNCHANGED job
             /\ \A m \in Committed : load'[m] = load[m]
             /\ \A lc \in Licences \X Channels : channel[lc] = "allowed" => channel'[lc] = "allowed"
  <2>1. load[l] \in LoadType /\ load[l].phase = "cut" /\ UNCHANGED <<clock, channel, job>>
        /\ load[l].at <= clock /\ load[l].at <= load[l].cut
    BY <1>6 DEF EndLoad, TypeInv, LoadsInv
  <2>2. CASE load' = [load EXCEPT ![l].phase = "committed"]
    <3> DEFINE q == [load[l] EXCEPT !.phase = "committed"]
    <3>1. q \in LoadType /\ q.at = load[l].at /\ q.cut = load[l].cut
      BY <2>1 DEF LoadType
    <3>2. load' = [load EXCEPT ![l] = q]
      BY <2>2 DEF TypeInv
    <3> HIDE DEF q
    <3>3. QED
      BY <1>3, <2>1, <3>1, <3>2
  <2>3. CASE load' = [load EXCEPT ![l] = [NoLoad EXCEPT !.phase = "aborted"]]
    <3> DEFINE q == [NoLoad EXCEPT !.phase = "aborted"]
    <3>1. q \in LoadType /\ q.at = 0 /\ q.phase = "aborted"
      BY NoLoadType DEF LoadType
    <3>2. load' = [load EXCEPT ![l] = q]
      BY <2>3
    <3> HIDE DEF q
    <3>3. /\ q.at <= clock /\ (q.phase \in {"cut", "committed"} => q.at <= q.cut)
          /\ load[l].phase # "committed"
      BY <1>1, <2>1, <3>1
    <3>4. QED
      BY <1>3, <2>1, <3>1, <3>2, <3>3
  <2>4. QED
    BY <1>6, <2>2, <2>3 DEF EndLoad
<1>7. ASSUME NEW lc \in Licences \X Channels, NEW a \in {"allowed", "denied"}, SeedChannel(lc, a)
      PROVE  /\ TypeInv' /\ LoadsInv'
             /\ UNCHANGED job
             /\ \A m \in Committed : load'[m] = load[m]
             /\ \A k \in Licences \X Channels : channel[k] = "allowed" => channel'[k] = "allowed"
  <2>1. UNCHANGED <<clock, load, job>> /\ channel[lc] = "none"
        /\ channel' = [channel EXCEPT ![lc] = a]
    BY <1>7 DEF SeedChannel
  <2>2. LoadsInv'
    BY <2>1 DEF LoadsInv
  <2>3. QED
    BY <2>1, <2>2 DEF TypeInv
<1>8. QED
  BY <1>2, <1>4, <1>5, <1>6, <1>7 DEF World

-----------------------------------------------------------------------------
(* What the readers know stays so.                                         *)

\* What a reader has been shown belongs to committed loads.
LEMMA TouchedCommitted ==
    ASSUME TypeInv, NEW p \in Readers, ReadOf(p)
    PROVE  \A f \in job[p].touched :
               /\ f \in Facts /\ f[1] \in Committed /\ load[f[1]].at <= job[p].asOf
               /\ LicenceOf(f) \in Licences
<1>1. \A f \in job[p].touched : f \in Facts /\ f[1] \in Committed /\ load[f[1]].at <= job[p].asOf
  BY CurrentType DEF ReadOf
<1>2. \A f \in job[p].touched : load[f[1]].source \in Sources
  BY <1>1 DEF TypeInv, LoadType, Facts
<1>3. QED
  BY <1>1, <1>2 DEF LicenceOf, SourceOf, Licences

LEMMA JobStays ==
    ASSUME TypeInv, NEW p \in Readers, ReadOf(p), GateOf(p), ShownOf(p),
           \A l \in Committed : load'[l] = load[l],
           \A lc \in Licences \X Channels : channel[lc] = "allowed" => channel'[lc] = "allowed",
           job'[p] = job[p]
    PROVE  ReadOf(p)' /\ GateOf(p)' /\ ShownOf(p)'
<1>1. Committed \subseteq Committed'
  BY DEF Committed
<1>2. CurrentOf(load', job[p].asOf, job[p].seen) = CurrentOf(load, job[p].asOf, job[p].seen)
  BY CurrentLocal DEF ReadOf
<1>3. ReadOf(p)'
  BY <1>1, <1>2 DEF ReadOf
<1>4. \A f \in job[p].touched :
          /\ LicenceOf(f)' = LicenceOf(f) /\ ValueOf(f)' = ValueOf(f) /\ LicenceOf(f) \in Licences
  BY TouchedCommitted DEF LicenceOf, SourceOf, ValueOf
<1>5. job[p].channel \in Channels /\ ViewerChannel \in Channels
  BY ComposeAssumption DEF TypeInv, JobType
<1>6. \A i \in Licences, c \in Channels :
          channel[<<i, c>>] = "allowed" => channel'[<<i, c>>] = "allowed"
  OBVIOUS
<1>7. \A d \in DOMAIN DetectorSource : Licence[DetectorSource[d]] \in Licences
  BY ComposeAssumption DEF Licences
<1>8. GateOf(p)'
  BY <1>4, <1>5, <1>6, <1>7 DEF GateOf
<1>9. ShownOf(p)'
  <2>1. Answered(p, "file")' <=> Answered(p, "file")
    BY DEF Answered
  <2>2. IncorporatedSatisfied(job[p].touched) => IncorporatedSatisfied(job[p].touched)'
    BY <1>4 DEF IncorporatedSatisfied
  <2>3. job[p].pc = "done" /\ job[p].kind # "exceptions" =>
            \A f \in job[p].shown : f \in job[p].touched
    BY DEF ShownOf
  <2>4. job[p].kind = "facts" => job[p].kind # "exceptions"
    OBVIOUS
  <2>5. job[p].kind = "file" => job[p].kind # "exceptions"
    OBVIOUS
  <2>6. job[p].pc = "done" /\ job[p].kind = "facts" =>
            \A f \in job[p].shown : channel'[<<LicenceOf(f)', ViewerChannel>>] = "allowed"
    BY <1>4, <1>5, <1>6, <2>3, <2>4 DEF ShownOf
  <2>7. job[p].pc = "done" /\ job[p].kind = "file" /\ "RIGHTS_BLOCKED" \notin job[p].refusals =>
            \A f \in job[p].shown : channel'[<<LicenceOf(f)', job[p].channel>>] = "allowed"
    BY <1>4, <1>5, <1>6, <2>3, <2>5 DEF ShownOf
  <2>8. job[p].pc = "done" /\ job[p].kind = "exceptions" =>
            \A d \in job[p].shown :
                /\ d \in DOMAIN DetectorSource
                /\ channel'[<<Licence[DetectorSource[d]], ViewerChannel>>] = "allowed"
    BY <1>5, <1>6, <1>7 DEF ShownOf
  <2>9. QED
    BY <2>1, <2>2, <2>6, <2>7, <2>8 DEF ShownOf
<1>10. QED
  BY <1>3, <1>8, <1>9

LEMMA EmptyHolds ==
    ASSUME NEW p \in Readers, Empty(job'[p])
    PROVE  ReadOf(p)' /\ GateOf(p)' /\ ShownOf(p)'
<1>1. /\ job'[p].seen = {} /\ job'[p].touched = {} /\ job'[p].shown = {}
      /\ job'[p].pc # "answer" /\ job'[p].result # Ok
      /\ job'[p].pc # "done" => job'[p].result = NoResult
      /\ job'[p].kind # "file" => job'[p].channel = ViewerChannel
  BY DEF Empty
<1>2. CurrentOf(load', job'[p].asOf, {}) = {}
  BY CurrentType
<1>3. ReadOf(p)'
  BY <1>1, <1>2 DEF ReadOf
<1>4. GateOf(p)' /\ ShownOf(p)'
  BY <1>1 DEF GateOf, ShownOf, Answered
<1>5. QED
  BY <1>3, <1>4

\* Nothing a step of a reader leaves alone tells of the loads or the licences.
LEMMA WorldStands ==
    ASSUME UNCHANGED <<load, channel>>
    PROVE  /\ Committed' = Committed
           /\ \A f : LicenceOf(f)' = LicenceOf(f) /\ ValueOf(f)' = ValueOf(f)
BY DEF Committed, LicenceOf, SourceOf, ValueOf

LEMMA GateHere ==
    ASSUME TypeInv, NEW p \in Readers, ReadOf(p), Gate(p)
    PROVE  ReadOf(p)' /\ GateOf(p)' /\ ShownOf(p)'
<1>1. /\ Kept(p) /\ UNCHANGED <<load, channel>> /\ job'[p].pc = "answer" /\ job[p].pc = "gate"
      /\ job'[p].seen = job[p].seen /\ job'[p].touched = job[p].touched
      /\ job'[p].result = job[p].result /\ job'[p].blocked = BlockedByLicence(p)
  BY GateIs DEF ByItself
<1>2. ReadOf(p)'
  BY <1>1, WorldStands DEF ReadOf, Kept
<1>3. \A i \in LicencesTouched(p) :
          i \notin job'[p].blocked => channel[<<i, job[p].channel>>] = "allowed"
  BY <1>1 DEF BlockedByLicence
<1>4. job[p].kind # "exceptions" => \A f \in job[p].touched : LicenceOf(f) \in LicencesTouched(p)
  BY DEF LicencesTouched
<1>5. job[p].kind = "exceptions" =>
          \A d \in DOMAIN DetectorSource : Licence[DetectorSource[d]] \in LicencesTouched(p)
  BY DEF LicencesTouched
<1>6. GateOf(p)'
  BY <1>1, <1>3, <1>4, <1>5, WorldStands DEF GateOf, Kept
<1>7. ShownOf(p)'
  BY <1>1 DEF ShownOf
<1>8. QED
  BY <1>2, <1>6, <1>7

LEMMA ShowHere ==
    ASSUME TypeInv, NEW p \in Readers, ReadOf(p), GateOf(p), Show(p)
    PROVE  ReadOf(p)' /\ GateOf(p)' /\ ShownOf(p)'
<1>1. /\ UNCHANGED <<load, channel>> /\ job[p].pc = "answer" /\ job'[p].pc = "done"
      /\ job'[p].kind = job[p].kind /\ job'[p].channel = job[p].channel
      /\ job'[p].asOf = job[p].asOf /\ job'[p].seen = job[p].seen
      /\ job'[p].touched = job[p].touched
      /\ job[p].kind # "file" /\ job'[p].shown = Unblocked(p)
  BY ShowIs DEF Answers, ByItself
<1>2. ReadOf(p)'
  BY <1>1, WorldStands DEF ReadOf
<1>3. job[p].channel = ViewerChannel /\ job[p].kind \in {"facts", "exceptions"}
  BY <1>1 DEF ReadOf, TypeInv, JobType, Kinds
<1>4. CASE job[p].kind = "facts"
  <2>1. /\ Unblocked(p) \subseteq job[p].touched
        /\ \A f \in Unblocked(p) : channel[<<LicenceOf(f), ViewerChannel>>] = "allowed"
    BY <1>1, <1>3, <1>4 DEF Unblocked, GateOf
  <2>2. QED
    BY <1>1, <1>2, <1>4, <2>1, WorldStands DEF GateOf, ShownOf, Answered
<1>5. CASE job[p].kind = "exceptions"
  <2>1. \A d \in Unblocked(p) :
            /\ d \in DOMAIN DetectorSource
            /\ channel[<<Licence[DetectorSource[d]], ViewerChannel>>] = "allowed"
    BY <1>1, <1>3, <1>5 DEF Unblocked, GateOf
  <2>2. QED
    BY <1>1, <1>2, <1>5, <2>1, WorldStands DEF GateOf, ShownOf, Answered
<1>6. QED
  BY <1>3, <1>4, <1>5

LEMMA WriteHere ==
    ASSUME TypeInv, NEW p \in Readers, ReadOf(p), GateOf(p), Write(p), ~Empty(job'[p])
    PROVE  ReadOf(p)' /\ GateOf(p)' /\ ShownOf(p)'
<1>1. /\ UNCHANGED <<load, channel>> /\ job[p].pc = "answer" /\ job'[p].pc = "done"
      /\ job'[p].kind = "file" /\ job[p].kind = "file" /\ job'[p].channel = job[p].channel
      /\ job'[p].asOf = job[p].asOf /\ job'[p].seen = job[p].seen
      /\ job'[p].touched = job[p].touched
      /\ job'[p].shown = job[p].touched
      /\ job'[p].refusals = Refusals(p, job'[p].boundary)
  BY WriteIs DEF Answers, ByItself
<1>2. ReadOf(p)'
  BY <1>1, WorldStands DEF ReadOf
<1>3. ASSUME "RIGHTS_BLOCKED" \notin job'[p].refusals
      PROVE  \A f \in job[p].touched : channel[<<LicenceOf(f), job[p].channel>>] = "allowed"
  <2>1. job[p].blocked = {}
    BY <1>1, <1>3 DEF Refusals
  <2>2. QED
    BY <1>1, <2>1 DEF GateOf
<1>4. ASSUME job'[p].boundary, "LICENCE_UNKNOWN" \notin job'[p].refusals
      PROVE  IncorporatedSatisfied(job[p].touched)
  BY <1>1, <1>4 DEF Refusals
<1>5. IncorporatedSatisfied(job[p].touched) => IncorporatedSatisfied(job[p].touched)'
  BY <1>1, WorldStands DEF IncorporatedSatisfied
<1>6. GateOf(p)' /\ ShownOf(p)'
  BY <1>1, <1>3, <1>4, <1>5, WorldStands DEF GateOf, ShownOf, Answered
<1>7. QED
  BY <1>2, <1>6

LEMMA ReadHere ==
    ASSUME TypeInv, NEW p \in Readers, ReadOf(p), SelectRule(p) \/ ReadFacts(p)
    PROVE  ReadOf(p)' /\ GateOf(p)' /\ ShownOf(p)'
<1>1. CASE SelectRule(p)
  BY <1>1, SelectRuleIs, WorldStands DEF ByItself, Kept, ReadOf, GateOf, ShownOf
<1>2. CASE ReadFacts(p)
  BY <1>2, ReadFactsIs, WorldStands DEF ByItself, Kept, ReadOf, GateOf, ShownOf
<1>3. QED
  BY <1>1, <1>2

LEMMA ComposeInit ==
    ASSUME Init
    PROVE  ComposeInv
<1>1. TypeInv
  BY NoJobType, NoLoadType, ComposeAssumption DEF Init, TypeInv
<1>2. LoadsInv
  BY NoLoadType, ComposeAssumption DEF Init, LoadsInv
<1>3. ASSUME NEW p \in Readers
      PROVE  ReadOf(p) /\ GateOf(p) /\ ShownOf(p)
  <2>1. job[p] = NoJob
    BY DEF Init
  <2>2. CurrentOf(load, NoJob.asOf, {}) = {}
    BY CurrentType
  <2>3. QED
    BY <2>1, <2>2, NoJobType DEF ReadOf, GateOf, ShownOf
<1>4. QED
  BY <1>1, <1>2, <1>3 DEF ComposeInv, JobsInv

LEMMA ComposeNext ==
    ASSUME ComposeInv, [Next]_vars
    PROVE  ComposeInv'
<1>1. TypeInv /\ LoadsInv /\ JobsInv
  BY DEF ComposeInv
<1>2. CASE World \/ UNCHANGED vars
  <2>1. /\ TypeInv' /\ LoadsInv' /\ UNCHANGED job
        /\ \A l \in Committed : load'[l] = load[l]
        /\ \A lc \in Licences \X Channels : channel[lc] = "allowed" => channel'[lc] = "allowed"
    BY <1>1, <1>2, WorldType DEF vars, TypeInv, LoadsInv
  <2>2. JobsInv'
    BY <1>1, <2>1, JobStays DEF JobsInv
  <2>3. QED
    BY <2>1, <2>2 DEF ComposeInv
<1>3. ASSUME NEW p \in Readers, Acts(p)
      PROVE  ComposeInv'
  <2>1. ReadOf(p) /\ GateOf(p) /\ ShownOf(p)
    BY <1>1 DEF JobsInv
  <2>2. UNCHANGED <<clock, load, channel>> /\ job' = [job EXCEPT ![p] = job'[p]] /\ job'[p] \in JobType
    BY <1>1, <1>3, <2>1, ActsAre DEF ByItself
  <2>3. TypeInv' /\ LoadsInv' /\ \A r \in Readers \ {p} : job'[r] = job[r]
    BY <1>1, <2>2 DEF TypeInv, LoadsInv
  <2>4. \A r \in Readers \ {p} : ReadOf(r)' /\ GateOf(r)' /\ ShownOf(r)'
    BY <1>1, <2>2, <2>3, JobStays DEF JobsInv
  <2>5. ReadOf(p)' /\ GateOf(p)' /\ ShownOf(p)'
    BY <1>1, <1>3, <2>1, ActsAre, EmptyHolds, ReadHere, GateHere, ShowHere, WriteHere
  <2>6. QED
    BY <2>3, <2>4, <2>5 DEF ComposeInv, JobsInv
<1>4. QED
  BY <1>2, <1>3, NextIs

LEMMA ComposeInvHolds == Spec => []ComposeInv
<1>1. Init => ComposeInv
  BY ComposeInit
<1>2. ComposeInv /\ [Next]_vars => ComposeInv'
  BY ComposeNext
<1>3. QED
  BY <1>1, <1>2, PTL DEF Spec

-----------------------------------------------------------------------------
(* The theorems.                                                           *)

\* The state keeps its shape: a call ends in a value, in a refusal or in
\* neither, never in both.
THEOREM TypesHold == Spec => []TypeOK
<1>1. ComposeInv => TypeOK
  BY DEF ComposeInv, TypeInv, TypeOK, LoadType, JobType
<1>2. QED
  BY <1>1, ComposeInvHolds, PTL

\* Default deny: whatever licence rows arrive between the gate and the answer,
\* what is shown has a licence that allows its channel, or the file refuses
\* RIGHTS_BLOCKED.
THEOREM GateHoldsAlways == Spec => []GateHolds
<1>1. ComposeInv => GateHolds
  BY DEF ComposeInv, JobsInv, ShownOf, GateHolds
<1>2. QED
  BY <1>1, ComposeInvHolds, PTL

\* A file or an answer can be replayed: the facts at its as_of stay those it was
\* made of, unless a load that had begun by then was still in flight.
THEOREM ReplaysExactlyHolds == Spec => []ReplaysExactly
<1>1. ASSUME ComposeInv, NEW p \in Readers, InFlight(p) = {}
      PROVE  job[p].touched = CurrentFactAt(job[p].asOf, Committed)
  <2>1. job[p].seen \subseteq Committed
        /\ job[p].touched = CurrentOf(load, job[p].asOf, job[p].seen)
    BY <1>1 DEF ComposeInv, JobsInv, ReadOf
  <2>2. ASSUME NEW l \in Committed \ job[p].seen
        PROVE  ~(load[l].at <= job[p].asOf) /\ ~(load[l].cut <= job[p].asOf)
    <3>1. ~(load[l].at <= job[p].asOf)
      BY <1>1 DEF InFlight
    <3>2. l \in Loads /\ load[l].phase = "committed"
      BY DEF Committed
    <3>3. load[l].at \in Nat /\ load[l].cut \in Nat /\ job[p].asOf \in Nat
      BY <1>1, <3>2, ComposeAssumption DEF ComposeInv, TypeInv, LoadType, JobType
    <3>4. load[l].at <= load[l].cut
      BY <1>1, <3>2 DEF ComposeInv, LoadsInv
    <3>5. QED
      BY <3>1, <3>3, <3>4
  <2>3. CurrentOf(load, job[p].asOf, Committed) = CurrentOf(load, job[p].asOf, job[p].seen)
    BY <2>1, <2>2, CurrentCut
  <2>4. QED
    BY <2>1, <2>3, CurrentIs
<1>2. ComposeInv => ReplaysExactly
  BY <1>1 DEF ReplaysExactly
<1>3. QED
  BY <1>2, ComposeInvHolds, PTL

\* A file of a jurisdiction that declares its boundary source refuses unless the
\* one incorporation fact it links to says that the parcel is incorporated (C3).
THEOREM DeniedByDefaultHolds == Spec => []DeniedByDefault
<1>1. ASSUME ComposeInv, NEW p \in Readers, Answered(p, "file"), job[p].boundary,
             "LICENCE_UNKNOWN" \notin job[p].refusals
      PROVE  \E f \in job[p].shown :
                 /\ f[2] = Incorporated /\ ValueOf(f) = "yes"
                 /\ load[f[1]].phase = "committed" /\ load[f[1]].at <= job[p].asOf
                 /\ \A g \in job[p].shown : g[2] = f[2] => g = f
  <2>1. TypeInv /\ ReadOf(p) /\ ShownOf(p)
    BY <1>1 DEF ComposeInv, JobsInv
  <2>2. job[p].pc = "done"
    BY <1>1, <2>1 DEF ReadOf, Answered, Ok, NoResult
  <2>3. job[p].shown = job[p].touched /\ IncorporatedSatisfied(job[p].touched)
    BY <1>1, <2>1, <2>2 DEF ShownOf
  <2>4. PICK f \in job[p].touched : f[2] = Incorporated /\ ValueOf(f) = "yes"
    BY <2>3 DEF IncorporatedSatisfied
  <2>5. f[1] \in Committed /\ load[f[1]].at <= job[p].asOf
    BY <2>1, TouchedCommitted
  <2>6. \A g \in job[p].touched : g[2] = f[2] => g = f
    BY <2>1, OnePerField DEF ReadOf
  <2>7. QED
    BY <2>3, <2>4, <2>5, <2>6 DEF Committed
<1>2. ComposeInv => DeniedByDefault
  BY <1>1 DEF DeniedByDefault
<1>3. QED
  BY <1>2, ComposeInvHolds, PTL
=============================================================================
