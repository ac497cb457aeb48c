-------------------------- MODULE ZoningLoad_proofs --------------------------
(***************************************************************************)
(* Theorems of ZoningLoad: what the zoning facts and the open exceptions    *)
(* say after a load, for every set of parcels, every geometry and every     *)
(* content of the snapshots.                                                *)
(***************************************************************************)
EXTENDS ZoningLoad, FiniteSetTheorems, WellFoundedInduction, TLAPS

-----------------------------------------------------------------------------
(* The inductive invariant.                                                *)

Pcs == {"idle", "staged", "populated", "pointed", "joined", "scoped", "read"}

LoaderType ==
    [pc : Pcs, snap : Snapshots \cup {None}, point : [Parcels -> Points \cup {None}],
     moved : SUBSET Parcels, bad : SUBSET Parcels, openBad : SUBSET Parcels,
     near : [Parcels -> SUBSET Rows], scope : SUBSET Parcels, live : SUBSET Facts,
     calm : BOOLEAN]

\* The tables and the loader are of their types; a parcel without a geometry
\* has no point, and the load gives none to it.
TypeInv ==
    /\ TypeOK
    /\ loader \in LoaderType
    /\ loader.pc # "idle" => loader.snap \in Snapshots /\ loads # 0
    /\ \A p \in Parcels : IsFiniteSet(loader.near[p])
    /\ \A p \in Parcels : geom[p] = None => centroid[p] = None /\ p \notin loader.moved

Idle == loader.pc = "idle"

\* Rows name runs that have started, and none the run that is loading.
RunsInv ==
    /\ \A f \in facts : f.run <= loads /\ (~Idle => f.run < loads)
    /\ \A e \in exceptions :
           /\ e.run <= loads /\ (~Idle => e.run < loads)
           /\ e.closed <= loads /\ (~Idle => e.closed < loads)

SameKey(f, g) == f.parcel = g.parcel /\ f.field = g.field
SameFinding(d, e) ==
    d.det = "join" /\ e.det = "join" /\ d.parcel = e.parcel /\ d.reason = e.reason

\* A key has one live fact and one fact of a run; the centroid detector has one
\* reason, and a finding of the join that is open was closed only before.
RowsInv ==
    /\ \A f, g \in facts : SameKey(f, g) /\ f.live /\ g.live => f = g
    /\ \A f, g \in facts : SameKey(f, g) /\ f.run = g.run => f = g
    /\ \A e \in exceptions : e.det = "centroid" => e.reason = "not_interior"
    /\ \A d, e \in exceptions :
           SameFinding(d, e) /\ e.closed = 0 /\ d.closed # 0 => d.closed < e.run

\* Nobody else writes zoning facts or exceptions, so what the load has read of
\* them is what they still say.
ReadInv ==
    /\ loader.pc = "read" => loader.live = Live
    /\ loader.pc \notin {"idle", "staged", "populated"} =>
           loader.openBad = {e.parcel : e \in Open("centroid")}

\* The parcels are what they were when the load read them, as long as none has
\* moved since it began.
CalmInv ==
    loader.calm /\ ~Idle =>
        /\ loader.pc # "staged" =>
               /\ loader.moved = {p \in Located : NeedsPoint(p)}
               /\ \A p \in loader.moved : loader.point[p] = PointOf[geom[p]]
        /\ loader.pc \notin {"staged", "populated"} =>
               loader.bad = {p \in Located : NotInterior(p, PointSeen(p))}
        /\ loader.pc \in {"joined", "scoped", "read"} =>
               \A p \in Parcels :
                   loader.near[p] =
                       IF PointSeen(p) # None /\ p \notin loader.bad
                       THEN Candidates[loader.snap][PointSeen(p)] ELSE {}
        /\ loader.pc \in {"scoped", "read"} =>
               loader.scope = {p \in Parcels : PointSeen(p) # None}

LoadInv ==
    /\ TypeInv
    /\ RunsInv
    /\ RowsInv
    /\ ReadInv
    /\ CalmInv
    /\ LedgerExact
    /\ ExceptionsExact
    /\ ReopenedFromLast

-----------------------------------------------------------------------------
(* The classification.                                                     *)

LEMMA NamedFinite ==
    ASSUME NEW rows, IsFiniteSet(rows)
    PROVE  /\ IsFiniteSet(Named(rows)) /\ Cardinality(Named(rows)) \in Nat
           /\ Cardinality(Named(rows)) = 0 <=> Named(rows) = {}
           /\ Cardinality(Named(rows)) = 1 <=> \E z : Named(rows) = {z}
<1> DEFINE all == {c.zoning : c \in rows}
           f == [c \in rows |-> c.zoning]
<1>1. f \in Surjection(rows, all)
  BY DEF Surjection
<1>2. IsFiniteSet(all)
  BY <1>1, FS_Surjection
<1>3. Named(rows) \in SUBSET all
  BY DEF Named
<1>4. IsFiniteSet(Named(rows))
  BY <1>2, <1>3, FS_Subset
<1>5. QED
  BY <1>4, FS_CardinalityType, FS_EmptySet, FS_Singleton

LEMMA RowsFinite ==
    ASSUME NEW rows, IsFiniteSet(rows)
    PROVE  /\ Cardinality(rows) \in Nat
           /\ Cardinality(rows) = 0 <=> rows = {}
BY FS_CardinalityType, FS_EmptySet

\* The number of distinct texts of some of the polygons is 1 exactly if they
\* agree, whatever the number of the polygons.
LEMMA OneText ==
    ASSUME NEW rows, IsFiniteSet(rows), NEW texts \in SUBSET {c.verbatim : c \in rows}
    PROVE  Cardinality(texts) = 1 <=> \E v : texts = {v}
<1> DEFINE f == [c \in rows |-> c.verbatim]
<1>1. f \in Surjection(rows, {c.verbatim : c \in rows})
  BY DEF Surjection
<1>2. IsFiniteSet(texts)
  BY <1>1, FS_Surjection, FS_Subset
<1>3. QED
  BY <1>2, FS_Singleton

\* Classify says what the definitions of the properties say of the polygons:
\* nothing but a finding, unless they name one district.
LEMMA ClassifyNone ==
    ASSUME NEW rows, IsFiniteSet(rows), Cardinality(Named(rows)) # 1
    PROVE  /\ Classify(rows).district = None
           /\ Classify(rows).verbatim = None
           /\ Classify(rows).reason =
                  IF Named(rows) = {} THEN "no_district" ELSE "many_districts"
           /\ Named(rows) # {} => Cardinality(Named(rows)) > 1
<1> DEFINE values == {c.zoning : c \in rows} \ {Blank}
           zoning == CHOOSE z \in values : TRUE
           texts == {c.verbatim : c \in {c \in rows : c.zoning = zoning}}
           other == Class(zoning, IF Cardinality(texts) = 1
                                  THEN CHOOSE v \in texts : TRUE ELSE None,
                          IF Cardinality(rows) > 1 THEN "polygons_agree" ELSE None)
<1>1. values = Named(rows)
  BY DEF Named
<1>2. Classify(rows) = CASE values = {} -> Class(None, None, "no_district")
                         [] Cardinality(values) > 1 -> Class(None, None, "many_districts")
                         [] OTHER -> other
  BY DEF Classify
<1> HIDE DEF values, other
<1>3. Named(rows) # {} => Cardinality(Named(rows)) > 1
  BY NamedFinite
<1>4. CASE Named(rows) = {}
  <2>1. ~ Cardinality(values) > 1
    BY <1>1, <1>4, NamedFinite
  <2>2. Classify(rows) = Class(None, None, "no_district")
    BY <1>1, <1>2, <1>4, <2>1
  <2>3. QED
    BY <1>4, <2>2 DEF Class
<1>5. CASE Named(rows) # {}
  <2>1. Classify(rows) = Class(None, None, "many_districts")
    BY <1>1, <1>2, <1>3, <1>5
  <2>2. QED
    BY <1>3, <1>5, <2>1 DEF Class
<1>6. QED
  BY <1>4, <1>5

\* If they name one, that district, the text they agree on, and a finding if
\* there are several polygons.
LEMMA ClassifyOne ==
    ASSUME NEW rows, rows \subseteq Rows, IsFiniteSet(rows),
           Cardinality(Named(rows)) = 1
    PROVE  /\ Named(rows) = {Classify(rows).district}
           /\ Classify(rows).district \in Zonings
           /\ Classify(rows).verbatim \in Zonings \cup {Blank, None}
           /\ \A v \in Zonings \cup {Blank} :
                  Classify(rows).verbatim = v
                      <=> \A c \in rows : c.zoning # Blank => c.verbatim = v
           /\ Classify(rows).reason = IF Cardinality(rows) > 1 THEN "polygons_agree" ELSE None
<1> DEFINE values == {c.zoning : c \in rows} \ {Blank}
           zoning == CHOOSE z \in values : TRUE
           texts == {c.verbatim : c \in {c \in rows : c.zoning = zoning}}
           text == IF Cardinality(texts) = 1 THEN CHOOSE v \in texts : TRUE ELSE None
<1>1. values = {zoning} /\ values = Named(rows)
  BY NamedFinite DEF Named
<1>2. Cardinality(values) = 1 /\ values # {}
  BY <1>1
<1>3. Classify(rows) = Class(zoning, text,
                             IF Cardinality(rows) > 1 THEN "polygons_agree" ELSE None)
  BY <1>2 DEF Classify
<1>4. \A c \in rows : c.zoning # Blank <=> c.zoning = zoning
  BY <1>1
<1>5. zoning \in Zonings
  <2>1. PICK c \in rows : c.zoning = zoning /\ zoning # Blank
    BY <1>1
  <2>2. QED
    BY <2>1 DEF Rows
<1>6. texts # {} /\ texts \subseteq Zonings \cup {Blank, None}
  BY <1>1 DEF Rows
<1>7. Cardinality(texts) = 1 <=> \E v : texts = {v}
  <2>1. texts \in SUBSET {c.verbatim : c \in rows}
    OBVIOUS
  <2> HIDE DEF texts, zoning, values, text
  <2>2. QED
    BY <2>1, OneText
<1>8. text \in Zonings \cup {Blank, None}
  BY <1>6
<1>9. ASSUME NEW v \in Zonings \cup {Blank}
      PROVE  text = v <=> \A c \in rows : c.zoning # Blank => c.verbatim = v
  <2>1. (\A c \in rows : c.zoning # Blank => c.verbatim = v) <=> texts = {v}
    BY <1>4, <1>6
  <2>2. text = v <=> texts = {v}
    BY <1>6, <1>7, NoneAssumption
  <2>3. QED
    BY <2>1, <2>2
<1> HIDE DEF values, zoning, texts, text
<1>10. /\ Classify(rows).district = zoning
       /\ Classify(rows).verbatim = text
       /\ Classify(rows).reason = IF Cardinality(rows) > 1 THEN "polygons_agree" ELSE None
  BY <1>3 DEF Class
<1>11. QED
  BY <1>1, <1>5, <1>8, <1>9, <1>10

\* What a load derives of a parcel is a classification.
LEMMA ClassifyType ==
    ASSUME NEW rows, rows \subseteq Rows, IsFiniteSet(rows)
    PROVE  /\ Classify(rows).district \in Zonings \cup {None}
           /\ Classify(rows).verbatim \in Zonings \cup {Blank, None}
           /\ Classify(rows).reason \in Reasons \cup {None}
           /\ Classify(rows).district = None => Classify(rows).reason \in Reasons
<1>1. CASE Cardinality(Named(rows)) = 1
  BY <1>1, ClassifyOne, NoneAssumption DEF Reasons
<1>2. CASE Cardinality(Named(rows)) # 1
  BY <1>2, ClassifyNone DEF Reasons
<1>3. QED
  BY <1>1, <1>2

-----------------------------------------------------------------------------
(* What a commit does, row by row.                                         *)

\* A set of rows that were closed holds one that was closed last.
LEMMA LastExists ==
    ASSUME NEW S, NEW n \in Nat, \A c \in S : c.closed \in Nat /\ c.closed <= n, S # {}
    PROVE  \E c \in S : \A d \in S : d.closed <= c.closed
<1> DEFINE T == {n - c.closed : c \in S}
<1>1. T \subseteq Nat /\ T # {}
  OBVIOUS
<1>2. PICK x \in T : \A y \in T : ~(<<y, x>> \in OpToRel(<, Nat))
  BY <1>1, NatLessThanWellFounded, WFMin
<1>3. PICK c \in S : x = n - c.closed
  OBVIOUS
<1>4. ASSUME NEW d \in S
      PROVE  d.closed <= c.closed
  <2>1. n - d.closed \in T /\ n - d.closed \in Nat /\ n - c.closed \in Nat
    BY <1>1
  <2>2. ~(n - d.closed < n - c.closed)
    BY <1>2, <1>3, <2>1 DEF OpToRel
  <2>3. QED
    BY <2>2
<1>5. QED
  BY <1>4

\* The load supersedes f, or writes g.
Dies(f) == f.parcel \in loader.scope /\ f \in Superseded(f.parcel, f.field)
After(f) == IF Dies(f) THEN [f EXCEPT !.live = FALSE] ELSE f
Born(g) == \E p \in loader.scope, field \in Fields : g \in Written(loads, p, field)

LEMMA CommitFacts ==
    ASSUME Commit, TypeInv
    PROVE  /\ facts' = {After(f) : f \in facts} \cup {g \in facts' : Born(g)}
           /\ \A g : Born(g) => g \in facts'
           /\ \A f \in facts : After(f) \in facts'
           /\ \A g \in facts' : Born(g) \/ \E f \in facts : g = After(f)
<1> DEFINE keys == loader.scope \X Fields
           dead == UNION {Superseded(k[1], k[2]) : k \in keys}
           born == UNION {Written(loads, k[1], k[2]) : k \in keys}
<1>1. facts' = {IF f \in dead THEN [f EXCEPT !.live = FALSE] ELSE f : f \in facts} \cup born
  BY DEF Commit
<1>2. ASSUME NEW f \in facts
      PROVE  f \in dead <=> Dies(f)
  <2>1. f.field \in Fields
    BY DEF TypeInv, TypeOK, Facts
  <2>2. \A p, field : f \in Superseded(p, field) => p = f.parcel /\ field = f.field
    BY DEF Superseded, LiveOf
  <2>3. f \in dead => Dies(f)
    <3>1. \A k \in keys : k[1] \in loader.scope
      OBVIOUS
    <3>2. f \in dead => \E k \in keys : f \in Superseded(k[1], k[2])
      OBVIOUS
    <3>3. QED
      BY <2>2, <3>1, <3>2 DEF Dies
  <2>4. ASSUME Dies(f)
        PROVE  f \in dead
    <3>1. <<f.parcel, f.field>> \in keys
      BY <2>1, <2>4 DEF Dies
    <3>2. f \in Superseded(<<f.parcel, f.field>>[1], <<f.parcel, f.field>>[2])
      BY <2>4 DEF Dies
    <3>3. QED
      BY <3>1, <3>2
  <2>5. QED
    BY <2>3, <2>4
<1>3. ASSUME NEW g
      PROVE  g \in born <=> Born(g)
  <2>1. g \in born => Born(g)
    <3>1. \A k \in keys : k[1] \in loader.scope /\ k[2] \in Fields
      OBVIOUS
    <3>2. g \in born => \E k \in keys : g \in Written(loads, k[1], k[2])
      OBVIOUS
    <3>3. QED
      BY <3>1, <3>2 DEF Born
  <2>2. ASSUME NEW p \in loader.scope, NEW field \in Fields, g \in Written(loads, p, field)
        PROVE  g \in born
    <3>1. <<p, field>> \in keys
      OBVIOUS
    <3>2. g \in Written(loads, <<p, field>>[1], <<p, field>>[2])
      BY <2>2
    <3>3. QED
      BY <3>1, <3>2
  <2>3. QED
    BY <2>1, <2>2 DEF Born
<1> HIDE DEF dead, born
<1>4. \A f \in facts : After(f) = IF f \in dead THEN [f EXCEPT !.live = FALSE] ELSE f
  BY <1>2 DEF After
<1>5. QED
  BY <1>1, <1>3, <1>4

\* A commit keeps every fact, live unless it is superseded, and writes of each
\* parcel in scope and each field what is new.
LEMMA WrittenShape ==
    ASSUME TypeInv, NEW r, NEW p \in Parcels, NEW field \in Fields, NEW g \in Written(r, p, field)
    PROVE  /\ g.run = r /\ g.parcel = p /\ g.field = field /\ g.live
           /\ g.val = FreshValue(p, field) /\ g.val # None
           /\ \A f \in LiveOf(p, field) : f.val # g.val
           /\ g.sup = None <=> LiveOf(p, field) = {}
           /\ g.sup # None => \E f \in LiveOf(p, field) : g.sup = f.run
           /\ g = [run |-> r, parcel |-> p, field |-> field, val |-> FreshValue(p, field),
                   sup |-> g.sup, live |-> TRUE]
<1> DEFINE v == FreshValue(p, field)
           old == LiveOf(p, field)
           Fact(sup) == [run |-> r, parcel |-> p, field |-> field, val |-> v,
                         sup |-> sup, live |-> TRUE]
<1>1. v # None /\ \A f \in old : f.val # v
  BY DEF Written
<1>2. g \in IF old = {} THEN {Fact(None)} ELSE {Fact(f.run) : f \in old}
  BY <1>1 DEF Written
<1>3. \A f \in old : f.run \in Nat
  BY DEF TypeInv, TypeOK, LiveOf, Facts
<1> HIDE DEF v, old
<1>4. CASE old = {}
  BY <1>1, <1>2, <1>4 DEF v, old
<1>5. CASE old # {}
  <2>1. PICK f \in old : g = Fact(f.run)
    BY <1>2, <1>5
  <2>2. f.run # None
    BY <1>3, NoneAssumption
  <2>3. QED
    BY <1>1, <1>5, <2>1, <2>2 DEF v, old
<1>6. QED
  BY <1>4, <1>5

LEMMA FreshType ==
    ASSUME TypeInv, NEW p \in Parcels
    PROVE  /\ FreshValue(p, "district") \in Zonings \cup {None}
           /\ FreshValue(p, "verbatim") \in Zonings \cup {Blank, None}
           /\ ClassOf(p).reason \in Reasons \cup {None}
           /\ \A field \in Fields :
                  FreshValue(p, field) = IF p \in Classified THEN ClassOf(p)[field] ELSE None
           /\ \A field \in Fields : FreshValue(p, field) \in Zonings \cup {Blank, None}
<1>1. loader.near[p] \subseteq Rows /\ IsFiniteSet(loader.near[p])
  BY DEF TypeInv, LoaderType
<1>2. /\ ClassOf(p).district \in Zonings \cup {None}
      /\ ClassOf(p).verbatim \in Zonings \cup {Blank, None}
      /\ ClassOf(p).reason \in Reasons \cup {None}
  BY <1>1, ClassifyType DEF ClassOf
<1>3. /\ FreshValue(p, "district") \in Zonings \cup {None}
      /\ FreshValue(p, "verbatim") \in Zonings \cup {Blank, None}
  BY <1>2 DEF FreshValue
<1>4. QED
  BY <1>2, <1>3 DEF FreshValue, Fields

LEMMA CommitFactsType ==
    ASSUME Commit, TypeInv
    PROVE  \A g \in facts' : g \in Facts
<1>1. \A f \in facts : f \in Facts /\ After(f) \in Facts
  BY DEF After, TypeInv, TypeOK, Facts
<1>2. ASSUME NEW g, Born(g)
      PROVE  g \in Facts
  <2>1. PICK p \in loader.scope, field \in Fields : g \in Written(loads, p, field)
    BY <1>2 DEF Born
  <2>2. p \in Parcels /\ loads \in Nat
    BY DEF TypeInv, TypeOK, LoaderType
  <2>3. g.val \in Zonings \cup {Blank}
    BY <2>1, <2>2, WrittenShape, FreshType
  <2>4. g.sup \in Nat \cup {None}
    <3>1. \A f \in LiveOf(p, field) : f.run \in Nat
      BY DEF TypeInv, TypeOK, LiveOf, Facts
    <3>2. QED
      BY <2>1, <2>2, <3>1, WrittenShape
  <2>5. g = [run |-> loads, parcel |-> p, field |-> field, val |-> g.val,
             sup |-> g.sup, live |-> TRUE]
    BY <2>1, <2>2, WrittenShape
  <2>6. [run |-> loads, parcel |-> p, field |-> field, val |-> g.val,
         sup |-> g.sup, live |-> TRUE] \in Facts
    BY <2>2, <2>3, <2>4 DEF Facts
  <2>7. QED
    BY <2>5, <2>6
<1>3. QED
  BY <1>1, <1>2, CommitFacts

\* The finding of an open row is still true, so the row stays open.
BadPairs == {<<p, "not_interior">> : p \in loader.bad}
StillOpen(e) == <<e.parcel, e.reason>> \in IF e.det = "centroid" THEN BadPairs ELSE StillTrue
Kept(e) == IF e.closed = 0 /\ ~StillOpen(e) THEN [e EXCEPT !.closed = loads] ELSE e

NewBad == {<<p, "not_interior">> : p \in loader.bad \ loader.openBad}
NewTrue == StillTrue \ OpenPairs("join")
NewRows == Raised("centroid", NewBad, loads) \cup Raised("join", NewTrue, loads)

\* The exceptions before they are linked: the old rows, and the new ones.
Table == {Kept(e) : e \in exceptions} \cup NewRows

\* What Relink makes of a row of the table.
ClosedLike(e) == {c \in Table : c.det = "join" /\ c.closed # 0 /\ c.parcel = e.parcel
                                /\ c.reason = e.reason}
LastLike(e) == CHOOSE c \in ClosedLike(e) : \A d \in ClosedLike(e) : d.closed <= c.closed
Relinks(e) ==
    NewTrue # {} /\ e.det = "join" /\ e.closed = 0 /\ e.from = None /\ ClosedLike(e) # {}
Link(e) == IF Relinks(e) THEN [e EXCEPT !.from = LastLike(e).run] ELSE e

LEMMA NewRowShape ==
    ASSUME NEW e \in NewRows
    PROVE  /\ e.run = loads /\ e.closed = 0 /\ e.from = None
           /\ \/ e.det = "centroid" /\ e.parcel \in loader.bad /\ e.reason = "not_interior"
              \/ e.det = "join" /\ <<e.parcel, e.reason>> \in NewTrue
           /\ StillOpen(e)
<1>1. \A x \in NewTrue : x = <<x[1], x[2]>> /\ x \in StillTrue
  BY DEF NewTrue, StillTrue
<1>2. \A x \in NewBad : x = <<x[1], x[2]>> /\ x[1] \in loader.bad /\ x[2] = "not_interior"
  BY DEF NewBad
<1>3. CASE e \in Raised("centroid", NewBad, loads)
  <2>1. PICK x \in NewBad :
            e = [run |-> loads, parcel |-> x[1], det |-> "centroid", reason |-> x[2],
                 closed |-> 0, from |-> None]
    BY <1>3 DEF Raised
  <2>2. QED
    BY <1>2, <2>1 DEF StillOpen, BadPairs
<1>4. CASE e \in Raised("join", NewTrue, loads)
  <2>1. PICK x \in NewTrue :
            e = [run |-> loads, parcel |-> x[1], det |-> "join", reason |-> x[2],
                 closed |-> 0, from |-> None]
    BY <1>4 DEF Raised
  <2>2. QED
    BY <1>1, <2>1 DEF StillOpen
<1>5. QED
  BY <1>3, <1>4 DEF NewRows

LEMMA CloseResolvedIs ==
    ASSUME NEW det, NEW pairs, NEW r, NEW T
    PROVE  /\ \A e \in T : (IF e.det = det /\ e.closed = 0 /\ <<e.parcel, e.reason>> \notin pairs
                            THEN [e EXCEPT !.closed = r] ELSE e) \in CloseResolved(det, pairs, r, T)
           /\ \A e \in CloseResolved(det, pairs, r, T) : \E d \in T :
                  e = IF d.det = det /\ d.closed = 0 /\ <<d.parcel, d.reason>> \notin pairs
                      THEN [d EXCEPT !.closed = r] ELSE d
BY DEF CloseResolved

LEMMA CommitTable ==
    ASSUME Commit, TypeInv
    PROVE  exceptions' = {Link(e) : e \in Table}
<1> DEFINE table0 == exceptions \cup Raised("centroid", NewBad, loads)
           close1(e) == IF e.det = "centroid" /\ e.closed = 0
                            /\ <<e.parcel, e.reason>> \notin BadPairs
                        THEN [e EXCEPT !.closed = loads] ELSE e
           close2(e) == IF e.det = "join" /\ e.closed = 0
                            /\ <<e.parcel, e.reason>> \notin StillTrue
                        THEN [e EXCEPT !.closed = loads] ELSE e
           table1 == {close1(e) : e \in table0}
           table2 == {close2(e) : e \in table1} \cup Raised("join", NewTrue, loads)
<1>1. exceptions' = IF NewTrue = {} THEN table2 ELSE Relink("join", table2)
  <2>1. /\ CloseResolved("centroid", BadPairs, loads, table0) = table1
        /\ CloseResolved("join", StillTrue, loads, table1) = {close2(e) : e \in table1}
    BY DEF CloseResolved
  <2> HIDE DEF table1
  <2>2. QED
    BY <2>1 DEF Commit, BadPairs, NewBad, NewTrue
<1>2. \A e \in exceptions : close2(close1(e)) = Kept(e)
  <2>1. \A e \in exceptions : e \in Exceptions /\ e.det \in {"centroid", "join"}
    BY DEF TypeInv, TypeOK, Exceptions, Detectors
  <2>2. QED
    BY <2>1 DEF Kept, StillOpen, Exceptions
<1>3. \A e \in Raised("centroid", NewBad, loads) : close2(close1(e)) = e
  <2>1. \A e \in Raised("centroid", NewBad, loads) :
            e \in NewRows /\ e.det = "centroid"
    BY DEF NewRows, Raised
  <2>2. QED
    BY <2>1, NewRowShape DEF StillOpen
<1>4. table2 = Table
  <2>1. \A e \in table2 : \/ e \in Raised("join", NewTrue, loads)
                          \/ \E d \in table0 : e = close2(close1(d))
    OBVIOUS
  <2>2. \A d \in table0 : close2(close1(d)) \in table2
    OBVIOUS
  <2>3. Raised("join", NewTrue, loads) \subseteq table2
    OBVIOUS
  <2> HIDE DEF table1, table2, close1, close2
  <2>4. table2 \subseteq Table
    BY <1>2, <1>3, <2>1 DEF Table, NewRows
  <2>5. Table \subseteq table2
    BY <1>2, <1>3, <2>2, <2>3 DEF Table, NewRows
  <2>6. QED
    BY <2>4, <2>5
<1> HIDE DEF table2
<1>5. CASE NewTrue = {}
  BY <1>1, <1>4, <1>5 DEF Link, Relinks
<1>6. CASE NewTrue # {}
  <2>1. Relink("join", Table) =
            {IF e.det = "join" /\ e.closed = 0 /\ e.from = None /\ ClosedLike(e) # {}
             THEN [e EXCEPT !.from = LastLike(e).run] ELSE e : e \in Table}
    BY DEF Relink, LastLike, ClosedLike
  <2>2. QED
    BY <1>1, <1>4, <1>6, <2>1 DEF Link, Relinks
<1>7. QED
  BY <1>5, <1>6

LEMMA KeptRow ==
    ASSUME TypeInv, NEW e \in Exceptions
    PROVE  /\ Kept(e) \in Exceptions
           /\ Kept(e).run = e.run /\ Kept(e).parcel = e.parcel /\ Kept(e).det = e.det
           /\ Kept(e).reason = e.reason /\ Kept(e).from = e.from
           /\ Kept(e).closed = IF e.closed = 0 /\ ~StillOpen(e) THEN loads ELSE e.closed
<1>1. loads \in Nat
  BY DEF TypeInv, TypeOK
<1>2. QED
  BY <1>1 DEF Kept, Exceptions

LEMMA TableRow ==
    ASSUME TypeInv, RunsInv
    PROVE  \A e \in Table : e \in Exceptions /\ e.run <= loads /\ e.closed <= loads
<1>1. loads \in Nat /\ 0 <= loads /\ loads <= loads
  BY DEF TypeInv, TypeOK
<1>2. ASSUME NEW e \in exceptions
      PROVE  Kept(e) \in Exceptions /\ Kept(e).run <= loads /\ Kept(e).closed <= loads
  <2>1. e \in Exceptions /\ e.run <= loads /\ e.closed <= loads
    BY DEF TypeInv, TypeOK, RunsInv
  <2>2. QED
    BY <1>1, <2>1, KeptRow
<1>3. ASSUME NEW e \in NewRows
      PROVE  e \in Exceptions /\ e.run <= loads /\ e.closed <= loads
  <2>1. /\ loader.bad \subseteq Parcels /\ loader.scope \subseteq Parcels
    BY DEF TypeInv, LoaderType
  <2>2. \A x \in NewTrue : x[1] \in Parcels /\ x[2] \in Reasons
    <3>1. \A p \in Classified : p \in Parcels
      BY <2>1 DEF Classified
    <3>2. \A x \in NewTrue : \E p \in Classified : x = <<p, ClassOf(p).reason>> /\ ClassOf(p).reason # None
      BY DEF NewTrue, StillTrue
    <3>3. QED
      BY <3>1, <3>2, FreshType
  <2>3. \A x \in NewBad : x[1] \in Parcels /\ x[2] \in Reasons
    BY <2>1 DEF NewBad, Reasons
  <2>4. \E x \in NewTrue \cup NewBad, det \in Detectors :
            e = [run |-> loads, parcel |-> x[1], det |-> det, reason |-> x[2],
                 closed |-> 0, from |-> None]
    BY DEF NewRows, Raised, Detectors
  <2>5. PICK x \in NewTrue \cup NewBad, det \in Detectors :
            e = [run |-> loads, parcel |-> x[1], det |-> det, reason |-> x[2],
                 closed |-> 0, from |-> None]
    BY <2>4
  <2>6. x[1] \in Parcels /\ x[2] \in Reasons
    BY <2>2, <2>3
  <2>7. QED
    BY <1>1, <2>5, <2>6 DEF Exceptions
<1>4. QED
  BY <1>2, <1>3 DEF Table

LEMMA LinkRow ==
    ASSUME TypeInv, RunsInv, NEW e \in Table
    PROVE  /\ Link(e) \in Exceptions
           /\ Link(e).run = e.run /\ Link(e).parcel = e.parcel /\ Link(e).det = e.det
           /\ Link(e).reason = e.reason /\ Link(e).closed = e.closed
           /\ Relinks(e) => \E c \in ClosedLike(e) :
                  Link(e).from = c.run /\ \A d \in ClosedLike(e) : d.closed <= c.closed
           /\ ~Relinks(e) => Link(e) = e
<1>1. e \in Exceptions /\ loads \in Nat
  BY TableRow DEF TypeInv, TypeOK
<1>2. CASE Relinks(e)
  <2>1. \A c \in ClosedLike(e) : c.closed \in Nat /\ c.closed <= loads /\ c.run \in Nat
    BY TableRow DEF ClosedLike, Exceptions
  <2>2. ClosedLike(e) # {}
    BY <1>2 DEF Relinks
  <2>3. \E c \in ClosedLike(e) : \A d \in ClosedLike(e) : d.closed <= c.closed
    BY <1>1, <2>1, <2>2, LastExists
  <2>4. /\ LastLike(e) \in ClosedLike(e)
        /\ \A d \in ClosedLike(e) : d.closed <= LastLike(e).closed
    BY <2>3 DEF LastLike
  <2>5. LastLike(e).run \in Nat
    BY <2>1, <2>4
  <2>6. Link(e) = [e EXCEPT !.from = LastLike(e).run]
    BY <1>2 DEF Link
  <2>7. /\ Link(e) \in Exceptions /\ Link(e).from = LastLike(e).run
        /\ Link(e).run = e.run /\ Link(e).parcel = e.parcel /\ Link(e).det = e.det
        /\ Link(e).reason = e.reason /\ Link(e).closed = e.closed
    BY <1>1, <2>5, <2>6 DEF Exceptions
  <2>8. QED
    BY <1>2, <2>4, <2>7
<1>3. CASE ~Relinks(e)
  BY <1>1, <1>3 DEF Link
<1>4. QED
  BY <1>2, <1>3

-----------------------------------------------------------------------------
(* Types.                                                                  *)

LEMMA NoLoadType ==
    /\ NoLoad \in LoaderType
    /\ NoLoad.pc = "idle" /\ NoLoad.moved = {} /\ NoLoad.live = {}
    /\ \A p \in Parcels : IsFiniteSet(NoLoad.near[p])
BY FS_EmptySet DEF NoLoad, LoaderType, Pcs

LEMMA TypeInit ==
    ASSUME Init
    PROVE  TypeInv
<1>1. centroid \in [Parcels -> Points \cup {None}] /\ geom \in [Parcels -> Geoms \cup {None}]
      /\ \A p \in Parcels : geom[p] = None => centroid[p] = None
  BY GeometryAssumption DEF Init
<1>2. \A f \in facts : f \in Facts
  BY InitFactsAssumption DEF Init
<1>3. TypeOK
  BY <1>1, <1>2, NoLoadType, BoundsAssumption DEF Init, TypeOK, NoLoad
<1>4. QED
  BY <1>1, <1>3, NoLoadType DEF Init, TypeInv

LEMMA MoveType ==
    ASSUME TypeInv, NEW p \in Parcels, NEW g \in Geoms, MoveParcel(p, g)
    PROVE  TypeInv'
<1>1. /\ geom' \in [Parcels -> Geoms \cup {None}] /\ centroid' \in [Parcels -> Points \cup {None}]
      /\ moves' \in 0..MaxMoves
  BY BoundsAssumption DEF MoveParcel, TypeInv, TypeOK
<1>2. /\ loader' \in LoaderType
      /\ loader'.pc = loader.pc /\ loader'.snap = loader.snap /\ loader'.near = loader.near
      /\ loader'.moved = loader.moved /\ loader'.live = loader.live
      /\ loader'.bad = loader.bad /\ loader'.openBad = loader.openBad /\ loader'.scope = loader.scope
  BY DEF MoveParcel, TypeInv, LoaderType
<1>3. \A q \in Parcels : geom'[q] = None => centroid'[q] = None /\ q \notin loader'.moved
  BY <1>2, NoneAssumption DEF MoveParcel, TypeInv, TypeOK
<1>4. TypeOK'
  BY <1>1, <1>2 DEF MoveParcel, TypeInv, TypeOK
<1>5. QED
  BY <1>2, <1>3, <1>4 DEF MoveParcel, TypeInv

LEMMA BeginType ==
    ASSUME TypeInv, NEW x \in Snapshots, Begin(x)
    PROVE  TypeInv'
<1>1. /\ loader' \in LoaderType /\ loader'.pc = "staged" /\ loader'.snap = x
      /\ loader'.near = NoLoad.near /\ loader'.moved = {} /\ loader'.live = {}
      /\ loader'.bad = {} /\ loader'.openBad = {} /\ loader'.scope = {}
  BY NoLoadType DEF Begin, LoaderType, NoLoad, Pcs
<1>2. loads' \in 0..MaxLoads /\ loads' # 0 /\ loads + 1 \in 1..MaxLoads
  BY BoundsAssumption DEF Begin, TypeInv, TypeOK
<1>3. job' \in [1..MaxLoads -> {"none", "running", "succeeded", "failed"}]
  BY <1>2 DEF Begin, TypeInv, TypeOK
<1>4. TypeOK'
  BY <1>1, <1>2, <1>3 DEF Begin, TypeInv, TypeOK
<1>5. QED
  BY <1>1, <1>2, <1>4, NoLoadType DEF Begin, TypeInv

\* What Populate leaves in the load.
LEMMA PopulateIs ==
    ASSUME TypeInv, Populate
    PROVE  /\ loader' \in LoaderType
           /\ loader.pc = "staged" /\ loader'.pc = "populated"
           /\ loader'.moved = {p \in Located : NeedsPoint(p)}
           /\ \A p \in Parcels :
                  loader'.point[p] = IF p \in loader'.moved THEN PointOf[geom[p]] ELSE None
           /\ loader'.snap = loader.snap /\ loader'.near = loader.near
           /\ loader'.live = loader.live /\ loader'.scope = loader.scope
           /\ loader'.calm = loader.calm
<1> DEFINE moved == {p \in Located : NeedsPoint(p)}
           point == [p \in Parcels |-> IF p \in moved THEN PointOf[geom[p]] ELSE None]
<1>1. moved \in SUBSET Parcels
  BY DEF Located
<1>2. \A p \in moved : PointOf[geom[p]] \in Points
  BY GeometryAssumption DEF NeedsPoint, HasUsable
<1>3. point \in [Parcels -> Points \cup {None}]
  BY <1>2
<1>4. /\ loader.pc = "staged"
      /\ loader' = [loader EXCEPT !.pc = "populated", !.moved = moved, !.point = point]
  BY DEF Populate, At
<1>5. \A p \in Parcels : point[p] = IF p \in moved THEN PointOf[geom[p]] ELSE None
  OBVIOUS
<1>6. moved = {p \in Located : NeedsPoint(p)}
  OBVIOUS
<1> HIDE DEF moved, point
<1>7. /\ loader' \in LoaderType /\ loader'.pc = "populated" /\ loader'.moved = moved
      /\ loader'.point = point
      /\ loader'.snap = loader.snap /\ loader'.near = loader.near
      /\ loader'.live = loader.live /\ loader'.scope = loader.scope /\ loader'.calm = loader.calm
  BY <1>1, <1>3, <1>4 DEF TypeInv, LoaderType, Pcs
<1>8. QED
  BY <1>4, <1>5, <1>6, <1>7

LEMMA PopulateType ==
    ASSUME TypeInv, Populate
    PROVE  TypeInv'
<1>1. /\ loader' \in LoaderType /\ loader'.pc = "populated" /\ loader.pc = "staged"
      /\ loader'.moved = {p \in Located : NeedsPoint(p)}
      /\ loader'.snap = loader.snap /\ loader'.near = loader.near /\ loader'.live = loader.live
  BY PopulateIs
<1>2. UNCHANGED <<geom, centroid, facts, exceptions, job, loads, moves, settled>>
  BY DEF Populate
<1>3. TypeOK'
  BY <1>1, <1>2 DEF TypeInv, TypeOK, LoaderType
<1>4. QED
  BY <1>1, <1>2, <1>3 DEF TypeInv, Located

\* What Residual leaves in the load.
LEMMA ResidualIs ==
    ASSUME TypeInv, Residual
    PROVE  /\ loader' \in LoaderType
           /\ loader.pc = "populated" /\ loader'.pc = "pointed"
           /\ loader'.bad = {p \in Located : NotInterior(p, PointSeen(p))}
           /\ loader'.openBad = {e.parcel : e \in Open("centroid")}
           /\ loader'.moved = loader.moved /\ loader'.point = loader.point
           /\ loader'.snap = loader.snap /\ loader'.near = loader.near
           /\ loader'.live = loader.live /\ loader'.scope = loader.scope
           /\ loader'.calm = loader.calm
<1> DEFINE bad == {p \in Located : NotInterior(p, PointSeen(p))}
           openBad == {e.parcel : e \in Open("centroid")}
<1>1. bad \in SUBSET Parcels
  BY DEF Located
<1>2. openBad \in SUBSET Parcels
  BY DEF TypeInv, TypeOK, Exceptions, Open
<1>3. /\ loader.pc = "populated"
      /\ loader' = [loader EXCEPT !.pc = "pointed", !.bad = bad, !.openBad = openBad]
  BY DEF Residual, At
<1>4. /\ bad = {p \in Located : NotInterior(p, PointSeen(p))}
      /\ openBad = {e.parcel : e \in Open("centroid")}
  OBVIOUS
<1> HIDE DEF bad, openBad
<1>5. /\ loader' \in LoaderType /\ loader'.pc = "pointed"
      /\ loader'.bad = bad /\ loader'.openBad = openBad
      /\ loader'.moved = loader.moved /\ loader'.point = loader.point
      /\ loader'.snap = loader.snap /\ loader'.near = loader.near
      /\ loader'.live = loader.live /\ loader'.scope = loader.scope /\ loader'.calm = loader.calm
  BY <1>1, <1>2, <1>3 DEF TypeInv, LoaderType, Pcs
<1>6. QED
  BY <1>3, <1>4, <1>5

LEMMA ResidualType ==
    ASSUME TypeInv, Residual
    PROVE  TypeInv'
<1>1. /\ loader' \in LoaderType /\ loader'.pc = "pointed" /\ loader.pc = "populated"
      /\ loader'.moved = loader.moved
      /\ loader'.snap = loader.snap /\ loader'.near = loader.near /\ loader'.live = loader.live
  BY ResidualIs
<1>2. UNCHANGED <<geom, centroid, facts, exceptions, job, loads, moves, settled>>
  BY DEF Residual
<1>3. TypeOK'
  BY <1>1, <1>2 DEF TypeInv, TypeOK, LoaderType
<1>4. QED
  BY <1>1, <1>2, <1>3 DEF TypeInv

\* What the transaction sees of a point is a point.
LEMMA PointSeenType ==
    ASSUME TypeInv, NEW p \in Parcels
    PROVE  PointSeen(p) \in Points \cup {None}
BY DEF PointSeen, TypeInv, TypeOK, LoaderType

\* What Join and Scope leave in the load.
LEMMA JoinIs ==
    ASSUME TypeInv, Join
    PROVE  /\ loader' \in LoaderType
           /\ loader.pc = "pointed" /\ loader'.pc = "joined"
           /\ \A p \in Parcels :
                  /\ loader'.near[p] = IF PointSeen(p) # None /\ p \notin loader.bad
                                       THEN Candidates[loader.snap][PointSeen(p)] ELSE {}
                  /\ IsFiniteSet(loader'.near[p])
           /\ loader' = [loader EXCEPT !.pc = "joined", !.near = loader'.near]
<1> DEFINE around(p) == IF PointSeen(p) # None /\ p \notin loader.bad
                        THEN Candidates[loader.snap][PointSeen(p)] ELSE {}
           near == [p \in Parcels |-> around(p)]
<1>1. loader.pc = "pointed" /\ loader' = [loader EXCEPT !.pc = "joined", !.near = near]
  BY DEF Join, At
<1>2. ASSUME NEW p \in Parcels
      PROVE  around(p) \in SUBSET Rows /\ IsFiniteSet(around(p))
  <2>1. loader.snap \in Snapshots
    BY <1>1 DEF TypeInv
  <2>2. CASE PointSeen(p) # None /\ p \notin loader.bad
    BY <2>1, <2>2, PointSeenType, CandidatesAssumption
  <2>3. CASE ~(PointSeen(p) # None /\ p \notin loader.bad)
    BY <2>3, FS_EmptySet
  <2>4. QED
    BY <2>2, <2>3
<1>3. near \in [Parcels -> SUBSET Rows] /\ \A p \in Parcels : near[p] = around(p)
  BY <1>2
<1> HIDE DEF near
<1>4. /\ loader' \in LoaderType /\ loader'.near = near /\ loader'.pc = "joined"
      /\ loader' = [loader EXCEPT !.pc = "joined", !.near = loader'.near]
  BY <1>1, <1>3 DEF TypeInv, LoaderType, Pcs
<1>5. QED
  BY <1>1, <1>2, <1>3, <1>4

LEMMA JoinType ==
    ASSUME TypeInv, Join
    PROVE  TypeInv'
<1>1. /\ loader' \in LoaderType /\ loader'.pc = "joined" /\ loader.pc = "pointed"
      /\ loader'.snap = loader.snap /\ loader'.live = loader.live /\ loader'.moved = loader.moved
      /\ \A p \in Parcels : IsFiniteSet(loader'.near[p])
  BY JoinIs DEF TypeInv, LoaderType
<1>2. UNCHANGED <<geom, centroid, facts, exceptions, job, loads, moves, settled>>
  BY DEF Join
<1>3. TypeOK'
  BY <1>1, <1>2 DEF TypeInv, TypeOK, LoaderType
<1>4. QED
  BY <1>1, <1>2, <1>3 DEF TypeInv

LEMMA ScopeType ==
    ASSUME TypeInv, Scope
    PROVE  TypeInv'
<1>1. {p \in Parcels : PointSeen(p) # None} \in SUBSET Parcels
  OBVIOUS
<1>2. /\ loader' \in LoaderType /\ loader'.pc = "scoped" /\ loader.pc = "joined"
      /\ loader'.snap = loader.snap /\ loader'.live = loader.live /\ loader'.moved = loader.moved
      /\ loader'.near = loader.near
  BY <1>1 DEF Scope, At, TypeInv, LoaderType, Pcs
<1>3. UNCHANGED <<geom, centroid, facts, exceptions, job, loads, moves, settled>>
  BY DEF Scope
<1>4. TypeOK'
  BY <1>2, <1>3 DEF TypeInv, TypeOK, LoaderType
<1>5. QED
  BY <1>2, <1>3, <1>4 DEF TypeInv

LEMMA ReadLiveType ==
    ASSUME TypeInv, ReadLive
    PROVE  TypeInv'
<1>1. Live \in SUBSET Facts /\ Live \subseteq facts
  BY DEF Live, TypeInv, TypeOK
<1>2. /\ loader' \in LoaderType /\ loader'.pc = "read" /\ loader.pc = "scoped"
      /\ loader'.snap = loader.snap /\ loader'.live = Live /\ loader'.moved = loader.moved
      /\ loader'.near = loader.near
  BY <1>1 DEF ReadLive, At, TypeInv, LoaderType, Pcs
<1>3. UNCHANGED <<geom, centroid, facts, exceptions, job, loads, moves, settled>>
  BY DEF ReadLive
<1>4. TypeOK'
  BY <1>1, <1>2, <1>3 DEF TypeInv, TypeOK, LoaderType
<1>5. QED
  BY <1>2, <1>3, <1>4 DEF TypeInv

LEMMA CommitType ==
    ASSUME TypeInv, RunsInv, Commit
    PROVE  TypeInv'
<1>1. /\ loader.pc = "read" /\ loader' = NoLoad /\ UNCHANGED <<geom, loads, moves>>
      /\ centroid' = [p \in Parcels |-> PointSeen(p)]
      /\ job' = [job EXCEPT ![loads] = "succeeded"]
      /\ settled' = IF loader.calm THEN loader.snap ELSE None
  BY DEF Commit, At
<1>2. centroid' \in [Parcels -> Points \cup {None}]
  BY <1>1, PointSeenType
<1>3. settled' \in Snapshots \cup {None}
  BY <1>1 DEF TypeInv, LoaderType
<1>4. \A e \in exceptions' : e \in Exceptions
  BY CommitTable, LinkRow
<1>5. job' \in [1..MaxLoads -> {"none", "running", "succeeded", "failed"}]
  BY <1>1 DEF TypeInv, TypeOK
<1>6. \A p \in Parcels : geom[p] = None => PointSeen(p) = None
  BY DEF TypeInv, PointSeen
<1>7. TypeOK'
  BY <1>1, <1>2, <1>3, <1>4, <1>5, CommitFactsType, NoLoadType DEF TypeInv, TypeOK, NoLoad
<1>8. QED
  BY <1>1, <1>6, <1>7, NoLoadType DEF TypeInv

LEMMA StopType ==
    ASSUME TypeInv, Fail \/ Crash
    PROVE  TypeInv'
<1>1. /\ loader' = NoLoad
      /\ UNCHANGED <<geom, centroid, facts, exceptions, loads, moves, settled>>
      /\ job' \in [1..MaxLoads -> {"none", "running", "succeeded", "failed"}]
  BY DEF Fail, Crash, TypeInv, TypeOK
<1>2. TypeOK'
  BY <1>1, NoLoadType DEF TypeInv, TypeOK, NoLoad
<1>3. QED
  BY <1>1, <1>2, NoLoadType DEF TypeInv

LEMMA TypeNext ==
    ASSUME TypeInv, RunsInv, [Next]_vars
    PROVE  TypeInv'
<1>1. CASE UNCHANGED vars
  <2>1. UNCHANGED <<geom, centroid, facts, exceptions, job, loads, loader, moves, settled>>
    BY <1>1 DEF vars
  <2>2. QED
    BY <2>1 DEF TypeInv, TypeOK
<1>2. QED
  BY <1>1, MoveType, BeginType, PopulateType, ResidualType, JoinType, ScopeType,
     ReadLiveType, CommitType, StopType DEF Next

-----------------------------------------------------------------------------
(* The rows of the tables, and what the load has read of them.             *)

\* Only a commit changes the rows.
LEMMA OnlyCommitWrites ==
    ASSUME [Next]_vars
    PROVE  \/ /\ UNCHANGED <<facts, exceptions>>
              /\ loads' = loads \/ (Idle /\ loads' = loads + 1)
           \/ Commit
BY DEF Next, vars, MoveParcel, Begin, Populate, Residual, Join, Scope, ReadLive, Fail, Crash,
       Idle, At

LEMMA RunsNext ==
    ASSUME TypeInv, RunsInv, [Next]_vars
    PROVE  RunsInv'
<1>1. /\ loads \in Nat
      /\ \A f \in facts : f.run \in Nat
      /\ \A e \in exceptions : e.run \in Nat /\ e.closed \in Nat
  BY DEF TypeInv, TypeOK, Facts, Exceptions
<1>2. CASE Commit
  <2>1. loads' = loads /\ loader'.pc = "idle"
    BY <1>2, NoLoadType DEF Commit
  <2>2. \A g \in facts' : g.run <= loads
    <3>1. \A f \in facts : After(f).run = f.run
      BY DEF After, TypeInv, TypeOK, Facts
    <3>2. \A g : Born(g) => g.run = loads
      BY WrittenShape DEF Born, TypeInv, LoaderType
    <3>3. QED
      BY <1>1, <1>2, <3>1, <3>2, CommitFacts DEF RunsInv
  <2>3. \A e \in exceptions' : e.run <= loads /\ e.closed <= loads
    BY <1>2, CommitTable, TableRow, LinkRow
  <2>4. QED
    BY <2>1, <2>2, <2>3 DEF RunsInv, Idle
<1>3. CASE UNCHANGED <<facts, exceptions>> /\ loads' = loads
  <2>1. Idle => Idle'
    <3>1. CASE UNCHANGED vars
      BY <3>1 DEF vars, Idle
    <3>2. ASSUME NEW p \in Parcels, NEW g \in Geoms, MoveParcel(p, g)
          PROVE  Idle => Idle'
      BY <3>2 DEF MoveParcel, Idle, TypeInv, LoaderType
    <3>3. ASSUME NEW x \in Snapshots
          PROVE  ~Begin(x)
      BY <1>1, <1>3 DEF Begin
    <3>4. CASE Populate \/ Residual \/ Join \/ Scope \/ ReadLive
      BY <3>4 DEF Populate, Residual, Join, Scope, ReadLive, At, Idle
    <3>5. CASE Commit \/ Fail \/ Crash
      BY <3>5, NoLoadType DEF Commit, Fail, Crash, Idle
    <3>6. QED
      BY <3>1, <3>2, <3>3, <3>4, <3>5 DEF Next
  <2>2. QED
    BY <1>3, <2>1 DEF RunsInv
<1>4. CASE UNCHANGED <<facts, exceptions>> /\ Idle /\ loads' = loads + 1
  BY <1>1, <1>4 DEF RunsInv
<1>5. QED
  BY <1>2, <1>3, <1>4, OnlyCommitWrites

\* The transaction has the rows to itself: what it read is what they say.
LEMMA ReadNext ==
    ASSUME TypeInv, ReadInv, [Next]_vars
    PROVE  ReadInv'
<1>1. CASE UNCHANGED vars
  BY <1>1 DEF vars, ReadInv, Live, Open
<1>2. ASSUME NEW p \in Parcels, NEW g \in Geoms, MoveParcel(p, g)
      PROVE  ReadInv'
  BY <1>2 DEF MoveParcel, ReadInv, Live, Open, TypeInv, LoaderType
<1>3. ASSUME NEW x \in Snapshots, Begin(x)
      PROVE  ReadInv'
  BY <1>3, NoLoadType DEF Begin, ReadInv, LoaderType
<1>4. CASE Populate
  BY <1>4, PopulateIs DEF ReadInv
<1>10. CASE Residual
  <2>1. /\ loader'.pc = "pointed" /\ loader'.openBad = {e.parcel : e \in Open("centroid")}
        /\ exceptions' = exceptions
    BY <1>10, ResidualIs DEF Residual
  <2>2. QED
    BY <2>1 DEF ReadInv, Open
<1>5. CASE Join
  <2>1. /\ loader'.pc = "joined" /\ loader.pc = "pointed" /\ loader'.openBad = loader.openBad
        /\ exceptions' = exceptions
    BY <1>5, JoinIs DEF Join, TypeInv, LoaderType
  <2>2. QED
    BY <2>1 DEF ReadInv, Live, Open
<1>6. CASE Scope
  <2>1. /\ loader'.pc = "scoped" /\ loader.pc = "joined" /\ loader'.openBad = loader.openBad
        /\ exceptions' = exceptions
    BY <1>6 DEF Scope, At, TypeInv, LoaderType
  <2>2. QED
    BY <2>1 DEF ReadInv, Live, Open
<1>7. CASE ReadLive
  <2>1. /\ loader'.pc = "read" /\ loader.pc = "scoped" /\ loader'.openBad = loader.openBad
        /\ loader'.live = Live /\ exceptions' = exceptions /\ facts' = facts
    BY <1>7 DEF ReadLive, At, TypeInv, LoaderType
  <2>2. QED
    BY <2>1 DEF ReadInv, Live, Open
<1>8. CASE Commit \/ Fail \/ Crash
  BY <1>8, NoLoadType DEF Commit, Fail, Crash, ReadInv
<1>9. QED
  BY <1>1, <1>2, <1>3, <1>4, <1>5, <1>6, <1>7, <1>8, <1>10 DEF Next

\* The parcels are as the load read them until one moves.
LEMMA CalmNext ==
    ASSUME TypeInv, CalmInv, [Next]_vars
    PROVE  CalmInv'
<1>1. CASE UNCHANGED vars
  BY <1>1 DEF vars, CalmInv, Idle, Located, NeedsPoint, HasUsable, NotInterior, PointSeen
<1>2. ASSUME NEW p \in Parcels, NEW g \in Geoms, MoveParcel(p, g)
      PROVE  CalmInv'
  BY <1>2 DEF MoveParcel, CalmInv, TypeInv, LoaderType
<1>3. ASSUME NEW x \in Snapshots, Begin(x)
      PROVE  CalmInv'
  BY <1>3, NoLoadType DEF Begin, CalmInv, LoaderType
<1>4. CASE Populate
  <2>1. UNCHANGED <<geom, centroid>>
    BY <1>4 DEF Populate
  <2>2. \A p : NeedsPoint(p)' = NeedsPoint(p)
    BY <2>1 DEF NeedsPoint, HasUsable
  <2>3. Located' = Located
    BY <2>1 DEF Located
  <2>4. /\ loader'.moved = {p \in Located' : NeedsPoint(p)'}
        /\ \A p \in loader'.moved : loader'.point[p] = PointOf[geom'[p]]
    BY <1>4, <2>1, <2>2, <2>3, PopulateIs DEF LoaderType
  <2>5. loader'.pc = "populated"
    BY <1>4, PopulateIs
  <2>6. QED
    BY <2>4, <2>5 DEF CalmInv
<1>10. CASE Residual
  <2>1. UNCHANGED <<geom, centroid>>
    BY <1>10 DEF Residual
  <2>2. /\ loader.pc = "populated" /\ loader'.pc = "pointed" /\ loader'.calm = loader.calm
        /\ loader'.moved = loader.moved /\ loader'.point = loader.point
        /\ loader'.bad = {p \in Located : NotInterior(p, PointSeen(p))}
    BY <1>10, ResidualIs
  <2>3. \A p : PointSeen(p)' = PointSeen(p)
    BY <2>1, <2>2 DEF PointSeen
  <2>4. /\ Located' = Located /\ \A p : NeedsPoint(p)' = NeedsPoint(p)
        /\ \A p, pt : NotInterior(p, pt)' = NotInterior(p, pt)
    BY <2>1 DEF Located, NotInterior, NeedsPoint, HasUsable
  <2>5. loader'.bad = {p \in Located' : NotInterior(p, PointSeen(p))'}
    BY <2>1, <2>2, <2>3, <2>4 DEF NotInterior, HasUsable
  <2>6. QED
    BY <2>1, <2>2, <2>4, <2>5 DEF CalmInv, Idle
<1>5. CASE Join
  <2>1. UNCHANGED <<geom, centroid>>
    BY <1>5 DEF Join
  <2>2. /\ loader.pc = "pointed" /\ loader'.pc = "joined" /\ loader'.calm = loader.calm
        /\ loader'.moved = loader.moved /\ loader'.point = loader.point
        /\ loader'.bad = loader.bad /\ loader'.snap = loader.snap
    BY <1>5, JoinIs DEF TypeInv, LoaderType
  <2>3. \A p : PointSeen(p)' = PointSeen(p)
    BY <2>1, <2>2 DEF PointSeen
  <2>4. \A p \in Parcels :
            loader'.near[p] = IF PointSeen(p)' # None /\ p \notin loader'.bad
                              THEN Candidates[loader'.snap][PointSeen(p)'] ELSE {}
    BY <1>5, <2>2, <2>3, JoinIs
  <2>5. QED
    BY <2>1, <2>2, <2>3, <2>4 DEF CalmInv, Idle, Located, NeedsPoint, HasUsable, NotInterior
<1>6. CASE Scope
  <2>1. UNCHANGED <<geom, centroid>>
    BY <1>6 DEF Scope
  <2>2. /\ loader.pc = "joined" /\ loader'.pc = "scoped" /\ loader'.calm = loader.calm
        /\ loader'.moved = loader.moved /\ loader'.point = loader.point
        /\ loader'.bad = loader.bad /\ loader'.snap = loader.snap /\ loader'.near = loader.near
        /\ loader'.scope = {p \in Parcels : PointSeen(p) # None}
    BY <1>6 DEF Scope, At, TypeInv, LoaderType
  <2>3. \A p : PointSeen(p)' = PointSeen(p)
    BY <2>1, <2>2 DEF PointSeen
  <2>4. QED
    BY <2>1, <2>2, <2>3 DEF CalmInv, Idle, Located, NeedsPoint, HasUsable, NotInterior
<1>7. CASE ReadLive
  <2>1. UNCHANGED <<geom, centroid>>
    BY <1>7 DEF ReadLive
  <2>2. /\ loader.pc = "scoped" /\ loader'.pc = "read" /\ loader'.calm = loader.calm
        /\ loader'.moved = loader.moved /\ loader'.point = loader.point
        /\ loader'.bad = loader.bad /\ loader'.snap = loader.snap /\ loader'.near = loader.near
        /\ loader'.scope = loader.scope
    BY <1>7 DEF ReadLive, At, TypeInv, LoaderType
  <2>3. \A p : PointSeen(p)' = PointSeen(p)
    BY <2>1, <2>2 DEF PointSeen
  <2>4. QED
    BY <2>1, <2>2, <2>3 DEF CalmInv, Idle, Located, NeedsPoint, HasUsable, NotInterior
<1>8. CASE Commit \/ Fail \/ Crash
  BY <1>8, NoLoadType DEF Commit, Fail, Crash, CalmInv, Idle
<1>9. QED
  BY <1>1, <1>2, <1>3, <1>4, <1>5, <1>6, <1>7, <1>8, <1>10 DEF Next

LEMMA FactsNext ==
    ASSUME TypeInv, RunsInv, RowsInv, ReadInv, Commit
    PROVE  \A f, g \in facts' : SameKey(f, g) /\ ((f.live /\ g.live) \/ f.run = g.run) => f = g
<1>1. loader.live = Live /\ loader.pc = "read" /\ loads \in Nat
  BY DEF ReadInv, Commit, At, TypeInv, TypeOK
<1>2. ASSUME NEW f \in facts
      PROVE  /\ After(f).parcel = f.parcel /\ After(f).field = f.field /\ After(f).run = f.run
             /\ After(f).live => f.live /\ ~Dies(f) /\ After(f) = f
             /\ f.run \in Nat /\ f.run < loads /\ f.parcel \in Parcels /\ f.field \in Fields
  BY <1>1 DEF After, TypeInv, TypeOK, Facts, RunsInv, Idle
<1>3. ASSUME NEW g, Born(g)
      PROVE  /\ g.run = loads /\ g.parcel \in loader.scope /\ g.parcel \in Parcels
             /\ g.field \in Fields /\ g \in Written(loads, g.parcel, g.field)
  BY <1>3, WrittenShape DEF Born, TypeInv, LoaderType
<1>4. ASSUME NEW f \in facts, NEW g, Born(g), SameKey(f, g)
      PROVE  After(f).run # g.run /\ ~After(f).live
  <2>1. After(f).run # g.run
    BY <1>1, <1>2, <1>3, <1>4
  <2>2. ASSUME f.live, ~Dies(f)
        PROVE  FALSE
    <3>1. f \in LiveOf(g.parcel, g.field)
      BY <1>1, <1>4, <2>2 DEF LiveOf, Live, SameKey
    <3>2. FreshValue(g.parcel, g.field) = f.val
      BY <1>3, <1>4, <2>2, <3>1 DEF Dies, Superseded, SameKey
    <3>3. f.val # g.val /\ g.val = FreshValue(g.parcel, g.field)
      BY <1>3, <1>4, <3>1, WrittenShape
    <3>4. QED
      BY <3>2, <3>3
  <2>3. QED
    BY <1>2, <2>1, <2>2
<1>5. ASSUME NEW f, Born(f), NEW g, Born(g), SameKey(f, g)
      PROVE  f = g
  <2> DEFINE p == g.parcel
             field == g.field
             old == LiveOf(p, field)
  <2>1. f \in Written(loads, p, field) /\ g \in Written(loads, p, field)
        /\ p \in Parcels /\ field \in Fields
    BY <1>3, <1>5 DEF SameKey
  <2>2. \A x, y \in old : x = y
    BY <1>1 DEF LiveOf, Live, RowsInv, SameKey
  <2> HIDE DEF p, field, old
  <2>3. /\ f = [run |-> loads, parcel |-> p, field |-> field, val |-> FreshValue(p, field),
                sup |-> f.sup, live |-> TRUE]
        /\ f.sup = None <=> old = {}
        /\ f.sup # None => \E x \in old : f.sup = x.run
    BY <2>1, WrittenShape DEF old
  <2>4. /\ g = [run |-> loads, parcel |-> p, field |-> field, val |-> FreshValue(p, field),
                sup |-> g.sup, live |-> TRUE]
        /\ g.sup = None <=> old = {}
        /\ g.sup # None => \E x \in old : g.sup = x.run
    BY <2>1, WrittenShape DEF old
  <2>5. f.sup = g.sup
    BY <2>2, <2>3, <2>4
  <2>6. QED
    BY <2>3, <2>4, <2>5
<1>6. ASSUME NEW f \in facts, NEW g \in facts, SameKey(After(f), After(g)),
             (After(f).live /\ After(g).live) \/ After(f).run = After(g).run
      PROVE  After(f) = After(g)
  BY <1>2, <1>6 DEF RowsInv, SameKey
<1>7. QED
  <2>1. ASSUME NEW f \in facts', NEW g \in facts', SameKey(f, g),
               (f.live /\ g.live) \/ f.run = g.run
        PROVE  f = g
    <3>1. CASE Born(f) /\ Born(g)
      BY <1>5, <2>1, <3>1
    <3>2. CASE ~Born(f) /\ ~Born(g)
      BY <1>6, <2>1, <3>2, CommitFacts
    <3>3. CASE ~Born(f) /\ Born(g)
      <4>1. PICK x \in facts : f = After(x)
        BY <3>3, CommitFacts
      <4>2. QED
        BY <1>2, <1>4, <2>1, <3>3, <4>1 DEF SameKey
    <3>4. CASE Born(f) /\ ~Born(g)
      <4>1. PICK x \in facts : g = After(x)
        BY <3>4, CommitFacts
      <4>2. QED
        BY <1>2, <1>4, <2>1, <3>4, <4>1 DEF SameKey
    <3>5. QED
      BY <3>1, <3>2, <3>3, <3>4
  <2>2. QED
    BY <2>1

\* A finding that is open in the table was closed only by earlier runs.
LEMMA TableOpenIsLast ==
    ASSUME TypeInv, RunsInv, RowsInv, loader.pc = "read",
           NEW c \in Table, NEW e \in Table, SameFinding(c, e), e.closed = 0, c.closed # 0
    PROVE  c \in exceptions /\ c.closed < e.run
<1>1. loads \in Nat /\ loads # 0 /\ \A d \in exceptions : d \in Exceptions /\ d.closed < loads
  BY DEF TypeInv, TypeOK, RunsInv, Idle
<1>2. PICK d \in exceptions : c = Kept(d)
  BY NewRowShape DEF Table
<1>3. StillOpen(e)
  <2>1. CASE e \in NewRows
    BY <2>1, NewRowShape
  <2>2. ASSUME NEW f \in exceptions, e = Kept(f)
        PROVE  StillOpen(e)
    <3>1. f \in Exceptions
      BY <1>1
    <3>2. e.closed = IF f.closed = 0 /\ ~StillOpen(f) THEN loads ELSE f.closed
      BY <2>2, <3>1, KeptRow
    <3>3. StillOpen(f)
      BY <1>1, <3>2
    <3>4. e.det = f.det /\ e.parcel = f.parcel /\ e.reason = f.reason
      BY <2>2, <3>1, KeptRow
    <3>5. QED
      BY <3>3, <3>4 DEF StillOpen
  <2>3. QED
    BY <2>1, <2>2 DEF Table
<1>4. c.det = d.det /\ c.parcel = d.parcel /\ c.reason = d.reason
  BY <1>1, <1>2, KeptRow
<1>5. StillOpen(d)
  BY <1>3, <1>4 DEF StillOpen, SameFinding
<1>6. c = d
  BY <1>2, <1>5 DEF Kept
<1>7. CASE e \in NewRows
  BY <1>1, <1>6, <1>7, NewRowShape
<1>8. ASSUME NEW f \in exceptions, e = Kept(f)
      PROVE  c.closed < e.run
  <2>1. f.closed = 0 /\ e.run = f.run /\ e.det = f.det /\ e.parcel = f.parcel /\ e.reason = f.reason
    BY <1>1, <1>8, KeptRow
  <2>2. QED
    BY <1>6, <2>1 DEF RowsInv, SameFinding
<1>9. QED
  BY <1>6, <1>7, <1>8 DEF Table

LEMMA RowsNext ==
    ASSUME TypeInv, RunsInv, RowsInv, ReadInv, Commit
    PROVE  RowsInv'
<1>1. loader.pc = "read"
  BY DEF Commit, At
<1>2. \A e \in exceptions' : e.det = "centroid" => e.reason = "not_interior"
  <2>1. \A e \in exceptions : e \in Exceptions
    BY DEF TypeInv, TypeOK
  <2>2. \A e \in Table : e.det = "centroid" => e.reason = "not_interior"
    <3>1. \A e \in exceptions : Kept(e).det = e.det /\ Kept(e).reason = e.reason
      BY <2>1, KeptRow
    <3>2. \A e \in exceptions : Kept(e).det = "centroid" => Kept(e).reason = "not_interior"
      BY <3>1 DEF RowsInv
    <3>3. \A e \in NewRows : e.det = "centroid" => e.reason = "not_interior"
      BY NewRowShape
    <3>4. QED
      BY <3>2, <3>3 DEF Table
  <2>3. QED
    BY <2>2, CommitTable, LinkRow
<1>3. ASSUME NEW d \in exceptions', NEW e \in exceptions', SameFinding(d, e),
             e.closed = 0, d.closed # 0
      PROVE  d.closed < e.run
  <2>1. PICK x \in Table : d = Link(x)
    BY CommitTable
  <2>2. PICK y \in Table : e = Link(y)
    BY CommitTable
  <2>3. SameFinding(x, y) /\ y.closed = 0 /\ x.closed # 0 /\ x.closed = d.closed /\ y.run = e.run
    BY <1>3, <2>1, <2>2, LinkRow DEF SameFinding
  <2>4. QED
    BY <1>1, <2>3, TableOpenIsLast
<1>4. QED
  BY <1>2, <1>3, FactsNext DEF RowsInv, SameKey, SameFinding

\* The rows of a finding that were closed before e was raised.
Before(e, T) ==
    {c \in T : c.det = "join" /\ c.parcel = e.parcel /\ c.reason = e.reason
               /\ c.closed # 0 /\ c.closed < e.run}
FromLast(e, T) ==
    IF Before(e, T) = {} THEN e.from = None
    ELSE \E c \in Before(e, T) : e.from = c.run /\ \A d \in Before(e, T) : d.closed <= c.closed

LEMMA ReopenedFromLastIs ==
    ReopenedFromLast <=> \A e \in exceptions : e.det = "join" => FromLast(e, exceptions)
BY DEF ReopenedFromLast, FromLast, Before

LEMMA ReopenedNext ==
    ASSUME TypeInv, RunsInv, RowsInv, ReopenedFromLast, Commit
    PROVE  ReopenedFromLast'
<1>1. /\ loads \in Nat /\ loader.pc = "read"
      /\ \A d \in exceptions : d \in Exceptions /\ d.closed < loads /\ d.run < loads
                               /\ d.run \in Nat /\ d.closed \in Nat
  BY DEF TypeInv, TypeOK, RunsInv, Idle, Commit, At, Exceptions
<1>2. ASSUME NEW e \in exceptions
      PROVE  Before(Kept(e), Table) = Before(e, exceptions)
  <2>1. Kept(e).run = e.run /\ Kept(e).parcel = e.parcel /\ Kept(e).reason = e.reason
    BY <1>1, KeptRow
  <2>2. ASSUME NEW c \in Table, c.closed # 0, c.closed < e.run
        PROVE  c \in exceptions
    <3>1. PICK d \in exceptions : c = Kept(d)
      BY <2>2, NewRowShape DEF Table
    <3>2. c.closed # loads
      BY <1>1, <2>2
    <3>3. QED
      BY <1>1, <3>1, <3>2 DEF Kept, Exceptions
  <2>3. ASSUME NEW c \in exceptions, c.closed # 0
        PROVE  c \in Table
    BY <2>3 DEF Kept, Table
  <2>4. QED
    BY <2>1, <2>2, <2>3 DEF Before
<1>3. ASSUME NEW e \in Table, e.det = "join", e.closed = 0
      PROVE  Before(e, Table) = ClosedLike(e)
  <2>1. \A c \in ClosedLike(e) : c.closed < e.run
    BY <1>1, <1>3, TableOpenIsLast DEF ClosedLike, SameFinding
  <2>2. QED
    BY <2>1 DEF Before, ClosedLike
<1>4. ASSUME NEW e \in Table
      PROVE  Before(Link(e), exceptions') = Before(e, Table)
  <2>1. \A c \in Table : c.closed # 0 => Link(c) = c
    BY DEF Link, Relinks
  <2>2. \A c \in exceptions' : c.closed # 0 => c \in Table
    BY <2>1, CommitTable, LinkRow
  <2>3. \A c \in Table : c.closed # 0 => c \in exceptions'
    BY <2>1, CommitTable
  <2>4. Link(e).run = e.run /\ Link(e).parcel = e.parcel /\ Link(e).reason = e.reason
    BY LinkRow
  <2>5. QED
    BY <2>2, <2>3, <2>4 DEF Before
<1>5. ASSUME NEW e \in Table, e.det = "join"
      PROVE  FromLast(Link(e), exceptions')
  <2>1. CASE e \in NewRows
    <3>1. e.closed = 0 /\ e.from = None /\ NewTrue # {}
      BY <1>5, <2>1, NewRowShape
    <3>2. Relinks(e) <=> ClosedLike(e) # {}
      BY <1>5, <3>1 DEF Relinks
    <3>3. Before(Link(e), exceptions') = ClosedLike(e)
      BY <1>3, <1>4, <1>5, <3>1
    <3>4. QED
      BY <3>1, <3>2, <3>3, LinkRow DEF FromLast
  <2>2. ASSUME NEW f \in exceptions, e = Kept(f)
        PROVE  FromLast(Link(e), exceptions')
    <3>1. e.from = f.from /\ e.det = f.det
      BY <1>1, <2>2, KeptRow
    <3>2. FromLast(f, exceptions)
      BY <1>5, <3>1, ReopenedFromLastIs
    <3>3. Before(Link(e), exceptions') = Before(f, exceptions)
      BY <1>2, <1>4, <2>2
    <3>4. ~Relinks(e)
      <4>1. SUFFICES ASSUME Relinks(e) PROVE FALSE
        OBVIOUS
      <4>2. e.closed = 0 /\ e.from = None /\ ClosedLike(e) # {}
        BY <4>1 DEF Relinks
      <4>3. Before(f, exceptions) # {}
        BY <1>2, <1>3, <1>5, <2>2, <4>2
      <4>4. \A c \in Before(f, exceptions) : c.run # None
        BY <1>1, NoneAssumption DEF Before
      <4>5. QED
        BY <3>1, <3>2, <4>2, <4>3, <4>4 DEF FromLast
    <3>5. QED
      BY <3>1, <3>2, <3>3, <3>4, LinkRow DEF FromLast
  <2>3. QED
    BY <2>1, <2>2 DEF Table
<1>6. ASSUME NEW e \in exceptions', e.det = "join"
      PROVE  FromLast(e, exceptions')
  <2>1. PICK x \in Table : e = Link(x)
    BY CommitTable
  <2>2. x.det = "join"
    BY <1>6, <2>1, LinkRow
  <2>3. QED
    BY <1>5, <2>1, <2>2
<1>7. QED
  BY <1>6 DEF ReopenedFromLast, FromLast, Before

-----------------------------------------------------------------------------
(* What a commit leaves behind.                                            *)

\* The live facts of a parcel in scope are the value the load found for it.
LEMMA LiveAfter ==
    ASSUME TypeInv, ReadInv, Commit, NEW p \in loader.scope, NEW field \in Fields
    PROVE  \A v : (\E f \in facts' : f.live /\ f.parcel = p /\ f.field = field /\ f.val = v)
                      <=> v = FreshValue(p, field) /\ v # None
<1>1. loader.live = Live /\ p \in Parcels /\ \A f \in facts : f \in Facts
  BY DEF ReadInv, Commit, At, TypeInv, TypeOK, LoaderType
<1>2. ASSUME NEW f \in facts'
      PROVE  f.live /\ f.parcel = p /\ f.field = field =>
                 f.val = FreshValue(p, field) /\ f.val # None
  <2>1. CASE Born(f)
    <3>1. PICK q \in loader.scope, other \in Fields : f \in Written(loads, q, other)
      BY <2>1 DEF Born
    <3>2. q \in Parcels
      BY DEF TypeInv, LoaderType
    <3>3. f.parcel = q /\ f.field = other /\ f.val = FreshValue(q, other) /\ f.val # None
      BY <3>1, <3>2, WrittenShape
    <3>4. QED
      BY <3>3
  <2>2. ASSUME NEW g \in facts, f = After(g), f.live, f.parcel = p, f.field = field
        PROVE  f.val = FreshValue(p, field) /\ f.val # None
    <3>1. g.live /\ ~Dies(g) /\ f = g
      BY <1>1, <2>2 DEF After, Facts
    <3>2. g \in LiveOf(p, field)
      BY <1>1, <2>2, <3>1 DEF LiveOf, Live
    <3>3. g.val # None
      BY <1>1, NoneAssumption DEF Facts
    <3>4. QED
      BY <2>2, <3>1, <3>2, <3>3 DEF Dies, Superseded
  <2>3. QED
    BY <2>1, <2>2, CommitFacts
<1>3. ASSUME NEW v, v = FreshValue(p, field), v # None
      PROVE  \E f \in facts' : f.live /\ f.parcel = p /\ f.field = field /\ f.val = v
  <2>1. ASSUME NEW g \in LiveOf(p, field), g.val = v
        PROVE  \E f \in facts' : f.live /\ f.parcel = p /\ f.field = field /\ f.val = v
    <3>1. g \in facts /\ g.live /\ g.parcel = p /\ g.field = field
      BY <1>1 DEF LiveOf, Live
    <3>2. ~Dies(g)
      BY <1>3, <2>1, <3>1 DEF Dies, Superseded
    <3>3. g \in facts'
      BY <3>1, <3>2, CommitFacts DEF After
    <3>4. QED
      BY <2>1, <3>1, <3>3
  <2>2. ASSUME \A g \in LiveOf(p, field) : g.val # v
        PROVE  \E f \in facts' : f.live /\ f.parcel = p /\ f.field = field /\ f.val = v
    <3>1. Written(loads, p, field) # {}
      <4>1. Written(loads, p, field) =
                IF LiveOf(p, field) = {}
                THEN {[run |-> loads, parcel |-> p, field |-> field, val |-> v,
                       sup |-> None, live |-> TRUE]}
                ELSE {[run |-> loads, parcel |-> p, field |-> field, val |-> v,
                       sup |-> f.run, live |-> TRUE] : f \in LiveOf(p, field)}
        BY <1>3, <2>2 DEF Written
      <4>2. QED
        BY <4>1
    <3>2. PICK g \in Written(loads, p, field) : TRUE
      BY <3>1
    <3>3. g.live /\ g.parcel = p /\ g.field = field /\ g.val = v
      BY <1>1, <1>3, WrittenShape
    <3>4. g \in facts'
      BY <3>2, CommitFacts DEF Born
    <3>5. QED
      BY <3>3, <3>4
  <2>3. QED
    BY <2>1, <2>2
<1>4. QED
  BY <1>2, <1>3

\* The open exceptions are exactly the findings of the load.
LEMMA OpenAfter ==
    ASSUME TypeInv, RunsInv, RowsInv, ReadInv, Commit
    PROVE  /\ OpenPairs("centroid")' = BadPairs
           /\ OpenPairs("join")' = StillTrue
<1>1. /\ loader.openBad = {e.parcel : e \in Open("centroid")} /\ loads # 0
      /\ \A e \in exceptions : e \in Exceptions
  BY DEF ReadInv, Commit, At, TypeInv, TypeOK
<1>2. ASSUME NEW e \in exceptions', e.closed = 0
      PROVE  <<e.parcel, e.reason>> \in IF e.det = "centroid" THEN BadPairs ELSE StillTrue
  <2>1. PICK y \in Table : e = Link(y)
    BY CommitTable
  <2>2. e.closed = y.closed /\ e.parcel = y.parcel /\ e.reason = y.reason /\ e.det = y.det
    BY <2>1, LinkRow
  <2>3. CASE y \in NewRows
    BY <2>2, <2>3, NewRowShape DEF StillOpen
  <2>4. ASSUME NEW f \in exceptions, y = Kept(f)
        PROVE  StillOpen(y)
    <3>1. y.closed = IF f.closed = 0 /\ ~StillOpen(f) THEN loads ELSE f.closed
      BY <1>1, <2>4, KeptRow
    <3>2. StillOpen(f)
      BY <1>1, <1>2, <2>2, <3>1
    <3>3. y.det = f.det /\ y.parcel = f.parcel /\ y.reason = f.reason
      BY <1>1, <2>4, KeptRow
    <3>4. QED
      BY <3>2, <3>3 DEF StillOpen
  <2>5. StillOpen(y)
    BY <2>3, <2>4, NewRowShape DEF Table
  <2>6. QED
    BY <2>2, <2>5 DEF StillOpen
<1>3. ASSUME NEW e \in Table, e.closed = 0
      PROVE  \E f \in exceptions' : /\ f.closed = 0 /\ f.det = e.det
                                    /\ f.parcel = e.parcel /\ f.reason = e.reason
  BY <1>3, CommitTable, LinkRow
<1>4. ASSUME NEW e \in exceptions, e.closed = 0, StillOpen(e)
      PROVE  e \in Table
  BY <1>4 DEF Table, Kept
<1>5. ASSUME NEW p \in loader.bad
      PROVE  \E e \in Table : /\ e.closed = 0 /\ e.det = "centroid"
                              /\ e.parcel = p /\ e.reason = "not_interior"
  <2>1. CASE p \in loader.openBad
    <3>1. PICK e \in exceptions : e.det = "centroid" /\ e.closed = 0 /\ e.parcel = p
      BY <1>1, <2>1 DEF Open
    <3>2. e.reason = "not_interior"
      BY <3>1 DEF RowsInv
    <3>3. StillOpen(e)
      BY <3>1, <3>2 DEF StillOpen, BadPairs
    <3>4. QED
      BY <1>4, <3>1, <3>2, <3>3
  <2>2. CASE p \notin loader.openBad
    <3> DEFINE e == [run |-> loads, parcel |-> p, det |-> "centroid",
                     reason |-> "not_interior", closed |-> 0, from |-> None]
    <3>1. <<p, "not_interior">> \in NewBad
      BY <2>2 DEF NewBad
    <3>2. e = [run |-> loads, parcel |-> <<p, "not_interior">>[1], det |-> "centroid",
               reason |-> <<p, "not_interior">>[2], closed |-> 0, from |-> None]
      OBVIOUS
    <3>3. e \in Raised("centroid", NewBad, loads)
      BY <3>1, <3>2 DEF Raised
    <3>4. QED
      BY <3>3 DEF Table, NewRows
  <2>3. QED
    BY <2>1, <2>2
<1>6. ASSUME NEW x \in StillTrue
      PROVE  \E e \in Table : e.closed = 0 /\ e.det = "join" /\ <<e.parcel, e.reason>> = x
  <2>1. CASE x \in OpenPairs("join")
    <3>1. PICK e \in exceptions : e.det = "join" /\ e.closed = 0 /\ <<e.parcel, e.reason>> = x
      BY <2>1 DEF OpenPairs, Open
    <3>2. StillOpen(e)
      BY <3>1 DEF StillOpen
    <3>3. QED
      BY <1>4, <3>1, <3>2
  <2>2. CASE x \notin OpenPairs("join")
    <3> DEFINE e == [run |-> loads, parcel |-> x[1], det |-> "join",
                     reason |-> x[2], closed |-> 0, from |-> None]
    <3>1. x = <<x[1], x[2]>>
      BY DEF StillTrue
    <3>2. e \in Raised("join", NewTrue, loads)
      BY <2>2 DEF NewTrue, Raised
    <3>3. QED
      BY <3>1, <3>2 DEF Table, NewRows
  <2>3. QED
    BY <2>1, <2>2
<1>7. OpenPairs("centroid")' \subseteq BadPairs /\ OpenPairs("join")' \subseteq StillTrue
  BY <1>2 DEF OpenPairs, Open
<1>8. BadPairs \subseteq OpenPairs("centroid")'
  BY <1>3, <1>5 DEF BadPairs, OpenPairs, Open
<1>9. StillTrue \subseteq OpenPairs("join")'
  BY <1>3, <1>6 DEF OpenPairs, Open
<1>10. QED
  BY <1>7, <1>8, <1>9

\* Classify finds what is true of the polygons.
LEMMA FindingsIs ==
    ASSUME NEW rows, rows \subseteq Rows, IsFiniteSet(rows), NEW r \in Reasons
    PROVE  Classify(rows).reason = r <=> r \in Findings(rows)
<1>1. None \notin Reasons
  BY NoneAssumption
<1>2. CASE Cardinality(Named(rows)) = 1
  <2>1. Named(rows) # {} /\ ~(Cardinality(Named(rows)) > 1)
    BY <1>2, NamedFinite
  <2>2. r \in Findings(rows) <=> r = "polygons_agree" /\ Cardinality(rows) > 1
    BY <1>2, <2>1 DEF Findings
  <2>3. Classify(rows).reason = IF Cardinality(rows) > 1 THEN "polygons_agree" ELSE None
    BY <1>2, ClassifyOne
  <2>4. QED
    BY <1>1, <2>2, <2>3
<1>3. CASE Cardinality(Named(rows)) # 1
  <2>1. /\ Classify(rows).reason = IF Named(rows) = {} THEN "no_district" ELSE "many_districts"
        /\ Named(rows) = {} <=> ~(Cardinality(Named(rows)) > 1)
    BY <1>3, ClassifyNone, NamedFinite
  <2>2. r \in Findings(rows) <=> \/ r = "no_district" /\ Named(rows) = {}
                                 \/ r = "many_districts" /\ Named(rows) # {}
    BY <1>3, <2>1 DEF Findings
  <2>3. QED
    BY <2>1, <2>2
<1>4. QED
  BY <1>2, <1>3

\* A load that nothing disturbed has pointed, joined and scoped the parcels as
\* they are when it commits.
LEMMA CalmCommit ==
    ASSUME TypeInv, CalmInv, Commit, settled' # None
    PROVE  /\ settled' = loader.snap /\ settled' \in Snapshots
           /\ \A p \in Parcels :
                  /\ centroid'[p] = PointSeen(p) /\ geom'[p] = geom[p]
                  /\ Pointed(p)' <=> HasUsable(p) /\ PointSeen(p) # None
                                     /\ PointSeen(p) \in Interior[geom[p]]
                  /\ Pointed(p)' => p \in Located'
                  /\ p \in Located' => (Pointed(p)' <=> p \notin loader.bad)
                  /\ p \in Classified <=> Pointed(p)'
                  /\ Pointed(p)' =>
                         loader.near[p] = Candidates[settled'][centroid'[p]]
<1>1. /\ loader.pc = "read" /\ loader.calm /\ settled' = loader.snap /\ geom' = geom
      /\ centroid' = [p \in Parcels |-> PointSeen(p)]
  BY DEF Commit, At
<1>2. loader.snap \in Snapshots
  BY <1>1 DEF TypeInv
<1>3. /\ loader.bad = {p \in Located : NotInterior(p, PointSeen(p))}
      /\ \A p \in Parcels :
             loader.near[p] = IF PointSeen(p) # None /\ p \notin loader.bad
                              THEN Candidates[loader.snap][PointSeen(p)] ELSE {}
      /\ loader.scope = {p \in Parcels : PointSeen(p) # None}
  BY <1>1 DEF CalmInv, Idle
<1>4. ASSUME NEW p \in Parcels
      PROVE  /\ centroid'[p] = PointSeen(p) /\ geom'[p] = geom[p]
             /\ Pointed(p)' <=> HasUsable(p) /\ PointSeen(p) # None
                                /\ PointSeen(p) \in Interior[geom[p]]
             /\ Pointed(p)' => p \in Located'
             /\ p \in Located' => (Pointed(p)' <=> p \notin loader.bad)
             /\ p \in Classified <=> Pointed(p)'
             /\ Pointed(p)' => loader.near[p] = Candidates[settled'][centroid'[p]]
  <2>1. centroid'[p] = PointSeen(p) /\ geom'[p] = geom[p]
    BY <1>1
  <2>2. Pointed(p)' <=> HasUsable(p) /\ PointSeen(p) # None /\ PointSeen(p) \in Interior[geom[p]]
    BY <2>1 DEF Pointed, HasUsable
  <2>3. HasUsable(p) => p \in Located /\ p \in Located'
    BY <2>1, GeometryAssumption, NoneAssumption DEF HasUsable, Located
  <2>4. p \in Located' <=> p \in Located
    BY <2>1 DEF Located
  <2>5. p \in Located => (p \in loader.bad <=> ~Pointed(p)')
    BY <1>3, <2>2 DEF NotInterior
  <2>6. PointSeen(p) # None => p \in Located
    BY DEF TypeInv, PointSeen, Located
  <2>7. p \in Classified <=> PointSeen(p) # None /\ p \notin loader.bad
    BY <1>3 DEF Classified
  <2>8. p \in Classified <=> Pointed(p)'
    BY <2>2, <2>3, <2>5, <2>6, <2>7
  <2>9. Pointed(p)' => loader.near[p] = Candidates[settled'][centroid'[p]]
    BY <1>1, <1>3, <2>1, <2>7, <2>8
  <2>10. QED
    BY <2>1, <2>2, <2>3, <2>4, <2>5, <2>8, <2>9
<1>5. QED
  BY <1>1, <1>2, <1>4

\* A point the load derived inside the geometry is the parcel's point.
LEMMA DerivedPoint ==
    ASSUME TypeInv, CalmInv, Commit, settled' # None, NEW p \in Located,
           HasUsable(p), PointOf[geom[p]] \in Interior[geom[p]]
    PROVE  PointSeen(p) # None /\ PointSeen(p) \in Interior[geom[p]]
<1>1. /\ loader.moved = {q \in Located : NeedsPoint(q)}
      /\ \A q \in loader.moved : loader.point[q] = PointOf[geom[q]]
  BY DEF Commit, At, CalmInv, Idle
<1>2. PointOf[geom[p]] # None
  BY GeometryAssumption, NoneAssumption DEF HasUsable
<1>3. CASE p \in loader.moved
  BY <1>1, <1>2, <1>3 DEF PointSeen
<1>4. CASE p \notin loader.moved
  BY <1>1, <1>4 DEF PointSeen, NeedsPoint
<1>5. QED
  BY <1>3, <1>4

\* The facts of a classified parcel say what its polygons say.
LEMMA SaysAfter ==
    ASSUME TypeInv, ReadInv, Commit, NEW p \in Classified
    PROVE  /\ ValueOf(p, "district")' =
                  IF Cardinality(Named(loader.near[p])) = 1 THEN Named(loader.near[p]) ELSE {}
           /\ ValueOf(p, "verbatim")' =
                  {v \in Zonings \cup {Blank} :
                       /\ Cardinality(Named(loader.near[p])) = 1
                       /\ \A c \in loader.near[p] : c.zoning # Blank => c.verbatim = v}
<1> DEFINE rows == loader.near[p]
<1>1. p \in Parcels /\ p \in loader.scope
  BY DEF Classified, TypeInv, LoaderType
<1>2. rows \subseteq Rows /\ IsFiniteSet(rows)
  BY <1>1 DEF TypeInv, LoaderType
<1>3. /\ FreshValue(p, "district") = Classify(rows).district
      /\ FreshValue(p, "verbatim") = Classify(rows).verbatim
  BY DEF FreshValue, ClassOf
<1>4. ASSUME NEW field \in Fields
      PROVE  \A v : v \in ValueOf(p, field)' <=> v = FreshValue(p, field) /\ v # None
  <2>1. \A v : v \in ValueOf(p, field)' <=>
                   \E f \in facts' : f.live /\ f.parcel = p /\ f.field = field /\ f.val = v
    BY DEF ValueOf, Live
  <2>2. QED
    BY <1>1, <2>1, LiveAfter
<1>5. \A v : v \in ValueOf(p, "district")' <=> v = Classify(rows).district /\ v # None
  BY <1>3, <1>4 DEF Fields
<1>6. \A v : v \in ValueOf(p, "verbatim")' <=> v = Classify(rows).verbatim /\ v # None
  BY <1>3, <1>4 DEF Fields
<1>7. None \notin Zonings \cup {Blank}
  BY NoneAssumption
<1> HIDE DEF rows
<1>8. CASE Cardinality(Named(rows)) = 1
  <2>1. Named(rows) = {Classify(rows).district} /\ Classify(rows).district # None
    BY <1>2, <1>7, <1>8, ClassifyOne
  <2>2. ValueOf(p, "district")' = Named(rows)
    BY <1>5, <2>1
  <2>3. /\ Classify(rows).verbatim \in Zonings \cup {Blank, None}
        /\ \A v \in Zonings \cup {Blank} :
               Classify(rows).verbatim = v <=> \A c \in rows : c.zoning # Blank => c.verbatim = v
    BY <1>2, <1>8, ClassifyOne
  <2>4. ValueOf(p, "verbatim")' =
            {v \in Zonings \cup {Blank} : \A c \in rows : c.zoning # Blank => c.verbatim = v}
    BY <1>6, <1>7, <2>3
  <2>5. QED
    BY <1>8, <2>2, <2>4 DEF rows
<1>9. CASE Cardinality(Named(rows)) # 1
  <2>1. Classify(rows).district = None /\ Classify(rows).verbatim = None
    BY <1>2, <1>9, ClassifyNone
  <2>2. ValueOf(p, "district")' = {} /\ ValueOf(p, "verbatim")' = {}
    BY <1>5, <1>6, <2>1
  <2>3. QED
    BY <1>9, <2>2 DEF rows
<1>10. QED
  BY <1>8, <1>9

LEMMA LedgerNext ==
    ASSUME TypeInv, ReadInv, CalmInv, Commit
    PROVE  LedgerExact'
<1>1. SUFFICES ASSUME settled' # None, NEW p \in Located'
               PROVE  /\ (HasUsable(p) /\ PointOf[geom[p]] \in Interior[geom[p]])' => Pointed(p)'
                      /\ Pointed(p)' => SaysPolygons(p, Candidates[settled][centroid[p]])'
  BY DEF LedgerExact
<1>2. p \in Parcels /\ p \in Located /\ geom'[p] = geom[p]
  BY DEF Located, Commit
<1>3. (HasUsable(p) /\ PointOf[geom[p]] \in Interior[geom[p]])' => Pointed(p)'
  BY <1>1, <1>2, DerivedPoint, CalmCommit DEF HasUsable
<1>4. ASSUME Pointed(p)'
      PROVE  SaysPolygons(p, Candidates[settled][centroid[p]])'
  <2>1. p \in Classified /\ loader.near[p] = Candidates[settled'][centroid'[p]]
    BY <1>1, <1>2, <1>4, CalmCommit
  <2>2. QED
    BY <2>1, SaysAfter DEF SaysPolygons, Named
<1>5. QED
  BY <1>3, <1>4

LEMMA ExceptionsNext ==
    ASSUME TypeInv, TypeInv', RunsInv, RowsInv, ReadInv, CalmInv, Commit
    PROVE  ExceptionsExact'
<1>1. SUFFICES ASSUME settled' # None
               PROVE  /\ OpenPairs("centroid")' =
                             {<<p, "not_interior">> : p \in {q \in Located' : ~Pointed(q)'}}
                      /\ OpenPairs("join")' =
                             {x \in Parcels \X Reasons :
                                  /\ Pointed(x[1])'
                                  /\ x[2] \in Findings(Candidates[settled'][centroid'[x[1]]])}
  BY DEF ExceptionsExact, Findings, Named
<1>2. loader.bad = {q \in Located' : ~Pointed(q)'}
  <2>1. loader.bad \subseteq Located'
    BY <1>1 DEF Commit, At, CalmInv, Idle, Located
  <2>2. Located' \subseteq Parcels
    BY DEF Located
  <2>3. QED
    BY <1>1, <2>1, <2>2, CalmCommit
<1>3. OpenPairs("centroid")' = {<<p, "not_interior">> : p \in {q \in Located' : ~Pointed(q)'}}
  BY <1>2, OpenAfter DEF BadPairs
<1>4. ASSUME NEW p \in Parcels, NEW r \in Reasons
      PROVE  <<p, r>> \in StillTrue <=>
                 Pointed(p)' /\ r \in Findings(Candidates[settled'][centroid'[p]])
  <2>1. <<p, r>> \in StillTrue <=> p \in Classified /\ ClassOf(p).reason = r
    BY NoneAssumption DEF StillTrue
  <2>2. loader.near[p] \subseteq Rows /\ IsFiniteSet(loader.near[p])
    BY DEF TypeInv, LoaderType
  <2>3. ClassOf(p).reason = r <=> r \in Findings(loader.near[p])
    BY <2>2, FindingsIs DEF ClassOf
  <2>4. /\ p \in Classified <=> Pointed(p)'
        /\ Pointed(p)' => loader.near[p] = Candidates[settled'][centroid'[p]]
    BY <1>1, CalmCommit
  <2>5. QED
    BY <2>1, <2>3, <2>4
<1>5. StillTrue \subseteq Parcels \X Reasons
  <2>1. \A p \in Classified : p \in Parcels
    BY DEF Classified, TypeInv, LoaderType
  <2>2. QED
    BY <2>1, FreshType DEF StillTrue
<1>6. \A x \in Parcels \X Reasons : x = <<x[1], x[2]>> /\ x[1] \in Parcels /\ x[2] \in Reasons
  OBVIOUS
<1>7. \A x \in Parcels \X Reasons :
          x \in StillTrue <=> /\ Pointed(x[1])'
                              /\ x[2] \in Findings(Candidates[settled'][centroid'[x[1]]])
  BY <1>4, <1>6
<1>8. QED
  BY <1>3, <1>5, <1>7, OpenAfter

-----------------------------------------------------------------------------
(* The invariant.                                                          *)

LEMMA LoadInit ==
    ASSUME Init
    PROVE  LoadInv
<1>1. TypeInv
  BY TypeInit
<1>2. /\ exceptions = {} /\ settled = None /\ loader = NoLoad /\ loads = 0
      /\ \A f \in facts : f \in Facts /\ f.run = 0
      /\ \A f, g \in facts : f.parcel = g.parcel /\ f.field = g.field => f = g
  BY InitFactsAssumption DEF Init
<1>3. RunsInv /\ RowsInv
  BY <1>2, NoLoadType DEF RunsInv, RowsInv, Idle, SameKey
<1>4. ReadInv /\ CalmInv
  BY <1>2, NoLoadType DEF ReadInv, CalmInv, Idle
<1>5. LedgerExact /\ ExceptionsExact /\ ReopenedFromLast
  BY <1>2 DEF LedgerExact, ExceptionsExact, ReopenedFromLast
<1>6. QED
  BY <1>1, <1>3, <1>4, <1>5 DEF LoadInv

\* What holds of a settled database holds until the next commit, or until a
\* parcel moves.
LEMMA SettledStays ==
    ASSUME LedgerExact, ExceptionsExact, [Next]_vars, ~Commit
    PROVE  LedgerExact' /\ ExceptionsExact'
<1>1. CASE settled' = None
  BY <1>1 DEF LedgerExact, ExceptionsExact
<1>2. CASE settled' # None
  <2>1. UNCHANGED <<geom, centroid, facts, exceptions, settled>>
    BY <1>2 DEF Next, vars, MoveParcel, Begin, Populate, Residual, Join, Scope, ReadLive,
                Fail, Crash
  <2>2. /\ Located' = Located
        /\ \A p : Pointed(p)' = Pointed(p) /\ HasUsable(p)' = HasUsable(p)
        /\ \A p, field : ValueOf(p, field)' = ValueOf(p, field)
        /\ \A det : OpenPairs(det)' = OpenPairs(det)
    BY <2>1 DEF Located, Pointed, HasUsable, ValueOf, Live, OpenPairs, Open
  <2>3. LedgerExact'
    BY <2>1, <2>2 DEF LedgerExact, SaysPolygons
  <2>4. ExceptionsExact'
    BY <2>1, <2>2 DEF ExceptionsExact
  <2>5. QED
    BY <2>3, <2>4
<1>3. QED
  BY <1>1, <1>2

LEMMA LoadNext ==
    ASSUME LoadInv, [Next]_vars
    PROVE  LoadInv'
<1>1. TypeInv /\ RunsInv /\ RowsInv /\ ReadInv /\ CalmInv
  BY DEF LoadInv
<1>2. TypeInv' /\ RunsInv' /\ ReadInv' /\ CalmInv'
  BY <1>1, TypeNext, RunsNext, ReadNext, CalmNext
<1>3. CASE Commit
  BY <1>1, <1>2, <1>3, RowsNext, LedgerNext, ExceptionsNext, ReopenedNext DEF LoadInv
<1>4. CASE ~Commit
  <2>1. UNCHANGED <<facts, exceptions>>
    BY <1>4, OnlyCommitWrites
  <2>2. RowsInv' /\ ReopenedFromLast'
    BY <2>1 DEF LoadInv, RowsInv, ReopenedFromLast
  <2>3. LedgerExact' /\ ExceptionsExact'
    BY <1>4, SettledStays DEF LoadInv
  <2>4. QED
    BY <1>2, <2>2, <2>3 DEF LoadInv
<1>5. QED
  BY <1>3, <1>4

LEMMA LoadInvHolds == Spec => []LoadInv
<1>1. Init => LoadInv
  BY LoadInit
<1>2. LoadInv /\ [Next]_vars => LoadInv'
  BY LoadNext
<1>3. QED
  BY <1>1, <1>2, PTL DEF Spec

-----------------------------------------------------------------------------
(* The theorems.                                                           *)

\* The tables and the load keep their shape, whatever an older loader left.
THEOREM TypesHold == Spec => []TypeOK
<1>1. LoadInv => TypeOK
  BY DEF LoadInv, TypeInv
<1>2. QED
  BY <1>1, LoadInvHolds, PTL

\* A load that no parcels run disturbed leaves the ledger exact: every parcel
\* that can have an interior point has one, and its live facts say what the
\* polygons of the snapshot around that point say.
THEOREM LedgerExactHolds == Spec => []LedgerExact
<1>1. LoadInv => LedgerExact
  BY DEF LoadInv
<1>2. QED
  BY <1>1, LoadInvHolds, PTL

\* After such a load the open exceptions of both detectors are exactly the
\* findings that are true of the parcels.
THEOREM ExceptionsExactHolds == Spec => []ExceptionsExact
<1>1. LoadInv => ExceptionsExact
  BY DEF LoadInv
<1>2. QED
  BY <1>1, LoadInvHolds, PTL

\* A row that reopens a finding of the join is linked to the row of the finding
\* that was resolved last before it, and to none if there is none.
THEOREM ReopenedFromLastHolds == Spec => []ReopenedFromLast
<1>1. LoadInv => ReopenedFromLast
  BY DEF LoadInv
<1>2. QED
  BY <1>1, LoadInvHolds, PTL

LEMMA CommitExplains ==
    ASSUME LoadInv, Commit, NEW p \in Parcels,
           \E f \in Live : f.parcel = p /\ f.field = "district",
           ~ \E f \in Live' : f.parcel = p /\ f.field = "district"
    PROVE  \E e \in exceptions' : e.parcel = p /\ e.closed = 0
<1>1. TypeInv /\ RunsInv /\ RowsInv /\ ReadInv
  BY DEF LoadInv
<1>2. PICK f \in facts : f.live /\ f.parcel = p /\ f.field = "district"
  BY DEF Live
<1>3. p \in loader.scope
  <2>1. SUFFICES ASSUME p \notin loader.scope PROVE FALSE
    OBVIOUS
  <2>2. After(f) = f
    BY <1>2, <2>1 DEF After, Dies
  <2>3. f \in facts'
    BY <1>1, <2>2, CommitFacts
  <2>4. QED
    BY <1>2, <2>3 DEF Live
<1>4. FreshValue(p, "district") = None
  <2>1. \A v : ~ \E g \in facts' : g.live /\ g.parcel = p /\ g.field = "district" /\ g.val = v
    BY DEF Live
  <2>2. QED
    BY <1>1, <1>3, <2>1, LiveAfter DEF Fields
<1>5. \E x \in OpenPairs("centroid")' \cup OpenPairs("join")' : x[1] = p
  <2>1. CASE p \in loader.bad
    <3>1. <<p, "not_interior">> \in OpenPairs("centroid")'
      BY <1>1, <2>1, OpenAfter DEF BadPairs
    <3>2. <<p, "not_interior">>[1] = p
      OBVIOUS
    <3>3. QED
      BY <3>1, <3>2
  <2>2. CASE p \notin loader.bad
    <3>1. p \in Classified
      BY <1>3, <2>2 DEF Classified
    <3>2. loader.near[p] \subseteq Rows /\ IsFiniteSet(loader.near[p])
      BY <1>1 DEF TypeInv, LoaderType
    <3>3. ClassOf(p).district = None
      BY <1>4, <3>1 DEF FreshValue
    <3>4. ClassOf(p).reason # None
      BY <3>2, <3>3, ClassifyType, NoneAssumption DEF ClassOf
    <3>5. <<p, ClassOf(p).reason>> \in StillTrue
      BY <3>1, <3>4 DEF StillTrue
    <3>6. <<p, ClassOf(p).reason>> \in OpenPairs("join")'
      BY <1>1, <3>5, OpenAfter
    <3>7. <<p, ClassOf(p).reason>>[1] = p
      OBVIOUS
    <3>8. QED
      BY <3>6, <3>7
  <2>3. QED
    BY <2>1, <2>2
<1>6. QED
  BY <1>5 DEF OpenPairs, Open

\* A district never dies without a successor unless an open exception of its
\* parcel says why, whichever parcels run commits during the load.
THEOREM RetirementExplainedHolds == Spec => RetirementExplained
<1> DEFINE Explained ==
        \A p \in Parcels :
            (\E f \in Live : f.parcel = p /\ f.field = "district")
            /\ ~(\E f \in Live' : f.parcel = p /\ f.field = "district")
            => \E e \in exceptions' : e.parcel = p /\ e.closed = 0
<1>1. LoadInv /\ [Next]_vars => [Explained]_vars
  <2>1. SUFFICES ASSUME LoadInv, [Next]_vars PROVE Explained
    OBVIOUS
  <2>2. CASE Commit
    BY <2>1, <2>2, CommitExplains
  <2>3. CASE ~Commit
    <3>1. Live' = Live
      BY <2>1, <2>3, OnlyCommitWrites DEF Live
    <3>2. QED
      BY <3>1
  <2>4. QED
    BY <2>2, <2>3
<1>2. QED
  BY <1>1, LoadInvHolds, PTL DEF Spec, RetirementExplained

-----------------------------------------------------------------------------
(* The timeline of each key.                                               *)

\* The link of a fact: which version of its key it is the successor of.
LinkOf(f) == <<IF f.sup = None THEN 0 ELSE f.sup + 1, Version(f)>>

LEMMA LiveVersionIs ==
    ASSUME RowsInv, NEW k \in Keys
    PROVE  /\ \A f \in OfKey(k) : f.live => LiveVersion[k] = Version(f)
           /\ (\A f \in OfKey(k) : ~f.live) => LiveVersion[k] = 0
<1>1. LiveVersion[k] = IF \E f \in OfKey(k) : f.live
                       THEN Version(CHOOSE f \in OfKey(k) : f.live) ELSE 0
  BY DEF LiveVersion
<1>2. \A f, g \in OfKey(k) : f.live /\ g.live => f = g
  BY DEF OfKey, RowsInv, SameKey
<1>3. ASSUME NEW f \in OfKey(k), f.live
      PROVE  (CHOOSE g \in OfKey(k) : g.live) = f
  BY <1>2, <1>3
<1>4. QED
  BY <1>1, <1>3

LEMMA DeadAfter ==
    ASSUME TypeInv, Commit, NEW k \in Keys
    PROVE  DeadVersions'[k] = DeadVersions[k] \cup {Version(f) : f \in {f \in OfKey(k) : Dies(f)}}
<1>1. \A f \in facts : /\ After(f).run = f.run /\ After(f).parcel = f.parcel
                       /\ After(f).field = f.field
                       /\ ~After(f).live <=> ~f.live \/ Dies(f)
  BY DEF After, TypeInv, TypeOK, Facts
<1>2. \A g : Born(g) => g.live
  BY WrittenShape DEF Born, TypeInv, LoaderType
<1>3. /\ DeadVersions[k] = {Version(f) : f \in {f \in OfKey(k) : ~f.live}}
      /\ DeadVersions'[k] = {Version(f) : f \in {f \in OfKey(k)' : ~f.live}}
  BY DEF DeadVersions
<1>4. ASSUME NEW n
      PROVE  n \in DeadVersions'[k] <=>
                 \E f \in OfKey(k) : n = Version(f) /\ (~f.live \/ Dies(f))
  <2>1. n \in DeadVersions'[k] <=>
            \E g \in facts' : g.parcel = k[1] /\ g.field = k[2] /\ ~g.live /\ n = Version(g)
    BY <1>3 DEF OfKey
  <2>2. (\E g \in facts' : g.parcel = k[1] /\ g.field = k[2] /\ ~g.live /\ n = Version(g))
        <=> \E f \in facts : f.parcel = k[1] /\ f.field = k[2] /\ ~After(f).live /\ n = Version(f)
    BY <1>1, <1>2, CommitFacts DEF Version
  <2>3. QED
    BY <1>1, <2>1, <2>2 DEF OfKey
<1>5. \A n : n \in DeadVersions[k] <=> \E f \in OfKey(k) : n = Version(f) /\ ~f.live
  BY <1>3
<1>6. QED
  BY <1>4, <1>5

LEMMA LinksAfter ==
    ASSUME TypeInv, Commit, NEW k \in Keys
    PROVE  Links'[k] = Links[k] \cup {LinkOf(g) : g \in {g \in OfKey(k)' : Born(g)}}
<1>1. \A f \in facts : /\ LinkOf(After(f)) = LinkOf(f) /\ After(f).parcel = f.parcel
                       /\ After(f).field = f.field
  BY DEF After, TypeInv, TypeOK, Facts, LinkOf, Version
<1>2. /\ Links[k] = {LinkOf(f) : f \in OfKey(k)}
      /\ Links'[k] = {LinkOf(f) : f \in OfKey(k)'}
  BY DEF Links, LinkOf, Version
<1>3. ASSUME NEW n
      PROVE  n \in Links'[k] <=> n \in Links[k] \/ \E g \in OfKey(k)' : Born(g) /\ n = LinkOf(g)
  <2>1. n \in Links'[k] <=> \E g \in facts' : g.parcel = k[1] /\ g.field = k[2] /\ n = LinkOf(g)
    BY <1>2 DEF OfKey
  <2>2. n \in Links[k] <=> \E f \in facts : f.parcel = k[1] /\ f.field = k[2] /\ n = LinkOf(f)
    BY <1>2 DEF OfKey
  <2>3. \A g : g \in OfKey(k)' <=> g \in facts' /\ g.parcel = k[1] /\ g.field = k[2]
    BY DEF OfKey
  <2> HIDE DEF LinkOf
  <2>4. QED
    BY <1>1, <2>1, <2>2, <2>3, CommitFacts
<1>4. QED
  BY <1>3

\* What a commit does to one key.
LEMMA CommitKey ==
    ASSUME LoadInv, LoadInv', Commit, NEW k \in Keys
    PROVE  \/ Timeline!Stay(k)
           \/ Timeline!Write(k) /\ LiveVersion'[k] = loads + 1
           \/ Timeline!Close(k)
<1> DEFINE old == LiveOf(k[1], k[2])
           dying == {f \in OfKey(k) : Dies(f)}
           born == {g \in OfKey(k)' : Born(g)}
<1>1. /\ TypeInv /\ RunsInv /\ RowsInv /\ ReadInv /\ RowsInv' /\ RunsInv' /\ TypeInv'
      /\ loader.pc = "read" /\ loader.live = Live /\ loads \in Nat
      /\ k[1] \in Parcels /\ k[2] \in Fields
  <2>1. TypeInv /\ RunsInv /\ RowsInv /\ ReadInv /\ RowsInv' /\ RunsInv' /\ TypeInv'
    BY DEF LoadInv
  <2>2. loader.pc = "read" /\ loader.live = Live
    BY <2>1 DEF ReadInv, Commit, At
  <2>3. loads \in Nat /\ k[1] \in Parcels /\ k[2] \in Fields
    BY <2>1 DEF TypeInv, TypeOK, Keys
  <2>4. QED
    BY <2>1, <2>2, <2>3
<1>2. old = {f \in OfKey(k) : f.live} /\ dying \subseteq old
  <2>1. \A f : f \in old <=> f \in OfKey(k) /\ f.live
    BY <1>1 DEF LiveOf, Live, OfKey
  <2>2. \A f \in OfKey(k) : Dies(f) => f \in old
    BY <1>1 DEF Dies, Superseded, LiveOf, OfKey
  <2>3. QED
    BY <2>1, <2>2
<1>3. \A f \in OfKey(k) : f.run \in Nat /\ f.run < loads
  BY <1>1 DEF OfKey, TypeInv, TypeOK, Facts, RunsInv, Idle
<1>4. \A f, g \in old : f = g
  BY <1>1, <1>2 DEF OfKey, RowsInv, SameKey
<1>5. /\ DeadVersions'[k] = DeadVersions[k] \cup {Version(f) : f \in dying}
      /\ Links'[k] = Links[k] \cup {LinkOf(g) : g \in born}
  BY <1>1, DeadAfter, LinksAfter
<1>6. \A n \in DeadVersions[k] : n \in Nat /\ n # loads + 1
  <2>1. \A n \in DeadVersions[k] : \E f \in OfKey(k) : n = f.run + 1
    BY DEF DeadVersions, Version
  <2>2. QED
    BY <1>1, <1>3, <2>1
<1>7. ASSUME NEW g \in born
      PROVE  /\ g \in Written(loads, k[1], k[2]) /\ k[1] \in loader.scope
             /\ g.live /\ g.run = loads /\ Version(g) = loads + 1
             /\ \A f \in old : f.val # g.val /\ g.val = FreshValue(k[1], k[2])
             /\ g.sup = None <=> old = {}
             /\ g.sup # None => \E f \in old : g.sup = f.run
  <2>1. PICK p \in loader.scope, field \in Fields : g \in Written(loads, p, field)
    BY DEF Born
  <2>2. p \in Parcels
    BY <1>1 DEF TypeInv, LoaderType
  <2>3. g.parcel = p /\ g.field = field /\ g.run = loads
    <3> HIDE DEF born, old, dying
    <3>1. TypeInv
      BY <1>1
    <3>2. QED
      BY <2>1, <2>2, <3>1, WrittenShape
  <2>4. p = k[1] /\ field = k[2]
    BY <2>3 DEF OfKey
  <2>5. g \in Written(loads, k[1], k[2]) /\ k[1] \in loader.scope
    BY <2>1, <2>4
  <2>6. QED
    BY <1>1, <2>3, <2>5, WrittenShape DEF Version
<1>8. \A g, h \in born : g = h
  <2>1. \A g \in born : g \in facts' /\ g.parcel = k[1] /\ g.field = k[2] /\ g.run = loads
    BY <1>7 DEF OfKey
  <2>2. QED
    BY <1>1, <2>1 DEF RowsInv, SameKey
<1>9. /\ \A f \in old : LiveVersion[k] = f.run + 1
      /\ old = {} => LiveVersion[k] = 0
  BY <1>1, <1>2, LiveVersionIs DEF Version
<1>10. /\ \A g \in OfKey(k)' : g.live => LiveVersion'[k] = Version(g)
       /\ (\A g \in OfKey(k)' : ~g.live) => LiveVersion'[k] = 0
  <2>1. LiveVersion'[k] = IF \E f \in OfKey(k)' : f.live
                          THEN Version(CHOOSE f \in OfKey(k)' : f.live) ELSE 0
    BY DEF LiveVersion
  <2>2. \A f, g \in OfKey(k)' : f.live /\ g.live => f = g
    BY <1>1 DEF OfKey, RowsInv, SameKey
  <2>3. ASSUME NEW f \in OfKey(k)', f.live
        PROVE  (CHOOSE g \in OfKey(k)' : g.live) = f
    BY <2>2, <2>3
  <2>4. QED
    BY <2>1, <2>3
<1>11. \A g \in OfKey(k)' : g \notin born => \E f \in OfKey(k) : g = After(f)
  <2>1. \A f \in facts : After(f).parcel = f.parcel /\ After(f).field = f.field
    BY <1>1 DEF After, TypeInv, TypeOK, Facts
  <2>2. QED
    BY <1>1, <2>1, CommitFacts DEF OfKey
<1>12. \A f \in OfKey(k) : After(f).live <=> f \in old /\ f \notin dying
  <2>1. \A f \in OfKey(k) : After(f).live <=> f.live /\ ~Dies(f)
    BY <1>1 DEF After, TypeInv, TypeOK, Facts, OfKey
  <2>2. QED
    BY <1>2, <2>1
<1>13. \A f \in OfKey(k) : After(f) \in OfKey(k)' /\ After(f).run = f.run
  BY <1>1, CommitFacts DEF OfKey, After, TypeInv, TypeOK, Facts
<1> HIDE DEF old, dying, born
<1>14. CASE born # {}
  <2>1. PICK g \in born : born = {g}
    BY <1>8, <1>14
  <2>2. g \in OfKey(k)' /\ g.live /\ Version(g) = loads + 1 /\ LiveVersion'[k] = loads + 1
    BY <1>7, <1>10 DEF born
  <2>3. Links'[k] = Links[k] \cup {LinkOf(g)}
    BY <1>5, <2>1
  <2>4. CASE old = {}
    <3>1. LiveVersion[k] = 0 /\ DeadVersions'[k] = DeadVersions[k]
      BY <1>2, <1>5, <1>9, <2>4
    <3>2. LinkOf(g) = <<0, loads + 1>>
      BY <1>7, <2>2, <2>4 DEF LinkOf
    <3>3. QED
      BY <1>1, <1>6, <2>2, <2>3, <3>1, <3>2 DEF Timeline!Write
  <2>5. CASE old # {}
    <3>1. PICK f \in old : g.sup = f.run /\ g.sup # None
      BY <1>7, <2>5
    <3>2. f.run \in Nat /\ f.run < loads /\ LiveVersion[k] = f.run + 1
      BY <1>2, <1>3, <1>9, <3>1
    <3>3. f \in dying
      <4>1. f \in LiveOf(k[1], k[2]) /\ f.val # FreshValue(k[1], k[2]) /\ k[1] \in loader.scope
        BY <1>7, <3>1 DEF old
      <4>2. f \in OfKey(k) /\ f.parcel = k[1] /\ f.field = k[2]
        BY <1>2, <3>1 DEF OfKey
      <4>3. QED
        BY <4>1, <4>2 DEF dying, Dies, Superseded
    <3>4. dying = {f}
      BY <1>2, <1>4, <3>1, <3>3
    <3>5. DeadVersions'[k] = DeadVersions[k] \cup {f.run + 1}
      BY <1>5, <3>4 DEF Version
    <3>6. LinkOf(g) = <<f.run + 1, loads + 1>>
      BY <2>2, <3>1 DEF LinkOf
    <3>7. LiveVersion'[k] \notin DeadVersions[k] \cup {0, LiveVersion[k]}
      BY <1>1, <1>6, <2>2, <3>2
    <3>8. LiveVersion[k] # 0
      BY <3>2
    <3>9. QED
      BY <2>2, <2>3, <3>2, <3>5, <3>6, <3>7, <3>8 DEF Timeline!Write
  <2>6. QED
    BY <2>4, <2>5
<1>15. CASE born = {}
  <2>1. Links'[k] = Links[k]
    BY <1>5, <1>15
  <2>2. CASE dying = {}
    <3>1. DeadVersions'[k] = DeadVersions[k]
      BY <1>5, <2>2
    <3>2. CASE old = {}
      <4>1. \A g \in OfKey(k)' : ~g.live
        BY <1>11, <1>12, <1>15, <3>2
      <4>2. QED
        BY <1>9, <1>10, <2>1, <3>1, <3>2, <4>1 DEF Timeline!Stay
    <3>3. CASE old # {}
      <4>1. PICK f \in old : TRUE
        BY <3>3
      <4>2. f \in OfKey(k) /\ After(f).live /\ After(f) \in OfKey(k)' /\ After(f).run = f.run
        BY <1>2, <1>12, <1>13, <2>2, <4>1
      <4>3. LiveVersion'[k] = f.run + 1 /\ LiveVersion[k] = f.run + 1
        BY <1>9, <1>10, <4>2 DEF Version
      <4>4. QED
        BY <2>1, <3>1, <4>3 DEF Timeline!Stay
    <3>4. QED
      BY <3>2, <3>3
  <2>3. CASE dying # {}
    <3>1. PICK f \in dying : f \in old
      BY <1>2, <2>3
    <3>2. dying = {f} /\ old = {f}
      BY <1>2, <1>4, <3>1
    <3>3. \A g \in OfKey(k)' : ~g.live
      BY <1>11, <1>12, <1>15, <3>2
    <3>4. LiveVersion[k] = f.run + 1 /\ f.run \in Nat /\ LiveVersion'[k] = 0
      BY <1>2, <1>3, <1>9, <1>10, <3>1, <3>3
    <3>5. DeadVersions'[k] = DeadVersions[k] \cup {f.run + 1}
      BY <1>5, <3>2 DEF Version
    <3>6. QED
      BY <2>1, <3>4, <3>5 DEF Timeline!Close
  <2>4. QED
    BY <2>2, <2>3
<1>16. QED
  BY <1>14, <1>15

\* The zoning facts of each parcel and field are a timeline: a step gives keys
\* one new version that names the one it replaces, or ends their version.
THEOREM TimelineHolds == Spec => IsTimeline
<1>1. LoadInv /\ LoadInv' /\ [Next]_vars => [Timeline!Next]_<<facts>>
  <2>1. SUFFICES ASSUME LoadInv, LoadInv', [Next]_vars, facts' # facts
                 PROVE  Timeline!Next
    OBVIOUS
  <2>2. Commit
    BY <2>1, OnlyCommitWrites
  <2>3. \A k \in Keys : Timeline!Stay(k) \/ Timeline!Write(k) \/ Timeline!Close(k)
    BY <2>1, <2>2, CommitKey
  <2>4. \A k \in Timeline!Written : LiveVersion'[k] = loads + 1
    BY <2>1, <2>2, CommitKey DEF Timeline!Written, Timeline!Stay, Timeline!Close
  <2>5. \A j, k \in Timeline!Written : LiveVersion'[j] = LiveVersion'[k]
    BY <2>4
  <2>6. QED
    BY <2>3, <2>5 DEF Timeline!Next
<1>2. QED
  BY <1>1, LoadInvHolds, PTL DEF Spec, IsTimeline
=============================================================================
