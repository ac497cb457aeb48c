------------------------- MODULE PermitsLoad_proofs -------------------------
(***************************************************************************)
(* Theorems of PermitsLoad: what the permits facts and the open exceptions  *)
(* say after a load, for every set of parcels and every export.             *)
(***************************************************************************)
EXTENDS PermitsLoad, FiniteSetTheorems, WellFoundedInduction, TLAPS

-----------------------------------------------------------------------------
(* The inductive invariant.                                                *)

LoaderType ==
    [pc : {"idle", "parsing", "attributed", "read"}, snap : Snapshots \cup {None},
     fresh : [Parcels -> Dates \cup {None}], live : SUBSET Facts, calm : BOOLEAN]

\* The tables and the loader are of their types; an export that is refused
\* goes no further than its parsing.
TypeInv ==
    /\ TypeOK
    /\ loader \in LoaderType
    /\ loader.pc # "idle" => loader.snap \in Snapshots /\ loads # 0
    /\ loader.pc \in {"attributed", "read"} => ~Refused(loader.snap)
    /\ \A e \in exceptions : e.closed <= loads

SameKey(f, g) == f.parcel = g.parcel /\ f.field = g.field

\* A key has one live fact, and a parcel without live facts no open exception.
RowsInv ==
    /\ \A f, g \in facts : SameKey(f, g) /\ f.live /\ g.live => f = g
    /\ \A e \in exceptions : e.closed = 0 => IsLive(e.parcel)

\* Nobody else writes permits facts, so what the load has read of them is what
\* they still say; the APNs are what they were until one changes.
ReadInv ==
    /\ loader.pc = "read" => loader.live = Live
    /\ loader.calm /\ loader.pc \in {"attributed", "read"} =>
           loader.fresh = Attributed(loader.snap)

\* The value a date calls for.
Wanted(d, field) == IF field = "active" THEN True ELSE d

OpenParcels == {e.parcel : e \in {e \in exceptions : e.closed = 0}}

\* FactsMatchExport and LostIsOpen in terms of Attributed: the live values of a
\* parcel the export mentions are the ones it calls for, and no other.
SettledInv ==
    settled # None =>
        /\ settled \in Snapshots /\ ~Refused(settled)
        /\ \A p \in Parcels : Attributed(settled)[p] # None =>
               \A field \in Fields : \A v :
                   HasLive(p, field, v) <=> v = Wanted(Attributed(settled)[p], field)
        /\ OpenParcels = {p \in Parcels : IsLive(p) /\ Attributed(settled)[p] = None}

LoadInv ==
    /\ TypeInv
    /\ RowsInv
    /\ ReadInv
    /\ SettledInv

-----------------------------------------------------------------------------
(* The export.                                                             *)

\* A set of numbers has a least one; one with a bound has a greatest.
LEMMA LeastExists ==
    ASSUME NEW S \in SUBSET Nat, S # {}
    PROVE  \E d \in S : \A e \in S : d <= e
<1>1. PICK d \in S : \A e \in S : ~(<<e, d>> \in OpToRel(<, Nat))
  BY NatLessThanWellFounded, WFMin
<1>2. ASSUME NEW e \in S
      PROVE  d <= e
  <2>1. d \in Nat /\ e \in Nat
    OBVIOUS
  <2>2. ~(e < d)
    BY <1>1, <2>1 DEF OpToRel
  <2>3. QED
    BY <2>1, <2>2
<1>3. QED
  BY <1>2

LEMMA LastExists ==
    ASSUME NEW S, NEW n \in Nat, \A c \in S : c.closed \in Nat /\ c.closed <= n, S # {}
    PROVE  \E c \in S : \A d \in S : d.closed <= c.closed
<1> DEFINE T == {n - c.closed : c \in S}
<1>1. T \in SUBSET Nat /\ T # {}
  OBVIOUS
<1>2. PICK x \in T : \A y \in T : x <= y
  BY <1>1, LeastExists
<1>3. PICK c \in S : x = n - c.closed
  OBVIOUS
<1>4. ASSUME NEW d \in S
      PROVE  d.closed <= c.closed
  <2>1. n - d.closed \in T
    OBVIOUS
  <2>2. n - c.closed <= n - d.closed
    BY <1>2, <1>3, <2>1
  <2>3. d.closed \in Nat /\ c.closed \in Nat
    OBVIOUS
  <2> HIDE DEF T
  <2>4. QED
    BY <2>2, <2>3
<1>5. QED
  BY <1>4

\* An export that is not refused has a parsable date on each row it counts.
LEMMA DatesAreDates ==
    ASSUME NEW x \in Snapshots, ~Refused(x), NEW a
    PROVE  DatesOf(x, a) \in SUBSET Dates
<1>1. \A r \in Named(x) : r.date \in Dates \cup {BadDate} /\ r.date # BadDate
  BY PermitsAssumption DEF Named, Rows, Refused
<1>2. QED
  BY <1>1 DEF DatesOf

LEMMA EarliestIs ==
    ASSUME NEW x \in Snapshots, ~Refused(x), NEW a
    PROVE  /\ EarliestOf(x, a) = None <=> DatesOf(x, a) = {}
           /\ DatesOf(x, a) # {} =>
                  /\ EarliestOf(x, a) \in DatesOf(x, a) /\ EarliestOf(x, a) \in Dates
                  /\ \A e \in DatesOf(x, a) : EarliestOf(x, a) <= e
<1>1. DatesOf(x, a) \in SUBSET Dates /\ DatesOf(x, a) \in SUBSET Nat
  BY DatesAreDates, PermitsAssumption
<1>2. CASE DatesOf(x, a) = {}
  BY <1>2 DEF EarliestOf
<1>3. CASE DatesOf(x, a) # {}
  <2>1. \E d \in DatesOf(x, a) : \A e \in DatesOf(x, a) : d <= e
    BY <1>1, <1>3, LeastExists
  <2>2. EarliestOf(x, a) = CHOOSE d \in DatesOf(x, a) : \A e \in DatesOf(x, a) : d <= e
    BY <1>3 DEF EarliestOf
  <2>3. /\ EarliestOf(x, a) \in DatesOf(x, a)
        /\ \A e \in DatesOf(x, a) : EarliestOf(x, a) <= e
    BY <2>1, <2>2
  <2>4. EarliestOf(x, a) # None
    BY <1>1, <2>3, NoneAssumption
  <2>5. QED
    BY <1>1, <1>3, <2>3, <2>4
<1>4. QED
  BY <1>2, <1>3

\* One parcel bears the APN exactly if the APN is its own and no other's.
LEMMA AloneIs ==
    ASSUME NEW p \in Parcels
    PROVE  Cardinality(Bearers(apn[p])) = 1 <=> \A q \in Parcels : apn[q] = apn[p] <=> q = p
<1>1. Bearers(apn[p]) \subseteq Parcels /\ p \in Bearers(apn[p])
  BY DEF Bearers
<1>2. IsFiniteSet(Bearers(apn[p]))
  BY <1>1, FS_Subset, PermitsAssumption
<1>3. Cardinality(Bearers(apn[p])) = 1 <=> \E q : Bearers(apn[p]) = {q}
  BY <1>2, FS_Singleton
<1>4. (\E q : Bearers(apn[p]) = {q}) <=> Bearers(apn[p]) = {p}
  BY <1>1
<1>5. QED
  BY <1>3, <1>4 DEF Bearers

\* What a load attributes to a parcel is the earliest of its dates if the
\* export mentions the parcel, and nothing otherwise.
LEMMA AttributedIs ==
    ASSUME NEW x \in Snapshots, ~Refused(x), NEW p \in Parcels, TypeOK
    PROVE  /\ Attributed(x)[p] # None <=> Mentioned(x, p)
           /\ Attributed(x)[p] # None =>
                  /\ Attributed(x)[p] \in Dates /\ Attributed(x)[p] \in DatesOf(x, apn[p])
                  /\ \A e \in DatesOf(x, apn[p]) : Attributed(x)[p] <= e
           /\ Attributed(x)[p] \in Dates \cup {None}
<1>1. Attributed(x)[p] = IF apn[p] # None /\ Cardinality(Bearers(apn[p])) = 1
                         THEN EarliestOf(x, apn[p]) ELSE None
  BY DEF Attributed
<1>2. Mentioned(x, p) <=> /\ apn[p] # None /\ Cardinality(Bearers(apn[p])) = 1
                          /\ DatesOf(x, apn[p]) # {}
  <2>1. \A r \in Named(x) : Canon[r.apn] \in Apns /\ Canon[r.apn] # None
    BY PermitsAssumption, NoneAssumption DEF Named, Rows
  <2>2. DatesOf(x, apn[p]) # {} <=> \E r \in Named(x) : Canon[r.apn] = apn[p]
    BY DEF DatesOf
  <2>3. ASSUME Mentioned(x, p)
        PROVE  /\ apn[p] # None /\ Cardinality(Bearers(apn[p])) = 1
               /\ DatesOf(x, apn[p]) # {}
    <3>1. PICK r \in Named(x) : \A q \in Parcels : apn[q] = Canon[r.apn] <=> q = p
      BY <2>3 DEF Mentioned
    <3>2. apn[p] = Canon[r.apn]
      BY <3>1
    <3>3. \A q \in Parcels : apn[q] = apn[p] <=> q = p
      BY <3>1, <3>2
    <3>4. QED
      BY <2>1, <2>2, <3>2, <3>3, AloneIs
  <2>4. ASSUME apn[p] # None, Cardinality(Bearers(apn[p])) = 1, DatesOf(x, apn[p]) # {}
        PROVE  Mentioned(x, p)
    <3>1. PICK r \in Named(x) : Canon[r.apn] = apn[p]
      BY <2>2, <2>4
    <3>2. \A q \in Parcels : apn[q] = apn[p] <=> q = p
      BY <2>4, AloneIs
    <3>3. QED
      BY <3>1, <3>2 DEF Mentioned
  <2>5. QED
    BY <2>3, <2>4
<1>3. QED
  BY <1>1, <1>2, EarliestIs, NoneAssumption

-----------------------------------------------------------------------------
(* What a commit does to the facts.                                        *)

Dies(f) == f \in Superseded(f.parcel, f.field)
After(f) == IF Dies(f) THEN [f EXCEPT !.live = FALSE] ELSE f
Born(g) == \E p \in Parcels, field \in Fields : g \in Written(p, field)

LEMMA CommitFacts ==
    ASSUME Commit, TypeInv
    PROVE  /\ \A g : Born(g) => g \in facts'
           /\ \A f \in facts : After(f) \in facts'
           /\ \A g \in facts' : Born(g) \/ \E f \in facts : g = After(f)
<1> DEFINE keys == Parcels \X Fields
           dead == UNION {Superseded(k[1], k[2]) : k \in keys}
           born == UNION {Written(k[1], k[2]) : k \in keys}
<1>1. facts' = {IF f \in dead THEN [f EXCEPT !.live = FALSE] ELSE f : f \in facts} \cup born
  BY DEF Commit
<1>2. ASSUME NEW f \in facts
      PROVE  f \in dead <=> Dies(f)
  <2>1. f.field \in Fields /\ f.parcel \in Parcels
    BY DEF TypeInv, TypeOK, Facts
  <2>2. \A p, field : f \in Superseded(p, field) => p = f.parcel /\ field = f.field
    BY DEF Superseded, LiveOf
  <2>3. f \in dead => Dies(f)
    <3>1. f \in dead => \E k \in keys : f \in Superseded(k[1], k[2])
      OBVIOUS
    <3>2. QED
      BY <2>2, <3>1 DEF Dies
  <2>4. ASSUME Dies(f)
        PROVE  f \in dead
    <3>1. <<f.parcel, f.field>> \in keys
      BY <2>1
    <3>2. f \in Superseded(<<f.parcel, f.field>>[1], <<f.parcel, f.field>>[2])
      BY <2>4 DEF Dies
    <3>3. QED
      BY <3>1, <3>2
  <2>5. QED
    BY <2>3, <2>4
<1>3. ASSUME NEW g
      PROVE  g \in born <=> Born(g)
  <2>1. g \in born => Born(g)
    <3>1. \A k \in keys : k[1] \in Parcels /\ k[2] \in Fields
      OBVIOUS
    <3>2. g \in born => \E k \in keys : g \in Written(k[1], k[2])
      OBVIOUS
    <3>3. QED
      BY <3>1, <3>2 DEF Born
  <2>2. ASSUME NEW p \in Parcels, NEW field \in Fields, g \in Written(p, field)
        PROVE  g \in born
    <3>1. <<p, field>> \in keys
      OBVIOUS
    <3>2. g \in Written(<<p, field>>[1], <<p, field>>[2])
      BY <2>2
    <3>3. QED
      BY <3>1, <3>2
  <2>3. QED
    BY <2>1, <2>2 DEF Born
<1> HIDE DEF dead, born
<1>4. \A f \in facts : After(f) = IF f \in dead THEN [f EXCEPT !.live = FALSE] ELSE f
  BY <1>2 DEF After
<1>5. QED
  BY <1>1, <1>3, <1>4

\* The value a load finds for a field.
LEMMA FreshIs ==
    ASSUME TypeInv, NEW p \in Parcels, NEW field \in Fields
    PROVE  /\ FreshValue(p, field) = IF loader.fresh[p] = None THEN None
                                     ELSE Wanted(loader.fresh[p], field)
           /\ FreshValue(p, field) = None <=> loader.fresh[p] = None
           /\ FreshValue(p, field) # None => FreshValue(p, field) \in Dates \cup {False, True}
<1>1. loader.fresh[p] \in Dates \cup {None} /\ Dates \subseteq Nat
  BY PermitsAssumption DEF TypeInv, LoaderType
<1>2. True # None
  BY NoneAssumption DEF True
<1>3. QED
  BY <1>1, <1>2, NoneAssumption DEF FreshValue, Wanted

LEMMA WrittenShape ==
    ASSUME TypeInv, NEW p \in Parcels, NEW field \in Fields, NEW g \in Written(p, field)
    PROVE  /\ g.parcel = p /\ g.field = field /\ g.live
           /\ g.val = FreshValue(p, field) /\ g.val # None
           /\ \A f \in LiveOf(p, field) : f.val # g.val
           /\ g.sup = None <=> LiveOf(p, field) = {}
           /\ g.sup # None => \E f \in LiveOf(p, field) : g.sup = f.run
           /\ g = [run |-> loads, parcel |-> p, field |-> field, val |-> FreshValue(p, field),
                   sup |-> g.sup, live |-> TRUE]
<1> DEFINE v == FreshValue(p, field)
           old == LiveOf(p, field)
           Fact(sup) == [run |-> loads, parcel |-> p, field |-> field, val |-> v,
                         sup |-> sup, live |-> TRUE]
<1>1. v # None /\ \A f \in old : f.val # v
  BY DEF Written
<1>2. g \in IF old = {} THEN {Fact(None)} ELSE {Fact(f.run) : f \in old}
  BY <1>1 DEF Written
<1>3. \A f \in old : f.run \in Nat
  BY DEF TypeInv, TypeOK, LiveOf, Facts
<1> HIDE DEF v, old
<1>4. CASE old = {}
  BY <1>1, <1>2, <1>4 DEF v, old
<1>5. CASE old # {}
  <2>1. PICK f \in old : g = Fact(f.run)
    BY <1>2, <1>5
  <2>2. f.run # None
    BY <1>3, NoneAssumption
  <2>3. QED
    BY <1>1, <1>5, <2>1, <2>2 DEF v, old
<1>6. QED
  BY <1>4, <1>5

\* A key the load finds another value for gets that value, as the successor of
\* what was live.
LEMMA WrittenFor ==
    ASSUME TypeInv, NEW p \in Parcels, NEW field \in Fields,
           FreshValue(p, field) # None,
           \A f \in LiveOf(p, field) : f.val # FreshValue(p, field)
    PROVE  /\ Written(p, field) # {}
           /\ \A f \in LiveOf(p, field) :
                  \E g \in Written(p, field) : g.sup = f.run
<1>1. Written(p, field) =
          IF LiveOf(p, field) = {}
          THEN {[run |-> loads, parcel |-> p, field |-> field, val |-> FreshValue(p, field),
                 sup |-> None, live |-> TRUE]}
          ELSE {[run |-> loads, parcel |-> p, field |-> field, val |-> FreshValue(p, field),
                 sup |-> f.run, live |-> TRUE] : f \in LiveOf(p, field)}
  BY DEF Written
<1>2. CASE LiveOf(p, field) = {}
  BY <1>1, <1>2
<1>3. ASSUME NEW f \in LiveOf(p, field)
      PROVE  \E g \in Written(p, field) : g.sup = f.run
  <2>1. [run |-> loads, parcel |-> p, field |-> field, val |-> FreshValue(p, field),
         sup |-> f.run, live |-> TRUE] \in Written(p, field)
    BY <1>1
  <2>2. QED
    BY <2>1
<1>4. QED
  BY <1>2, <1>3

LEMMA CommitFactsType ==
    ASSUME Commit, TypeInv
    PROVE  \A g \in facts' : g \in Facts
<1>1. \A f \in facts : f \in Facts /\ After(f) \in Facts
  BY DEF After, TypeInv, TypeOK, Facts
<1>2. ASSUME NEW g, Born(g)
      PROVE  g \in Facts
  <2>1. PICK p \in Parcels, field \in Fields : g \in Written(p, field)
    BY <1>2 DEF Born
  <2>2. loads \in Nat
    BY DEF TypeInv, TypeOK
  <2>3. FreshValue(p, field) \in Dates \cup {False, True}
    BY <2>1, WrittenShape, FreshIs
  <2>4. g.sup \in Nat \cup {None}
    <3>1. \A f \in LiveOf(p, field) : f.run \in Nat
      BY DEF TypeInv, TypeOK, LiveOf, Facts
    <3>2. QED
      BY <2>1, <3>1, WrittenShape
  <2>5. g = [run |-> loads, parcel |-> p, field |-> field, val |-> FreshValue(p, field),
             sup |-> g.sup, live |-> TRUE]
    BY <2>1, WrittenShape
  <2>6. [run |-> loads, parcel |-> p, field |-> field, val |-> FreshValue(p, field),
         sup |-> g.sup, live |-> TRUE] \in Facts
    BY <2>2, <2>3, <2>4 DEF Facts
  <2>7. QED
    BY <2>5, <2>6
<1>3. QED
  BY <1>1, <1>2, CommitFacts

-----------------------------------------------------------------------------
(* What it does to the exceptions.                                         *)

NewRows == {[run |-> loads, parcel |-> p, closed |-> 0, from |-> None] : p \in NewlyLost}
Table == exceptions \cup NewRows

\* What the relinking and the closing make of a row.
ClosedLike(e) == {c \in Table : c.closed # 0 /\ c.parcel = e.parcel}
LastLike(e) == CHOOSE c \in ClosedLike(e) : \A d \in ClosedLike(e) : d.closed <= c.closed
Relinks(e) == NewRows # {} /\ e.closed = 0 /\ e.from = None /\ ClosedLike(e) # {}
Link(e) == IF Relinks(e) THEN [e EXCEPT !.from = LastLike(e).run] ELSE e
Shut(e) == IF e.closed = 0 /\ e.parcel \in Confirmed THEN [e EXCEPT !.closed = loads] ELSE e

LEMMA CommitTable ==
    ASSUME Commit
    PROVE  exceptions' = {Shut(Link(e)) : e \in Table}
<1> DEFINE linked == IF NewRows = {} THEN exceptions ELSE Relink(Table)
<1>1. exceptions' = {IF e.closed = 0 /\ e.parcel \in Confirmed
                     THEN [e EXCEPT !.closed = loads] ELSE e : e \in linked}
  BY DEF Commit, CloseConfirmed, NewRows, Table
<1>2. linked = {Link(e) : e \in Table}
  <2>1. Relink(Table) =
            {IF e.closed = 0 /\ e.from = None /\ ClosedLike(e) # {}
             THEN [e EXCEPT !.from = LastLike(e).run] ELSE e : e \in Table}
    BY DEF Relink, LastLike, ClosedLike
  <2>2. CASE NewRows = {}
    BY <2>2 DEF Link, Relinks, Table
  <2>3. CASE NewRows # {}
    BY <2>1, <2>3 DEF Link, Relinks
  <2>4. QED
    BY <2>2, <2>3
<1> HIDE DEF linked
<1>3. exceptions' = {Shut(e) : e \in linked}
  BY <1>1 DEF Shut
<1>4. QED
  BY <1>2, <1>3

LEMMA NewlyLostType ==
    ASSUME TypeInv
    PROVE  NewlyLost \subseteq Parcels
BY DEF NewlyLost, Lost, TypeInv, LoaderType, Facts

LEMMA TableRow ==
    ASSUME TypeInv
    PROVE  \A e \in Table : e \in Exceptions /\ e.closed <= loads
<1>1. loads \in Nat /\ 0 <= loads
  BY DEF TypeInv, TypeOK
<1>2. \A e \in NewRows : e \in Exceptions /\ e.closed = 0
  BY <1>1, NewlyLostType DEF NewRows, Exceptions
<1>3. QED
  BY <1>1, <1>2 DEF Table, TypeInv, TypeOK

LEMMA OutRow ==
    ASSUME TypeInv, NEW e \in Table
    PROVE  /\ Shut(Link(e)) \in Exceptions /\ Shut(Link(e)).parcel = e.parcel
           /\ Shut(Link(e)).closed =
                  IF e.closed = 0 /\ e.parcel \in Confirmed THEN loads ELSE e.closed
           /\ Shut(Link(e)).closed <= loads
           /\ ~Relinks(e) /\ (e.closed # 0 \/ e.parcel \notin Confirmed) => Shut(Link(e)) = e
<1>1. e \in Exceptions /\ e.closed <= loads /\ loads \in Nat /\ loads <= loads
  BY TableRow DEF TypeInv, TypeOK
<1>2. Link(e) \in Exceptions /\ Link(e).parcel = e.parcel /\ Link(e).closed = e.closed
  <2>1. CASE Relinks(e)
    <3>1. \A c \in ClosedLike(e) : c.closed \in Nat /\ c.closed <= loads /\ c.run \in Nat
      BY TableRow DEF ClosedLike, Exceptions
    <3>2. \E c \in ClosedLike(e) : \A d \in ClosedLike(e) : d.closed <= c.closed
      BY <1>1, <2>1, <3>1, LastExists DEF Relinks
    <3>3. LastLike(e) \in ClosedLike(e)
      BY <3>2 DEF LastLike
    <3>4. LastLike(e).run \in Nat
      BY <3>1, <3>3
    <3>5. QED
      BY <1>1, <2>1, <3>4 DEF Link, Exceptions
  <2>2. CASE ~Relinks(e)
    BY <1>1, <2>2 DEF Link
  <2>3. QED
    BY <2>1, <2>2
<1>3. ~Relinks(e) => Link(e) = e
  BY DEF Link
<1>4. QED
  BY <1>1, <1>2, <1>3 DEF Shut, Exceptions

\* A commit raises what is lost and closes what is confirmed, and keeps one
\* open row for each parcel.
LEMMA OpenAfter ==
    ASSUME Commit, TypeInv
    PROVE  /\ OpenParcels' = (OpenParcels \cup Lost) \ Confirmed
           /\ \A e, f \in exceptions' :
                  e.closed = 0 /\ f.closed = 0 /\ e.parcel = f.parcel => e = f
<1>1. loads # 0
  BY DEF Commit, At, TypeInv
<1>2. ASSUME NEW e \in Table
      PROVE  Shut(Link(e)).closed = 0 <=> e.closed = 0 /\ e.parcel \notin Confirmed
  BY <1>1, OutRow
<1>3. {e.parcel : e \in {e \in Table : e.closed = 0}} = OpenParcels \cup Lost
  <2>1. NewlyLost = Lost \ OpenParcels
    BY DEF NewlyLost, OpenParcels
  <2>2. ASSUME NEW q
        PROVE  (\E e \in NewRows : e.closed = 0 /\ e.parcel = q) <=> q \in NewlyLost
    <3> DEFINE row == [run |-> loads, parcel |-> q, closed |-> 0, from |-> None]
    <3>1. row \in NewRows <=> q \in NewlyLost
      BY DEF NewRows
    <3>2. row.closed = 0 /\ row.parcel = q
      OBVIOUS
    <3>3. \A e \in NewRows : e.parcel = q => q \in NewlyLost
      BY DEF NewRows
    <3> HIDE DEF row
    <3>4. QED
      BY <3>1, <3>2, <3>3
  <2>3. \A q : (\E e \in exceptions : e.closed = 0 /\ e.parcel = q) <=> q \in OpenParcels
    BY DEF OpenParcels
  <2>4. \A q : (\E e \in Table : e.closed = 0 /\ e.parcel = q) <=> q \in OpenParcels \cup Lost
    BY <2>1, <2>2, <2>3 DEF Table
  <2>5. QED
    BY <2>4
<1>4. \A q : q \in OpenParcels' <=> \E e \in exceptions' : e.closed = 0 /\ e.parcel = q
  BY DEF OpenParcels
<1>5. \A q : q \in OpenParcels' <=>
                 \E e \in Table : e.closed = 0 /\ e.parcel = q /\ q \notin Confirmed
  BY <1>2, <1>4, CommitTable, OutRow
<1>6. OpenParcels' = (OpenParcels \cup Lost) \ Confirmed
  BY <1>3, <1>5
<1>7. \A e, f \in Table : e.closed = 0 /\ f.closed = 0 /\ e.parcel = f.parcel => e = f
  <2>1. \A e \in NewRows : \A f \in exceptions : f.closed = 0 => f.parcel # e.parcel
    BY DEF NewRows, NewlyLost
  <2>2. \A e, f \in NewRows : e.parcel = f.parcel => e = f
    BY DEF NewRows
  <2>3. \A e, f \in exceptions : e.closed = 0 /\ f.closed = 0 /\ e.parcel = f.parcel => e = f
    BY DEF TypeInv, TypeOK
  <2>4. QED
    BY <2>1, <2>2, <2>3 DEF Table
<1>8. ASSUME NEW e \in exceptions', NEW f \in exceptions',
             e.closed = 0, f.closed = 0, e.parcel = f.parcel
      PROVE  e = f
  <2>1. PICK x \in Table : e = Shut(Link(x))
    BY CommitTable
  <2>2. PICK y \in Table : f = Shut(Link(y))
    BY CommitTable
  <2>3. x.closed = 0 /\ y.closed = 0 /\ x.parcel = y.parcel
    BY <1>2, <1>8, <2>1, <2>2, OutRow
  <2>4. QED
    BY <1>7, <2>1, <2>2, <2>3
<1>9. QED
  BY <1>6, <1>8

-----------------------------------------------------------------------------
(* Types.                                                                  *)

LEMMA NoLoadType ==
    /\ NoLoad \in LoaderType
    /\ NoLoad.pc = "idle" /\ NoLoad.live = {} /\ NoLoad.calm
BY DEF NoLoad, LoaderType

LEMMA TypeInit ==
    ASSUME Init
    PROVE  TypeInv
<1>1. \A f \in facts : f \in Facts
  BY InitFactsAssumption DEF Init
<1>2. TypeOK
  BY <1>1, NoLoadType, BoundsAssumption, PermitsAssumption DEF Init, TypeOK
<1>3. QED
  BY <1>2, NoLoadType DEF Init, TypeInv

LEMMA AttributeIs ==
    ASSUME TypeInv, Attribute
    PROVE  /\ loader' \in LoaderType /\ loader.pc = "parsing" /\ loader'.pc = "attributed"
           /\ ~Refused(loader.snap) /\ loader'.fresh = Attributed(loader.snap)
           /\ loader'.snap = loader.snap /\ loader'.live = loader.live
<1>1. /\ loader.pc = "parsing" /\ ~Refused(loader.snap)
      /\ loader' = [loader EXCEPT !.pc = "attributed", !.fresh = Attributed(loader.snap)]
  BY DEF Attribute, At
<1>2. loader.snap \in Snapshots
  BY <1>1 DEF TypeInv
<1>3. Attributed(loader.snap) \in [Parcels -> Dates \cup {None}]
  <2>1. \A p \in Parcels : Attributed(loader.snap)[p] \in Dates \cup {None}
    BY <1>1, <1>2, AttributedIs DEF TypeInv
  <2>2. Attributed(loader.snap) = [p \in Parcels |-> Attributed(loader.snap)[p]]
    BY DEF Attributed
  <2>3. QED
    BY <2>1, <2>2
<1>4. QED
  BY <1>1, <1>3 DEF TypeInv, LoaderType

LEMMA TypeNext ==
    ASSUME TypeInv, [Next]_vars
    PROVE  TypeInv'
<1>1. CASE UNCHANGED vars
  BY <1>1 DEF vars, TypeInv, TypeOK, Refused, Named
<1>2. ASSUME NEW p \in Parcels, NEW a \in Apns \cup {None}, Renumber(p, a)
      PROVE  TypeInv'
  <2>1. apn' \in [Parcels -> Apns \cup {None}] /\ moves' \in 0..MaxMoves
    BY <1>2, BoundsAssumption DEF Renumber, TypeInv, TypeOK
  <2>2. /\ loader' \in LoaderType /\ loader'.pc = loader.pc /\ loader'.snap = loader.snap
        /\ loader'.live = loader.live
    BY <1>2 DEF Renumber, TypeInv, LoaderType
  <2>3. TypeOK'
    BY <1>2, <2>1, <2>2 DEF Renumber, TypeInv, TypeOK
  <2>4. QED
    BY <1>2, <2>2, <2>3 DEF Renumber, TypeInv, Refused, Named
<1>3. ASSUME NEW x \in Snapshots, Begin(x)
      PROVE  TypeInv'
  <2>1. loads' \in 0..MaxLoads /\ loads' # 0 /\ loads + 1 \in 1..MaxLoads /\ loads \in Nat
    BY <1>3, BoundsAssumption DEF Begin, TypeInv, TypeOK
  <2>2. loader' \in LoaderType /\ loader'.pc = "parsing" /\ loader'.snap = x /\ loader'.live = {}
    BY <1>3, NoLoadType DEF Begin, LoaderType, NoLoad
  <2>3. job' \in [1..MaxLoads -> {"none", "running", "succeeded", "failed"}]
    BY <1>3, <2>1 DEF Begin, TypeInv, TypeOK
  <2>4. TypeOK'
    BY <1>3, <2>1, <2>2, <2>3 DEF Begin, TypeInv, TypeOK
  <2>5. \A e \in exceptions' : e.closed <= loads'
    <3>1. \A e \in exceptions : e.closed \in Nat /\ e.closed <= loads
      BY DEF TypeInv, TypeOK, Exceptions
    <3>2. loads' = loads + 1 /\ exceptions' = exceptions
      BY <1>3 DEF Begin
    <3>3. QED
      BY <2>1, <3>1, <3>2
  <2>6. QED
    BY <2>1, <2>2, <2>4, <2>5 DEF TypeInv
<1>4. CASE Attribute
  <2>1. UNCHANGED <<apn, facts, exceptions, job, loads, moves, settled>>
    BY <1>4 DEF Attribute
  <2>2. TypeOK'
    BY <1>4, <2>1, AttributeIs DEF TypeInv, TypeOK
  <2>3. QED
    BY <1>4, <2>1, <2>2, AttributeIs DEF TypeInv, Refused, Named
<1>5. CASE ReadLive
  <2>1. UNCHANGED <<apn, facts, exceptions, job, loads, moves, settled>>
    BY <1>5 DEF ReadLive
  <2>2. /\ loader' \in LoaderType /\ loader.pc = "attributed" /\ loader'.pc = "read"
        /\ loader'.snap = loader.snap /\ loader'.live = Live /\ Live \subseteq facts
    BY <1>5 DEF ReadLive, At, TypeInv, TypeOK, LoaderType, Live
  <2>3. TypeOK'
    BY <2>1, <2>2 DEF TypeInv, TypeOK
  <2>4. QED
    BY <2>1, <2>2, <2>3 DEF TypeInv, Refused, Named
<1>6. CASE Commit
  <2>1. /\ loader' = NoLoad /\ UNCHANGED <<apn, loads, moves>>
        /\ job' \in [1..MaxLoads -> {"none", "running", "succeeded", "failed"}]
    BY <1>6 DEF Commit, TypeInv, TypeOK
  <2>2. \A e \in exceptions' : e \in Exceptions /\ e.closed <= loads
    BY <1>6, CommitTable, OutRow
  <2>3. \A e, f \in exceptions' :
            e.closed = 0 /\ f.closed = 0 /\ e.parcel = f.parcel => e = f
    BY <1>6, OpenAfter
  <2>4. TypeOK'
    BY <1>6, <2>1, <2>2, <2>3, CommitFactsType, NoLoadType DEF TypeInv, TypeOK
  <2>5. QED
    BY <2>1, <2>2, <2>4, NoLoadType DEF TypeInv
<1>7. CASE Fail \/ Crash
  <2>1. /\ loader' = NoLoad
        /\ UNCHANGED <<apn, facts, exceptions, loads, moves>>
        /\ job' \in [1..MaxLoads -> {"none", "running", "succeeded", "failed"}]
    BY <1>7 DEF Fail, Crash, TypeInv, TypeOK
  <2>2. TypeOK'
    BY <2>1, NoLoadType DEF TypeInv, TypeOK
  <2>3. QED
    BY <2>1, <2>2, NoLoadType DEF TypeInv
<1>8. QED
  BY <1>1, <1>2, <1>3, <1>4, <1>5, <1>6, <1>7 DEF Next

-----------------------------------------------------------------------------
(* What a commit leaves behind.                                            *)

\* The live values of a key are the value the load found, or those it had.
LEMMA LiveAfter ==
    ASSUME TypeInv, ReadInv, Commit, NEW p \in Parcels, NEW field \in Fields
    PROVE  \A v : HasLive(p, field, v)' <=>
                      IF loader.fresh[p] # None THEN v = Wanted(loader.fresh[p], field)
                      ELSE HasLive(p, field, v)
<1> DEFINE d == FreshValue(p, field)
<1>1. loader.live = Live /\ \A f \in facts : f \in Facts
  BY DEF ReadInv, Commit, At, TypeInv, TypeOK
<1>2. /\ d # None => d = Wanted(loader.fresh[p], field)
      /\ d = None <=> loader.fresh[p] = None
  BY FreshIs
<1> HIDE DEF d
<1>3. \A v : HasLive(p, field, v) <=> \E f \in LiveOf(p, field) : f.val = v
  BY <1>1 DEF HasLive, LiveOf
<1>4. \A f \in LiveOf(p, field) : /\ Dies(f) <=> d # None /\ f.val # d
                                  /\ f \in facts /\ f.live /\ f.parcel = p /\ f.field = field
  BY <1>1 DEF LiveOf, Live, Dies, Superseded, d
<1>5. ASSUME NEW f \in facts'
      PROVE  f.live /\ f.parcel = p /\ f.field = field =>
                 \/ d # None /\ f.val = d
                 \/ d = None /\ f \in LiveOf(p, field)
  <2>1. CASE Born(f)
    <3>1. PICK q \in Parcels, other \in Fields : f \in Written(q, other)
      BY <2>1 DEF Born
    <3>2. f.parcel = q /\ f.field = other /\ f.val = FreshValue(q, other) /\ f.val # None
      BY <3>1, WrittenShape
    <3>3. QED
      BY <3>2 DEF d
  <2>2. ASSUME NEW g \in facts, f = After(g), f.live, f.parcel = p, f.field = field
        PROVE  \/ d # None /\ f.val = d
               \/ d = None /\ f \in LiveOf(p, field)
    <3>1. g.live /\ ~Dies(g) /\ f = g
      BY <1>1, <2>2 DEF After, Facts
    <3>2. g \in LiveOf(p, field)
      BY <1>1, <2>2, <3>1 DEF LiveOf, Live
    <3>3. QED
      BY <1>4, <3>1, <3>2
  <2>3. QED
    BY <2>1, <2>2, CommitFacts
<1>6. \A f \in LiveOf(p, field) : ~Dies(f) => f \in facts'
  BY <1>4, CommitFacts DEF After
<1>7. \A v : HasLive(p, field, v)' <=>
                 \E f \in facts' : f.live /\ f.parcel = p /\ f.field = field /\ f.val = v
  BY DEF HasLive, Live
<1>8. CASE d = None
  <2>1. \A v : HasLive(p, field, v)' <=> HasLive(p, field, v)
    BY <1>3, <1>4, <1>5, <1>6, <1>7, <1>8
  <2>2. QED
    BY <1>2, <1>8, <2>1
<1>9. CASE d # None
  <2>1. \E f \in facts' : f.live /\ f.parcel = p /\ f.field = field /\ f.val = d
    <3>1. CASE \E f \in LiveOf(p, field) : f.val = d
      BY <1>4, <1>6, <3>1
    <3>2. CASE ~ \E f \in LiveOf(p, field) : f.val = d
      <4>1. PICK g : g \in Written(p, field)
        BY <1>9, <3>2, WrittenFor DEF d
      <4>2. g \in facts' /\ g.live /\ g.parcel = p /\ g.field = field /\ g.val = d
        BY <4>1, WrittenShape, CommitFacts DEF Born, d
      <4>3. QED
        BY <4>2
    <3>3. QED
      BY <3>1, <3>2
  <2>2. \A v : HasLive(p, field, v)' <=> v = d
    BY <1>5, <1>7, <1>9, <2>1
  <2>3. QED
    BY <1>2, <1>9, <2>2
<1>10. QED
  BY <1>8, <1>9

LEMMA IsLiveIs ==
    ASSUME TypeOK, NEW p \in Parcels
    PROVE  IsLive(p) <=> \E field \in Fields : \E v : HasLive(p, field, v)
BY DEF IsLive, HasLive, Live, TypeOK, Facts

\* A parcel with live facts keeps some, and one the load has a date for gets them.
LEMMA IsLiveAfter ==
    ASSUME TypeInv, TypeInv', ReadInv, Commit, NEW p \in Parcels
    PROVE  IsLive(p)' <=> IsLive(p) \/ loader.fresh[p] # None
<1>1. IsLive(p)' <=> \E field \in Fields : \E v : HasLive(p, field, v)'
  BY DEF IsLive, HasLive, Live, TypeInv, TypeOK, Facts
<1>2. IsLive(p) <=> \E field \in Fields : \E v : HasLive(p, field, v)
  BY IsLiveIs DEF TypeInv
<1>3. "active" \in Fields
  BY DEF Fields
<1>4. CASE loader.fresh[p] # None
  BY <1>1, <1>3, <1>4, LiveAfter
<1>5. CASE loader.fresh[p] = None
  BY <1>1, <1>2, <1>5, LiveAfter
<1>6. QED
  BY <1>4, <1>5

LEMMA LostIs ==
    ASSUME TypeInv, ReadInv, Commit
    PROVE  /\ Lost = {p \in Parcels : IsLive(p) /\ loader.fresh[p] = None}
           /\ Confirmed = {p \in Parcels : IsLive(p) /\ loader.fresh[p] # None}
<1>1. loader.live = Live /\ \A f \in Live : f.parcel \in Parcels
  BY DEF ReadInv, Commit, At, TypeInv, TypeOK, Live, Facts
<1>2. QED
  BY <1>1 DEF Lost, Confirmed, IsLive

LEMMA RowsNext ==
    ASSUME TypeInv, TypeInv', RowsInv, ReadInv, Commit
    PROVE  RowsInv'
<1>1. loader.live = Live /\ \A f \in facts : f \in Facts
  BY DEF ReadInv, Commit, At, TypeInv, TypeOK
<1>2. ASSUME NEW f \in facts'
      PROVE  \/ f \in facts /\ ~Dies(f)
             \/ ~f.live
             \/ f.parcel \in Parcels /\ f.field \in Fields /\ f \in Written(f.parcel, f.field)
  <2>1. CASE Born(f)
    BY <2>1, WrittenShape DEF Born
  <2>2. ASSUME NEW g \in facts, f = After(g)
        PROVE  (f \in facts /\ ~Dies(f)) \/ ~f.live
    BY <1>1, <2>2 DEF After, Facts
  <2>3. QED
    BY <2>1, <2>2, CommitFacts
<1>3. ASSUME NEW f \in facts, f.live, ~Dies(f), NEW g, g.parcel \in Parcels, g.field \in Fields,
             g \in Written(g.parcel, g.field), SameKey(f, g)
      PROVE  FALSE
  <2>1. f \in LiveOf(g.parcel, g.field)
    BY <1>1, <1>3 DEF LiveOf, Live, SameKey
  <2>2. f.val # g.val /\ g.val = FreshValue(g.parcel, g.field) /\ g.val # None
    BY <1>3, <2>1, WrittenShape
  <2>3. QED
    BY <1>3, <2>1, <2>2 DEF Dies, Superseded, SameKey
<1>4. ASSUME NEW p \in Parcels, NEW field \in Fields,
             NEW f \in Written(p, field), NEW g \in Written(p, field)
      PROVE  f = g
  <2>1. \A x, y \in LiveOf(p, field) : x = y
    BY <1>1 DEF LiveOf, Live, RowsInv, SameKey
  <2>2. f.sup = g.sup
    BY <2>1, WrittenShape
  <2>3. f = [run |-> loads, parcel |-> p, field |-> field, val |-> FreshValue(p, field),
             sup |-> f.sup, live |-> TRUE]
    BY WrittenShape
  <2>4. g = [run |-> loads, parcel |-> p, field |-> field, val |-> FreshValue(p, field),
             sup |-> g.sup, live |-> TRUE]
    BY WrittenShape
  <2>5. QED
    BY <2>2, <2>3, <2>4
<1>5. ASSUME NEW f \in facts', NEW g \in facts', SameKey(f, g), f.live, g.live
      PROVE  f = g
  <2>1. CASE f \in facts /\ ~Dies(f) /\ g \in facts /\ ~Dies(g)
    BY <1>5, <2>1 DEF RowsInv
  <2>2. CASE f \in facts /\ ~Dies(f) /\ ~(g \in facts /\ ~Dies(g))
    BY <1>2, <1>3, <1>5, <2>2
  <2>3. CASE ~(f \in facts /\ ~Dies(f)) /\ g \in facts /\ ~Dies(g)
    BY <1>2, <1>3, <1>5, <2>3 DEF SameKey
  <2>4. CASE ~(f \in facts /\ ~Dies(f)) /\ ~(g \in facts /\ ~Dies(g))
    BY <1>2, <1>4, <1>5, <2>4 DEF SameKey
  <2>5. QED
    BY <2>1, <2>2, <2>3, <2>4
<1>6. ASSUME NEW e \in exceptions', e.closed = 0
      PROVE  IsLive(e.parcel)'
  <2>1. e.parcel \in (OpenParcels \cup Lost) \ Confirmed
    BY <1>6, OpenAfter DEF OpenParcels
  <2>2. e.parcel \in Parcels
    BY DEF TypeInv, TypeOK, Exceptions
  <2>3. \A q \in OpenParcels : IsLive(q)
    BY DEF OpenParcels, RowsInv
  <2>4. IsLive(e.parcel)
    BY <2>1, <2>3, LostIs
  <2>5. QED
    BY <2>2, <2>4, IsLiveAfter
<1>7. QED
  BY <1>5, <1>6 DEF RowsInv, SameKey

LEMMA SettledNext ==
    ASSUME TypeInv, TypeInv', RowsInv, ReadInv, Commit
    PROVE  SettledInv'
<1>1. SUFFICES ASSUME settled' # None
               PROVE  /\ settled' \in Snapshots /\ ~Refused(settled')
                      /\ \A p \in Parcels : Attributed(settled')[p] # None =>
                             \A field \in Fields : \A v :
                                 HasLive(p, field, v)' <=> v = Wanted(Attributed(settled')[p], field)
                      /\ OpenParcels' = {p \in Parcels : IsLive(p)' /\ Attributed(settled')[p] = None}
  <2>1. \A x : Attributed(x)' = Attributed(x)
    BY DEF Attributed, Bearers, Commit, EarliestOf, DatesOf, Named
  <2>2. QED
    BY <2>1 DEF SettledInv, Refused, Named, Wanted
<1>2. /\ loader.pc = "read" /\ loader.calm /\ settled' = loader.snap
      /\ loader.snap \in Snapshots /\ ~Refused(loader.snap)
      /\ loader.fresh = Attributed(loader.snap)
  BY <1>1 DEF Commit, At, TypeInv, ReadInv
<1>3. \A p \in Parcels : Attributed(settled')[p] # None =>
          \A field \in Fields : \A v :
              HasLive(p, field, v)' <=> v = Wanted(Attributed(settled')[p], field)
  BY <1>2, LiveAfter
<1>4. OpenParcels \subseteq {p \in Parcels : IsLive(p)}
  BY DEF OpenParcels, RowsInv, TypeInv, TypeOK, Exceptions
<1>5. OpenParcels' = {p \in Parcels : IsLive(p) /\ loader.fresh[p] = None}
  BY <1>4, OpenAfter, LostIs
<1>6. \A p \in Parcels : IsLive(p)' <=> IsLive(p) \/ loader.fresh[p] # None
  BY IsLiveAfter
<1>7. OpenParcels' = {p \in Parcels : IsLive(p)' /\ loader.fresh[p] = None}
  BY <1>5, <1>6
<1>8. QED
  BY <1>2, <1>3, <1>7

\* Outside a commit neither the facts nor the exceptions change.
LEMMA OnlyCommitWrites ==
    ASSUME [Next]_vars
    PROVE  UNCHANGED <<facts, exceptions>> \/ Commit
BY DEF Next, Renumber, Begin, Attribute, ReadLive, Fail, Crash, vars

LEMMA AttributedStays ==
    ASSUME UNCHANGED apn, NEW x
    PROVE  Attributed(x)' = Attributed(x)
BY DEF Attributed, Bearers, EarliestOf, DatesOf, Named

LEMMA ReadNext ==
    ASSUME TypeInv, TypeInv', ReadInv, [Next]_vars
    PROVE  ReadInv'
<1>1. CASE UNCHANGED vars
  BY <1>1, AttributedStays DEF vars, ReadInv, Live
<1>2. ASSUME NEW p \in Parcels, NEW a \in Apns \cup {None}, Renumber(p, a)
      PROVE  ReadInv'
  BY <1>2 DEF Renumber, ReadInv, Live, TypeInv, LoaderType
<1>3. ASSUME NEW x \in Snapshots, Begin(x)
      PROVE  ReadInv'
  BY <1>3 DEF Begin, ReadInv, NoLoad
<1>4. CASE Attribute
  <2>1. /\ loader'.pc = "attributed" /\ loader'.snap = loader.snap
        /\ loader'.fresh = Attributed(loader.snap) /\ UNCHANGED apn
    BY <1>4, AttributeIs DEF Attribute
  <2>2. Attributed(loader.snap)' = Attributed(loader.snap)
    BY <2>1 DEF Attributed, Bearers, EarliestOf, DatesOf, Named
  <2>3. QED
    BY <2>1, <2>2 DEF ReadInv
<1>5. CASE ReadLive
  <2>1. /\ loader'.pc = "read" /\ loader'.live = Live /\ loader'.calm = loader.calm
        /\ loader'.snap = loader.snap /\ loader'.fresh = loader.fresh
        /\ loader.pc = "attributed" /\ UNCHANGED <<apn, facts>>
    BY <1>5 DEF ReadLive, At, TypeInv, LoaderType
  <2>2. Attributed(loader.snap)' = Attributed(loader.snap)
    BY <2>1 DEF Attributed, Bearers, EarliestOf, DatesOf, Named
  <2>3. QED
    BY <2>1, <2>2 DEF ReadInv, Live
<1>6. CASE Commit \/ Fail \/ Crash
  <2>1. loader' = NoLoad
    BY <1>6 DEF Commit, Fail, Crash
  <2>2. QED
    BY <2>1 DEF ReadInv, NoLoad
<1>7. QED
  BY <1>1, <1>2, <1>3, <1>4, <1>5, <1>6 DEF Next

\* Without a commit a settled state stays one, until an APN changes.
LEMMA SettledStays ==
    ASSUME SettledInv, [Next]_vars, ~Commit
    PROVE  SettledInv'
<1>1. settled' = None \/ UNCHANGED <<apn, facts, exceptions, settled>>
  BY DEF Next, Renumber, Begin, Attribute, ReadLive, Fail, Crash, vars
<1>2. CASE settled' = None
  BY <1>2 DEF SettledInv
<1>3. CASE UNCHANGED <<apn, facts, exceptions, settled>>
  <2>1. \A x : Attributed(x)' = Attributed(x)
    BY <1>3, AttributedStays
  <2>2. \A p : IsLive(p)' <=> IsLive(p)
    BY <1>3 DEF IsLive, Live
  <2>3. \A p, field, v : HasLive(p, field, v)' <=> HasLive(p, field, v)
    BY <1>3 DEF HasLive, Live
  <2>4. OpenParcels' = OpenParcels /\ settled' = settled
    BY <1>3 DEF OpenParcels
  <2>5. QED
    BY <2>1, <2>2, <2>3, <2>4 DEF SettledInv, Refused, Named, Wanted
<1>4. QED
  BY <1>1, <1>2, <1>3

LEMMA LoadInit ==
    ASSUME Init
    PROVE  LoadInv
<1>1. TypeInv
  BY TypeInit
<1>2. RowsInv
  <2>1. exceptions = {} /\ \A f, g \in facts : f.parcel = g.parcel /\ f.field = g.field => f = g
    BY InitFactsAssumption DEF Init
  <2>2. QED
    BY <2>1 DEF RowsInv, SameKey
<1>3. ReadInv /\ SettledInv
  BY DEF Init, ReadInv, SettledInv, NoLoad
<1>4. QED
  BY <1>1, <1>2, <1>3 DEF LoadInv

LEMMA LoadNext ==
    ASSUME LoadInv, [Next]_vars
    PROVE  LoadInv'
<1>1. TypeInv' /\ ReadInv'
  BY TypeNext, ReadNext DEF LoadInv
<1>2. CASE Commit
  BY <1>1, <1>2, RowsNext, SettledNext DEF LoadInv
<1>3. CASE ~Commit
  <2>1. RowsInv'
    BY <1>3, OnlyCommitWrites DEF LoadInv, RowsInv, IsLive, Live, SameKey
  <2>2. QED
    BY <1>1, <1>3, <2>1, SettledStays DEF LoadInv
<1>4. QED
  BY <1>2, <1>3

LEMMA LoadInvHolds == Spec => []LoadInv
<1>1. Init => LoadInv
  BY LoadInit
<1>2. LoadInv /\ [Next]_vars => LoadInv'
  BY LoadNext
<1>3. QED
  BY <1>1, <1>2, PTL DEF Spec

-----------------------------------------------------------------------------
(* The theorems.                                                           *)

\* The tables keep their shape, and a parcel has one open exception at most
\* (the select-then-insert of permit_attribution_lost raises no second one).
THEOREM TypesHold == Spec => []TypeOK
<1>1. LoadInv => TypeOK
  BY DEF LoadInv, TypeInv
<1>2. QED
  BY <1>1, LoadInvHolds, PTL

\* After a load nothing disturbed, a parcel the export mentions is active since
\* the earliest of its dates, whatever a former load or an older program left.
THEOREM FactsMatchExportHolds == Spec => []FactsMatchExport
<1>1. ASSUME LoadInv, settled # None, NEW p \in Parcels, Mentioned(settled, p)
      PROVE  /\ HasLive(p, "active", True) /\ ~HasLive(p, "active", False)
             /\ \A d \in Dates : HasLive(p, "earliest", d) =>
                    /\ d \in DatesOf(settled, apn[p])
                    /\ \A e \in DatesOf(settled, apn[p]) : d <= e
             /\ \E d \in Dates : HasLive(p, "earliest", d)
  <2> DEFINE date == Attributed(settled)[p]
  <2>1. settled \in Snapshots /\ ~Refused(settled) /\ TypeOK
    BY <1>1 DEF LoadInv, SettledInv, TypeInv
  <2>2. /\ date # None /\ date \in Dates /\ date \in DatesOf(settled, apn[p])
        /\ \A e \in DatesOf(settled, apn[p]) : date <= e
    BY <1>1, <2>1, AttributedIs
  <2>3. \A field \in Fields : \A v : HasLive(p, field, v) <=> v = Wanted(date, field)
    BY <1>1, <2>2 DEF LoadInv, SettledInv
  <2> HIDE DEF date
  <2>4. \A v : HasLive(p, "active", v) <=> v = True
    BY <2>3 DEF Fields, Wanted
  <2>5. \A v : HasLive(p, "earliest", v) <=> v = date
    BY <2>3 DEF Fields, Wanted
  <2>6. True # False
    BY DEF True, False
  <2>7. QED
    BY <2>2, <2>4, <2>5, <2>6
<1>2. LoadInv => FactsMatchExport
  BY <1>1 DEF FactsMatchExport
<1>3. QED
  BY <1>2, LoadInvHolds, PTL

\* After such a load the open permit_attribution_lost exceptions are those of
\* the parcels with live permits facts the export does not mention (C2).
THEOREM LostIsOpenHolds == Spec => []LostIsOpen
<1>1. ASSUME LoadInv, settled # None
      PROVE  OpenParcels = {p \in Parcels : IsLive(p) /\ ~Mentioned(settled, p)}
  <2>1. settled \in Snapshots /\ ~Refused(settled) /\ TypeOK
    BY <1>1 DEF LoadInv, SettledInv, TypeInv
  <2>2. \A p \in Parcels : Attributed(settled)[p] = None <=> ~Mentioned(settled, p)
    BY <2>1, AttributedIs
  <2>3. OpenParcels = {p \in Parcels : IsLive(p) /\ Attributed(settled)[p] = None}
    BY <1>1 DEF LoadInv, SettledInv
  <2>4. QED
    BY <2>2, <2>3
<1>2. LoadInv => LostIsOpen
  BY <1>1 DEF LostIsOpen, OpenParcels
<1>3. QED
  BY <1>2, LoadInvHolds, PTL

\* A permits fact dies only by a successor of another value: absence from an
\* export, a blank or an ambiguous APN never retires one (C2).
THEOREM NeverRetiredHolds == Spec => NeverRetired
<1>1. ASSUME LoadInv, [Next]_vars, NEW f \in Live
      PROVE  \/ f \in facts'
             \/ \E g \in facts' : g.parcel = f.parcel /\ g.field = f.field /\ g.live
                                  /\ g.sup = f.run /\ g.val # f.val
  <2>1. f \in facts /\ f.live /\ f.parcel \in Parcels /\ f.field \in Fields
    BY <1>1 DEF Live, LoadInv, TypeInv, TypeOK, Facts
  <2>2. CASE UNCHANGED facts
    BY <2>1, <2>2
  <2>3. ASSUME Commit, ~Dies(f)
        PROVE  f \in facts'
    BY <1>1, <2>1, <2>3, CommitFacts DEF LoadInv, After
  <2>4. ASSUME Commit, Dies(f)
        PROVE  \E g \in facts' : g.parcel = f.parcel /\ g.field = f.field /\ g.live
                                 /\ g.sup = f.run /\ g.val # f.val
    <3> DEFINE v == FreshValue(f.parcel, f.field)
    <3>1. TypeInv /\ f \in LiveOf(f.parcel, f.field) /\ v # None /\ f.val # v
      BY <1>1, <2>4 DEF Dies, Superseded, LoadInv
    <3>2. \A h \in LiveOf(f.parcel, f.field) : h = f
      <4>1. loader.live = Live
        BY <1>1, <2>4 DEF LoadInv, ReadInv, Commit, At
      <4>2. QED
        BY <1>1, <2>1, <4>1 DEF LiveOf, Live, LoadInv, RowsInv, SameKey
    <3>3. \A h \in LiveOf(f.parcel, f.field) : h.val # v
      BY <3>1, <3>2
    <3>4. PICK g \in Written(f.parcel, f.field) : g.sup = f.run
      BY <2>1, <3>1, <3>3, WrittenFor
    <3>5. g.parcel = f.parcel /\ g.field = f.field /\ g.live /\ g.val = v
      BY <2>1, <3>1, <3>4, WrittenShape
    <3>6. g \in facts'
      BY <2>1, <2>4, <3>1, <3>4, CommitFacts DEF Born
    <3>7. QED
      BY <3>1, <3>4, <3>5, <3>6
  <2>5. QED
    BY <1>1, <2>2, <2>3, <2>4, OnlyCommitWrites
<1>2. LoadInv /\ [Next]_vars =>
          [\A f \in Live : f \in facts'
               \/ \E g \in facts' : g.parcel = f.parcel /\ g.field = f.field /\ g.live
                                    /\ g.sup = f.run /\ g.val # f.val]_vars
  BY <1>1
<1>3. QED
  BY <1>2, LoadInvHolds, PTL DEF Spec, NeverRetired

\* Loading the same export again, with no APN changed in between, writes no
\* fact and touches no exception.
THEOREM RerunIsQuietHolds == Spec => RerunIsQuiet
<1>1. ASSUME LoadInv, Commit, settled # None, loader.snap = settled, loader.calm
      PROVE  facts' = facts /\ exceptions' = exceptions
  <2>1. TypeInv /\ ReadInv /\ RowsInv /\ SettledInv
    BY <1>1 DEF LoadInv
  <2>2. loader.live = Live /\ loader.fresh = Attributed(settled)
    BY <1>1, <2>1 DEF ReadInv, Commit, At
  <2>3. \A p \in Parcels, field \in Fields :
            /\ FreshValue(p, field) # None =>
                   \A v : HasLive(p, field, v) <=> v = FreshValue(p, field)
    BY <1>1, <2>1, <2>2, FreshIs DEF SettledInv
  <2>4. \A p, field, v : HasLive(p, field, v) <=> \E f \in LiveOf(p, field) : f.val = v
    BY <2>2 DEF HasLive, LiveOf
  <2>5. ASSUME NEW f \in facts
        PROVE  After(f) = f
    <3>1. f.parcel \in Parcels /\ f.field \in Fields
      BY <2>1 DEF TypeInv, TypeOK, Facts
    <3>2. ~Dies(f)
      BY <2>3, <2>4, <3>1 DEF Dies, Superseded
    <3>3. QED
      BY <3>2 DEF After
  <2>6. \A g : ~Born(g)
    <3>1. ASSUME NEW g, NEW p \in Parcels, NEW field \in Fields, g \in Written(p, field)
          PROVE  FALSE
      <4>1. FreshValue(p, field) # None /\ g.val = FreshValue(p, field)
        BY <2>1, <3>1, WrittenShape
      <4>2. \A f \in LiveOf(p, field) : f.val # g.val
        BY <2>1, <3>1, WrittenShape
      <4>3. QED
        BY <2>3, <2>4, <4>1, <4>2
    <3>2. QED
      BY <3>1 DEF Born
  <2>7. facts' = facts
    BY <1>1, <2>1, <2>5, <2>6, CommitFacts
  <2>8. OpenParcels = Lost /\ Confirmed \cap OpenParcels = {}
    BY <1>1, <2>1, <2>2, LostIs DEF SettledInv
  <2>9. NewRows = {}
    BY <2>8 DEF NewRows, NewlyLost, OpenParcels
  <2>10. ASSUME NEW e \in exceptions
         PROVE  Shut(Link(e)) = e
    <3>1. e.closed = 0 => e.parcel \in OpenParcels
      BY DEF OpenParcels
    <3>2. ~Relinks(e)
      BY <2>9 DEF Relinks
    <3>3. QED
      BY <2>1, <2>8, <3>1, <3>2, OutRow DEF Table
  <2>11. exceptions' = {Shut(Link(e)) : e \in exceptions}
    BY <1>1, <2>9, CommitTable DEF Table
  <2>12. exceptions' = exceptions
    BY <2>10, <2>11
  <2>13. QED
    BY <2>7, <2>12
<1>2. LoadInv /\ [Next]_vars =>
          [settled # None /\ loader.snap = settled /\ loader.calm /\ job' # job
               => facts' = facts /\ exceptions' = exceptions]_vars
  BY <1>1, OnlyCommitWrites
<1>3. QED
  BY <1>2, LoadInvHolds, PTL DEF Spec, RerunIsQuiet
=============================================================================
