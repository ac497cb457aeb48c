------------------------------ MODULE MCZoning ------------------------------
(***************************************************************************)
(* Instances of ZoningLoad for TLC: two parcels that move between a valid  *)
(* polygon, a second one, one no repair makes usable and one whose derived *)
(* point stays outside, under snapshots in which the points are in one     *)
(* district, in several polygons, in two districts or in none.             *)
(***************************************************************************)
EXTENDS ZoningLoad

CONSTANTS p1, p2, square, el, bowtie, sliver, a, b, outside, r1, r2, x1, x2, x3

Cand(fid, zoning, verbatim) == [fid |-> fid, zoning |-> zoning, verbatim |-> verbatim]

TwoPoints == [g \in {square, el, sliver} |-> IF g = el THEN b ELSE a]
TwoInteriors ==
    [g \in {square, el, sliver} |->
        CASE g = square -> {a} [] g = el -> {b} [] g = sliver -> {}]

\* x1: a in one polygon, b in two that agree on ZONING only.
\* x2: a in two districts, b in a polygon without ZONINGABBREV.
\* x3: a in a polygon with a blank ZONING, b in the polygon of x2.
ThreeSnapshots ==
    [x \in {x1, x2, x3} |-> [pt \in {a, b, outside} |->
        CASE pt = outside -> {}
          [] x = x1 /\ pt = a -> {Cand(1, r1, r1)}
          [] x = x1 /\ pt = b -> {Cand(2, r2, r1), Cand(3, r2, r2), Cand(4, Blank, r1)}
          [] x = x2 /\ pt = a -> {Cand(1, r1, r1), Cand(2, r2, r2)}
          [] x = x3 /\ pt = a -> {Cand(1, Blank, r2)}
          [] pt = b -> {Cand(3, r2, None)}]]

SquareAndEl == [p \in {p1, p2} |-> IF p = p1 THEN square ELSE el]
SquareOnly == [p \in {p1} |-> square]

\* No points yet, or a point an older loader derived outside the polygon.
OldPoints == {[p \in {p1, p2} |-> None], [p \in {p1, p2} |-> IF p = p1 THEN outside ELSE b]}
NoPoint == {[p \in {p1} |-> None]}

\* The facts an older loader wrote of those points; it did not know p2.
OldFacts ==
    {{[run |-> 0, parcel |-> p1, field |-> f, val |-> r2, sup |-> None, live |-> TRUE] :
          f \in Fields}}
NoFacts == {{}}
=============================================================================
