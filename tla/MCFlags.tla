------------------------------ MODULE MCFlags ------------------------------
(***************************************************************************)
(* Instances of GeometryFlags for TLC: a valid and an invalid geometry, a   *)
(* snapshot whose invalid polygons overlap, and one that does not verify.  *)
(***************************************************************************)
EXTENDS GeometryFlags

CONSTANTS p1, good, ring, a, b, x1, x3, z1, z2, ringself

Why == [g \in {good, ring} |-> IF g = good THEN None ELSE ringself]
Inside == [g \in {good, ring} |-> IF g = good THEN a ELSE b]
Polygons == [x \in {x1, x3} |-> {z1, z2}]
Contained == [z \in {z1, z2} |-> IF z = z1 THEN {a, b} ELSE {b}]
GoodFirst == [p \in {p1} |-> good]
=============================================================================
