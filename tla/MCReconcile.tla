---------------------------- MODULE MCReconcile ----------------------------
(***************************************************************************)
(* Instances of ParcelReconcile for TLC: snapshots whose succession makes  *)
(* a feature appear, change, degrade, resolve, disappear and come back.    *)
(***************************************************************************)
EXTENDS ParcelReconcile

CONSTANTS f1, f2, a1, a2, blank, placeholder, g1, g2, point, s1, s2, s3, s4

Row(apn, geom) == [apn |-> apn, geom |-> geom]

SerialFeatures == {f1, f2}
SerialSnapshots == {s1, s2, s3, s4}
SerialStored == <<s4, s1, s2>>

\* f1: good, an unresolvable APN on a moved polygon, absent, back on a Point.
\* f2: good, another good APN, blank, a placeholder.
SerialContent ==
    [x \in SerialSnapshots |-> [f \in SerialFeatures |->
        CASE x = s1 -> IF f = f1 THEN Row(a1, g1) ELSE Row(a1, g2)
          [] x = s2 -> IF f = f1 THEN Row(placeholder, g2) ELSE Row(a2, g1)
          [] x = s3 -> IF f = f1 THEN None ELSE Row(blank, g1)
          [] x = s4 -> IF f = f1 THEN Row(blank, point) ELSE Row(placeholder, g1)]]

ConcurrentFeatures == {f1}
ConcurrentSnapshots == {s1, s2, s3}
ConcurrentStored == <<s1, s2, s3>>

\* f1: good, degraded, then resolved differently on a moved polygon.
ConcurrentContent ==
    [x \in ConcurrentSnapshots |-> [f \in ConcurrentFeatures |->
        CASE x = s1 -> Row(a1, g1)
          [] x = s2 -> Row(placeholder, g1)
          [] x = s3 -> Row(a2, g2)]]
=============================================================================
