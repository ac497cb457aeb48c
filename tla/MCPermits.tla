----------------------------- MODULE MCPermits -----------------------------
(***************************************************************************)
(* Instances of PermitsLoad for TLC: two parcels that exchange, share and  *)
(* lose their APNs, under exports with several rows of one APN, a quoted   *)
(* spelling, a blank APN, no rows of a parcel, and a row that is refused.  *)
(***************************************************************************)
EXTENDS PermitsLoad

CONSTANTS p1, p2, a1, a2, quoted, blanks, x1, x2, x3, x4

Spelled == [r \in {a1, a2, quoted, blanks} |->
               CASE r = quoted -> a1 [] r = blanks -> Blank [] OTHER -> r]
Permit(a, d) == [apn |-> a, date |-> d, active |-> TRUE]

\* x1 mentions both parcels, x2 only a1, with an earlier date; x3 is refused, and
\* so is x4, which has no rows.
Exports ==
    [x \in {x1, x2, x3, x4} |->
        CASE x = x1 -> {Permit(quoted, 2), Permit(a1, 3), Permit(a2, 3)}
          [] x = x2 -> {Permit(a1, 1), Permit(blanks, BadDate)}
          [] x = x3 -> {[Permit(a1, 1) EXCEPT !.active = FALSE]}
          [] x = x4 -> {}]

OneEach == [p \in {p1, p2} |-> IF p = p1 THEN a1 ELSE a2]

\* Nothing yet, or the false an older loader fabricated.
OldFacts ==
    {{}, {[run |-> 0, parcel |-> p2, field |-> "active", val |-> False,
           sup |-> None, live |-> TRUE]}}
=============================================================================
