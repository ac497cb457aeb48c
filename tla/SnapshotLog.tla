---------------------------- MODULE SnapshotLog ----------------------------
(***************************************************************************)
(* What a content-addressed archive of fetches promises: a content is      *)
(* recorded once and for good, and at most one of the runs that met it is  *)
(* credited with having brought it in.                                     *)
(***************************************************************************)
CONSTANTS Contents, Workers

VARIABLES
    recorded,  \* the contents in the archive
    credited   \* the runs credited with each content

Init ==
    /\ recorded = {}
    /\ credited = [x \in Contents |-> {}]

Record(x) ==
    /\ x \notin recorded
    /\ recorded' = recorded \cup {x}
    /\ UNCHANGED credited

Credit(x, r) ==
    /\ x \in recorded /\ credited[x] = {}
    /\ credited' = [credited EXCEPT ![x] = {r}]
    /\ UNCHANGED recorded

Next == \E x \in Contents : Record(x) \/ \E r \in Workers : Credit(x, r)

Spec == Init /\ [][Next]_<<recorded, credited>>
=============================================================================
