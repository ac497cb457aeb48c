--------------------------- MODULE FieldTimeline ---------------------------
(***************************************************************************)
(* What a temporal ledger promises for each of its keys: at most one live  *)
(* version, a set of dead versions that only grows, and a chain of links   *)
(* saying which version replaced which.  Versions are numbers; 0 means     *)
(* that a key has no live version.                                         *)
(***************************************************************************)
EXTENDS Naturals

CONSTANT Keys

VARIABLES
    live,  \* the live version of each key, or 0
    dead,  \* the versions of each key that are no longer live
    link   \* pairs <<old, new>>: new replaced old, or opened the key if old = 0

Init ==
    /\ live = [k \in Keys |-> 0]
    /\ dead = [k \in Keys |-> {}]
    /\ link = [k \in Keys |-> {}]

Stay(k) == live'[k] = live[k] /\ dead'[k] = dead[k] /\ link'[k] = link[k]

\* A new version opens the key or replaces exactly the version that was live.
Write(k) ==
    /\ live'[k] \notin dead[k] \cup {0, live[k]}
    /\ dead'[k] = dead[k] \cup ({live[k]} \ {0})
    /\ link'[k] = link[k] \cup {<<live[k], live'[k]>>}

\* The live version dies without a successor.
Close(k) ==
    /\ live[k] # 0 /\ live'[k] = 0
    /\ dead'[k] = dead[k] \cup {live[k]}
    /\ link'[k] = link[k]

Written == {k \in Keys : live'[k] \notin {0, live[k]}}

\* One transaction changes any set of keys; its new versions share a number.
Next ==
    /\ \A k \in Keys : Stay(k) \/ Write(k) \/ Close(k)
    /\ \A j, k \in Written : live'[j] = live'[k]

Spec == Init /\ [][Next]_<<live, dead, link>>
=============================================================================
