------------------------------ MODULE MCFetch ------------------------------
(***************************************************************************)
(* Instances of SnapshotFetch for TLC.                                     *)
(***************************************************************************)
EXTENDS SnapshotFetch

CONSTANTS p1, p2, parcels, zoning, permits, file1, file2, file3, file4

\* Two machines fetching one source: the object store and the database are
\* shared, the disks are not.
OneSource == [p \in {p1, p2} |-> parcels]
OwnDisks == [p \in {p1, p2} |-> IF p = p1 THEN <<file1, file2>> ELSE <<file3, file4>>]

\* One machine's copy of the pack has a source the program cannot probe.
TwoPacks == [p \in {p1, p2} |-> IF p = p1 THEN {parcels, zoning} ELSE {parcels, permits}]
NoPack == [p \in {p1, p2} |-> {}]

\* Two processes on one machine, both with phase_b's two file names.
OneDisk == [p \in {p1, p2} |-> <<file1, file2>>]
=============================================================================
