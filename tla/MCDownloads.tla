---------------------------- MODULE MCDownloads ----------------------------
(***************************************************************************)
(* Instances of Downloads for TLC.                                         *)
(***************************************************************************)
EXTENDS Downloads, TLC

CONSTANTS q1, q2, q3, q4, k1, k2, o1, o2, c1, c2

(* Three reports of one download and one of another route's.                *)
ThreeAndOne == [r \in Requests |-> IF r = q4 THEN k2 ELSE k1]
RouteOfKey == [k \in Keys |-> IF k = k1 THEN o1 ELSE o2]


(* Two pages under one code, one under another and one under none.          *)
CodeOfPage ==
  [r \in Requests |-> CASE r = q3 -> c2 [] r = q4 -> NoCode [] OTHER -> c1]
FirstHome == [c \in Codes |-> o1]

ReportSymmetry == Permutations({q1, q2}) \cup Permutations(Procs)

=============================================================================
