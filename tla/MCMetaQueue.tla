---------------------------- MODULE MCMetaQueue ----------------------------
(***************************************************************************)
(* Instances of MetaQueue for TLC.                                         *)
(***************************************************************************)
EXTENDS MetaQueue

CONSTANTS e1, e2, r1, r2, w1, w2

(* Both events on one route, and one event on each of two routes.           *)
OneRoute == [e \in Events |-> r1]
TwoRoutes == [e \in Events |-> IF e = e1 THEN r1 ELSE r2]
=============================================================================
