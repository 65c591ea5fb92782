--------------------------- MODULE MCPublicCache ---------------------------
(***************************************************************************)
(* An instance of PublicCache for TLC.                                     *)
(***************************************************************************)
EXTENDS PublicCache

CONSTANTS blue, green, adminB, adminG

(* The map looked at is the second to be cleared, so that something happens*)
(* between the commit, the first lock and the second.                      *)
SecondMap == [k \in Keys |-> 2]

Homes == [x \in Readers \cup Admins |-> IF x = adminG THEN green ELSE blue]

=============================================================================
