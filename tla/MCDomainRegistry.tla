-------------------------- MODULE MCDomainRegistry --------------------------
(***************************************************************************)
(* Instances of DomainRegistry for TLC.                                    *)
(***************************************************************************)
EXTENDS DomainRegistry, TLC

Interchangeable == Permutations(Names) \cup Permutations(Ids) \cup Permutations(RouteIds) \cup Permutations(Admins)

=============================================================================
