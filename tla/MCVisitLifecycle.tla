-------------------------- MODULE MCVisitLifecycle --------------------------
(* An instance of VisitLifecycle for TLC: two requests at a time, in two   *)
(* processes, of one client on two routes; with the functions that judge a *)
(* client and look up its address, checked over bounded inputs.            *)
EXTENDS VisitLifecycle, Screening, GeoLookup, TLC

(* Processes, requests and ids of visits are interchangeable.              *)
Symmetry ==
  Permutations(Procs) \cup Permutations(Requests) \cup Permutations(Visits)

(* Six addresses and two networks, one inside the other.                   *)
MCAddresses == 0..5
MCNetworks == {<<2, 2>>, <<1, 3>>}

(* What holds of the functions holds at every step of the life of a visit:  *)
(* whatever requests came before, a client that is judged next is judged,   *)
(* and logged, as follows.                                                  *)

(* Every honest browser is admitted at the default threshold, and none far  *)
(* above it (Screening).                                                    *)
HonestBrowsersPass == [][HonestBrowsersAdmitted]_vars

(* Bisection finds the line about an address, and no other (GeoLookup).     *)
SearchFindsTheLine == [][LinesAreFound]_vars

(* The visit log names the organisation that the screening judged, except   *)
(* where a header names another, the log's query failed, the file was       *)
(* replaced meanwhile, or the file and the table differ (GeoLookup).        *)
IspIsWhatWasJudged == [][SameOrganisation]_vars
=============================================================================
