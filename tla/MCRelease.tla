---------------------------- MODULE MCRelease ----------------------------
(* Three builds: the one deployed first, a sound one that adds a migration,  *)
(* and one whose migrations fail.                                            *)
EXTENDS Release

CONSTANTS old, new, broken

MCBuilds == {old, new, broken}
MCUnsound == {broken}
MCEmbedded == [b \in MCBuilds |-> IF b = old THEN 1 ELSE 2]
=============================================================================
