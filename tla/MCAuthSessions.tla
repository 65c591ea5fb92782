--------------------------- MODULE MCAuthSessions ---------------------------
(* An instance of AuthSessions for TLC: two requests at a time of one      *)
(* client, in one process.                                                 *)
EXTENDS AuthSessions
=============================================================================
