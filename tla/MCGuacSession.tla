--------------------------- MODULE MCGuacSession ---------------------------
(* Runs of GuacSession: the .cfg files give the bounds their values.       *)
EXTENDS GuacSession
=============================================================================
