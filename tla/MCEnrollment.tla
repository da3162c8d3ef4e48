--------------------------- MODULE MCEnrollment ----------------------------
(* Runs of Enrollment: the .cfg files give the bounds their values.        *)
EXTENDS Enrollment
=============================================================================
