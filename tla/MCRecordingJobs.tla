-------------------------- MODULE MCRecordingJobs --------------------------
(* Runs of RecordingJobs: the .cfg files give the bounds their values.     *)
EXTENDS RecordingJobs
=============================================================================
