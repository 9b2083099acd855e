------------------------- MODULE MCTranscriptionPool -------------------------
(* A small host for TLC.                                                   *)
EXTENDS TranscriptionPool

CONSTANTS j1, j2, j3, j4

FourJobs == {j1, j2, j3, j4}
=============================================================================
