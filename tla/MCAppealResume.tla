--------------------------- MODULE MCAppealResume ---------------------------
(* Instances of AppealResume small enough for TLC.                         *)
EXTENDS AppealResume
============================================================================
