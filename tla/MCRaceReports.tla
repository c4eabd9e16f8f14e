---------------------------- MODULE MCRaceReports ----------------------------
(* RaceReports for TLC.  RW_RACE and WR_RACE mirror each other, WW_RACE itself. *)
EXTENDS RaceReports
=============================================================================
