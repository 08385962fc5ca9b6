---------------------------- MODULE MCUsageReport ----------------------------
(* Two IDs, so that a second one would be noticed.                          *)
EXTENDS UsageReport

MCIds == {1, 2}
MCStored == {"stored"}
MCMayFail == {"stored", "failed"}
=============================================================================
