----------------------------- MODULE MCCausality -----------------------------
(* Two channels in a row: sensor to control over links, control to drive   *)
(* as a parent; the clock of the control domain is ahead.                   *)
EXTENDS Causality, TLC

CONSTANTS sensor, control, drive, scan, command, m1, m2

MCChain == <<scan, command>>
MCSource == (scan :> sensor) @@ (command :> control)
MCDestination == (scan :> control) @@ (command :> drive)
MCRelationship == (scan :> "link") @@ (command :> "parent")
MCOffset == (sensor :> 0) @@ (control :> 1) @@ (drive :> 0)
=============================================================================
