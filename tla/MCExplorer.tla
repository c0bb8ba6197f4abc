------------------------------ MODULE MCExplorer ------------------------------
(***************************************************************************)
(* The explorer and the snapshot viewers, for TLC.  The queue holds more   *)
(* tasks than a second may start.  Of three signature lookups two ask for  *)
(* one selector.  The latest snapshot is of before, of little after or of  *)
(* long after the merge.                                                   *)
(***************************************************************************)
EXTENDS Explorer

MCFrequencies == {0, 2}
MCConcurrencies == {0, 1}
MCSelectorOf(l) == IF l = 3 THEN 2 ELSE 1
=============================================================================
