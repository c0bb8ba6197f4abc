----------------------------- MODULE MCDocsSync -----------------------------
(***************************************************************************)
(* An instance of DocsSync for TLC.  The pages are interchangeable where   *)
(* no liveness is checked.                                                 *)
(***************************************************************************)
EXTENDS DocsSync, TLC

Symmetry == Permutations(Pages)
=============================================================================
