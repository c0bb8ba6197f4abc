------------------------------ MODULE MCContent ------------------------------
(***************************************************************************)
(* The workers that publish content, for TLC.  Three questions go to the   *)
(* search: the second wants the raw chunks, the third those of two         *)
(* sources.  One visitor of the snapshot viewer opens its page, the other  *)
(* calls its API.                                                          *)
(***************************************************************************)
EXTENDS Content

MCWanted == [q \in 1..3 |-> IF q = 3 THEN {"a", "b"} ELSE {"a"}]
MCOf == <<"ui", "api">>
=============================================================================
