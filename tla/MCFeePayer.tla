------------------------------ MODULE MCFeePayer ------------------------------
(***************************************************************************)
(* The budget of an API key and the requests and changes of one, for TLC:  *)
(* three requests whose fees differ, so that a total tells which of them   *)
(* it counts; and three requests, two of them for one payload and one      *)
(* serialized, while one change revokes the key and another ends its       *)
(* billing.                                                                *)
(***************************************************************************)
EXTENDS FeePayer

CONSTANTS small, middle, large

MCRequests == {small, middle, large}
MCFee == [r \in MCRequests |-> IF r = small THEN 1 ELSE IF r = middle THEN 2 ELSE 4]
MCKindOf(c) == IF c = 3 THEN "serialized" ELSE "fill"
MCPayloadOf(c) == IF c = 3 THEN 2 ELSE 1
MCFieldOf(u) == IF u = 1 THEN "active" ELSE "billable"
MCValueOf(u) == FALSE
=============================================================================
