----------------------------- MODULE MCContracts -----------------------------
(***************************************************************************)
(* An instance of Contracts for TLC: the runs of MCVerificationStore, the  *)
(* codes below, and two chains whose tables have three ids.                *)
(***************************************************************************)
EXTENDS Contracts, MCVerificationStore

(* Codes: a compilation of every shape that its slots can give it *)

Ref(id, start) == [id |-> id, start |-> start]
Compiled(code, immutables, libraries, isVyper) ==
    [code |-> code, immutableReferences |-> immutables,
     linkReferences |-> libraries, vyper |-> isVyper]

MCCompilations ==
    {Compiled(<<"a", "auxA">>, <<>>, <<>>, FALSE),
     Compiled(<<"a", "b", "aux">>, <<>>, <<>>, FALSE),
     Compiled(<<"a", "zero", "zero", "auxA">>, <<Ref("i", 2), Ref("i", 3)>>, <<>>, FALSE),
     Compiled(<<"zero", "lib", "a", "auxA">>, <<Ref("i", 1)>>, <<Ref("l", 2)>>, FALSE),
     Compiled(<<"push20", "zero", "lib", "auxA">>, <<>>, <<Ref("l", 3)>>, FALSE),
     Compiled(<<"a", "b">>, <<Ref("0", 3)>>, <<>>, TRUE)}

MCCodes == UNION {[1..n -> {"a", "b", "zero", "push20", "auxA", "auxB", "aux"}] : n \in 0..4}
MCPlaceholder == [l |-> "lib"]
=============================================================================
