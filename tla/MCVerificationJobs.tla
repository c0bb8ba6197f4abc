------------------------- MODULE MCVerificationJobs -------------------------
(* Instances of VerificationJobs for TLC. *)
EXTENDS VerificationJobs, TLC

\* Requests are alike, and so are polls.
Symmetry == Permutations(Requests) \cup Permutations(Pollers)
=============================================================================
