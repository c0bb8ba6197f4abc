------------------------- MODULE MCVerificationStore -------------------------
(***************************************************************************)
(* Instances of VerificationStore for TLC: two addresses whose code        *)
(* differs in its metadata only, so that a build that is exact at one of   *)
(* them is a partial match at the other.                                   *)
(***************************************************************************)
EXTENDS VerificationStore

MCAddresses == {"a", "b"}
MCBuilds    == {"X", "Y"}
MCOnChain   == [a \in MCAddresses |-> IF a = "a" THEN "X" ELSE "Y"]

\* Address a is submitted with Y, a partial match, and with X, an exact one,
\* whose creation transaction is known; address b with Y, an exact match.
MCRuns    == {"partial", "exact", "other"}
MCAddress == [r \in MCRuns |-> IF r = "other" THEN "b" ELSE "a"]
MCBuild   == [r \in MCRuns |-> IF r = "exact" THEN "X" ELSE "Y"]
MCTx      == [r \in MCRuns |-> IF r = "exact" THEN "t" ELSE "none"]
=============================================================================
