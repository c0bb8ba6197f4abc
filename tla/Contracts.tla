------------------------------ MODULE Contracts ------------------------------
(***************************************************************************)
(* The contract verification service around its store, side by side: how   *)
(* a verification compares codes, how its result is stored, and how what   *)
(* is stored is listed.  They are followed one at a time: a behaviour is   *)
(* one of a single part, chosen in the initial state.                      *)
(***************************************************************************)
EXTENDS VerificationStore

CONSTANTS   \* of the other parts, where they are explained
    Compilations, Codes, Push20, Zero, Placeholder, Auxdata, ContentHashes,
    Chains, Chain, Limits, MaxId

VARIABLES part,
          input, matched,
          rows, query, cursor, selecting, verifiedResults, listed, ended, atStart

matchVars == <<input, matched>>
listVars == <<rows, query, cursor, selecting, verifiedResults, listed, ended, atStart>>
allVars == <<part, vars, matchVars, listVars>>

M == INSTANCE BytecodeMatching WITH result <- matched, OnChain <- Codes
L == INSTANCE ContractListing WITH tables <- rows

ASSUME MatchingAssumption ==
    /\ Compilations # {} /\ \A c \in Compilations : M!IsCompiled(c)
    /\ Codes # {} /\ \A code \in Codes : M!IsCode(code)
    /\ Zero \notin Auxdata

ASSUME ListingAssumption ==
    /\ Chain \in Chains /\ L!NoChain \notin Chains
    /\ Limits # {} /\ Limits \subseteq Nat \ {0} /\ MaxId \in Nat

\* The parts that begin in one of several states begin in one of them while they
\* are not followed.
AllInit ==
    /\ part \in {"store", "matching", "listing"}
    /\ Init
    /\ (part # "matching" =>
           input = CHOOSE i \in [compilation : Compilations, onchain : Codes] : TRUE)
    /\ M!Init
    /\ (part # "listing" =>
           /\ rows = [kind \in L!Kinds |-> [i \in L!Ids |-> L!NoChain]]
           /\ query = [sort |-> "asc", limit |-> CHOOSE n \in Limits : TRUE])
    /\ L!Init

AllNext ==
    /\ UNCHANGED part
    /\ \/ part = "store" /\ Next /\ UNCHANGED <<matchVars, listVars>>
       \/ part = "matching" /\ M!Next /\ UNCHANGED <<vars, listVars>>
       \/ part = "listing" /\ L!Next /\ UNCHANGED <<vars, matchVars>>

AllSpec == AllInit /\ [][AllNext]_allVars

\* Every part keeps to its types.
TypesOK == TypeOK /\ M!TypeOK /\ L!TypeOK

\* The properties of the parts, stated in their modules.
MatchIsFaithful == M!MatchIsFaithful
WalkIsComplete == L!WalkIsComplete
=============================================================================
