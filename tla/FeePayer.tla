------------------------------- MODULE FeePayer -------------------------------
(***************************************************************************)
(* apps/fee-payer side by side: the budget of an API key, which this       *)
(* module extends, and the requests and changes of one, of SponsorRelay.   *)
(* The counters of the one and the record of the other are different keys  *)
(* of KV and neither reads the other's, so a behaviour is one of a single  *)
(* part, chosen in the initial state.                                      *)
(***************************************************************************)
EXTENDS SponsorBudget

CONSTANTS   \* of SponsorRelay, where they are explained
    Calls, KindOf(_), PayloadOf(_), Changes, FieldOf(_), ValueOf(_), MaxFailures

VARIABLES
    part,   \* "budget" or "relay"
    record, change, found, crossed, intended, call, grant, spend, bill, queue, failures

R == INSTANCE SponsorRelay

ASSUME RelayAssumption ==
    /\ MaxFailures \in Nat
    /\ \A u \in Changes : FieldOf(u) \in R!Fields /\ ValueOf(u) \in BOOLEAN

relayVars == <<record, change, found, crossed, intended, call, grant, spend,
               bill, queue, failures>>
allVars == <<part, vars, relayVars>>

AllInit ==
    /\ part \in {"budget", "relay"} /\ Init
    /\ R!Init /\ (part = "budget" => record.billable)

AllNext ==
    /\ UNCHANGED part
    /\ \/ part = "budget" /\ Next /\ UNCHANGED relayVars
       \/ part = "relay" /\ R!Next /\ UNCHANGED vars

AllSpec == AllInit /\ [][AllNext]_allVars

-----------------------------------------------------------------------------
\* Both parts keep to their types.
TypesOK == TypeOK /\ R!TypeOK

\* The properties of the relay, stated in its module
SerialChangesHold == R!SerialChangesHold
FillsAreBilled == R!FillsAreBilled
RecordedIsSpent == R!RecordedIsSpent
=============================================================================
