----------------------- MODULE VerificationStoreProofs -----------------------
(***************************************************************************)
(* Proofs about VerificationStore, for any submissions, addresses, builds  *)
(* and numbers of sources and interruptions: what a verification that was  *)
(* written states is true and stays so, and runs that do not overlap share *)
(* one deployment and one verification.                                    *)
(***************************************************************************)
EXTENDS VerificationStore, SequenceTheorems, WellFoundedInduction, TLAPS

USE StoreAssumption

-----------------------------------------------------------------------------
(* Inductive invariants *)

\* The locations of a run that has selected its deployment.
Selected == {"updateDeployment", "compilation", "matches", "newCompilation",
             "deleteSources", "sources", "signatures", "verification",
             "upgrade", "insert", "refetchVerified"}

\* Those of a run that has inserted its signatures.
Signed == {"verification", "upgrade", "insert", "refetchVerified"}

\* A deployment keeps its address, and a run has selected one of its address.
Deployed ==
    /\ \A d \in Runs : deployments[d].address \in {NoRun, Address[d]}
    /\ \A r \in Runs : pc[r] \in Selected => dep[r] \in DeploymentsOf(Address[r])

\* Verifications belong to deployments; one that is being upgraded belongs to
\* the deployment of the run.
Verifying ==
    /\ \A r \in Runs : pc[r] \in Signed => Build[r] \in FullySigned
    /\ \A r \in Runs : pc[r] = "upgrade" =>
          IsExact(r) /\ chosen[r] \in RowIds /\ verified[chosen[r]].dep = dep[r]
    /\ \A i \in RowIds : deployments[verified[i].dep].address \in Addresses

\* A run writes signatures one by one or all at once; those before the next one
\* are there, and nobody takes them away.
Linking == {"matches", "newCompilation", "deleteSources", "sources", "signatures"}

SignedSoFar ==
    \A r \in Runs : pc[r] \in Linking => 1..(item[r] - 1) \subseteq signed[Build[r]]

RowInv ==
    TypeOK /\ Deployed /\ Verifying /\ SignedSoFar /\ VerifiedIsSigned /\ MatchIsTruthful

\* Where no runs have overlapped, at most one is working, and what it did not
\* find still does not exist when it inserts it.
Serial(a) ==
    /\ \A q, r \in Runs :
          Address[q] = a /\ Address[r] = a /\ pc[q] \in Working /\ pc[r] \in Working => q = r
    /\ \A r \in Runs : Address[r] = a =>
          /\ pc[r] = "newDeployment" => DeploymentsOf(a) = {}
          /\ pc[r] = "insert" => RowsOfDeployment(dep[r]) = {}
    /\ OneDeployment(a) /\ OneVerification(a)

SerialInv == \A a \in Addresses \ overlapped : Serial(a)

-----------------------------------------------------------------------------
(* Helpers *)

\* Among the ids of some rows there is an earliest one.
LEMMA EarliestExists ==
    ASSUME NEW S, S \subseteq Nat, S # {}
    PROVE  Earliest(S) \in S
<1>1. PICK x \in S : \A y \in S : ~(<<y, x>> \in OpToRel(<, Nat))
  BY NatLessThanWellFounded, WFMin, Zenon
<1>2. ASSUME NEW y \in S PROVE x <= y
  <2>1. ~(y < x)
    BY <1>1, <<y, x>> \in Nat \X Nat DEF OpToRel
  <2>2. QED
    BY <2>1
<1>3. QED
  BY <1>2 DEF Earliest

\* The row that a run selects is one of its candidates, if there are any.
LEMMA ChoiceIsCandidate ==
    ASSUME TypeOK, NEW r \in Runs
    PROVE  /\ Candidates(r) \subseteq RowIds
           /\ Candidates(r) # {} => Choice(r) \in Candidates(r)
           /\ Choice(r) \in 0..Len(verified)
<1> USE DEF Candidates, RowsOfDeployment, RowsOfBuild
<1>1. Len(verified) \in Nat /\ RowIds \subseteq Nat
  BY DEF TypeOK, RowIds
<1> DEFINE exact == {i \in Candidates(r) : verified[i].exact}
           same == Candidates(r) \cap RowsOfBuild(Build[r])
           S == IF exact # {} THEN exact ELSE IF same # {} THEN same ELSE Candidates(r)
<1>2. Choice(r) = Earliest(S)
  BY DEF Choice
<1>3. S \subseteq Candidates(r) /\ (Candidates(r) # {} => S # {})
  OBVIOUS
<1>4. Candidates(r) \subseteq RowIds
  OBVIOUS
<1> HIDE DEF S
<1>5. CASE S = {}
  BY <1>1, <1>2, <1>3, <1>4, <1>5 DEF Earliest
<1>6. CASE S # {}
  <2>1. Earliest(S) \in S
    BY <1>1, <1>3, <1>4, <1>6, EarliestExists
  <2>2. Choice(r) \in Candidates(r)
    BY <2>1, <1>2, <1>3
  <2>3. Choice(r) \in 1..Len(verified)
    BY <2>2, <1>4, Zenon DEF RowIds
  <2>4. QED
    BY <2>2, <2>3, <1>1, <1>4
<1>7. QED
  BY <1>5, <1>6

\* A deployment takes its address when it is inserted, and keeps it.
AddressesGrow ==
    \A d \in Runs :
        \/ deployments'[d].address = deployments[d].address
        \/ deployments[d].address = NoRun /\ deployments'[d].address = Address[d]

\* So a verification stays at its address.
LEMMA RowsKeepAddress ==
    ASSUME TypeOK, Verifying, AddressesGrow, NEW i \in RowIds
    PROVE  /\ verified[i] \in Verified /\ verified[i].dep \in Runs
           /\ deployments'[verified[i].dep].address = deployments[verified[i].dep].address
<1>1. verified[i] \in Verified
  BY DEF TypeOK, RowIds
<1>2. verified[i].dep \in Runs
  BY <1>1 DEF Verified
<1>3. QED
  BY <1>1, <1>2 DEF Verifying, AddressesGrow

\* What a statement that writes no verification keeps.
LEMMA MoveKeeps ==
    ASSUME TypeOK, Deployed, Verifying, VerifiedIsSigned, MatchIsTruthful,
           AddressesGrow, UNCHANGED verified, FullySigned \subseteq FullySigned',
           NEW r \in Runs, NEW l, pc' = [pc EXCEPT ![r] = l],
           \A q \in Runs \ {r} : dep'[q] = dep[q] /\ chosen'[q] = chosen[q],
           l \in Selected => dep'[r] \in DeploymentsOf(Address[r])',
           l \in Signed => Build[r] \in FullySigned',
           l = "upgrade" => /\ IsExact(r) /\ chosen'[r] \in RowIds
                            /\ verified[chosen'[r]].dep = dep'[r]
    PROVE  Deployed' /\ Verifying' /\ VerifiedIsSigned' /\ MatchIsTruthful'
<1> USE DEF IsExact
<1>0. RowIds' = RowIds
  BY DEF RowIds
<1>1. Deployed'
  <2>1. \A d \in Runs : deployments'[d].address \in {NoRun, Address[d]}
    BY DEF Deployed, AddressesGrow
  <2>2. \A q \in Runs : DeploymentsOf(Address[q]) \subseteq DeploymentsOf(Address[q])'
    <3>1. \A q \in Runs : Address[q] # NoRun
      OBVIOUS
    <3>2. QED
      BY <3>1 DEF DeploymentsOf, AddressesGrow
  <2>3. \A q \in Runs : pc'[q] \in Selected => dep'[q] \in DeploymentsOf(Address[q])'
    BY <2>2 DEF TypeOK, Deployed
  <2>4. QED
    BY <2>1, <2>3 DEF Deployed
<1>2. Verifying'
  <2>1. \A q \in Runs : pc'[q] \in Signed => Build[q] \in FullySigned'
    BY DEF Verifying, TypeOK
  <2>2. \A q \in Runs : pc'[q] = "upgrade" =>
           IsExact(q) /\ chosen'[q] \in RowIds /\ verified[chosen'[q]].dep = dep'[q]
    BY DEF Verifying, TypeOK
  <2>3. \A i \in RowIds : deployments'[verified[i].dep].address \in Addresses
    BY RowsKeepAddress DEF Verifying
  <2>4. QED
    BY <1>0, <2>1, <2>2, <2>3 DEF Verifying
<1>3. VerifiedIsSigned'
  BY <1>0 DEF VerifiedIsSigned
<1>4. MatchIsTruthful'
  <2>1. \A i \in RowIds :
           verified[i].exact <=> verified[i].build = OnChain[deployments'[verified[i].dep].address]
    BY RowsKeepAddress DEF MatchIsTruthful
  <2>2. QED
    BY <1>0, <2>1 DEF MatchIsTruthful
<1>5. QED
  BY <1>1, <1>2, <1>3, <1>4

\* The steps of a run before its verification that write no deployment.
Plain(r) ==
    \/ Start(r) \/ FindContract(r) \/ InsertContract(r) \/ InsertContractConflicts(r)
    \/ FindNoDeployment(r) \/ FindCompilation(r) \/ DecideReplace(r)
    \/ InsertCompilation(r) \/ DeleteSources(r) \/ SourcesDone(r)

\* The steps that add what belongs to a compilation.
Adds(r) ==
    InsertSource(r) \/ InsertSignatures(r) \/ InsertSignatureLegacy(r) \/ SignaturesDone(r)

-----------------------------------------------------------------------------
(* The types *)

LEMMA TypeInit == Init => TypeOK
<1>1. ASSUME Init PROVE verified \in Seq(Verified) /\ Len(verified) = 0
  BY <1>1 DEF Init
<1>2. QED
  BY <1>1 DEF Init, TypeOK, Ended

LEMMA TypePlain ==
    ASSUME TypeOK, NEW r \in Runs, Plain(r)
    PROVE  TypeOK'
<1> USE DEF TypeOK, GoTo, tables, locals, Working, Ended
<1>1. CASE Start(r)
  BY SMTT(20), <1>1 DEF Start
<1>2. CASE FindContract(r)
  BY <1>2 DEF FindContract
<1>3. CASE InsertContract(r)
  BY <1>3 DEF InsertContract
<1>4. CASE InsertContractConflicts(r)
  BY <1>4 DEF InsertContractConflicts
<1>5. CASE FindNoDeployment(r)
  BY <1>5 DEF FindNoDeployment
<1>6. CASE FindCompilation(r)
  BY SMTT(20), <1>6 DEF FindCompilation
<1>7. CASE DecideReplace(r)
  BY <1>7 DEF DecideReplace
<1>8. CASE InsertCompilation(r)
  BY <1>8 DEF InsertCompilation
<1>9. CASE DeleteSources(r)
  BY <1>9 DEF DeleteSources
<1>10. CASE SourcesDone(r)
  BY <1>10 DEF SourcesDone
<1>11. QED
  BY <1>1, <1>2, <1>3, <1>4, <1>5, <1>6, <1>7, <1>8, <1>9, <1>10 DEF Plain

\* The type of a row that an update writes.
LEMMA UpdatedType ==
    ASSUME TypeOK, NEW r \in Runs, dep[r] \in Runs,
           deployments[dep[r]].address = Address[r]
    PROVE  /\ UpdatedDeployment(r) \in Deployments
           /\ UpdatedDeployment(r).address = Address[r]
           /\ NewDeployment(r) \in Deployments
<1>1. deployments[dep[r]] \in Deployments
  BY DEF TypeOK, NoDeployment
<1>2. QED
  BY <1>1 DEF UpdatedDeployment, NewDeployment, Deployments

LEMMA GoToType ==
    ASSUME TypeOK, NEW r \in Runs, NEW l \in Working \cup Ended, GoTo(r, l)
    PROVE  /\ pc' \in [Runs -> Working \cup Ended]
           /\ faults' \in 0..MaxFaults /\ overlapped' \subseteq Addresses
BY DEF TypeOK, GoTo

LEMMA TypeDeployment ==
    ASSUME TypeOK, Deployed, NEW r \in Runs,
           \/ FindDeployment(r) \/ UpdateDeployment(r) \/ InsertDeployment(r)
           \/ RefetchDeployment(r) \/ InsertDeploymentLegacy(r)
    PROVE  TypeOK'
<1> USE DEF tables, locals
<1>0. NewDeployment(r) \in Deployments
  BY DEF NewDeployment, Deployments
<1>l. {"conflict", "compilation", "updateDeployment", "refetchDeployment"}
         \subseteq Working \cup Ended
  BY DEF Working, Ended
<1>1. CASE FindDeployment(r)
  <2>1. PICK d \in DeploymentsOf(Address[r]) :
           /\ dep' = [dep EXCEPT ![r] = d]
           /\ change' = [change EXCEPT ![r] = Changes(r, d)]
           /\ GoTo(r, IF Changes(r, d) = {} THEN "compilation" ELSE "updateDeployment")
    BY <1>1 DEF FindDeployment
  <2>2. d \in Runs /\ Changes(r, d) \subseteq {"tx", "build"}
    BY DEF DeploymentsOf, Changes
  <2>3. /\ pc' \in [Runs -> Working \cup Ended]
        /\ faults' \in 0..MaxFaults /\ overlapped' \subseteq Addresses
    BY <1>l, <2>1, GoToType
  <2>4. dep' \in [Runs -> Runs \cup {NoRun}] /\ change' \in [Runs -> SUBSET {"tx", "build"}]
    BY <2>1, <2>2 DEF TypeOK
  <2>5. QED
    BY <1>1, <2>3, <2>4 DEF FindDeployment, TypeOK
<1>2. CASE UpdateDeployment(r)
  <2>1. dep[r] \in Runs /\ deployments[dep[r]].address = Address[r]
    BY <1>2 DEF UpdateDeployment, Deployed, Selected, At, DeploymentsOf
  <2>2. UpdatedDeployment(r) \in Deployments
    BY <2>1, UpdatedType
  <2>3. deployments' \in [Runs -> Deployments \cup {NoDeployment}]
    <3>1. deployments' \in {deployments, [deployments EXCEPT ![dep[r]] = UpdatedDeployment(r)]}
      BY <1>2, Zenon DEF UpdateDeployment
    <3>2. deployments \in [Runs -> Deployments \cup {NoDeployment}]
      BY DEF TypeOK
    <3> HIDE DEF TypeOK
    <3>3. QED
      BY <2>2, <3>1, <3>2
  <2>4. /\ pc' \in [Runs -> Working \cup Ended]
        /\ faults' \in 0..MaxFaults /\ overlapped' \subseteq Addresses
    BY <1>2, <1>l, GoToType DEF UpdateDeployment
  <2>5. QED
    BY <1>2, <2>3, <2>4 DEF UpdateDeployment, TypeOK
<1>3. CASE InsertDeployment(r)
  <2>1. deployments' \in [Runs -> Deployments \cup {NoDeployment}]
    BY <1>0, <1>3 DEF InsertDeployment, TypeOK
  <2>2. /\ pc' \in [Runs -> Working \cup Ended]
        /\ faults' \in 0..MaxFaults /\ overlapped' \subseteq Addresses
    BY <1>3, <1>l, GoToType DEF InsertDeployment
  <2>3. QED
    BY <1>3, <2>1, <2>2 DEF InsertDeployment, TypeOK
<1>4. CASE RefetchDeployment(r)
  <2>1. dep' \in [Runs -> Runs \cup {NoRun}]
    BY <1>4 DEF RefetchDeployment, DeploymentsOf, TypeOK
  <2>2. /\ pc' \in [Runs -> Working \cup Ended]
        /\ faults' \in 0..MaxFaults /\ overlapped' \subseteq Addresses
    BY <1>4, <1>l, GoToType DEF RefetchDeployment
  <2>3. QED
    BY <1>4, <2>1, <2>2 DEF RefetchDeployment, TypeOK
<1>5. CASE InsertDeploymentLegacy(r)
  <2>1. /\ deployments' \in [Runs -> Deployments \cup {NoDeployment}]
        /\ dep' \in [Runs -> Runs \cup {NoRun}]
    <3>1. CASE UNCHANGED <<deployments, dep>>
      BY <3>1 DEF TypeOK
    <3>2. CASE /\ deployments' = [deployments EXCEPT ![r] = NewDeployment(r)]
               /\ dep' = [dep EXCEPT ![r] = r]
      BY <1>0, <3>2 DEF TypeOK
    <3>3. QED
      BY <1>5, <3>1, <3>2 DEF InsertDeploymentLegacy
  <2>2. /\ pc' \in [Runs -> Working \cup Ended]
        /\ faults' \in 0..MaxFaults /\ overlapped' \subseteq Addresses
    BY <1>5, <1>l, GoToType DEF InsertDeploymentLegacy
  <2>3. QED
    BY <1>5, <2>1, <2>2 DEF InsertDeploymentLegacy, TypeOK
<1>6. QED
  BY <1>1, <1>2, <1>3, <1>4, <1>5

LEMMA TypeSources ==
    ASSUME TypeOK, NEW r \in Runs, Adds(r)
    PROVE  TypeOK'
<1>1. CASE InsertSource(r)
  BY SMTT(20), <1>1 DEF InsertSource, TypeOK, NewLinks
<1>2. CASE InsertSignatures(r)
  BY <1>2 DEF InsertSignatures, TypeOK, GoTo, locals, Working, Ended
<1>3. CASE InsertSignatureLegacy(r)
  BY SMTT(20), <1>3 DEF InsertSignatureLegacy, TypeOK
<1>4. CASE SignaturesDone(r)
  BY <1>4 DEF SignaturesDone, TypeOK, GoTo, tables, locals, Working, Ended
<1>5. QED
  BY <1>1, <1>2, <1>3, <1>4 DEF Adds

\* A run reports an id that some verification has.
LEMMA ReportType ==
    ASSUME TypeOK, NEW r \in Runs, NEW i \in 0..Len(verified), Report(r, i)
    PROVE  result' \in [Runs -> 0..Len(verified)]
BY Zenon DEF TypeOK, Report

\* What the update of one element of a sequence changes.
LEMMA SeqUpdate ==
    ASSUME NEW S, NEW s \in Seq(S), NEW i \in 1..Len(s), NEW e \in S,
           NEW t, t = [s EXCEPT ![i] = e]
    PROVE  /\ t \in Seq(S) /\ Len(t) = Len(s) /\ t[i] = e
           /\ \A k \in (1..Len(s)) \ {i} : t[k] = s[k]
<1>1. [s EXCEPT ![i] = e] \in Seq(S)
  BY ExceptSeq
<1>2. Len([s EXCEPT ![i] = e]) = Len(s)
  BY ExceptSeq
<1>3. [s EXCEPT ![i] = e][i] = e
  OBVIOUS
<1>4. \A k \in (1..Len(s)) \ {i} : [s EXCEPT ![i] = e][k] = s[k]
  OBVIOUS
<1>5. QED
  BY <1>1, <1>2, <1>3, <1>4

\* An upgrade writes one row, and the number of rows stays.
LEMMA UpgradedRows ==
    ASSUME TypeOK, NEW r \in Runs, chosen[r] \in RowIds,
           verified' = [verified EXCEPT ![chosen[r]] = Upgraded(r)]
    PROVE  /\ verified' \in Seq(Verified) /\ Len(verified') = Len(verified)
           /\ RowIds' = RowIds
           /\ \A i \in RowIds \ {chosen[r]} : verified'[i] = verified[i]
           /\ verified'[chosen[r]] = Upgraded(r)
           /\ Upgraded(r).dep = verified[chosen[r]].dep
           /\ Upgraded(r).build = Build[r] /\ Upgraded(r).exact = TRUE
<1>1. verified \in Seq(Verified) /\ chosen[r] \in 1..Len(verified)
  BY DEF TypeOK, RowIds
<1>2. verified[chosen[r]] \in Verified
  BY <1>1
<1>3. /\ Upgraded(r) \in Verified /\ Upgraded(r).dep = verified[chosen[r]].dep
      /\ Upgraded(r).build = Build[r] /\ Upgraded(r).exact = TRUE
  BY <1>2 DEF Verified, Upgraded
<1>4. /\ verified' \in Seq(Verified) /\ Len(verified') = Len(verified)
      /\ verified'[chosen[r]] = Upgraded(r)
      /\ \A i \in (1..Len(verified)) \ {chosen[r]} : verified'[i] = verified[i]
  BY <1>1, <1>3, SeqUpdate
<1>5. QED
  BY <1>3, <1>4 DEF RowIds

\* An insertion adds one row at the end, or none.
LEMMA InsertedRows ==
    ASSUME TypeOK, NEW r \in Runs, dep[r] \in Runs, InsertVerified(r)
    PROVE  /\ verified' \in Seq(Verified)
           /\ Len(verified) \in Nat
           /\ \A i \in RowIds : verified'[i] = verified[i]
           /\ \/ verified' = verified
              \/ /\ RowIds' = RowIds \cup {Len(verified) + 1}
                 /\ Len(verified') = Len(verified) + 1
                 /\ verified'[Len(verified) + 1] =
                       [dep |-> dep[r], build |-> Build[r], exact |-> IsExact(r)]
<1> DEFINE row == [dep |-> dep[r], build |-> Build[r], exact |-> IsExact(r)]
<1>1. row \in Verified
  <2>1. IsExact(r) \in BOOLEAN
    BY DEF IsExact
  <2>2. QED
    BY <2>1 DEF Verified
<1>2. verified \in Seq(Verified)
  BY DEF TypeOK
<1>3. verified' = verified \/ verified' = Append(verified, row)
  BY DEF InsertVerified
<1> HIDE DEF row
<1>4. CASE verified' = verified
  BY <1>2, <1>4
<1>5. CASE verified' = Append(verified, row)
  <2>1. verified' \in Seq(Verified) /\ Len(verified) \in Nat /\ Len(verified') = Len(verified) + 1
    BY <1>1, <1>2, <1>5
  <2>2. verified'[Len(verified) + 1] = row /\ \A i \in 1..Len(verified) : verified'[i] = verified[i]
    BY <1>1, <1>2, <1>5
  <2>3. QED
    BY <2>1, <2>2 DEF RowIds, row
<1>6. QED
  BY <1>3, <1>4, <1>5

LEMMA TypeVerification ==
    ASSUME TypeOK, Deployed, Verifying, NEW r \in Runs,
           \/ FindVerified(r) \/ UpgradeVerified(r) \/ InsertVerified(r)
           \/ RefetchVerified(r)
    PROVE  TypeOK'
<1>l. {"done", "upgrade", "insert", "conflict", "refetchVerified"} \subseteq Working \cup Ended
  BY DEF Working, Ended
<1>n. Len(verified) \in Nat
  BY DEF TypeOK
<1> USE DEF tables, locals
<1>1. CASE FindVerified(r)
  <2>1. Choice(r) \in 0..Len(verified)
    BY ChoiceIsCandidate
  <2>2. chosen' \in [Runs -> 0..Len(verified)]
    BY <1>1, <2>1 DEF FindVerified, TypeOK
  <2>3. result' \in [Runs -> 0..Len(verified)]
    <3>1. Report(r, Choice(r)) \/ UNCHANGED result
      BY <1>1 DEF FindVerified
    <3>2. QED
      BY <2>1, <3>1, ReportType DEF TypeOK
  <2>4. /\ pc' \in [Runs -> Working \cup Ended]
        /\ faults' \in 0..MaxFaults /\ overlapped' \subseteq Addresses
    BY <1>1, <1>l, GoToType DEF FindVerified
  <2>5. QED
    BY <1>1, <2>2, <2>3, <2>4 DEF FindVerified, TypeOK
<1>2. CASE UpgradeVerified(r)
  <2>1. chosen[r] \in RowIds
    BY <1>2 DEF UpgradeVerified, At, Verifying
  <2>2. /\ pc' \in [Runs -> Working \cup Ended]
        /\ faults' \in 0..MaxFaults /\ overlapped' \subseteq Addresses
    BY <1>2, <1>l, GoToType DEF UpgradeVerified
  <2>3. verified' \in Seq(Verified) /\ Len(verified') = Len(verified)
    <3>1. CASE UNCHANGED verified
      BY <3>1 DEF TypeOK
    <3>2. CASE verified' = [verified EXCEPT ![chosen[r]] = Upgraded(r)]
      BY <2>1, <3>2, UpgradedRows
    <3>3. QED
      BY <1>2, <3>1, <3>2 DEF UpgradeVerified
  <2>4. result' \in [Runs -> 0..Len(verified)]
    <3>1. Report(r, chosen[r]) \/ UNCHANGED result
      BY <1>2 DEF UpgradeVerified
    <3>2. chosen[r] \in 0..Len(verified)
      BY DEF TypeOK
    <3>3. QED
      BY <3>1, <3>2, ReportType DEF TypeOK
  <2>5. QED
    BY <1>2, <2>2, <2>3, <2>4 DEF UpgradeVerified, TypeOK
<1>3. CASE InsertVerified(r)
  <2>1. dep[r] \in Runs
    BY <1>3 DEF InsertVerified, At, Deployed, Selected, DeploymentsOf
  <2>2. verified' \in Seq(Verified) /\ Len(verified') \in {Len(verified), Len(verified) + 1}
    BY <1>3, <2>1, InsertedRows
  <2>3. /\ chosen' \in [Runs -> 0..Len(verified')]
        /\ result' \in [Runs -> 0..Len(verified')]
    <3>1. 0..Len(verified) \subseteq 0..Len(verified')
      BY <1>n, <2>2
    <3>2. QED
      BY <1>3, <3>1 DEF InsertVerified, TypeOK
  <2>4. /\ pc' \in [Runs -> Working \cup Ended]
        /\ faults' \in 0..MaxFaults /\ overlapped' \subseteq Addresses
    BY <1>3, <1>l, GoToType DEF InsertVerified
  <2>5. QED
    BY <1>3, <2>2, <2>3, <2>4 DEF InsertVerified, TypeOK
<1>4. CASE RefetchVerified(r)
  <2> DEFINE S == RowsOfDeployment(dep[r]) \cap RowsOfBuild(Build[r])
  <2>1. S \subseteq 1..Len(verified)
    BY DEF RowsOfBuild, RowIds
  <2>2. Earliest(S) \in 0..Len(verified)
    <3> HIDE DEF S
    <3>1. CASE S = {}
      BY <1>n, <3>1 DEF Earliest
    <3>2. CASE S # {}
      <4>1. S \subseteq Nat
        BY <1>n, <2>1
      <4>2. Earliest(S) \in S
        BY <3>2, <4>1, EarliestExists
      <4>3. Earliest(S) \in 1..Len(verified)
        BY <2>1, <4>2, Zenon
      <4>4. QED
        BY <1>n, <4>3
    <3>3. QED
      BY <3>1, <3>2
  <2>3. result' \in [Runs -> 0..Len(verified)]
    BY <1>4, <2>2, ReportType DEF RefetchVerified
  <2>4. /\ pc' \in [Runs -> Working \cup Ended]
        /\ faults' \in 0..MaxFaults /\ overlapped' \subseteq Addresses
    BY <1>4, <1>l, GoToType DEF RefetchVerified
  <2>5. QED
    BY <1>4, <2>3, <2>4 DEF RefetchVerified, TypeOK
<1>5. QED
  BY <1>1, <1>2, <1>3, <1>4

LEMMA TypeInterrupt ==
    ASSUME TypeOK, NEW r \in Runs, Interrupt(r)
    PROVE  TypeOK'
<1>1. pc' \in [Runs -> Working \cup Ended]
  <2>1. {"idle", "contract"} \subseteq Working \cup Ended
    BY DEF Working, Ended
  <2>2. PICK l \in {"idle", "contract"} : pc' = [pc EXCEPT ![r] = l]
    BY DEF Interrupt
  <2>3. QED
    BY <2>1, <2>2 DEF TypeOK
<1>2. faults' \in 0..MaxFaults
  BY DEF TypeOK, Interrupt
<1>3. QED
  BY <1>1, <1>2 DEF TypeOK, Interrupt, tables, locals

LEMMA TypeStep ==
    ASSUME TypeOK, Deployed, Verifying, NEW r \in Runs, Step(r) \/ Interrupt(r)
    PROVE  TypeOK'
BY TypePlain, TypeDeployment, TypeSources, TypeVerification, TypeInterrupt
   DEF Step, Plain, Adds

-----------------------------------------------------------------------------
(* The invariant of the rows *)

LEMMA InitRow == Init => RowInv
<1> SUFFICES ASSUME Init PROVE RowInv
  OBVIOUS
<1>1. TypeOK
  BY TypeInit
<1>2. Deployed
  BY DEF Init, Deployed, NoDeployment, Selected
<1>3. RowIds = {}
  <2>1. Len(verified) = 0
    BY DEF Init
  <2>2. QED
    BY <2>1 DEF RowIds
<1>4. Verifying /\ VerifiedIsSigned /\ MatchIsTruthful
  BY <1>3 DEF Init, Verifying, VerifiedIsSigned, MatchIsTruthful, Signed
<1>5. SignedSoFar
  BY DEF Init, SignedSoFar, Linking
<1>6. QED
  BY <1>1, <1>2, <1>4, <1>5 DEF RowInv

\* A step of those writes neither deployments, verifications nor locals that
\* the invariant names, and does not reach the verification.
LEMMA PlainMoves ==
    ASSUME TypeOK, NEW r \in Runs, Plain(r)
    PROVE  /\ UNCHANGED <<deployments, verified, signed, dep, chosen>>
           /\ pc' = [pc EXCEPT ![r] = pc'[r]]
           /\ pc'[r] \notin Signed
           /\ pc'[r] \in Selected => pc[r] \in Selected
<1> pc \in [Runs -> Working \cup Ended]
  BY DEF TypeOK
<1> USE DEF tables, locals, GoTo, At, Selected, Signed
<1>1. CASE Start(r)
  BY <1>1 DEF Start
<1>2. CASE FindContract(r)
  BY <1>2 DEF FindContract
<1>3. CASE InsertContract(r)
  BY <1>3 DEF InsertContract
<1>4. CASE InsertContractConflicts(r)
  BY <1>4 DEF InsertContractConflicts
<1>5. CASE FindNoDeployment(r)
  BY <1>5 DEF FindNoDeployment
<1>6. CASE FindCompilation(r)
  BY <1>6 DEF FindCompilation
<1>7. CASE DecideReplace(r)
  BY <1>7 DEF DecideReplace
<1>8. CASE InsertCompilation(r)
  BY <1>8 DEF InsertCompilation
<1>9. CASE DeleteSources(r)
  BY <1>9 DEF DeleteSources
<1>10. CASE SourcesDone(r)
  BY <1>10 DEF SourcesDone
<1>11. QED
  BY <1>1, <1>2, <1>3, <1>4, <1>5, <1>6, <1>7, <1>8, <1>9, <1>10 DEF Plain

LEMMA RowPlain ==
    ASSUME RowInv, NEW r \in Runs, Plain(r)
    PROVE  Deployed' /\ Verifying' /\ VerifiedIsSigned' /\ MatchIsTruthful'
<1> DEFINE l == pc'[r]
<1>1. /\ pc' = [pc EXCEPT ![r] = l]
      /\ l \notin Signed
      /\ l \in Selected => pc[r] \in Selected
  BY PlainMoves DEF RowInv
<1>2. UNCHANGED <<deployments, verified, signed, dep, chosen>>
  BY PlainMoves DEF RowInv
<1>3. AddressesGrow
  BY <1>2 DEF AddressesGrow
<1>4. l \in Selected => dep'[r] \in DeploymentsOf(Address[r])'
  BY <1>1, <1>2 DEF RowInv, Deployed, DeploymentsOf
<1>5. l # "upgrade"
  BY <1>1 DEF Signed
<1>6. QED
  BY <1>1, <1>2, <1>3, <1>4, <1>5, MoveKeeps DEF RowInv, FullySigned

LEMMA RowDeployment ==
    ASSUME RowInv, NEW r \in Runs,
           \/ FindDeployment(r) \/ UpdateDeployment(r) \/ InsertDeployment(r)
           \/ RefetchDeployment(r) \/ InsertDeploymentLegacy(r)
    PROVE  AddressesGrow /\ Deployed' /\ Verifying' /\ VerifiedIsSigned' /\ MatchIsTruthful'
<1> USE DEF tables, locals, GoTo, At
<1>1. CASE FindDeployment(r) \/ RefetchDeployment(r)
  <2>1. PICK d \in DeploymentsOf(Address[r]) : dep' = [dep EXCEPT ![r] = d]
    BY <1>1 DEF FindDeployment, RefetchDeployment
  <2>2. PICK l \in {"compilation", "updateDeployment"} : pc' = [pc EXCEPT ![r] = l]
    BY <1>1 DEF FindDeployment, RefetchDeployment
  <2>3. UNCHANGED <<deployments, verified, signed, chosen>>
    BY <1>1 DEF FindDeployment, RefetchDeployment
  <2>4. AddressesGrow
    BY <2>3 DEF AddressesGrow
  <2>5. dep'[r] \in DeploymentsOf(Address[r])' /\ \A q \in Runs \ {r} : dep'[q] = dep[q]
    BY <2>1, <2>3 DEF RowInv, TypeOK, DeploymentsOf
  <2>6. l \notin Signed /\ l # "upgrade"
    BY <2>2 DEF Signed
  <2>7. QED
    BY <2>2, <2>3, <2>4, <2>5, <2>6, MoveKeeps DEF RowInv, FullySigned
<1>2. CASE UpdateDeployment(r)
  <2>1. dep[r] \in DeploymentsOf(Address[r])
    BY <1>2 DEF UpdateDeployment, RowInv, Deployed, Selected
  <2>2. dep[r] \in Runs /\ deployments[dep[r]].address = Address[r]
    BY <2>1 DEF DeploymentsOf
  <2>3. UpdatedDeployment(r).address = Address[r]
    BY <2>2, UpdatedType DEF RowInv
  <2>4. AddressesGrow
    BY <1>2, <2>2, <2>3 DEF UpdateDeployment, AddressesGrow, RowInv, TypeOK
  <2>5. PICK l \in {"compilation", "conflict"} : pc' = [pc EXCEPT ![r] = l]
    BY <1>2 DEF UpdateDeployment
  <2>6. UNCHANGED <<verified, signed, dep, chosen>>
    BY <1>2 DEF UpdateDeployment
  <2>7. dep'[r] \in DeploymentsOf(Address[r])'
    <3>1. deployments'[dep[r]].address = Address[r]
      BY <2>2, <2>4 DEF AddressesGrow
    <3>2. QED
      BY <2>2, <2>6, <3>1 DEF DeploymentsOf
  <2>8. l \notin Signed /\ l # "upgrade"
    BY <2>5 DEF Signed
  <2>9. QED
    BY <2>4, <2>5, <2>6, <2>7, <2>8, MoveKeeps DEF RowInv, FullySigned
<1>3. CASE InsertDeployment(r)
  <2>1. AddressesGrow
    BY <1>3 DEF InsertDeployment, AddressesGrow, RowInv, TypeOK, Deployed, NewDeployment
  <2>2. pc' = [pc EXCEPT ![r] = "refetchDeployment"] /\ UNCHANGED <<verified, signed, dep, chosen>>
    BY <1>3 DEF InsertDeployment
  <2>3. "refetchDeployment" \notin Selected \cup Signed
    BY DEF Selected, Signed
  <2>4. QED
    BY <2>1, <2>2, <2>3, MoveKeeps DEF RowInv, FullySigned
<1>4. CASE InsertDeploymentLegacy(r)
  <2>1. CASE UNCHANGED <<deployments, dep>>
    <3>1. AddressesGrow
      BY <2>1 DEF AddressesGrow
    <3>2. PICK l \in {"conflict", "compilation"} : pc' = [pc EXCEPT ![r] = l]
      BY <1>4 DEF InsertDeploymentLegacy
    <3>3. UNCHANGED <<verified, signed, chosen>>
      BY <1>4 DEF InsertDeploymentLegacy
    <3>4. l \in Selected => dep'[r] \in DeploymentsOf(Address[r])'
      <4>1. CASE l = "conflict"
        BY <4>1 DEF Selected
      <4>2. CASE l = "compilation"
        <5>1. pc'[r] = "compilation"
          BY <3>2, <4>2 DEF RowInv, TypeOK
        <5>2. /\ deployments' = [deployments EXCEPT ![r] = NewDeployment(r)]
              /\ dep' = [dep EXCEPT ![r] = r]
          BY <1>4, <5>1 DEF InsertDeploymentLegacy, RowInv, TypeOK
        <5>3. QED
          BY <5>2 DEF RowInv, TypeOK, DeploymentsOf, NewDeployment
      <4>3. QED
        BY <3>2, <4>1, <4>2
    <3>5. l \notin Signed /\ l # "upgrade"
      BY <3>2 DEF Signed
    <3>6. QED
      BY <2>1, <3>1, <3>2, <3>3, <3>4, <3>5, MoveKeeps DEF RowInv, FullySigned
  <2>2. CASE /\ deployments' = [deployments EXCEPT ![r] = NewDeployment(r)]
             /\ dep' = [dep EXCEPT ![r] = r] /\ pc' = [pc EXCEPT ![r] = "compilation"]
    <3>1. AddressesGrow
      BY <2>2 DEF AddressesGrow, RowInv, TypeOK, Deployed, NewDeployment
    <3>2. dep'[r] \in DeploymentsOf(Address[r])' /\ \A q \in Runs \ {r} : dep'[q] = dep[q]
      BY <2>2 DEF RowInv, TypeOK, DeploymentsOf, NewDeployment
    <3>3. UNCHANGED <<verified, signed, chosen>>
      BY <1>4 DEF InsertDeploymentLegacy
    <3>4. "compilation" \notin Signed
      BY DEF Signed
    <3>5. QED
      BY <2>2, <3>1, <3>2, <3>3, <3>4, MoveKeeps DEF RowInv, FullySigned
  <2>3. QED
    BY <1>4, <2>1, <2>2 DEF InsertDeploymentLegacy
<1>5. QED
  BY <1>1, <1>2, <1>3, <1>4

LEMMA RowSources ==
    ASSUME RowInv, NEW r \in Runs, Adds(r)
    PROVE  Deployed' /\ Verifying' /\ VerifiedIsSigned' /\ MatchIsTruthful'
<1>1. PICK l : /\ pc' = [pc EXCEPT ![r] = l]
               /\ pc[r] \in {"sources", "signatures"}
               /\ l \in {"sources", "signatures", "verification"}
               /\ l \in Signed => Build[r] \in FullySigned'
  <2>1. CASE InsertSource(r)
    BY <2>1 DEF InsertSource, At, RowInv, TypeOK, Signed
  <2>2. CASE InsertSignatures(r)
    BY <2>2 DEF InsertSignatures, GoTo, At, FullySigned, RowInv, TypeOK
  <2>3. CASE InsertSignatureLegacy(r)
    BY <2>3 DEF InsertSignatureLegacy, At, RowInv, TypeOK, Signed
  <2>4. CASE SignaturesDone(r)
    <3>1. item[r] - 1 = NumSignatures /\ signed[Build[r]] \subseteq 1..NumSignatures
      <4>1. item[r] \in 1..(NumSignatures + 1) /\ signed[Build[r]] \subseteq 1..NumSignatures
        BY DEF RowInv, TypeOK
      <4>2. item[r] > NumSignatures
        BY <2>4 DEF SignaturesDone
      <4>3. NumSignatures \in Nat
        OBVIOUS
      <4>4. QED
        BY <4>1, <4>2, <4>3
    <3>2. 1..(item[r] - 1) \subseteq signed[Build[r]]
      BY <2>4 DEF SignaturesDone, At, RowInv, SignedSoFar, Linking
    <3>3. signed[Build[r]] = 1..NumSignatures
      BY <3>1, <3>2
    <3>4. QED
      BY <2>4, <3>3 DEF SignaturesDone, GoTo, At, FullySigned, tables
  <2>5. QED
    BY <2>1, <2>2, <2>3, <2>4 DEF Adds
<1>2. UNCHANGED <<deployments, verified, dep, chosen>>
  BY DEF Adds, InsertSource,
         InsertSignatures, InsertSignatureLegacy, SignaturesDone, tables, locals
<1>5. FullySigned \subseteq FullySigned'
  <2>1. signed \in [Builds -> SUBSET (1..NumSignatures)] /\ Build[r] \in Builds
        /\ item[r] \in 1..(NumSignatures + 1)
    BY DEF RowInv, TypeOK
  <2>2. CASE InsertSource(r) \/ SignaturesDone(r)
    BY <2>2 DEF InsertSource, SignaturesDone, tables, FullySigned
  <2>3. CASE InsertSignatures(r)
    BY <2>1, <2>3 DEF InsertSignatures, FullySigned
  <2>4. CASE InsertSignatureLegacy(r)
    <3>1. signed' = [signed EXCEPT ![Build[r]] = @ \cup {item[r]}]
      BY <2>4 DEF InsertSignatureLegacy
    <3>2. item[r] \in 1..NumSignatures
      BY <2>1, <2>4 DEF InsertSignatureLegacy
    <3>3. QED
      BY <2>1, <3>1, <3>2 DEF FullySigned
  <2>5. QED
    BY <2>2, <2>3, <2>4 DEF Adds
<1>3. AddressesGrow
  BY <1>2 DEF AddressesGrow
<1>4. dep'[r] \in DeploymentsOf(Address[r])'
  BY <1>1, <1>2 DEF RowInv, Deployed, DeploymentsOf, Selected
<1>6. QED
  BY <1>1, <1>2, <1>3, <1>4, <1>5, MoveKeeps DEF RowInv, Signed, FullySigned

\* Writing one row of a verification, or one more: the deployment is the one
\* the run has selected, of its own address.
LEMMA RowVerification ==
    ASSUME RowInv, NEW r \in Runs,
           \/ FindVerified(r) \/ UpgradeVerified(r) \/ InsertVerified(r)
           \/ RefetchVerified(r)
    PROVE  Deployed' /\ Verifying' /\ VerifiedIsSigned' /\ MatchIsTruthful'
<1> TypeOK /\ Deployed /\ Verifying /\ VerifiedIsSigned /\ MatchIsTruthful
  BY DEF RowInv
<1>1. dep[r] \in Runs /\ deployments[dep[r]].address = Address[r] /\ Build[r] \in FullySigned
  BY DEF FindVerified, UpgradeVerified, InsertVerified, RefetchVerified, At,
         Deployed, Verifying, Selected, Signed, DeploymentsOf
<1>2. UNCHANGED <<deployments, FullySigned, dep>>
  BY DEF FullySigned, FindVerified, UpgradeVerified, InsertVerified, RefetchVerified, tables, locals
<1>3. AddressesGrow
  BY <1>2 DEF AddressesGrow
<1>4. dep'[r] \in DeploymentsOf(Address[r])'
  BY <1>1, <1>2 DEF DeploymentsOf
<1>5. CASE FindVerified(r)
  <2>1. PICK l \in {"done", "upgrade", "insert"} :
           pc' = [pc EXCEPT ![r] = l] /\ (l = "upgrade" => Upgrades(r))
    BY <1>5 DEF FindVerified, GoTo
  <2>2. UNCHANGED verified /\ chosen' = [chosen EXCEPT ![r] = Choice(r)]
    BY <1>5 DEF FindVerified, tables
  <2>3. l = "upgrade" => /\ IsExact(r) /\ chosen'[r] \in RowIds
                         /\ verified[chosen'[r]].dep = dep'[r]
    <3>1. SUFFICES ASSUME l = "upgrade"
                   PROVE  /\ IsExact(r) /\ chosen'[r] \in RowIds
                          /\ verified[chosen'[r]].dep = dep'[r]
      OBVIOUS
    <3>2. IsExact(r) /\ Candidates(r) # {}
      BY <2>1, <3>1 DEF Upgrades
    <3>3. Choice(r) \in Candidates(r)
      BY <3>2, ChoiceIsCandidate
    <3>4. Choice(r) \in RowIds /\ verified[Choice(r)].dep = dep[r]
      BY <3>3 DEF Candidates, RowsOfDeployment
    <3>5. chosen'[r] = Choice(r)
      BY <2>2 DEF TypeOK
    <3>6. QED
      BY <1>2, <3>2, <3>4, <3>5
  <2>4. \A q \in Runs \ {r} : chosen'[q] = chosen[q]
    BY <2>2 DEF TypeOK
  <2>5. QED
    BY <1>1, <1>2, <1>3, <1>4, <2>1, <2>2, <2>3, <2>4, MoveKeeps
<1>6. CASE RefetchVerified(r)
  <2>1. UNCHANGED <<verified, chosen>> /\ pc' = [pc EXCEPT ![r] = "done"]
    BY <1>6 DEF RefetchVerified, tables, GoTo
  <2>2. QED
    BY <1>1, <1>2, <1>3, <1>4, <2>1, MoveKeeps
<1>7. CASE UpgradeVerified(r) /\ UNCHANGED verified
  <2>1. UNCHANGED chosen
    BY <1>7 DEF UpgradeVerified
  <2>2. PICK l \in {"conflict", "done"} : pc' = [pc EXCEPT ![r] = l]
    BY <1>7 DEF UpgradeVerified, GoTo
  <2>3. QED
    BY <1>1, <1>2, <1>3, <1>4, <1>7, <2>1, <2>2, MoveKeeps
<1>8. CASE UpgradeVerified(r) /\ verified' # verified
  <2>1. /\ verified' = [verified EXCEPT ![chosen[r]] = Upgraded(r)]
        /\ pc' = [pc EXCEPT ![r] = "done"] /\ UNCHANGED chosen
    BY <1>8 DEF UpgradeVerified, GoTo
  <2>2. IsExact(r) /\ chosen[r] \in RowIds /\ verified[chosen[r]].dep = dep[r]
    BY <1>8 DEF UpgradeVerified, At, Verifying
  <2>3. /\ RowIds' = RowIds
        /\ \A i \in RowIds \ {chosen[r]} : verified'[i] = verified[i]
        /\ verified'[chosen[r]].dep = dep[r]
        /\ verified'[chosen[r]].build = Build[r] /\ verified'[chosen[r]].exact = TRUE
    BY <2>1, <2>2, UpgradedRows
  <2>4. \A i \in RowIds : verified'[i].dep = verified[i].dep
    BY <2>2, <2>3
  <2>5. Deployed'
    BY <1>2, <2>1 DEF Deployed, DeploymentsOf, TypeOK, Selected
  <2>6. Verifying'
    <3>1. \A q \in Runs : pc'[q] \in Signed => Build[q] \in FullySigned'
      BY <1>1, <1>2, <2>1 DEF Verifying, TypeOK
    <3>2. \A q \in Runs : pc'[q] = "upgrade" =>
             IsExact(q) /\ chosen'[q] \in RowIds' /\ verified'[chosen'[q]].dep = dep'[q]
      BY <1>2, <2>1, <2>3, <2>4 DEF Verifying, TypeOK
    <3>3. \A i \in RowIds' : deployments'[verified'[i].dep].address \in Addresses
      BY <1>2, <2>3, <2>4 DEF Verifying
    <3>4. QED
      BY <3>1, <3>2, <3>3 DEF Verifying, IsExact
  <2>7. VerifiedIsSigned'
    BY <1>1, <1>2, <2>3 DEF VerifiedIsSigned
  <2>8. MatchIsTruthful'
    <3>1. ASSUME NEW i \in RowIds
          PROVE  verified'[i].exact <=>
                   verified'[i].build = OnChain[deployments[verified'[i].dep].address]
      <4>1. CASE i = chosen[r]
        BY <1>1, <2>2, <2>3, <4>1 DEF IsExact
      <4>2. CASE i # chosen[r]
        BY <2>3, <4>2 DEF MatchIsTruthful
      <4>3. QED
        BY <4>1, <4>2
    <3>2. QED
      BY <1>2, <2>3, <3>1 DEF MatchIsTruthful
  <2>9. QED
    BY <2>5, <2>6, <2>7, <2>8
<1>9. CASE InsertVerified(r)
  <2>1. PICK l \in {"done", "refetchVerified"} : pc' = [pc EXCEPT ![r] = l]
    BY <1>9 DEF InsertVerified, GoTo
  <2>2. UNCHANGED chosen
    BY <1>9 DEF InsertVerified, locals
  <2>3. CASE UNCHANGED verified
    BY <1>1, <1>2, <1>3, <1>4, <2>1, <2>2, <2>3, MoveKeeps
  <2>4. CASE verified' # verified
    <3> DEFINE new == Len(verified) + 1
    <3>1. /\ RowIds' = RowIds \cup {new}
          /\ \A i \in RowIds : verified'[i] = verified[i]
          /\ verified'[new] = [dep |-> dep[r], build |-> Build[r], exact |-> IsExact(r)]
      BY <1>1, <1>9, <2>4, InsertedRows
    <3>2. /\ verified'[new].dep = dep[r] /\ verified'[new].build = Build[r]
          /\ verified'[new].exact = IsExact(r)
      BY <3>1
    <3> HIDE DEF new
    <3>3. Deployed'
      BY <1>1, <1>2, <2>1 DEF Deployed, DeploymentsOf, TypeOK
    <3>4. Verifying'
      <4>1. \A q \in Runs : pc'[q] \in Signed => Build[q] \in FullySigned'
        BY <1>1, <1>2, <2>1 DEF Verifying, TypeOK
      <4>2. \A q \in Runs : pc'[q] = "upgrade" =>
               IsExact(q) /\ chosen'[q] \in RowIds' /\ verified'[chosen'[q]].dep = dep'[q]
        BY <1>2, <2>1, <2>2, <3>1 DEF Verifying, TypeOK
      <4>3. \A i \in RowIds' : deployments'[verified'[i].dep].address \in Addresses
        BY <1>1, <1>2, <3>1, <3>2 DEF Verifying
      <4>4. QED
        BY <4>1, <4>2, <4>3 DEF Verifying, IsExact
    <3>5. VerifiedIsSigned'
      BY <1>1, <1>2, <3>1, <3>2 DEF VerifiedIsSigned
    <3>6. MatchIsTruthful'
      <4>1. verified'[new].exact <=>
               verified'[new].build = OnChain[deployments[verified'[new].dep].address]
        BY <1>1, <3>2 DEF IsExact
      <4>2. QED
        BY <1>2, <3>1, <4>1 DEF MatchIsTruthful
    <3>7. QED
      BY <3>3, <3>4, <3>5, <3>6
  <2>5. QED
    BY <2>3, <2>4
<1>10. QED
  BY <1>5, <1>6, <1>7, <1>8, <1>9

LEMMA RowInterrupt ==
    ASSUME RowInv, NEW r \in Runs, Interrupt(r)
    PROVE  Deployed' /\ Verifying' /\ VerifiedIsSigned' /\ MatchIsTruthful'
<1>1. PICK l \in {"idle", "contract"} : pc' = [pc EXCEPT ![r] = l]
  BY DEF Interrupt
<1>2. UNCHANGED <<deployments, verified, signed, dep, chosen>>
  BY DEF Interrupt, tables, locals
<1>3. AddressesGrow
  BY <1>2 DEF AddressesGrow
<1>4. l \notin Selected \cup Signed
  BY <1>1 DEF Selected, Signed
<1>5. QED
  BY <1>1, <1>2, <1>3, <1>4, MoveKeeps DEF RowInv, Signed, FullySigned

\* The other steps leave the signatures alone, and enter no part of a run that
\* comes after the compilation was looked for.
LEMMA UnsignedMoves ==
    ASSUME TypeOK, NEW r \in Runs, Step(r) \/ Interrupt(r),
           ~InsertSignatures(r), ~InsertSignatureLegacy(r), ~FindCompilation(r)
    PROVE  /\ UNCHANGED <<signed, item>> /\ pc' = [pc EXCEPT ![r] = pc'[r]]
           /\ pc'[r] \in Linking => pc[r] \in Linking
<1> pc \in [Runs -> Working \cup Ended]
  BY DEF TypeOK
<1> USE DEF tables, locals, GoTo, At, Linking
<1>1. CASE Start(r)
  BY <1>1 DEF Start
<1>2. CASE FindContract(r)
  BY <1>2 DEF FindContract
<1>3. CASE InsertContract(r)
  BY <1>3 DEF InsertContract
<1>4. CASE InsertContractConflicts(r)
  BY <1>4 DEF InsertContractConflicts
<1>5. CASE FindDeployment(r)
  BY <1>5 DEF FindDeployment
<1>6. CASE FindNoDeployment(r)
  BY <1>6 DEF FindNoDeployment
<1>7. CASE UpdateDeployment(r)
  BY <1>7 DEF UpdateDeployment
<1>8. CASE InsertDeployment(r)
  BY <1>8 DEF InsertDeployment
<1>9. CASE RefetchDeployment(r)
  BY <1>9 DEF RefetchDeployment
<1>10. CASE InsertDeploymentLegacy(r)
  BY <1>10 DEF InsertDeploymentLegacy
<1>11. CASE DecideReplace(r)
  BY <1>11 DEF DecideReplace
<1>12. CASE InsertCompilation(r)
  BY <1>12 DEF InsertCompilation
<1>13. CASE DeleteSources(r)
  BY <1>13 DEF DeleteSources
<1>14. CASE InsertSource(r)
  BY <1>14 DEF InsertSource
<1>15. CASE SourcesDone(r)
  BY <1>15 DEF SourcesDone
<1>16. CASE SignaturesDone(r)
  BY <1>16 DEF SignaturesDone
<1>17. CASE FindVerified(r)
  BY <1>17 DEF FindVerified
<1>18. CASE UpgradeVerified(r)
  BY <1>18 DEF UpgradeVerified
<1>19. CASE InsertVerified(r)
  BY <1>19 DEF InsertVerified
<1>20. CASE RefetchVerified(r)
  BY <1>20 DEF RefetchVerified
<1>21. CASE Interrupt(r)
  BY <1>21 DEF Interrupt
<1>22. QED
  BY <1>1, <1>2, <1>3, <1>4, <1>5, <1>6, <1>7, <1>8, <1>9, <1>10, <1>11, <1>12,
     <1>13, <1>14, <1>15, <1>16, <1>17, <1>18, <1>19, <1>20, <1>21 DEF Step

\* Of the signatures that a run has passed none is lost: a run starts with the
\* first one when it looks for its compilation.
LEMMA SignedSoFarKept ==
    ASSUME RowInv, NEW r \in Runs, Step(r) \/ Interrupt(r)
    PROVE  SignedSoFar'
<1>1. /\ pc \in [Runs -> Working \cup Ended] /\ item \in [Runs -> 1..(NumSignatures + 1)]
      /\ signed \in [Builds -> SUBSET (1..NumSignatures)] /\ Build \in [Runs -> Builds]
      /\ TypeOK /\ SignedSoFar
  BY DEF RowInv, TypeOK
<1>2. CASE InsertSignatures(r)
  <2>1. /\ signed' = [signed EXCEPT ![Build[r]] = 1..NumSignatures] /\ item' = item
        /\ pc' = [pc EXCEPT ![r] = "verification"]
    BY <1>2 DEF InsertSignatures, GoTo, locals
  <2>2. \A b \in Builds : signed[b] \subseteq signed'[b]
    BY <1>1, <2>1
  <2>3. QED
    BY <1>1, <2>1, <2>2 DEF SignedSoFar, Linking
<1>3. CASE InsertSignatureLegacy(r)
  <2>1. /\ signed' = [signed EXCEPT ![Build[r]] = @ \cup {item[r]}]
        /\ item' = [item EXCEPT ![r] = @ + 1] /\ pc' = pc /\ pc[r] = "signatures"
    BY <1>3 DEF InsertSignatureLegacy, At
  <2>2. \A b \in Builds : signed[b] \subseteq signed'[b]
    BY <1>1, <2>1
  <2>3. 1..(item'[r] - 1) \subseteq signed'[Build[r]]
    <3>1. 1..(item[r] - 1) \subseteq signed[Build[r]]
      BY <1>1, <2>1 DEF SignedSoFar, Linking
    <3>2. signed'[Build[r]] = signed[Build[r]] \cup {item[r]} /\ item'[r] - 1 = item[r]
      BY <1>1, <2>1
    <3>3. QED
      BY <1>1, <3>1, <3>2
  <2>4. ASSUME NEW q \in Runs \ {r}, pc'[q] \in Linking
        PROVE  1..(item'[q] - 1) \subseteq signed'[Build[q]]
    BY <1>1, <2>1, <2>2, <2>4 DEF SignedSoFar
  <2>5. QED
    BY <2>3, <2>4 DEF SignedSoFar
<1>4. CASE FindCompilation(r)
  <2>1. /\ item' = [item EXCEPT ![r] = 1] /\ signed' = signed
        /\ pc' = [pc EXCEPT ![r] = pc'[r]]
    BY <1>1, <1>4 DEF FindCompilation, GoTo, tables
  <2>2. ASSUME NEW q \in Runs, pc'[q] \in Linking
        PROVE  1..(item'[q] - 1) \subseteq signed'[Build[q]]
    BY <1>1, <2>1, <2>2 DEF SignedSoFar
  <2>3. QED
    BY <2>2 DEF SignedSoFar
<1>5. CASE UNCHANGED <<signed, item>> /\ pc' = [pc EXCEPT ![r] = pc'[r]]
           /\ (pc'[r] \in Linking => pc[r] \in Linking)
  <2>1. ASSUME NEW q \in Runs, pc'[q] \in Linking
        PROVE  pc[q] \in Linking
    BY <1>1, <1>5, <2>1
  <2>2. QED
    BY <1>1, <1>5, <2>1 DEF SignedSoFar
<1>6. QED
  BY <1>1, <1>2, <1>3, <1>4, <1>5, UnsignedMoves

LEMMA RowNext == RowInv /\ [Next]_vars => RowInv'
<1> SUFFICES ASSUME RowInv, [Next]_vars PROVE RowInv'
  OBVIOUS
<1>1. CASE Next
  <2>1. PICK r \in Runs : Step(r) \/ Interrupt(r)
    BY <1>1 DEF Next
  <2>2. TypeOK'
    BY <2>1, TypeStep DEF RowInv
  <2>3. Deployed' /\ Verifying' /\ VerifiedIsSigned' /\ MatchIsTruthful'
    BY <2>1, RowPlain, RowDeployment, RowSources, RowVerification, RowInterrupt
       DEF Step, Plain, Adds
  <2>4. SignedSoFar'
    BY <2>1, SignedSoFarKept
  <2>5. QED
    BY <2>2, <2>3, <2>4 DEF RowInv
<1>2. CASE UNCHANGED vars
  BY <1>2 DEF vars, tables, locals, RowInv, TypeOK, Deployed, Verifying, SignedSoFar,
     VerifiedIsSigned, MatchIsTruthful, RowIds, DeploymentsOf, IsExact, FullySigned
<1>3. QED
  BY <1>1, <1>2

-----------------------------------------------------------------------------
(* Theorems *)

\* The types of the tables and of the runs.
THEOREM StoreTypeCorrect == Spec => []TypeOK
<1>1. RowInv => TypeOK
  BY DEF RowInv
<1>2. QED
  BY InitRow, RowNext, <1>1, PTL DEF Spec

\* The signatures of every verified build are there, whatever interleaves or
\* is interrupted.
THEOREM SignaturesPrecede == Spec => []VerifiedIsSigned
<1>1. RowInv => VerifiedIsSigned
  BY DEF RowInv
<1>2. QED
  BY InitRow, RowNext, <1>1, PTL DEF Spec

\* A row says exact just when its build is the code of its address.
THEOREM RowsTellTheTruth == Spec => []MatchIsTruthful
<1>1. RowInv => MatchIsTruthful
  BY DEF RowInv
<1>2. QED
  BY InitRow, RowNext, <1>1, PTL DEF Spec

\* A step of the program rewrites no exact row: an upgrade of a row that has
\* become exact since it was selected writes the build it has.
LEMMA ExactStays ==
    ASSUME RowInv, [Next]_vars, NEW i \in RowIds, verified[i].exact
    PROVE  verified'[i] = verified[i]
<1> TypeOK /\ Deployed /\ Verifying /\ MatchIsTruthful
  BY DEF RowInv
<1>1. CASE UNCHANGED verified
  BY <1>1
<1>2. CASE \E r \in Runs : UpgradeVerified(r) /\ verified' # verified
  <2>1. PICK r \in Runs : UpgradeVerified(r) /\ verified' # verified
    BY <1>2
  <2>2. verified' = [verified EXCEPT ![chosen[r]] = Upgraded(r)]
    BY <2>1 DEF UpgradeVerified
  <2>3. IsExact(r) /\ chosen[r] \in RowIds /\ verified[chosen[r]].dep = dep[r]
    BY <2>1 DEF UpgradeVerified, At, Verifying
  <2>4. deployments[dep[r]].address = Address[r]
    BY <2>1 DEF UpgradeVerified, At, Deployed, Selected, DeploymentsOf
  <2>5. verified'[chosen[r]] = Upgraded(r)
        /\ \A k \in RowIds \ {chosen[r]} : verified'[k] = verified[k]
    BY <2>2, <2>3, UpgradedRows
  <2>6. CASE i = chosen[r]
    <3>1. verified[i].build = Build[r] /\ verified[i] \in Verified
      BY <2>3, <2>4, <2>6 DEF MatchIsTruthful, IsExact, TypeOK, RowIds
    <3>2. verified[i].exact = TRUE
      BY <3>1 DEF Verified
    <3>3. Upgraded(r) = verified[i]
      BY <2>6, <3>1, <3>2 DEF Upgraded, Verified
    <3>4. QED
      BY <2>5, <2>6, <3>3
  <2>7. QED
    BY <2>5, <2>6
<1>3. CASE \E r \in Runs : InsertVerified(r)
  <2>1. PICK r \in Runs : InsertVerified(r)
    BY <1>3
  <2>2. dep[r] \in Runs
    BY <2>1 DEF InsertVerified, At, Deployed, Selected, DeploymentsOf
  <2>3. QED
    BY <2>1, <2>2, InsertedRows
<1>4. QED
  BY <1>1, <1>2, <1>3
  DEF Next, Step, vars, tables, Start, FindContract, InsertContract,
      InsertContractConflicts, FindDeployment, FindNoDeployment, UpdateDeployment,
      InsertDeployment, RefetchDeployment, InsertDeploymentLegacy, FindCompilation,
      DecideReplace, InsertCompilation, DeleteSources, InsertSource, SourcesDone,
      InsertSignatures, InsertSignatureLegacy, SignaturesDone, FindVerified, RefetchVerified, Interrupt

\* An exact verification is never rewritten or downgraded.
THEOREM ExactVerificationsStay == Spec => ExactIsFinal
<1>1. RowInv /\ [Next]_vars =>
         [\A i \in RowIds : verified[i].exact => verified'[i] = verified[i]]_verified
  BY ExactStays
<1>2. QED
  BY InitRow, RowNext, <1>1, PTL DEF Spec, ExactIsFinal

-----------------------------------------------------------------------------
(* Runs that do not overlap *)

\* A step other than those below writes no deployment.
LEMMA DeploymentsStay ==
    ASSUME NEW r \in Runs, Step(r) \/ Interrupt(r),
           ~UpdateDeployment(r), ~InsertDeployment(r), ~InsertDeploymentLegacy(r)
    PROVE  UNCHANGED deployments
BY DEF Step, tables, Start, FindContract, InsertContract, InsertContractConflicts,
       FindDeployment, FindNoDeployment, RefetchDeployment, FindCompilation,
       DecideReplace, InsertCompilation, DeleteSources, InsertSource, SourcesDone,
       InsertSignatures, InsertSignatureLegacy, SignaturesDone, FindVerified, UpgradeVerified, InsertVerified,
       RefetchVerified, Interrupt

\* Only a run that inserts a deployment changes those of an address, of its own.
LEMMA DeploymentStep ==
    ASSUME RowInv, NEW r \in Runs, Step(r) \/ Interrupt(r), NEW a \in Addresses
    PROVE  /\ AddressesGrow
           /\ \/ DeploymentsOf(a)' = DeploymentsOf(a)
              \/ /\ Address[r] = a /\ pc[r] = "newDeployment"
                 /\ DeploymentsOf(a)' \subseteq DeploymentsOf(a) \cup {r}
<1> TypeOK /\ Deployed
  BY DEF RowInv
<1>1. CASE UNCHANGED deployments
  BY <1>1 DEF AddressesGrow, DeploymentsOf
<1>2. CASE UpdateDeployment(r)
  <2>1. dep[r] \in Runs /\ deployments[dep[r]].address = Address[r]
    BY <1>2 DEF UpdateDeployment, At, Deployed, Selected, DeploymentsOf
  <2>2. UpdatedDeployment(r).address = Address[r]
    BY <2>1, UpdatedType
  <2>3. \A d \in Runs : deployments'[d].address = deployments[d].address
    BY <1>2, <2>1, <2>2 DEF UpdateDeployment, TypeOK
  <2>4. QED
    BY <2>3 DEF AddressesGrow, DeploymentsOf
<1>3. CASE InsertDeployment(r) \/ InsertDeploymentLegacy(r)
  <2>1. AddressesGrow
    BY <1>3, RowDeployment
  <2>2. pc[r] = "newDeployment"
    BY <1>3 DEF InsertDeployment, InsertDeploymentLegacy, At
  <2>3. \A d \in Runs \ {r} : deployments'[d] = deployments[d]
    BY <1>3 DEF InsertDeployment, InsertDeploymentLegacy, TypeOK
  <2>4. CASE Address[r] = a
    BY <2>1, <2>2, <2>3, <2>4 DEF DeploymentsOf
  <2>5. CASE Address[r] # a
    <3>1. deployments[r].address # a /\ deployments'[r].address # a
      BY <2>1, <2>5 DEF AddressesGrow, Deployed
    <3>2. QED
      BY <2>1, <2>3, <3>1 DEF DeploymentsOf
  <2>6. QED
    BY <2>4, <2>5
<1>4. QED
  BY <1>1, <1>2, <1>3, DeploymentsStay

\* Only a run that inserts a verification adds one to an address, to its own.
LEMMA VerificationStep ==
    ASSUME RowInv, NEW r \in Runs, Step(r) \/ Interrupt(r)
    PROVE  /\ \A i \in RowIds : verified'[i].dep = verified[i].dep
           /\ \/ RowIds' = RowIds
              \/ /\ InsertVerified(r) /\ pc[r] = "insert"
                 /\ dep[r] \in DeploymentsOf(Address[r])
                 /\ RowIds' = RowIds \cup {Len(verified) + 1}
                 /\ verified'[Len(verified) + 1].dep = dep[r]
<1> TypeOK /\ Deployed /\ Verifying
  BY DEF RowInv
<1>1. CASE UNCHANGED verified
  BY <1>1 DEF RowIds
<1>2. CASE UpgradeVerified(r) /\ verified' # verified
  <2>1. verified' = [verified EXCEPT ![chosen[r]] = Upgraded(r)] /\ chosen[r] \in RowIds
    BY <1>2 DEF UpgradeVerified, At, Verifying
  <2>2. /\ \A i \in RowIds \ {chosen[r]} : verified'[i] = verified[i]
        /\ verified'[chosen[r]].dep = verified[chosen[r]].dep
        /\ RowIds' = RowIds
    BY <2>1, UpgradedRows
  <2>3. QED
    BY <2>2
<1>3. CASE InsertVerified(r)
  <2>1. pc[r] = "insert" /\ dep[r] \in DeploymentsOf(Address[r])
    BY <1>3 DEF InsertVerified, At, Deployed, Selected
  <2>2. dep[r] \in Runs
    BY <2>1 DEF DeploymentsOf
  <2>3. CASE UNCHANGED verified
    BY <2>3 DEF RowIds
  <2>4. CASE verified' # verified
    <3>1. /\ \A i \in RowIds : verified'[i] = verified[i]
          /\ RowIds' = RowIds \cup {Len(verified) + 1}
          /\ verified'[Len(verified) + 1] =
                [dep |-> dep[r], build |-> Build[r], exact |-> IsExact(r)]
      BY <1>3, <2>2, <2>4, InsertedRows
    <3>2. verified'[Len(verified) + 1].dep = dep[r]
      BY <3>1
    <3>3. QED
      BY <1>3, <2>1, <3>1, <3>2
  <2>5. QED
    BY <2>3, <2>4
<1>4. QED
  BY <1>1, <1>2, <1>3
  DEF Step, tables, Start, FindContract, InsertContract, InsertContractConflicts,
      FindDeployment, FindNoDeployment, UpdateDeployment, InsertDeployment,
      RefetchDeployment, InsertDeploymentLegacy, FindCompilation, DecideReplace,
      InsertCompilation, DeleteSources, InsertSource, SourcesDone,
      InsertSignatures, InsertSignatureLegacy, SignaturesDone,
      FindVerified, RefetchVerified, Interrupt

\* How a run moves.  It stays at work, unless it starts, and then it overlaps
\* with the runs of its address that are at work; what it is about to insert,
\* it has not found.
Moves(r) ==
    /\ pc' = [pc EXCEPT ![r] = pc'[r]] /\ overlapped \subseteq overlapped'
    /\ \/ pc'[r] \in Working => pc[r] \in Working
       \/ \A q \in Runs : Address[q] = Address[r] /\ pc[q] \in Working =>
             Address[r] \in overlapped'
    /\ pc'[r] = "newDeployment" =>
          UNCHANGED deployments /\ DeploymentsOf(Address[r]) = {}
    /\ pc'[r] = "insert" =>
          UNCHANGED <<verified, dep>> /\ RowsOfDeployment(dep[r]) = {}
    /\ \A q \in Runs \ {r} : dep'[q] = dep[q]

LEMMA StepMoves ==
    ASSUME TypeOK, NEW r \in Runs, Step(r) \/ Interrupt(r)
    PROVE  Moves(r)
<1> /\ pc \in [Runs -> Working \cup Ended] /\ dep \in [Runs -> Runs \cup {NoRun}]
    /\ overlapped \subseteq Addresses
  BY DEF TypeOK
<1> USE DEF Moves, tables, locals, GoTo, At
<1>w. /\ "contract" \in Working /\ "idle" \notin Working /\ "done" \notin Working
      /\ "conflict" \notin Working /\ "refused" \notin Working
  BY DEF Working
<1>1. CASE Start(r)
  BY <1>1 DEF Start
<1>2. CASE Interrupt(r)
  <2>1. \/ pc' = [pc EXCEPT ![r] = "idle"]
        \/ pc' = [pc EXCEPT ![r] = "contract"] /\ pc[r] \in Working
    BY <1>2 DEF Interrupt
  <2>2. UNCHANGED <<dep, overlapped>>
    BY <1>2 DEF Interrupt
  <2>3. QED
    BY <1>w, <2>1, <2>2
<1> USE DEF Working
<1>3. CASE FindContract(r)
  BY <1>3 DEF FindContract
<1>4. CASE InsertContract(r)
  BY <1>4 DEF InsertContract
<1>5. CASE InsertContractConflicts(r)
  BY <1>5 DEF InsertContractConflicts
<1>6. CASE FindDeployment(r)
  BY <1>6 DEF FindDeployment
<1>7. CASE FindNoDeployment(r)
  BY <1>7 DEF FindNoDeployment
<1>8. CASE UpdateDeployment(r)
  BY <1>8 DEF UpdateDeployment
<1>9. CASE InsertDeployment(r)
  BY <1>9 DEF InsertDeployment
<1>10. CASE RefetchDeployment(r)
  BY <1>10 DEF RefetchDeployment
<1>11. CASE InsertDeploymentLegacy(r)
  BY <1>11 DEF InsertDeploymentLegacy
<1>12. CASE FindCompilation(r)
  BY <1>12 DEF FindCompilation
<1>13. CASE DecideReplace(r)
  BY <1>13 DEF DecideReplace
<1>14. CASE InsertCompilation(r)
  BY <1>14 DEF InsertCompilation
<1>15. CASE DeleteSources(r)
  BY <1>15 DEF DeleteSources
<1>16. CASE InsertSource(r)
  BY <1>16 DEF InsertSource
<1>17. CASE SourcesDone(r)
  BY <1>17 DEF SourcesDone
<1>18. CASE InsertSignatures(r) \/ InsertSignatureLegacy(r) \/ SignaturesDone(r)
  BY <1>18 DEF InsertSignatures, InsertSignatureLegacy, SignaturesDone
<1>19. CASE FindVerified(r)
  BY <1>19 DEF FindVerified, Candidates
<1>20. CASE UpgradeVerified(r)
  BY <1>20 DEF UpgradeVerified
<1>21. CASE InsertVerified(r)
  BY <1>21 DEF InsertVerified
<1>22. CASE RefetchVerified(r)
  BY <1>22 DEF RefetchVerified
<1>23. QED
  BY <1>1, <1>2, <1>3, <1>4, <1>5, <1>6, <1>7, <1>8, <1>9, <1>10, <1>11, <1>12, <1>13, <1>14, <1>15, <1>16, <1>17, <1>18, <1>19, <1>20, <1>21, <1>22
     DEF Step

\* A step of a run leaves the other addresses as they are.
LEMMA SerialElsewhere ==
    ASSUME RowInv, NEW r \in Runs, Step(r) \/ Interrupt(r),
           NEW a \in Addresses, Serial(a), Address[r] # a
    PROVE  Serial(a)'
<1> TypeOK /\ Deployed /\ Verifying
  BY DEF RowInv
<1>1. DeploymentsOf(a)' = DeploymentsOf(a) /\ AddressesGrow
  BY DeploymentStep
<1>2. \A q \in Runs \ {r} : pc'[q] = pc[q] /\ dep'[q] = dep[q]
  <2>1. pc \in [Runs -> Working \cup Ended]
    BY DEF TypeOK
  <2>2. QED
    BY <2>1, StepMoves DEF Moves
<1>3. \A q \in Runs : Address[q] = a => q # r
  OBVIOUS
<1>4. CASE RowIds' = RowIds
  <2>1. \A i \in RowIds : verified'[i].dep = verified[i].dep
    BY VerificationStep
  <2>2. \A d : RowsOfDeployment(d)' = RowsOfDeployment(d)
    BY <1>4, <2>1 DEF RowsOfDeployment
  <2>3. RowsOfAddress(a)' = RowsOfAddress(a)
    BY <1>1, <1>4, <2>1, RowsKeepAddress DEF RowsOfAddress
  <2>4. QED
    BY <1>1, <1>2, <1>3, <2>2, <2>3 DEF Serial, OneDeployment, OneVerification
<1>5. CASE RowIds' # RowIds
  <2> DEFINE new == Len(verified) + 1
  <2>1. /\ \A i \in RowIds : verified'[i].dep = verified[i].dep
        /\ dep[r] \in DeploymentsOf(Address[r])
        /\ RowIds' = RowIds \cup {new} /\ verified'[new].dep = dep[r]
    BY <1>5, VerificationStep
  <2> HIDE DEF new
  <2>2. deployments[dep[r]].address = Address[r] /\ dep[r] \in Runs
    BY <2>1 DEF DeploymentsOf
  <2>3. deployments'[dep[r]].address = Address[r]
    BY <1>1, <2>2 DEF AddressesGrow
  <2>4. RowsOfAddress(a)' = RowsOfAddress(a)
    BY <1>1, <2>1, <2>3, RowsKeepAddress DEF RowsOfAddress
  <2>5. \A d \in DeploymentsOf(a) : RowsOfDeployment(d)' = RowsOfDeployment(d)
    BY <2>1, <2>2 DEF RowsOfDeployment, DeploymentsOf
  <2>6. \A q \in Runs : Address[q] = a /\ pc[q] = "insert" => dep[q] \in DeploymentsOf(a)
    BY DEF Deployed, Selected
  <2>7. QED
    BY <1>1, <1>2, <1>3, <2>4, <2>5, <2>6 DEF Serial, OneDeployment, OneVerification
<1>6. QED
  BY <1>4, <1>5

\* A step of the run at work on an address keeps the one deployment and the
\* one verification: it inserts either only if there is none.
LEMMA SerialHere ==
    ASSUME RowInv, NEW r \in Runs, Step(r) \/ Interrupt(r),
           NEW a \in Addresses \ overlapped', Serial(a), Address[r] = a
    PROVE  Serial(a)'
<1> TypeOK /\ Deployed /\ Verifying
  BY DEF RowInv
<1>m. Moves(r)
  BY StepMoves
<1>a. /\ "newDeployment" \in Working /\ "insert" \in Working
      /\ "insert" # "newDeployment"
  BY DEF Working
<1>1. \A q \in Runs \ {r} : pc'[q] = pc[q] /\ dep'[q] = dep[q]
  BY <1>m DEF Moves, TypeOK
<1>2. pc'[r] \in Working =>
        \A q \in Runs : Address[q] = a /\ pc'[q] \in Working => q = r
  BY <1>m, <1>1 DEF Moves, Serial
<1>3. \A p, q \in Runs :
        Address[p] = a /\ Address[q] = a /\ pc'[p] \in Working /\ pc'[q] \in Working => p = q
  BY <1>1, <1>2 DEF Serial
<1>4. OneDeployment(a)'
  <2>1. CASE DeploymentsOf(a)' = DeploymentsOf(a)
    BY <2>1 DEF Serial, OneDeployment
  <2>2. CASE pc[r] = "newDeployment" /\ DeploymentsOf(a)' \subseteq DeploymentsOf(a) \cup {r}
    BY <2>2 DEF Serial, OneDeployment
  <2>3. QED
    BY <2>1, <2>2, DeploymentStep
<1>5. \A q \in Runs : Address[q] = a /\ pc'[q] = "newDeployment" => DeploymentsOf(a)' = {}
  <2>1. CASE pc'[r] = "newDeployment"
    <3>1. DeploymentsOf(a)' = {}
      BY <1>m, <2>1 DEF Moves, DeploymentsOf
    <3>2. QED
      BY <3>1
  <2>2. CASE pc'[r] # "newDeployment"
    <3>1. SUFFICES ASSUME NEW q \in Runs, Address[q] = a, pc'[q] = "newDeployment"
                   PROVE  DeploymentsOf(a)' = {}
      OBVIOUS
    <3>2. q # r /\ pc[q] = "newDeployment"
      BY <1>1, <2>2, <3>1
    <3>3. pc[r] # "newDeployment"
      BY <1>a, <3>1, <3>2 DEF Serial
    <3>4. DeploymentsOf(a)' = DeploymentsOf(a)
      BY <3>3, DeploymentStep
    <3>5. QED
      BY <3>1, <3>2, <3>4 DEF Serial
  <2>3. QED
    BY <2>1, <2>2
<1>6. AddressesGrow
  BY DeploymentStep
<1>7. /\ \A q \in Runs : Address[q] = a /\ pc'[q] = "insert" => RowsOfDeployment(dep[q])' = {}
      /\ OneVerification(a)'
  <2>1. CASE RowIds' = RowIds
    <3>1. \A i \in RowIds : verified'[i].dep = verified[i].dep
      BY VerificationStep
    <3>2. \A q \in Runs : RowsOfDeployment(dep[q])' = {i \in RowIds : verified[i].dep = dep'[q]}
      BY <2>1, <3>1 DEF RowsOfDeployment
    <3>3. RowsOfAddress(a)' = RowsOfAddress(a)
      BY <1>6, <2>1, <3>1, RowsKeepAddress DEF RowsOfAddress
    <3>4. QED
      BY <1>m, <1>1, <3>2, <3>3 DEF Serial, OneVerification, RowsOfDeployment, Moves
  <2>2. CASE RowIds' # RowIds
    <3> DEFINE new == Len(verified) + 1
    <3>1. /\ \A i \in RowIds : verified'[i].dep = verified[i].dep
          /\ pc[r] = "insert" /\ dep[r] \in DeploymentsOf(a)
          /\ RowIds' = RowIds \cup {new} /\ verified'[new].dep = dep[r]
      BY <2>2, VerificationStep
    <3> HIDE DEF new
    <3>2. RowsOfDeployment(dep[r]) = {}
      BY <3>1 DEF Serial
    <3>3. RowsOfAddress(a) = {}
      <4>1. \A i \in RowsOfAddress(a) : verified[i].dep \in DeploymentsOf(a)
        BY <1>6, RowsKeepAddress DEF RowsOfAddress, DeploymentsOf
      <4>2. \A i \in RowsOfAddress(a) : verified[i].dep = dep[r]
        BY <3>1, <4>1 DEF Serial, OneDeployment
      <4>3. QED
        BY <3>2, <4>2 DEF RowsOfAddress, RowsOfDeployment
    <3>4. RowsOfAddress(a)' \subseteq {new}
      BY <1>6, <3>1, <3>3, RowsKeepAddress DEF RowsOfAddress
    <3>5. \A q \in Runs \ {r} : Address[q] = a => pc'[q] # "insert"
      BY <1>a, <1>1, <3>1 DEF Serial
    <3>6. pc'[r] # "insert"
      BY <2>2, <1>m DEF Moves, RowIds
    <3>7. QED
      BY <3>4, <3>5, <3>6 DEF OneVerification
  <2>3. QED
    BY <2>1, <2>2
<1>8. QED
  BY <1>3, <1>4, <1>5, <1>7 DEF Serial

LEMMA SerialInit == Init => SerialInv
<1>1. ASSUME Init PROVE Len(verified) = 0
  BY <1>1 DEF Init
<1>2. "idle" \notin Working
  BY DEF Working
<1>3. ASSUME Init, NEW a \in Addresses PROVE DeploymentsOf(a) = {}
  BY <1>3 DEF Init, DeploymentsOf, NoDeployment
<1>4. ASSUME Init PROVE RowIds = {}
  BY <1>1, <1>4 DEF RowIds
<1>5. ASSUME Init, NEW a \in Addresses PROVE Serial(a)
  BY <1>2, <1>3, <1>4, <1>5
     DEF Init, Serial, OneDeployment, OneVerification, RowsOfAddress
<1>6. QED
  BY <1>5 DEF SerialInv

LEMMA SerialNext == RowInv /\ SerialInv /\ [Next]_vars => SerialInv'
<1> SUFFICES ASSUME RowInv, SerialInv, [Next]_vars PROVE SerialInv'
  OBVIOUS
<1>1. CASE Next
  <2>1. PICK r \in Runs : Step(r) \/ Interrupt(r)
    BY <1>1 DEF Next
  <2>2. overlapped \subseteq overlapped'
    BY <2>1, StepMoves DEF Moves, RowInv
  <2>3. ASSUME NEW a \in Addresses \ overlapped' PROVE Serial(a)'
    <3>1. Serial(a)
      BY <2>2 DEF SerialInv
    <3>2. CASE Address[r] = a
      BY <2>1, <3>1, <3>2, SerialHere
    <3>3. CASE Address[r] # a
      BY <2>1, <3>1, <3>3, SerialElsewhere
    <3>4. QED
      BY <3>2, <3>3
  <2>4. QED
    BY <2>3 DEF SerialInv
<1>2. CASE UNCHANGED vars
  BY <1>2 DEF vars, tables, locals, SerialInv, Serial, OneDeployment,
     OneVerification, DeploymentsOf, RowsOfDeployment, RowsOfAddress, RowIds
<1>3. QED
  BY <1>1, <1>2

\* Where no runs have overlapped, an address has one deployment and one
\* verification, whatever was interrupted and repeated.
THEOREM SerialRunsShare == Spec => []SerialRunsShareRows
<1>1. SerialInv => SerialRunsShareRows
  BY DEF SerialInv, Serial, SerialRunsShareRows
<1>2. QED
  BY InitRow, RowNext, SerialInit, SerialNext, <1>1, PTL DEF Spec

-----------------------------------------------------------------------------
(* The sources of a build *)

\* The locations of a run whose build has a compilation.
Having == {"matches", "deleteSources", "sources", "signatures", "verification",
           "upgrade", "insert", "refetchVerified"}

\* Those of a run that has not begun to insert its sources.
Before == {"matches", "newCompilation", "deleteSources"}

\* A run past its compilation, and every verification, has one.
Compiling ==
    /\ \A r \in Runs : pc[r] \in Having => Build[r] \in compiled
    /\ \A i \in RowIds : verified[i].build \in compiled
    /\ \A r \in Runs : pc[r] \in Before => path[r] = 1

\* A run that inserts the sources of b, after the last run that deleted them.
Inserting(r, b) ==
    Build[r] = b /\ pc[r] = "sources" /\ 1..(path[r] - 1) \subseteq links[b]

\* Sources that are missing are about to be inserted.
Sourced ==
    faults = 0 => \A b \in compiled :
        links[b] = 1..NumPaths \/ \E r \in Runs : Inserting(r, b)

SourcesInv == Compiling /\ Sourced

LEMMA SourcesInit == Init => SourcesInv
<1> SUFFICES ASSUME Init PROVE SourcesInv
  OBVIOUS
<1>1. RowIds = {}
  <2>1. Len(verified) = 0
    BY DEF Init
  <2>2. QED
    BY <2>1 DEF RowIds
<1>2. QED
  BY <1>1 DEF Init, SourcesInv, Compiling, Sourced, Having, Before

\* What a step does to the compilations, and to the run that takes it.
Compiles(r) ==
    /\ pc' = [pc EXCEPT ![r] = pc'[r]]
    /\ compiled \subseteq compiled'
    /\ pc'[r] \in Having => pc[r] \in Having \/ Build[r] \in compiled'
    /\ pc'[r] \in Before => path'[r] = 1
    /\ \A q \in Runs \ {r} : path'[q] = path[q]

\* A step that neither adds a compilation nor writes its sources: a run that
\* inserts sources is done with them.
Leaves(r) ==
    /\ UNCHANGED <<links, compiled>>
    /\ pc[r] = "compilation" \/ UNCHANGED path
    /\ pc[r] = "sources" => path[r] > NumPaths \/ faults' # 0

LEMMA StepCompiles ==
    ASSUME TypeOK, Compiling, NEW r \in Runs, Step(r) \/ Interrupt(r)
    PROVE  /\ Compiles(r)
           /\ \/ Leaves(r) \/ InsertCompilation(r) \/ DeleteSources(r) \/ InsertSource(r)
<1> /\ pc \in [Runs -> Working \cup Ended] /\ path \in [Runs -> 1..(NumPaths + 1)]
    /\ faults \in Nat
  BY DEF TypeOK
<1>p. pc[r] \in Having => Build[r] \in compiled
  BY DEF Compiling
<1>q. pc[r] \in Before => path[r] = 1
  BY DEF Compiling
<1> USE DEF Compiles, Leaves, tables, locals, GoTo, At, Having, Before
<1>1. CASE Start(r)
  BY <1>1 DEF Start
<1>2. CASE Interrupt(r)
  <2>1. pc' = [pc EXCEPT ![r] = "idle"] \/ pc' = [pc EXCEPT ![r] = "contract"]
    BY <1>2 DEF Interrupt
  <2>2. UNCHANGED <<links, compiled, path>> /\ faults' # 0
    BY <1>2 DEF Interrupt
  <2>3. QED
    BY <2>1, <2>2
<1>3. CASE FindContract(r)
  BY <1>3 DEF FindContract
<1>4. CASE InsertContract(r)
  BY <1>4 DEF InsertContract
<1>5. CASE InsertContractConflicts(r)
  BY <1>5 DEF InsertContractConflicts
<1>6. CASE FindDeployment(r)
  BY <1>6 DEF FindDeployment
<1>7. CASE FindNoDeployment(r)
  BY <1>7 DEF FindNoDeployment
<1>8. CASE UpdateDeployment(r)
  BY <1>8 DEF UpdateDeployment
<1>9. CASE InsertDeployment(r)
  BY <1>9 DEF InsertDeployment
<1>10. CASE RefetchDeployment(r)
  BY <1>10 DEF RefetchDeployment
<1>11. CASE InsertDeploymentLegacy(r)
  BY <1>11 DEF InsertDeploymentLegacy
<1>12. CASE FindCompilation(r)
  BY <1>12 DEF FindCompilation
<1>13. CASE DecideReplace(r)
  BY <1>13, <1>q DEF DecideReplace
<1>14. CASE InsertCompilation(r)
  BY <1>14 DEF InsertCompilation
<1>15. CASE DeleteSources(r)
  BY <1>15 DEF DeleteSources
<1>16. CASE InsertSource(r)
  BY <1>16 DEF InsertSource
<1>17. CASE SourcesDone(r)
  BY <1>17 DEF SourcesDone
<1>18. CASE InsertSignatures(r) \/ InsertSignatureLegacy(r) \/ SignaturesDone(r)
  BY <1>18 DEF InsertSignatures, InsertSignatureLegacy, SignaturesDone
<1>19. CASE FindVerified(r)
  BY <1>19 DEF FindVerified
<1>20. CASE UpgradeVerified(r)
  BY <1>20 DEF UpgradeVerified
<1>21. CASE InsertVerified(r)
  BY <1>21 DEF InsertVerified
<1>22. CASE RefetchVerified(r)
  BY <1>22 DEF RefetchVerified
<1>23. QED
  BY <1>1, <1>2, <1>3, <1>4, <1>5, <1>6, <1>7, <1>8, <1>9, <1>10, <1>11, <1>12, <1>13, <1>14, <1>15, <1>16, <1>17, <1>18, <1>19, <1>20, <1>21, <1>22
     DEF Step

\* A row that is new or rewritten is of the build of the run at work.
LEMMA NewRowsAreCompiled ==
    ASSUME RowInv, Compiling, NEW r \in Runs, Step(r) \/ Interrupt(r),
           compiled \subseteq compiled'
    PROVE  \A i \in RowIds' : verified'[i].build \in compiled'
<1> TypeOK /\ Deployed /\ Verifying
  BY DEF RowInv
<1>0. \A i \in RowIds : verified[i].build \in compiled'
  BY DEF Compiling
<1>1. CASE UNCHANGED verified
  BY <1>0, <1>1 DEF RowIds
<1>2. CASE UpgradeVerified(r) /\ verified' # verified
  <2>1. /\ verified' = [verified EXCEPT ![chosen[r]] = Upgraded(r)]
        /\ chosen[r] \in RowIds /\ Build[r] \in compiled
    BY <1>2 DEF UpgradeVerified, At, Verifying, Compiling, Having
  <2>2. /\ \A i \in RowIds \ {chosen[r]} : verified'[i] = verified[i]
        /\ verified'[chosen[r]].build = Build[r]
        /\ RowIds' = RowIds
    BY <2>1, UpgradedRows
  <2>3. QED
    BY <1>0, <2>1, <2>2
<1>3. CASE InsertVerified(r) /\ verified' # verified
  <2>1. dep[r] \in Runs /\ Build[r] \in compiled
    BY <1>3 DEF InsertVerified, At, Deployed, Selected, DeploymentsOf, Compiling, Having
  <2>2. /\ \A i \in RowIds : verified'[i] = verified[i]
        /\ RowIds' = RowIds \cup {Len(verified) + 1}
        /\ verified'[Len(verified) + 1] =
              [dep |-> dep[r], build |-> Build[r], exact |-> IsExact(r)]
    BY <1>3, <2>1, InsertedRows
  <2>3. verified'[Len(verified) + 1].build = Build[r]
    BY <2>2
  <2>4. QED
    BY <1>0, <2>1, <2>2, <2>3
<1>4. QED
  BY <1>1, <1>2, <1>3
  DEF Step, tables, Start, FindContract, InsertContract, InsertContractConflicts,
      FindDeployment, FindNoDeployment, UpdateDeployment, InsertDeployment,
      RefetchDeployment, InsertDeploymentLegacy, FindCompilation, DecideReplace,
      InsertCompilation, DeleteSources, InsertSource, SourcesDone,
      InsertSignatures, InsertSignatureLegacy, SignaturesDone,
      FindVerified, RefetchVerified, Interrupt

\* What the sources of a build may be: never more than it has.
LEMMA LinksType ==
    ASSUME TypeOK, NEW b \in Builds
    PROVE  links[b] \subseteq 1..NumPaths
BY DEF TypeOK

\* A run that ends its insertion leaves all of the sources behind.
LEMMA SourcedLeaves ==
    ASSUME TypeOK, Compiling, NEW r \in Runs, Compiles(r), Leaves(r), faults' = 0,
           NEW b \in compiled,
           links[b] = 1..NumPaths \/ \E q \in Runs : Inserting(q, b)
    PROVE  links'[b] = 1..NumPaths \/ \E q \in Runs : Inserting(q, b)'
<1>1. UNCHANGED <<links, compiled>>
  BY DEF Leaves
<1>2. CASE links[b] = 1..NumPaths
  BY <1>1, <1>2
<1>3. ASSUME NEW q \in Runs, Inserting(q, b)
      PROVE  links'[b] = 1..NumPaths \/ Inserting(q, b)'
  <2>1. CASE q # r
    BY <1>1, <1>3, <2>1 DEF Inserting, Compiles, TypeOK
  <2>2. CASE q = r
    <3>1. path[r] > NumPaths /\ path[r] \in 1..(NumPaths + 1)
      BY <1>3, <2>2 DEF Inserting, Leaves, TypeOK
    <3>2. 1..NumPaths \subseteq links[b]
      <4>1. path[r] - 1 = NumPaths
        BY <3>1
      <4>2. QED
        BY <1>3, <2>2, <4>1 DEF Inserting
    <3>3. links[b] \subseteq 1..NumPaths
      BY LinksType DEF TypeOK
    <3>4. QED
      BY <1>1, <3>2, <3>3
  <2>3. QED
    BY <2>1, <2>2
<1>4. QED
  BY <1>2, <1>3

\* The run that adds a compilation, or deletes its sources, inserts them.
LEMMA SourcedBegins ==
    ASSUME TypeOK, Compiling, NEW r \in Runs, Compiles(r),
           InsertCompilation(r) \/ DeleteSources(r),
           NEW b \in compiled',
           b \in compiled => links[b] = 1..NumPaths \/ \E q \in Runs : Inserting(q, b)
    PROVE  links'[b] = 1..NumPaths \/ \E q \in Runs : Inserting(q, b)'
<1>1. pc[r] # "sources" /\ path' = path /\ path[r] = 1
  BY DEF InsertCompilation, DeleteSources, At, locals, Compiling, Before
<1>2. \A q \in Runs \ {r} : pc'[q] = pc[q]
  BY DEF Compiles, TypeOK
<1>3. CASE b = Build[r] /\ pc'[r] = "sources"
  <2>1. 1..(path'[r] - 1) = {}
    BY <1>1
  <2>2. Inserting(r, b)'
    BY <1>3, <2>1 DEF Inserting
  <2>3. QED
    BY <2>2
<1>4. CASE ~(b = Build[r] /\ pc'[r] = "sources")
  <2>1. b \in compiled /\ links'[b] = links[b]
    BY <1>4 DEF InsertCompilation, DeleteSources, GoTo, TypeOK
  <2>2. ASSUME NEW q \in Runs, Inserting(q, b) PROVE Inserting(q, b)'
    BY <1>1, <1>2, <2>1, <2>2 DEF Inserting
  <2>3. QED
    BY <2>1, <2>2
<1>5. QED
  BY <1>3, <1>4

\* One more source keeps those that there are.
LEMMA SourcedInserts ==
    ASSUME TypeOK, NEW r \in Runs, InsertSource(r), NEW b \in compiled,
           links[b] = 1..NumPaths \/ \E q \in Runs : Inserting(q, b)
    PROVE  links'[b] = 1..NumPaths \/ \E q \in Runs : Inserting(q, b)'
<1>1. /\ path[r] \in 1..NumPaths /\ UNCHANGED pc
      /\ path' = [path EXCEPT ![r] = path[r] + 1]
      /\ links' = [links EXCEPT ![Build[r]] = links[Build[r]] \cup {path[r]}]
  BY DEF InsertSource, NewLinks, TypeOK
<1>2. links[b] \subseteq links'[b] /\ links'[b] \subseteq links[b] \cup {path[r]}
  BY <1>1 DEF TypeOK
<1>3. CASE links[b] = 1..NumPaths
  BY <1>1, <1>2, <1>3
<1>4. ASSUME NEW q \in Runs, Inserting(q, b) PROVE Inserting(q, b)'
  <2>1. CASE q # r
    <3>1. path'[q] = path[q]
      BY <1>1, <2>1 DEF TypeOK
    <3>2. QED
      BY <1>1, <1>2, <1>4, <3>1 DEF Inserting
  <2>2. CASE q = r
    <3>1. path'[r] - 1 = path[r] /\ path[r] \in links'[b]
      BY <1>1, <1>4, <2>2 DEF Inserting, TypeOK
    <3>2. \A k \in 1..path[r] : k \in 1..(path[r] - 1) \/ k = path[r]
      BY <1>1
    <3>3. 1..(path'[r] - 1) \subseteq links'[b]
      BY <1>2, <1>4, <2>2, <3>1, <3>2 DEF Inserting
    <3>4. QED
      BY <1>1, <1>4, <2>2, <3>3 DEF Inserting
  <2>3. QED
    BY <2>1, <2>2
<1>5. QED
  BY <1>3, <1>4

LEMMA SourcesNext == RowInv /\ SourcesInv /\ [Next]_vars => SourcesInv'
<1> SUFFICES ASSUME RowInv, SourcesInv, [Next]_vars PROVE SourcesInv'
  OBVIOUS
<1> TypeOK /\ Compiling /\ Sourced
  BY DEF RowInv, SourcesInv
<1>1. CASE Next
  <2>1. PICK r \in Runs : Step(r) \/ Interrupt(r)
    BY <1>1 DEF Next
  <2>2. Compiles(r)
    BY <2>1, StepCompiles
  <2>3. Compiling'
    <3>1. \A q \in Runs : pc'[q] \in Having => Build[q] \in compiled'
      BY <2>2 DEF Compiles, Compiling, TypeOK
    <3>2. ASSUME NEW q \in Runs, pc'[q] \in Before PROVE path'[q] = 1
      <4>1. CASE q = r
        BY <2>2, <3>2, <4>1 DEF Compiles
      <4>2. CASE q # r
        <5>1. pc'[q] = pc[q] /\ path'[q] = path[q]
          BY <2>2, <4>2 DEF Compiles, TypeOK
        <5>2. QED
          BY <3>2, <5>1 DEF Compiling
      <4>3. QED
        BY <4>1, <4>2
    <3>3. \A i \in RowIds' : verified'[i].build \in compiled'
      BY <2>1, <2>2, NewRowsAreCompiled DEF Compiles
    <3>4. QED
      BY <3>1, <3>2, <3>3 DEF Compiling
  <2>4. Sourced'
    <3>1. SUFFICES ASSUME faults' = 0, NEW b \in compiled'
                   PROVE  links'[b] = 1..NumPaths \/ \E q \in Runs : Inserting(q, b)'
      BY DEF Sourced
    <3>2. faults = 0
      BY <2>1, <3>1 DEF Step, Interrupt, TypeOK, GoTo, Start, FindContract,
         InsertContract, InsertContractConflicts, FindDeployment, FindNoDeployment,
         UpdateDeployment, InsertDeployment, RefetchDeployment,
         InsertDeploymentLegacy, FindCompilation, DecideReplace, InsertCompilation,
         DeleteSources, InsertSource, SourcesDone,
         InsertSignatures, InsertSignatureLegacy, SignaturesDone, FindVerified,
         UpgradeVerified, InsertVerified, RefetchVerified
    <3>3. b \in compiled => links[b] = 1..NumPaths \/ \E q \in Runs : Inserting(q, b)
      BY <3>2 DEF Sourced
    <3>4. CASE Leaves(r)
      BY <2>2, <3>1, <3>3, <3>4, SourcedLeaves DEF Leaves
    <3>5. CASE InsertCompilation(r) \/ DeleteSources(r)
      BY <2>2, <3>3, <3>5, SourcedBegins
    <3>6. CASE InsertSource(r)
      BY <3>3, <3>6, SourcedInserts DEF InsertSource
    <3>7. QED
      BY <2>1, <3>4, <3>5, <3>6, StepCompiles
  <2>5. QED
    BY <2>3, <2>4 DEF SourcesInv
<1>2. CASE UNCHANGED vars
  BY <1>2 DEF vars, tables, locals, SourcesInv, Compiling, Sourced, Inserting, RowIds
<1>3. QED
  BY <1>1, <1>2

\* Once no run is working, every verified build has all of its sources, if no
\* run was interrupted, although runs that share the build find it while its
\* sources are being inserted, or delete them to insert them again.
THEOREM SourcesAreComplete == Spec => []UninterruptedHasSources
<1>1. RowInv /\ SourcesInv => UninterruptedHasSources
  <2>1. "sources" \in Working
    BY DEF Working
  <2>2. QED
    BY <2>1 DEF SourcesInv, Compiling, Sourced, Inserting,
       UninterruptedHasSources, VerifiedHasSources
<1>2. QED
  BY InitRow, RowNext, SourcesInit, SourcesNext, <1>1, PTL DEF Spec

-----------------------------------------------------------------------------
(* What runs that do not overlap report *)

\* The locations of a run that has found, updated or inserted its deployment.
Settled == {"refetchDeployment", "compilation", "matches", "newCompilation",
            "deleteSources", "sources", "signatures", "verification",
            "upgrade", "insert", "refetchVerified"}

\* The deployments of an address name the contract whose code it has.
Names(a) == \A d \in DeploymentsOf(a) : deployments[d].build = OnChain[a]

\* Only an exact run names its build in a deployment that it has found.
Renaming ==
    \A r \in Runs : pc[r] = "updateDeployment" /\ "build" \in change[r] => IsExact(r)

\* An exact run has the deployment name its build before it verifies; what it
\* has inserted, it will find.
Naming(a) ==
    /\ \A r \in Runs : Address[r] = a /\ IsExact(r) =>
          /\ pc[r] \in Settled => Names(a)
          /\ pc[r] = "updateDeployment" => "build" \in change[r] \/ Names(a)
    /\ \A i \in RowsOfAddress(a) : verified[i].exact => Names(a)
    /\ \A r \in Runs : Address[r] = a /\ pc[r] = "refetchVerified" =>
          \E i \in RowIds : verified[i].dep = dep[r] /\ verified[i].build = Build[r]

\* What a completed job has reported is a verification of its address.
Reported(r) ==
    pc[r] = "done" /\ r \notin Legacy =>
        /\ result[r] \in RowsOfAddress(Address[r])
        /\ IsExact(r) => verified[result[r]].exact

ReportInv ==
    /\ Renaming
    /\ \A a \in Addresses \ overlapped : Naming(a)
    /\ \A r \in Runs : Address[r] \notin overlapped => Reported(r)

LEMMA ReportInit == Init => ReportInv
<1> SUFFICES ASSUME Init PROVE ReportInv
  OBVIOUS
<1>1. RowIds = {}
  <2>1. Len(verified) = 0
    BY DEF Init
  <2>2. QED
    BY <2>1 DEF RowIds
<1>2. QED
  BY <1>1 DEF Init, ReportInv, Renaming, Naming, Reported, Settled, RowsOfAddress

\* A verification that a step writes is the one of the run that takes it.
OwnRow(r, i) ==
    /\ pc[r] \in {"upgrade", "insert"}
    /\ verified'[i].dep = dep[r] /\ verified'[i].build = Build[r]
    /\ verified'[i].exact <=> IsExact(r)

LEMMA OwnRows ==
    ASSUME RowInv, NEW r \in Runs, Step(r) \/ Interrupt(r)
    PROVE  /\ RowIds \subseteq RowIds'
           /\ \A i \in RowIds : verified'[i].dep = verified[i].dep
           /\ \/ UNCHANGED verified
              \/ UNCHANGED <<deployments, dep>> /\ dep[r] \in DeploymentsOf(Address[r])
           /\ \A i \in RowIds' :
                 OwnRow(r, i) \/ (i \in RowIds /\ verified'[i] = verified[i])
<1> TypeOK /\ Deployed /\ Verifying
  BY DEF RowInv
<1>1. CASE UNCHANGED verified
  BY <1>1 DEF RowIds
<1>2. CASE UpgradeVerified(r) /\ verified' # verified
  <2>1. /\ verified' = [verified EXCEPT ![chosen[r]] = Upgraded(r)]
        /\ chosen[r] \in RowIds /\ verified[chosen[r]].dep = dep[r]
        /\ IsExact(r) /\ pc[r] = "upgrade" /\ UNCHANGED <<deployments, dep>>
    BY <1>2 DEF UpgradeVerified, At, Verifying
  <2>2. /\ \A i \in RowIds \ {chosen[r]} : verified'[i] = verified[i]
        /\ verified'[chosen[r]].build = Build[r]
        /\ verified'[chosen[r]].dep = verified[chosen[r]].dep
        /\ verified'[chosen[r]].exact = TRUE
        /\ RowIds' = RowIds
    BY <2>1, UpgradedRows
  <2>3. dep[r] \in DeploymentsOf(Address[r])
    BY <2>1 DEF Deployed, Selected
  <2>4. OwnRow(r, chosen[r])
    BY <2>1, <2>2 DEF OwnRow
  <2>5. QED
    BY <2>1, <2>2, <2>3, <2>4
<1>3. CASE InsertVerified(r) /\ verified' # verified
  <2>1. pc[r] = "insert" /\ UNCHANGED <<deployments, dep>>
    BY <1>3 DEF InsertVerified, At, locals
  <2>2. dep[r] \in DeploymentsOf(Address[r])
    BY <2>1 DEF Deployed, Selected
  <2>3. dep[r] \in Runs
    BY <2>2 DEF DeploymentsOf
  <2>4. /\ \A i \in RowIds : verified'[i] = verified[i]
        /\ RowIds' = RowIds \cup {Len(verified) + 1}
        /\ verified'[Len(verified) + 1] =
              [dep |-> dep[r], build |-> Build[r], exact |-> IsExact(r)]
    BY <1>3, <2>3, InsertedRows
  <2>5. OwnRow(r, Len(verified) + 1)
    BY <2>1, <2>4 DEF OwnRow
  <2>6. QED
    BY <2>1, <2>2, <2>4, <2>5
<1>4. QED
  BY <1>1, <1>2, <1>3
  DEF Step, tables, Start, FindContract, InsertContract, InsertContractConflicts,
      FindDeployment, FindNoDeployment, UpdateDeployment, InsertDeployment,
      RefetchDeployment, InsertDeploymentLegacy, FindCompilation, DecideReplace,
      InsertCompilation, DeleteSources, InsertSource, SourcesDone,
      InsertSignatures, InsertSignatureLegacy, SignaturesDone,
      FindVerified, RefetchVerified, Interrupt

\* The rows of an address that was not overlapped are those it had, and those
\* of a run that verifies it.
LEMMA RowsOfAddressStep ==
    ASSUME RowInv, NEW r \in Runs, Step(r) \/ Interrupt(r), NEW a \in Addresses,
           NEW i \in RowsOfAddress(a)'
    PROVE  \/ i \in RowsOfAddress(a) /\ verified'[i] = verified[i]
           \/ Address[r] = a /\ OwnRow(r, i) /\ UNCHANGED deployments
<1> TypeOK /\ Deployed /\ Verifying
  BY DEF RowInv
<1>1. AddressesGrow
  BY DeploymentStep
<1>2. i \in RowIds' /\ deployments'[verified'[i].dep].address = a
  BY DEF RowsOfAddress
<1>3. CASE i \in RowIds /\ verified'[i] = verified[i]
  BY <1>1, <1>2, <1>3, RowsKeepAddress DEF RowsOfAddress
<1>4. CASE OwnRow(r, i) /\ ~(i \in RowIds /\ verified'[i] = verified[i])
  <2>1. UNCHANGED <<deployments, dep>> /\ dep[r] \in DeploymentsOf(Address[r])
    BY <1>2, <1>4, OwnRows DEF RowIds
  <2>2. deployments'[dep[r]].address = Address[r]
    BY <2>1 DEF DeploymentsOf
  <2>3. QED
    BY <1>2, <1>4, <2>1, <2>2 DEF OwnRow
<1>5. QED
  BY <1>2, <1>3, <1>4, OwnRows

\* A step of a run leaves the deployments of other addresses as they are, and
\* one of a run that is not at work leaves all.
LEMMA DeploymentsElsewhere ==
    ASSUME RowInv, NEW r \in Runs, Step(r) \/ Interrupt(r), NEW a \in Addresses,
           Address[r] # a
    PROVE  /\ DeploymentsOf(a)' = DeploymentsOf(a)
           /\ \A d \in DeploymentsOf(a) : deployments'[d] = deployments[d]
<1> TypeOK /\ Deployed
  BY DEF RowInv
<1>1. DeploymentsOf(a)' = DeploymentsOf(a)
  BY DeploymentStep
<1>2. CASE UNCHANGED deployments
  BY <1>1, <1>2
<1>3. CASE UpdateDeployment(r)
  <2>1. dep[r] \notin DeploymentsOf(a)
    BY <1>3 DEF UpdateDeployment, At, Deployed, Selected, DeploymentsOf
  <2>2. \A d \in Runs \ {dep[r]} : deployments'[d] = deployments[d]
    BY <1>3 DEF UpdateDeployment, TypeOK
  <2>3. QED
    BY <1>1, <2>1, <2>2 DEF DeploymentsOf
<1>4. CASE InsertDeployment(r) \/ InsertDeploymentLegacy(r)
  <2>1. r \notin DeploymentsOf(a)
    BY DEF Deployed, DeploymentsOf
  <2>2. \A d \in Runs \ {r} : deployments'[d] = deployments[d]
    BY <1>4 DEF InsertDeployment, InsertDeploymentLegacy, TypeOK
  <2>3. QED
    BY <1>1, <2>1, <2>2 DEF DeploymentsOf
<1>5. QED
  BY <1>2, <1>3, <1>4, DeploymentsStay

LEMMA IdleWritesNothing ==
    ASSUME NEW r \in Runs, Step(r) \/ Interrupt(r), pc[r] \notin Working
    PROVE  UNCHANGED tables
BY DEF Step, Working, At, Start, FindContract, InsertContract, InsertContractConflicts,
       FindDeployment, FindNoDeployment, UpdateDeployment, InsertDeployment,
       RefetchDeployment, InsertDeploymentLegacy, FindCompilation, DecideReplace,
       InsertCompilation, DeleteSources, InsertSource, SourcesDone,
       InsertSignatures, InsertSignatureLegacy, SignaturesDone,
       FindVerified, UpgradeVerified, InsertVerified, RefetchVerified, Interrupt

LEMMA RenamingStep ==
    ASSUME TypeOK, Renaming, NEW r \in Runs, Step(r) \/ Interrupt(r)
    PROVE  Renaming'
<1>1. \A q \in Runs \ {r} : pc'[q] = pc[q]
  <2>1. pc \in [Runs -> Working \cup Ended]
    BY DEF TypeOK
  <2>2. QED
    BY <2>1, StepMoves DEF Moves
<1>2. CASE FindDeployment(r)
  <2>1. PICK d \in DeploymentsOf(Address[r]) : change' = [change EXCEPT ![r] = Changes(r, d)]
    BY <1>2 DEF FindDeployment
  <2>2. "build" \in Changes(r, d) => IsExact(r)
    BY DEF Changes
  <2>3. QED
    BY <1>1, <2>1, <2>2 DEF Renaming, IsExact, TypeOK
<1>3. CASE ~FindDeployment(r)
  <2>1. UNCHANGED change
    BY <1>3 DEF Step, tables, locals, Start, FindContract, InsertContract,
       InsertContractConflicts, FindNoDeployment, UpdateDeployment, InsertDeployment,
       RefetchDeployment, InsertDeploymentLegacy, FindCompilation, DecideReplace,
       InsertCompilation, DeleteSources, InsertSource, SourcesDone,
       InsertSignatures, InsertSignatureLegacy, SignaturesDone,
       FindVerified, UpgradeVerified, InsertVerified, RefetchVerified, Interrupt
  <2>2. pc'[r] # "updateDeployment"
    BY <1>3 DEF Step, TypeOK, GoTo, At, Start, FindContract, InsertContract,
       InsertContractConflicts, FindNoDeployment, UpdateDeployment, InsertDeployment,
       RefetchDeployment, InsertDeploymentLegacy, FindCompilation, DecideReplace,
       InsertCompilation, DeleteSources, InsertSource, SourcesDone,
       InsertSignatures, InsertSignatureLegacy, SignaturesDone,
       FindVerified, UpgradeVerified, InsertVerified, RefetchVerified, Interrupt
  <2>3. QED
    BY <1>1, <2>1, <2>2 DEF Renaming, IsExact
<1>4. QED
  BY <1>2, <1>3

\* A step of a run of another address changes nothing of this one.
LEMMA NamingElsewhere ==
    ASSUME RowInv, NEW r \in Runs, Step(r) \/ Interrupt(r),
           NEW a \in Addresses, Naming(a), Address[r] # a
    PROVE  Naming(a)'
<1> TypeOK /\ Deployed
  BY DEF RowInv
<1>1. Names(a)' <=> Names(a)
  BY DeploymentsElsewhere DEF Names
<1>2. \A q \in Runs \ {r} : pc'[q] = pc[q] /\ dep'[q] = dep[q]
  BY SMTT(40), StepMoves DEF Moves, TypeOK
<1>3. \A q \in Runs \ {r} : change'[q] = change[q]
  BY DEF Step, TypeOK, tables, locals, Start, FindContract, InsertContract,
     InsertContractConflicts, FindDeployment, FindNoDeployment, UpdateDeployment,
     InsertDeployment, RefetchDeployment, InsertDeploymentLegacy, FindCompilation,
     DecideReplace, InsertCompilation, DeleteSources, InsertSource, SourcesDone,
     InsertSignatures, InsertSignatureLegacy, SignaturesDone, FindVerified, UpgradeVerified, InsertVerified,
     RefetchVerified, Interrupt
<1>4. \A i \in RowsOfAddress(a)' : verified'[i].exact => Names(a)'
  BY <1>1, RowsOfAddressStep DEF Naming
<1>5. ASSUME NEW q \in Runs, Address[q] = a, pc'[q] = "refetchVerified"
      PROVE  \E i \in RowIds' : verified'[i].dep = dep'[q] /\ verified'[i].build = Build[q]
  <2>1. q # r /\ pc[q] = "refetchVerified" /\ dep'[q] = dep[q]
    BY <1>2, <1>5
  <2>2. PICK i \in RowIds : verified[i].dep = dep[q] /\ verified[i].build = Build[q]
    BY <1>5, <2>1 DEF Naming
  <2>3. i \in RowIds' /\ verified'[i].dep = verified[i].dep
    BY OwnRows
  <2>4. verified'[i] = verified[i]
    <3>1. dep[q] \in DeploymentsOf(a)
      BY <1>5, <2>1 DEF Deployed, Selected
    <3>2. SUFFICES ASSUME verified'[i] # verified[i] PROVE FALSE
      OBVIOUS
    <3>3. dep[r] = dep[q] /\ dep[r] \in DeploymentsOf(Address[r])
      BY <2>2, <2>3, <3>2, OwnRows DEF OwnRow
    <3>4. QED
      BY <3>1, <3>3 DEF DeploymentsOf
  <2>5. QED
    BY <2>1, <2>2, <2>3, <2>4
<1>6. QED
  BY <1>1, <1>2, <1>3, <1>4, <1>5 DEF Naming, IsExact

\* A deployment that names the contract at its address goes on doing so.
LEMMA NamesStay ==
    ASSUME RowInv, Renaming, NEW r \in Runs, Step(r) \/ Interrupt(r),
           Serial(Address[r]), Names(Address[r]), DeploymentsOf(Address[r]) # {}
    PROVE  Names(Address[r])'
<1> DEFINE a == Address[r]
<1> TypeOK /\ Deployed
  BY DEF RowInv
<1>1. CASE UNCHANGED deployments
  BY <1>1 DEF Names, DeploymentsOf
<1>2. CASE UpdateDeployment(r) /\ deployments' # deployments
  <2>1. dep[r] \in DeploymentsOf(a) /\ pc[r] = "updateDeployment"
    BY <1>2 DEF UpdateDeployment, At, Deployed, Selected
  <2>2. dep[r] \in Runs /\ deployments[dep[r]].address = Address[r]
    BY <2>1 DEF DeploymentsOf
  <2>3. deployments' = [deployments EXCEPT ![dep[r]] = UpdatedDeployment(r)]
    BY <1>2 DEF UpdateDeployment
  <2>4. UpdatedDeployment(r).build = OnChain[a]
    <3>1. deployments[dep[r]] \in Deployments
      BY <2>2 DEF TypeOK, NoDeployment
    <3>2. deployments[dep[r]].build = OnChain[a]
      BY <2>1 DEF Names
    <3>3. "build" \in change[r] => Build[r] = OnChain[a]
      BY <2>1 DEF Renaming, IsExact
    <3>4. QED
      BY <3>1, <3>2, <3>3 DEF UpdatedDeployment, Deployments
  <2>5. DeploymentsOf(a)' = DeploymentsOf(a)
    BY <2>1, DeploymentStep
  <2>6. \A d \in Runs : deployments'[d] = IF d = dep[r] THEN UpdatedDeployment(r) ELSE deployments[d]
    BY <2>3 DEF TypeOK
  <2>7. QED
    BY <2>4, <2>5, <2>6 DEF Names, DeploymentsOf
<1>3. CASE InsertDeployment(r) \/ InsertDeploymentLegacy(r)
  BY <1>3 DEF InsertDeployment, InsertDeploymentLegacy, At, Serial
<1>4. QED
  BY <1>1, <1>2, <1>3, DeploymentsStay

\* An exact run that gets past its deployment has found that it names its
\* build, has updated it, or has inserted it as the only one of the address.
LEMMA ExactRunsName ==
    ASSUME RowInv, Renaming, NEW r \in Runs, Step(r) \/ Interrupt(r), IsExact(r),
           Serial(Address[r]), Naming(Address[r]), OneDeployment(Address[r])'
    PROVE  /\ pc'[r] \in Settled => Names(Address[r])'
           /\ pc'[r] = "updateDeployment" => "build" \in change'[r] \/ Names(Address[r])'
<1> DEFINE a == Address[r]
<1> TypeOK /\ Deployed
  BY DEF RowInv
<1>0. Build[r] = OnChain[a]
  BY DEF IsExact
<1>1. CASE FindDeployment(r)
  <2>1. PICK d \in DeploymentsOf(a) :
           /\ change' = [change EXCEPT ![r] = Changes(r, d)]
           /\ GoTo(r, IF Changes(r, d) = {} THEN "compilation" ELSE "updateDeployment")
    BY <1>1 DEF FindDeployment
  <2>2. UNCHANGED deployments
    BY <1>1 DEF FindDeployment, tables
  <2>3. "build" \in Changes(r, d) \/ deployments[d].build = Build[r]
    BY DEF Changes
  <2>4. deployments[d].build = Build[r] => Names(a)'
    BY <1>0, <2>2 DEF Serial, OneDeployment, Names, DeploymentsOf
  <2>5. pc'[r] = IF Changes(r, d) = {} THEN "compilation" ELSE "updateDeployment"
    BY <2>1 DEF GoTo, TypeOK
  <2>6. change'[r] = Changes(r, d)
    BY <2>1 DEF TypeOK
  <2>7. QED
    BY <2>3, <2>4, <2>5, <2>6 DEF Settled
<1>2. CASE UpdateDeployment(r)
  <2>1. dep[r] \in DeploymentsOf(a) /\ pc[r] = "updateDeployment"
    BY <1>2 DEF UpdateDeployment, At, Deployed, Selected
  <2>2. pc'[r] \in {"conflict", "compilation"}
    BY <1>2 DEF UpdateDeployment, GoTo, TypeOK
  <2>3. CASE Names(a)
    BY <2>1, <2>2, <2>3, NamesStay
  <2>4. CASE "build" \in change[r] /\ pc'[r] = "compilation"
    <3>1. deployments' = [deployments EXCEPT ![dep[r]] = UpdatedDeployment(r)]
      BY <1>2, <2>4 DEF UpdateDeployment, GoTo, TypeOK
    <3>2. dep[r] \in Runs /\ deployments[dep[r]] \in Deployments
      BY <2>1 DEF DeploymentsOf, TypeOK, NoDeployment
    <3>3. deployments'[dep[r]].build = OnChain[a]
      BY <1>0, <2>4, <3>1, <3>2 DEF UpdatedDeployment, Deployments, TypeOK
    <3>4. dep[r] \in DeploymentsOf(a)'
      BY <2>1, DeploymentStep
    <3>5. QED
      BY <2>4, <3>3, <3>4 DEF OneDeployment, Names
  <2>5. CASE pc'[r] = "conflict"
    BY <2>5 DEF Settled
  <2>6. QED
    BY <2>1, <2>2, <2>3, <2>4, <2>5 DEF Naming
<1>3. CASE InsertDeployment(r) \/ InsertDeploymentLegacy(r)
  <2>1. DeploymentsOf(a) = {} /\ DeploymentsOf(a)' \subseteq {r}
    <3>1. DeploymentsOf(a) = {}
      BY <1>3 DEF InsertDeployment, InsertDeploymentLegacy, At, Serial
    <3>2. QED
      BY <3>1, DeploymentStep
  <2>2. UNCHANGED deployments \/ deployments' = [deployments EXCEPT ![r] = NewDeployment(r)]
    BY <1>3 DEF InsertDeployment, InsertDeploymentLegacy
  <2>3. CASE UNCHANGED deployments
    <3>1. Names(a)'
      BY <2>1, <2>3 DEF Names, DeploymentsOf
    <3>2. QED
      BY <3>1
  <2>4. CASE deployments' = [deployments EXCEPT ![r] = NewDeployment(r)]
    <3>1. deployments'[r].build = OnChain[a]
      BY <1>0, <2>4 DEF NewDeployment, TypeOK
    <3>2. Names(a)'
      BY <2>1, <3>1 DEF Names
    <3>3. QED
      BY <3>2
  <2>5. QED
    BY <2>2, <2>3, <2>4
<1>4. CASE ~FindDeployment(r) /\ ~UpdateDeployment(r) /\ ~InsertDeployment(r)
           /\ ~InsertDeploymentLegacy(r)
  <2>1. UNCHANGED deployments
    BY <1>4, DeploymentsStay
  <2>2. pc'[r] \in Settled => pc[r] \in Settled
    BY <1>4 DEF Settled, Step, TypeOK, GoTo, At, Start, FindContract, InsertContract,
       InsertContractConflicts, FindNoDeployment, RefetchDeployment, FindCompilation,
       DecideReplace, InsertCompilation, DeleteSources, InsertSource, SourcesDone,
       InsertSignatures, InsertSignatureLegacy, SignaturesDone, FindVerified, UpgradeVerified, InsertVerified,
       RefetchVerified, Interrupt
  <2>3. pc'[r] # "updateDeployment"
    BY <1>4 DEF Step, TypeOK, GoTo, At, Start, FindContract, InsertContract,
       InsertContractConflicts, FindNoDeployment, RefetchDeployment, FindCompilation,
       DecideReplace, InsertCompilation, DeleteSources, InsertSource, SourcesDone,
       InsertSignatures, InsertSignatureLegacy, SignaturesDone, FindVerified, UpgradeVerified, InsertVerified,
       RefetchVerified, Interrupt
  <2>4. Names(a) => Names(a)'
    BY <2>1 DEF Names, DeploymentsOf
  <2>5. QED
    BY <2>2, <2>3, <2>4 DEF Naming
<1>5. QED
  BY <1>1, <1>2, <1>3, <1>4

\* What a job has inserted, or what it has left to another row, it will find.
LEMMA InsertedIsFound ==
    ASSUME RowInv, NEW r \in Runs, Step(r) \/ Interrupt(r), pc'[r] = "refetchVerified"
    PROVE  \E i \in RowIds' : verified'[i].dep = dep'[r] /\ verified'[i].build = Build[r]
<1> TypeOK /\ Deployed
  BY DEF RowInv
<1>1. InsertVerified(r)
  BY DEF Step, TypeOK, GoTo, At, Start, FindContract, InsertContract,
     InsertContractConflicts, FindDeployment, FindNoDeployment, UpdateDeployment,
     InsertDeployment, RefetchDeployment, InsertDeploymentLegacy, FindCompilation,
     DecideReplace, InsertCompilation, DeleteSources, InsertSource, SourcesDone,
     InsertSignatures, InsertSignatureLegacy, SignaturesDone, FindVerified, UpgradeVerified, RefetchVerified, Interrupt
<1>2. dep'[r] = dep[r] /\ dep[r] \in Runs
  BY <1>1 DEF InsertVerified, locals, At, Deployed, Selected, DeploymentsOf
<1>3. CASE VerifiedConflict(0, dep[r], Build[r])
  BY <1>1, <1>2, <1>3 DEF InsertVerified, VerifiedConflict, RowIds
<1>4. CASE ~VerifiedConflict(0, dep[r], Build[r])
  <2> DEFINE row == [dep |-> dep[r], build |-> Build[r], exact |-> IsExact(r)]
  <2>1. verified' = Append(verified, row)
    BY <1>1, <1>4 DEF InsertVerified
  <2>2. Len(verified') = Len(verified) + 1 /\ Len(verified) \in Nat
    BY <2>1 DEF TypeOK
  <2>3. verified' # verified
    BY <2>2
  <2>4. /\ RowIds' = RowIds \cup {Len(verified) + 1}
        /\ verified'[Len(verified) + 1] = row
    BY <1>1, <1>2, <2>3, InsertedRows
  <2>5. QED
    BY <1>2, <2>4
<1>5. QED
  BY <1>3, <1>4

LEMMA NamingHere ==
    ASSUME RowInv, Renaming, NEW r \in Runs, Step(r) \/ Interrupt(r),
           Serial(Address[r]), Serial(Address[r])', Naming(Address[r])
    PROVE  Naming(Address[r])'
<1> DEFINE a == Address[r]
<1> TypeOK /\ Deployed /\ Verifying
  BY DEF RowInv
<1>1. \A q \in Runs \ {r} : pc'[q] = pc[q] /\ dep'[q] = dep[q]
  BY SMTT(20), StepMoves DEF Moves, TypeOK
<1>2. \A q \in Runs \ {r} : change'[q] = change[q]
  BY DEF Step, TypeOK, tables, locals, Start, FindContract, InsertContract,
     InsertContractConflicts, FindDeployment, FindNoDeployment, UpdateDeployment,
     InsertDeployment, RefetchDeployment, InsertDeploymentLegacy, FindCompilation,
     DecideReplace, InsertCompilation, DeleteSources, InsertSource, SourcesDone,
     InsertSignatures, InsertSignatureLegacy, SignaturesDone, FindVerified, UpgradeVerified, InsertVerified,
     RefetchVerified, Interrupt
<1>3. ASSUME NEW q \in Runs \ {r}, Address[q] = a, pc'[q] \in Working
      PROVE  UNCHANGED tables
  <2>1. pc[r] \notin Working
    BY <1>1, <1>3 DEF Serial
  <2>2. QED
    BY <2>1, IdleWritesNothing
<1>4. ASSUME NEW q \in Runs, Address[q] = a, IsExact(q)
      PROVE  /\ pc'[q] \in Settled => Names(a)'
             /\ pc'[q] = "updateDeployment" => "build" \in change'[q] \/ Names(a)'
  <2>1. CASE q = r
    <3>1. OneDeployment(a)'
      BY DEF Serial
    <3>2. QED
      BY <1>4, <2>1, <3>1, ExactRunsName
  <2>2. CASE q # r /\ pc'[q] \in Working
    <3>1. UNCHANGED deployments
      BY <1>3, <1>4, <2>2 DEF tables
    <3>2. Names(a) => Names(a)'
      BY <3>1 DEF Names, DeploymentsOf
    <3>3. QED
      BY <1>1, <1>2, <1>4, <2>2, <3>2 DEF Naming
  <2>3. CASE pc'[q] \notin Working
    BY <2>3 DEF Working, Settled
  <2>4. QED
    BY <2>1, <2>2, <2>3
<1>5. ASSUME NEW i \in RowsOfAddress(a)', verified'[i].exact
      PROVE  Names(a)'
  <2>1. CASE i \in RowsOfAddress(a) /\ verified'[i] = verified[i]
    <3>1. verified[i].dep \in DeploymentsOf(a)
      <4>1. AddressesGrow
        BY DeploymentStep
      <4>2. QED
        BY <2>1, <4>1, RowsKeepAddress DEF RowsOfAddress, DeploymentsOf
    <3>2. Names(a)
      BY <1>5, <2>1 DEF Naming
    <3>3. QED
      BY <3>1, <3>2, NamesStay
  <2>2. CASE OwnRow(r, i) /\ UNCHANGED deployments
    <3>1. IsExact(r) /\ pc[r] \in Settled
      BY <1>5, <2>2 DEF OwnRow, Settled
    <3>2. Names(a)
      BY <3>1 DEF Naming
    <3>3. QED
      BY <2>2, <3>2 DEF Names, DeploymentsOf
  <2>3. QED
    BY <2>1, <2>2, RowsOfAddressStep
<1>6. ASSUME NEW q \in Runs, Address[q] = a, pc'[q] = "refetchVerified"
      PROVE  \E i \in RowIds' : verified'[i].dep = dep'[q] /\ verified'[i].build = Build[q]
  <2>1. CASE q = r
    BY <1>6, <2>1, InsertedIsFound
  <2>2. CASE q # r
    <3>1. UNCHANGED verified
      BY <1>3, <1>6, <2>2 DEF tables, Working
    <3>2. QED
      BY <1>1, <1>6, <2>2, <3>1 DEF Naming, RowIds
  <2>3. QED
    BY <2>1, <2>2
<1>7. QED
  BY <1>4, <1>5, <1>6 DEF Naming, IsExact

\* A verification stays with its address.
LEMMA RowsStay ==
    ASSUME RowInv, NEW r \in Runs, Step(r) \/ Interrupt(r), NEW a \in Addresses
    PROVE  RowsOfAddress(a) \subseteq RowsOfAddress(a)'
<1> TypeOK /\ Verifying
  BY DEF RowInv
<1>1. AddressesGrow
  BY DeploymentStep
<1>2. \A i \in RowIds : i \in RowIds' /\ verified'[i].dep = verified[i].dep
  BY OwnRows
<1>3. QED
  BY <1>1, <1>2, RowsKeepAddress DEF RowsOfAddress

\* The steps in which a run ends: it reports a row of its deployment, which is
\* exact if its match is.
LEMMA RunsReport ==
    ASSUME RowInv, NEW r \in Runs \ Legacy, Step(r) \/ Interrupt(r),
           Naming(Address[r]), pc'[r] = "done"
    PROVE  /\ result'[r] \in RowsOfAddress(Address[r])'
           /\ IsExact(r) => verified'[result'[r]].exact
<1> DEFINE a == Address[r]
<1> TypeOK /\ Deployed /\ Verifying
  BY DEF RowInv
<1>0. \A i \in RowIds : verified[i].dep = dep[r] /\ pc[r] \in Signed => i \in RowsOfAddress(a)
  BY DEF Deployed, Selected, Signed, DeploymentsOf, RowsOfAddress
<1>1. CASE FindVerified(r)
  <2>1. /\ Candidates(r) # {} /\ ~Upgrades(r) /\ result'[r] = Choice(r)
        /\ UNCHANGED tables /\ pc[r] = "verification"
    BY <1>1 DEF FindVerified, GoTo, TypeOK, Report, At
  <2>2. Choice(r) \in RowIds /\ verified[Choice(r)].dep = dep[r]
    BY <2>1, ChoiceIsCandidate DEF Candidates, RowsOfDeployment
  <2>3. result'[r] \in RowsOfAddress(a)
    BY <1>0, <2>1, <2>2 DEF Signed
  <2>4. IsExact(r) => verified[result'[r]].exact
    BY <2>1 DEF Upgrades
  <2>5. QED
    BY <2>1, <2>3, <2>4 DEF tables, RowsOfAddress, RowIds
<1>2. CASE UpgradeVerified(r)
  <2>1. /\ verified' = [verified EXCEPT ![chosen[r]] = Upgraded(r)]
        /\ result'[r] = chosen[r] /\ pc[r] = "upgrade"
    BY <1>2 DEF UpgradeVerified, GoTo, TypeOK, Report, At
  <2>2. chosen[r] \in RowIds /\ verified[chosen[r]].dep = dep[r]
    BY <2>1 DEF Verifying
  <2>3. verified'[chosen[r]].exact = TRUE
    BY <2>1, <2>2, UpgradedRows
  <2>4. chosen[r] \in RowsOfAddress(a)'
    BY <1>0, <2>1, <2>2, RowsStay DEF Signed
  <2>5. QED
    BY <2>1, <2>3, <2>4
<1>3. CASE RefetchVerified(r)
  <2> DEFINE S == RowsOfDeployment(dep[r]) \cap RowsOfBuild(Build[r])
  <2>1. result'[r] = Earliest(S) /\ UNCHANGED tables /\ pc[r] = "refetchVerified"
    BY <1>3 DEF RefetchVerified, TypeOK, Report, At
  <2>2. S # {} /\ S \subseteq Nat
    <3>1. Len(verified) \in Nat
      BY DEF TypeOK
    <3>2. RowIds \subseteq Nat
      BY <3>1 DEF RowIds
    <3>3. QED
      BY <2>1, <3>2 DEF Naming, RowsOfDeployment, RowsOfBuild
  <2>3. Earliest(S) \in S
    <3> HIDE DEF S
    <3>1. QED
      BY <2>2, EarliestExists
  <2>4. result'[r] \in RowsOfAddress(a) /\ verified[result'[r]].build = Build[r]
    BY <1>0, <2>1, <2>3 DEF RowsOfDeployment, RowsOfBuild, Signed
  <2>5. IsExact(r) => verified[result'[r]].exact
    BY <2>4 DEF RowInv, MatchIsTruthful, RowsOfAddress, IsExact
  <2>6. QED
    BY <2>1, <2>4, <2>5 DEF tables, RowsOfAddress, RowIds
<1>4. QED
  BY <1>1, <1>2, <1>3 DEF Step, TypeOK, GoTo, At, Start, FindContract, InsertContract,
     InsertContractConflicts, FindDeployment, FindNoDeployment, UpdateDeployment,
     InsertDeployment, RefetchDeployment, InsertDeploymentLegacy, FindCompilation,
     DecideReplace, InsertCompilation, DeleteSources, InsertSource, SourcesDone,
     InsertSignatures, InsertSignatureLegacy, SignaturesDone, InsertVerified, Interrupt

LEMMA ReportNext == RowInv /\ SerialInv /\ ReportInv /\ [Next]_vars => ReportInv'
<1> SUFFICES ASSUME RowInv, SerialInv, ReportInv, [Next]_vars PROVE ReportInv'
  OBVIOUS
<1> TypeOK /\ Renaming
  BY DEF RowInv, ReportInv
<1>1. CASE Next
  <2>1. PICK r \in Runs : Step(r) \/ Interrupt(r)
    BY <1>1 DEF Next
  <2>2. overlapped \subseteq overlapped'
    BY <2>1, StepMoves DEF Moves
  <2>3. Renaming'
    BY <2>1, RenamingStep
  <2>4. ASSUME NEW a \in Addresses \ overlapped' PROVE Naming(a)'
    <3>1. Serial(a) /\ Naming(a)
      BY <2>2 DEF SerialInv, ReportInv
    <3>2. Serial(a)'
      BY SerialNext DEF SerialInv
    <3>3. CASE Address[r] = a
      BY <2>1, <3>1, <3>2, <3>3, NamingHere
    <3>4. CASE Address[r] # a
      BY <2>1, <3>1, <3>4, NamingElsewhere
    <3>5. QED
      BY <3>3, <3>4
  <2>5. ASSUME NEW q \in Runs, Address[q] \notin overlapped' PROVE Reported(q)'
    <3>1. Naming(Address[q]) /\ Reported(q)
      BY <2>2, <2>5 DEF ReportInv
    <3>2. CASE q = r
      BY <2>1, <3>1, <3>2, RunsReport DEF Reported, IsExact
    <3>3. CASE q # r
      <4>1. pc'[q] = pc[q] /\ result'[q] = result[q]
        BY <2>1, <3>3 DEF Step, TypeOK, tables, locals, GoTo, Report, Start,
           FindContract, InsertContract, InsertContractConflicts, FindDeployment,
           FindNoDeployment, UpdateDeployment, InsertDeployment, RefetchDeployment,
           InsertDeploymentLegacy, FindCompilation, DecideReplace, InsertCompilation,
           DeleteSources, InsertSource, SourcesDone,
           InsertSignatures, InsertSignatureLegacy, SignaturesDone, FindVerified,
           UpgradeVerified, InsertVerified, RefetchVerified, Interrupt
      <4>2. RowsOfAddress(Address[q]) \subseteq RowsOfAddress(Address[q])'
        BY <2>1, RowsStay
      <4>3. \A i \in RowIds : verified[i].exact => verified'[i].exact
        BY ExactStays
      <4>4. QED
        BY <3>1, <4>1, <4>2, <4>3 DEF Reported, RowsOfAddress, IsExact
    <3>4. QED
      BY <3>2, <3>3
  <2>6. QED
    BY <2>3, <2>4, <2>5 DEF ReportInv
<1>2. CASE UNCHANGED vars
  BY <1>2 DEF vars, tables, locals, ReportInv, Renaming, Naming, Names, Reported,
     IsExact, DeploymentsOf, RowsOfAddress, RowIds
<1>3. QED
  BY <1>1, <1>2

\* Where no runs have overlapped, a completed job reports a verification of
\* its own contract, an exact one if its match was exact, and the deployment
\* of an exact verification names its build, whatever was interrupted.
THEOREM SerialRunsTellOfTheirs == Spec => []SerialRunsReport
<1>1. RowInv /\ ReportInv => SerialRunsReport
  <2> SUFFICES ASSUME RowInv, ReportInv PROVE SerialRunsReport
    OBVIOUS
  <2>1. ReportsOwnVerification
    BY DEF ReportInv, Reported, ReportsOwnVerification
  <2>2. ASSUME NEW i \in RowIds, verified[i].exact,
               deployments[verified[i].dep].address \notin overlapped
        PROVE  deployments[verified[i].dep].build = verified[i].build
    <3> DEFINE d == verified[i].dep
               a == deployments[d].address
    <3>1. a \in Addresses /\ d \in Runs
      <4>1. verified[i] \in Verified
        BY DEF RowInv, TypeOK, RowIds
      <4>2. QED
        BY <4>1 DEF RowInv, Verifying, Verified
    <3>2. i \in RowsOfAddress(a) /\ d \in DeploymentsOf(a)
      BY <3>1 DEF RowsOfAddress, DeploymentsOf
    <3>3. Names(a)
      BY <2>2, <3>1, <3>2 DEF ReportInv, Naming
    <3>4. verified[i].build = OnChain[a]
      BY <2>2 DEF RowInv, MatchIsTruthful
    <3>5. QED
      BY <3>2, <3>3, <3>4 DEF Names
  <2>3. QED
    BY <2>1, <2>2 DEF SerialRunsReport, ExactDeploymentNamesBuild
<1>2. QED
  BY InitRow, RowNext, SerialInit, SerialNext, ReportInit, ReportNext, <1>1, PTL DEF Spec
=============================================================================
