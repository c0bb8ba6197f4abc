-------------------------- MODULE VerificationStore --------------------------
(***************************************************************************)
(* What verified submissions write to D1 in apps/contract-verification:    *)
(* the part of runVerificationJob (src/route.verify.ts) and of the legacy  *)
(* POST /verify/vyper (src/route.verify-legacy.ts) that follows a bytecode *)
(* match.  Every statement is a step; runs of several submissions          *)
(* interleave, may fail at any statement, and are retried by the alarm or  *)
(* submitted again.                                                        *)
(*                                                                         *)
(* A build is a recompilation: its compiler, version, language and both of *)
(* its bytecodes, the columns of the unique indexes of contracts and       *)
(* compiled_contracts.  A build matches an address exactly iff it is the   *)
(* code on chain, metadata included; otherwise it matches partially.       *)
(***************************************************************************)
EXTENDS Integers, Sequences

CONSTANTS
    Runs,       \* the submissions whose bytecode matched
    Addresses,  \* the contracts on chain
    Builds,     \* the recompilations
    NoTx,       \* no creation transaction is known
    NoRun,      \* no deployment row
    Address,    \* the contract each run verifies
    Build,      \* the build each run compiled
    Tx,         \* the creation transaction each run found, or NoTx
    Legacy,     \* the runs of POST /verify/vyper
    OnChain,    \* the build whose code each address has
    NumPaths,   \* source files of a build
    NumSignatures, \* functions, events and errors of a build's ABI
    MaxFaults   \* bound: interruptions of runs

ASSUME StoreAssumption ==
    /\ Address \in [Runs -> Addresses] /\ Build \in [Runs -> Builds]
    /\ OnChain \in [Addresses -> Builds]
    /\ Legacy \subseteq Runs /\ NoRun \notin Runs \cup Addresses
    /\ NumPaths \in Nat /\ NumSignatures \in Nat /\ MaxFaults \in Nat

VARIABLES
    contracts,    \* contracts: the builds that have a row
    deployments,  \* contract_deployments: the row each run has inserted
    compiled,     \* compiled_contracts: the builds that have a row
    links,        \* compiled_contracts_sources: the linked paths of each build
    signed,       \* compiled_contracts_signatures: those linked to each build
    verified,     \* verified_contracts, by id
    pc,           \* where each run is
    dep,          \* deploymentId
    change,       \* deploymentUpdates: the columns to update
    path,         \* the next source to insert
    item,         \* the next signature that a legacy run inserts
    chosen,       \* the verified row selected, 0 if none
    result,       \* verifiedContractId of a completed run, 0 before
    faults,       \* interruptions so far
    overlapped    \* history: the addresses of which two runs have overlapped

tables == <<contracts, deployments, compiled, links, signed, verified>>
locals == <<dep, change, path, item, chosen, result>>
vars == <<tables, pc, locals, faults, overlapped>>

Working == {"contract", "newContract", "deployment", "updateDeployment",
            "newDeployment", "refetchDeployment", "compilation", "matches",
            "newCompilation", "deleteSources", "sources", "signatures",
            "verification", "upgrade", "insert", "refetchVerified"}
Ended == {"idle", "refused", "conflict", "done"}

NoDeployment == [address |-> NoRun, tx |-> NoTx, build |-> NoRun]
Deployments == [address : Addresses, tx : {Tx[r] : r \in Runs} \cup {NoTx}, build : Builds]
Verified == [dep : Runs, build : Builds, exact : BOOLEAN]

TypeOK ==
    /\ contracts \subseteq Builds /\ compiled \subseteq Builds
    /\ deployments \in [Runs -> Deployments \cup {NoDeployment}]
    /\ links \in [Builds -> SUBSET (1..NumPaths)]
    /\ signed \in [Builds -> SUBSET (1..NumSignatures)]
    /\ verified \in Seq(Verified)
    /\ pc \in [Runs -> Working \cup Ended]
    /\ dep \in [Runs -> Runs \cup {NoRun}]
    /\ change \in [Runs -> SUBSET {"tx", "build"}]
    /\ path \in [Runs -> 1..(NumPaths + 1)]
    /\ item \in [Runs -> 1..(NumSignatures + 1)]
    /\ chosen \in [Runs -> 0..Len(verified)]
    /\ result \in [Runs -> 0..Len(verified)]
    /\ faults \in 0..MaxFaults /\ overlapped \subseteq Addresses

Init ==
    /\ contracts = {} /\ compiled = {}
    /\ deployments = [r \in Runs |-> NoDeployment]
    /\ links = [b \in Builds |-> {}] /\ signed = [b \in Builds |-> {}]
    /\ verified = <<>>
    /\ pc = [r \in Runs |-> "idle"]
    /\ dep = [r \in Runs |-> NoRun]
    /\ change = [r \in Runs |-> {}]
    /\ path = [r \in Runs |-> 1] /\ item = [r \in Runs |-> 1]
    /\ chosen = [r \in Runs |-> 0] /\ result = [r \in Runs |-> 0]
    /\ faults = 0 /\ overlapped = {}

-----------------------------------------------------------------------------
(* Queries *)

IsExact(r) == Build[r] = OnChain[Address[r]]

DeploymentsOf(a) == {d \in Runs : deployments[d].address = a}

RowIds == 1..Len(verified)

\* Faulty variant: the WHERE clause of the deployment is forgotten.
RowsOfAnyDeployment(d) == RowIds

RowsOfDeployment(d) == {i \in RowIds : verified[i].dep = d}
RowsOfBuild(b) == {i \in RowIds : verified[i].build = b}
RowsOfAddress(a) == {i \in RowIds : deployments[verified[i].dep].address = a}

\* Array.prototype.find and at(0): the rows come in the order of their ids.
Earliest(ids) == IF ids = {} THEN 0 ELSE CHOOSE i \in ids : \A k \in ids : i <= k

\* The unique index of contract_deployments; NULLs are distinct.
DeploymentConflict(d, row) ==
    row.tx # NoTx /\ \E e \in Runs \ {d} : deployments[e] = row

\* The unique index of verified_contracts.
VerifiedConflict(i, d, b) ==
    \E k \in RowIds \ {i} : verified[k].dep = d /\ verified[k].build = b

-----------------------------------------------------------------------------
At(r, l) == pc[r] = l
GoTo(r, l) == pc' = [pc EXCEPT ![r] = l] /\ UNCHANGED <<faults, overlapped>>

\* A submission is answered at once if its address is verified exactly.  Runs
\* of one address mostly follow each other, since one job is in flight; they
\* overlap when a job outlives JOB_TTL_MS or a legacy request comes beside it.
Start(r) ==
    /\ At(r, "idle")
    /\ pc' = [pc EXCEPT ![r] =
         IF \E i \in RowsOfAddress(Address[r]) : verified[i].exact
         THEN "refused" ELSE "contract"]
    /\ overlapped' =
         IF \E q \in Runs : Address[q] = Address[r] /\ pc[q] \in Working
         THEN overlapped \cup {Address[r]} ELSE overlapped
    /\ UNCHANGED <<tables, locals, faults>>

FindContract(r) ==
    /\ At(r, "contract")
    /\ GoTo(r, IF Build[r] \in contracts THEN "deployment" ELSE "newContract")
    /\ UNCHANGED <<tables, locals>>

\* onConflictDoNothing and a refetch: the build's row, whoever inserted it.
InsertContract(r) ==
    /\ At(r, "newContract")
    /\ r \notin Legacy \/ Build[r] \notin contracts
    /\ contracts' = contracts \cup {Build[r]}
    /\ GoTo(r, "deployment")
    /\ UNCHANGED <<deployments, compiled, links, signed, verified, locals>>

\* The legacy route inserts without it, and a conflict ends the request.
InsertContractConflicts(r) ==
    /\ At(r, "newContract")
    /\ r \in Legacy /\ Build[r] \in contracts
    /\ GoTo(r, "conflict")
    /\ UNCHANGED <<tables, locals>>

\* The columns that a run will change in the deployment it selected.
Changes(r, d) ==
    {c \in {"tx", "build"} :
        IF c = "tx" THEN Tx[r] # NoTx /\ deployments[d].tx = NoTx
        ELSE IsExact(r) /\ deployments[d].build # Build[r]}

FindDeployment(r) ==
    /\ At(r, "deployment")
    /\ DeploymentsOf(Address[r]) # {}
    /\ \E d \in DeploymentsOf(Address[r]) :
        /\ dep' = [dep EXCEPT ![r] = d]
        /\ change' = [change EXCEPT ![r] = Changes(r, d)]
        /\ GoTo(r, IF Changes(r, d) = {} THEN "compilation" ELSE "updateDeployment")
    /\ UNCHANGED <<tables, path, item, chosen, result>>

\* Faulty variant: the deployment is always inserted.
FindNoDeploymentAnyway(r) ==
    /\ At(r, "deployment")
    /\ GoTo(r, "newDeployment")
    /\ UNCHANGED <<tables, locals>>

FindNoDeployment(r) ==
    /\ At(r, "deployment")
    /\ DeploymentsOf(Address[r]) = {}
    /\ GoTo(r, "newDeployment")
    /\ UNCHANGED <<tables, locals>>

UpdatedDeployment(r) ==
    [deployments[dep[r]] EXCEPT
        !.tx = IF "tx" \in change[r] THEN Tx[r] ELSE @,
        !.build = IF "build" \in change[r] THEN Build[r] ELSE @]

UpdateDeployment(r) ==
    /\ At(r, "updateDeployment")
    /\ IF DeploymentConflict(dep[r], UpdatedDeployment(r))
       THEN GoTo(r, "conflict") /\ UNCHANGED deployments
       ELSE /\ deployments' = [deployments EXCEPT ![dep[r]] = UpdatedDeployment(r)]
            /\ GoTo(r, "compilation")
    /\ UNCHANGED <<contracts, compiled, links, signed, verified, locals>>

NewDeployment(r) == [address |-> Address[r], tx |-> Tx[r], build |-> Build[r]]

\* A job inserts with onConflictDoNothing, then reads back a row of the address.
InsertDeployment(r) ==
    /\ At(r, "newDeployment")
    /\ r \notin Legacy
    /\ deployments' = IF DeploymentConflict(r, NewDeployment(r)) THEN deployments
                      ELSE [deployments EXCEPT ![r] = NewDeployment(r)]
    /\ GoTo(r, "refetchDeployment")
    /\ UNCHANGED <<contracts, compiled, links, signed, verified, locals>>

RefetchDeployment(r) ==
    /\ At(r, "refetchDeployment")
    /\ \E d \in DeploymentsOf(Address[r]) : dep' = [dep EXCEPT ![r] = d]
    /\ GoTo(r, "compilation")
    /\ UNCHANGED <<tables, change, path, item, chosen, result>>

\* The legacy route inserts its row and uses it.
InsertDeploymentLegacy(r) ==
    /\ At(r, "newDeployment")
    /\ r \in Legacy
    /\ IF DeploymentConflict(r, NewDeployment(r))
       THEN GoTo(r, "conflict") /\ UNCHANGED <<deployments, dep>>
       ELSE /\ deployments' = [deployments EXCEPT ![r] = NewDeployment(r)]
            /\ dep' = [dep EXCEPT ![r] = r]
            /\ GoTo(r, "compilation")
    /\ UNCHANGED <<contracts, compiled, links, signed, verified,
                   change, path, item, chosen, result>>

-----------------------------------------------------------------------------
(* The compilation, its sources and its signatures *)

FindCompilation(r) ==
    /\ At(r, "compilation")
    /\ path' = [path EXCEPT ![r] = 1] /\ item' = [item EXCEPT ![r] = 1]
    /\ GoTo(r, IF Build[r] \notin compiled THEN "newCompilation"
               ELSE IF IsExact(r) THEN "matches" ELSE "signatures")
    /\ UNCHANGED <<tables, dep, change, chosen, result>>

\* The build has had partial matches only: shouldReplaceExistingSources.
OnlyPartial(b) == RowsOfBuild(b) # {} /\ \A i \in RowsOfBuild(b) : ~verified[i].exact

\* Faulty variant: the signatures go in with the sources only.
DecideReplaceOnly(r) ==
    /\ At(r, "matches")
    /\ GoTo(r, IF OnlyPartial(Build[r]) THEN "deleteSources" ELSE "verification")
    /\ UNCHANGED <<tables, locals>>

DecideReplace(r) ==
    /\ At(r, "matches")
    /\ GoTo(r, IF OnlyPartial(Build[r]) THEN "deleteSources" ELSE "signatures")
    /\ UNCHANGED <<tables, locals>>

\* A plain insert: a row that has come since the SELECT ends the run.
InsertCompilation(r) ==
    /\ At(r, "newCompilation")
    /\ compiled' = compiled \cup {Build[r]}
    /\ GoTo(r, IF Build[r] \in compiled THEN "conflict" ELSE "sources")
    /\ UNCHANGED <<contracts, deployments, links, signed, verified, locals>>

DeleteSources(r) ==
    /\ At(r, "deleteSources")
    /\ links' = IF NumPaths > 0 THEN [links EXCEPT ![Build[r]] = {}] ELSE links
    /\ GoTo(r, "sources")
    /\ UNCHANGED <<contracts, deployments, compiled, signed, verified, locals>>

\* Faulty variants: paths counted from zero; a path that is linked to any
\* compilation is skipped.
LinksFromZero(r) == links[Build[r]] \cup {path[r] - 1}
LinksOnce(r) ==
    links[Build[r]] \cup ({path[r]} \ UNION {links[b] : b \in Builds})

\* onConflictDoNothing: a path that is linked already stays.
NewLinks(r) == links[Build[r]] \cup {path[r]}

\* One source and its link.
InsertSource(r) ==
    /\ At(r, "sources")
    /\ path[r] <= NumPaths
    /\ links' = [links EXCEPT ![Build[r]] = NewLinks(r)]
    /\ path' = [path EXCEPT ![r] = @ + 1]
    /\ UNCHANGED <<contracts, deployments, compiled, signed, verified, pc,
                   dep, change, item, chosen, result, faults, overlapped>>

SourcesDone(r) ==
    /\ At(r, "sources")
    /\ path[r] > NumPaths
    /\ GoTo(r, "signatures")
    /\ UNCHANGED <<tables, locals>>

\* A job sends the signatures of the ABI as one D1 batch: all of them or none.
InsertSignatures(r) ==
    /\ At(r, "signatures")
    /\ r \notin Legacy
    /\ signed' = [signed EXCEPT ![Build[r]] = 1..NumSignatures]
    /\ GoTo(r, "verification")
    /\ UNCHANGED <<contracts, deployments, compiled, links, verified, locals>>

\* The legacy route inserts one signature and its link, then the next.
InsertSignatureLegacy(r) ==
    /\ At(r, "signatures")
    /\ r \in Legacy /\ item[r] <= NumSignatures
    /\ signed' = [signed EXCEPT ![Build[r]] = @ \cup {item[r]}]
    /\ item' = [item EXCEPT ![r] = @ + 1]
    /\ UNCHANGED <<contracts, deployments, compiled, links, verified, pc,
                   dep, change, path, chosen, result, faults, overlapped>>

SignaturesDone(r) ==
    /\ At(r, "signatures")
    /\ r \in Legacy /\ item[r] > NumSignatures
    /\ GoTo(r, "verification")
    /\ UNCHANGED <<tables, locals>>

-----------------------------------------------------------------------------
(* The verification *)

\* A job's row takes the id of its verification; the legacy route has no job.
Report(r, i) ==
    IF r \in Legacy THEN UNCHANGED result ELSE result' = [result EXCEPT ![r] = i]

\* existingVerifiedContracts
Candidates(r) == RowsOfDeployment(dep[r])

\* An exact row is kept; of the others, the one of the same build comes first.
Choice(r) ==
    LET exact == {i \in Candidates(r) : verified[i].exact}
        same  == Candidates(r) \cap RowsOfBuild(Build[r])
    IN  Earliest(IF exact # {} THEN exact
                 ELSE IF same # {} THEN same ELSE Candidates(r))

\* Faulty variant: whatever was found is replaced.
AlwaysUpgrades(r) == Candidates(r) # {}

Upgrades(r) ==
    Candidates(r) # {} /\ ~verified[Choice(r)].exact /\ IsExact(r)

FindVerified(r) ==
    /\ At(r, "verification")
    /\ chosen' = [chosen EXCEPT ![r] = Choice(r)]
    /\ \/ /\ Candidates(r) # {} /\ ~Upgrades(r)
          /\ Report(r, Choice(r))
          /\ GoTo(r, "done")
       \/ Upgrades(r) /\ GoTo(r, "upgrade") /\ UNCHANGED result
       \/ Candidates(r) = {} /\ GoTo(r, "insert") /\ UNCHANGED result
    /\ UNCHANGED <<tables, dep, change, path, item>>

\* Faulty variant: the row keeps the compilation of its partial match.
UpgradeKeepsBuild(r) ==
    /\ At(r, "upgrade")
    /\ verified' = [verified EXCEPT ![chosen[r]].exact = TRUE]
    /\ Report(r, chosen[r])
    /\ GoTo(r, "done")
    /\ UNCHANGED <<contracts, deployments, compiled, links, signed,
                   dep, change, path, item, chosen>>

\* The partial row becomes the exact one, of this build.
Upgraded(r) == [verified[chosen[r]] EXCEPT !.build = Build[r], !.exact = TRUE]

UpgradeVerified(r) ==
    /\ At(r, "upgrade")
    /\ IF VerifiedConflict(chosen[r], dep[r], Build[r])
       THEN GoTo(r, "conflict") /\ UNCHANGED <<verified, result>>
       ELSE /\ verified' = [verified EXCEPT ![chosen[r]] = Upgraded(r)]
            /\ Report(r, chosen[r])
            /\ GoTo(r, "done")
    /\ UNCHANGED <<contracts, deployments, compiled, links, signed,
                   dep, change, path, item, chosen>>

InsertVerified(r) ==
    /\ At(r, "insert")
    /\ verified' = IF VerifiedConflict(0, dep[r], Build[r]) THEN verified
                   ELSE Append(verified, [dep |-> dep[r], build |-> Build[r],
                                          exact |-> IsExact(r)])
    /\ GoTo(r, IF r \in Legacy THEN "done" ELSE "refetchVerified")
    /\ UNCHANGED <<contracts, deployments, compiled, links, signed, locals>>

RefetchVerified(r) ==
    /\ At(r, "refetchVerified")
    /\ Report(r, Earliest(RowsOfDeployment(dep[r]) \cap RowsOfBuild(Build[r])))
    /\ GoTo(r, "done")
    /\ UNCHANGED <<tables, dep, change, path, item, chosen>>

-----------------------------------------------------------------------------
\* A run is interrupted between two statements: the alarm runs the job again
\* from its start, or the job fails, by an exception or by a conflict, and its
\* client submits it again.
Interrupt(r) ==
    /\ faults < MaxFaults
    /\ faults' = faults + 1
    /\ \/ pc[r] \in Working \cup {"conflict"} /\ pc' = [pc EXCEPT ![r] = "idle"]
       \/ pc[r] \in Working /\ r \notin Legacy /\ pc' = [pc EXCEPT ![r] = "contract"]
    /\ UNCHANGED <<tables, locals, overlapped>>

Step(r) ==
    \/ Start(r) \/ FindContract(r) \/ InsertContract(r) \/ InsertContractConflicts(r)
    \/ FindDeployment(r) \/ FindNoDeployment(r) \/ UpdateDeployment(r)
    \/ InsertDeployment(r) \/ RefetchDeployment(r) \/ InsertDeploymentLegacy(r)
    \/ FindCompilation(r) \/ DecideReplace(r) \/ InsertCompilation(r)
    \/ DeleteSources(r) \/ InsertSource(r) \/ SourcesDone(r) \/ InsertSignatures(r)
    \/ InsertSignatureLegacy(r) \/ SignaturesDone(r)
    \/ FindVerified(r) \/ UpgradeVerified(r) \/ InsertVerified(r) \/ RefetchVerified(r)

Next == \E r \in Runs : Step(r) \/ Interrupt(r)

Spec == Init /\ [][Next]_vars

-----------------------------------------------------------------------------
(* Properties *)

\* The builds that have all of their signatures.
FullySigned == {b \in Builds : signed[b] = 1..NumSignatures}

\* A verification's signatures are all there, whatever was interrupted and
\* whichever route wrote them: a run that stopped between two of them has written
\* no verification, and one that finds its compilation inserts them all again.
VerifiedIsSigned == \A i \in RowIds : verified[i].build \in FullySigned

\* A row says exact just when its build is the code of its address, although
\* the row chosen for an upgrade may have been upgraded by another run since.
MatchIsTruthful ==
    \A i \in RowIds :
        verified[i].exact <=> verified[i].build = OnChain[deployments[verified[i].dep].address]

\* An exact verification is never rewritten or downgraded: the check for an
\* exact row is made before the update, but its effect holds after it.
ExactIsFinal ==
    [][\A i \in RowIds : verified[i].exact => verified'[i] = verified[i]]_verified

\* A completed job reports a verification of its own address, an exact one if
\* its match was exact, unless another run of the address overlapped with it.
ReportsOwnVerification ==
    \A r \in Runs : pc[r] = "done" /\ r \notin Legacy /\ Address[r] \notin overlapped =>
        /\ result[r] \in RowsOfAddress(Address[r])
        /\ IsExact(r) => verified[result[r]].exact

OneDeployment(a) == \A d, e \in DeploymentsOf(a) : d = e
OneVerification(a) == \A i, k \in RowsOfAddress(a) : i = k

\* Where no runs have overlapped, an address has one deployment and one
\* verification, whatever was interrupted: a lookup that takes the first row
\* takes the only one.
SerialRunsShareRows ==
    \A a \in Addresses \ overlapped : OneDeployment(a) /\ OneVerification(a)

\* The deployment of an exact verification names the contract of its build,
\* if it was first inserted for a partial match, too.
ExactDeploymentNamesBuild ==
    \A i \in RowIds :
        verified[i].exact /\ deployments[verified[i].dep].address \notin overlapped =>
            deployments[verified[i].dep].build = verified[i].build

\* Both: where no runs overlap, a job and its rows tell of its own contract.
SerialRunsReport == ReportsOwnVerification /\ ExactDeploymentNamesBuild

\* Once no run is working, every verified build has all of its sources ...
VerifiedHasSources ==
    (\A r \in Runs : pc[r] \notin Working) =>
        \A i \in RowIds : links[verified[i].build] = 1..NumPaths

\* ... provided that no run was interrupted, although runs that share the
\* build find its compilation while its sources are still being inserted, or
\* delete them to insert them again.
UninterruptedHasSources == faults = 0 => VerifiedHasSources
=============================================================================
