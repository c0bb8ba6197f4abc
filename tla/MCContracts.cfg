SPECIFICATION AllSpec
CONSTANTS
    Runs <- MCRuns
    Addresses <- MCAddresses
    Builds <- MCBuilds
    NoTx = "none"
    NoRun = "norun"
    Address <- MCAddress
    Build <- MCBuild
    Tx <- MCTx
    OnChain <- MCOnChain
    NumPaths = 2
    NumSignatures = 2
    MaxFaults = 1
    Legacy = {"other"}
    Compilations <- MCCompilations
    Codes <- MCCodes
    Push20 = "push20"
    Zero = "zero"
    Placeholder <- MCPlaceholder
    Auxdata = {"auxA", "auxB", "aux"}
    ContentHashes = {"auxA", "auxB"}
    Chains = {"main", "test"}
    Chain = "main"
    Limits = {1, 2}
    MaxId = 3
CHECK_DEADLOCK FALSE
INVARIANTS TypesOK VerifiedIsSigned MatchIsTruthful SerialRunsReport SerialRunsShareRows UninterruptedHasSources MatchIsFaithful WalkIsComplete
PROPERTIES ExactIsFinal
