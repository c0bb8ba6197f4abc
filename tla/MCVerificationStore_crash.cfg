SPECIFICATION Spec
CONSTANTS
    Runs <- MCRuns
    Addresses <- MCAddresses
    Builds <- MCBuilds
    NoTx = "none"
    NoRun = "norun"
    Address <- MCAddress
    Build <- MCBuild
    Tx <- MCTx
    OnChain <- MCOnChain
    NumPaths = 2
    NumSignatures = 2
    MaxFaults = 1
    Legacy = {}
CHECK_DEADLOCK FALSE
INVARIANTS VerifiedHasSources
