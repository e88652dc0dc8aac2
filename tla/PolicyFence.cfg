\* Bootstraps and dispatches of two replicas while three builds roll out and back.
SPECIFICATION FenceFairSpec
CONSTANTS
    r1 = r1
    r2 = r2
    f1 = f1
    f2 = f2
    f3 = f3
    NoFingerprint = NoFingerprint
    Replicas <- MCReplicas
    Dispatchers <- MCDispatchers
    Fingerprints <- MCFingerprints
    MaxBoots = 4
\* A replica that is up need not dispatch, and need not boot again.
CHECK_DEADLOCK FALSE
INVARIANTS
    TypeOK
    AdjacentRevisionsDiffer
    SyncedRevisionIsOurs
    LogCoversAdvances
    ConvergenceErrorNeedsContention
PROPERTIES
    BootTerminates
    DeploymentFencesGrant
