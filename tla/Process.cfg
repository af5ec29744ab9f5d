CONSTANTS
    Replicas = {p1, p2, p3}
    Processes = {p1, p2}
    Probes = {i1, i2}
    None = None
    Latest = 3
    MaxFaults = 2
    BaseLayers <- MCBaseLayers
    ProfileLayers <- MCProfileLayers
    EnvLayers <- MCEnvLayers
SPECIFICATION MCSpec
INVARIANTS ProcessTypes OneRunsTheJob ReadyIsConjunction LifecycleSound MigrationSound ServingIsGuarded
PROPERTIES OnlyOwnerUnlocks UpReachesLatest NothingWaitsForEver
CHECK_DEADLOCK FALSE
