SPECIFICATION StartupSpec
CONSTANTS
    p1 = p1
    p2 = p2
    k1 = k1
    k2 = k2
    k3 = k3
    Procs = {p1, p2}
    Keys = {k1, k2, k3}
    Configs <- MCConfigs
SYMMETRY Symmetry
INVARIANTS IdentityKept RanWasSaved FailedStartCloses ConfiguredFeaturesOn
