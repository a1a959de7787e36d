SPECIFICATION FairSpec
CONSTANTS
    NCPU = 2
    NENV = 3
    MAXGEN = 1
    NINICIAL = 2
    SCHED_PRIORITIES = FALSE
    MAX_EJECUCIONES_MLFQ = 1
    MAX_ENTRADAS = 0
    LIBOS = TRUE
INVARIANTS
    NoPanic
    OneCpuPerEnv
    StatusMatchesCpus
    FreeListExact
PROPERTIES
    ZombieFreedByItsTrap
    HaltsOnlyIdle
    ZombieFreed
