SPECIFICATION Spec
CONSTANTS
    Machines <- MCMachines
    NCPU = 3
    PT = 24
    KSTKSIZE = 2
    KSTKGAP = 1
    MPENTRY = 1
    IOPHYSMEM = 3
    EXTPHYSMEM = 5
    EXT16MEM = 24
    END = 13
    KERN_PAGES = 48
    INFOS_PER_PAGE = 16
    ENVS_PAGES = 1
    LAPIC_PAGE = 1000
    ENVIRONMENTS = 2
    NULL = NULL
\* The model ends where module Kernel begins.
CHECK_DEADLOCK FALSE
INVARIANTS
    FreeListClean
    WritesReachable
    LayoutHolds
    StacksPrivate
PROPERTY Boots
