SPECIFICATION FairSpec
CONSTANTS
    NCPU = 1
    NENV = 3
    MAXGEN = 2
    NINICIAL = 2
    SCHED_PRIORITIES = TRUE
    MAX_EJECUCIONES_MLFQ = 2
    MAX_ENTRADAS = 3
    LIBOS = FALSE
INVARIANTS
    RunnableQueued
PROPERTIES
    PriorityRespectedIfUnique
    RunnableRuns
