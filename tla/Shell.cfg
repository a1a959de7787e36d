SPECIFICATION Spec
CONSTANTS
    NPID = 6
    Lineas <- MCLineas
    Directorios = {"casa", "tmp"}
    Entorno <- MCEntorno
    Clase <- MCClase
    Salidas <- MCSalidas
    Inexistentes <- MCInexistentes
    MAX_FALLOS = 1
INVARIANTS
    ForegroundDone
    LineAsTyped
    PipeEndsOwned
PROPERTIES
    PromptReturns
CHECK_DEADLOCK FALSE
