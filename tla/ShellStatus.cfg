SPECIFICATION Spec
CONSTANTS
    NPID = 3
    Lineas <- SoloFalse
    Directorios = {"casa", "tmp"}
    Entorno <- MCEntorno
    Clase <- MCClase
    Salidas <- MCSalidas
    Inexistentes = {}
    MAX_FALLOS = 0
PROPERTY StatusIsOutcome
CHECK_DEADLOCK FALSE
