SPECIFICATION Spec
CONSTANTS
    Hilos = {h1}
    Names = {a, b}
    INODES_AMOUNT = 3
    INITIAL_CONTENT_LENGTH = 1
    ENTRADA = 2
    MAX_DEPTH = 1
    MAX_SIZE = 1
    MAX_MONTAJES = 2
PROPERTIES
    EverythingSaved
CHECK_DEADLOCK FALSE
