SPECIFICATION Spec
CONSTANTS
    Hilos = {h1}
    Names = {a, b}
    INODES_AMOUNT = 3
    INITIAL_CONTENT_LENGTH = 2
    ENTRADA = 2
    MAX_DEPTH = 2
    MAX_SIZE = 3
    MAX_MONTAJES = 2
SYMMETRY MCSimetria
INVARIANTS
    TreeConsistent
    PathsUnique
    AmountCovers
    SizeWithinBuffer
PROPERTIES
    RemountRestores
CHECK_DEADLOCK FALSE
