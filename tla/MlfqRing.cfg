SPECIFICATION RingSpec
CONSTANTS
    NENV = 2
    Ids = {id1, id2, id3}
    ColasUsadas <- MCColas
    MAX_INDICE = 6
SYMMETRY MCSimetria
PROPERTY ImplementsQueues
