SPECIFICATION Spec
CONSTANTS
    Envs = {e1, e2, e3}
    NMARCO = 7
    NVP = 3
    Datos = {0, 1}
    NULO = NULO
SYMMETRY Simetria
VIEW Vista
INVARIANTS
    SharedIsReadOnly
PROPERTIES
    ImplementsPrivateMemories
CHECK_DEADLOCK FALSE
