SPECIFICATION Spec
CONSTANTS
    Pages = {p1, p2, p3, p4, p5, p6}
    Envs = {e1, e2}
    CPUs = {c1, c2}
    NULO = NULO
    NPD = 2
    NPT = 1
    REF_MOD = 8
    PAGINAS_AJENAS = TRUE
SYMMETRY Simetria
INVARIANTS
    RefCounts
    FreePagesUnused
    TablesPrivate
    LoadedDirLive
PROPERTIES
    StaleOnlyByParent
    LostOnlyWhenExhausted
    ImplementsAddressSpaces
