SPECIFICATION Spec
CONSTANTS
    Envs <- MC_Envs
    Values <- MC_Values
    Frames = {f1, f2}
    Contents = {"zero", "str1", "str2"}
    ZERO = "zero"
    NADA = NADA
    PROGRAMAS = {"primes", "pingpong", "sendpage", "fairness"}
    MAX_ENTERO = 7
PROPERTIES
    ImplementsRendezvous
    PrintsAll
    SomebodyIsServed
CHECK_DEADLOCK FALSE
