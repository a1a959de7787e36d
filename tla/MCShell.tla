------------------------------ MODULE MCShell ------------------------------
EXTENDS Shell

\* One line of each shape, and no program twice in a line:
\*   cd tmp
\*   false $NADA $?
\*   sleep &
\*   yes $V | V=1 head | V=1 HOME=2 V=3 cat > g
\*   cat < f > f 2>&1 > g | nada
\*   cd < no & | cat             which is no cd, and no cd is in the path
MCLineas ==
    {<<Palabra("cd"), Palabra("tmp")>>,
     <<Palabra("false"), Variable("NADA"), Resultado>>,
     <<Palabra("sleep"), Ampersand>>,
     <<Palabra("yes"), Variable("V"), Barra, Asigna("V", "1"), Palabra("head"), Barra,
       Asigna("V", "1"), Asigna("HOME", "2"), Asigna("V", "3"), Palabra("cat"), Salida("g")>>,
     <<Palabra("cat"), Entrada("f"), Salida("f"), ErrASal, Salida("g"), Barra, Palabra("nada")>>,
     <<Palabra("cd"), Entrada("no"), Ampersand, Barra, Palabra("cat")>>}

ASSUME LineasClaras == \A l \in Lineas \ {<<>>} : LineaClara(l)

MCEntorno == [HOME |-> "casa", V |-> "x", NADA |-> ""]

MCClase == [false |-> "corto", sleep |-> "corto", head |-> "corto", cat |-> "filtro", yes |-> "fuente"]

MCSalidas == [c \in DOMAIN MCClase |-> IF c = "false" THEN {256} ELSE {EXIT_0}]

\* The tests' shape for $?: a command that fails.
SoloFalse == {<<Palabra("false")>>}

MCInexistentes == {"no"}
=============================================================================
